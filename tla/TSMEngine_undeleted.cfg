SPECIFICATION Spec
CONSTANTS
    Keys = {k1}
    Leftover = {}
    MaxWrites = 1
    MaxDeletes = 1
    MaxGen = 3
    MaxSeq = 2
    MaxRestarts = 2
INVARIANT
 QuietDeletesAreFinal
CHECK_DEADLOCK FALSE
