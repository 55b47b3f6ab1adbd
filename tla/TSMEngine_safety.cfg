SPECIFICATION Spec
CONSTANTS
    Keys = {k1}
    Leftover <- MergedName
    MaxWrites = 2
    MaxDeletes = 2
    MaxGen = 3
    MaxSeq = 2
    MaxRestarts = 1
INVARIANTS
    TypeOK
    AnsweredIsRecovered
PROPERTIES
    ReadsAreCurrent
    CompactionKeepsValues
CHECK_DEADLOCK FALSE
