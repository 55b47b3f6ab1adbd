SPECIFICATION FairSpec
CONSTANTS
    N = 2
    Callers = {c1}
    Other = other
    MaxIndex = 4
    maxRetries = 1
    MaxFails = 1
    MaxLocal = 1
INVARIANTS
    TypeOK
    NilMeansCommitted
    ErrorsOnlyWhenCutOff
PROPERTIES
    ReadsItsWrites
    CallsReturn
CHECK_DEADLOCK FALSE
