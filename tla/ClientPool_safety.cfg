SPECIFICATION Spec
CONSTANTS
    Threads = {t1, t2, t3}
    Nodes = {n1}
    Conns = {1, 2, 3, 4, 5, 6}
    MaxCap = 1
    MaxIdle = 0
SYMMETRY Symmetry
INVARIANTS
    TypeOK
    OneUserPerConnection
    AnswersMatchRequests
    LimitExceededOnlyByRace
    OnlyRecursiveReadLockBlocks
CHECK_DEADLOCK FALSE
