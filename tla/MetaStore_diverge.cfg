SPECIFICATION Spec
CONSTANTS
    Servers = {s1, s2}
    DataAddrs = {a1, a2, a3}
    MetaAddrs = {}
    Databases = {db}
    Policies = {autogen}
    Users = {}
    AutoGen = autogen
    AutoSGD = 1
    RetentionAutoCreate = {TRUE}
    PolicySpecs = {}
    Durations = {}
    ReplicaNs = {}
    Times = {0}
    MaxIndex = 7
    MaxLag = 1
SYMMETRY Symmetry
INVARIANT
    ServersAgree
CHECK_DEADLOCK FALSE
