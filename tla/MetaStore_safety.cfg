SPECIFICATION Spec
CONSTANTS
    Servers = {s1, s2}
    DataAddrs = {a1, a2, a3}
    MetaAddrs = {a1, a2}
    Databases = {db}
    Policies = {autogen, rp}
    Users = {u}
    AutoGen = autogen
    AutoSGD = 2
    RetentionAutoCreate = {TRUE, FALSE}
    PolicySpecs <- SmallSpecs
    Durations = {0, 1}
    ReplicaNs = {0, 3}
    Times = {0, 1}
    MaxIndex = 7
    MaxLag = 1
SYMMETRY Symmetry
INVARIANTS
    TypeOK
    OnlyMovesShareIDs
    LiveShardsAreOwned
    LiveGroupsAreDisjoint
PROPERTIES
    OwnersKeepTheirShards
    IDsAreNotReused
    NewGroupsAreSpread
CHECK_DEADLOCK FALSE
