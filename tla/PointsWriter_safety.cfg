CONSTANTS
  n1 = n1
  n2 = n2
  n3 = n3
  s1 = s1
  s2 = s2
  Nodes = {n1, n2, n3}
  Local = n1
  Shards = {s1}
  Owners <- ThreeOwners
  Levels <- AllLevels
SPECIFICATION Spec
CHECK_DEADLOCK FALSE
INVARIANTS
  TypeOK
  AckMeetsLevel
  VerdictIsExact
