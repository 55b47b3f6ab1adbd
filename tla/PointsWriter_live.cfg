CONSTANTS
  n1 = n1
  n2 = n2
  n3 = n3
  s1 = s1
  s2 = s2
  Nodes = {n1, n2, n3}
  Local = n1
  Shards = {s1, s2}
  Owners <- OwnerlessShard
  Levels <- AllLevels
SPECIFICATION FairSpec
CHECK_DEADLOCK FALSE
PROPERTIES
  GoroutinesFinish
  NoOwnerIsForgotten
