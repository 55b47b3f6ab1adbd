CONSTANTS
  w1 = w1
  w2 = w2
  Writers <- TwoWriters
  Purger = Purger
  Closer = Closer
  MaxProcs = 2
  MaxWrites = 2
  RetryInterval = 1
  RetryMaxInterval = 2
  PurgeInterval = 2
  LookupErrors = FALSE
  Nil = Nil
SPECIFICATION Spec
CHECK_DEADLOCK FALSE
INVARIANTS
  TypeOK
  OneQueuePerDirectory
  ClosedIsQuiet
  MapEntryIsUsable
