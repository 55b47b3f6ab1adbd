CONSTANTS
  w1 = w1
  w2 = w2
  Writers <- TwoWriters
  Purger = Purger
  Closer = Closer
  MaxProcs = 1
  MaxWrites = 1
  RetryInterval = 1
  RetryMaxInterval = 2
  PurgeInterval = 2
  LookupErrors = FALSE
  Nil = Nil
SPECIFICATION FairSpec
CHECK_DEADLOCK FALSE
PROPERTY
  WritesReturn
