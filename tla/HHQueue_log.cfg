CONSTANTS
  Payloads <- SmallPayloads
  MaxSegmentSize = 5
  MaxSize = 12
  MaxAge = 0
  Horizon = 0
  StartID = 0
  MaxID = 5
  MaxHints = 4
  MaxRestarts = 1
  Nil = Nil
SPECIFICATION FairSpec
PROPERTIES
  ImplementsLog
  EventuallyHandled
