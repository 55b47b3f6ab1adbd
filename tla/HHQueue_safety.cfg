CONSTANTS
  Payloads <- SmallPayloads
  MaxSegmentSize = 5
  MaxSize = 12
  MaxAge = 0
  Horizon = 1
  StartID = 0
  MaxID = 5
  MaxHints = 4
  MaxRestarts = 1
  Nil = Nil
SPECIFICATION Spec
INVARIANTS
  TypeOK
  FilesParse
  NoStrayFiles
  NoOtherLoss
  InOrder
  DiskBounded
PROPERTY
  NoResurrection
