SPECIFICATION Spec
CONSTANTS
  Tail4 = 2
  SockCap = 2
  PipeCap = 1
  Chunk = 2
  MaxIn = 4
  MaxOut = 3
  Statuses <- MCStatuses
INVARIANTS TypeOK StatusExact OnlyOutputPrinted StdinIntact
PROPERTY Returns
CHECK_DEADLOCK FALSE
