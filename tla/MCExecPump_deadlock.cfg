SPECIFICATION Spec
CONSTANTS
  Tail4 = 2
  SockCap = 2
  PipeCap = 1
  Chunk = 2
  MaxIn = 4
  MaxOut = 3
  Statuses <- MCStatuses
INVARIANT NeverDeadlock
CHECK_DEADLOCK FALSE
