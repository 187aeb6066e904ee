SPECIFICATION Spec
CONSTANTS
  a = a
  b = b
  Client <- MCClient
  Options <- MCOptions
  Nr <- MCNr
  MaxTime = 1
  QueueMax = 1
  MaxCalls = 2
  WordBits = 64
INVARIANTS TypeOK GoodbyeLeavesNothing PayloadReady EgressOrNothing ApprovedOnly
PROPERTIES StopTakesEffect CellEnds TimeoutEnds EveryClientEnds
CHECK_DEADLOCK FALSE
