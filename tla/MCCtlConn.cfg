SPECIFICATION Spec
CONSTANTS
  c1 = c1
  c2 = c2
  NoClient = NoClient
  Client <- MCClient
  Scripts <- MCScripts
  NConn = 1
  CAP = 2
  SockBuf = 1
  MaxEvents = 1
INVARIANTS TypeOK LinesIntact
PROPERTIES CutOnlyIfDone EventuallyServed
