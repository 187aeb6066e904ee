SPECIFICATION Spec
CONSTANTS
  c1 = c1
  c2 = c2
  u1 = u1
  NoKey = NoKey
  Cgid <- MCCgid
  User <- MCUser
  Path <- MCPath
  Prefix <- MCPrefix
  Deny <- MCDeny
  PLEN = 3
  MaxCells = 1
  MaxPol = 2
  HashOrder <- MCHashOrder
  MaxDeaths = 1
INVARIANTS TypeOK ExitClears
PROPERTIES AckedIsEnforced DeniedWasAsked ListIsExact RequestAnswered
CHECK_DEADLOCK FALSE
