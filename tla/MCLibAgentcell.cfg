SPECIFICATION Spec
CONSTANTS
  a = a
  b = b
  Owner <- MCOwner
  Want <- MCWant
  Slots <- MCSlots
  MaxPid = 3
  Delegated = FALSE
INVARIANTS ReleasedIsGone KeepsItsOwn
PROPERTY DropCompletes
CHECK_DEADLOCK FALSE
