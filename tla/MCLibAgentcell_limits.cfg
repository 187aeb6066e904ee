SPECIFICATION Spec
CONSTANTS
  a = a
  b = b
  Owner <- MCOwner
  Want <- MCWant
  Slots <- MCSlots
  MaxPid = 3
  Delegated = TRUE
INVARIANT EveryCellLimited
CHECK_DEADLOCK FALSE
