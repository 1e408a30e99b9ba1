CONSTANTS
  Size = 4
  Data = {d1, d2}
  Nothing = none
  Unset = unset
  Byte = 3
  Word = 9
  Interruptible = TRUE
  Restarts = FALSE
  MaxHeld = 5
SPECIFICATION Spec
INVARIANTS
  CountIsFill
CHECK_DEADLOCK FALSE
