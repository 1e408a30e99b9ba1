CONSTANTS
  Size = 4
  Data = {d1, d2}
  Nothing = none
  Unset = unset
  Byte = 3
  Word = 9
  Interruptible = TRUE
  Restarts = TRUE
  MaxHeld = 5
SPECIFICATION Spec
INVARIANTS
  ReadToEnd
CHECK_DEADLOCK FALSE
