CONSTANTS
  Width = 5
  Byte = 2
  MaxCoins = 2
  MaxPresses = 3
  Resets = 2
  Portions = 2
  Faults = 4
  Cuts = 2
SPECIFICATION MCSpec
CHECK_DEADLOCK FALSE
INVARIANTS ShownIsMeant NeverTooMuch IdsFresh 
