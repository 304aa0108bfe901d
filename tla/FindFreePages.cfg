SPECIFICATION Spec
CONSTANTS
  ArenaStart = 2
  ArenaCount = 7
  Lengths = {1, 2, 3, 8}
INVARIANTS
  ScanInv
  BestFit
PROPERTY
  Terminates
CHECK_DEADLOCK FALSE
