SPECIFICATION Spec
CONSTANTS
  Values = {z, a}
  Zero = z
  Base = 1
  PageSize = 1
  NPages = 2
  Windows = FALSE
  Prots = {"R", "RW"}
  Ranges <- PageRanges
  Arena <- WholeBlock
  MaxSaves = 1
  GuestReplacesStacks = TRUE
INVARIANTS
  IInv
  NoUntrackedWrite
  BaselineKept
  FreeReadsZero
  LoadFindsSnapshots
PROPERTIES
  LoadRestores
CHECK_DEADLOCK FALSE
