SPECIFICATION Spec
CONSTANTS
  Values = {z, a}
  Zero = z
  Base = 1
  PageSize = 1
  NPages = 2
  Windows = TRUE
  Prots = {"RW", "RWSTACK"}
  Ranges <- PageRanges
  Arena <- WholeBlock
  MaxSaves = 1
  GuestReplacesStacks = TRUE
PROPERTY
  TouchNotForgotten
CHECK_DEADLOCK FALSE
