SPECIFICATION Spec
CONSTANTS
  Values = {z, a}
  Zero = z
  Base = 1
  PageSize = 1
  NPages = 2
  Windows = TRUE
  Prots = {"RW", "RWSTACK"}
  Ranges <- PageRanges
  Arena <- WholeBlock
  MaxSaves = 1
  GuestReplacesStacks = FALSE
CONSTRAINT UntilPoisoned
INVARIANTS
  TypeOK
  CleanIsBaseline
PROPERTIES
  TouchNotForgotten
  ImplementsMachine
CHECK_DEADLOCK FALSE
