SPECIFICATION Spec
CONSTANTS
  Names = {"f"}
  Bytes = {x, y}
  Garbage = garbage
  Fds <- Descriptors
  MaxLen = 2
INVARIANTS
  TypeOK
  OpensAtStart
  PositionsInFiles
  MatchesAreUnique
PROPERTY ImplementsTable
