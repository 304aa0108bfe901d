SPECIFICATION Spec
CONSTANTS
  Names = {"f"}
  Bytes = {x}
  Garbage = garbage
  Fds <- Descriptors
  MaxLen = 2
INVARIANT ReadsAreDetermined
