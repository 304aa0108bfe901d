SPECIFICATION Spec
CONSTANTS
  Names = {"f"}
  Bytes = {x}
  Garbage = garbage
  Fds <- AnyDescriptors
  MaxLen = 2
INVARIANT OpensAtStart
