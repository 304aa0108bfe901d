SPECIFICATION Spec
CONSTANTS
  Hosts = {1, 2, 3, 4}
  Region <- Regions
  MaxBlocks = 2
  Entries = {e, f}
  MaxThunks = 1
  self = 1
  NHeap = 2
  Values = {z, a}
  Zero = z
  ThreadSets = {t, u}
  MaxPos = 1
  MaxSaves = 1
CONSTRAINT SavesApart
INVARIANTS
  TypeOK
  ActiveAsAsked
  HeapIsMapped
  FaultsReachTheirBlock
  
PROPERTIES
  LoadRestoresOneState
  DrivesMachine
CHECK_DEADLOCK FALSE
