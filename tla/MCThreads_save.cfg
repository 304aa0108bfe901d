SPECIFICATION Spec
CONSTANTS
  Locks = {l, m}
  Plain = {}
  NoAddr = nil
  Contexts = {0, 1}
  Stores = {0}
  MaxTid = 3
  MaxSaves = 1
SYMMETRY LockSymmetry
CONSTRAINT OneDiffers
INVARIANTS
  SleepersAreQueued
  OwnRegisters
  MutualExclusion
  WaitersAreServed
CHECK_DEADLOCK FALSE
