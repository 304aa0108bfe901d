SPECIFICATION FairSpec
CONSTANTS
  Locks = {l}
  Plain = {p, q}
  NoAddr = nil
  Contexts = {0}
  Stores = {0}
  MaxTid = 3
  MaxSaves = 0
INVARIANTS
  TypeOK
  SleepersAreQueued
PROPERTIES
  NoOvertaking
  TurnsComeCloser
  
  
CHECK_DEADLOCK FALSE
