SPECIFICATION BootSpec
CONSTANTS
  Values = {zero, text, data, info, guest}
  Zero = zero
  Base = 2
  PageSize = 2
  NPages = 15
  Windows = FALSE
  Prots = {"NONE", "R", "RW", "RX", "RWX", "RWSTACK"}
  Ranges <- CallRanges
  Arena <- NoArena
  MaxSaves = 0
  GuestReplacesStacks = FALSE
  Setups <- SmallSetups
  StackSize = 4
  GuardSize = 2
  InfoSize = 1
  InfoData = info
  GuestData = guest
  GuestPages = {2, 4, 5, 6, 8}
  Text = text
  Data = data
INVARIANTS
  
  CallsAreTaken
  LoadedAsLinked
  
PROPERTIES
  KeepsToBlock
CHECK_DEADLOCK FALSE
