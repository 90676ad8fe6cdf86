SPECIFICATION Spec
CONSTANTS
  NoOwner = NoOwner
  Pids <- MCPids
  Addresses <- MCAddresses
  Sizes <- MCSizes
  MapFlags <- MCMapFlags
  PageSize = 2
  TextStart = 2
  DataStart = 4
  BssStart = 6
  StackStart = 40
  StackSize = 4
  MaxAreas = 8
  NumFrames = 6
INVARIANT
  AreasAreBacked
PROPERTIES
  FramesNeverStolen
  FramesPayForAreas
  AccessStays
