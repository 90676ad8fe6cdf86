SPECIFICATION CallsSpec
CONSTANTS
  Pids <- MCPids
  NoOwner = NoOwner
  NoProcess = NoProcess
  Addresses <- MCAddresses
  Sizes <- MCSizes
  MapFlags <- MCMapFlags
  Breaks <- MCBreaks
  PageSize = 2
  TextStart = 2
  DataStart = 4
  BssStart = 6
  HeapStart = 6
  MmapBase = 20
  StackStart = 40
  StackSize = 4
  MaxPid = 3
  MaxAreas = 5
  NumFrames = 4
PROPERTY
  ForkedSpaceIsFresh
