SPECIFICATION ApiSpec
CONSTANTS
  A = A
  B = B
  Idle = Idle
  NoThread = NoThread
  Thread <- MCPair
  Timeslice <- MCPairSlice
  MaxEntries <- MCMaxEntries
INVARIANTS
  SliceBounds
  CurrentIsAwake
PROPERTIES
  WorkConserving
  OnlyRemoveForgets
