SPECIFICATION FairSpec
CONSTANTS
  A = A
  B = B
  Idle = Idle
  NoThread = NoThread
  Thread <- MCPair
  Timeslice <- MCPairSlice
  MaxEntries <- MCMaxEntries
PROPERTY
  ReadyThreadsRun
