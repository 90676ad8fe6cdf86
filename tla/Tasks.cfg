SPECIFICATION TasksSpec
CONSTANTS
  Idle = 1
  NoThread = 0
  Thread <- MCThread
  Timeslice <- MCTimeslice
  MaxEntries = 0
  InitThread = 5
  MaxPid = 3
  NoProcess = NoProcess
PROPERTY
  ZombiesAreNotDispatched
