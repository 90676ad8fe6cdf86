SPECIFICATION FairWaitSpec
CONSTANTS
  A = A
  B = B
  C = C
  Idle = Idle
  NoThread = NoThread
  Thread <- MCThread
  Timeslice <- MCTimeslice
  MaxEntries = 0
INVARIANTS
  ListsMatchStates
  OneRunning
  BoundedWait
PROPERTIES
  NoOvertaking
  ImplementsLifecycle
