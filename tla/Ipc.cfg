SPECIFICATION Spec
CONSTANTS
  FirstPipe = 100
  Capacity = 2
  MaxPipes = 2
  MaxBytes = 3
  Size = 2
  Process = {p1}
  Signal = {"SIGTERM", "SIGKILL"}
  Unblockable = {"SIGKILL"}
  MaxSignals = 2
INVARIANTS
  BytesInOrder
  TakenInOrder
  KillsArrive
PROPERTY
  LossOnlyWhenFull
