SPECIFICATION FairLineageSpec
CONSTANTS
  NoProcess = NoProcess
  MaxPid <- MCMaxPid
INVARIANTS
  PidsConserved
  ChildrenAreForked
PROPERTIES
  OnlyZombiesLeave
  ReapedByForker
  ZombiesAreReaped
