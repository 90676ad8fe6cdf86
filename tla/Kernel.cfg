SPECIFICATION KernelSpec
CONSTANTS
  Name <- MCName
  Symbol <- MCSymbol
  Exports <- MCExports
  Builtin <- MCBuiltin
  MayFail <- MCMayFail
  BlockSizes <- MCBlockSizes
  HeapBase = 0
  MaxHeap = 1300
  MaxProcess = 2
INVARIANTS
  BootedMeansAllSucceeded
  DepsLoaded
  SomethingCanBeUnloaded
  SymbolsMatch
  SafeModeLoadsNothing
  HeapBlocksApart
PROPERTY
  BootedKernelIsReady
