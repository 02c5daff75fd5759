SPECIFICATION KernelSpec
CONSTANTS
  LogMax = 6
  Lines = 8
  ReferenceMayFail = FALSE
  Requested = 1
  MaxThreads = 1
  Tests = 1
  Configs = 1
  Suites = 1
  Engines = 2
  MaxOps = 1
INVARIANTS
  TypesOK
  LogIntact
  FileIsLogPrefix
  UnloadWaits
  UnloadLeavesNothing
PROPERTIES
  UnloadCompletes
  ImplementsDriver
  KernelAdvances
