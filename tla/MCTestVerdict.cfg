SPECIFICATION Safety
CONSTANTS
  UserMode = FALSE
  Requested = 1
  MaxThreads = 1
  Tests = 2
  Configs = 1
  Suites = 1
  Engines = 1
  MaxOps = 1
INVARIANTS
  SuccessMeansPassed
