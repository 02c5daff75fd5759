SPECIFICATION Spec
CONSTANTS
  UserMode = FALSE
  Requested = 3
  MaxThreads = 2
  Tests = 1
  Configs = 2
  Suites = 1
  Engines = 2
  MaxOps = 2
INVARIANTS
  TotalInv
  NoUseAfterFree
  TotalIsComplete
  NoEarlySearch
  AllReturned
PROPERTIES
  TestsAdvance
  TestsEnd
