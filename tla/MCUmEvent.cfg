SPECIFICATION Safety
CONSTANTS
  Requested = 1
  MaxThreads = 1
  Tests = 1
  Configs = 1
  Suites = 1
  Engines = 1
  MaxOps = 1
  Handle = {h1, h2, h3, h4, h5}
  NULL = NULL
  Closed = Closed
  Garbage = Garbage
  Address = Address
INVARIANTS
  WorkersAwaitEvent
