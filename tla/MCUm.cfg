SPECIFICATION Spec
CONSTANTS
  Requested = 1
  MaxThreads = 1
  Tests = 1
  Configs = 1
  Suites = 1
  Engines = 2
  MaxOps = 1
  Handle = {h1, h2, h3, h4, h5, h6}
  NULL = NULL
  Closed = Closed
  Garbage = Garbage
  Address = Address
INVARIANTS
  HandlesSound
  ExitsAfterTests
PROPERTIES
  ImplementsTests
  ProgramEnds
