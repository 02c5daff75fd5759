SPECIFICATION Spec
CONSTANTS
  a = a
  b = b
  Null = Null
  Char <- Char8
  Slot <- Char8
  HashChar <- Hash8
  FullVerify = FALSE
  Patterns <- Patterns8
  Texts <- Texts8
  IntMax = 15
  Arch = "x64"
  KernelThreshold = 4
  MinVectorText = 5
  LaneLen = 2
  Lanes = 2
  WordBits = 3
  MaxInits = 1
INVARIANTS
  NothingSkipped
  AutomatonExact
  IInv
PROPERTIES
  StepsDescend
  ImplementsFinder
