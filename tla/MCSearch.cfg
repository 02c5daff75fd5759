SPECIFICATION Spec
CONSTANTS
  a = a
  b = b
  c = c
  Null = Null
  Char <- Char16
  Slot <- Slot16
  HashChar <- Hash16
  Patterns <- Patterns16
  Texts <- Texts16
  IntMax = 15
  Arch = "x64"
  KernelThreshold = 4
  MinVectorText = 5
  LongPattern = 3
  LaneLen = 2
  ShortLanes = 2
  LongLanes = 1
  MaskBits = 2
  MaxInits = 2
INVARIANTS
  TypeOK
  IInv
  FindIsFirstMatch
  NothingSkipped
  SkipTableExact
  ReadsInBounds
  XStateBalanced
PROPERTIES
  StepsDescend
  CallReturns
  ImplementsFinder
