SPECIFICATION Safety
CONSTANTS
  a = a
  b = b
  c = c
  Null = Null
  Char <- Char8
  Slot <- Char8
  HashChar <- Hash8
  Patterns <- PatternsFew
  Texts <- TextsFew
  IntMax = 15
  Arch = "x64"
  KernelThreshold = 4
  MinVectorText = 5
  LongPattern = 3
  LaneLen = 2
  ShortLanes = 2
  LongLanes = 1
  MaskBits = 1
  MaxInits = 1
INVARIANTS
  VectorNeedsAVX2
