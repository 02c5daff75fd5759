SPECIFICATION Safety
CONSTANTS
  Char     <- MCChar
  Patterns <- MCPatterns
  Texts    <- MCTexts
  IntMax   = 1000
  Null     = Null
INVARIANTS
  FindIsFirstMatch
  NothingSkipped
  ReadsInBounds
  TestTellsTheTruth
