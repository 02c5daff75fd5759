SPECIFICATION Safety
CONSTANTS
  CharBits = 2
  WordChars = 3
  MaxLen = 7
INVARIANTS
  IsMemChr
PROPERTIES
  NoFalseAlarm
