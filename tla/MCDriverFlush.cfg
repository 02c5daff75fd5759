SPECIFICATION Safety
CONSTANTS
  LogMax = 4
  Lines = 2
  ReferenceMayFail = FALSE
INVARIANTS
  PendingLogsFlushed
