CONSTANTS
  MaxPid = 4
  NTAB = 3
  MayFail = TRUE
SPECIFICATION FairShell
INVARIANTS JobsKept ForegroundOver
PROPERTIES PromptReturns
CHECK_DEADLOCK FALSE
