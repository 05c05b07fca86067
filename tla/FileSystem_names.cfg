CONSTANTS
  Procs = {p1, p2}
  NINODES = 3
  Names = {"a", "b"}
  Calls <- MCCalls
  MaxCrashes = 1
SPECIFICATION FairSpec
INVARIANTS RefExact CrashSafe NothingLost CheckerExact
PROPERTY CallsEnd
