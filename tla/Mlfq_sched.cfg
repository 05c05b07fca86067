CONSTANTS
  NPROC = 3
  Top = 2
  clkPerPrio <- MCclkPerPrio
  clkWait <- MCclkWait
SPECIFICATION FairSpec
INVARIANTS SliceBounded
PROPERTIES EventuallyRuns
