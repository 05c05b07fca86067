CONSTANTS
  Threads = {t1, t2, t3}
  NoThread = none
  NCPU = 2
  QSIZE = 3
SPECIFICATION Spec
INVARIANTS LeavesWithLock NoLostSignalOneCpu RingExact NoDoubleRun
CHECK_DEADLOCK FALSE
