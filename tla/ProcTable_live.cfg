CONSTANTS
  NPROC = 3
  NCPU = 2
  NPGDIR = 3
  KillPids = {2, 3}
  Loads <- LiveLoads
SPECIFICATION FairSpec
PROPERTIES WaitReturns KilledExits
CHECK_DEADLOCK FALSE
