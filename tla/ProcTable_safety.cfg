CONSTANTS
  NPROC = 3
  NCPU = 2
  NPGDIR = 4
  KillPids = {0, 3}
  Loads <- SafetyLoads
SPECIFICATION Spec
INVARIANTS TypeOK NoLostExit FamilyTree EmbryoOwned PidUnique StopsOnlyForEmbryo
PROPERTIES FreedAtLastReference
CHECK_DEADLOCK FALSE
