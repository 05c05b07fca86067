CONSTANTS
  ind = ind map = map ino = ino sup = sup
  p1 = p1 p2 = p2 p3 = p3
  Procs = {p1, p2, p3}
  NBUF = 3
  Sectors = {ind, map, ino, sup}
  Programs <- MCPrograms
  NoSector = NoSector NoOne = NoOne Junk = Junk
  MaxUpdates = 1
  MaxErrors = 1
SPECIFICATION FairSpec
INVARIANTS OneBuffer DriveServesHead OnDisk
PROPERTIES ImplementsCells RequestEnds
CHECK_DEADLOCK FALSE
