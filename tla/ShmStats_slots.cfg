CONSTANTS
  Clients = {c1, c2, c3}
  maxClient = 2
  MaxSegs = 1
  Observed = {c1}
SPECIFICATION ShmFairSpec
INVARIANTS OwnSlot
PROPERTIES RefusedOnlyIfFull 
CHECK_DEADLOCK FALSE
