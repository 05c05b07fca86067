\* Two processes in an address space of twelve pages of four bytes: the
\* heap can take an argument of sbrk() that is not a whole page, the stack
\* can grow, and two processes can use up the frames.
SPECIFICATION Spec
CONSTANTS
  p1 = p1
  p2 = p2
  Procs <- MCProcs
  INT_MAX = 127
  PGSIZE = 4
  USERTOP = 48
  WORD = 2
  Images <- MCImages
  Increments <- MCIncrements
  NFRAMES = 13
SYMMETRY Symmetry
CHECK_DEADLOCK FALSE
INVARIANTS LayoutExact 
