CONSTANTS
  NPROC = 4
  NFILE = 4
  NOFILE = 5
  NPIPE = 2
  PIPESIZE = 1
  BYTES = 2
  Cmds <- MCCmds
  Commands <- MCCommands
  Killable = {1, 2, 3, 4}
  MaxEvents = 2
SPECIFICATION FairSpec
INVARIANTS FilesExact SleepersHaveCause
 
CHECK_DEADLOCK FALSE
