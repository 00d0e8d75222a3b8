CONSTANTS
  Procs = {"p", "q"}
  FirstProc = "p"
  Names = {"a", "b"}
  Programs = {"a"}
  NINODES = 4
  NINODE = 3
  NBLOCKS = 3
  NFILE = 1
  NOFILE = 2
  Calls <- MakesAndUses
SPECIFICATION Spec
INVARIANTS
  InodesConsistent
  DiskConsistent
  OnlyIputDeadlocks
  PanicsAreKnown
CHECK_DEADLOCK FALSE
