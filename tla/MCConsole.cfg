SPECIFICATION Spec
CONSTANTS
  Cpus = {c0, c1}
  Locks = {"cons", "ptable"}
  None = None
  IntrCpu = c0
  Reader = r
  Others = {q}
  INPUT_BUF = 2
  WORD <- TwoRings
  Chars = {"x", "nl", "^D", "^U", "^H", "^P"}
  MaxRead = 2
INVARIANTS
  LocksHeld
  KeepsInterruptFlag
  ReaderServed
  OnlyExitDeadlocks
CHECK_DEADLOCK FALSE
