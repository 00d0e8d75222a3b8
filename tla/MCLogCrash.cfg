SPECIFICATION Spec
CONSTANTS
  Procs = {p1, p2}
  Blocks = {b1, b2, b3}
  Vals = {v1, v2}
  None = None
  LOGSIZE = 6
  MAXOPBLOCKS = 3
  LogBlocks = 3
  OpBlocks = 2
INVARIANTS
  LogConsistent
PROPERTIES
  AtomicDiskSpec
