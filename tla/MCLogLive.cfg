SPECIFICATION FairSpec
CONSTANTS
  Procs = {p1, p2, p3}
  Blocks = {b1, b2, b3}
  Vals = {v1}
  None = None
  LOGSIZE = 4
  MAXOPBLOCKS = 2
  LogBlocks = 3
  OpBlocks = 1
INVARIANT NoPanic
PROPERTY Woken
PROPERTY Settles
