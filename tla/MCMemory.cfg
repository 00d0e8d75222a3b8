CONSTANTS
  Procs = {p1, p2}
  InitProc = p1
  NPAGES = 20
  PGSIZE = 2
  ImagePages = 3
  ZonePages = 2
  NBLOCKS = 2
  NKTAB = 1
  Grows <- GrowsAndShrinks
  Images = {1}
  MaxLoads = 2
  UnmapsShared = FALSE
SPECIFICATION Spec
INVARIANTS
  PagesAccounted
  PanicOnlyWhenOut
PROPERTIES
  OnlyKnownLeaks
VIEW Shape
CHECK_DEADLOCK FALSE
