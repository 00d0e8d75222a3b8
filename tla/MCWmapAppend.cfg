SPECIFICATION Spec
CONSTANTS
  MAX_WMMAP_INFO = 3
  PGSIZE = 4
  WORD = 192
  FixedAddrs = {0}
  Lengths = {3, 6}
  FlagSets <- PlacedByKernel
  NewSizes = {}
  Touches = {72, 76, 80, 84}
  ImagePages = {0}
  FileSize = 6
  MemOutcomes = {"ok"}
  MaxAddr = 91
  MinRef <- MCMinRef
  MaxLive = 2
  MaxLoads = 2
  MaxChildExits = 0
INVARIANTS
  LoadedCount
PROPERTIES
  UnmapClears
CHECK_DEADLOCK FALSE
