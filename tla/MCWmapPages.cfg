SPECIFICATION Spec
CONSTANTS
  MAX_WMMAP_INFO = 3
  PGSIZE = 4
  WORD = 128
  FixedAddrs = {52, 56}
  Lengths = {3, 8}
  FlagSets <- AnonOrFile
  NewSizes = {4}
  Touches = {52, 53, 57, 61}
  ImagePages = {0}
  FileSize = 6
  MemOutcomes = {"ok", "no frame", "no table"}
  MaxAddr = 75
  MinRef <- MCMinRef
  MaxLive = 2
  MaxLoads = 2
  MaxChildExits = 0
INVARIANTS
  InPlace
  OverlapOnlyFixed
CHECK_DEADLOCK FALSE
