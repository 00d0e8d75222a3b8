SPECIFICATION Spec
CONSTANTS
  MAX_WMMAP_INFO = 3
  PGSIZE = 4
  WORD = 128
  FixedAddrs = {48, 52}
  Lengths = {6}
  FlagSets <- FixedOrNot
  NewSizes = {0, 8}
  Touches = {}
  ImagePages = {0}
  FileSize = 4
  MemOutcomes = {"ok"}
  MaxAddr = 59
  MinRef <- MCMinRef
  MaxLive = 3
  MaxLoads = 2
  MaxChildExits = 1
INVARIANTS
  TableInStep
  SortedStarts
PROPERTIES
  RegionsSpec
CHECK_DEADLOCK FALSE
