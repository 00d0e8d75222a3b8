SPECIFICATION FairSpec
CONSTANTS
  NPROC = 3
  Cpus = {0, 1}
  WORD = 2
  Durations = {1}
  Targets = {2, 3}
  MaxPid = 3
INVARIANTS
  OneProcessor
  EmbryoOwned
  ChildrenAwaited
PROPERTIES
  KilledDies
  OrphansReaped
