SPECIFICATION FairSpec
CONSTANTS
  Readers = {r1}
  Writers = {w1, w2}
  PIPESIZE = 2
  WORD <- TwoBuffers
  STREAM <- BufferAndOne
  MaxBytes = 3
  MaxKills = 1
INVARIANTS
  StreamIntact
  NoLostWakeup
  FreedUnused
PROPERTIES
  CallsEnd
CHECK_DEADLOCK FALSE
