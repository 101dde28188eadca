SPECIFICATION FairSpec
CONSTANTS
  NBUF = 4
  CHUNKS = 2
  BUDGET = 2
  StopCanFail = TRUE
  StartWhileActive = FALSE
  MaxBuffers = 5
  MaxLosses = 1
  MaxStarts = 2
  MaxPortChanges = 2
INVARIANTS
  RingInv
  SourceHeld
  TornIsCounted
  FlagNotMissing
PROPERTIES
  SelectsWhole
  TransmissionEnds
CHECK_DEADLOCK FALSE
