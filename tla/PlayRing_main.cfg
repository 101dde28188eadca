SPECIFICATION FairSpec
CONSTANTS
  NBUF = 6
  UNITS = 2
  PRIME = 4
  PRIME_MIN = 3
  PRIME_QUIET = 1
  ABANDON = 2
  StopCanFail = TRUE
  MaxUnits = 14
  MaxRepeats = 1
  MaxStarts = 2
  MaxPortChanges = 2
INVARIANTS
  PlaysWhatLanded
  ShortPlaybackStarts
PROPERTIES
  EmissionInOrder
  HostLossIsNoticed
CHECK_DEADLOCK FALSE
