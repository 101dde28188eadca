SPECIFICATION Spec
CONSTANTS
  NBUF = 4
  CHUNKS = 2
  BUDGET = 2
  StopCanFail = FALSE
  StartWhileActive = FALSE
  MaxBuffers = 7
  MaxLosses = 1
  MaxStarts = 1
  MaxPortChanges = 1
INVARIANTS
  FlagMarksTheBreak
CHECK_DEADLOCK FALSE
