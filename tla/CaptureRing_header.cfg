SPECIFICATION Spec
CONSTANTS
  NBUF = 4
  CHUNKS = 2
  BUDGET = 2
  StopCanFail = FALSE
  StartWhileActive = TRUE
  MaxBuffers = 7
  MaxLosses = 0
  MaxStarts = 2
  MaxPortChanges = 1
PROPERTIES
  HeaderNotOverLiveDma
CHECK_DEADLOCK FALSE
