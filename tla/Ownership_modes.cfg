SPECIFICATION Spec
CONSTANTS
  Tracks = {"bare_metal", "rtos"}
  Commands <- Everything
  StopsFirst = TRUE
  MaxCommands = 7
INVARIANTS
  NoMixing
  TransfersAreOwned
  StopIsComplete
PROPERTIES
  LoopStartsClean
CHECK_DEADLOCK FALSE
