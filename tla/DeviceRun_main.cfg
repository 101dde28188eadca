SPECIFICATION Spec
CONSTANTS
  MaxStarts = 3
  MaxFrames = 2
  MaxFaults = 1
  ReaderMayStall = FALSE
INVARIANTS
  OnlyWholeFrames
  EveryFrameDelivered
  OneReader
  ClosedMeansStopped
CHECK_DEADLOCK FALSE
