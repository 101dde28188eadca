SPECIFICATION Spec
CONSTANTS
  MaxStarts = 2
  MaxFrames = 1
  MaxFaults = 0
  ReaderMayStall = FALSE
INVARIANTS
  StopStopsTheDevice
CHECK_DEADLOCK FALSE
