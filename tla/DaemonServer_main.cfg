SPECIFICATION Spec
CONSTANTS
  Clients = {c1, c2}
  RecordQueue = 1
  WriterMayStall = FALSE
  MaxOps = 4
  MaxFrames = 3
  MaxRecordings = 1
  MaxErrors = 1
INVARIANTS
  HoleIsTold
  OneMutator
  StopLeavesNothing
PROPERTIES
  ControlReleased
CHECK_DEADLOCK FALSE
