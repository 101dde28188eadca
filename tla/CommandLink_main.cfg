SPECIFICATION LinkSpec
CONSTANTS
  Sessions = {"s1", "s2"}
  MaxFailures = 2
  MaxSwitches = 1
INVARIANTS
  LadderSparesReaders
PROPERTIES
  BeatsResume
CHECK_DEADLOCK FALSE
