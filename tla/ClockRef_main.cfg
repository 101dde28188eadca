SPECIFICATION ClockSpec
CONSTANTS
  FRAME = 2
  WRAP = 4
  STALL = 6
  CLOCK = 16
  MaxTime = 22
  MaxResets = 3
INVARIANTS
  PairIsTrue
CHECK_DEADLOCK FALSE
