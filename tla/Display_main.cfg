SPECIFICATION Spec
CONSTANTS
  Rates = {"fast", "slow"}
  CapOf <- RingSize
  Sizes = {1, 3}
  Early = 1
  FrameCapacity = 2
  MaxDrain = 2
  Screen = 2
  Pre = 1
  SearchSpan = 2
  MaxRuns = 2
  MaxFrames = 4
  MaxLost = 1
  MaxFlags = 1
  MaxHoles = 1
INVARIANTS
  NothingJoined
  MarkIsNear
PROPERTIES
  ShowsTheNewest
CHECK_DEADLOCK FALSE
