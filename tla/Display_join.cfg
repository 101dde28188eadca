SPECIFICATION Spec
CONSTANTS
  Rates = {"fast"}
  CapOf <- RingSize
  Sizes = {1}
  Early = 1
  FrameCapacity = 2
  MaxDrain = 2
  Screen = 2
  Pre = 1
  SearchSpan = 2
  MaxRuns = 1
  MaxFrames = 4
  MaxLost = 0
  MaxFlags = 1
  MaxHoles = 1
INVARIANTS
  NeverJoined
CHECK_DEADLOCK FALSE
