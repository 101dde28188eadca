SPECIFICATION Spec
CONSTANTS
  IDS = 5
  IDLE = 1
  TIMEOUT = 2
  Kinds <- SomeKinds
  JunkSkip = 1
  MaxTools = 2
  MaxRequests = 2
  MaxBeats = 0
  MaxCuts = 0
  MaxFaults = 1
INVARIANTS
  LateReplyNotMistaken
CHECK_DEADLOCK FALSE
