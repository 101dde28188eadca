SPECIFICATION Spec
CONSTANTS
  IDS = 5
  IDLE = 1
  TIMEOUT = 2
  Kinds <- SomeKinds
  JunkSkip = 1
  MaxTools = 2
  MaxRequests = 2
  MaxBeats = 2
  MaxCuts = 1
  MaxFaults = 2
INVARIANTS
  WireIsWhole
  NoGhost
  NoReplyMistaken
  SilenceRestores
PROPERTIES
  LostBeatShows
CHECK_DEADLOCK FALSE
