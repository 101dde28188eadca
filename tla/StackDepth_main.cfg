SPECIFICATION Spec
CONSTANTS
  Main = "main"
  Helpers = {"f", "g"}
  Handlers = {"i", "j", "k"}
  Unfollowed = "unfollowed"
  Images <- Graphs
  Frame <- Bytes
  EXC_FRAME = 3
  Levels = {1, 2}
  Undeclared = undeclared
  Off = off
  NoNumber = none
  MaxNesting = 10
INVARIANTS
  BoundHolds
CHECK_DEADLOCK FALSE
