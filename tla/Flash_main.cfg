SPECIFICATION FairSpec
CONSTANTS
  Names = {n1, n2}
  NoName = none
  Revs = {"r1", "r2"}
  Refires = TRUE
  Retries = 1
  MaxMishaps = 2
  MaxEdits = 2
  MaxRows = 2
INVARIANTS
  SuccessIsWritten
  AttributionIsTrue
PROPERTIES
  OthersSpared
  Recovers
CHECK_DEADLOCK FALSE
