SPECIFICATION FlashSpec
CONSTANTS
  Names = {n1, n2, n3}
  NoName = none
  Revs = {"r1", "r2"}
  Refires = FALSE
  Retries = 0
  MaxMishaps = 0
  MaxEdits = 2
  MaxRows = 1
INVARIANTS
  LogNamesWhatWasFlashed
CHECK_DEADLOCK FALSE
