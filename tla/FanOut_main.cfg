SPECIFICATION FanSpec
CONSTANTS
  Subscribers = {c1, c2}
  Capacity = 2
  MaxDelivered = 3
  MaxRequests = 2
  MaxEvents = 1
INVARIANTS
  CountTellsGap
  AtMostOneAfter
SYMMETRY Symmetry
CHECK_DEADLOCK FALSE
