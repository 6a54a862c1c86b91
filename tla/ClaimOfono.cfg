SPECIFICATION Spec
CONSTANTS
  Paths = {p1}
  FirstIndex = 100
  Persist = TRUE
  ForceSync = TRUE
  Stored = TRUE
  MaxAdded = 2
  MaxStarts = 2
  MaxPowered = 2
  MaxRefused = 1
  MaxRequests = 0
  MaxTotal = 5
INVARIANT PathAlwaysFree
\* The bounds are used up: the system may stop.
CHECK_DEADLOCK FALSE
