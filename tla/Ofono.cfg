SPECIFICATION FairSpec
CONSTANTS
  Paths = {p1}
  FirstIndex = 100
  Persist = TRUE
  ForceSync = TRUE
  Stored = TRUE
  MaxAdded = 2
  MaxStarts = 2
  MaxPowered = 1
  MaxRefused = 1
  MaxRequests = 1
  MaxTotal = 5
INVARIANTS TypeOK ListFollowsOfono BlockReachesModem StateIsTheModems
PROPERTY Quiesces
\* The bounds are used up: the system may stop.
CHECK_DEADLOCK FALSE
