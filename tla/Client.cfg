SPECIFICATION FairSpec
CONSTANTS
  Path = {p1, p2}
  MaxValue = 2
  MaxEnumerations = 2
INVARIANTS TypeOK MirrorConverges AddedOnce ChangeIsSeen CacheCurrent
PROPERTY CatchesUp
\* The values and enumerations are used up: the system may stop.
CHECK_DEADLOCK FALSE
