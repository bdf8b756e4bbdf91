\* Three overlapping requests, two of which may fail.
SPECIFICATION FairSpec
CONSTANTS
  Request = {r1, r2, r3}
  NULL = NULL
  MaxChanges = 3
  MaxFailures = 2
CHECK_DEADLOCK FALSE
INVARIANTS
  FinishIsTrue
PROPERTIES
  PageCatchesUp
