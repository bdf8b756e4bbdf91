\* Staff pause the online waitlist and the administrator raises the no-show
\* time among joins, sweeps and changes of one party; every request comes to an
\* end.
SPECIFICATION FairSpec
CONSTANTS
  Process = {p1, p2}
  Wanted <- Settings
  Minutes <- TwoLimits
  NULL = NULL
  Horizon = 2
  MaxEntries = 1
INVARIANT
  StampsTellTheStory
PROPERTIES
  EditsDoNotCollide
  RequestsEnd
