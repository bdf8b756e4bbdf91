\* A repeat overtakes the directory of the alert it repeats.
SPECIFICATION Spec
CONSTANTS
  a = a
  b = b
  Request = {r1, r2}
  Alert = {a, b}
  Title <- OwnTitles
  Payloads <- Groups
  NULL = NULL
  Horizon = 1
INVARIANTS
  RunningIsHandled
