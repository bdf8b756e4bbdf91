\* Two transactions at a time; one API process already has a lower limit.
SPECIFICATION Spec
CONSTANTS
  p1 = p1
  p2 = p2
  Process = {p1, p2}
  TaskId <- TwoTasks
  Payload = {v}
  NULL = NULL
  LeaseSeconds = 2
  MaxAttempts <- RollingLimits
  Horizon = 4
  MaxId = 3
INVARIANTS
  NeverExpiredEarly
  AcknowledgedIsStored
PROPERTIES
  ImplementsContract
