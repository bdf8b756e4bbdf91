\* Two transactions recover the same two leases in different orders.
SPECIFICATION Spec
CONSTANTS
  p1 = p1
  p2 = p2
  Process = {p1, p2}
  TaskId <- TwoTasks
  Payload = {v}
  NULL = NULL
  LeaseSeconds = 2
  MaxAttempts <- SameLimits
  Horizon = 4
  MaxId = 4
INVARIANTS
  CannotDeadlock
