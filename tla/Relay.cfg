\* Two tasks of one agent, created with and without a key, that compete for
\* its claims; two workers over a network that loses and delays; the server
\* restarts with other limits (and, without the workers, other leases).
SPECIFICATION MCFairSpec
CONSTANTS
  a = a
  in = in
  v = v
  Agent = {a}
  TaskId <- TwoTasks
  Input = {in}
  Payload = {v, w}
  Key = {k}
  NoKey = NoKey
  NULL = NULL
  LeaseSeconds <- Leases
  MaxAttempts <- Limits
  Horizon = 3
  Worker = {w1, w2}
  Identity <- Shared
  Upper <- Uppercase
  Tries = 2
INVARIANTS
  StatusMatchesAttempt
  OneActiveLease
  AcknowledgedIsStored
  RetriesStayAccepted
  CountedIsStored
  NoOverlap
PROPERTIES
  DeliveriesWithinLimit
  ExpiredLeaseIsDead
  ImplementsContract
  SilentWorkerLosesTask
