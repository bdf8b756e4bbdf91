\* Two threads and notifications of several alerts, repeated and resolved.
SPECIFICATION FairSpec
CONSTANTS
  a = a
  b = b
  Request = {r1, r2}
  Alert = {a, b}
  Title <- OwnTitles
  Payloads <- Groups
  NULL = NULL
  Horizon = 1
INVARIANTS
  OneHandler
PROPERTIES
  EveryIncidentEnds
