\* Two clients, each sending twice, equal or different requests for a key.
SPECIFICATION LFairSpec
CONSTANTS
  Client = {c1, c2}
  Key = {k1, k2}
  Body = {x, y}
  NULL = NULL
  Tries = 2
  Rank <- SomeOrder
  Time = {2, 3}
  SECOND = 2
  Limit = 1
CHECK_DEADLOCK FALSE
INVARIANTS
  KeyNamesOneTask
  AnswersTellTheTask
  RaceIsNoError
  WalkIsComplete
PROPERTIES
  EveryoneAnswered
