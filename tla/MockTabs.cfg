\* Two tabs, of one browser process or two.
SPECIFICATION Spec
CHECK_DEADLOCK FALSE
CONSTANTS
  Tab = {t1, t2}
  Seed <- SeedDb
  Wanted <- AllCalls
  NULL = NULL
  Horizon = 1
  MaxCalls = 4
  MaxTokens = 2
  MaxRestaurants = 2
SYMMETRY Interchangeable
INVARIANTS
  AccountsMatch
PROPERTIES
  ImplementsContract
