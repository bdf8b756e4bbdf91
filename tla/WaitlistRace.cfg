\* Two requests at a time, two parties.
SPECIFICATION Spec
CONSTANTS
  Process = {p1, p2}
  Wanted <- Queue
  Minutes <- OneLimit
  NULL = NULL
  Horizon = 2
  MaxEntries = 2
SYMMETRY Interchangeable
INVARIANTS
  OneWinner
  StampsTellTheStory
  FirstComeFirstServed
PROPERTIES
  ImplementsContract
  AnswersAreSwept
