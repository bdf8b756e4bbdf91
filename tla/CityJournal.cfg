\* Two terminals and four journals: commands that overlap, a report, searches,
\* draws; a day has two ticks.
SPECIFICATION MCSpec
CONSTANTS
  Word <- Words
  Searchable <- Latin
  Lower <- Smaller
  AsciiLower <- AsciiSmaller
  SCALE = 10
  Ratio <- Alike
  WEAK_MATCH_LIMIT = 2
  Terminal = {t1, t2}
  Wanted <- AllCommands
  RECENT_DAYS = 1
  LONG_AGO_DAYS = 2
  DAY = 2
  TOP_TAG_LIMIT = 2
  NULL = NULL
  Horizon = 6
  MaxPlaces = 3
  MaxVisits = 2
SYMMETRY Interchangeable
INVARIANTS
  FlagsAreKept
  NoTagIsOrphaned
  ReportsAgree
  StrongOrClosest
  OrderIsOfTheData
  NoFieldCosts
  OddsFollowTheReason
PROPERTIES
  VisitHitsItsPlace
