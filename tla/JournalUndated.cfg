\* One terminal; a place that was rated and one on the wishlist are enough.
SPECIFICATION MCSpec
CONSTANTS
  Word <- Words
  Searchable <- Latin
  Lower <- Smaller
  AsciiLower <- AsciiSmaller
  SCALE = 10
  Ratio <- Alike
  WEAK_MATCH_LIMIT = 2
  Terminal = {t1}
  Wanted <- AllCommands
  RECENT_DAYS = 1
  LONG_AGO_DAYS = 2
  DAY = 2
  TOP_TAG_LIMIT = 2
  NULL = NULL
  Horizon = 6
  MaxPlaces = 3
  MaxVisits = 2
INVARIANT UndatedIsNeverVisited
