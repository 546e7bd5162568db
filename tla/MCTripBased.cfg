CONSTANTS
  DayLength = 20
  MaxTravelDays = 2
  kMaxDuration = 99
  kMaxTravelTime = 30
  kMaxTransfers = 3
  MaxDelta = 90
  QUERY_DAY_SHIFT = 2
  kTBMaxDayOffset = 5
  Searches <- MCSearches
SPECIFICATION Spec
INVARIANTS FindsTheBest JourneysFit
