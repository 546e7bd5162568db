CONSTANTS
  DayLength = 20
  MaxTravelDays = 2
  kMaxDuration = 99
  kMaxTravelTime = 30
  kMaxTransfers = 2
  MaxDelta = 90
  Searches <- MCSearches
SPECIFICATION Spec
INVARIANTS FindsTheBest Reconstructible
