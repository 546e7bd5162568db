CONSTANTS
  DayLength = 20
  MaxTravelDays = 2
  kMaxDuration = 99
  kMaxTravelTime = 30
  kMaxTransfers = 2
  MaxDelta = 90
  Hour = 2
  kMaxSearchIntervalSize = 100
  kMinLookAhead = 20
  kMaxLookAhead = 45
  Searches <- MCSearches
SPECIFICATION Spec
INVARIANTS CompleteForInterval NoPongFails EventsInReach EveryLegFound JourneysCanBeTravelled ViasStayVisited
PROPERTIES Terminates
