CONSTANTS
  DayLength = 60
  MaxTravelDays = 1
  LastDay = 4
  RtFrom = 0
  RtTo = 300
  Feeds <- MCFeeds
  kCleanUpInterval = 1
  kMatchRetention = 0
  MaxNow = 3
  MaxAlerts = 1
SPECIFICATION Spec
INVARIANTS InOrder MatchesFit ResendChangesNothing CompleteMessageDecides AlertsFound
