SPECIFICATION LoaderSpec
CONSTANTS
  DayLength = 6
  MaxTravelDays = 3
  ServiceId <- MCServiceId
  NEvents = 4
  Feeds <- MCFeeds
  FirstDay = 1
  LastDay = 4
  WeekLength = 3
  NoonOffset <- MCNoonOffset
  MaxDwell = 2
  MaxSteps = 5
  Assisted <- MCAssisted
  AssistedClasses = {"rail"}
INVARIANTS NoOvertaking NothingLost EarliestFound
CHECK_DEADLOCK FALSE
