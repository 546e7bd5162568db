SPECIFICATION Spec
CONSTANTS
  Networks <- MCNetworks
  RtUpdates <- MCRtUpdates
  Queries <- MCQueries
  MaxUpdates = 2
  MaxTravelTime = 9
INVARIANTS Admissible
PROPERTY Terminates
CHECK_DEADLOCK FALSE
