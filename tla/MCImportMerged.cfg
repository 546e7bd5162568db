SPECIFICATION Spec
CONSTANTS
  Feeds <- ThreeFeeds
INVARIANTS TripsStillRun
