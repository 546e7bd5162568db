SPECIFICATION Spec
CONSTANTS
  Feeds <- MCFeeds
INVARIANTS TripsStillRun NoDuplicateLeft WalksAreClosed
