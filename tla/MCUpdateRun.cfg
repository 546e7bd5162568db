SPECIFICATION Spec
CONSTANTS
  NStops = 3
  IsScheduled = TRUE
  MinDelta <- MCMinDelta
  MaxDelta = 14
  Epoch <- MCEpoch
  StaticTime <- MCStaticTime
  Ranges <- MCRanges
  Messages <- MCMessages
  Delays <- MCDelays
INVARIANTS Monotone CoverageComplete NoRtDataMeansScheduled CompleteUpdateDecides ResendChangesNothing
