SPECIFICATION Spec
CONSTANTS
  T1 = T1  T2 = T2  P1 = P1  P2 = P2  Q = Q  x = x  y = y  z = z
  Transport = {T1, T2}
  Location = {P1, P2, Q}
  Trip = {x, y, z}
  Source = {"src"}
  TripId = {"a", "b"}
  NoTransport = NoTransport
  NoUpdate = NoUpdate  Scheduled = Scheduled  Skipped = Skipped
  NoId = NoId
  PropertiesIds = {NoId, "b"}
  MaxStops = 3
  MaxBitfields = 4
  MaxAdditional = 2
  Day <- MCDay
  StaticBitfields <- MCStaticBitfields
  StaticTraffic <- MCStaticTraffic
  LocationSeq <- MCLocationSeq
  TripSource <- MCTripSource
  TripRanges <- MCTripRanges
  Equivalences <- MCEquivalences
  StopUpdates <- MCStopUpdates
  AddedStops <- MCAddedStops
  InRtInterval <- MCInRtInterval
INVARIANTS NoDoubleService LocationIndexComplete AdditionalTripsFound
PROPERTIES OnlyRenamedTripsBreakStep ImplementsDayService
