-------------------------- MODULE GtfsRtUpdateProofs --------------------------
(***************************************************************************)
(* Proofs about GtfsRtUpdate.  First what each operation of the real-time  *)
(* timetable does to its fields, then the invariants operation by          *)
(* operation, then the handler's actions.                                  *)
(***************************************************************************)
EXTENDS GtfsRtUpdate, TLAPS, SequenceTheorems, FiniteSetTheorems

\* The conjuncts of TypeOK for any value r of the real-time timetable.
WellFormed(r) ==
  /\ r \in RttType
  /\ Len(r.rt_transport_static_transport_) = n_rt_transports(r)
  /\ Len(r.rt_transport_location_seq_) = n_rt_transports(r)
  /\ r.rt_transport_is_cancelled_ \subseteq 1..n_rt_transports(r)
  /\ \A t \in Transport :
       LET i == r.transport_traffic_days_[t]
       IN  i.idx \in IF i.rt THEN 1..Len(r.bitfields_) ELSE 1..Len(StaticBitfields)

LEMMA WellFormedIsTypeOK == TypeOK <=> WellFormed(rtt)
BY DEF TypeOK, WellFormed

-----------------------------------------------------------------------------
(***************************************************************************)
(* Switching a day off.                                                    *)
(***************************************************************************)
LEMMA TransportDayType ==
  ASSUME NEW td \in TransportDay
  PROVE  td.t \in Transport /\ td.day \in Day /\ td # Invalid
BY NoTransportAssumption DEF TransportDay, Invalid

LEMMA TrafficDaysType ==
  ASSUME NEW r, WellFormed(r), NEW t \in Transport
  PROVE  traffic_days(r, r.transport_traffic_days_[t]) \in SUBSET Day
<1>1. /\ r.bitfields_ \in Seq(SUBSET Day)
      /\ r.transport_traffic_days_[t] \in BitfieldIdx
  BY DEF WellFormed, RttType
<1> QED
  BY <1>1, BitfieldAssumption DEF WellFormed, traffic_days, BitfieldIdx

LEMMA DeactivateDayFields ==
  ASSUME NEW r, WellFormed(r), NEW td \in TransportDay
  PROVE  LET d == DeactivateDay(r, td)
             days == traffic_days(r, r.transport_traffic_days_[td.t]) \ {td.day}
         IN  /\ d \in RttType
             /\ d.bitfields_ = Append(r.bitfields_, days)
             /\ d.transport_traffic_days_ =
                  [r.transport_traffic_days_ EXCEPT
                     ![td.t] = [rt |-> TRUE, idx |-> Len(r.bitfields_) + 1]]
             /\ d.static_trip_lookup_ = r.static_trip_lookup_
             /\ d.rt_transport_static_transport_ = r.rt_transport_static_transport_
             /\ d.rt_transport_src_ = r.rt_transport_src_
             /\ d.rt_transport_location_seq_ = r.rt_transport_location_seq_
             /\ d.rt_transport_is_cancelled_ = r.rt_transport_is_cancelled_
             /\ d.additional_trips_ = r.additional_trips_
             /\ d.location_rt_transports_ = r.location_rt_transports_
<1> DEFINE days == traffic_days(r, r.transport_traffic_days_[td.t]) \ {td.day}
           idx == [rt |-> TRUE, idx |-> Len(r.bitfields_) + 1]
<1>1. days \in SUBSET Day
  BY TrafficDaysType, TransportDayType
<1>2. r \in RttType /\ Len(r.bitfields_) \in Nat
  BY DEF WellFormed, RttType
<1>3. idx \in BitfieldIdx
  BY <1>2 DEF BitfieldIdx
<1>4. DeactivateDay(r, td) =
        [r EXCEPT !.bitfields_ = Append(@, days), !.transport_traffic_days_[td.t] = idx]
  BY DEF DeactivateDay
<1> DEFINE d == DeactivateDay(r, td)
<1> HIDE DEF days, idx
<1>5. /\ d.bitfields_ = Append(r.bitfields_, days)
      /\ d.transport_traffic_days_ = [r.transport_traffic_days_ EXCEPT ![td.t] = idx]
  BY <1>2, <1>4 DEF RttType
<1>6. /\ d.static_trip_lookup_ = r.static_trip_lookup_
      /\ d.rt_transport_static_transport_ = r.rt_transport_static_transport_
      /\ d.rt_transport_src_ = r.rt_transport_src_
      /\ d.rt_transport_location_seq_ = r.rt_transport_location_seq_
      /\ d.rt_transport_is_cancelled_ = r.rt_transport_is_cancelled_
      /\ d.additional_trips_ = r.additional_trips_
      /\ d.location_rt_transports_ = r.location_rt_transports_
  BY <1>2, <1>4 DEF RttType
<1>7. /\ Append(r.bitfields_, days) \in Seq(SUBSET Day)
      /\ [r.transport_traffic_days_ EXCEPT ![td.t] = idx] \in [Transport -> BitfieldIdx]
  <2>1. /\ r.bitfields_ \in Seq(SUBSET Day)
        /\ r.transport_traffic_days_ \in [Transport -> BitfieldIdx]
    BY <1>2 DEF RttType
  <2>2. Append(r.bitfields_, days) \in Seq(SUBSET Day)
    BY <1>1, <2>1
  <2>3. [r.transport_traffic_days_ EXCEPT ![td.t] = idx] \in [Transport -> BitfieldIdx]
    BY <1>3, <2>1
  <2> QED
    BY <2>2, <2>3
<1>8. d \in RttType
  BY <1>2, <1>4, <1>7 DEF RttType
<1> QED
  BY <1>5, <1>6, <1>8 DEF days, idx

\* A copy of the bitfield without the day: the run is off, all others are as
\* they were, the ones that share the bitfield too.
LEMMA DayOff ==
  ASSUME NEW r, NEW d, WellFormed(r), NEW td \in TransportDay,
         d.bitfields_ = Append(r.bitfields_,
           traffic_days(r, r.transport_traffic_days_[td.t]) \ {td.day}),
         d.transport_traffic_days_ =
           [r.transport_traffic_days_ EXCEPT
              ![td.t] = [rt |-> TRUE, idx |-> Len(r.bitfields_) + 1]]
  PROVE  /\ \A other \in TransportDay :
              is_transport_active(d, other)
                <=> is_transport_active(r, other) /\ other # td
         /\ \A t \in Transport :
              LET i == d.transport_traffic_days_[t]
              IN  i.idx \in IF i.rt THEN 1..Len(d.bitfields_)
                                    ELSE 1..Len(StaticBitfields)
<1> DEFINE n == Len(r.bitfields_)
           days == traffic_days(r, r.transport_traffic_days_[td.t]) \ {td.day}
<1>1. /\ r.bitfields_ \in Seq(SUBSET Day) /\ n \in Nat
      /\ r.transport_traffic_days_ \in [Transport -> BitfieldIdx]
      /\ td.t \in Transport
      /\ days \in SUBSET Day
  <2>1. td.t \in Transport
    BY TransportDayType
  <2>2. days \in SUBSET Day
    BY <2>1, TrafficDaysType
  <2> HIDE DEF days
  <2> QED
    BY <2>1, <2>2 DEF WellFormed, RttType
<1>2. /\ Len(d.bitfields_) = n + 1 /\ d.bitfields_[n + 1] = days
      /\ \A k \in 1..n : d.bitfields_[k] = r.bitfields_[k]
  <2> HIDE DEF days
  <2>1. d.bitfields_ = Append(r.bitfields_, days)
    BY DEF days
  <2> QED
    BY <2>1, <1>1
<1>3. /\ d.transport_traffic_days_[td.t] = [rt |-> TRUE, idx |-> n + 1]
      /\ \A t \in Transport \ {td.t} :
           d.transport_traffic_days_[t] = r.transport_traffic_days_[t]
  BY <1>1
<1>4. traffic_days(d, d.transport_traffic_days_[td.t]) = days
  BY <1>2, <1>3 DEF traffic_days
<1>5. \A t \in Transport \ {td.t} :
        traffic_days(d, d.transport_traffic_days_[t])
          = traffic_days(r, r.transport_traffic_days_[t])
  <2>1. ASSUME NEW t \in Transport \ {td.t}
        PROVE  traffic_days(d, d.transport_traffic_days_[t])
                 = traffic_days(r, r.transport_traffic_days_[t])
    <3>1. LET i == r.transport_traffic_days_[t]
          IN  i.idx \in IF i.rt THEN 1..n ELSE 1..Len(StaticBitfields)
      BY DEF WellFormed
    <3> QED
      BY <1>2, <1>3, <3>1 DEF traffic_days
  <2> QED
    BY <2>1
<1>6. ASSUME NEW other \in TransportDay
      PROVE  is_transport_active(d, other)
               <=> is_transport_active(r, other) /\ other # td
  <2>1. CASE other.t = td.t
    <3>1. other # td <=> other.day # td.day
      BY <2>1 DEF TransportDay
    <3> QED
      BY <2>1, <3>1, <1>4 DEF is_transport_active
  <2>2. CASE other.t # td.t
    <3>1. other.t \in Transport \ {td.t}
      BY <2>2, TransportDayType
    <3> QED
      BY <2>2, <3>1, <1>5 DEF is_transport_active
  <2> QED
    BY <2>1, <2>2
<1>7. ASSUME NEW t \in Transport
      PROVE  LET i == d.transport_traffic_days_[t]
             IN  i.idx \in IF i.rt THEN 1..Len(d.bitfields_)
                                   ELSE 1..Len(StaticBitfields)
  <2>1. CASE t = td.t
    BY <2>1, <1>1, <1>2, <1>3
  <2>2. CASE t # td.t
    <3>1. LET i == r.transport_traffic_days_[t]
          IN  i.idx \in IF i.rt THEN 1..n ELSE 1..Len(StaticBitfields)
      BY DEF WellFormed
    <3> QED
      BY <2>2, <3>1, <1>1, <1>2, <1>3
  <2> QED
    BY <2>1, <2>2
<1> QED
  BY <1>6, <1>7

LEMMA DeactivateDayOff ==
  ASSUME NEW r, WellFormed(r), NEW td \in TransportDay
  PROVE  LET d == DeactivateDay(r, td)
         IN  /\ WellFormed(d)
             /\ \A other \in TransportDay :
                  is_transport_active(d, other)
                    <=> is_transport_active(r, other) /\ other # td
<1> DEFINE d == DeactivateDay(r, td)
<1>1. /\ d.bitfields_ = Append(r.bitfields_,
           traffic_days(r, r.transport_traffic_days_[td.t]) \ {td.day})
      /\ d.transport_traffic_days_ =
           [r.transport_traffic_days_ EXCEPT
              ![td.t] = [rt |-> TRUE, idx |-> Len(r.bitfields_) + 1]]
      /\ d \in RttType
      /\ d.rt_transport_static_transport_ = r.rt_transport_static_transport_
      /\ d.rt_transport_src_ = r.rt_transport_src_
      /\ d.rt_transport_location_seq_ = r.rt_transport_location_seq_
      /\ d.rt_transport_is_cancelled_ = r.rt_transport_is_cancelled_
  BY DeactivateDayFields
<1> HIDE DEF d
<1>2. /\ \A other \in TransportDay :
           is_transport_active(d, other) <=> is_transport_active(r, other) /\ other # td
      /\ \A t \in Transport :
           LET i == d.transport_traffic_days_[t]
           IN  i.idx \in IF i.rt THEN 1..Len(d.bitfields_)
                                 ELSE 1..Len(StaticBitfields)
  BY <1>1, DayOff
<1>3. WellFormed(d)
  BY <1>1, <1>2 DEF WellFormed, n_rt_transports
<1> QED
  BY <1>2, <1>3 DEF d

-----------------------------------------------------------------------------
(***************************************************************************)
(* Adding an RT transport.                                                 *)
(***************************************************************************)
LEMMA AppendTransportFields ==
  ASSUME NEW r, WellFormed(r), NEW static \in StaticOrAdded, NEW src \in Source,
         NEW stops \in Seq(Stop)
  PROVE  LET a == AppendTransport(r, static, src, stops)
             n == n_rt_transports(r)
         IN  /\ WellFormed(a)
             /\ n \in Nat /\ n_rt_transports(a) = n + 1
             /\ a.bitfields_ = r.bitfields_
             /\ a.transport_traffic_days_ = r.transport_traffic_days_
             /\ a.static_trip_lookup_ = r.static_trip_lookup_
             /\ a.rt_transport_static_transport_ =
                  Append(r.rt_transport_static_transport_, static)
             /\ a.rt_transport_location_seq_ =
                  Append(r.rt_transport_location_seq_, stops)
             /\ a.rt_transport_is_cancelled_ = r.rt_transport_is_cancelled_
             /\ a.additional_trips_ = r.additional_trips_
             /\ \A l \in Location :
                  r.location_rt_transports_[l] \subseteq a.location_rt_transports_[l]
             /\ \A i \in 1..Len(stops) :
                  n + 1 \in a.location_rt_transports_[stops[i].loc]
<1> DEFINE a == AppendTransport(r, static, src, stops)
           n == n_rt_transports(r)
           locs == [l \in Location |->
                      IF \E i \in 1..Len(stops) : stops[i].loc = l
                        THEN r.location_rt_transports_[l] \cup {n + 1}
                        ELSE r.location_rt_transports_[l]]
<1>1. /\ r \in RttType /\ n \in Nat
      /\ r.rt_transport_static_transport_ \in Seq(StaticOrAdded)
      /\ r.rt_transport_src_ \in Seq(Source)
      /\ r.rt_transport_location_seq_ \in Seq(Seq(Stop))
      /\ r.location_rt_transports_ \in [Location -> SUBSET Nat]
  BY DEF WellFormed, RttType, n_rt_transports
<1>2. locs \in [Location -> SUBSET Nat]
  <2>1. n + 1 \in Nat
    BY <1>1
  <2> HIDE DEF n
  <2>2. \A l \in Location : r.location_rt_transports_[l] \in SUBSET Nat
    BY <1>1
  <2> QED
    BY <2>1, <2>2
<1>3. a = [r EXCEPT
             !.rt_transport_static_transport_ = Append(@, static),
             !.rt_transport_src_ = Append(@, src),
             !.rt_transport_location_seq_ = Append(@, stops),
             !.location_rt_transports_ = locs]
  BY DEF AppendTransport
<1> HIDE DEF a, locs
<1>4. /\ a.bitfields_ = r.bitfields_
      /\ a.transport_traffic_days_ = r.transport_traffic_days_
      /\ a.static_trip_lookup_ = r.static_trip_lookup_
      /\ a.additional_trips_ = r.additional_trips_
      /\ a.rt_transport_is_cancelled_ = r.rt_transport_is_cancelled_
      /\ a.location_rt_transports_ = locs
  BY <1>1, <1>3 DEF RttType
<1>5. /\ a.rt_transport_static_transport_ =
           Append(r.rt_transport_static_transport_, static)
      /\ a.rt_transport_src_ = Append(r.rt_transport_src_, src)
      /\ a.rt_transport_location_seq_ = Append(r.rt_transport_location_seq_, stops)
  BY <1>1, <1>3 DEF RttType
<1>6. /\ Append(r.rt_transport_static_transport_, static) \in Seq(StaticOrAdded)
      /\ Append(r.rt_transport_src_, src) \in Seq(Source)
      /\ Append(r.rt_transport_location_seq_, stops) \in Seq(Seq(Stop))
  BY <1>1, AppendProperties
<1>7. a \in RttType
  BY <1>1, <1>2, <1>3, <1>6 DEF RttType
<1>8. /\ Len(a.rt_transport_static_transport_) = n + 1
      /\ Len(a.rt_transport_src_) = n + 1
      /\ Len(a.rt_transport_location_seq_) = n + 1
      /\ a.rt_transport_is_cancelled_ \subseteq 1..n + 1
  <2>1. /\ Len(r.rt_transport_static_transport_) = n
        /\ Len(r.rt_transport_src_) = n
        /\ Len(r.rt_transport_location_seq_) = n
        /\ r.rt_transport_is_cancelled_ \subseteq 1..n
    BY DEF WellFormed, n_rt_transports
  <2>2. Len(a.rt_transport_static_transport_) = n + 1
    BY <1>1, <1>5, <2>1, AppendProperties
  <2>3. Len(a.rt_transport_src_) = n + 1
    BY <1>1, <1>5, <2>1, AppendProperties
  <2>4. Len(a.rt_transport_location_seq_) = n + 1
    BY <1>1, <1>5, <2>1, AppendProperties
  <2>5. a.rt_transport_is_cancelled_ \subseteq 1..n + 1
    BY <1>1, <1>4, <2>1
  <2> QED
    BY <2>2, <2>3, <2>4, <2>5
<1>9. WellFormed(a)
  BY <1>4, <1>7, <1>8 DEF WellFormed, n_rt_transports
<1>10. \A i \in 1..Len(stops) : stops[i].loc \in Location
  <2>1. \A i \in 1..Len(stops) : stops[i] \in Stop
    BY ElementOfSeq
  <2>2. \A stp \in Stop : stp.loc \in Location
    BY DEF Stop
  <2> QED
    BY <2>1, <2>2
<1>11. /\ \A l \in Location :
            r.location_rt_transports_[l] \subseteq a.location_rt_transports_[l]
       /\ \A i \in 1..Len(stops) :
            n + 1 \in a.location_rt_transports_[stops[i].loc]
  BY <1>4, <1>10 DEF locs
<1> QED
  BY <1>1, <1>4, <1>5, <1>8, <1>9, <1>11 DEF a, n_rt_transports

-----------------------------------------------------------------------------
(***************************************************************************)
(* The invariants of a value r of the real-time timetable.                 *)
(***************************************************************************)
Idx(r) == 1..n_rt_transports(r)
RunOf(r, k) == r.rt_transport_static_transport_[k].transport
StopsOf(r, k) == r.rt_transport_location_seq_[k]

Single(r) ==
  \A td \in TransportDay :
    r.static_trip_lookup_[td] # NoRt => ~is_transport_active(r, td)

Looked(r) ==
  /\ \A td \in TransportDay :
       LET k == r.static_trip_lookup_[td]
       IN  k # NoRt => k \in Idx(r) /\ RunOf(r, k) = td
  /\ \A k \in Idx(r) :
       RunOf(r, k) # Invalid => r.static_trip_lookup_[RunOf(r, k)] = k

Listed(r) ==
  \A k \in Idx(r) : \A i \in 1..Len(StopsOf(r, k)) :
    k \in r.location_rt_transports_[StopsOf(r, k)[i].loc]

\* The index has a scheduled RT transport at the planned locations, also when
\* it stops elsewhere for now: an update may move it back without an entry.
RoutedAt(r, k) ==
  RunOf(r, k) # Invalid =>
    \A i \in 1..Len(LocationSeq[RunOf(r, k).t]) :
      k \in r.location_rt_transports_[LocationSeq[RunOf(r, k).t][i].loc]

Routed(r) == \A k \in Idx(r) : RoutedAt(r, k)

\* A scheduled RT transport keeps the number of stops of its route, and no
\* transport is longer than the entities that update it.
Fitting(r) ==
  \A k \in Idx(r) :
    /\ Len(StopsOf(r, k)) <= MaxStops
    /\ RunOf(r, k) # Invalid =>
         Len(StopsOf(r, k)) = Len(LocationSeq[RunOf(r, k).t])

\* Every entry of additional_trips_ leads to an additional trip.
Added(r) ==
  \A src \in Source :
    LET trips == r.additional_trips_[src]
    IN  /\ Len(trips.ids_) <= Len(trips.transports_)
        /\ \A j \in 1..Len(trips.transports_) :
             /\ trips.transports_[j] \in Idx(r)
             /\ RunOf(r, trips.transports_[j]) = Invalid

\* FewStopsCancelled for all RT transports but one.
Flagged(r, except) ==
  \A k \in Idx(r) \ {except} :
    Cardinality(Served(StopsOf(r, k))) <= 1 => k \in r.rt_transport_is_cancelled_

RttInv(r) ==
  /\ WellFormed(r) /\ Single(r) /\ Looked(r) /\ Listed(r) /\ Routed(r)
  /\ Fitting(r) /\ Added(r)

\* ServiceOf for any value of the real-time timetable.
ServiceIn(r, td) ==
  LET k == r.static_trip_lookup_[td]
  IN  IF k # NoRt
        THEN IF k \in r.rt_transport_is_cancelled_ THEN "rt_cancelled" ELSE "realtime"
      ELSE IF is_transport_active(r, td) THEN "static"
      ELSE IF IsStaticActive(td) THEN "cancelled" ELSE "none"

\* From r to a, nothing changes in what is offered of the runs other than td.
OthersUnchanged(r, a, td) ==
  \A other \in TransportDay : other # td => ServiceIn(a, other) = ServiceIn(r, other)

LEMMA FieldTypes ==
  ASSUME NEW r, WellFormed(r)
  PROVE  /\ r \in RttType
         /\ n_rt_transports(r) \in Nat
         /\ r.static_trip_lookup_ \in [TransportDay -> Nat]
         /\ r.bitfields_ \in Seq(SUBSET Day)
         /\ r.transport_traffic_days_ \in [Transport -> BitfieldIdx]
         /\ r.rt_transport_static_transport_ \in Seq(StaticOrAdded)
         /\ r.rt_transport_src_ \in Seq(Source)
         /\ r.rt_transport_location_seq_ \in Seq(Seq(Stop))
         /\ r.rt_transport_is_cancelled_ \subseteq Idx(r)
         /\ r.additional_trips_ \in [Source -> [ids_ : Seq(TripId),
                                                transports_ : Seq(Nat)]]
         /\ r.location_rt_transports_ \in [Location -> SUBSET Nat]
         /\ Len(r.rt_transport_static_transport_) = n_rt_transports(r)
         /\ Len(r.rt_transport_location_seq_) = n_rt_transports(r)
<1>1. r \in RttType
  BY DEF WellFormed
<1>2. r.rt_transport_src_ \in Seq(Source)
  BY <1>1 DEF RttType
<1> QED
  BY <1>1, <1>2 DEF WellFormed, RttType, n_rt_transports, Idx

LEMMA RunType ==
  ASSUME NEW r, WellFormed(r), NEW k \in Idx(r)
  PROVE  RunOf(r, k) \in TransportDay \cup {Invalid}
<1>1. /\ r.rt_transport_static_transport_ \in Seq(StaticOrAdded)
      /\ Len(r.rt_transport_static_transport_) = n_rt_transports(r)
  BY FieldTypes
<1>2. r.rt_transport_static_transport_[k] \in StaticOrAdded
  BY <1>1, ElementOfSeq DEF Idx
<1> QED
  BY <1>2 DEF StaticOrAdded, RunOf

LEMMA StopsType ==
  ASSUME NEW stops \in Seq(Stop)
  PROVE  /\ Len(stops) \in Nat
         /\ \A i \in 1..Len(stops) : stops[i] \in Stop /\ stops[i].loc \in Location
<1>1. \A i \in 1..Len(stops) : stops[i] \in Stop
  BY ElementOfSeq
<1>2. \A stp \in Stop : stp.loc \in Location
  BY DEF Stop
<1> QED
  BY <1>1, <1>2, LenProperties

\* Routed is kept while the index only grows.
LEMMA RoutedGrows ==
  ASSUME NEW r, WellFormed(r), Routed(r), NEW a,
         \A l \in Location :
           r.location_rt_transports_[l] \subseteq a.location_rt_transports_[l],
         NEW k \in Idx(r), RunOf(a, k) = RunOf(r, k)
  PROVE  RoutedAt(a, k)
<1>1. SUFFICES ASSUME RunOf(r, k) # Invalid,
                      NEW i \in 1..Len(LocationSeq[RunOf(r, k).t])
               PROVE  k \in a.location_rt_transports_[LocationSeq[RunOf(r, k).t][i].loc]
  BY DEF RoutedAt
<1>2. RunOf(r, k).t \in Transport
  BY <1>1, RunType, TransportDayType
<1>3. LocationSeq[RunOf(r, k).t] \in Seq(Stop)
  BY <1>2, RouteAssumption
<1>4. LocationSeq[RunOf(r, k).t][i].loc \in Location
  BY <1>1, <1>3, StopsType
<1> QED
  BY <1>1, <1>4 DEF Routed, RoutedAt

LEMMA AppendEntries ==
  ASSUME NEW S, NEW seq \in Seq(S), NEW elt \in S, NEW n, Len(seq) = n
  PROVE  /\ Append(seq, elt)[n + 1] = elt
         /\ \A k \in 1..n : Append(seq, elt)[k] = seq[k]
BY AppendProperties

\* What AppendTransport adds at the end and leaves before it.
LEMMA AppendTransportEntries ==
  ASSUME NEW r, WellFormed(r), NEW static \in StaticOrAdded, NEW src \in Source,
         NEW stops \in Seq(Stop)
  PROVE  LET a == AppendTransport(r, static, src, stops)
             n == n_rt_transports(r)
         IN  /\ Idx(a) = Idx(r) \cup {n + 1} /\ n + 1 \notin Idx(r)
             /\ RunOf(a, n + 1) = static.transport
             /\ StopsOf(a, n + 1) = stops
             /\ n + 1 \notin a.rt_transport_is_cancelled_
             /\ a.rt_transport_is_cancelled_ = r.rt_transport_is_cancelled_
             /\ \A k \in Idx(r) :
                  /\ RunOf(a, k) = RunOf(r, k)
                  /\ StopsOf(a, k) = StopsOf(r, k)
             /\ \A l \in Location :
                  r.location_rt_transports_[l] \subseteq a.location_rt_transports_[l]
             /\ \A i \in 1..Len(stops) :
                  n + 1 \in a.location_rt_transports_[stops[i].loc]
<1> DEFINE a == AppendTransport(r, static, src, stops)
           n == n_rt_transports(r)
<1>1. /\ n \in Nat /\ n_rt_transports(a) = n + 1
      /\ a.rt_transport_static_transport_ =
           Append(r.rt_transport_static_transport_, static)
      /\ a.rt_transport_location_seq_ = Append(r.rt_transport_location_seq_, stops)
      /\ a.rt_transport_is_cancelled_ = r.rt_transport_is_cancelled_
  BY AppendTransportFields
<1>2. /\ r.rt_transport_static_transport_ \in Seq(StaticOrAdded)
      /\ r.rt_transport_location_seq_ \in Seq(Seq(Stop))
      /\ r.rt_transport_is_cancelled_ \subseteq Idx(r)
      /\ Len(r.rt_transport_static_transport_) = n
      /\ Len(r.rt_transport_location_seq_) = n
  BY FieldTypes
<1> HIDE DEF a, n
<1>3. /\ a.rt_transport_static_transport_[n + 1] = static
      /\ \A k \in 1..n : a.rt_transport_static_transport_[k] =
                           r.rt_transport_static_transport_[k]
  BY <1>1, <1>2, AppendProperties
<1>4. /\ a.rt_transport_location_seq_[n + 1] = stops
      /\ \A k \in 1..n : a.rt_transport_location_seq_[k] =
                           r.rt_transport_location_seq_[k]
  BY <1>1, <1>2, AppendProperties
<1>6. Idx(a) = Idx(r) \cup {n + 1} /\ Idx(r) = 1..n /\ n + 1 \notin Idx(r)
  BY <1>1 DEF Idx, n
<1>8. /\ \A l \in Location :
           r.location_rt_transports_[l] \subseteq a.location_rt_transports_[l]
      /\ \A i \in 1..Len(stops) :
           n + 1 \in a.location_rt_transports_[stops[i].loc]
  BY AppendTransportFields DEF a, n
<1> QED
  BY <1>1, <1>2, <1>3, <1>4, <1>6, <1>8 DEF RunOf, StopsOf, a, n

\* AddScheduled on a run without an RT transport: what changes and what stays.
LEMMA AddScheduledFields ==
  ASSUME NEW r, WellFormed(r), NEW src \in Source, NEW td \in TransportDay,
         r.static_trip_lookup_[td] = NoRt
  PROVE  LET a == AddScheduled(r, src, td)
             n == n_rt_transports(r)
         IN  /\ WellFormed(a) /\ n \in Nat /\ n_rt_transports(a) = n + 1
             /\ a.static_trip_lookup_ = [r.static_trip_lookup_ EXCEPT ![td] = n + 1]
             /\ a.rt_transport_is_cancelled_ = r.rt_transport_is_cancelled_
             /\ a.additional_trips_ = r.additional_trips_
             /\ Idx(a) = Idx(r) \cup {n + 1} /\ n + 1 \notin Idx(r)
             /\ RunOf(a, n + 1) = td /\ StopsOf(a, n + 1) = LocationSeq[td.t]
             /\ \A k \in Idx(r) : /\ RunOf(a, k) = RunOf(r, k)
                                  /\ StopsOf(a, k) = StopsOf(r, k)
             /\ \A l \in Location :
                  r.location_rt_transports_[l] \subseteq a.location_rt_transports_[l]
             /\ \A i \in 1..Len(LocationSeq[td.t]) :
                  n + 1 \in a.location_rt_transports_[LocationSeq[td.t][i].loc]
             /\ \A other \in TransportDay :
                  is_transport_active(a, other)
                    <=> is_transport_active(r, other) /\ other # td
<1> DEFINE n == n_rt_transports(r)
           looked == [r EXCEPT !.static_trip_lookup_[td] = n + 1]
           off == DeactivateDay(looked, td)
           static == [transport |-> td, added |-> 0]
           a == AppendTransport(off, static, src, LocationSeq[td.t])
<1>1. AddScheduled(r, src, td) = a
  BY DEF AddScheduled
<1>2. /\ r \in RttType /\ n \in Nat
      /\ r.static_trip_lookup_ \in [TransportDay -> Nat]
  BY FieldTypes
<1>3. /\ looked.static_trip_lookup_ = [r.static_trip_lookup_ EXCEPT ![td] = n + 1]
      /\ looked \in RttType
      /\ looked.bitfields_ = r.bitfields_
      /\ looked.transport_traffic_days_ = r.transport_traffic_days_
      /\ looked.rt_transport_static_transport_ = r.rt_transport_static_transport_
      /\ looked.rt_transport_src_ = r.rt_transport_src_
      /\ looked.rt_transport_location_seq_ = r.rt_transport_location_seq_
      /\ looked.rt_transport_is_cancelled_ = r.rt_transport_is_cancelled_
      /\ looked.additional_trips_ = r.additional_trips_
      /\ looked.location_rt_transports_ = r.location_rt_transports_
  <2> DEFINE lookup == [r.static_trip_lookup_ EXCEPT ![td] = n + 1]
  <2> HIDE DEF n
  <2>1. lookup \in [TransportDay -> Nat]
    BY <1>2
  <2>2. looked = [r EXCEPT !.static_trip_lookup_ = lookup]
    BY <1>2 DEF RttType
  <2> HIDE DEF looked, lookup
  <2>3. looked.static_trip_lookup_ = lookup /\ looked \in RttType
    BY <1>2, <2>1, <2>2 DEF RttType
  <2>4. /\ looked.bitfields_ = r.bitfields_
        /\ looked.transport_traffic_days_ = r.transport_traffic_days_
        /\ looked.rt_transport_static_transport_ = r.rt_transport_static_transport_
        /\ looked.rt_transport_src_ = r.rt_transport_src_
        /\ looked.rt_transport_location_seq_ = r.rt_transport_location_seq_
        /\ looked.rt_transport_is_cancelled_ = r.rt_transport_is_cancelled_
        /\ looked.additional_trips_ = r.additional_trips_
        /\ looked.location_rt_transports_ = r.location_rt_transports_
    BY <1>2, <2>2 DEF RttType
  <2> QED
    BY <2>3, <2>4 DEF lookup
<1> HIDE DEF looked
<1>4. WellFormed(looked) /\ n_rt_transports(looked) = n
  BY <1>3 DEF WellFormed, n_rt_transports
<1>5. /\ WellFormed(off)
      /\ \A other \in TransportDay :
           is_transport_active(off, other)
             <=> is_transport_active(looked, other) /\ other # td
  BY <1>4, DeactivateDayOff
<1>6. /\ off.static_trip_lookup_ = looked.static_trip_lookup_
      /\ off.rt_transport_static_transport_ = looked.rt_transport_static_transport_
      /\ off.rt_transport_src_ = looked.rt_transport_src_
      /\ off.rt_transport_location_seq_ = looked.rt_transport_location_seq_
      /\ off.rt_transport_is_cancelled_ = looked.rt_transport_is_cancelled_
      /\ off.additional_trips_ = looked.additional_trips_
      /\ off.location_rt_transports_ = looked.location_rt_transports_
  BY <1>4, DeactivateDayFields
<1>7. static \in StaticOrAdded /\ static.transport = td
  BY DEF StaticOrAdded
<1>8. LocationSeq[td.t] \in Seq(Stop)
  BY RouteAssumption, TransportDayType
<1> HIDE DEF off, static
<1>9. n_rt_transports(off) = n /\ Idx(off) = Idx(r)
  BY <1>3, <1>6 DEF n_rt_transports, Idx, n
<1>10. /\ WellFormed(a)
       /\ n_rt_transports(a) = n + 1
       /\ a.bitfields_ = off.bitfields_
       /\ a.transport_traffic_days_ = off.transport_traffic_days_
       /\ a.static_trip_lookup_ = off.static_trip_lookup_
       /\ a.additional_trips_ = off.additional_trips_
  BY <1>5, <1>7, <1>8, <1>9, AppendTransportFields
<1>11. /\ Idx(a) = Idx(off) \cup {n + 1} /\ n + 1 \notin Idx(off)
       /\ RunOf(a, n + 1) = static.transport
       /\ StopsOf(a, n + 1) = LocationSeq[td.t]
       /\ a.rt_transport_is_cancelled_ = off.rt_transport_is_cancelled_
       /\ \A k \in Idx(off) : /\ RunOf(a, k) = RunOf(off, k)
                              /\ StopsOf(a, k) = StopsOf(off, k)
       /\ \A l \in Location :
            off.location_rt_transports_[l] \subseteq a.location_rt_transports_[l]
       /\ \A i \in 1..Len(LocationSeq[td.t]) :
            n + 1 \in a.location_rt_transports_[LocationSeq[td.t][i].loc]
  BY <1>5, <1>7, <1>8, <1>9, AppendTransportEntries
<1> HIDE DEF a, n
<1>12. \A k \in Idx(r) : /\ RunOf(a, k) = RunOf(r, k)
                         /\ StopsOf(a, k) = StopsOf(r, k)
  BY <1>3, <1>6, <1>9, <1>11 DEF RunOf, StopsOf
<1>13. \A other \in TransportDay :
         is_transport_active(a, other)
           <=> is_transport_active(r, other) /\ other # td
  BY <1>3, <1>5, <1>10 DEF is_transport_active, traffic_days
<1>14. \A l \in Location :
         r.location_rt_transports_[l] \subseteq a.location_rt_transports_[l]
  BY <1>3, <1>6, <1>11
<1> QED
  BY <1>1, <1>2, <1>3, <1>6, <1>7, <1>9, <1>10, <1>11, <1>12, <1>13, <1>14 DEF n

LEMMA CancelledSet ==
  ASSUME NEW r, WellFormed(r)
  PROVE  r.rt_transport_is_cancelled_ \subseteq Idx(r)
BY FieldTypes

\* At least two usable stops are more than one.
LEMMA RoutesServed ==
  ASSUME NEW t \in Transport
  PROVE  ~(Cardinality(Served(LocationSeq[t])) <= 1)
<1>1. LocationSeq[t] \in Seq(Stop)
  BY RouteAssumption
<1>2. Len(LocationSeq[t]) \in Nat
  BY <1>1
<1>3. IsFiniteSet(1..Len(LocationSeq[t]))
  BY <1>2, FS_Interval
<1>4. IsFiniteSet(Served(LocationSeq[t]))
  BY <1>3, FS_Subset DEF Served
<1>5. Cardinality(Served(LocationSeq[t])) \in Nat
  BY <1>4, FS_CardinalityType
<1> QED
  BY <1>5, RouteAssumption

LEMMA AddScheduledInv ==
  ASSUME NEW r, RttInv(r), Flagged(r, NoRt), NEW src \in Source,
         NEW td \in TransportDay, r.static_trip_lookup_[td] = NoRt
  PROVE  LET a == AddScheduled(r, src, td)
             n == n_rt_transports(r)
         IN  /\ RttInv(a) /\ Flagged(a, NoRt)
             /\ n + 1 \in Idx(a) /\ RunOf(a, n + 1) = td
             /\ StopsOf(a, n + 1) = LocationSeq[td.t]
             /\ a.static_trip_lookup_[td] = n + 1
             /\ OthersUnchanged(r, a, td)
             /\ ServiceIn(a, td) = "realtime"
<1> DEFINE n == n_rt_transports(r)
           a == AddScheduled(r, src, td)
<1>1. WellFormed(r) /\ td # Invalid /\ td.t \in Transport
  BY TransportDayType DEF RttInv
<1>2. /\ WellFormed(a) /\ n \in Nat
      /\ a.static_trip_lookup_ = [r.static_trip_lookup_ EXCEPT ![td] = n + 1]
      /\ a.rt_transport_is_cancelled_ = r.rt_transport_is_cancelled_
      /\ a.additional_trips_ = r.additional_trips_
      /\ Idx(a) = Idx(r) \cup {n + 1} /\ n + 1 \notin Idx(r)
      /\ RunOf(a, n + 1) = td /\ StopsOf(a, n + 1) = LocationSeq[td.t]
      /\ \A k \in Idx(r) : /\ RunOf(a, k) = RunOf(r, k)
                           /\ StopsOf(a, k) = StopsOf(r, k)
  BY <1>1, AddScheduledFields
<1>3. /\ \A l \in Location :
           r.location_rt_transports_[l] \subseteq a.location_rt_transports_[l]
      /\ \A i \in 1..Len(LocationSeq[td.t]) :
           n + 1 \in a.location_rt_transports_[LocationSeq[td.t][i].loc]
  BY <1>1, AddScheduledFields
<1>4. \A other \in TransportDay :
        is_transport_active(a, other) <=> is_transport_active(r, other) /\ other # td
  BY <1>1, AddScheduledFields
<1>5. /\ r.static_trip_lookup_ \in [TransportDay -> Nat]
      /\ r.rt_transport_location_seq_ \in Seq(Seq(Stop))
      /\ Len(r.rt_transport_location_seq_) = n
      /\ r.rt_transport_is_cancelled_ \subseteq Idx(r)
  BY <1>1, FieldTypes
<1> HIDE DEF a, n
<1>6. /\ a.static_trip_lookup_[td] = n + 1
      /\ \A other \in TransportDay :
           other # td => a.static_trip_lookup_[other] = r.static_trip_lookup_[other]
  BY <1>2, <1>5
<1>7. Single(a)
  BY <1>4, <1>6 DEF Single, RttInv
<1>8. Looked(a)
  <2>1. n + 1 # NoRt
    BY <1>2 DEF NoRt
  <2>2. ASSUME NEW other \in TransportDay, a.static_trip_lookup_[other] # NoRt
        PROVE  LET k == a.static_trip_lookup_[other]
               IN  k \in Idx(a) /\ RunOf(a, k) = other
    <3>1. CASE other = td
      BY <1>2, <1>6, <3>1
    <3>2. CASE other # td
      BY <1>2, <1>6, <2>2, <3>2 DEF Looked, RttInv
    <3> QED
      BY <3>1, <3>2
  <2>3. ASSUME NEW k \in Idx(a), RunOf(a, k) # Invalid
        PROVE  a.static_trip_lookup_[RunOf(a, k)] = k
    <3>1. CASE k = n + 1
      BY <1>2, <1>6, <3>1
    <3>2. CASE k # n + 1
      <4>1. /\ k \in Idx(r) /\ RunOf(a, k) = RunOf(r, k)
            /\ r.static_trip_lookup_[RunOf(r, k)] = k
        BY <1>2, <2>3, <3>2 DEF Looked, RttInv
      <4>2. k # NoRt /\ RunOf(r, k) \in TransportDay
        <5>1. /\ r.rt_transport_static_transport_ \in Seq(StaticOrAdded)
              /\ Len(r.rt_transport_static_transport_) = n
          BY <1>1, FieldTypes DEF n
        <5>2. k \in 1..n
          BY <4>1 DEF Idx, n
        <5>3. r.rt_transport_static_transport_[k] \in StaticOrAdded
          BY <5>1, <5>2, ElementOfSeq
        <5>4. RunOf(r, k) \in TransportDay \cup {Invalid}
          BY <5>3 DEF StaticOrAdded, RunOf
        <5> QED
          BY <1>2, <2>3, <4>1, <5>2, <5>4 DEF NoRt
      <4>3. RunOf(r, k) # td
        BY <4>1, <4>2
      <4> QED
        BY <1>6, <4>1, <4>2, <4>3
    <3> QED
      BY <3>1, <3>2
  <2> QED
    BY <2>2, <2>3 DEF Looked
<1>9. Listed(a)
  <2>1. ASSUME NEW k \in Idx(a), NEW i \in 1..Len(StopsOf(a, k))
        PROVE  k \in a.location_rt_transports_[StopsOf(a, k)[i].loc]
    <3>1. CASE k = n + 1
      BY <1>2, <1>3, <2>1, <3>1
    <3>2. CASE k # n + 1
      <4>1. k \in Idx(r) /\ StopsOf(a, k) = StopsOf(r, k)
        BY <1>2, <3>2
      <4>2. StopsOf(r, k) \in Seq(Stop)
        BY <1>5, <4>1, ElementOfSeq DEF StopsOf, Idx, n
      <4>3. StopsOf(r, k)[i] \in Stop
        BY <4>1, <4>2, ElementOfSeq
      <4>4. StopsOf(r, k)[i].loc \in Location
        BY <4>3 DEF Stop
      <4>5. k \in r.location_rt_transports_[StopsOf(r, k)[i].loc]
        BY <4>1 DEF Listed, RttInv
      <4> QED
        BY <1>3, <4>1, <4>4, <4>5
    <3> QED
      BY <3>1, <3>2
  <2> QED
    BY <2>1 DEF Listed
<1>10. Fitting(a)
  BY <1>1, <1>2, UpdateAssumption DEF Fitting, RttInv
<1>11. Added(a)
  BY <1>2 DEF Added, RttInv
<1>12. Flagged(a, NoRt)
  BY <1>1, <1>2, RoutesServed DEF Flagged, NoRt
<1>13. OthersUnchanged(r, a, td)
  BY <1>2, <1>4, <1>6 DEF OthersUnchanged, ServiceIn
<1>14. ServiceIn(a, td) = "realtime"
  BY <1>2, <1>5, <1>6 DEF ServiceIn, NoRt
<1>15. Routed(a)
  <2>1. RoutedAt(a, n + 1)
    BY <1>2, <1>3 DEF RoutedAt
  <2>2. ASSUME NEW k \in Idx(r) PROVE RoutedAt(a, k)
    BY <1>1, <1>2, <1>3, RoutedGrows DEF RttInv
  <2> QED
    BY <1>2, <2>1, <2>2 DEF Routed
<1> QED
  BY <1>2, <1>6, <1>7, <1>8, <1>9, <1>10, <1>11, <1>12, <1>13, <1>14, <1>15
  DEF RttInv, a, n

-----------------------------------------------------------------------------
(***************************************************************************)
(* An additional trip.                                                     *)
(***************************************************************************)
LEMMA StoreType ==
  ASSUME NEW ids \in Seq(TripId), NEW id \in TripId
  PROVE  /\ Store(ids, id) \in Seq(TripId)
         /\ Len(Store(ids, id)) <= Len(ids) + 1
BY AppendProperties DEF Store

LEMMA AddAdditionalInv ==
  ASSUME NEW r, RttInv(r), Flagged(r, NoRt), NEW src \in Source,
         NEW id \in TripId, NEW stops \in Seq(Stop), Len(stops) <= MaxStops
  PROVE  LET a == AddAdditional(r, src, id, stops)
             n == n_rt_transports(r)
         IN  /\ RttInv(a) /\ Flagged(a, n + 1)
             /\ n + 1 \in Idx(a) /\ RunOf(a, n + 1) = Invalid
             /\ StopsOf(a, n + 1) = stops
             /\ \A td \in TransportDay : ServiceIn(a, td) = ServiceIn(r, td)
<1> DEFINE n == n_rt_transports(r)
           trips == r.additional_trips_[src]
           entry == [ids_        |-> Store(trips.ids_, id),
                     transports_ |-> Append(trips.transports_, n + 1)]
           stored == [r EXCEPT !.additional_trips_[src] = entry]
           static == [transport |-> Invalid, added |-> Len(trips.transports_) + 1]
           a == AppendTransport(stored, static, src, stops)
<1>1. AddAdditional(r, src, id, stops) = a
  BY DEF AddAdditional
<1>2. /\ WellFormed(r) /\ r \in RttType /\ n \in Nat
      /\ r.additional_trips_ \in [Source -> [ids_ : Seq(TripId), transports_ : Seq(Nat)]]
      /\ r.static_trip_lookup_ \in [TransportDay -> Nat]
      /\ r.rt_transport_location_seq_ \in Seq(Seq(Stop))
      /\ Len(r.rt_transport_location_seq_) = n
      /\ r.rt_transport_is_cancelled_ \subseteq Idx(r)
      /\ r.rt_transport_static_transport_ \in Seq(StaticOrAdded)
      /\ Len(r.rt_transport_static_transport_) = n
  BY FieldTypes DEF RttInv
<1> HIDE DEF n
<1>3. trips.ids_ \in Seq(TripId) /\ trips.transports_ \in Seq(Nat)
  BY <1>2
<1> HIDE DEF trips
<1>4. /\ Store(trips.ids_, id) \in Seq(TripId)
      /\ Append(trips.transports_, n + 1) \in Seq(Nat)
      /\ Len(Append(trips.transports_, n + 1)) = Len(trips.transports_) + 1
      /\ Append(trips.transports_, n + 1)[Len(trips.transports_) + 1] = n + 1
      /\ \A j \in 1..Len(trips.transports_) :
           Append(trips.transports_, n + 1)[j] = trips.transports_[j]
      /\ Len(Store(trips.ids_, id)) <= Len(trips.ids_) + 1
      /\ Len(trips.transports_) \in Nat /\ Len(trips.ids_) \in Nat
      /\ Len(Store(trips.ids_, id)) \in Nat
  <2>1. n + 1 \in Nat
    BY <1>2
  <2>2. Store(trips.ids_, id) \in Seq(TripId) /\ Len(Store(trips.ids_, id)) <= Len(trips.ids_) + 1
    BY <1>3, StoreType
  <2>3. /\ Append(trips.transports_, n + 1) \in Seq(Nat)
        /\ Len(Append(trips.transports_, n + 1)) = Len(trips.transports_) + 1
    BY <1>3, <2>1, AppendProperties
  <2>4. /\ Append(trips.transports_, n + 1)[Len(trips.transports_) + 1] = n + 1
        /\ \A j \in 1..Len(trips.transports_) :
             Append(trips.transports_, n + 1)[j] = trips.transports_[j]
    BY <1>3, <2>1, AppendEntries
  <2>5. /\ Len(trips.transports_) \in Nat /\ Len(trips.ids_) \in Nat
        /\ Len(Store(trips.ids_, id)) \in Nat
    BY <1>3, <2>2, LenProperties
  <2> QED
    BY <2>2, <2>3, <2>4, <2>5
<1>5. entry \in [ids_ : Seq(TripId), transports_ : Seq(Nat)]
  BY <1>4
<1>6. /\ stored.additional_trips_ = [r.additional_trips_ EXCEPT ![src] = entry]
      /\ WellFormed(stored) /\ n_rt_transports(stored) = n
      /\ stored.bitfields_ = r.bitfields_
      /\ stored.transport_traffic_days_ = r.transport_traffic_days_
      /\ stored.static_trip_lookup_ = r.static_trip_lookup_
      /\ stored.rt_transport_static_transport_ = r.rt_transport_static_transport_
      /\ stored.rt_transport_src_ = r.rt_transport_src_
      /\ stored.rt_transport_location_seq_ = r.rt_transport_location_seq_
      /\ stored.rt_transport_is_cancelled_ = r.rt_transport_is_cancelled_
      /\ stored.location_rt_transports_ = r.location_rt_transports_
  <2> DEFINE all == [r.additional_trips_ EXCEPT ![src] = entry]
  <2> HIDE DEF entry
  <2>1. all \in [Source -> [ids_ : Seq(TripId), transports_ : Seq(Nat)]]
    BY <1>2, <1>5
  <2>2. stored = [r EXCEPT !.additional_trips_ = all]
    BY <1>2 DEF RttType
  <2> HIDE DEF stored, all
  <2>3. stored.additional_trips_ = all /\ stored \in RttType
    BY <1>2, <2>1, <2>2 DEF RttType
  <2>4. /\ stored.bitfields_ = r.bitfields_
        /\ stored.transport_traffic_days_ = r.transport_traffic_days_
        /\ stored.static_trip_lookup_ = r.static_trip_lookup_
        /\ stored.rt_transport_static_transport_ = r.rt_transport_static_transport_
        /\ stored.rt_transport_src_ = r.rt_transport_src_
        /\ stored.rt_transport_location_seq_ = r.rt_transport_location_seq_
        /\ stored.rt_transport_is_cancelled_ = r.rt_transport_is_cancelled_
        /\ stored.location_rt_transports_ = r.location_rt_transports_
    BY <1>2, <2>2 DEF RttType
  <2>5. WellFormed(stored) /\ n_rt_transports(stored) = n
    BY <1>2, <2>3, <2>4 DEF WellFormed, n_rt_transports, n
  <2> QED
    BY <2>3, <2>4, <2>5 DEF all
<1>7. static \in StaticOrAdded /\ static.transport = Invalid
  BY <1>4 DEF StaticOrAdded
<1> HIDE DEF stored, static, entry
<1>8. /\ WellFormed(a)
      /\ a.bitfields_ = r.bitfields_
      /\ a.transport_traffic_days_ = r.transport_traffic_days_
      /\ a.static_trip_lookup_ = r.static_trip_lookup_
      /\ a.additional_trips_ = stored.additional_trips_
  BY <1>6, <1>7, AppendTransportFields
<1>9. /\ Idx(a) = Idx(stored) \cup {n + 1} /\ n + 1 \notin Idx(stored)
      /\ RunOf(a, n + 1) = Invalid /\ StopsOf(a, n + 1) = stops
      /\ a.rt_transport_is_cancelled_ = stored.rt_transport_is_cancelled_
      /\ \A k \in Idx(stored) : /\ RunOf(a, k) = RunOf(stored, k)
                                /\ StopsOf(a, k) = StopsOf(stored, k)
      /\ \A l \in Location : stored.location_rt_transports_[l]
                               \subseteq a.location_rt_transports_[l]
      /\ \A i \in 1..Len(stops) : n + 1 \in a.location_rt_transports_[stops[i].loc]
  BY <1>6, <1>7, AppendTransportEntries
<1> HIDE DEF a
<1>10. /\ Idx(a) = Idx(r) \cup {n + 1} /\ n + 1 \notin Idx(r)
       /\ \A k \in Idx(r) : /\ RunOf(a, k) = RunOf(r, k)
                            /\ StopsOf(a, k) = StopsOf(r, k)
       /\ a.rt_transport_is_cancelled_ = r.rt_transport_is_cancelled_
       /\ \A l \in Location :
            r.location_rt_transports_[l] \subseteq a.location_rt_transports_[l]
  BY <1>6, <1>9 DEF Idx, n_rt_transports, RunOf, StopsOf
<1>11. \A td \in TransportDay :
         is_transport_active(a, td) <=> is_transport_active(r, td)
  BY <1>8 DEF is_transport_active, traffic_days
<1>12. Single(a)
  BY <1>8, <1>11 DEF Single, RttInv
<1>13. Looked(a)
  BY <1>8, <1>9, <1>10 DEF Looked, RttInv
<1>14. Listed(a)
  <2>1. ASSUME NEW k \in Idx(a), NEW i \in 1..Len(StopsOf(a, k))
        PROVE  k \in a.location_rt_transports_[StopsOf(a, k)[i].loc]
    <3>1. CASE k = n + 1
      BY <1>9, <2>1, <3>1
    <3>2. CASE k # n + 1
      <4>1. k \in Idx(r) /\ StopsOf(a, k) = StopsOf(r, k)
        BY <1>10, <3>2
      <4>2. StopsOf(r, k) \in Seq(Stop)
        BY <1>2, <4>1, ElementOfSeq DEF StopsOf, Idx, n
      <4>3. StopsOf(r, k)[i] \in Stop
        BY <4>1, <4>2, ElementOfSeq
      <4>4. StopsOf(r, k)[i].loc \in Location
        BY <4>3 DEF Stop
      <4>5. k \in r.location_rt_transports_[StopsOf(r, k)[i].loc]
        BY <4>1 DEF Listed, RttInv
      <4> QED
        BY <1>10, <4>1, <4>4, <4>5
    <3> QED
      BY <3>1, <3>2
  <2> QED
    BY <2>1 DEF Listed
<1>15. Fitting(a)
  BY <1>9, <1>10 DEF Fitting, RttInv
<1>16. Added(a)
  <2>1. ASSUME NEW s \in Source
        PROVE  LET ts == a.additional_trips_[s]
               IN  /\ Len(ts.ids_) <= Len(ts.transports_)
                   /\ \A j \in 1..Len(ts.transports_) :
                        /\ ts.transports_[j] \in Idx(a)
                        /\ RunOf(a, ts.transports_[j]) = Invalid
    <3>1. CASE s # src
      <4>1. a.additional_trips_[s] = r.additional_trips_[s]
        BY <1>2, <1>6, <1>8, <3>1
      <4> QED
        BY <4>1, <1>10 DEF Added, RttInv
    <3>2. CASE s = src
      <4>1. a.additional_trips_[s] = entry
        BY <1>2, <1>6, <1>8, <3>2
      <4>2. /\ Len(trips.ids_) <= Len(trips.transports_)
            /\ \A j \in 1..Len(trips.transports_) :
                 /\ trips.transports_[j] \in Idx(r)
                 /\ RunOf(r, trips.transports_[j]) = Invalid
        BY DEF Added, RttInv, trips
      <4>3. /\ entry.ids_ = Store(trips.ids_, id)
            /\ entry.transports_ = Append(trips.transports_, n + 1)
        BY DEF entry
      <4>4. Len(entry.ids_) <= Len(entry.transports_)
        BY <1>4, <4>2, <4>3
      <4>5. ASSUME NEW j \in 1..Len(entry.transports_)
            PROVE  /\ entry.transports_[j] \in Idx(a)
                   /\ RunOf(a, entry.transports_[j]) = Invalid
        <5>1. CASE j = Len(trips.transports_) + 1
          BY <1>4, <1>9, <4>3, <5>1
        <5>2. CASE j # Len(trips.transports_) + 1
          <6>1. j \in 1..Len(trips.transports_)
            BY <1>4, <4>3, <4>5, <5>2
          <6> QED
            BY <1>4, <1>10, <4>2, <4>3, <6>1
        <5> QED
          BY <5>1, <5>2
      <4> QED
        BY <4>1, <4>4, <4>5
    <3> QED
      BY <3>1, <3>2
  <2> QED
    BY <2>1 DEF Added
<1>17. Flagged(a, n + 1)
  BY <1>2, <1>10 DEF Flagged, NoRt, Idx
<1>18. \A td \in TransportDay : ServiceIn(a, td) = ServiceIn(r, td)
  BY <1>8, <1>10, <1>11 DEF ServiceIn
<1>19. Routed(a)
  <2>1. RoutedAt(a, n + 1)
    BY <1>9 DEF RoutedAt
  <2>2. ASSUME NEW k \in Idx(r) PROVE RoutedAt(a, k)
    BY <1>2, <1>10, RoutedGrows DEF RttInv
  <2> QED
    BY <1>10, <2>1, <2>2 DEF Routed
<1> QED
  BY <1>1, <1>8, <1>9, <1>12, <1>13, <1>14, <1>15, <1>16, <1>17, <1>18, <1>19
  DEF RttInv, n

-----------------------------------------------------------------------------
(***************************************************************************)
(* Flags and stops of an existing RT transport.                            *)
(***************************************************************************)
LEMMA FlagsInv ==
  ASSUME NEW r, RttInv(r), NEW k \in Idx(r), NEW flags \in SUBSET Idx(r),
         NEW f, f = [r EXCEPT !.rt_transport_is_cancelled_ = flags]
  PROVE  /\ RttInv(f)
         /\ f.rt_transport_is_cancelled_ = flags
         /\ f.rt_transport_location_seq_ = r.rt_transport_location_seq_
         /\ f.rt_transport_static_transport_ = r.rt_transport_static_transport_
         /\ f.rt_transport_src_ = r.rt_transport_src_
         /\ f.static_trip_lookup_ = r.static_trip_lookup_
         /\ \A td \in TransportDay :
              is_transport_active(f, td) <=> is_transport_active(r, td)
<1>1. WellFormed(r) /\ r \in RttType /\ Idx(r) \subseteq Nat
  BY FieldTypes DEF RttInv, Idx
<1>2. flags \in SUBSET Nat
  BY <1>1
<1>3. f \in RttType /\ f.rt_transport_is_cancelled_ = flags
  BY <1>1, <1>2 DEF RttType
<1>4. /\ f.bitfields_ = r.bitfields_
      /\ f.transport_traffic_days_ = r.transport_traffic_days_
      /\ f.static_trip_lookup_ = r.static_trip_lookup_
      /\ f.rt_transport_static_transport_ = r.rt_transport_static_transport_
      /\ f.rt_transport_src_ = r.rt_transport_src_
      /\ f.rt_transport_location_seq_ = r.rt_transport_location_seq_
      /\ f.additional_trips_ = r.additional_trips_
      /\ f.location_rt_transports_ = r.location_rt_transports_
  BY <1>1 DEF RttType
<1>5. WellFormed(f)
  BY <1>1, <1>3, <1>4 DEF WellFormed, n_rt_transports, Idx
<1>6. \A td \in TransportDay : is_transport_active(f, td) <=> is_transport_active(r, td)
  BY <1>4 DEF is_transport_active, traffic_days
<1>7. /\ Idx(f) = Idx(r)
      /\ \A j : RunOf(f, j) = RunOf(r, j) /\ StopsOf(f, j) = StopsOf(r, j)
  BY <1>4 DEF Idx, n_rt_transports, RunOf, StopsOf
<1>8. Single(f) /\ Looked(f)
  BY <1>4, <1>6, <1>7 DEF Single, Looked, RttInv
<1>9. Listed(f)
  BY <1>4, <1>7 DEF Listed, RttInv
<1>10. Fitting(f)
  BY <1>4, <1>7 DEF Fitting, RttInv
<1>11. Added(f)
  BY <1>4, <1>7 DEF Added, RttInv
<1>12. Routed(f)
  BY <1>4, <1>7 DEF Routed, RoutedAt, RttInv
<1> QED
  BY <1>3, <1>4, <1>5, <1>6, <1>8, <1>9, <1>10, <1>11, <1>12 DEF RttInv

\* The lookup entries of two runs differ.
LEMMA LookupInjective ==
  ASSUME NEW r, RttInv(r), NEW td \in TransportDay, NEW other \in TransportDay,
         r.static_trip_lookup_[td] = r.static_trip_lookup_[other],
         r.static_trip_lookup_[td] # NoRt
  PROVE  td = other
BY DEF RttInv, Looked

LEMMA ReinstateInv ==
  ASSUME NEW r, RttInv(r), Flagged(r, NoRt), NEW k \in Idx(r)
  PROVE  LET a == Reinstate(r, k)
         IN  /\ RttInv(a) /\ Flagged(a, k) /\ Idx(a) = Idx(r)
             /\ \A j \in Idx(r) : RunOf(a, j) = RunOf(r, j)
                                  /\ StopsOf(a, j) = StopsOf(r, j)
             /\ a.static_trip_lookup_ = r.static_trip_lookup_
             /\ OthersUnchanged(r, a, RunOf(r, k))
             /\ \A td \in TransportDay :
                  r.static_trip_lookup_[td] = k => ServiceIn(a, td) = "realtime"
<1> DEFINE a == Reinstate(r, k)
           flags == r.rt_transport_is_cancelled_ \ {k}
<1>1. a = [r EXCEPT !.rt_transport_is_cancelled_ = flags]
  BY DEF Reinstate
<1>2. flags \in SUBSET Idx(r)
  BY FieldTypes DEF RttInv
<1> HIDE DEF a, flags
<1>3. /\ RttInv(a) /\ a.rt_transport_is_cancelled_ = flags
      /\ a.rt_transport_location_seq_ = r.rt_transport_location_seq_
      /\ a.rt_transport_static_transport_ = r.rt_transport_static_transport_
      /\ a.rt_transport_src_ = r.rt_transport_src_
      /\ a.static_trip_lookup_ = r.static_trip_lookup_
      /\ \A td \in TransportDay :
           is_transport_active(a, td) <=> is_transport_active(r, td)
  BY <1>1, <1>2, FlagsInv
<1>4. /\ Idx(a) = Idx(r)
      /\ \A j : RunOf(a, j) = RunOf(r, j) /\ StopsOf(a, j) = StopsOf(r, j)
  BY <1>3 DEF Idx, n_rt_transports, RunOf, StopsOf
<1>5. Flagged(a, k)
  <2>1. ASSUME NEW j \in Idx(a) \ {k}, Cardinality(Served(StopsOf(a, j))) <= 1
        PROVE  j \in flags
    <3>0. NoRt \notin Idx(r)
      BY DEF NoRt, Idx
    <3>1. j \in Idx(r) \ {NoRt} /\ StopsOf(a, j) = StopsOf(r, j)
      BY <1>4, <2>1, <3>0
    <3>2. j \in r.rt_transport_is_cancelled_
      BY <2>1, <3>1 DEF Flagged
    <3> QED
      BY <2>1, <3>2 DEF flags
  <2> QED
    BY <1>3, <2>1 DEF Flagged
<1>6. OthersUnchanged(r, a, RunOf(r, k))
  <2>1. ASSUME NEW td \in TransportDay, td # RunOf(r, k)
        PROVE  ServiceIn(a, td) = ServiceIn(r, td)
    <3>1. r.static_trip_lookup_[td] = NoRt \/ r.static_trip_lookup_[td] # k
      BY <2>1 DEF RttInv, Looked
    <3> QED
      BY <3>1, <1>3 DEF ServiceIn, flags
  <2> QED
    BY <2>1 DEF OthersUnchanged
<1>7. k # NoRt
  BY DEF Idx, NoRt
<1>8. \A td \in TransportDay :
        r.static_trip_lookup_[td] = k => ServiceIn(a, td) = "realtime"
  BY <1>3, <1>7 DEF ServiceIn, flags
<1> QED
  BY <1>3, <1>4, <1>5, <1>6, <1>8 DEF a

\* Switching a day off keeps the invariant.
LEMMA DayOffInv ==
  ASSUME NEW r, RttInv(r), NEW td \in TransportDay
  PROVE  LET a == DeactivateDay(r, td)
         IN  /\ RttInv(a) /\ Idx(a) = Idx(r)
             /\ \A j : RunOf(a, j) = RunOf(r, j) /\ StopsOf(a, j) = StopsOf(r, j)
             /\ a.static_trip_lookup_ = r.static_trip_lookup_
             /\ a.rt_transport_is_cancelled_ = r.rt_transport_is_cancelled_
             /\ OthersUnchanged(r, a, td)
             /\ ~is_transport_active(a, td)
<1> DEFINE a == DeactivateDay(r, td)
<1>1. WellFormed(r)
  BY DEF RttInv
<1>2. /\ a.static_trip_lookup_ = r.static_trip_lookup_
      /\ a.rt_transport_static_transport_ = r.rt_transport_static_transport_
      /\ a.rt_transport_src_ = r.rt_transport_src_
      /\ a.rt_transport_location_seq_ = r.rt_transport_location_seq_
      /\ a.rt_transport_is_cancelled_ = r.rt_transport_is_cancelled_
      /\ a.additional_trips_ = r.additional_trips_
      /\ a.location_rt_transports_ = r.location_rt_transports_
  BY <1>1, DeactivateDayFields
<1>3. /\ WellFormed(a)
      /\ \A o \in TransportDay :
           is_transport_active(a, o) <=> is_transport_active(r, o) /\ o # td
  BY <1>1, DeactivateDayOff
<1> HIDE DEF a
<1>4. /\ Idx(a) = Idx(r)
      /\ \A j : RunOf(a, j) = RunOf(r, j) /\ StopsOf(a, j) = StopsOf(r, j)
  BY <1>2 DEF Idx, n_rt_transports, RunOf, StopsOf
<1>5. Single(a) /\ Looked(a)
  BY <1>2, <1>3, <1>4 DEF Single, Looked, RttInv
<1>6. Listed(a) /\ Routed(a)
  BY <1>2, <1>4 DEF Listed, Routed, RoutedAt, RttInv
<1>7. Fitting(a)
  BY <1>4 DEF Fitting, RttInv
<1>8. Added(a)
  BY <1>2, <1>4 DEF Added, RttInv
<1>9. OthersUnchanged(r, a, td)
  BY <1>2, <1>3 DEF OthersUnchanged, ServiceIn
<1> QED
  BY <1>2, <1>3, <1>4, <1>5, <1>6, <1>7, <1>8, <1>9 DEF RttInv, a

\* cancel_run on a run that has an RT transport.
LEMMA CancelRtInv ==
  ASSUME NEW r, RttInv(r), NEW k \in Idx(r), Flagged(r, k),
         NEW td \in TransportDay \cup {Invalid}, td = RunOf(r, k)
  PROVE  LET a == cancel_run(r, td, k)
         IN  /\ RttInv(a) /\ Flagged(a, NoRt)
             /\ Idx(a) = Idx(r)
             /\ \A j \in Idx(r) : RunOf(a, j) = RunOf(r, j)
             /\ a.static_trip_lookup_ = r.static_trip_lookup_
             /\ OthersUnchanged(r, a, td)
             /\ td # Invalid => ServiceIn(a, td) = "rt_cancelled"
<1> DEFINE a == cancel_run(r, td, k)
           flags == r.rt_transport_is_cancelled_ \cup {k}
           flagged == [r EXCEPT !.rt_transport_is_cancelled_ = flags]
<1>0. k # NoRt
  BY DEF Idx, NoRt
<1>1. a = IF td = Invalid THEN flagged ELSE DeactivateDay(flagged, td)
  BY <1>0 DEF cancel_run
<1>2. flags \in SUBSET Idx(r)
  BY FieldTypes DEF RttInv
<1> HIDE DEF a, flags
<1>3. /\ RttInv(flagged) /\ flagged.rt_transport_is_cancelled_ = flags
      /\ flagged.rt_transport_location_seq_ = r.rt_transport_location_seq_
      /\ flagged.rt_transport_static_transport_ = r.rt_transport_static_transport_
      /\ flagged.rt_transport_src_ = r.rt_transport_src_
      /\ flagged.static_trip_lookup_ = r.static_trip_lookup_
      /\ \A o \in TransportDay :
           is_transport_active(flagged, o) <=> is_transport_active(r, o)
  BY <1>2, FlagsInv
<1> HIDE DEF flagged
<1>4. /\ Idx(flagged) = Idx(r)
      /\ \A j : /\ RunOf(flagged, j) = RunOf(r, j)
                /\ StopsOf(flagged, j) = StopsOf(r, j)
  BY <1>3 DEF Idx, n_rt_transports, RunOf, StopsOf
<1>5. Flagged(flagged, NoRt)
  BY <1>3, <1>4 DEF Flagged, flags
<1>6. ASSUME NEW o \in TransportDay, o # td
      PROVE  ServiceIn(flagged, o) = ServiceIn(r, o)
  <2>1. r.static_trip_lookup_[o] = NoRt \/ r.static_trip_lookup_[o] # k
    BY <1>6 DEF RttInv, Looked
  <2> QED
    BY <2>1, <1>3 DEF ServiceIn, flags
<1>7. CASE td = Invalid
  BY <1>1, <1>3, <1>4, <1>5, <1>6, <1>7 DEF OthersUnchanged, a
<1>8. CASE td # Invalid
  <2>1. td \in TransportDay
    BY <1>8
  <2>2. a = DeactivateDay(flagged, td)
    BY <1>1, <1>8
  <2>3. /\ RttInv(a) /\ Idx(a) = Idx(flagged)
        /\ \A j : /\ RunOf(a, j) = RunOf(flagged, j)
                  /\ StopsOf(a, j) = StopsOf(flagged, j)
        /\ a.static_trip_lookup_ = flagged.static_trip_lookup_
        /\ a.rt_transport_is_cancelled_ = flagged.rt_transport_is_cancelled_
        /\ OthersUnchanged(flagged, a, td)
    BY <1>3, <2>1, <2>2, DayOffInv
  <2>10. Flagged(a, NoRt)
    BY <1>5, <2>3 DEF Flagged
  <2>11. OthersUnchanged(r, a, td)
    BY <1>6, <2>3 DEF OthersUnchanged
  <2>12. r.static_trip_lookup_[td] = k
    BY <1>8 DEF RttInv, Looked
  <2>13. ServiceIn(a, td) = "rt_cancelled"
    BY <1>0, <1>3, <2>3, <2>12 DEF ServiceIn, flags
  <2> QED
    BY <1>3, <1>4, <2>3, <2>10, <2>11, <2>13 DEF a
<1> QED
  BY <1>7, <1>8

\* cancel_run on a run that has no RT transport.
LEMMA CancelStaticInv ==
  ASSUME NEW r, RttInv(r), NEW td \in TransportDay, Flagged(r, NoRt),
         r.static_trip_lookup_[td] = NoRt
  PROVE  LET a == cancel_run(r, td, NoRt)
         IN  /\ RttInv(a) /\ Flagged(a, NoRt)
             /\ OthersUnchanged(r, a, td)
             /\ a.static_trip_lookup_[td] = NoRt
             /\ ~is_transport_active(a, td)
<1> DEFINE a == cancel_run(r, td, NoRt)
<1>1. a = DeactivateDay(r, td)
  BY TransportDayType DEF cancel_run
<1> HIDE DEF a
<1>2. /\ RttInv(a) /\ Idx(a) = Idx(r)
      /\ \A j : RunOf(a, j) = RunOf(r, j) /\ StopsOf(a, j) = StopsOf(r, j)
      /\ a.static_trip_lookup_ = r.static_trip_lookup_
      /\ a.rt_transport_is_cancelled_ = r.rt_transport_is_cancelled_
      /\ OthersUnchanged(r, a, td)
      /\ ~is_transport_active(a, td)
  BY <1>1, DayOffInv
<1>3. Flagged(a, NoRt)
  BY <1>2 DEF Flagged
<1> QED
  BY <1>2, <1>3 DEF a

-----------------------------------------------------------------------------
(***************************************************************************)
(* The walk over the stops of an RT transport.                             *)
(***************************************************************************)
LEMMA SetStopsInv ==
  ASSUME NEW r, RttInv(r), NEW k \in Idx(r), NEW new \in Seq(Stop),
         Len(new) = Len(StopsOf(r, k)), NEW assigned \in SUBSET Location,
         \A i \in 1..Len(new) : \/ new[i].loc \in assigned
                                \/ k \in r.location_rt_transports_[new[i].loc]
  PROVE  LET a == SetStops(r, k, new, assigned)
         IN  /\ RttInv(a) /\ Idx(a) = Idx(r)
             /\ StopsOf(a, k) = new
             /\ \A j \in Idx(r) \ {k} : StopsOf(a, j) = StopsOf(r, j)
             /\ \A j : RunOf(a, j) = RunOf(r, j)
             /\ a.static_trip_lookup_ = r.static_trip_lookup_
             /\ a.rt_transport_is_cancelled_ = r.rt_transport_is_cancelled_
             /\ \A td \in TransportDay : ServiceIn(a, td) = ServiceIn(r, td)
<1> DEFINE a == SetStops(r, k, new, assigned)
           seqs == [r.rt_transport_location_seq_ EXCEPT ![k] = new]
           locs == [l \in Location |->
                      IF l \in assigned THEN r.location_rt_transports_[l] \cup {k}
                                        ELSE r.location_rt_transports_[l]]
<1>1. /\ WellFormed(r) /\ r \in RttType
      /\ r.rt_transport_location_seq_ \in Seq(Seq(Stop))
      /\ Len(r.rt_transport_location_seq_) = n_rt_transports(r)
      /\ r.location_rt_transports_ \in [Location -> SUBSET Nat]
      /\ k \in 1..Len(r.rt_transport_location_seq_) /\ k \in Nat
  BY FieldTypes DEF RttInv, Idx
<1>2. /\ seqs \in Seq(Seq(Stop)) /\ Len(seqs) = Len(r.rt_transport_location_seq_)
      /\ seqs[k] = new
      /\ \A j \in 1..Len(seqs) : j # k => seqs[j] = r.rt_transport_location_seq_[j]
  BY <1>1, ExceptSeq
<1>3. locs \in [Location -> SUBSET Nat]
  BY <1>1
<1>4. a = [r EXCEPT !.rt_transport_location_seq_ = seqs,
                    !.location_rt_transports_ = locs]
  BY <1>1 DEF SetStops, RttType
<1> HIDE DEF a, seqs
<1>5. /\ \A l \in Location : r.location_rt_transports_[l] \subseteq locs[l]
      /\ \A l \in assigned : k \in locs[l]
  OBVIOUS
<1> HIDE DEF locs
<1>6. /\ a \in RttType
      /\ a.rt_transport_location_seq_ = seqs /\ a.location_rt_transports_ = locs
  BY <1>1, <1>2, <1>3, <1>4 DEF RttType
<1>7. /\ a.bitfields_ = r.bitfields_
      /\ a.transport_traffic_days_ = r.transport_traffic_days_
      /\ a.static_trip_lookup_ = r.static_trip_lookup_
      /\ a.rt_transport_static_transport_ = r.rt_transport_static_transport_
      /\ a.rt_transport_src_ = r.rt_transport_src_
      /\ a.rt_transport_is_cancelled_ = r.rt_transport_is_cancelled_
      /\ a.additional_trips_ = r.additional_trips_
  BY <1>1, <1>4 DEF RttType
<1>8. Idx(a) = Idx(r) /\ n_rt_transports(a) = n_rt_transports(r)
  BY <1>7 DEF Idx, n_rt_transports
<1>9. WellFormed(a)
  BY <1>1, <1>2, <1>6, <1>7, <1>8 DEF WellFormed
<1>10. \A j : RunOf(a, j) = RunOf(r, j)
  BY <1>7 DEF RunOf
<1>11. /\ StopsOf(a, k) = new
       /\ \A j \in Idx(r) \ {k} : StopsOf(a, j) = StopsOf(r, j)
  BY <1>1, <1>2, <1>6 DEF StopsOf, Idx
<1>12. \A td \in TransportDay : is_transport_active(a, td) <=> is_transport_active(r, td)
  BY <1>7 DEF is_transport_active, traffic_days
<1>13. Single(a) /\ Looked(a)
  BY <1>7, <1>8, <1>10, <1>12 DEF Single, Looked, RttInv
<1>14. Listed(a)
  <2>1. ASSUME NEW i \in 1..Len(new)
        PROVE  k \in locs[new[i].loc]
    BY <1>5, StopsType
  <2>2. ASSUME NEW j \in Idx(r) \ {k}, NEW i \in 1..Len(StopsOf(r, j))
        PROVE  j \in locs[StopsOf(r, j)[i].loc]
    <3>1. StopsOf(r, j) \in Seq(Stop)
      BY <1>1, ElementOfSeq DEF StopsOf, Idx
    <3>2. StopsOf(r, j)[i].loc \in Location
      BY <3>1, StopsType
    <3> QED
      BY <1>5, <3>2 DEF Listed, RttInv
  <2> QED
    BY <1>6, <1>8, <1>11, <2>1, <2>2 DEF Listed
<1>15. Routed(a)
  <2>1. ASSUME NEW j \in Idx(r) PROVE RoutedAt(a, j)
    BY <1>1, <1>5, <1>6, <1>10, RoutedGrows DEF RttInv
  <2> QED
    BY <1>8, <2>1 DEF Routed
<1>16. Fitting(a)
  BY <1>8, <1>10, <1>11 DEF Fitting, RttInv
<1>17. Added(a)
  BY <1>7, <1>8, <1>10 DEF Added, RttInv
<1>18. \A td \in TransportDay : ServiceIn(a, td) = ServiceIn(r, td)
  BY <1>7, <1>12 DEF ServiceIn
<1> QED
  BY <1>7, <1>8, <1>9, <1>10, <1>11, <1>13, <1>14, <1>15, <1>16, <1>17, <1>18
  DEF RttInv, a

\* update_run's walk: planned is the route of a scheduled run or the present
\* stops of an additional one; the index has the transport at all of them.
LEMMA UpdateStopsInv ==
  ASSUME NEW r, RttInv(r), NEW k \in Idx(r), Flagged(r, k),
         NEW td \in TransportDay \cup {Invalid}, td = RunOf(r, k),
         NEW planned \in Seq(Stop), Len(planned) = Len(StopsOf(r, k)),
         \A i \in 1..Len(planned) : k \in r.location_rt_transports_[planned[i].loc],
         NEW from, NEW to, NEW stus
  PROVE  LET a == UpdateStops(r, td, k, from, to, planned, stus)
         IN  /\ RttInv(a) /\ Flagged(a, NoRt)
             /\ OthersUnchanged(r, a, td)
             /\ td # Invalid => \/ ServiceIn(a, td) = ServiceIn(r, td)
                                \/ ServiceIn(a, td) = "rt_cancelled"
<1> DEFINE stops == r.rt_transport_location_seq_[k]
           InRange(i) == from <= i /\ i < to
           effect(i) == stus[i - from + 1]
           new == [i \in 1..Len(stops) |->
                     IF InRange(i) THEN NewStop(stops[i], planned[i], effect(i))
                                   ELSE stops[i]]
           assigned == {l \in Location : \E i \in 1..Len(stops) :
                          InRange(i) /\ effect(i) = l /\ IsTrackChange(l, planned[i])}
           walked == SetStops(r, k, new, assigned)
           a == UpdateStops(r, td, k, from, to, planned, stus)
<1>1. a = IF Cardinality(Served(new)) <= 1 THEN cancel_run(walked, td, k) ELSE walked
  BY DEF UpdateStops
<1>2. stops = StopsOf(r, k) /\ stops \in Seq(Stop) /\ Len(stops) \in Nat
  <2>1. /\ r.rt_transport_location_seq_ \in Seq(Seq(Stop))
        /\ k \in 1..Len(r.rt_transport_location_seq_)
    BY FieldTypes DEF RttInv, Idx
  <2>2. stops \in Seq(Stop)
    BY <2>1, ElementOfSeq
  <2> QED
    BY <2>2, StopsType DEF StopsOf
<1> HIDE DEF stops
<1>3. ASSUME NEW i \in 1..Len(stops)
      PROVE  /\ new[i] \in Stop
             /\ \/ new[i].loc \in assigned
                \/ k \in r.location_rt_transports_[new[i].loc]
  <2>1. /\ stops[i] \in Stop /\ k \in r.location_rt_transports_[stops[i].loc]
        /\ planned[i] \in Stop /\ k \in r.location_rt_transports_[planned[i].loc]
    <3>1. stops[i] \in Stop
      BY <1>2, StopsType
    <3>2. planned[i] \in Stop /\ k \in r.location_rt_transports_[planned[i].loc]
      BY <1>2, StopsType
    <3>3. k \in r.location_rt_transports_[stops[i].loc]
      BY <1>2 DEF RttInv, Listed
    <3> QED
      BY <3>1, <3>2, <3>3
  <2> DEFINE e == effect(i)
             s == NewStop(stops[i], planned[i], e)
  <2>2. CASE ~InRange(i)
    <3>1. new[i] = stops[i]
      BY <2>2
    <3> QED
      BY <2>1, <3>1
  <2>3. CASE InRange(i)
    <3>1. new[i] = s
      BY <2>3
    <3>2. IsTrackChange(e, planned[i]) => e \in assigned
      BY <2>3 DEF IsTrackChange
    <3> HIDE DEF new, e, assigned, InRange, effect
    <3>3. \/ s = [stops[i] EXCEPT !.in = FALSE, !.out = FALSE]
          \/ IsTrackChange(e, planned[i]) /\ s = [stops[i] EXCEPT !.loc = e]
          \/ s = planned[i]
          \/ s = stops[i]
      BY DEF NewStop
    <3> HIDE DEF s
    <3>4. CASE s = [stops[i] EXCEPT !.in = FALSE, !.out = FALSE]
      <4>1. s \in Stop /\ s.loc = stops[i].loc
        BY <2>1, <3>4 DEF Stop
      <4> QED
        BY <2>1, <3>1, <4>1
    <3>5. CASE IsTrackChange(e, planned[i]) /\ s = [stops[i] EXCEPT !.loc = e]
      <4>1. e \in Location
        BY <3>5 DEF IsTrackChange
      <4>2. s \in Stop /\ s.loc = e
        BY <2>1, <3>5, <4>1 DEF Stop
      <4> QED
        BY <3>1, <3>2, <3>5, <4>2
    <3>6. CASE s = planned[i] \/ s = stops[i]
      BY <2>1, <3>1, <3>6
    <3> QED
      BY <3>3, <3>4, <3>5, <3>6
  <2> QED
    BY <2>2, <2>3
<1>4. new \in Seq(Stop) /\ Len(new) = Len(stops)
  <2>1. new \in [1..Len(stops) -> Stop]
    BY <1>3
  <2> HIDE DEF new
  <2> QED
    BY <1>2, <2>1
<1>5. assigned \in SUBSET Location
  OBVIOUS
<1> HIDE DEF new, assigned, walked, a
<1>6. /\ RttInv(walked) /\ Idx(walked) = Idx(r)
      /\ StopsOf(walked, k) = new
      /\ \A j \in Idx(r) \ {k} : StopsOf(walked, j) = StopsOf(r, j)
      /\ \A j : RunOf(walked, j) = RunOf(r, j)
      /\ walked.static_trip_lookup_ = r.static_trip_lookup_
      /\ walked.rt_transport_is_cancelled_ = r.rt_transport_is_cancelled_
      /\ \A o \in TransportDay : ServiceIn(walked, o) = ServiceIn(r, o)
  BY <1>2, <1>3, <1>4, <1>5, SetStopsInv DEF walked
<1>7. Flagged(walked, k)
  BY <1>6 DEF Flagged
<1>8. CASE Cardinality(Served(new)) <= 1
  <2>1. a = cancel_run(walked, td, k)
    BY <1>1, <1>8
  <2>2. /\ RttInv(a) /\ Flagged(a, NoRt) /\ OthersUnchanged(walked, a, td)
        /\ td # Invalid => ServiceIn(a, td) = "rt_cancelled"
    BY <1>6, <1>7, <2>1, CancelRtInv
  <2>3. OthersUnchanged(r, a, td)
    BY <1>6, <2>2 DEF OthersUnchanged
  <2> QED
    BY <2>2, <2>3 DEF a
<1>9. CASE ~(Cardinality(Served(new)) <= 1)
  <2>1. a = walked
    BY <1>1, <1>9
  <2>2. Flagged(walked, NoRt)
    <3>1. ASSUME NEW j \in Idx(walked) \ {NoRt},
                 Cardinality(Served(StopsOf(walked, j))) <= 1
          PROVE  j \in walked.rt_transport_is_cancelled_
      BY <1>6, <1>7, <1>9, <3>1 DEF Flagged
    <3> QED
      BY <3>1 DEF Flagged
  <2>3. OthersUnchanged(r, walked, td)
    BY <1>6 DEF OthersUnchanged
  <2> QED
    BY <1>6, <2>1, <2>2, <2>3 DEF a
<1> QED
  BY <1>8, <1>9

\* No RT transport has the index NoRt, so Flagged(r, NoRt) is about all of them.
LEMMA FlaggedAll ==
  ASSUME NEW r, Flagged(r, NoRt), NEW k
  PROVE  Flagged(r, k)
<1>1. NoRt \notin Idx(r)
  BY DEF NoRt, Idx
<1> QED
  BY <1>1 DEF Flagged

\* update_run for a run of the static timetable: the run is served by its RT
\* transport or flagged cancelled, and no other run is concerned.
LEMMA UpdateScheduledRunInv ==
  ASSUME NEW r, RttInv(r), Flagged(r, NoRt), NEW src \in Source, NEW run \in Run,
         NEW stus
  PROVE  LET a == UpdateScheduledRun(r, src, run, stus)
             td == TransportOf(run)
         IN  /\ RttInv(a) /\ Flagged(a, NoRt)
             /\ OthersUnchanged(r, a, td)
             /\ ServiceIn(a, td) \in {"realtime", "rt_cancelled"}
<1> DEFINE td == TransportOf(run)
           found == r.static_trip_lookup_[td]
           k == IF found = NoRt THEN n_rt_transports(r) + 1 ELSE found
           ready == IF found = NoRt THEN AddScheduled(r, src, td) ELSE Reinstate(r, k)
           planned == LocationSeq[run.t]
           a == UpdateScheduledRun(r, src, run, stus)
<1>1. a = UpdateStops(ready, td, k, run.from, run.to, planned, stus)
  BY DEF UpdateScheduledRun
<1>2. td \in TransportDay /\ td # Invalid /\ td.t = run.t /\ run.t \in Transport
  <2>1. td \in TransportDay /\ td.t = run.t
    BY DEF TransportOf, TransportDay, Run
  <2> QED
    BY <2>1, TransportDayType
<1> HIDE DEF td, a
<1>3. /\ RttInv(ready) /\ Flagged(ready, k) /\ k \in Idx(ready)
      /\ RunOf(ready, k) = td
      /\ OthersUnchanged(r, ready, td)
      /\ ServiceIn(ready, td) = "realtime"
  <2>1. CASE found = NoRt
    <3>1. ready = AddScheduled(r, src, td) /\ k = n_rt_transports(r) + 1
      BY <2>1
    <3> QED
      BY <1>2, <2>1, <3>1, AddScheduledInv, FlaggedAll
  <2>2. CASE found # NoRt
    <3>1. ready = Reinstate(r, k) /\ k = found
      BY <2>2
    <3>2. k \in Idx(r) /\ RunOf(r, k) = td
      BY <1>2, <2>2, <3>1 DEF RttInv, Looked
    <3> QED
      BY <1>2, <3>1, <3>2, ReinstateInv
  <2> QED
    BY <2>1, <2>2
<1> HIDE DEF ready, k
<1>4. /\ planned \in Seq(Stop) /\ Len(planned) = Len(StopsOf(ready, k))
      /\ \A i \in 1..Len(planned) :
           k \in ready.location_rt_transports_[planned[i].loc]
  <2>1. planned \in Seq(Stop)
    BY <1>2, RouteAssumption
  <2>2. Len(planned) = Len(StopsOf(ready, k))
    BY <1>2, <1>3 DEF RttInv, Fitting
  <2>3. RoutedAt(ready, k)
    BY <1>3 DEF RttInv, Routed
  <2> QED
    BY <1>2, <1>3, <2>1, <2>2, <2>3 DEF RoutedAt
<1> HIDE DEF planned
<1>5. /\ RttInv(a) /\ Flagged(a, NoRt) /\ OthersUnchanged(ready, a, td)
      /\ \/ ServiceIn(a, td) = ServiceIn(ready, td)
         \/ ServiceIn(a, td) = "rt_cancelled"
  BY <1>1, <1>2, <1>3, <1>4, UpdateStopsInv
<1>6. OthersUnchanged(r, a, td)
  BY <1>3, <1>5 DEF OthersUnchanged
<1> QED
  BY <1>3, <1>5, <1>6 DEF a, td

\* update_run for an additional trip: no run of the static timetable is
\* concerned.
LEMMA UpdateAdditionalTripInv ==
  ASSUME NEW r, RttInv(r), Flagged(r, NoRt), NEW src \in Source, NEW id \in TripId,
         NEW pid, NEW stops \in AddedStops, NEW stus
  PROVE  LET a == UpdateAdditionalTrip(r, src, id, pid, stops, stus)
         IN  /\ RttInv(a) /\ Flagged(a, NoRt)
             /\ \A td \in TransportDay : ServiceIn(a, td) = ServiceIn(r, td)
<1> DEFINE key == IF pid = NoId THEN id ELSE pid
           found == resolve_added(r, src, key)
           k == IF found = NoRt THEN n_rt_transports(r) + 1 ELSE found
           ready == IF found = NoRt THEN AddAdditional(r, src, id, stops)
                                    ELSE Reinstate(r, k)
           present == ready.rt_transport_location_seq_[k]
           a == UpdateAdditionalTrip(r, src, id, pid, stops, stus)
<1>1. a = UpdateStops(ready, Invalid, k, 1, Len(present) + 1, present, stus)
  BY DEF UpdateAdditionalTrip
<1>2. stops \in Seq(Stop) /\ Len(stops) <= MaxStops
  BY UpdateAssumption
<1>3. \A td \in TransportDay : td # Invalid
  BY TransportDayType
<1> HIDE DEF a, key
<1>4. /\ RttInv(ready) /\ Flagged(ready, k) /\ k \in Idx(ready)
      /\ RunOf(ready, k) = Invalid
      /\ \A td \in TransportDay : ServiceIn(ready, td) = ServiceIn(r, td)
  <2>1. CASE found = NoRt
    <3>1. ready = AddAdditional(r, src, id, stops) /\ k = n_rt_transports(r) + 1
      BY <2>1
    <3> QED
      BY <1>2, <3>1, AddAdditionalInv
  <2>2. CASE found # NoRt
    <3>1. ready = Reinstate(r, k) /\ k = found
      BY <2>2
    <3>2. k \in Idx(r) /\ RunOf(r, k) = Invalid
      <4> DEFINE trips == r.additional_trips_[src]
                 j == IndexOfId(trips.ids_, key)
      <4>1. HasId(trips.ids_, key) /\ k = trips.transports_[j]
        BY <2>2, <3>1 DEF resolve_added
      <4>2. /\ Len(trips.ids_) <= Len(trips.transports_)
            /\ \A m \in 1..Len(trips.transports_) :
                 /\ trips.transports_[m] \in Idx(r)
                 /\ RunOf(r, trips.transports_[m]) = Invalid
        BY DEF RttInv, Added
      <4>3. j \in 1..Len(trips.ids_)
        BY <4>1 DEF HasId, IndexOfId
      <4>4. Len(trips.ids_) \in Nat /\ Len(trips.transports_) \in Nat
        <5>1. /\ trips.ids_ \in Seq(TripId) /\ trips.transports_ \in Seq(Nat)
          BY FieldTypes DEF RttInv
        <5> QED
          BY <5>1, LenProperties
      <4>5. j \in 1..Len(trips.transports_)
        BY <4>2, <4>3, <4>4
      <4> QED
        BY <4>1, <4>2, <4>5
    <3>3. /\ RttInv(ready) /\ Flagged(ready, k) /\ Idx(ready) = Idx(r)
          /\ RunOf(ready, k) = Invalid
          /\ OthersUnchanged(r, ready, Invalid)
      BY <3>1, <3>2, ReinstateInv
    <3> QED
      BY <1>3, <3>2, <3>3 DEF OthersUnchanged
  <2> QED
    BY <2>1, <2>2
<1> HIDE DEF ready, k
<1>5. /\ present \in Seq(Stop) /\ present = StopsOf(ready, k)
      /\ \A i \in 1..Len(present) :
           k \in ready.location_rt_transports_[present[i].loc]
  <2>1. /\ ready.rt_transport_location_seq_ \in Seq(Seq(Stop))
        /\ k \in 1..Len(ready.rt_transport_location_seq_)
    BY <1>4, FieldTypes DEF RttInv, Idx
  <2>2. present \in Seq(Stop)
    BY <2>1, ElementOfSeq
  <2>3. present = StopsOf(ready, k)
    BY DEF StopsOf
  <2> HIDE DEF present
  <2>4. \A i \in 1..Len(present) : k \in ready.location_rt_transports_[present[i].loc]
    BY <1>4, <2>3 DEF RttInv, Listed
  <2> QED
    BY <2>2, <2>3, <2>4
<1> HIDE DEF present
<1>6. /\ RttInv(a) /\ Flagged(a, NoRt) /\ OthersUnchanged(ready, a, Invalid)
  BY <1>1, <1>4, <1>5, UpdateStopsInv
<1> QED
  BY <1>3, <1>4, <1>6 DEF OthersUnchanged, a

-----------------------------------------------------------------------------
(***************************************************************************)
(* The feed handler.                                                       *)
(***************************************************************************)
Entered ==
  /\ entity \in Entity
  /\ pending \in SUBSET Run
  /\ pending = {} <=> entity = Idle
  /\ \A run \in pending : IsStaticActive(TransportOf(run))

\* The inductive invariant.
IInv == RttInv(rtt) /\ Flagged(rtt, NoRt) /\ Entered

LEMMA IInvImplies ==
  ASSUME IInv
  PROVE  /\ HandlerTypeOK /\ NoDoubleService /\ LookupInverse
         /\ LocationIndexComplete /\ FewStopsCancelled
<1>1. HandlerTypeOK
  BY WellFormedIsTypeOK DEF IInv, RttInv, Entered, HandlerTypeOK
<1>2. NoDoubleService
  BY DEF IInv, RttInv, Single, NoDoubleService
<1>3. LookupInverse
  BY DEF IInv, RttInv, Looked, LookupInverse, RtIdx, Idx, RunOf
<1>4. LocationIndexComplete
  BY DEF IInv, RttInv, Listed, LocationIndexComplete, RtIdx, Idx, StopsOf
<1>5. FewStopsCancelled
  <2>1. \A k \in RtIdx : k \in Idx(rtt) \ {NoRt}
    BY DEF RtIdx, Idx, NoRt
  <2> QED
    BY <2>1 DEF IInv, Flagged, FewStopsCancelled, StopsOf
<1> QED
  BY <1>1, <1>2, <1>3, <1>4, <1>5

LEMMA InitIInv == Init => IInv
<1> SUFFICES ASSUME Init PROVE IInv
  OBVIOUS
<1>1. rtt = create_rt_timetable /\ entity = Idle /\ pending = {}
  BY DEF Init
<1>2. /\ rtt.bitfields_ = <<>>
      /\ rtt.transport_traffic_days_ = [t \in Transport |->
                                          [rt |-> FALSE, idx |-> StaticTraffic[t]]]
      /\ rtt.static_trip_lookup_ = [td \in TransportDay |-> NoRt]
      /\ rtt.rt_transport_static_transport_ = <<>>
      /\ rtt.rt_transport_src_ = <<>>
      /\ rtt.rt_transport_location_seq_ = <<>>
      /\ rtt.rt_transport_is_cancelled_ = {}
      /\ rtt.additional_trips_ = [src \in Source |->
                                    [ids_ |-> <<>>, transports_ |-> <<>>]]
      /\ rtt.location_rt_transports_ = [l \in Location |-> {}]
  BY <1>1 DEF create_rt_timetable
<1>3. /\ [t \in Transport |-> [rt |-> FALSE, idx |-> StaticTraffic[t]]]
           \in [Transport -> BitfieldIdx]
      /\ \A t \in Transport : StaticTraffic[t] \in 1..Len(StaticBitfields)
  BY BitfieldAssumption DEF BitfieldIdx
<1>4. n_rt_transports(rtt) = 0 /\ Idx(rtt) = {}
  BY <1>2 DEF n_rt_transports, Idx
<1>5. rtt \in RttType
  <2>1. [td \in TransportDay |-> NoRt] \in [TransportDay -> Nat]
    BY DEF NoRt
  <2>2. [src \in Source |-> [ids_ |-> <<>>, transports_ |-> <<>>]]
          \in [Source -> [ids_ : Seq(TripId), transports_ : Seq(Nat)]]
    OBVIOUS
  <2>3. [l \in Location |-> {}] \in [Location -> SUBSET Nat]
    OBVIOUS
  <2>4. /\ <<>> \in Seq(SUBSET Day) /\ <<>> \in Seq(StaticOrAdded)
        /\ <<>> \in Seq(Source) /\ <<>> \in Seq(Seq(Stop)) /\ {} \in SUBSET Nat
    OBVIOUS
  <2> DEFINE days == [t \in Transport |-> [rt |-> FALSE, idx |-> StaticTraffic[t]]]
             lookup == [td \in TransportDay |-> NoRt]
             trips == [src \in Source |-> [ids_ |-> <<>>, transports_ |-> <<>>]]
             locs == [l \in Location |-> {}]
  <2>5. rtt = [bitfields_                     |-> <<>>,
               transport_traffic_days_        |-> days,
               static_trip_lookup_            |-> lookup,
               rt_transport_static_transport_ |-> <<>>,
               rt_transport_src_              |-> <<>>,
               rt_transport_location_seq_     |-> <<>>,
               rt_transport_is_cancelled_     |-> {},
               additional_trips_              |-> trips,
               location_rt_transports_        |-> locs]
    BY <1>1 DEF create_rt_timetable
  <2>6. /\ days \in [Transport -> BitfieldIdx]
        /\ lookup \in [TransportDay -> Nat]
        /\ trips \in [Source -> [ids_ : Seq(TripId), transports_ : Seq(Nat)]]
        /\ locs \in [Location -> SUBSET Nat]
    BY <1>3, <2>1, <2>2, <2>3
  <2> HIDE DEF days, lookup, trips, locs
  <2> QED
    BY <2>4, <2>5, <2>6 DEF RttType
<1>6. WellFormed(rtt)
  BY <1>2, <1>3, <1>4, <1>5 DEF WellFormed
<1>7. Single(rtt)
  BY <1>2 DEF Single
<1>8. Looked(rtt)
  BY <1>2, <1>4 DEF Looked
<1>9. Listed(rtt) /\ Routed(rtt) /\ Fitting(rtt) /\ Flagged(rtt, NoRt)
  BY <1>4 DEF Listed, Routed, Fitting, Flagged
<1>10. Added(rtt)
  BY <1>2 DEF Added
<1>11. Entered
  BY <1>1 DEF Entered, Entity
<1> QED
  BY <1>6, <1>7, <1>8, <1>9, <1>10, <1>11 DEF IInv, RttInv

\* The runs a trip resolves to are runs of the static timetable.
LEMMA ResolvedRuns ==
  ASSUME NEW trip \in Trip, NEW date, NEW run \in ResolveStatic(trip, date)
  PROVE  run \in Run /\ IsStaticActive(TransportOf(run))
<1>1. TripRanges[trip] \in SUBSET TransportRange
  BY TripAssumption
<1>2. \A e \in TripRanges[trip] : e.from \in Nat \ {0} /\ e.to \in Nat \ {0}
  BY <1>1 DEF TransportRange
<1> QED
  BY <1>2 DEF ResolveStatic, Run

\* The transitions DayService allows of a run, and of no other run.
Promised(r, a, td) ==
  /\ OthersUnchanged(r, a, td)
  /\ \/ ServiceIn(a, td) = ServiceIn(r, td)
     \/ /\ ServiceIn(r, td) \in {"static", "cancelled"}
        /\ ServiceIn(a, td) \in {"realtime", "rt_cancelled"}
     \/ /\ ServiceIn(r, td) \in {"realtime", "rt_cancelled"}
        /\ ServiceIn(a, td) \in {"realtime", "rt_cancelled"}
     \/ ServiceIn(r, td) = "static" /\ ServiceIn(a, td) = "cancelled"

LEMMA ServiceOfStaticRun ==
  ASSUME NEW r, NEW td \in TransportDay, IsStaticActive(td)
  PROVE  IF r.static_trip_lookup_[td] = NoRt
           THEN ServiceIn(r, td) \in {"static", "cancelled"}
           ELSE ServiceIn(r, td) \in {"realtime", "rt_cancelled"}
BY DEF ServiceIn

LEMMA TransportOfRun ==
  ASSUME NEW run \in Run
  PROVE  TransportOf(run) \in TransportDay
BY DEF TransportOf, TransportDay, Run

\* A SCHEDULED entity updates a run.
LEMMA UpdateRunStep ==
  ASSUME IInv, NEW run \in pending, UpdateRun(run)
  PROVE  /\ RttInv(rtt') /\ Flagged(rtt', NoRt)
         /\ Promised(rtt, rtt', TransportOf(run))
<1> DEFINE td == TransportOf(run)
<1>1. run \in Run /\ td \in TransportDay /\ IsStaticActive(td)
  BY TransportOfRun DEF IInv, Entered
<1>2. entity.src \in Source
  BY DEF IInv, Entered, Entity
<1>3. rtt' = UpdateScheduledRun(rtt, entity.src, run, entity.update.stus)
  BY DEF UpdateRun
<1>4. /\ RttInv(rtt') /\ Flagged(rtt', NoRt) /\ OthersUnchanged(rtt, rtt', td)
      /\ ServiceIn(rtt', td) \in {"realtime", "rt_cancelled"}
  BY <1>1, <1>2, <1>3, UpdateScheduledRunInv DEF IInv
<1>5. ServiceIn(rtt, td) \in {"static", "cancelled", "realtime", "rt_cancelled"}
  BY <1>1, ServiceOfStaticRun
<1> QED
  BY <1>4, <1>5 DEF Promised

\* A CANCELED entity cancels a run.
LEMMA CancelRunStep ==
  ASSUME IInv, NEW run \in pending, CancelRun(run)
  PROVE  /\ RttInv(rtt') /\ Flagged(rtt', NoRt)
         /\ Promised(rtt, rtt', TransportOf(run))
<1> DEFINE td == TransportOf(run)
           k == rtt.static_trip_lookup_[td]
<1>1. run \in Run /\ td \in TransportDay /\ IsStaticActive(td)
  BY TransportOfRun DEF IInv, Entered
<1>2. rtt' = cancel_run(rtt, td, k)
  BY DEF CancelRun
<1> HIDE DEF td
<1>3. CASE k = NoRt
  <2>1. /\ RttInv(rtt') /\ Flagged(rtt', NoRt) /\ OthersUnchanged(rtt, rtt', td)
        /\ rtt'.static_trip_lookup_[td] = NoRt /\ ~is_transport_active(rtt', td)
    BY <1>1, <1>2, <1>3, CancelStaticInv DEF IInv
  <2>2. ServiceIn(rtt', td) = "cancelled"
    BY <1>1, <2>1 DEF ServiceIn
  <2>3. ServiceIn(rtt, td) \in {"static", "cancelled"}
    BY <1>1, <1>3, ServiceOfStaticRun
  <2> QED
    BY <2>1, <2>2, <2>3 DEF Promised, td
<1>4. CASE k # NoRt
  <2>1. k \in Idx(rtt) /\ RunOf(rtt, k) = td
    BY <1>1, <1>4 DEF IInv, RttInv, Looked
  <2>2. td # Invalid
    BY <1>1, TransportDayType
  <2>3. /\ RttInv(rtt') /\ Flagged(rtt', NoRt) /\ OthersUnchanged(rtt, rtt', td)
        /\ ServiceIn(rtt', td) = "rt_cancelled"
    BY <1>1, <1>2, <2>1, <2>2, FlaggedAll, CancelRtInv DEF IInv
  <2>4. ServiceIn(rtt, td) \in {"realtime", "rt_cancelled"}
    BY <1>1, <1>4, ServiceOfStaticRun
  <2> QED
    BY <2>3, <2>4 DEF Promised, td
<1> QED
  BY <1>3, <1>4

\* A vehicle position gives the first run of its trip an RT transport.
LEMMA VehiclePositionStep ==
  ASSUME IInv, NEW trip \in Trip, NEW date \in Day, VehiclePosition(trip, date)
  PROVE  /\ RttInv(rtt') /\ Flagged(rtt', NoRt)
         /\ \E td \in TransportDay : Promised(rtt, rtt', td)
<1>1. PICK run \in ResolveStatic(trip, date) :
        /\ rtt.static_trip_lookup_[TransportOf(run)] = NoRt
        /\ rtt' = AddScheduled(rtt, TripSource[trip], TransportOf(run))
  BY DEF VehiclePosition
<1> DEFINE td == TransportOf(run)
<1>2. td \in TransportDay /\ IsStaticActive(td)
  BY ResolvedRuns, TransportOfRun
<1>3. TripSource[trip] \in Source
  BY TripAssumption
<1>4. /\ RttInv(rtt') /\ Flagged(rtt', NoRt) /\ OthersUnchanged(rtt, rtt', td)
      /\ ServiceIn(rtt', td) = "realtime"
  BY <1>1, <1>2, <1>3, AddScheduledInv DEF IInv
<1>5. ServiceIn(rtt, td) \in {"static", "cancelled"}
  BY <1>1, <1>2, ServiceOfStaticRun
<1>6. Promised(rtt, rtt', td)
  BY <1>4, <1>5 DEF Promised
<1> QED
  BY <1>2, <1>4, <1>6

\* An additional trip concerns no run of the static timetable.
LEMMA AddedTripStep ==
  ASSUME IInv, NEW src \in Source, NEW id \in TripId, NEW pid \in PropertiesIds,
         NEW stops \in AddedStops, NEW stus \in StopUpdates,
         AddedTrip(src, id, pid, stops, stus)
  PROVE  /\ RttInv(rtt') /\ Flagged(rtt', NoRt)
         /\ \A td \in TransportDay : ServiceIn(rtt', td) = ServiceIn(rtt, td)
<1>1. rtt' = UpdateAdditionalTrip(rtt, src, id, pid, stops, stus)
  BY DEF AddedTrip
<1>2. RttInv(rtt) /\ Flagged(rtt, NoRt)
  BY DEF IInv
<1> QED
  BY <1>1, <1>2, UpdateAdditionalTripInv

\* The part of the invariant about the entity in progress.
LEMMA EnteredStep == IInv /\ [Next]_vars => Entered'
<1> SUFFICES ASSUME IInv, [Next]_vars PROVE Entered'
  OBVIOUS
<1> USE DEF IInv
<1>1. ASSUME NEW trip \in Trip, NEW date \in Day, NEW update \in Update,
             TripUpdate(trip, date, update)
      PROVE  Entered'
  <2>1. /\ pending' = ResolveStatic(trip, date) /\ pending' # {}
        /\ entity' = [src |-> TripSource[trip], update |-> update]
    BY <1>1 DEF TripUpdate
  <2>2. TripSource[trip] \in Source
    BY TripAssumption
  <2>3. entity' \in Entity
    BY <2>1, <2>2 DEF Entity
  <2>4. entity' # Idle
    BY <2>1 DEF Idle
  <2>5. /\ pending' \in SUBSET Run
        /\ \A run \in pending' : IsStaticActive(TransportOf(run))
    BY <2>1, ResolvedRuns
  <2> QED
    BY <2>1, <2>3, <2>4, <2>5 DEF Entered
<1>2. ASSUME NEW run \in pending, Processed(run)
      PROVE  Entered'
  BY <1>2 DEF Processed, Entered, Entity
<1>3. CASE UNCHANGED <<entity, pending>>
  BY <1>3 DEF Entered
<1>4. CASE Next
  BY <1>1, <1>2, <1>3, <1>4
  DEF Next, UpdateRun, RefuseRun, CancelRun, AddedTrip, VehiclePosition
<1>5. CASE UNCHANGED vars
  BY <1>3, <1>5 DEF vars
<1> QED
  BY <1>4, <1>5

\* What every step does to the real-time timetable.
RttPromised(r, a) ==
  /\ RttInv(a) /\ Flagged(a, NoRt)
  /\ \/ \A td \in TransportDay : ServiceIn(a, td) = ServiceIn(r, td)
     \/ \E td \in TransportDay : Promised(r, a, td)

LEMMA RttStep == IInv /\ [Next]_vars => RttPromised(rtt, rtt')
<1> SUFFICES ASSUME IInv, [Next]_vars PROVE RttPromised(rtt, rtt')
  OBVIOUS
<1>1. CASE UNCHANGED rtt
  BY <1>1 DEF IInv, RttPromised
<1>2. ASSUME NEW trip \in Trip, NEW date \in Day, NEW update \in Update,
             TripUpdate(trip, date, update)
      PROVE  RttPromised(rtt, rtt')
  BY <1>1, <1>2 DEF TripUpdate
<1>3. ASSUME NEW run \in pending
      PROVE  TransportOf(run) \in TransportDay
  BY TransportOfRun DEF IInv, Entered
<1>4. ASSUME NEW run \in pending, UpdateRun(run)
      PROVE  RttPromised(rtt, rtt')
  BY <1>3, <1>4, UpdateRunStep DEF RttPromised
<1>5. ASSUME NEW run \in pending, RefuseRun(run)
      PROVE  RttPromised(rtt, rtt')
  BY <1>1, <1>5 DEF RefuseRun
<1>6. ASSUME NEW run \in pending, CancelRun(run)
      PROVE  RttPromised(rtt, rtt')
  BY <1>3, <1>6, CancelRunStep DEF RttPromised
<1>7. ASSUME NEW src \in Source, NEW id \in TripId, NEW pid \in PropertiesIds,
             NEW stops \in AddedStops, NEW stus \in StopUpdates,
             AddedTrip(src, id, pid, stops, stus)
      PROVE  RttPromised(rtt, rtt')
  BY <1>7, AddedTripStep DEF RttPromised
<1>8. ASSUME NEW trip \in Trip, NEW date \in Day, VehiclePosition(trip, date)
      PROVE  RttPromised(rtt, rtt')
  BY <1>8, VehiclePositionStep DEF RttPromised
<1>9. CASE Next
  BY <1>2, <1>4, <1>5, <1>6, <1>7, <1>8, <1>9 DEF Next
<1>10. CASE UNCHANGED vars
  BY <1>1, <1>10 DEF vars
<1> QED
  BY <1>9, <1>10

LEMMA IInvInvariant == Spec => []IInv
<1>1. IInv /\ [Next]_vars => IInv'
  BY RttStep, EnteredStep DEF IInv, RttPromised
<1> QED
  BY InitIInv, <1>1, PTL DEF Spec

-----------------------------------------------------------------------------
\* The state has the types of the struct's members and the entity in progress
\* is well typed.
THEOREM TypeCorrect == Spec => []HandlerTypeOK
BY IInvInvariant, IInvImplies, PTL

\* No run is offered by the static timetable and by an RT transport.
THEOREM ServedOnce == Spec => []NoDoubleService
BY IInvInvariant, IInvImplies, PTL

\* Every run finds its RT transport, and every RT transport of a run is found.
THEOREM LookupsAreInverse == Spec => []LookupInverse
BY IInvInvariant, IInvImplies, PTL

\* Routing finds an RT transport at all of its stops, after track changes too.
THEOREM LocationsIndexed == Spec => []LocationIndexComplete
BY IInvInvariant, IInvImplies, PTL

\* An RT transport with at most one usable stop is flagged cancelled.
THEOREM FewStopsAreCancelled == Spec => []FewStopsCancelled
BY IInvInvariant, IInvImplies, PTL

-----------------------------------------------------------------------------
(***************************************************************************)
(* Additional trips.  Most operations keep the three fields that number    *)
(* them; a scheduled RT transport appends to two of them an entry that     *)
(* names no additional trip; an additional trip appends to all of them.    *)
(***************************************************************************)
AddedOf(r, k) == r.rt_transport_static_transport_[k].added
SrcOf(r, k) == r.rt_transport_src_[k]

\* No id is stored twice, every id has a transport, and the number an additional
\* trip has leads to its RT transport.
Numbered(r) ==
  /\ \A src \in Source :
       LET trips == r.additional_trips_[src]
       IN  /\ Len(trips.ids_) <= Len(trips.transports_)
           /\ \A i, j \in 1..Len(trips.ids_) : trips.ids_[i] = trips.ids_[j] => i = j
  /\ \A k \in Idx(r) :
       LET trips == r.additional_trips_[SrcOf(r, k)]
       IN  AddedOf(r, k) # 0 => /\ AddedOf(r, k) \in 1..Len(trips.transports_)
                                /\ trips.transports_[AddedOf(r, k)] = k

NumberFields == {"rt_transport_static_transport_", "rt_transport_src_", "additional_trips_"}

Kept(r, a) ==
  /\ DOMAIN a = DOMAIN r
  /\ a.rt_transport_static_transport_ = r.rt_transport_static_transport_
  /\ a.rt_transport_src_ = r.rt_transport_src_
  /\ a.additional_trips_ = r.additional_trips_

LEMMA KeptNumbered ==
  ASSUME NEW r, NEW a, Kept(r, a), Numbered(r)
  PROVE  Numbered(a)
BY DEF Kept, Numbered, Idx, n_rt_transports, AddedOf, SrcOf

\* The operations that keep the numbering.
LEMMA OperationsKeep ==
  ASSUME NEW r, NumberFields \subseteq DOMAIN r, NEW td, NEW k, NEW stops, NEW assigned
  PROVE  /\ Kept(r, DeactivateDay(r, td))
         /\ Kept(r, Reinstate(r, k))
         /\ Kept(r, SetStops(r, k, stops, assigned))
<1>1. /\ "rt_transport_static_transport_" \in DOMAIN r
      /\ "rt_transport_src_" \in DOMAIN r
      /\ "additional_trips_" \in DOMAIN r
  BY DEF NumberFields
<1>2. Kept(r, DeactivateDay(r, td))
  BY <1>1 DEF Kept, DeactivateDay
<1>3. Kept(r, Reinstate(r, k))
  BY <1>1 DEF Kept, Reinstate
<1>4. Kept(r, SetStops(r, k, stops, assigned))
  BY <1>1 DEF Kept, SetStops
<1> QED
  BY <1>2, <1>3, <1>4

LEMMA CancelKeeps ==
  ASSUME NEW r, NumberFields \subseteq DOMAIN r, NEW td, NEW k
  PROVE  Kept(r, cancel_run(r, td, k))
<1> DEFINE flagged == IF k = NoRt THEN r
                      ELSE [r EXCEPT !.rt_transport_is_cancelled_ = @ \cup {k}]
<1>1. /\ "rt_transport_static_transport_" \in DOMAIN r
      /\ "rt_transport_src_" \in DOMAIN r
      /\ "additional_trips_" \in DOMAIN r
  BY DEF NumberFields
<1>2. Kept(r, flagged)
  BY <1>1 DEF Kept
<1>3. cancel_run(r, td, k) = IF td = Invalid THEN flagged ELSE DeactivateDay(flagged, td)
  BY DEF cancel_run
<1> HIDE DEF flagged
<1>4. Kept(flagged, DeactivateDay(flagged, td))
  BY <1>2, OperationsKeep DEF Kept
<1> QED
  BY <1>2, <1>3, <1>4 DEF Kept

LEMMA UpdateStopsKeeps ==
  ASSUME NEW r, NumberFields \subseteq DOMAIN r, NEW td, NEW k, NEW from, NEW to,
         NEW planned, NEW stus
  PROVE  Kept(r, UpdateStops(r, td, k, from, to, planned, stus))
<1> DEFINE a == UpdateStops(r, td, k, from, to, planned, stus)
<1>1. \E stops, assigned :
        \/ a = SetStops(r, k, stops, assigned)
        \/ a = cancel_run(SetStops(r, k, stops, assigned), td, k)
  BY Zenon DEF UpdateStops
<1> HIDE DEF a
<1>2. PICK stops, assigned :
        \/ a = SetStops(r, k, stops, assigned)
        \/ a = cancel_run(SetStops(r, k, stops, assigned), td, k)
  BY <1>1
<1> DEFINE walked == SetStops(r, k, stops, assigned)
<1>3. Kept(r, walked)
  BY OperationsKeep
<1> HIDE DEF walked
<1>4. Kept(walked, cancel_run(walked, td, k))
  BY <1>3, CancelKeeps DEF Kept
<1> QED
  BY <1>2, <1>3, <1>4 DEF Kept, a, walked

\* What AppendTransport appends to the fields that number additional trips.
LEMMA AppendTransportNumbers ==
  ASSUME NEW r, WellFormed(r), NEW static \in StaticOrAdded, NEW src \in Source,
         NEW stops \in Seq(Stop)
  PROVE  LET a == AppendTransport(r, static, src, stops)
             n == n_rt_transports(r)
         IN  /\ a.additional_trips_ = r.additional_trips_
             /\ Idx(a) = Idx(r) \cup {n + 1} /\ n + 1 \notin Idx(r)
             /\ AddedOf(a, n + 1) = static.added /\ SrcOf(a, n + 1) = src
             /\ \A k \in Idx(r) : /\ AddedOf(a, k) = AddedOf(r, k)
                                  /\ SrcOf(a, k) = SrcOf(r, k)
             /\ WellFormed(a)
<1> DEFINE a == AppendTransport(r, static, src, stops)
           n == n_rt_transports(r)
<1>1. /\ WellFormed(a) /\ n \in Nat /\ n_rt_transports(a) = n + 1
      /\ a.additional_trips_ = r.additional_trips_
      /\ a.rt_transport_static_transport_ =
           Append(r.rt_transport_static_transport_, static)
  BY AppendTransportFields
<1>2. /\ r.rt_transport_static_transport_ \in Seq(StaticOrAdded)
      /\ r.rt_transport_src_ \in Seq(Source)
      /\ Len(r.rt_transport_static_transport_) = n
      /\ Len(r.rt_transport_src_) = n
      /\ r \in RttType
  BY FieldTypes DEF n_rt_transports
<1>3. a.rt_transport_src_ = Append(r.rt_transport_src_, src)
  BY <1>2 DEF AppendTransport, RttType
<1> HIDE DEF a, n
<1>4. /\ a.rt_transport_static_transport_[n + 1] = static
      /\ \A k \in 1..n : a.rt_transport_static_transport_[k] =
                           r.rt_transport_static_transport_[k]
  BY <1>1, <1>2, AppendEntries
<1>5. /\ a.rt_transport_src_[n + 1] = src
      /\ \A k \in 1..n : a.rt_transport_src_[k] = r.rt_transport_src_[k]
  BY <1>2, <1>3, AppendEntries
<1>6. Idx(a) = Idx(r) \cup {n + 1} /\ Idx(r) = 1..n /\ n + 1 \notin Idx(r)
  BY <1>1 DEF Idx, n
<1> QED
  BY <1>1, <1>4, <1>5, <1>6 DEF AddedOf, SrcOf, a, n

\* An RT transport of a scheduled run has no additional trip's number.
LEMMA AddScheduledNumbered ==
  ASSUME NEW r, WellFormed(r), Numbered(r), NEW src \in Source,
         NEW td \in TransportDay, r.static_trip_lookup_[td] = NoRt
  PROVE  /\ Numbered(AddScheduled(r, src, td))
         /\ AddScheduled(r, src, td).additional_trips_ = r.additional_trips_
<1> DEFINE n == n_rt_transports(r)
           looked == [r EXCEPT !.static_trip_lookup_[td] = IF @ = NoRt THEN n + 1 ELSE @]
           off == DeactivateDay(looked, td)
           static == [transport |-> td, added |-> 0]
           a == AppendTransport(off, static, src, LocationSeq[td.t])
<1>1. AddScheduled(r, src, td) = a
  BY DEF AddScheduled
<1>2. /\ r \in RttType /\ n \in Nat
      /\ r.static_trip_lookup_ \in [TransportDay -> Nat]
  BY FieldTypes
<1>3. /\ NumberFields \subseteq DOMAIN r
      /\ Kept(r, looked)
  BY <1>2 DEF NumberFields, RttType, Kept
<1>4. WellFormed(looked)
  <2> DEFINE lookup == [r.static_trip_lookup_ EXCEPT ![td] = n + 1]
  <2>1. looked = [r EXCEPT !.static_trip_lookup_ = lookup]
    BY <1>2 DEF RttType
  <2> HIDE DEF n
  <2>2. lookup \in [TransportDay -> Nat]
    BY <1>2
  <2> HIDE DEF looked, lookup
  <2>3. /\ looked \in RttType
        /\ looked.bitfields_ = r.bitfields_
        /\ looked.transport_traffic_days_ = r.transport_traffic_days_
        /\ looked.rt_transport_location_seq_ = r.rt_transport_location_seq_
        /\ looked.rt_transport_is_cancelled_ = r.rt_transport_is_cancelled_
    BY <1>2, <2>1, <2>2 DEF RttType
  <2> QED
    BY <1>3, <2>3 DEF WellFormed, Kept, n_rt_transports
<1> HIDE DEF looked
<1>5. Kept(looked, off) /\ WellFormed(off)
  <2>1. NumberFields \subseteq DOMAIN looked
    BY <1>3 DEF Kept
  <2> QED
    BY <1>4, <2>1, OperationsKeep, DeactivateDayOff
<1> HIDE DEF off
<1>6. Numbered(off)
  BY <1>3, <1>5, KeptNumbered
<1>7. static \in StaticOrAdded /\ static.added = 0
  BY DEF StaticOrAdded
<1>8. LocationSeq[td.t] \in Seq(Stop)
  BY RouteAssumption, TransportDayType
<1> DEFINE m == n_rt_transports(off)
<1>9. /\ a.additional_trips_ = off.additional_trips_
      /\ Idx(a) = Idx(off) \cup {m + 1}
      /\ AddedOf(a, m + 1) = 0
      /\ \A k \in Idx(off) : /\ AddedOf(a, k) = AddedOf(off, k)
                             /\ SrcOf(a, k) = SrcOf(off, k)
  <2> HIDE DEF static
  <2> QED
    BY <1>5, <1>7, <1>8, AppendTransportNumbers
<1> HIDE DEF a, m
<1>10. Numbered(a)
  BY <1>6, <1>9 DEF Numbered
<1>11. a.additional_trips_ = r.additional_trips_
  BY <1>3, <1>5, <1>9 DEF Kept
<1> QED
  BY <1>1, <1>10, <1>11

\* A new additional trip gets the next number, under an id that is stored once.
LEMMA AddAdditionalNumbered ==
  ASSUME NEW r, WellFormed(r), Numbered(r), NEW src \in Source, NEW id \in TripId,
         NEW stops \in Seq(Stop)
  PROVE  LET a == AddAdditional(r, src, id, stops)
             trips == r.additional_trips_[src]
         IN  /\ Numbered(a)
             /\ \A s \in Source \ {src} :
                  a.additional_trips_[s] = r.additional_trips_[s]
             /\ Len(a.additional_trips_[src].transports_) = Len(trips.transports_) + 1
             /\ ~HasId(trips.ids_, id) =>
                  Len(a.additional_trips_[src].ids_) = Len(trips.ids_) + 1
<1> DEFINE n == n_rt_transports(r)
           trips == r.additional_trips_[src]
           ids == Store(trips.ids_, id)
           transports == Append(trips.transports_, n + 1)
           entry == [ids_ |-> ids, transports_ |-> transports]
           stored == [r EXCEPT !.additional_trips_[src] = entry]
           static == [transport |-> Invalid, added |-> Len(trips.transports_) + 1]
           a == AppendTransport(stored, static, src, stops)
           len == Len(trips.transports_)
<1>1. AddAdditional(r, src, id, stops) = a
  BY DEF AddAdditional
<1>2. /\ r \in RttType /\ n \in Nat /\ n + 1 \in Nat
      /\ r.additional_trips_ \in [Source -> [ids_ : Seq(TripId), transports_ : Seq(Nat)]]
  BY FieldTypes
<1> HIDE DEF n
<1>3. /\ trips.ids_ \in Seq(TripId) /\ trips.transports_ \in Seq(Nat)
      /\ len \in Nat /\ Len(trips.ids_) \in Nat /\ Len(trips.ids_) <= len
  <2>1. trips.ids_ \in Seq(TripId) /\ trips.transports_ \in Seq(Nat)
    BY <1>2
  <2> QED
    BY <2>1, LenProperties DEF Numbered
<1>4. \A i, j \in 1..Len(trips.ids_) : trips.ids_[i] = trips.ids_[j] => i = j
  BY DEF Numbered
<1> HIDE DEF trips
<1>5. /\ ids \in Seq(TripId) /\ Len(ids) <= len + 1
      /\ ~HasId(trips.ids_, id) => Len(ids) = Len(trips.ids_) + 1
      /\ \A i, j \in 1..Len(ids) : ids[i] = ids[j] => i = j
  <2> DEFINE m == Len(trips.ids_)
  <2>1. CASE HasId(trips.ids_, id)
    <3>1. ids = trips.ids_
      BY <2>1 DEF Store
    <3>2. Len(ids) <= len + 1
      BY <1>3, <3>1
    <3> HIDE DEF ids
    <3> QED
      BY <1>3, <1>4, <2>1, <3>1, <3>2
  <2>2. CASE ~HasId(trips.ids_, id)
    <3>1. ids = Append(trips.ids_, id)
      BY <2>2 DEF Store
    <3>2. /\ ids \in Seq(TripId) /\ Len(ids) = m + 1 /\ ids[m + 1] = id
          /\ \A i \in 1..m : ids[i] = trips.ids_[i]
      BY <1>3, <3>1, AppendProperties
    <3>3. \A i \in 1..m : trips.ids_[i] # id
      BY <2>2 DEF HasId
    <3>4. m \in Nat /\ Len(ids) <= len + 1
      BY <1>3, <3>2
    <3> HIDE DEF ids, m
    <3>5. \A i \in 1..m + 1 : i \in 1..m \/ i = m + 1
      BY <3>4
    <3>6. ASSUME NEW i \in 1..m + 1, NEW j \in 1..m + 1, ids[i] = ids[j]
          PROVE  i = j
      BY <1>4, <3>2, <3>3, <3>5, <3>6 DEF m
    <3> QED
      BY <3>2, <3>4, <3>6 DEF m
  <2> QED
    BY <2>1, <2>2
<1>6. /\ transports \in Seq(Nat) /\ Len(transports) = len + 1
      /\ transports[len + 1] = n + 1
      /\ \A i \in 1..len : transports[i] = trips.transports_[i]
  BY <1>2, <1>3, AppendProperties
<1>7. entry \in [ids_ : Seq(TripId), transports_ : Seq(Nat)]
  BY <1>5, <1>6
<1> HIDE DEF len
<1>8. /\ stored.additional_trips_ = [r.additional_trips_ EXCEPT ![src] = entry]
      /\ WellFormed(stored) /\ n_rt_transports(stored) = n
      /\ stored.rt_transport_static_transport_ = r.rt_transport_static_transport_
      /\ stored.rt_transport_src_ = r.rt_transport_src_
  <2> DEFINE all == [r.additional_trips_ EXCEPT ![src] = entry]
  <2> HIDE DEF entry
  <2>1. all \in [Source -> [ids_ : Seq(TripId), transports_ : Seq(Nat)]]
    BY <1>2, <1>7
  <2>2. stored = [r EXCEPT !.additional_trips_ = all]
    BY <1>2 DEF RttType
  <2> HIDE DEF stored, all
  <2>3. /\ stored.additional_trips_ = all /\ stored \in RttType
        /\ stored.bitfields_ = r.bitfields_
        /\ stored.transport_traffic_days_ = r.transport_traffic_days_
        /\ stored.rt_transport_static_transport_ = r.rt_transport_static_transport_
        /\ stored.rt_transport_src_ = r.rt_transport_src_
        /\ stored.rt_transport_location_seq_ = r.rt_transport_location_seq_
        /\ stored.rt_transport_is_cancelled_ = r.rt_transport_is_cancelled_
    BY <1>2, <2>1, <2>2 DEF RttType
  <2>4. WellFormed(stored) /\ n_rt_transports(stored) = n
    BY <2>3 DEF WellFormed, n_rt_transports, n
  <2> QED
    BY <2>3, <2>4 DEF all
<1>9. static \in StaticOrAdded /\ static.added = len + 1
  BY <1>3 DEF StaticOrAdded, len
<1> HIDE DEF stored, static, entry
<1>10. /\ a.additional_trips_ = stored.additional_trips_
       /\ Idx(a) = Idx(stored) \cup {n + 1} /\ n + 1 \notin Idx(stored)
       /\ AddedOf(a, n + 1) = len + 1 /\ SrcOf(a, n + 1) = src
       /\ \A k \in Idx(stored) : /\ AddedOf(a, k) = AddedOf(stored, k)
                                 /\ SrcOf(a, k) = SrcOf(stored, k)
  BY <1>8, <1>9, AppendTransportNumbers
<1> HIDE DEF a
<1>11. /\ Idx(a) = Idx(r) \cup {n + 1}
       /\ \A k \in Idx(r) : /\ AddedOf(a, k) = AddedOf(r, k)
                            /\ SrcOf(a, k) = SrcOf(r, k)
  BY <1>8, <1>10 DEF Idx, n_rt_transports, AddedOf, SrcOf
<1>12. /\ a.additional_trips_[src] = entry
       /\ \A s \in Source \ {src} : a.additional_trips_[s] = r.additional_trips_[s]
  BY <1>2, <1>8, <1>10
<1>13. entry.ids_ = ids /\ entry.transports_ = transports
  BY DEF entry
<1> HIDE DEF ids, transports
<1>14. ASSUME NEW s \in Source
       PROVE  LET ts == a.additional_trips_[s]
              IN  /\ Len(ts.ids_) <= Len(ts.transports_)
                  /\ \A i, j \in 1..Len(ts.ids_) : ts.ids_[i] = ts.ids_[j] => i = j
  <2>1. CASE s # src
    BY <1>12, <2>1 DEF Numbered
  <2>2. CASE s = src
    BY <1>5, <1>6, <1>12, <1>13, <2>2
  <2> QED
    BY <2>1, <2>2
<1>15. ASSUME NEW k \in Idx(a), AddedOf(a, k) # 0
       PROVE  LET ts == a.additional_trips_[SrcOf(a, k)]
              IN  /\ AddedOf(a, k) \in 1..Len(ts.transports_)
                  /\ ts.transports_[AddedOf(a, k)] = k
  <2>1. CASE k = n + 1
    <3>1. len + 1 \in 1..len + 1
      BY <1>3 DEF len
    <3> QED
      BY <1>6, <1>10, <1>12, <1>13, <2>1, <3>1
  <2>2. CASE k # n + 1
    <3> DEFINE s == SrcOf(r, k)
               old == r.additional_trips_[s]
    <3>1. k \in Idx(r) /\ AddedOf(a, k) = AddedOf(r, k) /\ SrcOf(a, k) = s
      BY <1>11, <2>2
    <3>2. AddedOf(r, k) \in 1..Len(old.transports_) /\ old.transports_[AddedOf(r, k)] = k
      BY <1>15, <3>1 DEF Numbered
    <3>3. s \in Source
      <4>1. r.rt_transport_src_ \in Seq(Source) /\ k \in 1..Len(r.rt_transport_src_)
        BY <3>1, FieldTypes DEF Idx, n_rt_transports
      <4> QED
        BY <4>1, ElementOfSeq DEF SrcOf
    <3>4. CASE s # src
      BY <1>12, <3>1, <3>2, <3>3, <3>4
    <3>5. CASE s = src
      <4>1. old = trips
        BY <3>5 DEF trips
      <4>2. AddedOf(r, k) \in 1..len
        BY <3>2, <4>1 DEF len
      <4>3. AddedOf(r, k) \in 1..len + 1
        BY <1>3, <4>2 DEF len
      <4> QED
        BY <1>6, <1>12, <1>13, <3>1, <3>2, <3>5, <4>1, <4>2, <4>3
    <3> QED
      BY <3>4, <3>5
  <2> QED
    BY <2>1, <2>2
<1>16. Numbered(a)
  BY <1>14, <1>15 DEF Numbered
<1> QED
  BY <1>1, <1>5, <1>6, <1>12, <1>13, <1>16 DEF len, trips

LEMMA UpdateScheduledRunNumbered ==
  ASSUME NEW r, WellFormed(r), Numbered(r), NEW src \in Source, NEW run \in Run, NEW stus
  PROVE  LET a == UpdateScheduledRun(r, src, run, stus)
         IN  Numbered(a) /\ a.additional_trips_ = r.additional_trips_
<1> DEFINE td == TransportOf(run)
           found == r.static_trip_lookup_[td]
           k == IF found = NoRt THEN n_rt_transports(r) + 1 ELSE found
           ready == IF found = NoRt THEN AddScheduled(r, src, td) ELSE Reinstate(r, k)
           a == UpdateScheduledRun(r, src, run, stus)
<1>1. a = UpdateStops(ready, td, k, run.from, run.to, LocationSeq[run.t], stus)
  BY DEF UpdateScheduledRun
<1>2. td \in TransportDay
  BY TransportOfRun
<1>3. NumberFields \subseteq DOMAIN r
  BY FieldTypes DEF RttType, NumberFields
<1> HIDE DEF td, a
<1>4. /\ Numbered(ready) /\ NumberFields \subseteq DOMAIN ready
      /\ ready.additional_trips_ = r.additional_trips_
  <2>1. CASE found = NoRt
    <3>1. ready = AddScheduled(r, src, td)
      BY <2>1
    <3>2. WellFormed(ready)
      BY <1>2, <2>1, <3>1, AddScheduledFields
    <3>3. NumberFields \subseteq DOMAIN ready
      BY <3>2, FieldTypes DEF RttType, NumberFields
    <3> QED
      BY <1>2, <2>1, <3>1, <3>3, AddScheduledNumbered
  <2>2. CASE found # NoRt
    <3>1. ready = Reinstate(r, k)
      BY <2>2
    <3>2. Kept(r, ready)
      BY <1>3, <3>1, OperationsKeep
    <3> QED
      BY <1>3, <3>2, KeptNumbered DEF Kept
  <2> QED
    BY <2>1, <2>2
<1> HIDE DEF ready, k
<1>5. Kept(ready, a)
  BY <1>1, <1>4, UpdateStopsKeeps
<1> QED
  BY <1>4, <1>5, KeptNumbered DEF Kept, a

\* An additional trip that is found keeps the numbers of its source; one that is
\* not found gets the next number.
LEMMA UpdateAdditionalTripNumbered ==
  ASSUME NEW r, RttInv(r), Flagged(r, NoRt), Numbered(r), NEW src \in Source,
         NEW id \in TripId, NEW pid, NEW stops \in AddedStops, NEW stus
  PROVE  LET a == UpdateAdditionalTrip(r, src, id, pid, stops, stus)
             trips == r.additional_trips_
             found == resolve_added(r, src, IF pid = NoId THEN id ELSE pid)
         IN  /\ Numbered(a)
             /\ \A s \in Source \ {src} : a.additional_trips_[s] = trips[s]
             /\ found # NoRt => a.additional_trips_ = trips
             /\ found = NoRt /\ ~HasId(trips[src].ids_, id) =>
                  LET new == a.additional_trips_[src]
                  IN  /\ Len(new.transports_) = Len(trips[src].transports_) + 1
                      /\ Len(new.ids_) = Len(trips[src].ids_) + 1
<1> DEFINE found == resolve_added(r, src, IF pid = NoId THEN id ELSE pid)
           k == IF found = NoRt THEN n_rt_transports(r) + 1 ELSE found
           ready == IF found = NoRt THEN AddAdditional(r, src, id, stops)
                                    ELSE Reinstate(r, k)
           present == ready.rt_transport_location_seq_[k]
           a == UpdateAdditionalTrip(r, src, id, pid, stops, stus)
<1>1. a = UpdateStops(ready, Invalid, k, 1, Len(present) + 1, present, stus)
  BY DEF UpdateAdditionalTrip
<1>2. stops \in Seq(Stop) /\ Len(stops) <= MaxStops
  BY UpdateAssumption
<1>3. WellFormed(r) /\ NumberFields \subseteq DOMAIN r
  BY FieldTypes DEF RttInv, RttType, NumberFields
<1> HIDE DEF a, present, found
<1>4. CASE found = NoRt
  <2>1. ready = AddAdditional(r, src, id, stops)
    BY <1>4
  <2>2. WellFormed(ready)
    BY <1>2, <2>1, AddAdditionalInv DEF RttInv
  <2>3. Numbered(ready) /\ NumberFields \subseteq DOMAIN ready
    BY <1>2, <1>3, <2>1, <2>2, AddAdditionalNumbered, FieldTypes
       DEF RttType, NumberFields
  <2> HIDE DEF ready, k
  <2>4. Kept(ready, a)
    BY <1>1, <2>3, UpdateStopsKeeps
  <2>5. Numbered(a) /\ a.additional_trips_ = ready.additional_trips_
    BY <2>3, <2>4, KeptNumbered DEF Kept
  <2> QED
    BY <1>2, <1>3, <1>4, <2>1, <2>5, AddAdditionalNumbered DEF a, found
<1>5. CASE found # NoRt
  <2>1. ready = Reinstate(r, k)
    BY <1>5
  <2>2. Kept(r, ready)
    BY <1>3, <2>1, OperationsKeep
  <2>3. Numbered(ready) /\ NumberFields \subseteq DOMAIN ready
    BY <1>3, <2>2, KeptNumbered DEF Kept
  <2> HIDE DEF ready, k
  <2>4. Kept(ready, a)
    BY <1>1, <2>3, UpdateStopsKeeps
  <2>5. Numbered(a) /\ a.additional_trips_ = r.additional_trips_
    BY <2>2, <2>3, <2>4, KeptNumbered DEF Kept
  <2> QED
    BY <1>5, <2>5 DEF a, found
<1> QED
  BY <1>4, <1>5

\* An id under which nothing is found was not stored.
LEMMA NotFoundNotStored ==
  ASSUME NEW r, RttInv(r), Numbered(r), NEW src \in Source, NEW id,
         resolve_added(r, src, id) = NoRt
  PROVE  ~HasId(r.additional_trips_[src].ids_, id)
<1> DEFINE trips == r.additional_trips_[src]
<1>1. SUFFICES ASSUME HasId(trips.ids_, id) PROVE FALSE
  OBVIOUS
<1>2. IndexOfId(trips.ids_, id) \in 1..Len(trips.ids_)
  BY <1>1 DEF HasId, IndexOfId
<1>3. /\ Len(trips.ids_) <= Len(trips.transports_)
      /\ Len(trips.ids_) \in Nat /\ Len(trips.transports_) \in Nat
  <2>1. trips.ids_ \in Seq(TripId) /\ trips.transports_ \in Seq(Nat)
    BY FieldTypes DEF RttInv
  <2> QED
    BY <2>1, LenProperties DEF Numbered
<1>4. IndexOfId(trips.ids_, id) \in 1..Len(trips.transports_)
  BY <1>2, <1>3
<1>5. NoRt \in Idx(r)
  BY <1>1, <1>4 DEF resolve_added, RttInv, Added
<1> QED
  BY <1>5 DEF Idx, NoRt

\* A step keeps the numbering, and each source in step unless it stores twice.
KeepsStep == \A src \in Source : InStep(src) => InStep(src)' \/ StoresTwice(src)

LEMMA NumberedStep ==
  IInv /\ Numbered(rtt) /\ [Next]_vars => Numbered(rtt') /\ KeepsStep
<1> SUFFICES ASSUME IInv, Numbered(rtt), [Next]_vars PROVE Numbered(rtt') /\ KeepsStep
  OBVIOUS
<1>1. RttInv(rtt) /\ Flagged(rtt, NoRt) /\ WellFormed(rtt) /\ pending \in SUBSET Run
  BY DEF IInv, RttInv, Entered
<1>2. NumberFields \subseteq DOMAIN rtt
  BY <1>1, FieldTypes DEF RttType, NumberFields
<1> DEFINE Same == rtt'.additional_trips_ = rtt.additional_trips_
<1>3. Same => KeepsStep
  BY DEF KeepsStep, InStep
<1>4. CASE UNCHANGED rtt
  BY <1>4, <1>3
<1>5. ASSUME NEW run \in pending, UpdateRun(run)
      PROVE  Numbered(rtt') /\ KeepsStep
  <2>1. entity.src \in Source
    BY <1>5 DEF IInv, Entered, Entity
  <2>2. rtt' = UpdateScheduledRun(rtt, entity.src, run, entity.update.stus)
    BY <1>5 DEF UpdateRun
  <2> QED
    BY <1>1, <1>3, <2>1, <2>2, UpdateScheduledRunNumbered
<1>6. ASSUME NEW run \in pending, CancelRun(run)
      PROVE  Numbered(rtt') /\ KeepsStep
  <2>1. Kept(rtt, rtt')
    BY <1>2, <1>6, CancelKeeps DEF CancelRun
  <2> QED
    BY <1>3, <2>1, KeptNumbered DEF Kept
<1>7. ASSUME NEW src \in Source, NEW id \in TripId, NEW pid \in PropertiesIds,
             NEW stops \in AddedStops, NEW stus \in StopUpdates,
             AddedTrip(src, id, pid, stops, stus)
      PROVE  Numbered(rtt') /\ KeepsStep
  <2> DEFINE found == resolve_added(rtt, src, IF pid = NoId THEN id ELSE pid)
             trips == rtt.additional_trips_
  <2>1. rtt' = UpdateAdditionalTrip(rtt, src, id, pid, stops, stus)
    BY <1>7 DEF AddedTrip
  <2>2. Numbered(rtt')
    BY <1>1, <2>1, UpdateAdditionalTripNumbered
  <2>3. CASE found # NoRt
    BY <1>1, <1>3, <2>1, <2>2, <2>3, UpdateAdditionalTripNumbered
  <2>4. ASSUME found = NoRt, NEW s \in Source, InStep(s)
        PROVE  InStep(s)' \/ StoresTwice(s)
    <3>1. CASE s # src
      <4>1. rtt'.additional_trips_[s] = trips[s]
        BY <1>1, <2>1, <3>1, UpdateAdditionalTripNumbered
      <4> QED
        BY <2>4, <4>1 DEF InStep
    <3>2. CASE s = src /\ ~HasId(trips[src].ids_, id)
      <4> DEFINE new == rtt'.additional_trips_[src]
      <4>1. /\ Len(new.transports_) = Len(trips[src].transports_) + 1
            /\ Len(new.ids_) = Len(trips[src].ids_) + 1
        BY <1>1, <2>1, <2>4, <3>2, UpdateAdditionalTripNumbered
      <4> HIDE DEF new
      <4> QED
        BY <2>4, <3>2, <4>1 DEF InStep, new
    <3>3. CASE s = src /\ HasId(trips[src].ids_, id)
      <4>1. pid # NoId /\ pid # id
        BY <1>1, <2>4, <3>3, NotFoundNotStored
      <4>2. pid \in PropertiesIds \ {NoId, id} /\ resolve_added(rtt, src, pid) = NoRt
        BY <2>4, <4>1
      <4> QED
        BY <1>7, <3>3, <4>2 DEF StoresTwice
    <3> QED
      BY <3>1, <3>2, <3>3
  <2> QED
    BY <2>2, <2>3, <2>4 DEF KeepsStep
<1>8. ASSUME NEW trip \in Trip, NEW date \in Day, VehiclePosition(trip, date)
      PROVE  Numbered(rtt') /\ KeepsStep
  <2>1. PICK run \in ResolveStatic(trip, date) :
          /\ rtt.static_trip_lookup_[TransportOf(run)] = NoRt
          /\ rtt' = AddScheduled(rtt, TripSource[trip], TransportOf(run))
    BY <1>8 DEF VehiclePosition
  <2>2. TransportOf(run) \in TransportDay /\ TripSource[trip] \in Source
    BY ResolvedRuns, TransportOfRun, TripAssumption
  <2> QED
    BY <1>1, <1>3, <2>1, <2>2, AddScheduledNumbered
<1>9. CASE Next
  BY <1>4, <1>5, <1>6, <1>7, <1>8, <1>9 DEF Next, TripUpdate, RefuseRun
<1>10. CASE UNCHANGED vars
  BY <1>4, <1>10 DEF vars
<1> QED
  BY <1>9, <1>10

LEMMA InitNumbered == Init => Numbered(rtt)
<1> SUFFICES ASSUME Init PROVE Numbered(rtt)
  OBVIOUS
<1>1. /\ rtt.rt_transport_src_ = <<>>
      /\ rtt.additional_trips_ = [src \in Source |->
                                    [ids_ |-> <<>>, transports_ |-> <<>>]]
  BY DEF Init, create_rt_timetable
<1> QED
  BY <1>1 DEF Numbered, Idx, n_rt_transports

LEMMA NumberedInvariant == Spec => [](IInv /\ Numbered(rtt))
<1>1. IInv /\ [Next]_vars => IInv'
  BY RttStep, EnteredStep DEF IInv, RttPromised
<1>2. IInv /\ Numbered(rtt) /\ [Next]_vars => Numbered(rtt)'
  BY NumberedStep
<1> QED
  BY InitIInv, InitNumbered, <1>1, <1>2, PTL DEF Spec

\* The assertion at the end of add_rt_transport stays true, for every source, in
\* every step but that of an additional trip with two ids that is stored again.
THEOREM AdditionalTripsStayInStep == Spec => OnlyRenamedTripsBreakStep
<1>1. IInv /\ Numbered(rtt) /\ [Next]_vars => [KeepsStep]_vars
  BY NumberedStep
<1>2. Spec => [][KeepsStep]_vars
  BY <1>1, NumberedInvariant, PTL DEF Spec
<1> QED
  BY <1>2 DEF KeepsStep, OnlyRenamedTripsBreakStep

\* The number of an additional trip is that of its RT transport whatever ids the
\* feeds give, and in a source that is in step the id leads to it too.
THEOREM AdditionalTripsAreFound == Spec => []AdditionalTripsFound
<1>1. ASSUME IInv, Numbered(rtt) PROVE AdditionalTripsFound
  <2>1. ASSUME NEW k \in RtIdx, AddedOf(rtt, k) # 0
        PROVE  LET src == SrcOf(rtt, k)
                   trips == rtt.additional_trips_[src]
                   j == AddedOf(rtt, k)
               IN  /\ j <= Len(trips.transports_) /\ trips.transports_[j] = k
                   /\ InStep(src) => resolve_added(rtt, src, trips.ids_[j]) = k
    <3> DEFINE src == SrcOf(rtt, k)
               trips == rtt.additional_trips_[src]
               ids == trips.ids_
               j == AddedOf(rtt, k)
    <3>1. k \in Idx(rtt)
      BY DEF RtIdx, Idx
    <3>2. j \in 1..Len(trips.transports_) /\ trips.transports_[j] = k
      BY <1>1, <2>1, <3>1 DEF Numbered
    <3>3. src \in Source
      <4>1. /\ rtt.rt_transport_src_ \in Seq(Source)
            /\ k \in 1..Len(rtt.rt_transport_src_)
        BY <1>1, <3>1, FieldTypes DEF IInv, RttInv, Idx, n_rt_transports
      <4> QED
        BY <4>1, ElementOfSeq DEF SrcOf
    <3>4. j <= Len(trips.transports_)
      <4>1. rtt.additional_trips_ \in [Source -> [ids_ : Seq(TripId), transports_ : Seq(Nat)]]
        BY <1>1, FieldTypes DEF IInv, RttInv
      <4>2. Len(trips.transports_) \in Nat
        BY <3>3, <4>1, LenProperties
      <4> QED
        BY <3>2, <4>2
    <3>5. ASSUME InStep(src) PROVE resolve_added(rtt, src, ids[j]) = k
      <4>1. j \in 1..Len(ids)
        BY <3>2, <3>5 DEF InStep
      <4>2. \A i \in 1..Len(ids) : ids[i] = ids[j] => i = j
        BY <1>1, <3>3, <4>1 DEF Numbered
      <4> HIDE DEF j, trips, src
      <4>3. HasId(ids, ids[j]) /\ IndexOfId(ids, ids[j]) = j
        BY <4>1, <4>2 DEF HasId, IndexOfId
      <4> QED
        BY <3>2, <4>3 DEF resolve_added, trips
    <3> QED
      BY <3>2, <3>4, <3>5
  <2> QED
    BY <2>1 DEF AdditionalTripsFound, AddedOf, SrcOf
<1> QED
  BY <1>1, NumberedInvariant, PTL

-----------------------------------------------------------------------------
(***************************************************************************)
(* The feed handler implements DayService.                                 *)
(***************************************************************************)
LEMMA ServiceOfIsServiceIn ==
  [td \in TransportDay |-> ServiceOf(td)] = [td \in TransportDay |-> ServiceIn(rtt, td)]
BY DEF ServiceOf, ServiceIn

\* The initial state offers what the static timetable has.
LEMMA InitOffers == Init => Promise!Init
<1> SUFFICES ASSUME Init PROVE Promise!Init
  OBVIOUS
<1>1. /\ rtt.static_trip_lookup_ = [td \in TransportDay |-> NoRt]
      /\ rtt.transport_traffic_days_ =
           [t \in Transport |-> [rt |-> FALSE, idx |-> StaticTraffic[t]]]
  BY DEF Init, create_rt_timetable
<1>2. ASSUME NEW td \in TransportDay
      PROVE  ServiceOf(td) = IF IsStaticActive(td) THEN "static" ELSE "none"
  <2>1. td.t \in Transport
    BY TransportDayType
  <2>2. is_transport_active(rtt, td) <=> IsStaticActive(td)
    BY <1>1, <2>1 DEF is_transport_active, traffic_days, IsStaticActive
  <2> QED
    BY <1>1, <2>2 DEF ServiceOf
<1> QED
  BY <1>2 DEF Promise!Init

\* A step of the handler is a step of DayService, about one run, or none.
LEMMA StepOffers ==
  IInv /\ [Next]_vars => [Promise!Next]_[td \in TransportDay |-> ServiceOf(td)]
<1> DEFINE Offer(r) == [td \in TransportDay |-> ServiceIn(r, td)]
           offer == Offer(rtt)
           next == Offer(rtt')
<1> SUFFICES ASSUME IInv, [Next]_vars
             PROVE  [Promise!Next]_[td \in TransportDay |-> ServiceOf(td)]
  OBVIOUS
<1>1. /\ [td \in TransportDay |-> ServiceOf(td)] = offer
      /\ [td \in TransportDay |-> ServiceOf(td)]' = next
  BY ServiceOfIsServiceIn DEF ServiceOf, ServiceIn
<1>2. CASE \A td \in TransportDay : ServiceIn(rtt', td) = ServiceIn(rtt, td)
  BY <1>1, <1>2
<1>3. CASE \E td \in TransportDay : Promised(rtt, rtt', td)
  <2>1. PICK td \in TransportDay : Promised(rtt, rtt', td)
    BY <1>3
  <2>2. next = [offer EXCEPT ![td] = ServiceIn(rtt', td)]
    BY <2>1 DEF Promised, OthersUnchanged
  <2>3. offer[td] = ServiceIn(rtt, td)
    OBVIOUS
  <2>4. CASE ServiceIn(rtt', td) = ServiceIn(rtt, td)
    BY <1>1, <2>2, <2>3, <2>4
  <2>5. CASE /\ ServiceIn(rtt, td) \in {"static", "cancelled"}
             /\ ServiceIn(rtt', td) \in {"realtime", "rt_cancelled"}
    BY <1>1, <2>2, <2>3, <2>5 DEF Promise!Next, Promise!TakeOver
  <2>6. CASE /\ ServiceIn(rtt, td) \in {"realtime", "rt_cancelled"}
             /\ ServiceIn(rtt', td) \in {"realtime", "rt_cancelled"}
    BY <1>1, <2>2, <2>3, <2>6 DEF Promise!Next, Promise!SetCancelled
  <2>7. CASE ServiceIn(rtt, td) = "static" /\ ServiceIn(rtt', td) = "cancelled"
    BY <1>1, <2>2, <2>3, <2>7 DEF Promise!Next, Promise!Cancel
  <2> QED
    BY <2>1, <2>4, <2>5, <2>6, <2>7 DEF Promised
<1> QED
  BY <1>2, <1>3, RttStep DEF RttPromised

\* Each callback changes what is offered of the run it is about only, along
\* the transitions of DayService, although transports share bitfields.
THEOREM ServiceImplemented == Spec => ImplementsDayService
<1>1. Spec => Promise!Spec
  BY IInvInvariant, InitOffers, StepOffers, PTL DEF Spec, Promise!Spec
<1> QED
  BY <1>1 DEF ImplementsDayService

=============================================================================
