----------------------------- MODULE RtTimetable -----------------------------
(***************************************************************************)
(* struct rt_timetable: which transports run with real-time data.          *)
(*                                                                         *)
(* The real-time timetable starts as a copy of the static traffic days.    *)
(* When a run is updated it gets an RT transport of its own, and its day   *)
(* is switched off for the static transport in a modified copy of the      *)
(* bitfield; when a run is cancelled its day is switched off the same way. *)
(* Routing reads both: it rides a static transport on the days its         *)
(* bitfield still has, and an RT transport at the locations that list it.  *)
(*                                                                         *)
(* Event times, data states and the covered interval of one transport are  *)
(* the subject of module UpdateRun; this module has the stops and flags.   *)
(* The RT transports are numbered from 1 and NoRt is the invalid index.    *)
(***************************************************************************)
EXTENDS Integers, Sequences, FiniteSets

(***************************************************************************)
(* The part of the static timetable (struct timetable) that the real-time  *)
(* subsystem reads.  It never changes while the program runs, so it is     *)
(* given as constants:                                                     *)
(*   - a transport runs on the days of a bitfield; several transports      *)
(*     share one bitfield (bitfields_, transport_traffic_days_);           *)
(*   - a transport serves the stops of its route (route_location_seq_);    *)
(*   - a trip is a range of stops of one or more transports: stay-seated   *)
(*     trips share a transport, and a trip that continues in two ways is   *)
(*     part of two transports (trip_transport_ranges_).                    *)
(***************************************************************************)
CONSTANTS
  Transport,       \* transport_idx_t
  Day,             \* day_idx_t, a set of integers
  Location,        \* location_idx_t
  Trip,            \* trip_idx_t
  Source,          \* source_idx_t: the data sets
  TripSource,      \* trip_id_src_: the data set a trip belongs to
  StaticBitfields, \* bitfields_: a sequence of sets of days
  StaticTraffic,   \* transport_traffic_days_: transport -> index of a bitfield
  LocationSeq,     \* route_location_seq_[transport_route_[t]]
  TripRanges,      \* trip_transport_ranges_: trip -> set of transport ranges
  Equivalences     \* locations_.equivalences_: the tracks of the same station

Stop == [loc : Location, in : BOOLEAN, out : BOOLEAN]

is_cancelled(s) == ~s.in /\ ~s.out

\* The indices of the stops that passengers can still use.
Served(stops) == {i \in 1..Len(stops) : ~is_cancelled(stops[i])}

(***************************************************************************)
(* A stop range [from, to) of a transport.  Stops count from 1 here.  The  *)
(* offset is the number of days between the service day a feed names and   *)
(* the day of the transport (first_dep_offset).                            *)
(***************************************************************************)
TransportRange ==
  [t : Transport, from : Nat \ {0}, to : Nat \ {0}, offset : Int]

ASSUME DayAssumption == Day \subseteq Int

ASSUME BitfieldAssumption ==
  /\ StaticBitfields \in Seq(SUBSET Day)
  /\ StaticTraffic \in [Transport -> 1..Len(StaticBitfields)]

ASSUME RouteAssumption ==
  /\ LocationSeq \in [Transport -> Seq(Stop)]
  /\ \A t \in Transport : Cardinality(Served(LocationSeq[t])) >= 2
  /\ Equivalences \in [Location -> SUBSET Location]

ASSUME TripAssumption ==
  /\ TripSource \in [Trip -> Source]
  /\ TripRanges \in [Trip -> SUBSET TransportRange]
  /\ \A trip \in Trip : \A r \in TripRanges[trip] :
       r.from < r.to /\ r.to <= Len(LocationSeq[r.t]) + 1

-----------------------------------------------------------------------------
TransportDay == [t : Transport, day : Day]

\* timetable::is_transport_active
IsStaticActive(td) == td.day \in StaticBitfields[StaticTraffic[td.t]]

Run == [t : Transport, day : Day, from : Nat \ {0}, to : Nat \ {0}]

TransportOf(run) == [t |-> run.t, day |-> run.day]

(***************************************************************************)
(* resolve_trip: every transport of the trip that runs on the day.  The    *)
(* activity is looked up in the static timetable: a run that a feed has    *)
(* already delayed or cancelled still resolves.                            *)
(***************************************************************************)
ResolveStatic(trip, date) ==
  {run \in [t : Transport, day : Day,
            from : {r.from : r \in TripRanges[trip]},
            to   : {r.to : r \in TripRanges[trip]}] :
     /\ IsStaticActive(TransportOf(run))
     /\ \E r \in TripRanges[trip] :
          /\ run.t = r.t
          /\ run.day = date + r.offset
          /\ run.from = r.from
          /\ run.to = r.to}

-----------------------------------------------------------------------------
CONSTANTS
  TripId,       \* the trip ids that feeds give to additional trips
  NoTransport   \* transport_idx_t::invalid()

ASSUME NoTransportAssumption == NoTransport \notin Transport

VARIABLE rtt

NoRt == 0
Invalid == [t |-> NoTransport, day |-> 0]   \* transport::invalid()

BitfieldIdx == [rt : BOOLEAN, idx : Nat]    \* rt: the bit kRtBitfieldFlag

\* rt_transport_static_transport_: a static transport or an additional trip.
StaticOrAdded == [transport : TransportDay \cup {Invalid}, added : Nat]

RttType ==
  [bitfields_                     : Seq(SUBSET Day),
   transport_traffic_days_        : [Transport -> BitfieldIdx],
   static_trip_lookup_            : [TransportDay -> Nat],
   rt_transport_static_transport_ : Seq(StaticOrAdded),
   rt_transport_src_              : Seq(Source),
   rt_transport_location_seq_     : Seq(Seq(Stop)),
   rt_transport_is_cancelled_     : SUBSET Nat,   \* the bits that are set
   additional_trips_              : [Source -> [ids_ : Seq(TripId),
                                                transports_ : Seq(Nat)]],
   location_rt_transports_        : [Location -> SUBSET Nat]]

-----------------------------------------------------------------------------
(***************************************************************************)
(* create_rt_timetable                                                     *)
(***************************************************************************)
create_rt_timetable ==
  [bitfields_                     |-> <<>>,
   transport_traffic_days_        |-> [t \in Transport |->
                                         [rt |-> FALSE, idx |-> StaticTraffic[t]]],
   static_trip_lookup_            |-> [td \in TransportDay |-> NoRt],
   rt_transport_static_transport_ |-> <<>>,
   rt_transport_src_              |-> <<>>,
   rt_transport_location_seq_     |-> <<>>,
   rt_transport_is_cancelled_     |-> {},
   additional_trips_              |-> [src \in Source |->
                                         [ids_ |-> <<>>, transports_ |-> <<>>]],
   location_rt_transports_        |-> [l \in Location |-> {}]]

-----------------------------------------------------------------------------
(***************************************************************************)
(* Reading.                                                                *)
(***************************************************************************)
n_rt_transports(r) == Len(r.rt_transport_src_)

traffic_days(r, i) == IF i.rt THEN r.bitfields_[i.idx] ELSE StaticBitfields[i.idx]

is_transport_active(r, td) ==
  td.day \in traffic_days(r, r.transport_traffic_days_[td.t])

\* string_store::find and the lookup of an additional trip in resolve_rt.
IndexOfId(ids, id) == CHOOSE k \in 1..Len(ids) : ids[k] = id
HasId(ids, id) == \E k \in 1..Len(ids) : ids[k] = id

resolve_added(r, src, id) ==
  LET trips == r.additional_trips_[src]
  IN  IF HasId(trips.ids_, id)
        THEN trips.transports_[IndexOfId(trips.ids_, id)]
        ELSE NoRt

-----------------------------------------------------------------------------
(***************************************************************************)
(* Writing.                                                                *)
(***************************************************************************)

\* Mutant: the copy is taken of the static bitfield, not of the current one.
DeactivateDay_FromStatic(r, td) ==
  [r EXCEPT
     !.bitfields_ = Append(@, StaticBitfields[StaticTraffic[td.t]] \ {td.day}),
     !.transport_traffic_days_[td.t] =
        [rt |-> TRUE, idx |-> Len(r.bitfields_) + 1]]

(***************************************************************************)
(* Switch a day of a transport off: append a modified copy of the bitfield *)
(* and let the transport point to it.  The bitfield itself stays as it is  *)
(* because other transports share it.                                      *)
(***************************************************************************)
DeactivateDay(r, td) ==
  [r EXCEPT
     !.bitfields_ =
        Append(@, traffic_days(r, r.transport_traffic_days_[td.t]) \ {td.day}),
     !.transport_traffic_days_[td.t] =
        [rt |-> TRUE, idx |-> Len(r.bitfields_) + 1]]

\* string_store::store keeps one copy of equal strings.
Store(ids, id) == IF HasId(ids, id) THEN ids ELSE Append(ids, id)

(***************************************************************************)
(* The vectors of one entry per RT transport that add_rt_transport extends *)
(* and the entry at every location of the new transport's stops.  The new  *)
(* bit of rt_transport_is_cancelled_ is not set.                           *)
(***************************************************************************)
AppendTransport(r, static, src, stops) ==
  LET rt_t == n_rt_transports(r) + 1
  IN  [r EXCEPT
         !.rt_transport_static_transport_ = Append(@, static),
         !.rt_transport_src_ = Append(@, src),
         !.rt_transport_location_seq_ = Append(@, stops),
         !.location_rt_transports_ =
            [l \in Location |->
               IF \E i \in 1..Len(stops) : stops[i].loc = l
                 THEN @[l] \cup {rt_t} ELSE @[l]]]

\* Mutant: the day of the static transport stays on.
AddScheduled_DayStaysOn(r, src, td) ==
  AppendTransport([r EXCEPT !.static_trip_lookup_[td] = n_rt_transports(r) + 1],
                  [transport |-> td, added |-> 0], src, LocationSeq[td.t])

(***************************************************************************)
(* add_rt_transport without new_trip_id: an RT transport for a transport   *)
(* of the static timetable takes over its day.  emplace keeps an existing  *)
(* entry.                                                                  *)
(***************************************************************************)
AddScheduled(r, src, td) ==
  LET rt_t == n_rt_transports(r) + 1
      looked == [r EXCEPT !.static_trip_lookup_[td] = IF @ = NoRt THEN rt_t ELSE @]
  IN  AppendTransport(DeactivateDay(looked, td),
                      [transport |-> td, added |-> 0], src, LocationSeq[td.t])

\* Mutant: the index of the additional trip is off by one.
AddAdditional_OffByOne(r, src, new_trip_id, stops) ==
  LET trips == r.additional_trips_[src]
      stored == [r EXCEPT !.additional_trips_[src] =
                   [ids_        |-> Store(trips.ids_, new_trip_id),
                    transports_ |-> Append(trips.transports_, n_rt_transports(r) + 1)]]
  IN  AppendTransport(stored,
                      [transport |-> Invalid, added |-> Len(trips.transports_)],
                      src, stops)

(***************************************************************************)
(* add_rt_transport with new_trip_id: an additional trip.                  *)
(***************************************************************************)
AddAdditional(r, src, new_trip_id, stops) ==
  LET rt_t == n_rt_transports(r) + 1
      trips == r.additional_trips_[src]
      stored == [r EXCEPT !.additional_trips_[src] =
                   [ids_        |-> Store(trips.ids_, new_trip_id),
                    transports_ |-> Append(trips.transports_, rt_t)]]
  IN  AppendTransport(stored,
                      [transport |-> Invalid, added |-> Len(trips.transports_) + 1],
                      src, stops)

(***************************************************************************)
(* cancel_run: flag the RT transport if there is one, and switch the day   *)
(* of the static transport off if there is one.                            *)
(***************************************************************************)
cancel_run(r, td, rt_t) ==
  LET flagged == IF rt_t = NoRt THEN r
                 ELSE [r EXCEPT !.rt_transport_is_cancelled_ = @ \cup {rt_t}]
  IN  IF td = Invalid THEN flagged ELSE DeactivateDay(flagged, td)

\* rt_transport_is_cancelled_.set(rt_t, false)
Reinstate(r, rt_t) == [r EXCEPT !.rt_transport_is_cancelled_ = @ \ {rt_t}]

\* Mutant: a track change does not register the transport at the new track.
SetStops_NotRegistered(r, rt_t, stops, assigned) ==
  [r EXCEPT !.rt_transport_location_seq_[rt_t] = stops]

(***************************************************************************)
(* Write new stops of an RT transport.  Only a location that a track       *)
(* change assigned gets an entry, and the entry at a location the          *)
(* transport left remains.                                                 *)
(***************************************************************************)
SetStops(r, rt_t, stops, assigned) ==
  [r EXCEPT
     !.rt_transport_location_seq_[rt_t] = stops,
     !.location_rt_transports_ =
        [l \in Location |-> IF l \in assigned THEN @[l] \cup {rt_t} ELSE @[l]]]

-----------------------------------------------------------------------------
(***************************************************************************)
(* Properties.                                                             *)
(***************************************************************************)
RtIdx == 1..n_rt_transports(rtt)

\* The state has the types of the struct's members, the vectors with one entry
\* per RT transport have the same length, and each transport's traffic days
\* are an existing bitfield of the timetable the flag kRtBitfieldFlag names.
TypeOK ==
  /\ rtt \in RttType
  /\ Len(rtt.rt_transport_static_transport_) = n_rt_transports(rtt)
  /\ Len(rtt.rt_transport_location_seq_) = n_rt_transports(rtt)
  /\ rtt.rt_transport_is_cancelled_ \subseteq 1..n_rt_transports(rtt)
  /\ \A t \in Transport :
       LET i == rtt.transport_traffic_days_[t]
       IN  i.idx \in IF i.rt THEN 1..Len(rtt.bitfields_)
                             ELSE 1..Len(StaticBitfields)

\* A run is never offered twice: when it has an RT transport (delayed,
\* rerouted or cancelled) its day is off in the bitfield of the static one.
NoDoubleService ==
  \A td \in TransportDay :
    rtt.static_trip_lookup_[td] # NoRt => ~is_transport_active(rtt, td)

\* static_trip_lookup_ and rt_transport_static_transport_ are inverse: a run
\* finds its RT transport and no RT transport is left that no run finds.
LookupInverse ==
  /\ \A td \in TransportDay :
       LET rt_t == rtt.static_trip_lookup_[td]
       IN  rt_t # NoRt =>
             /\ rt_t \in RtIdx
             /\ rtt.rt_transport_static_transport_[rt_t].transport = td
  /\ \A rt_t \in RtIdx :
       LET td == rtt.rt_transport_static_transport_[rt_t].transport
       IN  td # Invalid => rtt.static_trip_lookup_[td] = rt_t

\* Routing finds an RT transport at every location it stops at, after track
\* changes too: it scans location_rt_transports_ of the marked locations.
LocationIndexComplete ==
  \A rt_t \in RtIdx :
    \A i \in 1..Len(rtt.rt_transport_location_seq_[rt_t]) :
      rt_t \in rtt.location_rt_transports_[
                 rtt.rt_transport_location_seq_[rt_t][i].loc]

\* An RT transport with at most one usable stop left is flagged cancelled,
\* whatever sequence of updates, cancellations and positions led there.
FewStopsCancelled ==
  \A rt_t \in RtIdx :
    Cardinality(Served(rtt.rt_transport_location_seq_[rt_t])) <= 1
      => rt_t \in rtt.rt_transport_is_cancelled_

\* The additional trips of a source and their ids are numbered alike: what the
\* assertion at the end of add_rt_transport demands.
InStep(src) ==
  LET trips == rtt.additional_trips_[src]
  IN  Len(trips.transports_) = Len(trips.ids_)

\* "All RT transports that did not exist in the static timetable, can be
\* looked up with their trip_id in the RT timetable": the number of an
\* additional trip is that of its RT transport, and as long as the numbers of
\* its source are in step the trip's id leads to this RT transport.
AdditionalTripsFound ==
  \A rt_t \in RtIdx :
    LET k == rtt.rt_transport_static_transport_[rt_t].added
        src == rtt.rt_transport_src_[rt_t]
        trips == rtt.additional_trips_[src]
    IN  k # 0 =>
          /\ k <= Len(trips.transports_) /\ trips.transports_[k] = rt_t
          /\ InStep(src) => resolve_added(rtt, src, trips.ids_[k]) = rt_t

=============================================================================
