---------------------------- MODULE GtfsRtUpdate ----------------------------
(***************************************************************************)
(* gtfsrt_update_msg: the GTFS-RT feed handler on the real-time timetable. *)
(*                                                                         *)
(* A message is a sequence of entities.  A trip update names a trip of the *)
(* static timetable and a service day; resolve_static calls back once per  *)
(* transport the trip is part of, and each callback updates or cancels one *)
(* run.  pending holds the runs the current entity has still to process.   *)
(* Additional trips and vehicle positions concern one run each.            *)
(*                                                                         *)
(* What an update says of a stop:                                          *)
(*   NoUpdate   no stop time update matches the stop                       *)
(*   Scheduled  one matches, with times or NO_DATA, at the planned stop    *)
(*   Skipped    the stop is skipped                                        *)
(*   l          the stop moves to location l (assigned_stop_id, or a       *)
(*              stop_id that differs from the planned one)                 *)
(***************************************************************************)
EXTENDS RtTimetable

CONSTANTS
  NoUpdate, Scheduled, Skipped,
  MaxStops,        \* the longest stop sequence an entity updates
  StopUpdates,     \* the stop time updates of an entity: 1..MaxStops -> effect
  AddedStops,      \* the stop sequences of additional trips
  PropertiesIds,   \* trip_properties.trip_id of additional trips, "" if none
  NoId,            \* the empty trip id
  InRtInterval,    \* is_in_rt_interval: runs whose times an RT transport can hold
  MaxBitfields,    \* bound: bitfields_ grows with each addition and cancellation
  MaxAdditional    \* bound: additional RT transports

Effect == {NoUpdate, Scheduled, Skipped} \cup Location

ASSUME UpdateAssumption ==
  /\ MaxStops \in Nat
  /\ StopUpdates \subseteq [1..MaxStops -> Effect]
  /\ AddedStops \subseteq {s \in Seq(Stop) : Len(s) \in 2..MaxStops}
  /\ PropertiesIds \subseteq TripId \cup {NoId}
  /\ NoId \notin TripId
  /\ InRtInterval \subseteq TransportDay
  /\ \A t \in Transport : Len(LocationSeq[t]) <= MaxStops

VARIABLES entity, pending

vars == <<rtt, entity, pending>>

Idle == [src |-> "none"]

\* The trip updates that name a static trip, by schedule_relationship.
Update == [sr : {"SCHEDULED"}, stus : StopUpdates] \cup [sr : {"CANCELED"}]
Entity == {Idle} \cup [src : Source, update : Update]

-----------------------------------------------------------------------------
(***************************************************************************)
(* update_run on one stop.  stp is what the RT transport has, planned is   *)
(* what the walk over location_seq sees: the stop of the static route for  *)
(* a scheduled run, stp itself for an additional one.                      *)
(***************************************************************************)
IsTrackChange(effect, planned) ==
  effect \in Location /\ effect \in Equivalences[planned.loc]

NewStop(stp, planned, effect) ==
  CASE effect = Skipped                -> [stp EXCEPT !.in = FALSE, !.out = FALSE]
    [] IsTrackChange(effect, planned)  -> [stp EXCEPT !.loc = effect]
    [] effect = Scheduled              -> planned
    [] OTHER                           -> stp

(***************************************************************************)
(* The walk of update_run over the stops [from, to) and its last step: a   *)
(* transport with at most one usable stop is cancelled.                    *)
(***************************************************************************)
UpdateStops(r, td, rt_t, from, to, planned, stus) ==
  LET stops == r.rt_transport_location_seq_[rt_t]
      InRange(i) == from <= i /\ i < to
      effect(i) == stus[i - from + 1]
      new == [i \in 1..Len(stops) |->
                IF InRange(i) THEN NewStop(stops[i], planned[i], effect(i))
                              ELSE stops[i]]
      assigned == {l \in Location : \E i \in 1..Len(stops) :
                     InRange(i) /\ effect(i) = l /\ IsTrackChange(l, planned[i])}
      walked == SetStops(r, rt_t, new, assigned)
  IN  IF Cardinality(Served(new)) <= 1 THEN cancel_run(walked, td, rt_t)
                                       ELSE walked

(***************************************************************************)
(* update_run for a run of the static timetable: take the day over unless  *)
(* an RT transport exists, otherwise revoke a cancellation of it.          *)
(***************************************************************************)
UpdateScheduledRun(r, src, run, stus) ==
  LET td == TransportOf(run)
      found == r.static_trip_lookup_[td]
      rt_t == IF found = NoRt THEN n_rt_transports(r) + 1 ELSE found
      ready == IF found = NoRt THEN AddScheduled(r, src, td)
                               ELSE Reinstate(r, rt_t)
  IN  UpdateStops(ready, td, rt_t, run.from, run.to, LocationSeq[run.t], stus)

\* Mutant: the existing RT transport is not looked up.
UpdateAdditionalTrip_NoLookup(r, src, trip_id, properties_id, stops, stus) ==
  UpdateStops(AddAdditional(r, src, trip_id, stops), Invalid,
              n_rt_transports(r) + 1, 1, Len(stops) + 1, stops, stus)

(***************************************************************************)
(* update_run for an additional trip.  It is looked up with the id of the  *)
(* trip properties if the entity has one, and stored with the trip id.     *)
(***************************************************************************)
UpdateAdditionalTrip(r, src, trip_id, properties_id, stops, stus) ==
  LET found == resolve_added(r, src, IF properties_id = NoId THEN trip_id
                                                             ELSE properties_id)
      rt_t == IF found = NoRt THEN n_rt_transports(r) + 1 ELSE found
      ready == IF found = NoRt THEN AddAdditional(r, src, trip_id, stops)
                               ELSE Reinstate(r, rt_t)
      present == ready.rt_transport_location_seq_[rt_t]
  IN  UpdateStops(ready, Invalid, rt_t, 1, Len(present) + 1, present, stus)

-----------------------------------------------------------------------------
Init ==
  /\ rtt = create_rt_timetable
  /\ entity = Idle
  /\ pending = {}

\* Processing n runs adds at most 2 * n bitfields.
HasRoom(n) == Len(rtt.bitfields_) + 2 * n <= MaxBitfields

(***************************************************************************)
(* A trip update of a static trip: SCHEDULED with stop time updates, or    *)
(* CANCELED.  An entity that resolves to no run changes nothing.           *)
(***************************************************************************)
TripUpdate(trip, date, update) ==
  /\ pending = {}
  /\ pending' = ResolveStatic(trip, date)
  /\ pending' # {}
  /\ HasRoom(Cardinality(pending'))
  /\ entity' = [src |-> TripSource[trip], update |-> update]
  /\ UNCHANGED rtt

\* The callback is done with a run; after the last one comes the next entity.
Processed(run) ==
  /\ pending' = pending \ {run}
  /\ entity' = IF pending' = {} THEN Idle ELSE entity

\* The callback of a SCHEDULED entity.
UpdateRun(run) ==
  /\ entity.update.sr = "SCHEDULED"
  /\ \/ rtt.static_trip_lookup_[TransportOf(run)] # NoRt
     \/ TransportOf(run) \in InRtInterval
  /\ rtt' = UpdateScheduledRun(rtt, entity.src, run, entity.update.stus)
  /\ Processed(run)

\* add_rt_trip refuses a run that an RT transport cannot hold.
RefuseRun(run) ==
  /\ entity.update.sr = "SCHEDULED"
  /\ rtt.static_trip_lookup_[TransportOf(run)] = NoRt
  /\ TransportOf(run) \notin InRtInterval
  /\ UNCHANGED rtt
  /\ Processed(run)

\* The callback of a CANCELED entity.
CancelRun(run) ==
  /\ entity.update.sr = "CANCELED"
  /\ LET td == TransportOf(run)
     IN  rtt' = cancel_run(rtt, td, rtt.static_trip_lookup_[td])
  /\ Processed(run)

(***************************************************************************)
(* An ADDED or NEW entity whose trip id no static trip of the day has.     *)
(* One that add_rt_trip refuses (an unknown stop, times outside of the     *)
(* real-time interval, too fast) changes nothing.                          *)
(***************************************************************************)
AddedTrip(src, trip_id, properties_id, stops, stus) ==
  /\ pending = {}
  /\ \/ resolve_added(rtt, src, IF properties_id = NoId THEN trip_id
                                ELSE properties_id) # NoRt
     \/ Len(rtt.additional_trips_[src].transports_) < MaxAdditional
  /\ rtt' = UpdateAdditionalTrip(rtt, src, trip_id, properties_id, stops, stus)
  /\ UNCHANGED <<entity, pending>>

(***************************************************************************)
(* handle_vehicle_position: the first run of the trip gets an RT transport *)
(* if it has none.  The rest of the handler writes event times.  It        *)
(* neither sets nor revokes a cancellation.                                *)
(***************************************************************************)
VehiclePosition(trip, date) ==
  /\ pending = {}
  /\ HasRoom(1)
  /\ \E run \in ResolveStatic(trip, date) :
       LET td == TransportOf(run)
       IN  /\ rtt.static_trip_lookup_[td] = NoRt
           /\ td \in InRtInterval
           /\ rtt' = AddScheduled(rtt, TripSource[trip], td)
  /\ UNCHANGED <<entity, pending>>

Next ==
  \/ \E trip \in Trip, date \in Day, update \in Update :
       TripUpdate(trip, date, update)
  \/ \E run \in pending : UpdateRun(run)
  \/ \E run \in pending : RefuseRun(run)
  \/ \E run \in pending : CancelRun(run)
  \/ \E src \in Source, trip_id \in TripId, properties_id \in PropertiesIds :
       \E stops \in AddedStops, stus \in StopUpdates :
         AddedTrip(src, trip_id, properties_id, stops, stus)
  \/ \E trip \in Trip, date \in Day : VehiclePosition(trip, date)

Spec == Init /\ [][Next]_vars

-----------------------------------------------------------------------------
(***************************************************************************)
(* Properties of the handler.                                              *)
(***************************************************************************)

\* The entity in progress and its runs are well typed.
HandlerTypeOK ==
  /\ TypeOK
  /\ entity \in Entity
  /\ pending \in SUBSET Run
  /\ pending = {} <=> entity = Idle

\* An entity stores an additional trip a second time under the id it has: it
\* was looked up with another id, which no additional trip was stored with.
StoresTwice(src) ==
  \E trip_id \in TripId, stops \in AddedStops, stus \in StopUpdates :
    \E properties_id \in PropertiesIds \ {NoId, trip_id} :
      /\ HasId(rtt.additional_trips_[src].ids_, trip_id)
      /\ resolve_added(rtt, src, properties_id) = NoRt
      /\ AddedTrip(src, trip_id, properties_id, stops, stus)

\* The assertion at the end of add_rt_transport holds in every step but one:
\* an additional trip with two different ids that comes again.  However often
\* an entity with one id, or with the same id in both fields, is repeated, and
\* whatever other trips were stored, ids and transports stay numbered alike.
OnlyRenamedTripsBreakStep ==
  [][\A src \in Source : InStep(src) => InStep(src)' \/ StoresTwice(src)]_vars

\* What the real-time timetable says of a run.
ServiceOf(td) ==
  LET rt_t == rtt.static_trip_lookup_[td]
  IN  IF rt_t # NoRt
        THEN IF rt_t \in rtt.rt_transport_is_cancelled_ THEN "rt_cancelled"
                                                     ELSE "realtime"
      ELSE IF is_transport_active(rtt, td) THEN "static"
      ELSE IF IsStaticActive(td) THEN "cancelled" ELSE "none"

Promise == INSTANCE DayService WITH
             Runs      <- TransportDay,
             Scheduled <- {td \in TransportDay : IsStaticActive(td)},
             service   <- [td \in TransportDay |-> ServiceOf(td)]

\* The feed handler implements DayService: each callback changes what is
\* offered of the run it is about and of no other run, although transports
\* share bitfields and a cancellation writes the bitfield a second time.
ImplementsDayService == Promise!Spec

=============================================================================
