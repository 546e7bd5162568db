------------------------------ MODULE UpdateRun ------------------------------
(***************************************************************************)
(* The event times of one run under GTFS-RT: update_run and                *)
(* handle_vehicle_position of gtfsrt_update.cc on the times, data states   *)
(* and coverage of rt_timetable.h.                                         *)
(*                                                                         *)
(* A run has the stops 0..NStops-1 and the events dep, arr, dep, arr, ...  *)
(* (event_idx).  update_run walks over the stops of the updated trip,      *)
(* carrying the delay of the last event (pred) and the information that    *)
(* the feed has no data (no_data); then a pass over all events of the      *)
(* transport raises those that would lie before their predecessor.  Each   *)
(* event visited is a step here.                                           *)
(*                                                                         *)
(* Times are minutes relative to the base day; MinDelta and MaxDelta stand *)
(* for the limits of the 16 bit integer that stores them.                  *)
(***************************************************************************)
EXTENDS Integers, FiniteSets

CONSTANTS
  NStops,       \* stops of the transport
  StaticTime,   \* scheduled times (tt.event_time)
  IsScheduled,  \* r.is_scheduled(): FALSE for an additional trip
  Ranges,       \* the stop ranges of the trips of the transport
  Messages,     \* trip updates: what matches each stop
  Delays,       \* delays derived from vehicle positions
  MinDelta, MaxDelta,
  Epoch         \* unixtime_t{0}: long before the real-time interval

Stops == 0..NStops - 1
Last == 2 * NStops - 3
Events == 0..Last
dep(s) == 2 * s
arr(s) == 2 * s - 1

\* rt_interval
InInterval(t) == MinDelta < t /\ t < MaxDelta

\* A stop time event of a message: a delay, an absolute time, or neither.
NoEvent == [kind |-> "none", value |-> 0]
StopTimeEvent == [kind : {"delay", "time"}, value : Int] \cup {NoEvent}

(***************************************************************************)
(* What a message has for a stop.  "unmatched": no stop time update;       *)
(* "track": a track change that is carried out; "bad_track": one to an     *)
(* unknown stop or to a stop that is no track of the same station.         *)
(***************************************************************************)
Relationship ==
  {"unmatched", "scheduled", "skipped", "no_data", "track", "bad_track"}
StopTimeUpdate ==
  [rel : Relationship, arrival : StopTimeEvent, departure : StopTimeEvent]

StopRange == {r \in [from : Stops, to : 1..NStops] : r.from + 1 < r.to}

ASSUME RunAssumption ==
  /\ NStops \in Nat /\ NStops >= 2
  /\ IsScheduled \in BOOLEAN
  /\ Ranges \subseteq StopRange
  /\ ~IsScheduled => Ranges \subseteq {[from |-> 0, to |-> NStops]}
  /\ Messages \subseteq [Stops -> StopTimeUpdate]
  /\ Delays \subseteq Int

\* is_in_rt_interval: the run is accepted only with its times in the interval.
ASSUME TimeAssumption ==
  /\ MinDelta \in Int /\ MaxDelta \in Int /\ Epoch \in Int
  /\ MinDelta < 0 /\ 0 < MaxDelta /\ Epoch < MinDelta
  /\ StaticTime \in [Events -> Int]
  /\ \A e \in Events : InInterval(StaticTime[e])
  /\ \A e, f \in Events : e <= f => StaticTime[e] <= StaticTime[f]

VARIABLES
  present,    \* the run has an RT transport
  cancelled,  \* flagged cancelled, or switched off without an RT transport
  skipped,    \* stops with neither entry nor exit
  times,      \* rt_transport_stop_times_
  states,     \* rt_transport_data_states_
  coverage,   \* coverage_
  phase,      \* where the handler is
  range, msg, \* the stop range and message of the current update
  stop,       \* stop_idx (in a vehicle position: the current stop)
  event,      \* i of the final pass
  pred,       \* the delay to propagate
  no_data,
  last        \* history: the update before, and the times it led to

data == <<present, cancelled, skipped, times, states, coverage>>
walk == <<range, msg, stop, event, pred, no_data>>
vars == <<data, phase, walk, last>>

DataState ==
  {"kNoRtData", "kInconsistent", "kObserved", "kPropagated", "kPredicted"}
NoPred == [valid |-> FALSE, time |-> 0, delay |-> 0]
Pred(t, d) == [valid |-> TRUE, time |-> t, delay |-> d]
Whole == [from |-> 0, to |-> NStops]
NoMessage == [s \in Stops |->
  [rel |-> "unmatched", arrival |-> NoEvent, departure |-> NoEvent]]
NothingSent == [msg |-> NoMessage, range |-> Whole, times |-> <<>>]

-----------------------------------------------------------------------------
(***************************************************************************)
(* Intervals [from, to): hull and extend of interval.h.                    *)
(***************************************************************************)
Larger(a, b) == IF a >= b THEN a ELSE b
Smaller(a, b) == IF a <= b THEN a ELSE b

IsEmpty(iv) == iv.from = iv.to
hull(a, b) ==
  IF IsEmpty(a) THEN b
  ELSE IF IsEmpty(b) THEN a
  ELSE [from |-> Smaller(a.from, b.from), to |-> Larger(a.to, b.to)]
extend(iv, t) == hull(iv, [from |-> t, to |-> t + 1])
contains(iv, t) == iv.from <= t /\ t < iv.to

\* rt_transport_interval and static_transport_interval
Span(ts) == [from |-> ts[0], to |-> ts[Last] + 1]
StaticSpan == IF IsScheduled THEN Span(StaticTime) ELSE [from |-> 0, to |-> 0]

-----------------------------------------------------------------------------
(***************************************************************************)
(* Writing the time of an event.                                           *)
(***************************************************************************)

\* Mutant: the coverage is not extended.
update_time_NoCoverage(e, time, state) ==
  /\ UNCHANGED coverage
  /\ IF InInterval(time) THEN /\ times' = [times EXCEPT ![e] = time]
                              /\ states' = [states EXCEPT ![e] = state]
                         ELSE UNCHANGED <<times, states>>

\* Mutant: an event never gets earlier again.
update_time_KeepsLater(e, time, state) ==
  IF InInterval(time) /\ time > times[e]
    THEN /\ times' = [times EXCEPT ![e] = time]
         /\ states' = [states EXCEPT ![e] = state]
         /\ coverage' = extend(coverage, time)
    ELSE UNCHANGED <<times, states, coverage>>

\* update_time: a time outside of the real-time interval is dropped.
update_time(e, time, state) ==
  IF InInterval(time)
    THEN /\ times' = [times EXCEPT ![e] = time]
         /\ states' = [states EXCEPT ![e] = state]
         /\ coverage' = extend(coverage, time)
    ELSE UNCHANGED <<times, states, coverage>>

\* A time before the previous event is raised to it and marked so.
BoundedUpdate(e, time, lower, state) ==
  LET bounded == Larger(lower, time)
  IN  update_time(e, bounded, IF bounded # time THEN "kInconsistent" ELSE state)

\* Mutant: the delay is added to the real-time event, not to the scheduled one.
update_delay_Accumulates(e, delay, lower, state) ==
  /\ BoundedUpdate(e, times[e] + delay, lower, state)
  /\ pred' = Pred(times'[e], delay)

\* update_delay
update_delay(e, delay, lower, state) ==
  LET static_time == IF IsScheduled THEN StaticTime[e] ELSE lower
  IN  /\ BoundedUpdate(e, static_time + delay, lower, state)
      /\ pred' = Pred(times'[e], delay)

\* update_event: a delay counts only for a run of the static timetable; an
\* event without a time has the time 0.
update_event(e, ev, lower) ==
  IF ev.kind = "delay" /\ IsScheduled
    THEN update_delay(e, ev.value, lower, "kPredicted")
    ELSE LET new_time == IF ev.kind = "time" THEN ev.value ELSE Epoch
             static_time == IF IsScheduled THEN StaticTime[e] ELSE new_time
         IN  /\ BoundedUpdate(e, new_time, lower, "kPredicted")
             /\ pred' = Pred(times'[e], times'[e] - static_time)

reset_to_schedule(e) ==
  IF IsScheduled THEN update_time(e, StaticTime[e], "kNoRtData")
                 ELSE UNCHANGED <<times, states, coverage>>

(***************************************************************************)
(* The update of one event in the walk: from the message, else from the    *)
(* delay of the previous event, else back to the schedule if the feed has  *)
(* declared that it has no data.                                           *)
(***************************************************************************)
VisitEvent(e, ev, lower, previous, none) ==
  \/ /\ ev # NoEvent
     /\ update_event(e, ev, IF previous.valid THEN previous.time ELSE lower)
     /\ no_data' = FALSE
  \/ /\ ev = NoEvent /\ previous.valid
     /\ update_delay(e, previous.delay, previous.time, "kPropagated")
     /\ no_data' = none
  \/ /\ ev = NoEvent /\ ~previous.valid /\ none
     /\ reset_to_schedule(e)
     /\ pred' = previous /\ no_data' = none
  \/ /\ ev = NoEvent /\ ~previous.valid /\ ~none
     /\ UNCHANGED <<times, states, coverage>>
     /\ pred' = previous /\ no_data' = none

LeaveEvent(previous, none) ==
  /\ UNCHANGED <<times, states, coverage>>
  /\ pred' = previous /\ no_data' = none

-----------------------------------------------------------------------------
\* The local variables of a handler end with it.
Forget ==
  /\ range' = Whole /\ msg' = NoMessage /\ stop' = 0 /\ event' = 0
  /\ pred' = NoPred /\ no_data' = FALSE

Init ==
  /\ present = FALSE /\ cancelled = FALSE /\ skipped = {}
  /\ times = [e \in Events |-> 0]
  /\ states = [e \in Events |-> "kNoRtData"]
  /\ coverage = [from |-> 0, to |-> 0]
  /\ phase = "idle"
  /\ range = Whole /\ msg = NoMessage /\ stop = 0 /\ event = 0
  /\ pred = NoPred /\ no_data = FALSE
  /\ last = NothingSent

(***************************************************************************)
(* add_rt_transport on times and coverage: a scheduled run starts with the *)
(* scheduled times, an additional trip with zeros that the walk replaces.  *)
(***************************************************************************)
AddIfMissing ==
  /\ present' = TRUE
  /\ IF present THEN UNCHANGED <<times, states, coverage>>
     ELSE /\ times' = IF IsScheduled THEN StaticTime ELSE times
          /\ states' = [e \in Events |-> "kNoRtData"]
          /\ coverage' = hull(coverage, StaticSpan)

\* update_run up to the walk: an update revokes a cancellation.
BeginUpdate(m, r) ==
  /\ phase = "idle"
  /\ AddIfMissing
  /\ cancelled' = FALSE
  /\ range' = r /\ msg' = m /\ stop' = r.from
  /\ pred' = NoPred /\ no_data' = FALSE
  /\ phase' = "arr"
  /\ last' = IF last.msg = m /\ last.range = r THEN last ELSE NothingSent
  /\ UNCHANGED <<skipped, event>>

NextStop ==
  IF stop + 1 = range.to
    THEN phase' = "raise" /\ event' = 0 /\ UNCHANGED stop
    ELSE phase' = "arr" /\ stop' = stop + 1 /\ UNCHANGED event

HasData == msg[stop].rel \in {"scheduled", "skipped", "track"}
Given(ev) == IF HasData THEN ev ELSE NoEvent

\* What message m has for event e of a run with stop range r.  The walk visits
\* the events from the first departure to the last arrival; an arrival at the
\* very first stop stands for a missing departure.
AppliedTo(m, r, e) ==
  LET s == (e + 1) \div 2
      in_range == dep(r.from) <= e /\ e <= arr(r.to - 1)
  IN  IF ~in_range \/ m[s].rel \notin {"scheduled", "skipped", "track"} THEN NoEvent
      ELSE IF e = arr(s) THEN m[s].arrival
      ELSE IF e = 0 /\ m[0].departure = NoEvent THEN m[0].arrival
      ELSE m[s].departure

\* An assignment that is not carried out leaves the stop without an update.
RefuseTrack ==
  /\ phase = "arr" /\ msg[stop].rel = "bad_track"
  /\ NextStop
  /\ UNCHANGED <<data, range, msg, pred, no_data, last>>

\* The stop itself; NO_DATA forgets the delay; then the arrival.
VisitArrival ==
  /\ phase = "arr" /\ msg[stop].rel # "bad_track"
  /\ LET rel == msg[stop].rel
         previous == IF rel = "no_data" THEN NoPred ELSE pred
         none == no_data \/ rel = "no_data"
     IN  /\ skipped' = IF rel = "skipped" THEN skipped \cup {stop}
                       ELSE IF rel \in {"scheduled", "no_data"} /\ IsScheduled
                         THEN skipped \ {stop} ELSE skipped
         /\ IF stop = range.from
              THEN LeaveEvent(previous, none)
              ELSE VisitEvent(arr(stop), Given(msg[stop].arrival),
                              times[dep(stop - 1)], previous, none)
  /\ phase' = "dep"
  /\ UNCHANGED <<present, cancelled, range, msg, stop, event, last>>

\* The departure.  An arrival at the very first stop stands for it.
VisitDeparture ==
  /\ phase = "dep"
  /\ LET arrival == Given(msg[stop].arrival)
         departure == Given(msg[stop].departure)
     IN  IF stop = 0 /\ arrival # NoEvent /\ departure = NoEvent
           THEN update_event(dep(0), arrival, Epoch) /\ no_data' = FALSE
         ELSE IF stop + 1 = range.to
           THEN LeaveEvent(pred, no_data)
           ELSE VisitEvent(dep(stop), departure,
                           IF stop = 0 THEN Epoch ELSE times[arr(stop)],
                           pred, no_data)
  /\ NextStop
  /\ UNCHANGED <<present, cancelled, skipped, range, msg, last>>

RaiseNext ==
  IF event = Last THEN phase' = "finish" /\ UNCHANGED event
                  ELSE event' = event + 1 /\ UNCHANGED phase

\* Mutant: the bound is not carried from event to event.
RaiseEvent_NoBound ==
  /\ phase = "raise"
  /\ IF times[event] < MinDelta
       THEN /\ times' = [times EXCEPT ![event] = MinDelta]
            /\ states' = [states EXCEPT ![event] = "kInconsistent"]
       ELSE UNCHANGED <<times, states>>
  /\ RaiseNext
  /\ UNCHANGED <<present, cancelled, skipped, coverage>>
  /\ UNCHANGED <<range, msg, stop, pred, no_data, last>>

\* Mutant: the data state stays.
RaiseEvent_KeepsState ==
  /\ phase = "raise"
  /\ IF event > 0 /\ times[event] < times[event - 1]
       THEN times' = [times EXCEPT ![event] = times[event - 1]]
       ELSE UNCHANGED times
  /\ RaiseNext
  /\ UNCHANGED <<present, cancelled, skipped, states, coverage>>
  /\ UNCHANGED <<range, msg, stop, pred, no_data, last>>

\* One event of the final pass: it must not lie before its predecessor.
RaiseEvent ==
  /\ phase = "raise"
  /\ LET pred_time == IF event = 0 THEN MinDelta ELSE times[event - 1]
     IN  IF times[event] < pred_time
           THEN /\ times' = [times EXCEPT ![event] = pred_time]
                /\ states' = [states EXCEPT ![event] = "kInconsistent"]
           ELSE UNCHANGED <<times, states>>
  /\ RaiseNext
  /\ UNCHANGED <<present, cancelled, skipped, coverage>>
  /\ UNCHANGED <<range, msg, stop, pred, no_data, last>>

\* cancel_run on the flag and the coverage.
cancel_run ==
  /\ cancelled' = TRUE
  /\ coverage' = hull(IF present THEN hull(coverage, Span(times)) ELSE coverage,
                      StaticSpan)

\* The end of update_run: a run with at most one stop left is cancelled.
FinishUpdate ==
  /\ phase = "finish"
  /\ IF Cardinality(Stops \ skipped) <= 1 THEN cancel_run
                                          ELSE UNCHANGED <<cancelled, coverage>>
  /\ phase' = "idle"
  /\ Forget
  /\ last' = [msg |-> msg, range |-> range, times |-> times]
  /\ UNCHANGED <<present, skipped, times, states>>

\* A CANCELED entity.  An additional trip is known only by its RT transport.
CancelRun ==
  /\ phase = "idle"
  /\ IsScheduled
  /\ cancel_run
  /\ last' = NothingSent
  /\ UNCHANGED <<present, skipped, times, states, phase, walk>>

-----------------------------------------------------------------------------
(***************************************************************************)
(* handle_vehicle_position: the vehicle stands at stop s with a delay.     *)
(* The remaining events get this delay; unlike in a trip update the times  *)
(* have no lower bound.                                                    *)
(***************************************************************************)
FirstAffected(s) == IF s = 0 THEN dep(0) ELSE arr(s)

PositionState(e, s) ==
  IF e = arr(s) THEN "kObserved" ELSE IF e = 0 THEN "kPredicted" ELSE "kPropagated"

\* An RT transport is added even if the position is near no stop.
PositionElsewhere ==
  /\ phase = "idle" /\ IsScheduled
  /\ AddIfMissing
  /\ cancelled' = (present /\ cancelled)
  /\ last' = NothingSent
  /\ UNCHANGED <<skipped, phase, walk>>

Position(s, delay) ==
  LET base == IF present THEN times ELSE StaticTime
      written == {e \in Events : e >= FirstAffected(s)
                                 /\ InInterval(StaticTime[e] + delay)}
      covered == IF present THEN coverage ELSE hull(coverage, StaticSpan)
  IN  /\ phase = "idle" /\ IsScheduled
      /\ present' = TRUE /\ cancelled' = (present /\ cancelled)
      /\ times' = [e \in Events |->
                     IF e \in written THEN StaticTime[e] + delay ELSE base[e]]
      /\ states' = [e \in Events |->
                      IF e \in written THEN PositionState(e, s)
                      ELSE IF present THEN states[e] ELSE "kNoRtData"]
      /\ \/ written = {} /\ coverage' = covered
         \/ \E lo, hi \in written :
              /\ \A e \in written : StaticTime[lo] <= StaticTime[e]
                                    /\ StaticTime[e] <= StaticTime[hi]
              /\ coverage' = extend(extend(covered, StaticTime[lo] + delay),
                                    StaticTime[hi] + delay)
      /\ stop' = s /\ pred' = Pred(0, delay) /\ phase' = "back"
      /\ last' = NothingSent
      /\ UNCHANGED <<skipped, range, msg, event, no_data>>

(***************************************************************************)
(* Backwards over the stops the vehicle has left: an earlier event that    *)
(* would lie after the next one gets the delay too.                        *)
(***************************************************************************)
Delayed(e) == StaticTime[e] + pred.delay

\* The departure of the previous stop lies after the arrival at this one.
TooLate == stop > 0 /\ times[arr(stop)] < times[dep(stop - 1)]

BackDone ==
  /\ phase = "back"
  /\ ~TooLate
  /\ phase' = "idle"
  /\ Forget
  /\ UNCHANGED <<data, last>>

BackDeparture ==
  /\ phase = "back"
  /\ TooLate
  /\ update_time(dep(stop - 1), Delayed(dep(stop - 1)), "kInconsistent")
  /\ IF stop - 1 # 0 /\ times'[dep(stop - 1)] < times'[arr(stop - 1)]
       THEN /\ phase' = "back_arr" /\ stop' = stop - 1
            /\ UNCHANGED <<range, msg, event, pred, no_data>>
       ELSE phase' = "idle" /\ Forget
  /\ UNCHANGED <<present, cancelled, skipped, last>>

BackArrival ==
  /\ phase = "back_arr"
  /\ update_time(arr(stop), Delayed(arr(stop)), "kInconsistent")
  /\ phase' = "back"
  /\ UNCHANGED <<present, cancelled, skipped, walk, last>>

-----------------------------------------------------------------------------
Next ==
  \/ \E m \in Messages, r \in Ranges : BeginUpdate(m, r)
  \/ RefuseTrack
  \/ VisitArrival
  \/ VisitDeparture
  \/ RaiseEvent
  \/ FinishUpdate
  \/ CancelRun
  \/ PositionElsewhere
  \/ \E s \in Stops, delay \in Delays : Position(s, delay)
  \/ BackDone
  \/ BackDeparture
  \/ BackArrival

Spec == Init /\ [][Next]_vars

-----------------------------------------------------------------------------
(***************************************************************************)
(* Properties.                                                             *)
(***************************************************************************)
Interval == [from : Int, to : Int]

\* Every variable has its type, and the walk stays in the stop range.
TypeOK ==
  /\ present \in BOOLEAN /\ cancelled \in BOOLEAN /\ skipped \in SUBSET Stops
  /\ times \in [Events -> Int] /\ states \in [Events -> DataState]
  /\ coverage \in Interval
  /\ phase \in {"idle", "arr", "dep", "raise", "finish", "back", "back_arr"}
  /\ range \in StopRange /\ msg \in [Stops -> StopTimeUpdate]
  /\ stop \in Stops /\ event \in Events
  /\ phase \in {"arr", "dep"} => range.from <= stop /\ stop < range.to
  /\ phase = "back_arr" => stop > 0
  /\ pred \in [valid : BOOLEAN, time : Int, delay : Int]
  /\ no_data \in BOOLEAN

\* Outside of the handlers no event lies before its predecessor, although
\* times outside of the real-time interval are dropped one by one, the feed
\* may tell anything, and the events of other trips of the transport stay.
Monotone ==
  phase = "idle" /\ present =>
    \A e \in Events \ {Last} : times[e] <= times[e + 1]

\* Routing drops the real-time timetable for a search interval that does not
\* overlap coverage_ (affects).  So the coverage has every event of an RT
\* transport, at the times it has now and at the times it was planned (for an
\* additional trip once the walk has replaced the zeros it starts with).
CoverageComplete ==
  present /\ (IsScheduled \/ phase = "idle") =>
             /\ \A e \in Events : contains(coverage, times[e])
             /\ IsScheduled =>
                  \A e \in Events : contains(coverage, StaticTime[e])

\* The same for a run that is switched off without an RT transport.
CoverageOfCancelled ==
  cancelled /\ IsScheduled => \A e \in Events : contains(coverage, StaticTime[e])

\* An event without real-time data is at its scheduled time: the passes that
\* move it to keep the order also take the mark kNoRtData from it.
NoRtDataMeansScheduled ==
  present /\ IsScheduled =>
    \A e \in Events : states[e] = "kNoRtData" => times[e] = StaticTime[e]

\* What a message reports for an event, at its scheduled time plus the delay.
Reported(e) ==
  LET ev == IF e % 2 = 0 THEN msg[e \div 2].departure ELSE msg[(e + 1) \div 2].arrival
  IN  IF ev.kind = "delay" THEN StaticTime[e] + ev.value ELSE ev.value

IsComplete ==
  /\ range = Whole
  /\ \A s \in Stops : msg[s].rel \in {"scheduled", "skipped", "track"}
  /\ \A s \in Stops \ {NStops - 1} : msg[s].departure # NoEvent
  /\ \A s \in Stops \ {0} : msg[s].arrival # NoEvent
  /\ \A e \in Events : InInterval(Reported(e))

\* A message with all events leaves nothing of the run's history: each event
\* is at the latest time the message reports for it or for an earlier event.
CompleteUpdateDecides ==
  phase = "finish" /\ IsScheduled /\ IsComplete =>
    \A e \in Events :
      /\ \A f \in 0..e : Reported(f) <= times[e]
      /\ \E f \in 0..e : Reported(f) = times[e]

\* An event got what the message says of it: an absolute time stands in the times
\* ts, it was neither dropped, being outside of the real-time interval, nor
\* raised to an earlier event.  Of a delay nothing is asked, except that an
\* additional trip has nothing to add it to.
AsTold(m, r, ts, e) ==
  LET ev == AppliedTo(m, r, e)
  IN  \/ ev = NoEvent
      \/ ev.kind = "delay" /\ IsScheduled
      \/ ev.kind = "time" /\ ts[e] = ev.value

TakenAsTold(m, r, ts) == \A e \in Events : AsTold(m, r, ts, e)

\* A feed repeats its messages every few seconds.  Sending the same update again,
\* with nothing else in between, changes no event time, whatever was sent before
\* the first of the two: delays are added to the schedule, and what the final
\* pass moved is written over before it is read.  This holds of delays that are
\* dropped or raised too; of absolute times only if the run took them as told,
\* as the delay carried on from one is read off the time that is stored.
ResendChangesNothing ==
  phase = "finish" /\ last # NothingSent
    /\ TakenAsTold(last.msg, last.range, last.times) => times = last.times

\* No time leaves the range of the 16 bit integer it is stored in.
TimesInInterval ==
  present /\ IsScheduled => \A e \in Events : InInterval(times[e])

=============================================================================
