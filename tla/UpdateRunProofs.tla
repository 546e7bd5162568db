--------------------------- MODULE UpdateRunProofs ---------------------------
(***************************************************************************)
(* Proofs about UpdateRun.  Every step that changes event times does so by *)
(* update_time on one event, by raising one event to its predecessor, or   *)
(* by a vehicle position; so the invariants are shown once for a write and *)
(* then for each action.                                                   *)
(***************************************************************************)
EXTENDS UpdateRun, TLAPS

PredType == [valid : BOOLEAN, time : Int, delay : Int]

DataTypeOK ==
  /\ times \in [Events -> Int] /\ states \in [Events -> DataState]
  /\ coverage \in Interval

\* The shape of all writes of single events: a state kNoRtData comes with the
\* scheduled time.
Write ==
  \/ UNCHANGED <<times, states, coverage>>
  \/ \E e \in Events, t \in Int, st \in DataState :
       /\ update_time(e, t, st)
       /\ st = "kNoRtData" => IsScheduled /\ t = StaticTime[e]

-----------------------------------------------------------------------------
LEMMA EventIndices ==
  /\ Last \in Int /\ Last >= 1 /\ 0 \in Events /\ Last \in Events
  /\ \A s \in Stops : s > 0 => arr(s) \in Events
  /\ \A s \in Stops : s + 1 < NStops => dep(s) \in Events
  /\ \A e \in Events : e # Last => e + 1 \in Events
BY RunAssumption DEF Events, Last, Stops, arr, dep

LEMMA HullType ==
  ASSUME NEW a \in Interval, NEW b \in Interval
  PROVE  hull(a, b) \in Interval
BY DEF hull, Interval, IsEmpty, Larger, Smaller

\* The hull of two intervals has what either of them has.
LEMMA HullContains ==
  ASSUME NEW a \in Interval, NEW b \in Interval, NEW t \in Int,
         contains(a, t) \/ contains(b, t)
  PROVE  contains(hull(a, b), t)
BY DEF hull, contains, Interval, IsEmpty, Larger, Smaller

LEMMA ExtendContains ==
  ASSUME NEW a \in Interval, NEW t \in Int
  PROVE  /\ extend(a, t) \in Interval
         /\ contains(extend(a, t), t)
         /\ \A u \in Int : contains(a, u) => contains(extend(a, t), u)
<1> DEFINE b == [from |-> t, to |-> t + 1]
<1>1. b \in Interval /\ contains(b, t)
  BY DEF Interval, contains
<1>2. extend(a, t) = hull(a, b)
  BY DEF extend
<1> HIDE DEF b
<1> QED
  BY <1>1, <1>2, HullType, HullContains

\* The scheduled span of a run has all of its scheduled times.
LEMMA StaticSpanContains ==
  /\ StaticSpan \in Interval
  /\ IsScheduled => \A e \in Events : contains(StaticSpan, StaticTime[e])
<1>1. \A e \in Events : /\ StaticTime[e] \in Int
                        /\ StaticTime[0] <= StaticTime[e]
                        /\ StaticTime[e] <= StaticTime[Last]
  BY TimeAssumption, EventIndices DEF Events
<1> QED
  BY <1>1, EventIndices DEF StaticSpan, Span, Interval, contains

LEMMA WriteType ==
  ASSUME DataTypeOK, Write
  PROVE  DataTypeOK'
<1>1. CASE UNCHANGED <<times, states, coverage>>
  BY <1>1 DEF DataTypeOK
<1>2. CASE ~ UNCHANGED <<times, states, coverage>>
  <2>1. PICK e \in Events, t \in Int, st \in DataState : update_time(e, t, st)
    BY <1>2 DEF Write
  <2>2. InInterval(t)
    BY <1>2, <2>1 DEF update_time
  <2>3. times' \in [Events -> Int] /\ states' \in [Events -> DataState]
    BY <2>1, <2>2 DEF update_time, DataTypeOK
  <2>4. coverage' \in Interval
    BY <2>1, <2>2, ExtendContains DEF update_time, DataTypeOK
  <2> QED
    BY <2>3, <2>4 DEF DataTypeOK
<1> QED
  BY <1>1, <1>2

-----------------------------------------------------------------------------
(***************************************************************************)
(* The walk of update_run writes in this shape.                            *)
(***************************************************************************)
LEMMA StaticTimeType == \A e \in Events : StaticTime[e] \in Int
BY TimeAssumption

LEMMA BoundedUpdateWrites ==
  ASSUME NEW e \in Events, NEW time \in Int, NEW lower \in Int,
         NEW state \in DataState \ {"kNoRtData"},
         BoundedUpdate(e, time, lower, state)
  PROVE  Write
<1> DEFINE bounded == Larger(lower, time)
           st == IF bounded # time THEN "kInconsistent" ELSE state
<1>1. bounded \in Int /\ st \in DataState /\ st # "kNoRtData"
  BY DEF Larger, DataState
<1>2. update_time(e, bounded, st)
  BY DEF BoundedUpdate
<1> HIDE DEF bounded, st
<1> QED
  BY <1>1, <1>2 DEF Write

LEMMA UpdateDelayWrites ==
  ASSUME DataTypeOK, NEW e \in Events, NEW delay \in Int, NEW lower \in Int,
         NEW state \in DataState \ {"kNoRtData"},
         update_delay(e, delay, lower, state)
  PROVE  Write /\ pred' \in PredType
<1> DEFINE static_time == IF IsScheduled THEN StaticTime[e] ELSE lower
<1>1. static_time \in Int /\ static_time + delay \in Int
  BY StaticTimeType
<1>2. BoundedUpdate(e, static_time + delay, lower, state)
  BY DEF update_delay
<1> HIDE DEF static_time
<1>3. Write
  BY <1>1, <1>2, BoundedUpdateWrites
<1>4. times'[e] \in Int
  BY <1>3, WriteType DEF DataTypeOK
<1> QED
  BY <1>3, <1>4 DEF update_delay, Pred, PredType

LEMMA UpdateEventWrites ==
  ASSUME DataTypeOK, NEW e \in Events, NEW ev \in StopTimeEvent, NEW lower \in Int,
         update_event(e, ev, lower)
  PROVE  Write /\ pred' \in PredType
<1>0. ev.value \in Int /\ Epoch \in Int
  BY TimeAssumption DEF StopTimeEvent, NoEvent
<1>1. CASE ev.kind = "delay" /\ IsScheduled
  <2>1. update_delay(e, ev.value, lower, "kPredicted")
    BY <1>1 DEF update_event
  <2> QED
    BY <2>1, <1>0, UpdateDelayWrites DEF DataState
<1>2. CASE ~(ev.kind = "delay" /\ IsScheduled)
  <2> DEFINE new_time == IF ev.kind = "time" THEN ev.value ELSE Epoch
             static_time == IF IsScheduled THEN StaticTime[e] ELSE new_time
  <2>1. new_time \in Int /\ static_time \in Int
    BY <1>0, StaticTimeType
  <2>2. /\ BoundedUpdate(e, new_time, lower, "kPredicted")
        /\ pred' = Pred(times'[e], times'[e] - static_time)
    BY <1>2 DEF update_event
  <2> HIDE DEF new_time, static_time
  <2>3. Write
    BY <2>1, <2>2, BoundedUpdateWrites DEF DataState
  <2>4. times'[e] \in Int
    BY <2>3, WriteType DEF DataTypeOK
  <2> QED
    BY <2>1, <2>2, <2>3, <2>4 DEF Pred, PredType
<1> QED
  BY <1>1, <1>2

LEMMA VisitEventWrites ==
  ASSUME DataTypeOK, NEW e \in Events, NEW ev \in StopTimeEvent, NEW lower \in Int,
         NEW previous \in PredType, NEW none \in BOOLEAN,
         VisitEvent(e, ev, lower, previous, none)
  PROVE  Write /\ pred' \in PredType /\ no_data' \in BOOLEAN
<1>1. CASE ev # NoEvent
  <2> DEFINE low == IF previous.valid THEN previous.time ELSE lower
  <2>1. low \in Int
    BY DEF PredType
  <2>2. update_event(e, ev, low) /\ no_data' = FALSE
    BY <1>1 DEF VisitEvent
  <2> HIDE DEF low
  <2> QED
    BY <2>1, <2>2, UpdateEventWrites
<1>2. CASE ev = NoEvent /\ previous.valid
  <2>1. /\ update_delay(e, previous.delay, previous.time, "kPropagated")
        /\ no_data' = none
    BY <1>2 DEF VisitEvent
  <2> QED
    BY <2>1, UpdateDelayWrites DEF PredType, DataState
<1>3. CASE ev = NoEvent /\ ~previous.valid /\ none
  <2>1. reset_to_schedule(e) /\ pred' = previous /\ no_data' = none
    BY <1>3 DEF VisitEvent
  <2>2. Write
    BY <2>1, StaticTimeType DEF reset_to_schedule, Write, DataState
  <2> QED
    BY <2>1, <2>2
<1>4. CASE ev = NoEvent /\ ~previous.valid /\ ~none
  <2>1. UNCHANGED <<times, states, coverage>> /\ pred' = previous /\ no_data' = none
    BY <1>4 DEF VisitEvent
  <2> QED
    BY <2>1 DEF Write
<1> QED
  BY <1>1, <1>2, <1>3, <1>4

-----------------------------------------------------------------------------
(***************************************************************************)
(* Type correctness.                                                       *)
(***************************************************************************)
LEMMA TypeSplit ==
  ASSUME TypeOK
  PROVE  DataTypeOK /\ pred \in PredType
BY DEF TypeOK, DataTypeOK, PredType

LEMMA MessageType ==
  ASSUME TypeOK
  PROVE  /\ Given(msg[stop].arrival) \in StopTimeEvent
         /\ Given(msg[stop].departure) \in StopTimeEvent
BY DEF TypeOK, StopTimeUpdate, Given, StopTimeEvent

LEMMA VisitArrivalWrites ==
  ASSUME TypeOK, VisitArrival
  PROVE  Write /\ pred' \in PredType /\ no_data' \in BOOLEAN
<1> DEFINE rel == msg[stop].rel
           previous == IF rel = "no_data" THEN NoPred ELSE pred
           none == no_data \/ rel = "no_data"
<1>1. previous \in PredType /\ none \in BOOLEAN
  BY TypeSplit DEF NoPred, PredType
<1>2. CASE stop = range.from
  <2>1. LeaveEvent(previous, none)
    BY <1>2 DEF VisitArrival
  <2> QED
    BY <2>1, <1>1 DEF LeaveEvent, Write
<1>3. CASE stop # range.from
  <2>1. VisitEvent(arr(stop), Given(msg[stop].arrival), times[dep(stop - 1)],
                   previous, none)
    BY <1>3 DEF VisitArrival
  <2>2. stop > 0 /\ stop \in Stops
    BY <1>3 DEF TypeOK, VisitArrival, StopRange, Stops
  <2>3. stop - 1 \in Stops /\ (stop - 1) + 1 < NStops
    BY <2>2, RunAssumption DEF Stops
  <2>4. dep(stop - 1) \in Events /\ arr(stop) \in Events
    BY <2>2, <2>3, EventIndices
  <2>5. times[dep(stop - 1)] \in Int
    BY <2>4 DEF TypeOK
  <2> HIDE DEF previous, none
  <2> QED
    BY <2>1, <2>4, <2>5, <1>1, TypeSplit, MessageType, VisitEventWrites
<1> QED
  BY <1>2, <1>3

LEMMA VisitDepartureWrites ==
  ASSUME TypeOK, VisitDeparture
  PROVE  Write /\ pred' \in PredType /\ no_data' \in BOOLEAN
<1> DEFINE arrival == Given(msg[stop].arrival)
           departure == Given(msg[stop].departure)
           lower == IF stop = 0 THEN Epoch ELSE times[arr(stop)]
<1>1. arrival \in StopTimeEvent /\ departure \in StopTimeEvent
  BY MessageType
<1>2. lower \in Int
  <2>1. CASE stop = 0
    BY <2>1, TimeAssumption
  <2>2. CASE stop # 0
    <3>1. stop \in Stops /\ stop > 0
      BY <2>2 DEF TypeOK, Stops
    <3>2. arr(stop) \in Events
      BY <3>1, EventIndices
    <3> QED
      BY <2>2, <3>2 DEF TypeOK
  <2> QED
    BY <2>1, <2>2
<1>3. CASE stop = 0 /\ arrival # NoEvent /\ departure = NoEvent
  <2>1. update_event(dep(0), arrival, Epoch) /\ no_data' = FALSE
    BY <1>3 DEF VisitDeparture
  <2>2. dep(0) \in Events
    BY EventIndices DEF dep
  <2> QED
    BY <2>1, <2>2, <1>1, TimeAssumption, TypeSplit, UpdateEventWrites
<1>4. CASE /\ ~(stop = 0 /\ arrival # NoEvent /\ departure = NoEvent)
           /\ stop + 1 = range.to
  <2>1. LeaveEvent(pred, no_data)
    BY <1>4 DEF VisitDeparture
  <2> QED
    BY <2>1, TypeSplit DEF LeaveEvent, Write, TypeOK
<1>5. CASE /\ ~(stop = 0 /\ arrival # NoEvent /\ departure = NoEvent)
           /\ stop + 1 # range.to
  <2>1. VisitEvent(dep(stop), departure, lower, pred, no_data)
    BY <1>5 DEF VisitDeparture
  <2>2. stop \in Stops /\ stop + 1 < NStops
    <3>1. stop \in Stops /\ range \in StopRange /\ stop < range.to
      BY DEF TypeOK, VisitDeparture
    <3> QED
      BY <1>5, <3>1, RunAssumption DEF StopRange, Stops
  <2>3. dep(stop) \in Events
    BY <2>2, EventIndices
  <2> HIDE DEF departure, lower, arrival
  <2> QED
    BY <2>1, <2>3, <1>1, <1>2, TypeSplit, VisitEventWrites DEF TypeOK
<1> QED
  BY <1>3, <1>4, <1>5

LEMMA BackWrites ==
  ASSUME TypeOK, BackDeparture \/ BackArrival
  PROVE  Write
<1>1. CASE BackDeparture
  <2>1. stop \in Stops /\ stop > 0 /\ stop - 1 \in Stops /\ (stop - 1) + 1 < NStops
    BY <1>1, RunAssumption DEF BackDeparture, TooLate, TypeOK, Stops
  <2>2. dep(stop - 1) \in Events
    BY <2>1, EventIndices
  <2>3. Delayed(dep(stop - 1)) \in Int
    BY <2>2, StaticTimeType DEF Delayed, TypeOK
  <2>4. update_time(dep(stop - 1), Delayed(dep(stop - 1)), "kInconsistent")
    BY <1>1 DEF BackDeparture
  <2> QED
    BY <2>2, <2>3, <2>4 DEF Write, DataState
<1>2. CASE BackArrival
  <2>1. stop \in Stops /\ stop > 0
    BY <1>2 DEF BackArrival, TypeOK
  <2>2. arr(stop) \in Events
    BY <2>1, EventIndices
  <2>3. Delayed(arr(stop)) \in Int
    BY <2>2, StaticTimeType DEF Delayed, TypeOK
  <2>4. update_time(arr(stop), Delayed(arr(stop)), "kInconsistent")
    BY <1>2 DEF BackArrival
  <2> QED
    BY <2>2, <2>3, <2>4 DEF Write, DataState
<1> QED
  BY <1>1, <1>2

\* A vehicle position only extends the coverage.
LEMMA PositionCoverage ==
  ASSUME TypeOK, NEW s \in Stops, NEW delay \in Delays, Position(s, delay)
  PROVE  /\ coverage' \in Interval
         /\ \A u \in Int : contains(coverage, u) => contains(coverage', u)
<1> DEFINE written == {e \in Events : e >= FirstAffected(s)
                                      /\ InInterval(StaticTime[e] + delay)}
           covered == IF present THEN coverage ELSE hull(coverage, StaticSpan)
<1>1. /\ covered \in Interval
      /\ \A u \in Int : contains(coverage, u) => contains(covered, u)
  BY StaticSpanContains, HullType, HullContains DEF TypeOK
<1>2. \/ coverage' = covered
      \/ \E lo, hi \in written :
           coverage' = extend(extend(covered, StaticTime[lo] + delay),
                              StaticTime[hi] + delay)
  BY DEF Position
<1> HIDE DEF covered
<1>3. CASE coverage' = covered
  BY <1>1, <1>3
<1>4. ASSUME NEW lo \in written, NEW hi \in written,
             coverage' = extend(extend(covered, StaticTime[lo] + delay),
                                StaticTime[hi] + delay)
      PROVE  /\ coverage' \in Interval
             /\ \A u \in Int : contains(coverage, u) => contains(coverage', u)
  <2>1. StaticTime[lo] + delay \in Int /\ StaticTime[hi] + delay \in Int
    BY StaticTimeType, RunAssumption
  <2> QED
    BY <2>1, <1>1, <1>4, ExtendContains
<1> QED
  BY <1>2, <1>3, <1>4

\* The values of the local variables outside of the handlers.
LEMMA LocalsType ==
  /\ 0 \in Stops /\ 0 \in Events
  /\ Whole \in StopRange
  /\ NoMessage \in [Stops -> StopTimeUpdate]
  /\ NoPred \in PredType
<1>1. 0 \in Stops /\ 0 \in Events
  BY RunAssumption, EventIndices DEF Stops
<1>2. Whole \in StopRange
  BY RunAssumption DEF Whole, StopRange, Stops
<1>3. NoMessage \in [Stops -> StopTimeUpdate]
  BY DEF NoMessage, StopTimeUpdate, Relationship, StopTimeEvent
<1>4. NoPred \in PredType
  BY DEF NoPred, PredType
<1> QED
  BY <1>1, <1>2, <1>3, <1>4

LEMMA TypeInit == Init => TypeOK
<1> SUFFICES ASSUME Init PROVE TypeOK
  OBVIOUS
<1>4. times \in [Events -> Int] /\ states \in [Events -> DataState]
  BY DEF Init, DataState
<1> QED
  BY <1>4, LocalsType DEF Init, TypeOK, Interval, PredType

LEMMA ForgetType ==
  ASSUME Forget
  PROVE  /\ range' \in StopRange /\ msg' \in [Stops -> StopTimeUpdate]
         /\ stop' \in Stops /\ event' \in Events /\ pred' \in PredType
         /\ no_data' \in BOOLEAN
BY LocalsType DEF Forget

LEMMA AddIfMissingType ==
  ASSUME TypeOK, AddIfMissing
  PROVE  DataTypeOK' /\ present' \in BOOLEAN
<1>1. CASE present
  BY <1>1 DEF AddIfMissing, TypeOK, DataTypeOK
<1>2. CASE ~present
  <2>1. times' \in [Events -> Int] /\ states' \in [Events -> DataState]
    BY <1>2, TimeAssumption DEF AddIfMissing, TypeOK, DataState
  <2>2. coverage' \in Interval
    BY <1>2, StaticSpanContains, HullType DEF AddIfMissing, TypeOK
  <2> QED
    BY <2>1, <2>2 DEF AddIfMissing, DataTypeOK
<1> QED
  BY <1>1, <1>2

LEMMA CancelType ==
  ASSUME TypeOK, cancel_run
  PROVE  cancelled' \in BOOLEAN /\ coverage' \in Interval
<1>1. Span(times) \in Interval
  BY EventIndices DEF Span, TypeOK, Interval
<1> QED
  BY <1>1, StaticSpanContains, HullType DEF cancel_run, TypeOK

\* The walk moves on within its stop range, or it ends.
LEMMA NextStopType ==
  ASSUME TypeOK, NextStop, phase \in {"arr", "dep"}, UNCHANGED range
  PROVE  /\ phase' \in {"arr", "raise"} /\ stop' \in Stops /\ event' \in Events
         /\ phase' = "arr" => range'.from <= stop' /\ stop' < range'.to
<1>1. /\ range \in StopRange /\ stop \in Stops /\ event \in Events
      /\ range.from <= stop /\ stop < range.to
  BY DEF TypeOK
<1>2. range.from \in Int /\ range.to \in Int /\ range.to <= NStops
  BY <1>1, RunAssumption DEF StopRange, Stops
<1>3. CASE stop + 1 = range.to
  BY <1>1, <1>3, LocalsType DEF NextStop
<1>4. CASE stop + 1 # range.to
  <2>1. phase' = "arr" /\ stop' = stop + 1 /\ event' = event
    BY <1>4 DEF NextStop
  <2>2. stop \in 0..NStops - 1
    BY <1>1 DEF Stops
  <2>3. stop + 1 \in 0..NStops - 1 /\ range.from <= stop + 1 /\ stop + 1 < range.to
    BY <1>1, <1>2, <1>4, <2>2, RunAssumption
  <2> QED
    BY <1>1, <2>1, <2>3 DEF Stops
<1> QED
  BY <1>3, <1>4

LEMMA TypeStep == TypeOK /\ [Next]_vars => TypeOK'
<1> SUFFICES ASSUME TypeOK, [Next]_vars PROVE TypeOK'
  OBVIOUS
<1>1. ASSUME NEW m \in Messages, NEW r \in Ranges, BeginUpdate(m, r)
      PROVE  TypeOK'
  <2>1. r \in StopRange /\ m \in [Stops -> StopTimeUpdate]
    BY RunAssumption
  <2>2. r.from \in Stops /\ r.from <= r.from /\ r.from < r.to
    BY <2>1 DEF StopRange, Stops
  <2>3. DataTypeOK' /\ present' \in BOOLEAN
    BY <1>1, AddIfMissingType DEF BeginUpdate
  <2>4. /\ cancelled' \in BOOLEAN /\ no_data' \in BOOLEAN /\ pred' \in PredType
        /\ range' = r /\ msg' = m /\ stop' = r.from /\ phase' = "arr"
        /\ UNCHANGED <<skipped, event>>
    BY <1>1, LocalsType DEF BeginUpdate
  <2> QED
    BY <2>1, <2>2, <2>3, <2>4 DEF TypeOK, DataTypeOK, PredType
<1>2. CASE RefuseTrack
  <2>1. NextStop /\ phase = "arr" /\ UNCHANGED <<data, range, msg, pred, no_data>>
    BY <1>2 DEF RefuseTrack
  <2> QED
    BY <2>1, NextStopType DEF TypeOK, data
<1>3. CASE VisitArrival
  <2>1. DataTypeOK' /\ pred' \in PredType /\ no_data' \in BOOLEAN
    BY <1>3, VisitArrivalWrites, WriteType, TypeSplit
  <2>2. skipped' \in SUBSET Stops
    BY <1>3 DEF VisitArrival, TypeOK
  <2>3. /\ phase = "arr" /\ phase' = "dep"
        /\ UNCHANGED <<present, cancelled, range, msg, stop, event>>
    BY <1>3 DEF VisitArrival
  <2> QED
    BY <2>1, <2>2, <2>3 DEF TypeOK, DataTypeOK, PredType
<1>4. CASE VisitDeparture
  <2>1. DataTypeOK' /\ pred' \in PredType /\ no_data' \in BOOLEAN
    BY <1>4, VisitDepartureWrites, WriteType, TypeSplit
  <2>2. /\ phase' \in {"arr", "raise"} /\ stop' \in Stops /\ event' \in Events
        /\ phase' = "arr" => range.from <= stop' /\ stop' < range.to
    BY <1>4, NextStopType DEF VisitDeparture
  <2>3. UNCHANGED <<present, cancelled, skipped, range, msg>>
    BY <1>4 DEF VisitDeparture
  <2> QED
    BY <2>1, <2>2, <2>3 DEF TypeOK, DataTypeOK, PredType
<1>5. CASE RaiseEvent
  <2> DEFINE pred_time == IF event = 0 THEN MinDelta ELSE times[event - 1]
  <2>1. pred_time \in Int
    <3>1. event # 0 => event - 1 \in Events
      BY EventIndices DEF TypeOK, Events
    <3> QED
      BY <3>1, TimeAssumption DEF TypeOK
  <2>2. times' \in [Events -> Int] /\ states' \in [Events -> DataState]
    BY <1>5, <2>1 DEF RaiseEvent, TypeOK, DataState
  <2>3. event' \in Events /\ phase' \in {"raise", "finish"}
    BY <1>5, EventIndices DEF RaiseEvent, RaiseNext, TypeOK
  <2> QED
    BY <1>5, <2>2, <2>3 DEF RaiseEvent, TypeOK
<1>6. CASE FinishUpdate
  <2>1. cancelled' \in BOOLEAN /\ coverage' \in Interval
    BY <1>6, CancelType DEF FinishUpdate, TypeOK
  <2> QED
    BY <1>6, <2>1, ForgetType DEF FinishUpdate, TypeOK, PredType
<1>7. CASE CancelRun
  BY <1>7, CancelType DEF CancelRun, TypeOK, walk
<1>8. CASE PositionElsewhere
  <2>1. DataTypeOK' /\ present' \in BOOLEAN
    BY <1>8, AddIfMissingType DEF PositionElsewhere
  <2> QED
    BY <1>8, <2>1 DEF PositionElsewhere, TypeOK, DataTypeOK, walk
<1>9. ASSUME NEW s \in Stops, NEW delay \in Delays, Position(s, delay)
      PROVE  TypeOK'
  <2>1. times' \in [Events -> Int]
    BY <1>9, StaticTimeType, RunAssumption DEF Position, TypeOK
  <2>2. states' \in [Events -> DataState]
    BY <1>9 DEF Position, TypeOK, PositionState, DataState
  <2>3. pred' \in PredType
    BY <1>9, RunAssumption DEF Position, Pred, PredType
  <2>4. coverage' \in Interval
    BY <1>9, PositionCoverage
  <2> QED
    BY <1>9, <2>1, <2>2, <2>3, <2>4 DEF Position, TypeOK, PredType
<1>10. CASE BackDone
  BY <1>10, ForgetType DEF BackDone, TypeOK, data, PredType
<1>11. CASE BackDeparture
  <2>1. DataTypeOK'
    BY <1>11, BackWrites, WriteType, TypeSplit
  <2>2. stop > 0 /\ stop - 1 \in Stops
    BY <1>11, RunAssumption DEF BackDeparture, TooLate, TypeOK, Stops
  <2>3. CASE phase' = "idle" /\ Forget
    BY <1>11, <2>1, <2>3, ForgetType DEF BackDeparture, TypeOK, DataTypeOK, PredType
  <2>4. CASE /\ stop - 1 # 0 /\ phase' = "back_arr" /\ stop' = stop - 1
             /\ UNCHANGED <<range, msg, event, pred, no_data>>
    BY <1>11, <2>1, <2>2, <2>4 DEF BackDeparture, TypeOK, DataTypeOK, Stops
  <2> QED
    BY <1>11, <2>3, <2>4 DEF BackDeparture
<1>12. CASE BackArrival
  <2>1. DataTypeOK'
    BY <1>12, BackWrites, WriteType, TypeSplit
  <2> QED
    BY <1>12, <2>1 DEF BackArrival, TypeOK, DataTypeOK, walk
<1>13. CASE UNCHANGED vars
  BY <1>13 DEF vars, data, walk, TypeOK
<1> QED
  BY <1>1, <1>2, <1>3, <1>4, <1>5, <1>6, <1>7, <1>8, <1>9, <1>10, <1>11, <1>12, <1>13
  DEF Next

\* Every variable keeps its type, whatever the messages and positions say.
THEOREM TypeCorrect == Spec => []TypeOK
BY TypeInit, TypeStep, PTL DEF Spec

-----------------------------------------------------------------------------
(***************************************************************************)
(* The times of a scheduled run: in the real-time interval, covered, and   *)
(* at the schedule where there is no real-time data.  The three hold after *)
(* every single write, and the coverage only grows.                        *)
(***************************************************************************)
EventInv(e) ==
  /\ contains(coverage, times[e])
  /\ InInterval(times[e])
  /\ states[e] = "kNoRtData" => times[e] = StaticTime[e]

DataInv ==
  /\ present => \A e \in Events : EventInv(e)
  /\ present \/ cancelled => \A e \in Events : contains(coverage, StaticTime[e])

CoverageGrows == \A u \in Int : contains(coverage, u) => contains(coverage', u)

LEMMA WriteKeepsData ==
  ASSUME TypeOK, DataInv, Write, UNCHANGED present, cancelled' => cancelled
  PROVE  DataInv'
<1>1. CASE UNCHANGED <<times, states, coverage>>
  BY <1>1 DEF DataInv, EventInv
<1>2. CASE ~ UNCHANGED <<times, states, coverage>>
  <2>1. PICK e \in Events, t \in Int, st \in DataState :
          /\ update_time(e, t, st)
          /\ st = "kNoRtData" => IsScheduled /\ t = StaticTime[e]
    BY <1>2 DEF Write
  <2>2. /\ InInterval(t)
        /\ times' = [times EXCEPT ![e] = t]
        /\ states' = [states EXCEPT ![e] = st]
        /\ coverage' = extend(coverage, t)
    BY <1>2, <2>1 DEF update_time
  <2>3. CoverageGrows /\ contains(coverage', t)
    BY <2>2, ExtendContains DEF TypeOK, CoverageGrows
  <2>4. ASSUME present, NEW f \in Events
        PROVE  EventInv(f)'
    <3>1. CASE f = e
      BY <2>1, <2>2, <2>3, <3>1 DEF EventInv, TypeOK
    <3>2. CASE f # e
      <4>1. times'[f] = times[f] /\ states'[f] = states[f] /\ times[f] \in Int
        BY <2>2, <3>2 DEF TypeOK
      <4> QED
        BY <2>3, <2>4, <4>1 DEF EventInv, DataInv, CoverageGrows
    <3> QED
      BY <3>1, <3>2
  <2> QED
    BY <2>3, <2>4, StaticTimeType DEF DataInv, CoverageGrows
<1> QED
  BY <1>1, <1>2

\* A new RT transport starts at the schedule and within the coverage.
LEMMA AddKeepsData ==
  ASSUME IsScheduled, TypeOK, DataInv, AddIfMissing
  PROVE  /\ \A e \in Events : EventInv(e)'
         /\ \A e \in Events : contains(coverage', StaticTime[e])
<1>1. CASE present
  BY <1>1 DEF AddIfMissing, DataInv, EventInv
<1>2. CASE ~present
  <2>1. times' = StaticTime /\ coverage' = hull(coverage, StaticSpan)
    BY <1>2 DEF AddIfMissing
  <2>2. \A e \in Events : contains(coverage', StaticTime[e])
    BY <2>1, StaticSpanContains, StaticTimeType, HullContains DEF TypeOK
  <2> QED
    BY <2>1, <2>2, TimeAssumption DEF EventInv
<1> QED
  BY <1>1, <1>2

LEMMA CancelKeepsData ==
  ASSUME IsScheduled, TypeOK, DataInv, cancel_run, UNCHANGED <<present, times, states>>
  PROVE  DataInv'
<1>1. Span(times) \in Interval /\ StaticSpan \in Interval
  BY EventIndices, StaticSpanContains DEF Span, TypeOK, Interval
<1> DEFINE covered == IF present THEN hull(coverage, Span(times)) ELSE coverage
<1>2. covered \in Interval /\ \A u \in Int : contains(coverage, u) => contains(covered, u)
  BY <1>1, HullType, HullContains DEF TypeOK
<1>3. coverage' = hull(covered, StaticSpan)
  BY DEF cancel_run
<1> HIDE DEF covered
<1>4. CoverageGrows
  BY <1>1, <1>2, <1>3, HullContains DEF CoverageGrows
<1>5. \A e \in Events : contains(coverage', StaticTime[e])
  BY <1>1, <1>2, <1>3, StaticSpanContains, StaticTimeType, HullContains
<1>6. \A e \in Events : times[e] \in Int
  BY DEF TypeOK
<1> QED
  BY <1>4, <1>5, <1>6 DEF DataInv, EventInv, CoverageGrows

LEMMA PositionKeepsData ==
  ASSUME IsScheduled, TypeOK, DataInv, NEW s \in Stops, NEW delay \in Delays,
         Position(s, delay)
  PROVE  DataInv'
<1> DEFINE written == {e \in Events : e >= FirstAffected(s)
                                      /\ InInterval(StaticTime[e] + delay)}
           covered == IF present THEN coverage ELSE hull(coverage, StaticSpan)
<1>1. CoverageGrows
  BY PositionCoverage DEF CoverageGrows
<1>2. /\ covered \in Interval
      /\ \A e \in Events : contains(covered, StaticTime[e])
  BY StaticSpanContains, StaticTimeType, HullType, HullContains DEF TypeOK, DataInv
<1>3. \/ written = {} /\ coverage' = covered
      \/ \E lo, hi \in written :
           /\ \A e \in written : StaticTime[lo] <= StaticTime[e]
                                 /\ StaticTime[e] <= StaticTime[hi]
           /\ coverage' = extend(extend(covered, StaticTime[lo] + delay),
                                 StaticTime[hi] + delay)
  BY DEF Position
<1>4. \A e \in Events : StaticTime[e] \in Int /\ StaticTime[e] + delay \in Int
  BY StaticTimeType, RunAssumption
<1> HIDE DEF covered
<1>5. /\ \A e \in Events : contains(coverage', StaticTime[e])
      /\ \A e \in written : contains(coverage', StaticTime[e] + delay)
  <2>1. CASE written = {} /\ coverage' = covered
    BY <2>1, <1>2
  <2>2. ASSUME NEW lo \in written, NEW hi \in written,
               \A e \in written : StaticTime[lo] <= StaticTime[e]
                                  /\ StaticTime[e] <= StaticTime[hi],
               coverage' = extend(extend(covered, StaticTime[lo] + delay),
                                  StaticTime[hi] + delay)
        PROVE  /\ \A e \in Events : contains(coverage', StaticTime[e])
               /\ \A e \in written : contains(coverage', StaticTime[e] + delay)
    <3>1. /\ coverage' \in Interval
          /\ \A u \in Int : contains(covered, u) => contains(coverage', u)
          /\ contains(coverage', StaticTime[lo] + delay)
          /\ contains(coverage', StaticTime[hi] + delay)
      <4> DEFINE low == StaticTime[lo] + delay
                 high == StaticTime[hi] + delay
      <4>1. low \in Int /\ high \in Int
        BY <1>4
      <4>2. coverage' = extend(extend(covered, low), high)
        BY <2>2
      <4> HIDE DEF low, high
      <4>3. /\ coverage' \in Interval
            /\ \A u \in Int : contains(covered, u) => contains(coverage', u)
            /\ contains(coverage', low) /\ contains(coverage', high)
        BY <1>2, <4>1, <4>2, ExtendContains
      <4> QED
        BY <4>3 DEF low, high
    <3>2. ASSUME NEW e \in written
          PROVE  contains(coverage', StaticTime[e] + delay)
      <4>1. /\ StaticTime[lo] \in Int /\ StaticTime[e] \in Int
            /\ StaticTime[hi] \in Int /\ delay \in Int
        BY StaticTimeType, RunAssumption
      <4>2. StaticTime[lo] <= StaticTime[e] /\ StaticTime[e] <= StaticTime[hi]
        BY <2>2
      <4> QED
        BY <3>1, <4>1, <4>2 DEF contains, Interval
    <3> QED
      BY <1>2, <1>4, <3>1, <3>2
  <2> QED
    BY <1>3, <2>1, <2>2
<1>6. ASSUME NEW e \in Events PROVE EventInv(e)'
  <2>1. CASE e \in written
    <3>1. /\ times'[e] = StaticTime[e] + delay
          /\ states'[e] = PositionState(e, s)
      BY <2>1 DEF Position
    <3> QED
      BY <2>1, <3>1, <1>5 DEF EventInv, PositionState
  <2>2. CASE e \notin written /\ present
    <3>1. times'[e] = times[e] /\ states'[e] = states[e] /\ times[e] \in Int
      BY <2>2 DEF Position, TypeOK
    <3> QED
      BY <2>2, <3>1, <1>1 DEF EventInv, DataInv, CoverageGrows
  <2>3. CASE e \notin written /\ ~present
    <3>1. times'[e] = StaticTime[e]
      BY <2>3 DEF Position
    <3> QED
      BY <3>1, <1>5, TimeAssumption DEF EventInv
  <2> QED
    BY <2>1, <2>2, <2>3
<1> QED
  BY <1>5, <1>6 DEF DataInv

LEMMA DataInit == Init => DataInv
BY DEF Init, DataInv

LEMMA DataStep ==
  ASSUME IsScheduled
  PROVE  TypeOK /\ DataInv /\ [Next]_vars => DataInv'
<1> SUFFICES ASSUME TypeOK, DataInv, [Next]_vars PROVE DataInv'
  OBVIOUS
<1>1. ASSUME NEW m \in Messages, NEW r \in Ranges, BeginUpdate(m, r)
      PROVE  DataInv'
  BY <1>1, AddKeepsData DEF BeginUpdate, DataInv
<1>2. CASE RefuseTrack
  BY <1>2 DEF RefuseTrack, data, DataInv, EventInv
<1>3. CASE VisitArrival
  BY <1>3, VisitArrivalWrites, WriteKeepsData DEF VisitArrival
<1>4. CASE VisitDeparture
  BY <1>4, VisitDepartureWrites, WriteKeepsData DEF VisitDeparture
<1>5. CASE RaiseEvent
  <2>1. CASE UNCHANGED <<times, states>>
    BY <1>5, <2>1 DEF RaiseEvent, DataInv, EventInv
  <2>2. CASE ~UNCHANGED <<times, states>>
    <3> DEFINE pred_time == IF event = 0 THEN MinDelta ELSE times[event - 1]
    <3>1. /\ times[event] < pred_time
          /\ times' = [times EXCEPT ![event] = pred_time]
          /\ states' = [states EXCEPT ![event] = "kInconsistent"]
          /\ UNCHANGED <<present, cancelled, coverage>>
      BY <1>5, <2>2 DEF RaiseEvent
    <3>2. CASE present
      <4>1. event # 0 /\ event \in Events
        BY <3>1, <3>2, TimeAssumption, EventIndices DEF DataInv, EventInv, InInterval, TypeOK
      <4>2. event - 1 \in Events
        BY <4>1, EventIndices DEF Events
      <4>3. EventInv(event - 1) /\ pred_time = times[event - 1]
        BY <3>2, <4>1, <4>2 DEF DataInv
      <4>4. ASSUME NEW e \in Events PROVE EventInv(e)'
        <5>1. CASE e = event
          BY <3>1, <4>3, <5>1 DEF EventInv, TypeOK
        <5>2. CASE e # event
          BY <3>1, <3>2, <5>2 DEF EventInv, TypeOK, DataInv
        <5> QED
          BY <5>1, <5>2
      <4> QED
        BY <3>1, <3>2, <4>4 DEF DataInv
    <3>3. CASE ~present
      BY <3>1, <3>3 DEF DataInv
    <3> QED
      BY <3>2, <3>3
  <2> QED
    BY <2>1, <2>2
<1>6. CASE FinishUpdate
  <2>1. CASE cancel_run
    BY <1>6, <2>1, CancelKeepsData DEF FinishUpdate
  <2>2. CASE UNCHANGED <<cancelled, coverage>>
    BY <1>6, <2>2 DEF FinishUpdate, DataInv, EventInv
  <2> QED
    BY <1>6, <2>1, <2>2 DEF FinishUpdate
<1>7. CASE CancelRun
  BY <1>7, CancelKeepsData DEF CancelRun
<1>8. CASE PositionElsewhere
  BY <1>8, AddKeepsData DEF PositionElsewhere, DataInv
<1>9. ASSUME NEW s \in Stops, NEW delay \in Delays, Position(s, delay)
      PROVE  DataInv'
  BY <1>9, PositionKeepsData
<1>10. CASE BackDone
  BY <1>10 DEF BackDone, data, DataInv, EventInv
<1>11. CASE BackDeparture
  BY <1>11, BackWrites, WriteKeepsData DEF BackDeparture
<1>12. CASE BackArrival
  BY <1>12, BackWrites, WriteKeepsData DEF BackArrival
<1>13. CASE UNCHANGED vars
  BY <1>13 DEF vars, data, DataInv, EventInv
<1> QED
  BY <1>1, <1>2, <1>3, <1>4, <1>5, <1>6, <1>7, <1>8, <1>9, <1>10, <1>11, <1>12, <1>13
  DEF Next

\* A run of the static timetable never has an event that the coverage lacks,
\* so a search that overlaps the event never skips the real-time timetable.
THEOREM ScheduledRunCovered ==
  ASSUME IsScheduled
  PROVE  Spec => []CoverageComplete
<1>1. DataInv => CoverageComplete
  BY DEF DataInv, EventInv, CoverageComplete
<1> QED
  BY <1>1, TypeInit, TypeStep, DataInit, DataStep, PTL DEF Spec

\* The planned times of a cancelled run are covered.
THEOREM CancelledRunCovered ==
  ASSUME IsScheduled
  PROVE  Spec => []CoverageOfCancelled
<1>1. DataInv => CoverageOfCancelled
  BY DEF DataInv, CoverageOfCancelled
<1> QED
  BY <1>1, TypeInit, TypeStep, DataInit, DataStep, PTL DEF Spec

\* The mark kNoRtData and the scheduled time go together.
THEOREM MarkedEventsAtSchedule ==
  ASSUME IsScheduled
  PROVE  Spec => []NoRtDataMeansScheduled
<1>1. DataInv => NoRtDataMeansScheduled
  BY DEF DataInv, EventInv, NoRtDataMeansScheduled
<1> QED
  BY <1>1, TypeInit, TypeStep, DataInit, DataStep, PTL DEF Spec

\* No update, propagation, position or raise stores a time that the 16 bit
\* integer cannot hold.
THEOREM TimesHeld ==
  ASSUME IsScheduled
  PROVE  Spec => []TimesInInterval
<1>1. DataInv => TimesInInterval
  BY DEF DataInv, EventInv, TimesInInterval
<1> QED
  BY <1>1, TypeInit, TypeStep, DataInit, DataStep, PTL DEF Spec

-----------------------------------------------------------------------------
(***************************************************************************)
(* The order of the events.  During the final pass the events before the   *)
(* current one are in order; while handle_vehicle_position walks back, all *)
(* events are in order except at the one place the vehicle's delay has     *)
(* been carried to, and from there on all events have this delay.          *)
(***************************************************************************)
InOrder(e) == times[e] <= times[e + 1]
HasDelay(e) == times[e] = StaticTime[e] + pred.delay

OrderedExcept(place) ==
  /\ IsScheduled /\ pred.delay \in Delays
  /\ \A e \in Events \ {Last} : e + 1 # place => InOrder(e)

OrderInv ==
  /\ present /\ phase \in {"idle", "finish"} => \A e \in Events \ {Last} : InOrder(e)
  /\ phase = "raise" => \A e \in Events : e + 1 < event => InOrder(e)
  /\ phase = "back" =>
       /\ OrderedExcept(arr(stop))
       /\ \A e \in Events : e >= FirstAffected(stop) => HasDelay(e)
  /\ phase = "back_arr" =>
       /\ OrderedExcept(dep(stop))
       /\ \A e \in Events : e >= dep(stop) => HasDelay(e)

\* A position's delay is smaller than the buffer kRtIntervalBuffer that
\* is_in_rt_interval keeps at both ends of the real-time interval.
DelaysFit == \A e \in Events, d \in Delays : InInterval(StaticTime[e] + d)

LEMMA OrderInit == Init => OrderInv
BY DEF Init, OrderInv

LEMMA StaticOrder ==
  \A e, f \in Events : /\ StaticTime[e] \in Int
                       /\ e <= f => StaticTime[e] <= StaticTime[f]
BY TimeAssumption

LEMMA RaiseKeepsOrder ==
  ASSUME TypeOK, OrderInv, RaiseEvent
  PROVE  OrderInv'
<1> DEFINE pred_time == IF event = 0 THEN MinDelta ELSE times[event - 1]
<1>1. phase = "raise" /\ event \in Events /\ times \in [Events -> Int]
  BY DEF RaiseEvent, TypeOK
<1>2. event # 0 => event - 1 \in Events
  BY <1>1, EventIndices DEF Events
<1>3. \A e \in Events : e # event => times'[e] = times[e]
  BY <1>1 DEF RaiseEvent
<1>4. times'[event] \in Int /\ (event # 0 => times[event - 1] <= times'[event])
  BY <1>1, <1>2, TimeAssumption DEF RaiseEvent
<1>5. \A e \in Events : e + 1 <= event => InOrder(e)'
  <2>1. ASSUME NEW e \in Events, e + 1 <= event PROVE InOrder(e)'
    <3>1. CASE e + 1 = event
      <4>1. e = event - 1 /\ event # 0 /\ e # event
        BY <3>1, <1>1 DEF Events
      <4>2. times'[e] = times[event - 1]
        BY <4>1, <1>3
      <4> QED
        BY <3>1, <4>1, <4>2, <1>4 DEF InOrder
    <3>2. CASE e + 1 < event
      <4>1. e # event /\ e + 1 # event /\ e + 1 \in Events
        BY <3>2, <1>1, EventIndices DEF Events
      <4>2. times'[e] = times[e] /\ times'[e + 1] = times[e + 1]
        BY <4>1, <1>3
      <4>3. InOrder(e)
        BY <3>2, <1>1 DEF OrderInv
      <4> QED
        BY <4>2, <4>3 DEF InOrder
    <3> QED
      BY <2>1, <3>1, <3>2, <1>1 DEF Events
  <2> QED
    BY <2>1
<1>6. CASE event = Last
  <2>1. phase' = "finish" /\ event' = event
    BY <1>6 DEF RaiseEvent, RaiseNext
  <2>2. \A e \in Events \ {Last} : e + 1 <= event
    BY <1>6, EventIndices DEF Events
  <2> QED
    BY <2>1, <2>2, <1>5 DEF OrderInv
<1>7. CASE event # Last
  <2>1. phase' = "raise" /\ event' = event + 1
    BY <1>7, <1>1 DEF RaiseEvent, RaiseNext
  <2>2. \A e \in Events : e + 1 < event' => e + 1 <= event
    BY <2>1, <1>1 DEF Events
  <2> QED
    BY <2>1, <2>2, <1>5 DEF OrderInv
<1> QED
  BY <1>6, <1>7

LEMMA PositionKeepsOrder ==
  ASSUME DelaysFit, TypeOK, OrderInv, NEW s \in Stops, NEW delay \in Delays,
         Position(s, delay)
  PROVE  OrderInv'
<1> DEFINE base == IF present THEN times ELSE StaticTime
<1>1. /\ phase = "idle" /\ IsScheduled /\ phase' = "back" /\ stop' = s
      /\ pred'.delay = delay
  BY DEF Position, Pred
<1>2. delay \in Int /\ base \in [Events -> Int]
  BY RunAssumption, TimeAssumption DEF TypeOK
<1>3. \A e \in Events : times'[e] = IF e >= FirstAffected(s)
                                      THEN StaticTime[e] + delay ELSE base[e]
  BY DEF Position, DelaysFit
<1>4. \A e \in Events \ {Last} : base[e] <= base[e + 1]
  <2>1. CASE present
    BY <2>1, <1>1 DEF OrderInv, InOrder
  <2>2. CASE ~present
    BY <2>2, StaticOrder, EventIndices DEF Events
  <2> QED
    BY <2>1, <2>2
<1>5. \A e \in Events : e >= FirstAffected(s) => HasDelay(e)'
  BY <1>1, <1>3 DEF HasDelay
<1>6. ASSUME NEW e \in Events \ {Last}, e + 1 # arr(s) PROVE InOrder(e)'
  <2>1. e + 1 \in Events /\ e \in Int /\ FirstAffected(s) \in Int
    BY EventIndices DEF Events, FirstAffected, dep, arr, Stops
  <2>2. CASE e >= FirstAffected(s)
    <3>1. e + 1 >= FirstAffected(s)
      BY <2>1, <2>2
    <3>2. StaticTime[e] \in Int /\ StaticTime[e + 1] \in Int /\ StaticTime[e] <= StaticTime[e + 1]
      BY <2>1, StaticOrder
    <3> HIDE DEF base
    <3>3. times'[e] = StaticTime[e] + delay /\ times'[e + 1] = StaticTime[e + 1] + delay
      BY <2>1, <2>2, <3>1, <1>3
    <3> QED
      BY <3>2, <3>3, <1>2 DEF InOrder
  <2>3. CASE ~(e >= FirstAffected(s))
    <3>1. ~(e + 1 >= FirstAffected(s))
      BY <1>6, <2>1, <2>3 DEF FirstAffected, dep, arr, Stops, Events
    <3> HIDE DEF base
    <3>2. times'[e] = base[e] /\ times'[e + 1] = base[e + 1]
      BY <2>1, <2>3, <3>1, <1>3
    <3> QED
      BY <3>2, <1>4 DEF InOrder
  <2> QED
    BY <2>2, <2>3
<1>7. OrderedExcept(arr(stop))'
  BY <1>1, <1>6 DEF OrderedExcept, arr, InOrder
<1> QED
  BY <1>1, <1>5, <1>7 DEF OrderInv, FirstAffected, dep, arr

LEMMA BackKeepsOrder ==
  ASSUME DelaysFit, TypeOK, OrderInv, BackDone \/ BackDeparture \/ BackArrival
  PROVE  OrderInv'
<1>0. /\ times \in [Events -> Int] /\ stop \in Stops /\ Stops \subseteq Int
  BY DEF TypeOK, Stops
<1>1. CASE BackDone
  <2>1. /\ phase = "back" /\ ~TooLate /\ phase' = "idle"
        /\ UNCHANGED times
    BY <1>1 DEF BackDone, data
  <2>2. ASSUME NEW e \in Events \ {Last} PROVE InOrder(e)
    <3>1. CASE e + 1 # arr(stop)
      BY <3>1, <2>1 DEF OrderInv, OrderedExcept
    <3>2. CASE e + 1 = arr(stop)
      <4>1. stop > 0 /\ e = dep(stop - 1) /\ e + 1 \in Events
        BY <3>2, <1>0, EventIndices DEF arr, dep, Events, Stops
      <4>2. times[e] \in Int /\ times[e + 1] \in Int
        BY <4>1, <1>0
      <4> QED
        BY <3>2, <4>1, <4>2, <2>1 DEF TooLate, InOrder
    <3> QED
      BY <3>1, <3>2
  <2> QED
    BY <2>1, <2>2 DEF OrderInv, InOrder
<1>2. CASE BackDeparture
  <2> DEFINE d == dep(stop - 1)
  <2>1. /\ phase = "back" /\ stop > 0 /\ stop - 1 \in Stops
        /\ update_time(d, Delayed(d), "kInconsistent")
    BY <1>2, <1>0, RunAssumption DEF BackDeparture, TooLate, Stops
  <2>2. d \in Events /\ d # Last /\ d + 1 = arr(stop) /\ d + 1 \in Events /\ d \in Int
    BY <2>1, <1>0, EventIndices, RunAssumption DEF dep, arr, Stops, Events, Last
  <2>3. /\ OrderedExcept(arr(stop)) /\ pred.delay \in Delays /\ pred.delay \in Int
        /\ \A e \in Events : e >= arr(stop) => HasDelay(e)
    <3>1. FirstAffected(stop) = arr(stop)
      BY <2>1, <1>0 DEF FirstAffected
    <3>2. /\ OrderedExcept(arr(stop))
          /\ \A e \in Events : e >= arr(stop) => HasDelay(e)
      BY <2>1, <3>1 DEF OrderInv
    <3> QED
      BY <3>2, RunAssumption DEF OrderedExcept
  <2> HIDE DEF d
  <2>4. times' = [times EXCEPT ![d] = Delayed(d)]
    BY <2>1, <2>2, <2>3 DEF update_time, Delayed, DelaysFit
  <2>5. \A e \in Events : e >= d => times'[e] = StaticTime[e] + pred.delay
    <3>1. ASSUME NEW e \in Events, e >= d PROVE times'[e] = StaticTime[e] + pred.delay
      <4>1. CASE e = d
        BY <2>2, <2>4, <4>1, <1>0 DEF Delayed
      <4>2. CASE e # d
        <5>1. e >= arr(stop) /\ times'[e] = times[e]
          BY <2>2, <2>4, <3>1, <4>2, <1>0 DEF Events
        <5> QED
          BY <5>1, <2>3 DEF HasDelay
      <4> QED
        BY <4>1, <4>2
    <3> QED
      BY <3>1
  <2>6. ASSUME NEW e \in Events \ {Last}, e + 1 # d PROVE InOrder(e)'
    <3>1. e + 1 \in Events /\ e \in Int
      BY EventIndices DEF Events
    <3>2. CASE e = d
      <4>1. /\ times'[d] = StaticTime[d] + pred.delay
            /\ times'[d + 1] = StaticTime[d + 1] + pred.delay
        BY <2>2, <2>5
      <4>2. /\ StaticTime[d] \in Int /\ StaticTime[d + 1] \in Int
            /\ StaticTime[d] <= StaticTime[d + 1]
        BY <2>2, StaticOrder
      <4> QED
        BY <3>2, <4>1, <4>2, <2>3 DEF InOrder
    <3>3. CASE e # d
      <4>1. times'[e] = times[e] /\ times'[e + 1] = times[e + 1]
        BY <2>6, <3>1, <3>3, <2>4, <1>0
      <4>2. e + 1 # arr(stop)
        BY <3>1, <3>3, <2>2
      <4> QED
        BY <4>1, <4>2, <2>3 DEF InOrder, OrderedExcept
    <3> QED
      BY <3>2, <3>3
  <2>7. CASE /\ stop - 1 # 0 /\ times'[d] < times'[arr(stop - 1)]
             /\ phase' = "back_arr" /\ stop' = stop - 1 /\ UNCHANGED pred
    <3>1. d = dep(stop')
      BY <2>7 DEF d
    <3>2. OrderedExcept(dep(stop))'
      BY <2>3, <2>6, <2>7, <3>1 DEF OrderedExcept, InOrder, dep
    <3> QED
      BY <2>5, <2>7, <3>1, <3>2 DEF OrderInv, HasDelay, dep
  <2>8. CASE /\ ~(stop - 1 # 0 /\ times'[d] < times'[arr(stop - 1)])
             /\ phase' = "idle"
    <3>1. ASSUME NEW e \in Events \ {Last}, e + 1 = d PROVE InOrder(e)'
      <4>1. stop - 1 # 0 /\ e = arr(stop - 1)
        BY <3>1, <2>1, <1>0 DEF d, dep, arr, Events
      <4>2. e \in Events /\ e # d /\ e \in Int
        BY <3>1 DEF Events
      <4>3. times'[e] \in Int /\ times'[d] \in Int
        BY <4>2, <2>2, <2>3, <2>4, <1>0, StaticOrder DEF Delayed
      <4> QED
        BY <3>1, <4>1, <4>3, <2>8 DEF InOrder
    <3> QED
      BY <3>1, <2>6, <2>8 DEF OrderInv, InOrder
  <2> QED
    BY <1>2, <2>7, <2>8 DEF BackDeparture, d
<1>3. CASE BackArrival
  <2> DEFINE a == arr(stop)
  <2>1. /\ phase = "back_arr" /\ stop > 0 /\ phase' = "back"
        /\ update_time(a, Delayed(a), "kInconsistent") /\ UNCHANGED <<stop, pred>>
    BY <1>3 DEF BackArrival, TypeOK, walk
  <2>2. a \in Events /\ a \in Int /\ a + 1 = dep(stop)
    BY <2>1, <1>0, EventIndices DEF dep, arr
  <2>3. /\ OrderedExcept(dep(stop)) /\ pred.delay \in Delays /\ pred.delay \in Int
        /\ \A e \in Events : e >= dep(stop) => HasDelay(e)
    BY <2>1, RunAssumption DEF OrderInv, OrderedExcept
  <2> HIDE DEF a
  <2>4. times' = [times EXCEPT ![a] = Delayed(a)]
    BY <2>1, <2>2, <2>3 DEF update_time, Delayed, DelaysFit
  <2>5. \A e \in Events : e >= a => times'[e] = StaticTime[e] + pred.delay
    <3>1. ASSUME NEW e \in Events, e >= a PROVE times'[e] = StaticTime[e] + pred.delay
      <4>1. CASE e = a
        BY <2>2, <2>4, <4>1, <1>0 DEF Delayed
      <4>2. CASE e # a
        <5>1. e >= dep(stop) /\ times'[e] = times[e]
          BY <2>2, <2>4, <3>1, <4>2, <1>0 DEF Events
        <5> QED
          BY <5>1, <2>3 DEF HasDelay
      <4> QED
        BY <4>1, <4>2
    <3> QED
      BY <3>1
  <2>6. ASSUME NEW e \in Events \ {Last}, e + 1 # a PROVE InOrder(e)'
    <3>1. e + 1 \in Events /\ e \in Int
      BY EventIndices DEF Events
    <3>2. CASE e = a
      <4>1. /\ times'[e] = StaticTime[e] + pred.delay
            /\ times'[e + 1] = StaticTime[e + 1] + pred.delay
        BY <2>2, <2>5, <3>1, <3>2
      <4>2. /\ StaticTime[e] \in Int /\ StaticTime[e + 1] \in Int
            /\ StaticTime[e] <= StaticTime[e + 1]
        BY <3>1, StaticOrder
      <4> QED
        BY <4>1, <4>2, <2>3 DEF InOrder
    <3>3. CASE e # a
      <4>1. times'[e] = times[e] /\ times'[e + 1] = times[e + 1]
        BY <2>6, <3>1, <3>3, <2>4, <1>0
      <4>2. e + 1 # dep(stop)
        BY <3>1, <3>3, <2>2
      <4> QED
        BY <4>1, <4>2, <2>3 DEF InOrder, OrderedExcept
    <3> QED
      BY <3>2, <3>3
  <2>7. OrderedExcept(arr(stop))'
    BY <2>1, <2>3, <2>6 DEF OrderedExcept, InOrder, a, arr
  <2>8. FirstAffected(stop) = a
    BY <2>1 DEF FirstAffected, a
  <2> QED
    BY <2>1, <2>5, <2>7, <2>8 DEF OrderInv, HasDelay, FirstAffected, arr, dep
<1> QED
  BY <1>1, <1>2, <1>3

LEMMA OrderStep ==
  ASSUME DelaysFit
  PROVE  TypeOK /\ OrderInv /\ [Next]_vars => OrderInv'
<1> SUFFICES ASSUME TypeOK, OrderInv, [Next]_vars PROVE OrderInv'
  OBVIOUS
<1>1. ASSUME NEW m \in Messages, NEW r \in Ranges, BeginUpdate(m, r)
      PROVE  OrderInv'
  BY <1>1 DEF BeginUpdate, OrderInv
<1>2. ASSUME NextStop, phase \in {"arr", "dep"}
      PROVE  OrderInv'
  <2>1. \/ phase' = "arr"
        \/ phase' = "raise" /\ event' = 0
    BY <1>2 DEF NextStop
  <2>2. \A e \in Events : ~(e + 1 < 0)
    BY DEF Events
  <2> QED
    BY <2>1, <2>2 DEF OrderInv
<1>3. CASE RefuseTrack
  BY <1>2, <1>3 DEF RefuseTrack
<1>4. CASE VisitArrival
  BY <1>4 DEF VisitArrival, OrderInv
<1>5. CASE VisitDeparture
  BY <1>2, <1>5 DEF VisitDeparture
<1>6. CASE RaiseEvent
  BY <1>6, RaiseKeepsOrder
<1>7. CASE FinishUpdate
  BY <1>7 DEF FinishUpdate, OrderInv, InOrder
<1>8. CASE CancelRun
  BY <1>8 DEF CancelRun, OrderInv, InOrder, OrderedExcept, HasDelay
<1>9. CASE PositionElsewhere
  <2>1. phase = "idle" /\ phase' = "idle" /\ IsScheduled /\ AddIfMissing
    BY <1>9 DEF PositionElsewhere
  <2>2. CASE present
    BY <2>1, <2>2 DEF AddIfMissing, OrderInv, InOrder
  <2>3. CASE ~present
    <3>1. times' = StaticTime
      BY <2>1, <2>3 DEF AddIfMissing
    <3> QED
      BY <2>1, <3>1, StaticOrder, EventIndices DEF OrderInv, InOrder, Events
  <2> QED
    BY <2>2, <2>3
<1>10. ASSUME NEW s \in Stops, NEW delay \in Delays, Position(s, delay)
       PROVE  OrderInv'
  BY <1>10, PositionKeepsOrder
<1>11. CASE BackDone \/ BackDeparture \/ BackArrival
  BY <1>11, BackKeepsOrder
<1>12. CASE UNCHANGED vars
  BY <1>12 DEF vars, data, walk, OrderInv, InOrder, OrderedExcept, HasDelay
<1> QED
  BY <1>1, <1>3, <1>4, <1>5, <1>6, <1>7, <1>8, <1>9, <1>10, <1>11, <1>12 DEF Next

\* Whatever the feed says, the events of a run are in order after every update
\* and every position, if positions stay within the buffer.
THEOREM EventsInOrder ==
  ASSUME DelaysFit
  PROVE  Spec => []Monotone
<1>1. OrderInv => Monotone
  BY DEF OrderInv, InOrder, Monotone
<1> QED
  BY <1>1, TypeInit, TypeStep, OrderInit, OrderStep, PTL DEF Spec

-----------------------------------------------------------------------------
(***************************************************************************)
(* A complete message decides.  While the walk is on, every event it has   *)
(* visited is at the latest time reported up to it, and pred carries the   *)
(* time of the last one; then the events are in order already and the      *)
(* final pass finds nothing to raise.                                      *)
(***************************************************************************)
AtLatestReport(e) ==
  /\ InInterval(times[e])
  /\ \A f \in 0..e : Reported(f) <= times[e]
  /\ \E f \in 0..e : Reported(f) = times[e]

\* The last event the walk has visited, -1 before the first one.
LastVisited == IF phase = "arr" THEN dep(stop) - 2
               ELSE IF phase = "dep" THEN dep(stop) - 1 ELSE Last

DecidedInv ==
  phase \in {"arr", "dep", "raise", "finish"} /\ IsScheduled /\ IsComplete =>
    /\ \A e \in Events : e <= LastVisited => AtLatestReport(e)
    /\ phase \in {"arr", "dep"} /\ stop > 0 =>
         pred.valid /\ pred.time = times[LastVisited]
    /\ phase \in {"arr", "dep"} /\ stop = 0 => ~pred.valid

\* The event of a message that is about an event of the run.
EventOf(e) ==
  IF e % 2 = 0 THEN msg[e \div 2].departure ELSE msg[(e + 1) \div 2].arrival

LEMMA EventOfStop ==
  ASSUME NEW s \in Stops
  PROVE  /\ EventOf(dep(s)) = msg[s].departure
         /\ EventOf(arr(s)) = msg[s].arrival
<1>1. s \in Nat
  BY RunAssumption DEF Stops
<1>2. dep(s) % 2 = 0 /\ dep(s) \div 2 = s
  BY <1>1 DEF dep
<1>3. arr(s) % 2 # 0 /\ (arr(s) + 1) \div 2 = s
  BY <1>1 DEF arr
<1> QED
  BY <1>2, <1>3 DEF EventOf

LEMMA EventStop ==
  ASSUME NEW e \in Events
  PROVE  \/ \E s \in Stops : e = dep(s) /\ s + 1 < NStops
         \/ \E s \in Stops : e = arr(s) /\ s > 0
<1>1. e \in Nat /\ e <= 2 * NStops - 3 /\ NStops \in Nat
  BY RunAssumption DEF Events, Last
<1>2. CASE e % 2 = 0
  <2>1. e = dep(e \div 2) /\ e \div 2 \in Stops /\ (e \div 2) + 1 < NStops
    BY <1>1, <1>2 DEF dep, Stops
  <2> QED
    BY <2>1
<1>3. CASE e % 2 # 0
  <2>1. e = arr((e + 1) \div 2) /\ (e + 1) \div 2 \in Stops /\ (e + 1) \div 2 > 0
    BY <1>1, <1>3 DEF arr, Stops
  <2> QED
    BY <2>1
<1> QED
  BY <1>2, <1>3

\* What a complete message reports for an event is a time of the interval.
LEMMA ReportedType ==
  ASSUME TypeOK, IsComplete, NEW e \in Events
  PROVE  /\ Reported(e) \in Int /\ InInterval(Reported(e))
         /\ EventOf(e) \in StopTimeEvent /\ EventOf(e) # NoEvent
         /\ Reported(e) = IF EventOf(e).kind = "delay"
                            THEN StaticTime[e] + EventOf(e).value
                            ELSE EventOf(e).value
<1>1. \A s \in Stops : /\ msg[s].departure \in StopTimeEvent
                       /\ msg[s].arrival \in StopTimeEvent
  BY DEF TypeOK, StopTimeUpdate
<1>2. EventOf(e) \in StopTimeEvent /\ EventOf(e) # NoEvent
  <2>1. CASE \E s \in Stops : e = dep(s) /\ s + 1 < NStops
    <3>1. PICK s \in Stops : e = dep(s) /\ s + 1 < NStops
      BY <2>1
    <3>2. EventOf(e) = msg[s].departure
      BY <3>1, EventOfStop
    <3>3. s # NStops - 1
      BY <3>1, RunAssumption DEF Stops
    <3> QED
      BY <1>1, <3>2, <3>3 DEF IsComplete
  <2>2. CASE \E s \in Stops : e = arr(s) /\ s > 0
    <3>1. PICK s \in Stops : e = arr(s) /\ s > 0
      BY <2>2
    <3>2. EventOf(e) = msg[s].arrival
      BY <3>1, EventOfStop
    <3> QED
      BY <1>1, <3>1, <3>2 DEF IsComplete
  <2> QED
    BY <2>1, <2>2, EventStop
<1>3. EventOf(e).value \in Int /\ StaticTime[e] \in Int
  BY <1>2, StaticTimeType DEF StopTimeEvent, NoEvent
<1>4. Reported(e) = IF EventOf(e).kind = "delay"
                      THEN StaticTime[e] + EventOf(e).value
                      ELSE EventOf(e).value
  BY DEF Reported, EventOf
<1> QED
  BY <1>2, <1>3, <1>4 DEF IsComplete

\* The walk reaches an event the message has: it gets the later of the time
\* reported for it and the bound, which the last visited event gives.
LEMMA VisitReported ==
  ASSUME TypeOK, IsScheduled, IsComplete, NEW e \in Events, NEW ev, ev = EventOf(e),
         NEW lower \in Int,
         lower < Reported(e) \/ InInterval(lower),
         update_event(e, ev, lower)
  PROVE  /\ times' = [times EXCEPT ![e] = Larger(lower, Reported(e))]
         /\ pred'.valid /\ pred'.time = times'[e]
<1>1. /\ Reported(e) \in Int /\ InInterval(Reported(e))
      /\ ev \in StopTimeEvent /\ ev # NoEvent
      /\ Reported(e) = IF ev.kind = "delay" THEN StaticTime[e] + ev.value
                                            ELSE ev.value
  BY ReportedType
<1>2. InInterval(Larger(lower, Reported(e)))
  BY <1>1 DEF Larger
<1>3. \E st : BoundedUpdate(e, Reported(e), lower, st)
  <2>1. ev.kind = "delay" \/ ev.kind = "time"
    BY <1>1 DEF StopTimeEvent
  <2> QED
    BY <1>1, <2>1 DEF update_event, update_delay
<1>4. times' = [times EXCEPT ![e] = Larger(lower, Reported(e))]
  BY <1>2, <1>3 DEF BoundedUpdate, update_time
<1>5. \E d : pred' = Pred(times'[e], d)
  BY DEF update_event, update_delay
<1> QED
  BY <1>4, <1>5 DEF Pred

\* The next event of the walk is at the latest report too.
LEMMA NextVisited ==
  ASSUME TypeOK, IsScheduled, IsComplete, NEW e \in Events,
         UNCHANGED <<msg, range>>,
         NEW lower \in Int,
         IF e = 0 THEN lower = Epoch ELSE lower = times[e - 1],
         \A d \in Events : d < e => AtLatestReport(d),
         times' = [times EXCEPT ![e] = Larger(lower, Reported(e))]
  PROVE  \A d \in Events : d <= e => AtLatestReport(d)'
<1>1. /\ e \in Nat /\ times \in [Events -> Int] /\ Events \subseteq Nat
      /\ Reported(e) \in Int /\ InInterval(Reported(e))
  BY ReportedType DEF TypeOK, Events
<1>2. \A f : Reported(f)' = Reported(f)
  BY DEF Reported
<1>3. ASSUME NEW d \in Events, d < e PROVE AtLatestReport(d)'
  <2>1. times'[d] = times[d]
    BY <1>1, <1>3
  <2> QED
    BY <1>2, <1>3, <2>1 DEF AtLatestReport, InInterval
<1>4. times'[e] = Larger(lower, Reported(e))
  BY <1>1
<1>5. CASE e = 0
  <2>1. lower < Reported(e)
    BY <1>1, <1>5, TimeAssumption DEF InInterval
  <2>2. times'[e] = Reported(e)
    BY <1>1, <1>4, <2>1 DEF Larger
  <2>3. 0..e = {e}
    BY <1>5
  <2> QED
    BY <1>1, <1>2, <1>3, <1>5, <2>2, <2>3 DEF AtLatestReport, InInterval
<1>6. CASE e # 0
  <2>1. /\ e - 1 \in Events /\ e - 1 < e /\ AtLatestReport(e - 1)
        /\ lower = times[e - 1]
    <3>1. e - 1 \in Events
      BY <1>6, EventIndices DEF Events
    <3> QED
      BY <1>1, <1>6, <3>1
  <2>2. /\ 0..e = (0..(e - 1)) \cup {e}
        /\ 0..(e - 1) \subseteq Events
    BY <1>1, <1>6, EventIndices DEF Events
  <2>3. \A f \in 0..(e - 1) : Reported(f) \in Int /\ Reported(f) <= lower
    BY <2>1, <2>2, ReportedType DEF AtLatestReport
  <2>4. PICK f \in 0..(e - 1) : Reported(f) = lower
    BY <2>1 DEF AtLatestReport
  <2>5. /\ InInterval(times'[e])
        /\ \A g \in 0..e : Reported(g) <= times'[e]
    BY <1>1, <1>4, <2>1, <2>2, <2>3 DEF Larger, AtLatestReport, InInterval
  <2>6. \E g \in 0..e : Reported(g) = times'[e]
    BY <1>1, <1>4, <2>2, <2>4 DEF Larger
  <2>7. AtLatestReport(e)'
    BY <1>2, <2>5, <2>6 DEF AtLatestReport, InInterval
  <2>8. \A d \in Events : d <= e => d < e \/ d = e
    BY <1>1 DEF Events
  <2> QED
    BY <1>3, <2>7, <2>8
<1> QED
  BY <1>5, <1>6

LEMMA ArrivalDecides ==
  ASSUME TypeOK, DecidedInv, VisitArrival
  PROVE  DecidedInv'
<1> SUFFICES ASSUME IsScheduled, IsComplete
             PROVE  /\ \A e \in Events : e <= LastVisited' => AtLatestReport(e)'
                    /\ stop > 0 => pred'.valid /\ pred'.time = times'[LastVisited']
                    /\ stop = 0 => ~pred'.valid
  BY DEF DecidedInv, VisitArrival, IsComplete, Reported
<1>1. /\ phase = "arr" /\ phase' = "dep" /\ UNCHANGED <<msg, range, stop>>
      /\ stop \in Stops /\ stop \in Nat /\ range = Whole /\ range.from = 0
  BY RunAssumption DEF VisitArrival, TypeOK, IsComplete, Whole, Stops
<1>2. msg[stop].rel \in {"scheduled", "skipped", "track"}
  BY <1>1 DEF IsComplete
<1>3. LastVisited = dep(stop) - 2 /\ LastVisited' = dep(stop) - 1 /\ dep(stop) = 2 * stop
  BY <1>1 DEF LastVisited, dep
<1>4. CASE stop = 0
  <2>1. LeaveEvent(pred, no_data \/ msg[stop].rel = "no_data")
    BY <1>1, <1>2, <1>4 DEF VisitArrival
  <2>2. ~pred.valid
    BY <1>1, <1>4 DEF DecidedInv
  <2>3. \A e \in Events : ~(e <= LastVisited')
    BY <1>3, <1>4 DEF Events
  <2> QED
    BY <1>4, <2>1, <2>2, <2>3 DEF LeaveEvent
<1>5. CASE stop # 0
  <2> DEFINE e == arr(stop)
  <2>1. e \in Events /\ e = dep(stop) - 1 /\ e - 1 = LastVisited /\ e # 0 /\ e \in Nat
    BY <1>1, <1>3, <1>5, EventIndices DEF arr, Stops
  <2>2. pred.valid /\ pred.time = times[e - 1] /\ e - 1 \in Events
    <3> HIDE DEF e
    <3>0. Last \in Int /\ e \in Events /\ e \in Nat /\ e # 0
      BY <2>1, EventIndices
    <3>1. e - 1 \in Events
      BY <3>0 DEF Events
    <3>2. pred.valid /\ pred.time = times[LastVisited]
      BY <1>1, <1>5 DEF DecidedInv
    <3> QED
      BY <2>1, <3>1, <3>2
  <2>3. Given(msg[stop].arrival) = EventOf(e) /\ EventOf(e) # NoEvent
    BY <1>1, <1>2, <2>1, EventOfStop, ReportedType DEF Given, HasData
  <2>4. update_event(e, EventOf(e), times[e - 1])
    BY <1>1, <1>2, <1>5, <2>2, <2>3 DEF VisitArrival, VisitEvent
  <2>5. \A d \in Events : d < e => AtLatestReport(d)
    BY <1>1, <2>1 DEF DecidedInv, Events
  <2> HIDE DEF e
  <2>6. times[e - 1] \in Int /\ InInterval(times[e - 1])
    BY <2>1, <2>2, <2>5 DEF AtLatestReport, TypeOK
  <2>7. /\ times' = [times EXCEPT ![e] = Larger(times[e - 1], Reported(e))]
        /\ pred'.valid /\ pred'.time = times'[e]
    BY <2>1, <2>4, <2>6, VisitReported
  <2>8. \A d \in Events : d <= e => AtLatestReport(d)'
    BY <1>1, <2>1, <2>5, <2>6, <2>7, NextVisited
  <2> QED
    BY <1>3, <1>5, <2>1, <2>7, <2>8
<1> QED
  BY <1>4, <1>5

LEMMA DepartureDecides ==
  ASSUME TypeOK, DecidedInv, VisitDeparture
  PROVE  DecidedInv'
<1> SUFFICES ASSUME IsScheduled, IsComplete
             PROVE  /\ \A e \in Events : e <= LastVisited' => AtLatestReport(e)'
                    /\ phase' = "arr" => /\ stop' > 0 /\ pred'.valid
                                         /\ pred'.time = times'[LastVisited']
  <2>1. phase' \in {"arr", "raise"}
    BY DEF VisitDeparture, NextStop
  <2>2. IsComplete' = IsComplete
    BY DEF IsComplete, Reported, VisitDeparture
  <2> QED
    BY <2>1, <2>2 DEF DecidedInv
<1>1. /\ phase = "dep" /\ UNCHANGED <<msg, range>> /\ NextStop
      /\ stop \in Stops /\ stop \in Nat /\ range = Whole /\ range.to = NStops
  BY RunAssumption DEF VisitDeparture, TypeOK, IsComplete, Whole, Stops
<1>2. LastVisited = dep(stop) - 1 /\ dep(stop) = 2 * stop
  BY <1>1 DEF LastVisited, dep
<1>3. CASE stop + 1 = NStops
  <2>1. phase' = "raise" /\ LastVisited' = Last /\ LastVisited = Last
    BY <1>1, <1>2, <1>3 DEF NextStop, LastVisited, Last
  <2>2. ~(stop = 0) /\ LeaveEvent(pred, no_data)
    BY <1>1, <1>3, RunAssumption DEF VisitDeparture
  <2> QED
    BY <1>1, <2>1, <2>2 DEF LeaveEvent, DecidedInv, AtLatestReport, Reported
<1>4. CASE stop + 1 # NStops
  <2> DEFINE e == dep(stop)
             lower == IF stop = 0 THEN Epoch ELSE times[e - 1]
  <2>1. /\ phase' = "arr" /\ stop' = stop + 1 /\ stop' > 0
        /\ LastVisited' = e /\ e = LastVisited + 1
    BY <1>1, <1>2, <1>4 DEF NextStop, LastVisited, dep
  <2>2. e \in Events /\ e \in Nat /\ (stop = 0 <=> e = 0) /\ arr(stop) = e - 1
    <3>1. stop + 1 < NStops
      BY <1>1, <1>4, RunAssumption DEF Stops
    <3>2. e \in Events
      BY <1>1, <3>1, EventIndices
    <3> QED
      BY <1>1, <1>2, <3>2 DEF arr
  <2>3. stop # 0 => pred.valid /\ pred.time = times[e - 1] /\ e - 1 \in Events
    <3>1. stop # 0 => e - 1 \in Events
      BY <2>2, EventIndices DEF Events
    <3>2. stop # 0 => pred.valid /\ pred.time = times[LastVisited]
      BY <1>1 DEF DecidedInv
    <3> QED
      BY <1>2, <3>1, <3>2
  <2>4. stop = 0 => ~pred.valid
    BY <1>1 DEF DecidedInv
  <2>5. /\ msg[stop].rel \in {"scheduled", "skipped", "track"}
        /\ Given(msg[stop].departure) = EventOf(e) /\ EventOf(e) # NoEvent
    BY <1>1, <2>2, EventOfStop, ReportedType DEF IsComplete, Given, HasData
  <2>6. update_event(e, EventOf(e), lower)
    <3>1. VisitEvent(e, Given(msg[stop].departure),
                     IF stop = 0 THEN Epoch ELSE times[arr(stop)], pred, no_data)
      BY <1>1, <1>4, <2>5 DEF VisitDeparture
    <3> QED
      BY <2>2, <2>3, <2>4, <2>5, <3>1 DEF VisitEvent
  <2>7. \A d \in Events : d < e => AtLatestReport(d)
    BY <1>1, <2>1, <2>2 DEF DecidedInv, Events, LastVisited, dep
  <2> HIDE DEF e
  <2>8. lower \in Int /\ (lower < Reported(e) \/ InInterval(lower))
    <3>1. CASE stop = 0
      BY <2>2, <3>1, ReportedType, TimeAssumption DEF InInterval
    <3>2. CASE stop # 0
      BY <2>2, <2>3, <2>7, <3>2 DEF AtLatestReport, TypeOK
    <3> QED
      BY <3>1, <3>2
  <2>9. IF e = 0 THEN lower = Epoch ELSE lower = times[e - 1]
    BY <2>2
  <2> HIDE DEF lower
  <2>10. /\ times' = [times EXCEPT ![e] = Larger(lower, Reported(e))]
         /\ pred'.valid /\ pred'.time = times'[e]
    BY <2>2, <2>6, <2>8, VisitReported
  <2>11. \A d \in Events : d <= e => AtLatestReport(d)'
    BY <1>1, <2>2, <2>7, <2>8, <2>9, <2>10, NextVisited
  <2> QED
    BY <2>1, <2>10, <2>11
<1> QED
  BY <1>3, <1>4

LEMMA DecidedStep == TypeOK /\ DecidedInv /\ [Next]_vars => DecidedInv'
<1> SUFFICES ASSUME TypeOK, DecidedInv, [Next]_vars PROVE DecidedInv'
  OBVIOUS
<1>1. ASSUME NEW m \in Messages, NEW r \in Ranges, BeginUpdate(m, r)
      PROVE  DecidedInv'
  <2>1. /\ phase' = "arr" /\ stop' = r.from /\ range' = r /\ pred' = NoPred
    BY <1>1 DEF BeginUpdate
  <2>2. IsComplete' => stop' = 0
    BY <2>1 DEF IsComplete, Whole
  <2>3. stop' = 0 => \A e \in Events : ~(e <= LastVisited')
    BY <2>1 DEF LastVisited, dep, Events
  <2> QED
    BY <2>1, <2>2, <2>3 DEF DecidedInv, NoPred
<1>2. CASE RefuseTrack
  <2>1. msg[stop].rel = "bad_track" /\ stop \in Stops /\ msg' = msg /\ range' = range
    BY <1>2 DEF RefuseTrack, TypeOK
  <2>2. ~IsComplete'
    BY <2>1 DEF IsComplete
  <2> QED
    BY <2>2 DEF DecidedInv
<1>3. CASE VisitArrival
  BY <1>3, ArrivalDecides
<1>4. CASE VisitDeparture
  BY <1>4, DepartureDecides
<1>5. CASE RaiseEvent
  <2> SUFFICES ASSUME IsScheduled, IsComplete
               PROVE  \A e \in Events : AtLatestReport(e)'
    <3>1. phase' \in {"raise", "finish"} /\ IsComplete' = IsComplete
      BY <1>5 DEF RaiseEvent, RaiseNext, IsComplete, Reported
    <3> QED
      BY <3>1 DEF DecidedInv
  <2>1. /\ phase = "raise" /\ event \in Events /\ event \in Nat
        /\ times \in [Events -> Int] /\ UNCHANGED msg
    BY <1>5 DEF RaiseEvent, TypeOK, Events
  <2>2. \A e \in Events : AtLatestReport(e)
    BY <2>1 DEF DecidedInv, LastVisited, Events
  <2>3. ~(times[event] < IF event = 0 THEN MinDelta ELSE times[event - 1])
    <3>1. CASE event = 0
      BY <2>1, <2>2, <3>1, TimeAssumption DEF AtLatestReport, InInterval
    <3>2. CASE event # 0
      <4>1. event - 1 \in Events /\ AtLatestReport(event - 1) /\ times[event - 1] \in Int
        <5>1. event - 1 \in Events
          BY <2>1, <3>2, EventIndices DEF Events
        <5> QED
          BY <2>1, <2>2, <5>1
      <4>2. PICK f \in 0..(event - 1) : Reported(f) = times[event - 1]
        BY <4>1 DEF AtLatestReport
      <4>3. f \in 0..event
        BY <2>1, <4>2
      <4>4. Reported(f) <= times[event] /\ times[event] \in Int
        BY <2>1, <2>2, <4>3 DEF AtLatestReport
      <4> QED
        BY <3>2, <4>1, <4>2, <4>4
    <3> QED
      BY <3>1, <3>2
  <2>4. UNCHANGED times
    BY <1>5, <2>3 DEF RaiseEvent
  <2> QED
    BY <2>1, <2>2, <2>4 DEF AtLatestReport, Reported, InInterval
<1>6. CASE \/ FinishUpdate \/ CancelRun \/ PositionElsewhere
           \/ BackDone \/ BackDeparture \/ BackArrival
           \/ \E s \in Stops, delay \in Delays : Position(s, delay)
  <2>1. phase' \in {"idle", "back", "back_arr"}
    BY <1>6 DEF FinishUpdate, CancelRun, PositionElsewhere, BackDone, BackDeparture,
                BackArrival, Position
  <2> QED
    BY <2>1 DEF DecidedInv
<1>7. CASE UNCHANGED vars
  BY <1>7 DEF vars, data, walk, DecidedInv, LastVisited, AtLatestReport, Reported,
              IsComplete, InInterval
<1> QED
  BY <1>1, <1>2, <1>3, <1>4, <1>5, <1>6, <1>7 DEF Next

LEMMA DecidedInit == Init => DecidedInv
BY DEF Init, DecidedInv

\* A message with all events decides: whatever was reported, propagated or
\* positioned before, each event ends at the latest time the message has for it
\* or for an earlier one.
THEOREM CompleteUpdatesDecide == Spec => []CompleteUpdateDecides
<1>1. DecidedInv => CompleteUpdateDecides
  <2>1. \A e \in Events : e <= Last
    BY DEF Events
  <2> QED
    BY <2>1 DEF DecidedInv, CompleteUpdateDecides, LastVisited, AtLatestReport
<1> QED
  BY <1>1, TypeInit, TypeStep, DecidedInit, DecidedStep, PTL DEF Spec

-----------------------------------------------------------------------------
(***************************************************************************)
(* Sending an update again.  What a walk aims at for an event is a matter  *)
(* of the message alone: the last event before it that the message gives   *)
(* or the last stop before it without data decides (Source).  A walk       *)
(* leaves each event it writes at this time or at that of an earlier       *)
(* event, never before it (Reached), and the final pass keeps this.  So in *)
(* the times one update has led to, an event that lies after all earlier   *)
(* ones is at the time the walk aims at.  The walk of the repeated update  *)
(* writes the same time there and nothing later elsewhere (Follows), and   *)
(* the final pass raises the others to where they have been.               *)
(***************************************************************************)
Gives(m, r, f) == AppliedTo(m, r, f) # NoEvent
Silences(m, r, f) ==
  \E s \in r.from..(r.to - 1) : f = arr(s) /\ m[s].rel = "no_data"
Neutral(m, r, f) == ~Gives(m, r, f) /\ ~Silences(m, r, f)

\* What message m has last at event e or before it.
Source(m, r, f, e) ==
  /\ f \in -1..e /\ ~Neutral(m, r, f)
  /\ \A g \in (f + 1)..e : Neutral(m, r, g)

\* The delay carried on from an event, if it was taken as told.
DelayOf(m, r, f) ==
  LET ev == AppliedTo(m, r, f)
  IN  IF ~IsScheduled THEN 0
      ELSE IF ev.kind = "delay" THEN ev.value ELSE ev.value - StaticTime[f]

\* The time that the walk aims at for event e when its source is f.
Aim(m, r, f, e) ==
  IF Silences(m, r, f) THEN StaticTime[e]
  ELSE IF IsScheduled THEN StaticTime[e] + DelayOf(m, r, f)
  ELSE IF f = e THEN AppliedTo(m, r, e).value ELSE Epoch

Visited(m, r, e) ==
  /\ dep(r.from) <= e /\ e <= arr(r.to - 1)
  /\ m[(e + 1) \div 2].rel # "bad_track"

Writable(e, t) == t < MaxDelta /\ (e = 0 => MinDelta < t)

WritesFrom(m, r, f, e) ==
  /\ Visited(m, r, e) /\ Source(m, r, f, e)
  /\ IsScheduled \/ Gives(m, r, f)
  /\ Writable(e, Aim(m, r, f, e))

\* The times ts have event e where the walk aims at or at an earlier event.
Reached(m, r, ts, e) ==
  \A f \in -1..e : WritesFrom(m, r, f, e) =>
    /\ Aim(m, r, f, e) <= ts[e]
    /\ ts[e] = Aim(m, r, f, e) \/ \E g \in Events : g < e /\ ts[e] <= ts[g]

\* No absolute time within the interval makes an event earlier than it says.
AbsoluteHeld(m, r, ts, e) ==
  LET ev == AppliedTo(m, r, e)
  IN  ev.kind = "time" /\ InInterval(ev.value) => ev.value <= ts[e]

\* pr and nd are pred and no_data after event e.
Carried(m, r, pr, nd, e) ==
  \/ pr.valid /\ \E f \in -1..e : /\ Source(m, r, f, e) /\ Gives(m, r, f)
                                  /\ pr.delay = DelayOf(m, r, f)
  \/ ~pr.valid /\ nd /\ \E f \in -1..e : Source(m, r, f, e) /\ Silences(m, r, f)
  \/ ~pr.valid /\ ~nd /\ \A f \in -1..e : Neutral(m, r, f)

TimeOfEarlier(t, e) == \E g \in Events : g < e /\ t = times[g]

ToldBefore(p) == \A e \in Events : e < p => AsTold(msg, range, times, e)

EventsWalked(p) ==
  /\ \A e \in Events : e < p => AbsoluteHeld(msg, range, times, e)
  /\ ToldBefore(p) => \A e \in Events : e < p => Reached(msg, range, times, e)

\* The walk before it comes to event p.
Walked(p) ==
  /\ pred.valid => TimeOfEarlier(pred.time, p)
  /\ ToldBefore(p) => Carried(msg, range, pred, no_data, p - 1)
  /\ EventsWalked(p)

Ordered(ts, k) == \A d, e \in Events : d < e /\ e < k => ts[d] <= ts[e]
Rises(ts, e) == \A g \in Events : g < e => ts[g] < ts[e]
Settled(m, r, ts) == \A e \in Events : Reached(m, r, ts, e)

\* The repeated update keeps event e down, and where it was if it rises.
Follows(ts, e) == times[e] <= ts[e] /\ (Rises(ts, e) => times[e] = ts[e])

Updating == phase \in {"arr", "dep", "raise", "finish"}

\* The event the walk comes to next.
At(p) ==
  \/ phase = "arr" /\ p = arr(stop)
  \/ phase = "dep" /\ p = dep(stop)

\* The events before k have been raised by the final pass.
Restored(k) ==
  \/ phase = "raise" /\ k = event
  \/ phase = "finish" /\ k = Last + 1

\* While the update is the one before, sent again.
Repeated(ts) ==
  /\ \A e \in Events : Follows(ts, e)
  /\ \A k \in Int : Restored(k) => \A e \in Events : e < k => times[e] = ts[e]

LastInv ==
  last # NothingSent =>
    /\ last.times \in [Events -> Int] /\ \A e \in Events : InInterval(last.times[e])
    /\ Ordered(last.times, Last + 1)
    /\ \/ Updating /\ last.msg = msg /\ last.range = range
       \/ phase = "idle" /\ present /\ times = last.times
    /\ TakenAsTold(last.msg, last.range, last.times) =>
         /\ Settled(last.msg, last.range, last.times)
         /\ Updating => Repeated(last.times)

ResendInv ==
  /\ \A e \in Events : InInterval(times[e])
  /\ Updating => present
  /\ phase = "dep" => msg[stop].rel # "bad_track"
  /\ \A p \in Int : At(p) => Walked(p)
  /\ phase \in {"raise", "finish"} => EventsWalked(Last + 1)
  /\ \A k \in Int : Restored(k) => Ordered(times, k)
  /\ LastInv

LEMMA Halves == \A s \in Int : /\ (arr(s) + 1) \div 2 = s /\ (dep(s) + 1) \div 2 = s
                               /\ arr(s) \in Int /\ dep(s) \in Int /\ arr(s) + 1 = dep(s)
<1> SUFFICES ASSUME NEW s \in Int
             PROVE  /\ (2 * s) \div 2 = s /\ (2 * s + 1) \div 2 = s
                    /\ arr(s) = 2 * s - 1 /\ dep(s) = 2 * s
  BY DEF arr, dep
<1> QED
  BY DEF arr, dep

\* What AppliedTo has for the events of a stop.
LEMMA AppliedToStop ==
  ASSUME NEW m \in [Stops -> StopTimeUpdate], NEW r \in StopRange,
         NEW s \in r.from..(r.to - 1)
  PROVE  LET given(ev) == IF m[s].rel \in {"scheduled", "skipped", "track"} THEN ev
                                                                    ELSE NoEvent
         IN  /\ AppliedTo(m, r, arr(s)) = IF s = r.from THEN NoEvent
                                                        ELSE given(m[s].arrival)
             /\ AppliedTo(m, r, dep(s)) =
                  IF s + 1 = r.to THEN NoEvent
                  ELSE IF s = 0 /\ given(m[s].departure) = NoEvent
                    THEN given(m[s].arrival) ELSE given(m[s].departure)
             /\ Silences(m, r, arr(s)) <=> m[s].rel = "no_data"
             /\ ~Silences(m, r, dep(s))
             /\ s # r.from => (Visited(m, r, arr(s)) <=> m[s].rel # "bad_track")
             /\ s + 1 # r.to => (Visited(m, r, dep(s)) <=> m[s].rel # "bad_track")
             /\ s = r.from => ~Visited(m, r, arr(s))
             /\ s + 1 = r.to => ~Visited(m, r, dep(s))
<1>1. /\ s \in Int /\ r.from \in Nat /\ r.to \in Nat /\ r.from <= s /\ s < r.to
      /\ r.from + 1 < r.to
  BY RunAssumption DEF StopRange, Stops
<1>2. /\ (arr(s) + 1) \div 2 = s /\ (dep(s) + 1) \div 2 = s
      /\ arr(s) = 2 * s - 1 /\ dep(s) = 2 * s
      /\ dep(r.from) = 2 * r.from /\ arr(r.to - 1) = 2 * r.to - 3
  BY <1>1, Halves DEF arr, dep
<1>3. /\ (dep(r.from) <= arr(s) /\ arr(s) <= arr(r.to - 1)) <=> s # r.from
      /\ (dep(r.from) <= dep(s) /\ dep(s) <= arr(r.to - 1)) <=> s + 1 # r.to
      /\ dep(s) # arr(s) /\ arr(s) # 0 /\ (dep(s) = 0 <=> s = 0)
  BY <1>1, <1>2
<1>4. \A k \in r.from..(r.to - 1) : /\ arr(s) = arr(k) => k = s
                                    /\ dep(s) # arr(k)
  BY <1>1 DEF arr, dep
<1>5. /\ Silences(m, r, arr(s)) <=> m[s].rel = "no_data"
      /\ ~Silences(m, r, dep(s))
  BY <1>4 DEF Silences
<1>6. AppliedTo(m, r, arr(s)) =
        IF s = r.from \/ m[s].rel \notin {"scheduled", "skipped", "track"}
          THEN NoEvent ELSE m[s].arrival
  BY <1>2, <1>3 DEF AppliedTo
<1>7. AppliedTo(m, r, dep(s)) =
        IF s + 1 = r.to \/ m[s].rel \notin {"scheduled", "skipped", "track"}
          THEN NoEvent
        ELSE IF s = 0 /\ m[s].departure = NoEvent THEN m[s].arrival ELSE m[s].departure
  BY <1>2, <1>3 DEF AppliedTo
<1>8. /\ Visited(m, r, arr(s)) <=> s # r.from /\ m[s].rel # "bad_track"
      /\ Visited(m, r, dep(s)) <=> s + 1 # r.to /\ m[s].rel # "bad_track"
  BY <1>2, <1>3 DEF Visited
<1> QED
  BY <1>5, <1>6, <1>7, <1>8, Zenon

\* Beyond the last arrival of the range there is nothing to visit.
LEMMA BeyondRange ==
  ASSUME NEW m, NEW r \in StopRange, NEW e \in Int, e > arr(r.to - 1)
  PROVE  Neutral(m, r, e) /\ ~Visited(m, r, e)
<1>1. r.from \in Nat /\ r.to \in Nat
  BY RunAssumption DEF StopRange, Stops
<1>2. \A s \in r.from..(r.to - 1) : arr(s) <= arr(r.to - 1)
  BY <1>1 DEF arr
<1>3. ~(e <= arr(r.to - 1)) /\ \A s \in r.from..(r.to - 1) : e # arr(s)
  BY <1>1, <1>2 DEF arr
<1> QED
  BY <1>3 DEF Neutral, Gives, Silences, AppliedTo, Visited

\* What a message has for an event is a stop time event, and a stop without data
\* gives none.
LEMMA AppliedToType ==
  ASSUME NEW m \in [Stops -> StopTimeUpdate], NEW r \in StopRange, NEW e \in Int
  PROVE  /\ AppliedTo(m, r, e) \in StopTimeEvent
         /\ AppliedTo(m, r, e).value \in Int
         /\ Gives(m, r, e) => /\ ~Silences(m, r, e)
                              /\ AppliedTo(m, r, e).kind \in {"delay", "time"}
<1> DEFINE s == (e + 1) \div 2
<1>1. r.from \in Nat /\ r.to \in Nat /\ r.to <= NStops /\ NStops \in Nat
  BY RunAssumption DEF StopRange, Stops
<1>2. NoEvent \in StopTimeEvent /\ \A ev \in StopTimeEvent : ev.value \in Int
  BY DEF StopTimeEvent, NoEvent
<1>3. \A k \in Stops : m[k].arrival \in StopTimeEvent /\ m[k].departure \in StopTimeEvent
  BY DEF StopTimeUpdate
<1>4. dep(r.from) <= e /\ e <= arr(r.to - 1) => s \in Stops
  BY <1>1 DEF dep, arr, Stops
<1>5. 0 \in Stops
  BY RunAssumption DEF Stops
<1>6. AppliedTo(m, r, e) \in StopTimeEvent
  BY <1>2, <1>3, <1>4, <1>5, Zenon DEF AppliedTo
<1>7. ASSUME Gives(m, r, e), Silences(m, r, e) PROVE FALSE
  <2>1. PICK k \in r.from..(r.to - 1) : e = arr(k) /\ m[k].rel = "no_data"
    BY <1>7 DEF Silences
  <2>2. AppliedTo(m, r, arr(k)) = NoEvent
    BY <2>1, AppliedToStop
  <2> QED
    BY <1>7, <2>1, <2>2 DEF Gives
<1>8. \A ev \in StopTimeEvent : ev # NoEvent => ev.kind \in {"delay", "time"}
  BY DEF StopTimeEvent
<1> QED
  BY <1>2, <1>6, <1>7, <1>8 DEF Gives

-----------------------------------------------------------------------------
LEMMA SourceUnique ==
  ASSUME NEW m, NEW r, NEW e \in Int, NEW f, NEW g, Source(m, r, f, e), Source(m, r, g, e)
  PROVE  f = g
<1>1. f \in Int /\ g \in Int /\ f <= e /\ g <= e
  BY DEF Source
<1>2. ~(f < g) /\ ~(g < f)
  BY <1>1 DEF Source
<1> QED
  BY <1>1, <1>2

LEMMA SourceItself ==
  ASSUME NEW m, NEW r, NEW e \in Int, e >= -1, ~Neutral(m, r, e)
  PROVE  Source(m, r, e, e)
<1>1. e \in -1..e /\ \A g \in (e + 1)..e : FALSE
  OBVIOUS
<1> QED
  BY <1>1 DEF Source

\* Events the message says nothing about leave what is carried.
LEMMA CarriedOn ==
  ASSUME NEW m, NEW r, NEW pr, NEW nd, NEW p \in Int, NEW q \in Int, p <= q,
         \A e \in p..(q - 1) : Neutral(m, r, e),
         Carried(m, r, pr, nd, p - 1)
  PROVE  Carried(m, r, pr, nd, q - 1)
<1>1. /\ \A f \in -1..(p - 1) : f \in -1..(q - 1)
      /\ \A f \in -1..(q - 1) : f \in -1..(p - 1) \/ f \in p..(q - 1)
  OBVIOUS
<1>2. ASSUME NEW f, Source(m, r, f, p - 1) PROVE Source(m, r, f, q - 1)
  <2>1. /\ f \in -1..(q - 1)
        /\ \A g \in (f + 1)..(q - 1) : g \in (f + 1)..(p - 1) \/ g \in p..(q - 1)
    BY <1>2 DEF Source
  <2> QED
    BY <1>2, <2>1 DEF Source
<1> QED
  BY <1>1, <1>2 DEF Carried

\* A bounded write: a time before the previous event is raised to it.
LEMMA BoundedWrite ==
  ASSUME times \in [Events -> Int], NEW e \in Events, NEW t \in Int, NEW lower \in Int,
         NEW st, e = 0 => lower = Epoch, e # 0 => InInterval(lower),
         BoundedUpdate(e, t, lower, st)
  PROVE  /\ Writable(e, t) => /\ times' = [times EXCEPT ![e] = Larger(lower, t)]
                              /\ InInterval(Larger(lower, t))
         /\ ~Writable(e, t) => times' = times
<1>1. /\ MinDelta \in Int /\ MaxDelta \in Int /\ Epoch \in Int /\ Epoch < MinDelta
  BY TimeAssumption
<1>2. Writable(e, t) <=> InInterval(Larger(lower, t))
  BY <1>1 DEF Writable, InInterval, Larger
<1> QED
  BY <1>2 DEF BoundedUpdate, update_time

(***************************************************************************)
(* One event of the walk.                                                  *)
(***************************************************************************)
\* The message has something for the event.
LEMMA GivenEvent ==
  ASSUME TypeOK, NEW e \in Events, NEW lower \in Int,
         e = 0 => lower = Epoch, e # 0 => InInterval(lower),
         Gives(msg, range, e), Visited(msg, range, e),
         update_event(e, AppliedTo(msg, range, e), lower)
  PROVE  LET ev == AppliedTo(msg, range, e)
             aim == Aim(msg, range, e, e)
         IN  /\ ev.kind = "time" => aim = ev.value
             /\ AsTold(msg, range, times', e) =>
                  /\ Writable(e, aim) => times' = [times EXCEPT ![e] = Larger(lower, aim)]
                  /\ ~Writable(e, aim) => times' = times
                  /\ pred'.valid /\ pred'.delay = DelayOf(msg, range, e)
             /\ \E t \in Int :
                  /\ ev.kind = "time" => t = ev.value
                  /\ Writable(e, t) => /\ times' = [times EXCEPT ![e] = Larger(lower, t)]
                                       /\ InInterval(Larger(lower, t))
                  /\ ~Writable(e, t) => times' = times
             /\ pred'.valid /\ pred'.time = times'[e]
<1> DEFINE ev == AppliedTo(msg, range, e)
           aim == Aim(msg, range, e, e)
<1>1. /\ times \in [Events -> Int] /\ StaticTime[e] \in Int /\ e \in Int /\ Epoch \in Int
      /\ msg \in [Stops -> StopTimeUpdate] /\ range \in StopRange
  BY StaticTimeType, TimeAssumption DEF TypeOK, Events
<1>2. /\ ev.value \in Int /\ ev.kind \in {"delay", "time"} /\ ev # NoEvent
      /\ ~Silences(msg, range, e)
  BY <1>1, AppliedToType DEF Gives
<1> HIDE DEF ev
<1>3. DelayOf(msg, range, e) = IF ~IsScheduled THEN 0
                               ELSE IF ev.kind = "delay" THEN ev.value
                               ELSE ev.value - StaticTime[e]
  BY DEF DelayOf, ev
<1>4. aim = IF IsScheduled /\ ev.kind = "delay" THEN StaticTime[e] + ev.value ELSE ev.value
  BY <1>1, <1>2, <1>3 DEF Aim, ev
<1>5. AsTold(msg, range, times', e) <=>
        (ev.kind = "delay" /\ IsScheduled) \/ (ev.kind = "time" /\ times'[e] = ev.value)
  BY <1>2 DEF AsTold, ev
<1> HIDE DEF aim
<1>6. CASE ev.kind = "delay" /\ IsScheduled
  <2>1. /\ BoundedUpdate(e, aim, lower, "kPredicted")
        /\ pred' = Pred(times'[e], ev.value)
    BY <1>4, <1>6 DEF update_event, update_delay, ev
  <2>2. aim \in Int
    BY <1>1, <1>2, <1>4
  <2> QED
    BY <1>1, <1>3, <1>6, <2>1, <2>2, BoundedWrite DEF Pred, ev, aim
<1>7. CASE ~(ev.kind = "delay" /\ IsScheduled)
  <2> DEFINE new_time == IF ev.kind = "time" THEN ev.value ELSE Epoch
             static_time == IF IsScheduled THEN StaticTime[e] ELSE new_time
  <2>1. /\ BoundedUpdate(e, new_time, lower, "kPredicted")
        /\ pred' = Pred(times'[e], times'[e] - static_time)
    BY <1>7 DEF update_event, ev
  <2>2. new_time \in Int /\ (ev.kind = "time" => new_time = ev.value)
    BY <1>1, <1>2
  <2>3. /\ Writable(e, new_time) =>
             /\ times' = [times EXCEPT ![e] = Larger(lower, new_time)]
             /\ InInterval(Larger(lower, new_time))
        /\ ~Writable(e, new_time) => times' = times
    BY <1>1, <2>1, <2>2, BoundedWrite
  <2>4. pred'.valid /\ pred'.time = times'[e] /\ pred'.delay = times'[e] - static_time
    BY <2>1 DEF Pred
  <2>5. ASSUME AsTold(msg, range, times', e)
        PROVE  /\ ev.kind = "time" /\ new_time = aim
               /\ pred'.delay = DelayOf(msg, range, e)
    <3>1. ev.kind = "time" /\ times'[e] = ev.value
      BY <1>5, <1>7, <2>5
    <3> QED
      BY <1>1, <1>2, <1>3, <1>4, <2>4, <3>1
  <2>6. ev.kind = "time" => aim = ev.value
    BY <1>2, <1>4
  <2> HIDE DEF new_time, static_time
  <2> QED
    BY <2>2, <2>3, <2>4, <2>5, <2>6 DEF ev, aim
<1> QED
  BY <1>6, <1>7

\* An event gets what the walk aims at or the time of an earlier event, or it keeps
\* its time; and the walk goes on with what the message has last.
LEMMA VisitKeeps ==
  ASSUME TypeOK, \A d \in Events : InInterval(times[d]),
         NEW e \in Events, NEW lower \in Int,
         NEW prev \in PredType, NEW none \in BOOLEAN,
         e = 0 => lower = Epoch, e # 0 => TimeOfEarlier(lower, e),
         prev.valid => TimeOfEarlier(prev.time, e),
         Visited(msg, range, e),
         VisitEvent(e, AppliedTo(msg, range, e), lower, prev, none)
  PROVE  /\ \E x \in Int : InInterval(x) /\ times' = [times EXCEPT ![e] = x]
         /\ pred'.valid => pred'.time = times'[e]
         /\ AbsoluteHeld(msg, range, times', e)
         /\ AppliedTo(msg, range, e).kind = "time" =>
              \/ times'[e] = AppliedTo(msg, range, e).value
              \/ TimeOfEarlier(times'[e], e)
              \/ ~InInterval(AppliedTo(msg, range, e).value)
         /\ AsTold(msg, range, times', e)
              /\ (Gives(msg, range, e) \/ Carried(msg, range, prev, none, e)) =>
              /\ Carried(msg, range, pred', no_data', e)
              /\ \A f \in -1..e : WritesFrom(msg, range, f, e) =>
                   /\ Aim(msg, range, f, e) <= times'[e]
                   /\ \/ times'[e] = Aim(msg, range, f, e)
                      \/ TimeOfEarlier(times'[e], e)
              /\ (\A f \in -1..e : ~WritesFrom(msg, range, f, e)) => times'[e] = times[e]
<1> DEFINE m == msg
           r == range
           ev == AppliedTo(m, r, e)
           Wrote(f) == LET aim == Aim(m, r, f, e)
                       IN  IF WritesFrom(m, r, f, e)
                             THEN aim <= times'[e]
                                  /\ (times'[e] = aim \/ TimeOfEarlier(times'[e], e))
                             ELSE times'[e] = times[e]
           Goal == /\ \E x \in Int : InInterval(x) /\ times' = [times EXCEPT ![e] = x]
                   /\ pred'.valid => pred'.time = times'[e]
                   /\ AbsoluteHeld(m, r, times', e)
                   /\ ev.kind = "time" => \/ times'[e] = ev.value
                                          \/ TimeOfEarlier(times'[e], e)
                                          \/ ~InInterval(ev.value)
                   /\ AsTold(m, r, times', e)
                        /\ (Gives(m, r, e) \/ Carried(m, r, prev, none, e)) =>
                        /\ Carried(m, r, pred', no_data', e)
                        /\ \/ \E f \in -1..e : Source(m, r, f, e) /\ Wrote(f)
                           \/ times'[e] = times[e] /\ \A f \in -1..e : ~WritesFrom(m, r, f, e)
<1>1. /\ times \in [Events -> Int] /\ StaticTime[e] \in Int /\ e \in Int /\ e >= 0
      /\ Epoch \in Int /\ MinDelta \in Int /\ MaxDelta \in Int /\ Epoch < MinDelta
      /\ InInterval(StaticTime[e])
      /\ m \in [Stops -> StopTimeUpdate] /\ r \in StopRange
  BY StaticTimeType, TimeAssumption DEF TypeOK, Events
<1>2. \A t : TimeOfEarlier(t, e) => t \in Int /\ InInterval(t) /\ e # 0 /\ ~(t < Epoch)
  BY <1>1 DEF TimeOfEarlier, InInterval, Events
<1>3. \E x \in Int : InInterval(x) /\ times = [times EXCEPT ![e] = x]
  BY <1>1
<1>4. ev = NoEvent => AbsoluteHeld(m, r, times', e) /\ ev.kind # "time"
  BY DEF AbsoluteHeld, NoEvent
<1>5. ASSUME ev # NoEvent PROVE Goal
  <2> DEFINE low == IF prev.valid THEN prev.time ELSE lower
             aim == Aim(m, r, e, e)
  <2>1. /\ low \in Int
        /\ e = 0 => low = Epoch
        /\ e # 0 => TimeOfEarlier(low, e) /\ InInterval(low)
    BY <1>2
  <2>2. update_event(e, ev, low) /\ no_data' = FALSE
    BY <1>5 DEF VisitEvent
  <2> HIDE DEF low
  <2>3. Gives(m, r, e)
    BY <1>5 DEF Gives
  <2>4. Source(m, r, e, e) /\ e \in -1..e
    BY <1>1, <2>3, SourceItself DEF Neutral
  <2>5. aim \in Int
    BY <1>1, AppliedToType DEF Aim, DelayOf
  <2>6. PICK t \in Int :
          /\ ev.kind = "time" => t = ev.value
          /\ Writable(e, t) => /\ times' = [times EXCEPT ![e] = Larger(low, t)]
                               /\ InInterval(Larger(low, t))
          /\ ~Writable(e, t) => times' = times
    BY <2>1, <2>2, <2>3, GivenEvent
  <2>7. pred'.valid /\ pred'.time = times'[e]
    BY <2>1, <2>2, <2>3, GivenEvent
  <2>8. AsTold(m, r, times', e) =>
          /\ Writable(e, aim) => times' = [times EXCEPT ![e] = Larger(low, aim)]
          /\ ~Writable(e, aim) => times' = times
          /\ pred'.valid /\ pred'.delay = DelayOf(m, r, e)
    BY <2>1, <2>2, <2>3, GivenEvent
  <2> HIDE DEF aim
  <2>9. \E x \in Int : InInterval(x) /\ times' = [times EXCEPT ![e] = x]
    BY <1>3, <2>1, <2>6 DEF Larger
  <2>10. /\ AbsoluteHeld(m, r, times', e)
         /\ ev.kind = "time" /\ InInterval(ev.value) =>
              times'[e] = ev.value \/ TimeOfEarlier(times'[e], e)
    <3>1. SUFFICES ASSUME ev.kind = "time", InInterval(ev.value)
                   PROVE  /\ ev.value <= times'[e]
                          /\ times'[e] = ev.value \/ TimeOfEarlier(times'[e], e)
      BY DEF AbsoluteHeld
    <3>2. t = ev.value /\ Writable(e, t) /\ (e = 0 => low < t)
      BY <1>1, <2>1, <2>6, <3>1 DEF Writable, InInterval
    <3>3. times'[e] = Larger(low, t)
      BY <1>1, <2>6, <3>2
    <3>4. t <= times'[e] /\ (times'[e] = t \/ (e # 0 /\ times'[e] = low))
      BY <2>1, <3>2, <3>3 DEF Larger
    <3> QED
      BY <2>1, <3>2, <3>4
  <2>11. ASSUME AsTold(m, r, times', e)
         PROVE  Carried(m, r, pred', no_data', e) /\ Wrote(e)
    <3>1. Carried(m, r, pred', no_data', e)
      BY <2>3, <2>4, <2>8, <2>11 DEF Carried
    <3>2. WritesFrom(m, r, e, e) <=> Writable(e, aim)
      BY <2>3, <2>4 DEF WritesFrom, aim
    <3>3. CASE Writable(e, aim)
      <4>1. times'[e] = Larger(low, aim)
        BY <1>1, <2>8, <2>11, <3>3
      <4>2. e = 0 => low < aim
        BY <1>1, <2>1, <2>5, <3>3 DEF Writable
      <4>3. aim <= times'[e] /\ (times'[e] = aim \/ (e # 0 /\ times'[e] = low))
        BY <2>1, <2>5, <4>1, <4>2 DEF Larger
      <4> QED
        BY <2>1, <3>1, <3>2, <3>3, <4>3 DEF aim
    <3>4. CASE ~Writable(e, aim)
      BY <2>8, <2>11, <3>1, <3>2, <3>4
    <3> QED
      BY <3>3, <3>4
  <2> HIDE DEF Wrote
  <2> QED
    BY <2>4, <2>7, <2>9, <2>10, <2>11
<1>6. ASSUME ev = NoEvent /\ prev.valid PROVE Goal
  <2>1. /\ update_delay(e, prev.delay, prev.time, "kPropagated")
        /\ no_data' = none
    BY <1>6 DEF VisitEvent
  <2> DEFINE t == (IF IsScheduled THEN StaticTime[e] ELSE prev.time) + prev.delay
             x == IF Writable(e, t) THEN Larger(prev.time, t) ELSE times[e]
  <2>2. BoundedUpdate(e, t, prev.time, "kPropagated") /\ pred' = Pred(times'[e], prev.delay)
    BY <2>1 DEF update_delay
  <2>3. /\ prev.time \in Int /\ prev.delay \in Int /\ t \in Int
        /\ InInterval(prev.time) /\ e # 0
    BY <1>1, <1>2, <1>6 DEF PredType
  <2> HIDE DEF t
  <2>4. /\ Writable(e, t) => /\ times' = [times EXCEPT ![e] = Larger(prev.time, t)]
                             /\ InInterval(Larger(prev.time, t))
        /\ ~Writable(e, t) => times' = times
    BY <1>1, <2>2, <2>3, BoundedWrite
  <2>5. \E y \in Int : InInterval(y) /\ times' = [times EXCEPT ![e] = y]
    BY <1>3, <2>3, <2>4 DEF Larger
  <2>6. pred'.valid /\ pred'.time = times'[e] /\ pred'.delay = prev.delay
    BY <2>2 DEF Pred
  <2>7. ASSUME Carried(m, r, prev, none, e)
        PROVE  /\ Carried(m, r, pred', no_data', e)
               /\ \E f \in -1..e : Source(m, r, f, e) /\ Wrote(f)
    <3>1. PICK f \in -1..e : /\ Source(m, r, f, e) /\ Gives(m, r, f)
                             /\ prev.delay = DelayOf(m, r, f)
      BY <1>6, <2>7 DEF Carried
    <3>2. Carried(m, r, pred', no_data', e)
      BY <2>6, <3>1 DEF Carried
    <3>3. f # e /\ ~Silences(m, r, f)
      BY <1>1, <1>6, <3>1, AppliedToType DEF Gives
    <3>4. WritesFrom(m, r, f, e) <=> Writable(e, Aim(m, r, f, e))
      BY <3>1 DEF WritesFrom
    <3>5. TimeOfEarlier(prev.time, e)
      BY <1>6
    <3>6. CASE IsScheduled
      <4>1. t = Aim(m, r, f, e)
        BY <3>1, <3>3, <3>6 DEF Aim, t
      <4>2. Wrote(f)
        <5>1. CASE Writable(e, t)
          <6>1. times'[e] = Larger(prev.time, t)
            BY <1>1, <2>4, <5>1
          <6>2. t <= times'[e] /\ (times'[e] = t \/ times'[e] = prev.time)
            BY <2>3, <6>1 DEF Larger
          <6> QED
            BY <3>4, <3>5, <4>1, <5>1, <6>2
        <5>2. CASE ~Writable(e, t)
          BY <2>4, <3>4, <4>1, <5>2
        <5> QED
          BY <5>1, <5>2
      <4> QED
        BY <3>1, <3>2, <4>2
    <3>7. CASE ~IsScheduled
      <4>1. prev.delay = 0 /\ t = prev.time
        BY <2>3, <3>1, <3>7 DEF DelayOf, t
      <4>2. Aim(m, r, f, e) = Epoch
        BY <3>3, <3>7 DEF Aim
      <4>3. Writable(e, t) /\ Writable(e, Epoch)
        BY <1>1, <2>3, <4>1 DEF Writable, InInterval
      <4>4. times'[e] = prev.time
        BY <1>1, <2>3, <2>4, <4>1, <4>3 DEF Larger
      <4>5. Wrote(f)
        BY <1>1, <2>3, <3>4, <3>5, <4>2, <4>3, <4>4 DEF InInterval
      <4> QED
        BY <3>1, <3>2, <4>5
    <3> QED
      BY <3>6, <3>7
  <2>8. ~Gives(m, r, e)
    BY <1>6 DEF Gives
  <2> HIDE DEF Wrote
  <2> QED
    BY <1>4, <1>6, <2>5, <2>6, <2>7, <2>8
<1>7. ASSUME ev = NoEvent /\ ~prev.valid PROVE Goal
  <2>1. pred' = prev /\ no_data' = none /\ ~Gives(m, r, e)
    BY <1>7 DEF VisitEvent, Gives
  <2>2. IF none /\ IsScheduled THEN times' = [times EXCEPT ![e] = StaticTime[e]]
                               ELSE times' = times
    BY <1>1, <1>7 DEF VisitEvent, reset_to_schedule, update_time
  <2>3. \E x \in Int : InInterval(x) /\ times' = [times EXCEPT ![e] = x]
    BY <1>1, <1>3, <2>2
  <2>4. ASSUME Carried(m, r, prev, none, e)
        PROVE  \/ \E f \in -1..e : Source(m, r, f, e) /\ Wrote(f)
               \/ times'[e] = times[e] /\ \A f \in -1..e : ~WritesFrom(m, r, f, e)
    <3>1. CASE none
      <4>1. PICK f \in -1..e : Source(m, r, f, e) /\ Silences(m, r, f)
        BY <1>7, <2>4, <3>1 DEF Carried
      <4>2. Aim(m, r, f, e) = StaticTime[e] /\ ~Gives(m, r, f)
        BY <1>1, <4>1, AppliedToType DEF Aim
      <4>3. Writable(e, StaticTime[e])
        BY <1>1 DEF Writable, InInterval
      <4>4. WritesFrom(m, r, f, e) <=> IsScheduled
        BY <4>1, <4>2, <4>3 DEF WritesFrom
      <4>5. Wrote(f)
        BY <1>1, <2>2, <3>1, <4>2, <4>4
      <4> QED
        BY <4>1, <4>5
    <3>2. CASE ~none
      <4>1. \A f \in -1..e : Neutral(m, r, f)
        BY <1>7, <2>4, <3>2 DEF Carried
      <4> QED
        BY <2>2, <3>2, <4>1 DEF WritesFrom, Source
    <3> QED
      BY <3>1, <3>2
  <2> HIDE DEF Wrote
  <2> QED
    BY <1>4, <1>7, <2>1, <2>3, <2>4
<1>8. Goal
  BY <1>5, <1>6, <1>7
<1>9. ASSUME NEW f \in -1..e, Source(m, r, f, e), Wrote(f)
      PROVE  /\ \A g \in -1..e : WritesFrom(m, r, g, e) =>
                  /\ Aim(m, r, g, e) <= times'[e]
                  /\ times'[e] = Aim(m, r, g, e) \/ TimeOfEarlier(times'[e], e)
             /\ (\A g \in -1..e : ~WritesFrom(m, r, g, e)) => times'[e] = times[e]
  <2>1. \A g \in -1..e : WritesFrom(m, r, g, e) => g = f
    BY <1>1, <1>9, SourceUnique DEF WritesFrom
  <2> QED
    BY <1>9, <2>1
<1> HIDE DEF Wrote
<1> QED
  BY <1>8, <1>9

(***************************************************************************)
(* The walk goes on.                                                       *)
(***************************************************************************)
LEMMA WalkedOn ==
  ASSUME TypeOK, NEW p \in Int, p >= -1, Walked(p), UNCHANGED <<msg, range>>,
         times' \in [Events -> Int], \A d \in Events : d # p => times'[d] = times[d],
         pred'.valid => \E g \in Events : g < p + 1 /\ pred'.time = times'[g],
         p \in Events => AbsoluteHeld(msg, range, times', p),
         ToldBefore(p) /\ (p \in Events => AsTold(msg, range, times', p)) =>
           /\ Carried(msg, range, pred', no_data', p)
           /\ p \in Events => Reached(msg, range, times', p)
  PROVE  Walked(p + 1)'
<1>1. \A d \in Events : d \in Int /\ (d < p + 1 => d < p \/ d = p)
  BY DEF Events
<1>2. ASSUME NEW d \in Events, d < p + 1 PROVE AbsoluteHeld(msg, range, times', d)
  <2>1. CASE d = p
    BY <2>1
  <2>2. CASE d < p
    BY <1>1, <2>2 DEF Walked, EventsWalked, AbsoluteHeld
  <2> QED
    BY <1>1, <1>2, <2>1, <2>2
<1>3. ASSUME \A d \in Events : d < p + 1 => AsTold(msg, range, times', d)
      PROVE  /\ Carried(msg, range, pred', no_data', p)
             /\ \A d \in Events : d < p + 1 => Reached(msg, range, times', d)
  <2>1. ToldBefore(p)
    <3>1. ASSUME NEW d \in Events, d < p PROVE AsTold(msg, range, times, d)
      <4>1. AsTold(msg, range, times', d) /\ times'[d] = times[d]
        BY <1>1, <1>3, <3>1
      <4> QED
        BY <4>1 DEF AsTold
    <3> QED
      BY <3>1 DEF ToldBefore
  <2>2. p \in Events => AsTold(msg, range, times', p)
    BY <1>1, <1>3
  <2>3. ASSUME NEW d \in Events, d < p PROVE Reached(msg, range, times', d)
    <3>1. Reached(msg, range, times, d)
      BY <2>1, <2>3 DEF Walked, EventsWalked
    <3>2. times'[d] = times[d] /\ \A g \in Events : g < d => times'[g] = times[g]
      BY <1>1, <2>3
    <3> QED
      BY <3>1, <3>2 DEF Reached
  <2> QED
    BY <1>1, <2>1, <2>2, <2>3
<1>4. (p + 1) - 1 = p
  OBVIOUS
<1> QED
  BY <1>2, <1>3, <1>4 DEF Walked, EventsWalked, ToldBefore, TimeOfEarlier

\* The walk passes events without visiting them.
LEMMA WalkPasses ==
  ASSUME NEW p \in Int, NEW q \in Int, p <= q, Walked(p),
         UNCHANGED <<msg, range, times, pred, no_data>>,
         \A e \in p..(q - 1) : Neutral(msg, range, e) /\ ~Visited(msg, range, e)
  PROVE  Walked(q)'
<1>1. \A e \in Events : e \in Int /\ (e < q => e < p \/ e \in p..(q - 1))
  BY DEF Events
<1>2. \A e \in Events : e < q => AbsoluteHeld(msg, range, times, e)
  BY <1>1 DEF Walked, EventsWalked, AbsoluteHeld, Neutral, Gives, NoEvent
<1>3. ToldBefore(q) => ToldBefore(p)
  BY <1>1 DEF ToldBefore
<1>4. ToldBefore(q) => Carried(msg, range, pred, no_data, q - 1)
  BY <1>3, CarriedOn DEF Walked
<1>5. ToldBefore(q) => \A e \in Events : e < q => Reached(msg, range, times, e)
  BY <1>1, <1>3 DEF Walked, EventsWalked, Reached, WritesFrom
<1>6. pred.valid => \E g \in Events : g < q /\ pred.time = times[g]
  BY <1>1 DEF Walked, TimeOfEarlier
<1> QED
  BY <1>2, <1>4, <1>5, <1>6 DEF Walked, EventsWalked, ToldBefore, TimeOfEarlier

\* In a repeated walk an absolute time stands as it stood before.
LEMMA FollowsTold ==
  ASSUME NEW e \in Events, NEW ts, ts[e] \in Int, InInterval(ts[e]), NEW us, us[e] \in Int,
         us[e] <= ts[e], AsTold(msg, range, ts, e), AbsoluteHeld(msg, range, us, e)
  PROVE  AsTold(msg, range, us, e)
BY DEF AsTold, AbsoluteHeld

\* A repeated walk writes no later time than there was, and the same time where
\* the event lies after all earlier ones.
LEMMA VisitFollows ==
  ASSUME times \in [Events -> Int], NEW ts \in [Events -> Int],
         Ordered(ts, Last + 1), \A d \in Events : InInterval(ts[d]),
         Settled(msg, range, ts), TakenAsTold(msg, range, ts),
         \A d \in Events : Follows(ts, d),
         NEW e \in Events, NEW x \in Int, times' = [times EXCEPT ![e] = x],
         AbsoluteHeld(msg, range, times', e),
         AppliedTo(msg, range, e).kind = "time" =>
           \/ times'[e] = AppliedTo(msg, range, e).value
           \/ TimeOfEarlier(times'[e], e)
           \/ ~InInterval(AppliedTo(msg, range, e).value),
         AsTold(msg, range, times', e) =>
           /\ \A f \in -1..e : WritesFrom(msg, range, f, e) =>
                /\ Aim(msg, range, f, e) <= times'[e]
                /\ times'[e] = Aim(msg, range, f, e) \/ TimeOfEarlier(times'[e], e)
           /\ (\A f \in -1..e : ~WritesFrom(msg, range, f, e)) => times'[e] = times[e]
  PROVE  \A d \in Events : /\ times'[d] <= ts[d]
                           /\ Rises(ts, d) => times'[d] = ts[d]
<1>1. /\ Last \in Int /\ \A d \in Events : d \in Int /\ d < Last + 1
      /\ times'[e] = x /\ ts[e] \in Int /\ InInterval(ts[e])
  BY EventIndices DEF Events
<1>2. TimeOfEarlier(x, e) => (x <= ts[e] /\ ~Rises(ts, e)) \/ x < ts[e]
  <2>1. SUFFICES ASSUME NEW g \in Events, g < e, x = times[g]
                 PROVE  (x <= ts[e] /\ ~Rises(ts, e)) \/ x < ts[e]
    BY DEF TimeOfEarlier
  <2>2. x <= ts[g] /\ ts[g] <= ts[e] /\ ts[g] \in Int
    BY <1>1, <2>1 DEF Follows, Ordered
  <2> QED
    BY <1>1, <2>1, <2>2 DEF Rises
<1>3. AsTold(msg, range, times', e)
  <2>1. AsTold(msg, range, ts, e)
    BY DEF TakenAsTold
  <2>2. CASE AppliedTo(msg, range, e).kind = "time" /\ AppliedTo(msg, range, e) # NoEvent
    <3>1. ts[e] = AppliedTo(msg, range, e).value
      BY <2>1, <2>2 DEF AsTold
    <3>2. times'[e] <= ts[e]
      BY <1>1, <1>2, <2>2, <3>1
    <3> QED
      BY <1>1, <2>1, <3>2, FollowsTold
  <2>3. CASE ~(AppliedTo(msg, range, e).kind = "time" /\ AppliedTo(msg, range, e) # NoEvent)
    BY <2>1, <2>3 DEF AsTold
  <2> QED
    BY <2>2, <2>3
<1>4. x <= ts[e] /\ (Rises(ts, e) => x = ts[e])
  <2>1. CASE \A f \in -1..e : ~WritesFrom(msg, range, f, e)
    BY <1>1, <1>3, <2>1 DEF Follows
  <2>2. CASE \E f \in -1..e : WritesFrom(msg, range, f, e)
    <3>1. PICK f \in -1..e : WritesFrom(msg, range, f, e)
      BY <2>2
    <3> DEFINE aim == Aim(msg, range, f, e)
    <3>2. /\ aim <= ts[e]
          /\ ts[e] = aim \/ \E g \in Events : g < e /\ ts[e] <= ts[g]
      BY <3>1 DEF Settled, Reached
    <3>3. aim <= x /\ (x = aim \/ TimeOfEarlier(x, e))
      BY <1>1, <1>3, <3>1
    <3> HIDE DEF aim
    <3>4. Rises(ts, e) => ts[e] = aim
      BY <1>1, <3>2 DEF Rises
    <3> QED
      BY <1>1, <1>2, <3>2, <3>3, <3>4
  <2> QED
    BY <2>1, <2>2
<1>5. ASSUME NEW d \in Events, d # e
      PROVE  times'[d] <= ts[d] /\ (Rises(ts, d) => times'[d] = ts[d])
  BY <1>5 DEF Follows
<1> QED
  BY <1>1, <1>4, <1>5

\* In a repeated walk the events before have been taken as told again.
LEMMA RepeatedTold ==
  ASSUME times \in [Events -> Int], NEW ts \in [Events -> Int],
         \A d \in Events : InInterval(ts[d]), TakenAsTold(msg, range, ts),
         \A d \in Events : Follows(ts, d), NEW p \in Int, EventsWalked(p)
  PROVE  ToldBefore(p)
<1> SUFFICES ASSUME NEW e \in Events, e < p PROVE AsTold(msg, range, times, e)
  BY DEF ToldBefore
<1>1. /\ ts[e] \in Int /\ times[e] \in Int /\ InInterval(ts[e]) /\ times[e] <= ts[e]
      /\ AsTold(msg, range, ts, e) /\ AbsoluteHeld(msg, range, times, e)
  BY DEF TakenAsTold, Follows, EventsWalked
<1> QED
  BY <1>1, FollowsTold

\* A step of the walk leads to the walk before event q.
LEMMA WalkStep ==
  ASSUME ResendInv, Updating, UNCHANGED <<present, msg, range, last>>,
         phase' \in {"arr", "dep", "raise"}, phase' = "raise" => event' = 0,
         phase' = "dep" => msg[stop'].rel # "bad_track",
         \A e \in Events : InInterval(times'[e]),
         NEW q \in Int, Walked(q)',
         phase' = "arr" => q = arr(stop'), phase' = "dep" => q = dep(stop'),
         phase' = "raise" => q = Last + 1,
         last # NothingSent /\ TakenAsTold(msg, range, last.times) =>
           \A e \in Events : /\ times'[e] <= last.times[e]
                             /\ Rises(last.times, e) => times'[e] = last.times[e]
  PROVE  ResendInv'
<1>1. /\ \A p \in Int : At(p)' => p = q
      /\ \A k \in Int : Restored(k)' => k = 0
      /\ \A e \in Events : ~(e < 0)
      /\ Updating'
  BY DEF At, Restored, Events, Updating
<1>2. phase' \in {"raise", "finish"} => EventsWalked(Last + 1)'
  BY DEF Walked
<1>3. \A k \in Int : Restored(k)' => Ordered(times', k)
  BY <1>1 DEF Ordered
<1>4. LastInv'
  <2>1. SUFFICES ASSUME last # NothingSent
                 PROVE  /\ last.times \in [Events -> Int]
                        /\ \A e \in Events : InInterval(last.times[e])
                        /\ Ordered(last.times, Last + 1)
                        /\ last.msg = msg /\ last.range = range
                        /\ TakenAsTold(last.msg, last.range, last.times) =>
                             /\ Settled(last.msg, last.range, last.times)
                             /\ Repeated(last.times)'
    BY <1>1 DEF LastInv
  <2>2. last.msg = msg /\ last.range = range
    BY <2>1 DEF ResendInv, LastInv, Updating
  <2>3. TakenAsTold(msg, range, last.times) => Repeated(last.times)'
    BY <1>1, <2>1 DEF Repeated, Follows
  <2> QED
    BY <2>1, <2>2, <2>3 DEF ResendInv, LastInv
<1> QED
  BY <1>1, <1>2, <1>3, <1>4 DEF ResendInv

\* What a repeated update keeps while no time changes.
LEMMA StillFollows ==
  ASSUME ResendInv, Updating, UNCHANGED times
  PROVE  last # NothingSent /\ TakenAsTold(msg, range, last.times) =>
           \A e \in Events : /\ times'[e] <= last.times[e]
                             /\ Rises(last.times, e) => times'[e] = last.times[e]
BY DEF ResendInv, LastInv, Updating, Repeated, Follows

\* One event visited: the walk goes on behind it and follows the times before.
LEMMA VisitedOn ==
  ASSUME TypeOK, ResendInv, Updating, UNCHANGED <<msg, range>>,
         NEW e \in Events, NEW lower \in Int, NEW prev \in PredType, NEW none \in BOOLEAN,
         Walked(e), e = 0 => lower = Epoch, e # 0 => TimeOfEarlier(lower, e),
         prev.valid => TimeOfEarlier(prev.time, e),
         Gives(msg, range, e) \/ (ToldBefore(e) => Carried(msg, range, prev, none, e)),
         Visited(msg, range, e),
         VisitEvent(e, AppliedTo(msg, range, e), lower, prev, none)
  PROVE  /\ Walked(e + 1)'
         /\ \A d \in Events : InInterval(times'[d])
         /\ last # NothingSent /\ TakenAsTold(msg, range, last.times) =>
              \A d \in Events : /\ times'[d] <= last.times[d]
                                /\ Rises(last.times, d) => times'[d] = last.times[d]
<1> DEFINE Wrote ==
             /\ \A f \in -1..e : WritesFrom(msg, range, f, e) =>
                  /\ Aim(msg, range, f, e) <= times'[e]
                  /\ times'[e] = Aim(msg, range, f, e) \/ TimeOfEarlier(times'[e], e)
             /\ (\A f \in -1..e : ~WritesFrom(msg, range, f, e)) => times'[e] = times[e]
<1>1. /\ times \in [Events -> Int] /\ \A d \in Events : InInterval(times[d])
      /\ e \in Int /\ e >= -1 /\ \A d \in Events : d \in Int
  BY DEF TypeOK, ResendInv, Events
<1>2. /\ \E x \in Int : InInterval(x) /\ times' = [times EXCEPT ![e] = x]
      /\ pred'.valid => pred'.time = times'[e]
      /\ AbsoluteHeld(msg, range, times', e)
      /\ AppliedTo(msg, range, e).kind = "time" =>
           \/ times'[e] = AppliedTo(msg, range, e).value
           \/ TimeOfEarlier(times'[e], e)
           \/ ~InInterval(AppliedTo(msg, range, e).value)
      /\ AsTold(msg, range, times', e) /\ ToldBefore(e) =>
           Carried(msg, range, pred', no_data', e) /\ Wrote
  BY <1>1, VisitKeeps
<1>3. PICK x \in Int : InInterval(x) /\ times' = [times EXCEPT ![e] = x]
  BY <1>2
<1>4. /\ times' \in [Events -> Int] /\ times'[e] = x
      /\ \A d \in Events : d # e => times'[d] = times[d]
  BY <1>1, <1>3
<1>5. \A d \in Events : InInterval(times'[d])
  BY <1>1, <1>3, <1>4
<1>6. ASSUME Wrote PROVE Reached(msg, range, times', e)
  <2>1. TimeOfEarlier(times'[e], e) => \E g \in Events : g < e /\ times'[e] <= times'[g]
    BY <1>1, <1>4 DEF TimeOfEarlier
  <2> QED
    BY <1>6, <2>1 DEF Reached
<1> HIDE DEF Wrote
<1>7. pred'.valid => \E g \in Events : g < e + 1 /\ pred'.time = times'[g]
  BY <1>1, <1>2
<1>8. Walked(e + 1)'
  BY <1>1, <1>2, <1>4, <1>6, <1>7, WalkedOn
<1>9. ASSUME last # NothingSent, TakenAsTold(msg, range, last.times)
      PROVE  \A d \in Events : /\ times'[d] <= last.times[d]
                               /\ Rises(last.times, d) => times'[d] = last.times[d]
  <2>1. /\ last.msg = msg /\ last.range = range /\ last.times \in [Events -> Int]
        /\ \A d \in Events : InInterval(last.times[d])
        /\ Ordered(last.times, Last + 1)
        /\ Settled(msg, range, last.times)
        /\ \A d \in Events : Follows(last.times, d)
    BY <1>9 DEF ResendInv, LastInv, Updating, Repeated
  <2>2. ToldBefore(e)
    BY <1>1, <1>9, <2>1, RepeatedTold DEF Walked
  <2>3. AsTold(msg, range, times', e) => Wrote
    BY <1>2, <2>2
  <2> QED
    BY <1>1, <1>2, <1>3, <1>9, <2>1, <2>3, VisitFollows DEF Wrote
<1> QED
  BY <1>5, <1>8, <1>9

LEMMA WalkIndices ==
  ASSUME TypeOK, phase \in {"arr", "dep"}
  PROVE  /\ stop \in range.from..(range.to - 1) /\ stop \in Int
         /\ range \in StopRange /\ range.from \in Nat /\ range.to \in Nat
         /\ range.to <= NStops /\ NStops \in Nat /\ Last = 2 * NStops - 3
         /\ arr(stop) = 2 * stop - 1 /\ dep(stop) = 2 * stop
         /\ arr(range.to - 1) = 2 * range.to - 3
         /\ stop # range.from => arr(stop) \in Events /\ dep(stop - 1) \in Events
         /\ stop + 1 # range.to => dep(stop) \in Events
         /\ stop # 0 => arr(stop) \in Events
<1>1. /\ range \in StopRange /\ stop \in Stops
      /\ range.from <= stop /\ stop < range.to
  BY DEF TypeOK
<1>2. /\ range.from \in Nat /\ range.to \in Nat /\ range.to <= NStops
      /\ NStops \in Nat /\ stop \in Nat
  BY <1>1, RunAssumption DEF StopRange, Stops
<1>3. /\ arr(stop) = 2 * stop - 1 /\ dep(stop) = 2 * stop
      /\ dep(stop - 1) = 2 * (stop - 1)
      /\ arr(range.to - 1) = 2 * range.to - 3 /\ Last = 2 * NStops - 3
  BY <1>2 DEF arr, dep, Last
<1> QED
  BY <1>1, <1>2, <1>3 DEF Events

LEMMA ResendRefused == ASSUME TypeOK, ResendInv, RefuseTrack PROVE ResendInv'
<1>1. /\ phase = "arr" /\ msg[stop].rel = "bad_track" /\ NextStop
      /\ UNCHANGED <<present, msg, range, last, times, pred, no_data>>
  BY DEF RefuseTrack, data
<1>2. /\ stop \in range.from..(range.to - 1) /\ stop \in Int
      /\ range \in StopRange /\ range.from \in Nat /\ range.to \in Nat
      /\ range.to <= NStops /\ NStops \in Nat /\ Last = 2 * NStops - 3
      /\ arr(stop) = 2 * stop - 1 /\ dep(stop) = 2 * stop
      /\ arr(range.to - 1) = 2 * range.to - 3
      /\ msg \in [Stops -> StopTimeUpdate]
  BY <1>1, WalkIndices DEF TypeOK
<1>3. PICK p \in Int : p = arr(stop)
  BY <1>2
<1>4. PICK q \in Int : q = IF stop + 1 = range.to THEN Last + 1 ELSE p + 2
  BY <1>2, <1>3
<1>5. Walked(p) /\ Updating
  BY <1>1, <1>3 DEF ResendInv, At, Updating
<1>6. AppliedTo(msg, range, arr(stop)) = NoEvent /\ AppliedTo(msg, range, dep(stop)) = NoEvent
  BY <1>1, <1>2, AppliedToStop
<1>7. /\ Neutral(msg, range, arr(stop)) /\ ~Visited(msg, range, arr(stop))
      /\ Neutral(msg, range, dep(stop)) /\ ~Visited(msg, range, dep(stop))
  BY <1>1, <1>2, <1>6, AppliedToStop DEF Neutral, Gives
<1>8. \A e \in p..(q - 1) : Neutral(msg, range, e) /\ ~Visited(msg, range, e)
  <2>1. SUFFICES ASSUME NEW e \in p..(q - 1) PROVE Neutral(msg, range, e) /\ ~Visited(msg, range, e)
    OBVIOUS
  <2>2. CASE e = arr(stop) \/ e = dep(stop)
    BY <1>7, <2>2
  <2>3. CASE ~(e = arr(stop) \/ e = dep(stop))
    <3>1. e \in Int /\ e > arr(range.to - 1)
      BY <1>2, <1>3, <1>4, <2>3
    <3> QED
      BY <1>2, <3>1, BeyondRange
  <2> QED
    BY <2>2, <2>3
<1>9. p <= q
  BY <1>2, <1>3, <1>4
<1>10. Walked(q)'
  BY <1>1, <1>5, <1>8, <1>9, WalkPasses
<1>11. /\ phase' \in {"arr", "raise"} /\ (phase' = "raise" => event' = 0 /\ q = Last + 1)
       /\ phase' = "arr" => q = arr(stop')
  BY <1>1, <1>2, <1>3, <1>4 DEF NextStop, arr
<1>12. \A e \in Events : InInterval(times'[e])
  BY <1>1 DEF ResendInv
<1>13. last # NothingSent /\ TakenAsTold(msg, range, last.times) =>
         \A e \in Events : /\ times'[e] <= last.times[e]
                           /\ Rises(last.times, e) => times'[e] = last.times[e]
  BY <1>1, <1>5, StillFollows
<1> QED
  BY <1>1, <1>5, <1>10, <1>11, <1>12, <1>13, WalkStep

\* The stop itself decides what is carried on to its arrival.
LEMMA BeforeArrival ==
  ASSUME TypeOK, phase = "arr", NEW p \in Int, p = arr(stop), p >= -1, Walked(p),
         NEW prev, prev = IF msg[stop].rel = "no_data" THEN NoPred ELSE pred,
         NEW none, none = (no_data \/ msg[stop].rel = "no_data")
  PROVE  /\ prev \in PredType /\ none \in BOOLEAN
         /\ prev.valid => TimeOfEarlier(prev.time, p)
         /\ \/ Gives(msg, range, p)
            \/ ToldBefore(p) => Carried(msg, range, prev, none, p)
<1>1. /\ stop \in range.from..(range.to - 1) /\ range \in StopRange
      /\ msg \in [Stops -> StopTimeUpdate] /\ pred \in PredType /\ no_data \in BOOLEAN
  BY WalkIndices DEF TypeOK, PredType
<1>2. prev \in PredType /\ none \in BOOLEAN /\ (prev.valid => TimeOfEarlier(prev.time, p))
  BY <1>1 DEF NoPred, PredType, Walked
<1>3. Silences(msg, range, p) <=> msg[stop].rel = "no_data"
  BY <1>1, AppliedToStop
<1>4. ASSUME ~Gives(msg, range, p), ToldBefore(p) PROVE Carried(msg, range, prev, none, p)
  <2>1. CASE msg[stop].rel = "no_data"
    <3>1. Source(msg, range, p, p) /\ p \in -1..p
      BY <1>3, <2>1, SourceItself DEF Neutral
    <3> QED
      BY <1>3, <2>1, <3>1 DEF Carried, NoPred
  <2>2. CASE msg[stop].rel # "no_data"
    <3>1. \A e \in p..((p + 1) - 1) : Neutral(msg, range, e)
      BY <1>3, <1>4, <2>2 DEF Neutral
    <3>2. Carried(msg, range, pred, no_data, p - 1)
      BY <1>4 DEF Walked
    <3>3. Carried(msg, range, pred, no_data, (p + 1) - 1)
      BY <3>1, <3>2, CarriedOn
    <3>4. prev = pred /\ none = no_data /\ (p + 1) - 1 = p
      BY <1>1, <2>2
    <3> QED
      BY <3>3, <3>4
  <2> QED
    BY <2>1, <2>2
<1> QED
  BY <1>2, <1>4

LEMMA ResendArrival == ASSUME TypeOK, ResendInv, VisitArrival PROVE ResendInv'
<1>1. PICK prev : prev = IF msg[stop].rel = "no_data" THEN NoPred ELSE pred
  OBVIOUS
<1>2. PICK none : none = (no_data \/ msg[stop].rel = "no_data")
  OBVIOUS
<1>3. PICK p : p = arr(stop)
  OBVIOUS
<1>4. /\ phase = "arr" /\ msg[stop].rel # "bad_track" /\ phase' = "dep"
      /\ UNCHANGED <<present, msg, range, last, stop>>
      /\ IF stop = range.from THEN LeaveEvent(prev, none)
         ELSE VisitEvent(p, Given(msg[stop].arrival), times[dep(stop - 1)], prev, none)
  BY <1>1, <1>2, <1>3 DEF VisitArrival
<1>5. /\ stop \in range.from..(range.to - 1) /\ stop \in Int
      /\ range \in StopRange /\ range.from \in Nat
      /\ arr(stop) = 2 * stop - 1 /\ dep(stop) = 2 * stop
      /\ stop # range.from => arr(stop) \in Events /\ dep(stop - 1) \in Events
      /\ dep(stop - 1) = 2 * (stop - 1)
      /\ msg \in [Stops -> StopTimeUpdate] /\ times \in [Events -> Int]
  BY <1>4, WalkIndices DEF TypeOK, dep
<1>6. Walked(p) /\ Updating /\ p \in Int /\ p >= -1 /\ p + 1 = dep(stop)
  BY <1>3, <1>4, <1>5 DEF ResendInv, At, Updating
<1>7. /\ prev \in PredType /\ none \in BOOLEAN
      /\ prev.valid => TimeOfEarlier(prev.time, p)
      /\ \/ Gives(msg, range, p)
         \/ ToldBefore(p) => Carried(msg, range, prev, none, p)
  BY <1>1, <1>2, <1>3, <1>4, <1>6, BeforeArrival
<1> DEFINE Goal ==
      /\ Walked(p + 1)'
      /\ \A d \in Events : InInterval(times'[d])
      /\ last # NothingSent /\ TakenAsTold(msg, range, last.times) =>
           \A d \in Events : /\ times'[d] <= last.times[d]
                             /\ Rises(last.times, d) => times'[d] = last.times[d]
<1>8. ASSUME stop = range.from PROVE Goal
  <2>1. UNCHANGED times /\ pred' = prev /\ no_data' = none
    BY <1>4, <1>8 DEF LeaveEvent
  <2>2. AppliedTo(msg, range, p) = NoEvent /\ ~Visited(msg, range, p)
    BY <1>3, <1>5, <1>8, AppliedToStop
  <2>3. AbsoluteHeld(msg, range, times', p) /\ Reached(msg, range, times', p)
    BY <2>2 DEF AbsoluteHeld, NoEvent, Reached, WritesFrom
  <2>4. ToldBefore(p) => Carried(msg, range, pred', no_data', p)
    BY <1>7, <2>1, <2>2 DEF Gives
  <2>5. pred'.valid => \E g \in Events : g < p + 1 /\ pred'.time = times'[g]
    BY <1>6, <1>7, <2>1 DEF TimeOfEarlier, Events
  <2>6. Walked(p + 1)'
    BY <1>4, <1>5, <1>6, <2>1, <2>3, <2>4, <2>5, WalkedOn
  <2>7. \A d \in Events : InInterval(times'[d])
    BY <2>1 DEF ResendInv
  <2> QED
    BY <1>6, <2>1, <2>6, <2>7, StillFollows
<1>9. ASSUME stop # range.from PROVE Goal
  <2>1. Given(msg[stop].arrival) = AppliedTo(msg, range, p) /\ Visited(msg, range, p)
    BY <1>3, <1>4, <1>5, <1>9, AppliedToStop DEF Given, HasData
  <2>2. p \in Events /\ p # 0
    BY <1>3, <1>5, <1>9
  <2>3. TimeOfEarlier(times[dep(stop - 1)], p) /\ times[dep(stop - 1)] \in Int
    BY <1>3, <1>5, <1>9 DEF TimeOfEarlier
  <2>4. VisitEvent(p, AppliedTo(msg, range, p), times[dep(stop - 1)], prev, none)
    BY <1>4, <1>9, <2>1
  <2> QED
    BY <1>4, <1>6, <1>7, <2>1, <2>2, <2>3, <2>4, VisitedOn
<1>10. Goal
  BY <1>8, <1>9
<1>11. p + 1 \in Int /\ p + 1 = dep(stop')
  BY <1>4, <1>6
<1>12. msg[stop'].rel # "bad_track"
  BY <1>4
<1> QED
  BY <1>4, <1>6, <1>10, <1>11, <1>12, WalkStep

LEMMA ResendDeparture == ASSUME TypeOK, ResendInv, VisitDeparture PROVE ResendInv'
<1>1. PICK p : p = dep(stop)
  OBVIOUS
<1> DEFINE arrival == Given(msg[stop].arrival)
           departure == Given(msg[stop].departure)
           lower == IF stop = 0 THEN Epoch ELSE times[arr(stop)]
           Goal == /\ \A d \in Events : InInterval(times'[d])
                   /\ last # NothingSent /\ TakenAsTold(msg, range, last.times) =>
                        \A d \in Events : /\ times'[d] <= last.times[d]
                                          /\ Rises(last.times, d) => times'[d] = last.times[d]
<1>2. /\ phase = "dep" /\ NextStop
      /\ UNCHANGED <<present, msg, range, last>>
  BY DEF VisitDeparture
<1>3. /\ stop \in range.from..(range.to - 1) /\ stop \in Int
      /\ range \in StopRange /\ range.from \in Nat /\ range.to \in Nat
      /\ range.to <= NStops /\ NStops \in Nat /\ Last = 2 * NStops - 3
      /\ arr(stop) = 2 * stop - 1 /\ dep(stop) = 2 * stop
      /\ arr(range.to - 1) = 2 * range.to - 3
      /\ stop + 1 # range.to => dep(stop) \in Events
      /\ stop # 0 => arr(stop) \in Events
      /\ msg \in [Stops -> StopTimeUpdate] /\ times \in [Events -> Int]
      /\ pred \in PredType /\ no_data \in BOOLEAN /\ Epoch \in Int
      /\ \A e \in Events : e \in Nat
  <2>1. /\ pred \in PredType /\ no_data \in BOOLEAN /\ Epoch \in Int
        /\ msg \in [Stops -> StopTimeUpdate] /\ times \in [Events -> Int]
        /\ \A e \in Events : e \in Nat
    BY TimeAssumption DEF TypeOK, PredType, Events
  <2> QED
    BY <1>2, <2>1, WalkIndices
<1>4. Walked(p) /\ Updating /\ p \in Int /\ msg[stop].rel # "bad_track"
  BY <1>1, <1>2, <1>3 DEF ResendInv, At, Updating
<1>5. ASSUME stop + 1 = range.to
      PROVE  Walked(Last + 1)' /\ Goal
  <2>1. stop # 0
    BY <1>3, <1>5 DEF StopRange
  <2>2. UNCHANGED <<times, pred, no_data>>
    BY <1>5, <2>1 DEF VisitDeparture, LeaveEvent
  <2>3. \A e \in p..((Last + 1) - 1) : Neutral(msg, range, e) /\ ~Visited(msg, range, e)
    <3>1. \A e \in p..((Last + 1) - 1) : e \in Int /\ e > arr(range.to - 1)
      BY <1>1, <1>3, <1>5
    <3> QED
      BY <1>3, <3>1, BeyondRange
  <2>4. p <= Last + 1 /\ Last + 1 \in Int
    BY <1>1, <1>3, <1>5
  <2>5. Walked(Last + 1)'
    BY <1>2, <1>4, <2>2, <2>3, <2>4, WalkPasses
  <2> QED
    BY <1>4, <2>2, <2>5, StillFollows DEF ResendInv
<1>6. ASSUME stop + 1 # range.to
      PROVE  Walked(p + 1)' /\ Goal
  <2>1. p \in Events /\ Visited(msg, range, p) /\ ~Silences(msg, range, p)
    BY <1>1, <1>3, <1>4, <1>6, AppliedToStop
  <2>2. AppliedTo(msg, range, p) =
          IF stop = 0 /\ departure = NoEvent THEN arrival ELSE departure
    BY <1>1, <1>3, <1>6, AppliedToStop DEF Given, HasData
  <2>3. pred.valid => TimeOfEarlier(pred.time, p) /\ p # 0
    BY <1>3, <1>4, <2>1 DEF Walked, TimeOfEarlier
  <2>4. /\ lower \in Int
        /\ p = 0 => lower = Epoch
        /\ p # 0 => TimeOfEarlier(lower, p)
    BY <1>1, <1>3 DEF TimeOfEarlier
  <2>5. VisitEvent(p, AppliedTo(msg, range, p), lower, pred, no_data)
    <3>1. CASE stop = 0 /\ arrival # NoEvent /\ departure = NoEvent
      <4>1. update_event(dep(0), arrival, Epoch) /\ no_data' = FALSE
        BY <3>1 DEF VisitDeparture
      <4>2. dep(0) = p /\ p = 0 /\ lower = Epoch /\ AppliedTo(msg, range, p) = arrival
        BY <1>1, <1>3, <2>2, <3>1
      <4> HIDE DEF arrival, departure, lower
      <4> QED
        BY <2>3, <3>1, <4>1, <4>2 DEF VisitEvent
    <3>2. CASE ~(stop = 0 /\ arrival # NoEvent /\ departure = NoEvent)
      <4>1. VisitEvent(dep(stop), departure, lower, pred, no_data)
        BY <1>6, <3>2 DEF VisitDeparture
      <4> QED
        BY <1>1, <2>2, <3>2, <4>1
    <3> QED
      BY <3>1, <3>2
  <2> HIDE DEF lower
  <2>6. Gives(msg, range, p) \/ (ToldBefore(p) => Carried(msg, range, pred, no_data, p))
    <3>1. SUFFICES ASSUME ~Gives(msg, range, p), ToldBefore(p)
                   PROVE  Carried(msg, range, pred, no_data, p)
      OBVIOUS
    <3>2. \A e \in p..((p + 1) - 1) : Neutral(msg, range, e)
      BY <1>4, <2>1, <3>1 DEF Neutral
    <3>3. Carried(msg, range, pred, no_data, p - 1)
      BY <1>4, <3>1 DEF Walked
    <3>4. p \in Int /\ p <= p + 1 /\ (p + 1) - 1 = p
      BY <1>4
    <3>5. Carried(msg, range, pred, no_data, (p + 1) - 1)
      BY <3>2, <3>3, <3>4, CarriedOn
    <3> QED
      BY <3>4, <3>5
  <2> QED
    BY <1>2, <1>3, <1>4, <2>1, <2>3, <2>4, <2>5, <2>6, VisitedOn
<1> HIDE DEF Goal
<1>7. PICK q \in Int : q = IF stop + 1 = range.to THEN Last + 1 ELSE p + 1
  BY <1>3, <1>4
<1>8. Walked(q)' /\ Goal
  BY <1>5, <1>6, <1>7
<1>9. /\ phase' \in {"arr", "raise"} /\ (phase' = "raise" => event' = 0 /\ q = Last + 1)
      /\ phase' = "arr" => q = arr(stop')
  BY <1>1, <1>2, <1>3, <1>7 DEF NextStop, arr
<1> QED
  BY <1>2, <1>4, <1>8, <1>9, WalkStep DEF Goal

(***************************************************************************)
(* The final pass, and the steps outside of the walk.                      *)
(***************************************************************************)
LEMMA ResendRaise == ASSUME TypeOK, TypeOK', ResendInv, RaiseEvent PROVE ResendInv'
<1>1. /\ phase = "raise" /\ UNCHANGED <<present, msg, range, last>>
      /\ times \in [Events -> Int] /\ event \in Events /\ Updating
      /\ \A d \in Events : InInterval(times[d])
      /\ EventsWalked(Last + 1) /\ Ordered(times, event) /\ present
      /\ Last \in Int /\ \A d \in Events : d \in Int /\ 0 <= d /\ d < Last + 1
      /\ event # 0 => event - 1 \in Events
      /\ times' \in [Events -> Int]
  BY EventIndices DEF RaiseEvent, TypeOK, ResendInv, Updating, Restored, Events
<1> DEFINE Raised == event # 0 /\ times[event] < times[event - 1]
<1>2. IF Raised THEN times' = [times EXCEPT ![event] = times[event - 1]]
                ELSE times' = times
  <2>1. ~(times[0] < MinDelta) \/ 0 \notin Events
    BY <1>1, TimeAssumption DEF InInterval
  <2> QED
    BY <1>1, <2>1 DEF RaiseEvent
<1>3. /\ \A d \in Events : d # event => times'[d] = times[d]
      /\ Raised => times'[event] = times[event - 1]
      /\ ~Raised => times'[event] = times[event]
      /\ Raised => times[event] < times'[event]
      /\ \A d \in Events : times[d] <= times'[d]
      /\ \A d \in Events : InInterval(times'[d])
  BY <1>1, <1>2
<1>4. /\ phase' \in {"raise", "finish"}
      /\ phase' = "raise" => event' = event + 1
      /\ phase' = "finish" => event = Last
  BY <1>1 DEF RaiseEvent, RaiseNext
<1>5. EventsWalked(Last + 1)'
  <2>1. ASSUME NEW e \in Events PROVE AbsoluteHeld(msg, range, times', e)
    <3>1. SUFFICES ASSUME AppliedTo(msg, range, e).kind = "time",
                          InInterval(AppliedTo(msg, range, e).value)
                   PROVE  AppliedTo(msg, range, e).value <= times'[e]
      BY DEF AbsoluteHeld
    <3>2. AppliedTo(msg, range, e).value <= times[e] /\ AppliedTo(msg, range, e).value \in Int
      BY <1>1, <3>1, AppliedToType DEF EventsWalked, AbsoluteHeld, TypeOK
    <3> QED
      BY <1>1, <1>3, <3>2
  <2>2. ASSUME NEW e \in Events, AsTold(msg, range, times', e)
        PROVE  AsTold(msg, range, times, e)
    <3>1. CASE e # event \/ ~Raised
      <4>1. times'[e] = times[e]
        BY <1>3, <3>1
      <4> QED
        BY <2>2, <4>1 DEF AsTold
    <3>2. CASE e = event /\ Raised
      <4>1. SUFFICES ASSUME AppliedTo(msg, range, e).kind = "time",
                            times'[e] = AppliedTo(msg, range, e).value
                     PROVE  FALSE
        BY <2>2 DEF AsTold
      <4>2. AppliedTo(msg, range, e).value <= times[e]
        BY <1>1, <1>3, <4>1 DEF EventsWalked, AbsoluteHeld
      <4> QED
        BY <1>1, <1>3, <3>2, <4>1, <4>2
    <3> QED
      BY <3>1, <3>2
  <2>3. ASSUME \A e \in Events : AsTold(msg, range, times', e), NEW e \in Events
        PROVE  Reached(msg, range, times', e)
    <3>1. Reached(msg, range, times, e)
      BY <1>1, <2>2, <2>3 DEF EventsWalked, ToldBefore
    <3>2. SUFFICES ASSUME NEW f \in -1..e, WritesFrom(msg, range, f, e)
                   PROVE  /\ Aim(msg, range, f, e) <= times'[e]
                          /\ \/ times'[e] = Aim(msg, range, f, e)
                             \/ \E g \in Events : g < e /\ times'[e] <= times'[g]
      BY DEF Reached
    <3> DEFINE aim == Aim(msg, range, f, e)
    <3>3. /\ aim <= times[e]
          /\ times[e] = aim \/ \E g \in Events : g < e /\ times[e] <= times[g]
      BY <3>1, <3>2 DEF Reached
    <3>4. aim \in Int
      <4>1. StaticTime \in [Events -> Int] /\ Epoch \in Int /\ e \in Int
        BY <1>1, TimeAssumption
      <4>2. Gives(msg, range, f) => f \in Events
        <5>1. /\ range.from \in Nat /\ range.to \in Nat /\ range.to <= NStops
              /\ f \in Int /\ Last = 2 * NStops - 3 /\ NStops \in Nat
              /\ dep(range.from) = 2 * range.from /\ arr(range.to - 1) = 2 * range.to - 3
          <6>1. e \in Int /\ f \in Int /\ range \in StopRange
            BY <1>1 DEF TypeOK
          <6>2. /\ range.from \in Nat /\ range.to \in Nat /\ range.to <= NStops
                /\ NStops \in Nat
            BY <6>1, RunAssumption DEF StopRange, Stops
          <6> QED
            BY <6>1, <6>2 DEF dep, arr, Last
        <5>2. Gives(msg, range, f) => dep(range.from) <= f /\ f <= arr(range.to - 1)
          BY DEF Gives, AppliedTo
        <5> QED
          BY <5>1, <5>2 DEF Events
      <4>3. f \in Int /\ msg \in [Stops -> StopTimeUpdate] /\ range \in StopRange
        BY <1>1 DEF TypeOK
      <4>4. AppliedTo(msg, range, f).value \in Int /\ AppliedTo(msg, range, e).value \in Int
        BY <4>1, <4>3, AppliedToType
      <4>5. ~Silences(msg, range, f) => Gives(msg, range, f)
        BY <3>2 DEF WritesFrom, Source, Neutral
      <4> QED
        BY <4>1, <4>2, <4>4, <4>5 DEF Aim, DelayOf
    <3> HIDE DEF aim
    <3>5. CASE e # event \/ ~Raised
      <4>1. times'[e] = times[e]
        BY <1>3, <3>5
      <4>2. ASSUME NEW g \in Events, g < e, times[e] <= times[g]
            PROVE  g < e /\ times'[e] <= times'[g]
        BY <1>1, <1>3, <4>1, <4>2
      <4> QED
        BY <3>3, <4>1, <4>2 DEF aim
    <3>6. CASE e = event /\ Raised
      <4>1. aim <= times'[e]
        BY <1>1, <1>3, <3>3, <3>4
      <4>2. event - 1 \in Events /\ event - 1 < e /\ times'[e] <= times'[event - 1]
        BY <1>1, <1>3, <3>6
      <4> QED
        BY <4>1, <4>2 DEF aim
    <3> QED
      BY <3>5, <3>6
  <2> QED
    BY <1>1, <2>1, <2>3 DEF EventsWalked, ToldBefore
<1>6. \A k \in Int : Restored(k)' => k = event + 1
  BY <1>4 DEF Restored
<1>7. Ordered(times', event + 1)
  <2>1. SUFFICES ASSUME NEW d \in Events, NEW e \in Events, d < e, e < event + 1
                 PROVE  times'[d] <= times'[e]
    BY DEF Ordered
  <2>2. CASE e < event
    BY <1>1, <1>3, <2>1, <2>2 DEF Ordered
  <2>3. CASE e = event
    <3>1. /\ event # 0 /\ d \in Int /\ times'[d] = times[d]
          /\ times[d] \in Int /\ times[event - 1] \in Int /\ times'[event] \in Int
      BY <1>1, <1>3, <2>1, <2>3
    <3>2. d = event - 1 \/ (d < event - 1 /\ event - 1 < event)
      BY <1>1, <2>1, <2>3
    <3>3. times[d] <= times[event - 1]
      BY <1>1, <3>1, <3>2 DEF Ordered
    <3>4. times[event - 1] <= times'[event]
      BY <1>1, <1>3, <3>1
    <3> QED
      BY <2>3, <3>1, <3>3, <3>4
  <2> QED
    BY <1>1, <2>1, <2>2, <2>3
<1>8. ASSUME last # NothingSent, TakenAsTold(msg, range, last.times)
      PROVE  Repeated(last.times)'
  <2>1. PICK ts \in [Events -> Int] : ts = last.times
    BY <1>8 DEF ResendInv, LastInv
  <2>2. /\ Ordered(ts, Last + 1)
        /\ \A e \in Events : Follows(ts, e)
        /\ \A e \in Events : e < event => times[e] = ts[e]
    BY <1>1, <1>8, <2>1 DEF ResendInv, LastInv, Updating, Repeated, Restored
  <2>3. ts[event] \in Int /\ times[event] \in Int /\ times[event] <= ts[event]
    BY <1>1, <2>2 DEF Follows
  <2>4. CASE event = 0
    <3>1. Rises(ts, event) /\ ~Raised
      BY <1>1, <2>4 DEF Rises
    <3>2. times'[event] = ts[event]
      BY <1>3, <2>2, <3>1, <1>1 DEF Follows
    <3>3. \A e \in Events : times'[e] <= ts[e] /\ (Rises(ts, e) => times'[e] = ts[e])
      BY <1>1, <1>3, <2>2, <2>3, <3>2 DEF Follows
    <3>4. \A e \in Events : e < event + 1 => times'[e] = ts[e]
      BY <1>1, <2>4, <3>2
    <3> QED
      BY <1>1, <1>6, <2>1, <3>3, <3>4 DEF Repeated, Follows
  <2>5. CASE event # 0
    <3>1. PICK h \in Events : h = event - 1
      BY <1>1, <2>5
    <3>2. /\ h < event /\ times[h] = ts[h] /\ ts[h] \in Int /\ ts[h] <= ts[event]
      BY <1>1, <2>2, <3>1 DEF Ordered
    <3>3. ~Rises(ts, event) => ts[event] <= ts[h]
      <4>1. SUFFICES ASSUME NEW g \in Events, g < event, ~(ts[g] < ts[event])
                     PROVE  ts[event] <= ts[h]
        BY DEF Rises
      <4>2. g = h \/ g < h
        BY <1>1, <3>1, <4>1
      <4>3. ts[g] <= ts[h] /\ ts[g] \in Int
        BY <1>1, <2>2, <3>2, <4>2 DEF Ordered
      <4> QED
        BY <2>3, <3>2, <4>1, <4>3
    <3>4. Rises(ts, event) => times[event] = ts[event] /\ ts[h] < ts[event]
      BY <1>1, <2>2, <3>2 DEF Follows, Rises
    <3>5. times'[event] = ts[event]
      BY <1>1, <1>3, <2>3, <3>1, <3>2, <3>3, <3>4
    <3>6. \A e \in Events : times'[e] <= ts[e] /\ (Rises(ts, e) => times'[e] = ts[e])
      BY <1>1, <1>3, <2>2, <2>3, <3>5 DEF Follows
    <3>7. \A e \in Events : e < event + 1 => times'[e] = ts[e]
      BY <1>1, <1>3, <2>2, <3>5
    <3> QED
      BY <1>1, <1>6, <2>1, <3>6, <3>7 DEF Repeated, Follows
  <2> QED
    BY <2>4, <2>5
<1>9. LastInv'
  <2>1. SUFFICES ASSUME last # NothingSent PROVE LastInv'
    BY <1>1 DEF LastInv
  <2>2. /\ last.msg = msg /\ last.range = range
        /\ last.times \in [Events -> Int] /\ \A e \in Events : InInterval(last.times[e])
        /\ Ordered(last.times, Last + 1)
        /\ TakenAsTold(msg, range, last.times) => Settled(msg, range, last.times)
    BY <1>1, <2>1 DEF ResendInv, LastInv, Updating
  <2>3. Updating'
    BY <1>4 DEF Updating
  <2> QED
    BY <1>1, <1>8, <2>1, <2>2, <2>3 DEF LastInv
<1>10. /\ phase' # "dep" /\ \A p \in Int : ~At(p)'
  BY <1>4 DEF At
<1>11. \A k \in Int : Restored(k)' => Ordered(times', k)
  BY <1>6, <1>7
<1> QED
  BY <1>1, <1>3, <1>5, <1>9, <1>10, <1>11 DEF ResendInv

LEMMA ResendFinish == ASSUME TypeOK, ResendInv, FinishUpdate PROVE ResendInv'
<1>1. /\ phase = "finish" /\ phase' = "idle" /\ UNCHANGED <<present, times>>
      /\ last'.msg = msg /\ last'.range = range /\ last'.times = times
      /\ times \in [Events -> Int] /\ \A e \in Events : InInterval(times[e])
      /\ present /\ EventsWalked(Last + 1) /\ Ordered(times, Last + 1)
      /\ Last \in Int /\ \A e \in Events : e < Last + 1
  BY EventIndices DEF FinishUpdate, TypeOK, ResendInv, Updating, Restored, Events
<1>2. TakenAsTold(msg, range, times) => Settled(msg, range, times)
  BY <1>1 DEF TakenAsTold, Settled, EventsWalked, ToldBefore
<1>3. LastInv'
  <2>1. ~Updating'
    BY <1>1 DEF Updating
  <2>2. /\ Ordered(last'.times, Last + 1) /\ last'.times \in [Events -> Int]
        /\ \A e \in Events : InInterval(last'.times[e])
        /\ phase' = "idle" /\ present' /\ times' = last'.times
        /\ TakenAsTold(last'.msg, last'.range, last'.times) =>
             Settled(last'.msg, last'.range, last'.times)
    BY <1>1, <1>2
  <2> QED
    BY <2>1, <2>2 DEF LastInv
<1> QED
  BY <1>1, <1>3 DEF ResendInv, Updating, At, Restored

LEMMA AddKeepsInterval ==
  ASSUME TypeOK, ResendInv, AddIfMissing
  PROVE  \A e \in Events : InInterval(times'[e])
BY TimeAssumption DEF AddIfMissing, ResendInv, TypeOK

LEMMA ResendBegin ==
  ASSUME TypeOK, ResendInv, NEW m \in Messages, NEW r \in Ranges, BeginUpdate(m, r)
  PROVE  ResendInv'
<1>1. /\ phase = "idle" /\ phase' = "arr" /\ present' /\ msg' = m /\ range' = r
      /\ stop' = r.from /\ pred' = NoPred /\ no_data' = FALSE
      /\ last' = IF last.msg = m /\ last.range = r THEN last ELSE NothingSent
      /\ times \in [Events -> Int] /\ AddIfMissing /\ Updating'
  BY DEF BeginUpdate, AddIfMissing, TypeOK, Updating
<1>2. m \in [Stops -> StopTimeUpdate] /\ r \in StopRange /\ r.from \in Nat /\ r.to \in Nat
  BY RunAssumption DEF StopRange, Stops
<1>3. /\ arr(r.from) = 2 * r.from - 1 /\ dep(r.from) = 2 * r.from
      /\ \A s \in r.from..(r.to - 1) : arr(s) >= arr(r.from)
      /\ \A e \in Events : e \in Int
  BY <1>2 DEF arr, dep, Events
<1>4. \A e \in Int : e < arr(r.from) =>
        Neutral(m, r, e) /\ AppliedTo(m, r, e) = NoEvent /\ ~Visited(m, r, e)
  <2>1. SUFFICES ASSUME NEW e \in Int, e < arr(r.from)
                 PROVE  /\ Neutral(m, r, e) /\ AppliedTo(m, r, e) = NoEvent
                        /\ ~Visited(m, r, e)
    OBVIOUS
  <2>2. ~(dep(r.from) <= e) /\ \A s \in r.from..(r.to - 1) : e # arr(s)
    BY <1>2, <1>3, <2>1
  <2> QED
    BY <2>2 DEF Neutral, Gives, Silences, AppliedTo, Visited
<1>5. ASSUME NEW p \in Int, p = arr(r.from) PROVE Walked(p)'
  <2>1. Carried(m, r, NoPred, FALSE, p - 1)
    <3>1. \A f \in -1..(p - 1) : f \in Int /\ f < p
      BY <1>5
    <3> QED
      BY <1>4, <1>5, <3>1 DEF Carried, NoPred
  <2>2. \A e \in Events : e < p =>
          AbsoluteHeld(m, r, times', e) /\ Reached(m, r, times', e)
    BY <1>3, <1>4, <1>5 DEF AbsoluteHeld, Reached, WritesFrom, NoEvent
  <2> QED
    BY <1>1, <2>1, <2>2 DEF Walked, EventsWalked, NoPred
<1>6. \A p \in Int : At(p)' => Walked(p)'
  BY <1>1, <1>5 DEF At
<1>7. \A k \in Int : ~Restored(k)'
  BY <1>1 DEF Restored
<1>8. LastInv'
  <2>1. SUFFICES ASSUME last' # NothingSent PROVE LastInv'
    BY DEF LastInv
  <2>2. last' = last /\ last.msg = m /\ last.range = r /\ last # NothingSent
    BY <1>1, <2>1
  <2>3. /\ last.times \in [Events -> Int] /\ \A e \in Events : InInterval(last.times[e])
        /\ Ordered(last.times, Last + 1) /\ present /\ times = last.times
        /\ TakenAsTold(m, r, last.times) => Settled(m, r, last.times)
    BY <1>1, <2>2 DEF ResendInv, LastInv, Updating
  <2>4. times' = last.times
    BY <1>1, <2>3 DEF AddIfMissing
  <2>5. \A e \in Events : times'[e] <= last.times[e] /\ times'[e] = last.times[e]
    BY <2>3, <2>4
  <2>6. Repeated(last.times)'
    BY <1>7, <2>2, <2>5 DEF Repeated, Follows
  <2> QED
    BY <1>1, <2>2, <2>3, <2>6 DEF LastInv
<1>9. \A e \in Events : InInterval(times'[e])
  BY <1>1, AddKeepsInterval
<1> QED
  BY <1>1, <1>6, <1>7, <1>8, <1>9 DEF ResendInv

\* A step after which the next update does not repeat the one before.
LEMMA OtherStep ==
  ASSUME last' = NothingSent, phase' \in {"idle", "back", "back_arr"},
         \A e \in Events : InInterval(times'[e])
  PROVE  ResendInv'
BY DEF ResendInv, LastInv, Updating, At, Restored

LEMMA PositionTimes ==
  ASSUME TypeOK, ResendInv, NEW s \in Stops, NEW delay \in Delays, Position(s, delay)
  PROVE  \A e \in Events : InInterval(times'[e])
<1>1. \A e \in Events : InInterval(StaticTime[e]) /\ InInterval(times[e])
  BY TimeAssumption DEF ResendInv
<1> DEFINE written == {e \in Events : e >= FirstAffected(s)
                                      /\ InInterval(StaticTime[e] + delay)}
<1>2. times' = [e \in Events |-> IF e \in written THEN StaticTime[e] + delay
                                 ELSE (IF present THEN times ELSE StaticTime)[e]]
  BY DEF Position
<1> SUFFICES ASSUME NEW e \in Events PROVE InInterval(times'[e])
  OBVIOUS
<1>3. times'[e] = IF e \in written THEN StaticTime[e] + delay
                  ELSE (IF present THEN times ELSE StaticTime)[e]
  BY <1>2
<1> QED
  BY <1>1, <1>3

LEMMA BackKeepsInterval ==
  ASSUME TypeOK, ResendInv, BackDone \/ BackDeparture \/ BackArrival
  PROVE  /\ last = NothingSent /\ last' = last
         /\ phase' \in {"idle", "back", "back_arr"}
         /\ \A e \in Events : InInterval(times'[e])
<1>1. phase \in {"back", "back_arr"} /\ last' = last
  BY DEF BackDone, BackDeparture, BackArrival
<1>2. last = NothingSent
  BY <1>1 DEF ResendInv, LastInv, Updating
<1>3. ASSUME NEW e \in Int, NEW t, NEW st, update_time(e, t, st)
      PROVE  \A d \in Events : InInterval(times'[d])
  BY <1>3 DEF update_time, ResendInv, TypeOK
<1>4. \A e \in Events : InInterval(times'[e])
  <2>1. CASE BackDone
    BY <2>1 DEF BackDone, data, ResendInv
  <2>2. CASE BackDeparture
    <3>1. dep(stop - 1) \in Int
      BY DEF TypeOK, Stops, dep
    <3> QED
      BY <1>3, <2>2, <3>1 DEF BackDeparture
  <2>3. CASE BackArrival
    <3>1. arr(stop) \in Int
      BY DEF TypeOK, Stops, arr
    <3> QED
      BY <1>3, <2>3, <3>1 DEF BackArrival
  <2> QED
    BY <2>1, <2>2, <2>3
<1> QED
  BY <1>1, <1>2, <1>4 DEF BackDone, BackDeparture, BackArrival

LEMMA ResendInit == Init => ResendInv
BY TimeAssumption DEF Init, ResendInv, LastInv, InInterval, Updating, At, Restored

LEMMA ResendStep == TypeOK /\ TypeOK' /\ ResendInv /\ [Next]_vars => ResendInv'
<1> SUFFICES ASSUME TypeOK, TypeOK', ResendInv, [Next]_vars PROVE ResendInv'
  OBVIOUS
<1>1. CASE UNCHANGED vars
  BY <1>1 DEF vars, data, walk, ResendInv, LastInv, Updating, At, Restored, Repeated,
              Follows, Walked, EventsWalked, ToldBefore, TimeOfEarlier
<1>2. CASE \E m \in Messages, r \in Ranges : BeginUpdate(m, r)
  BY <1>2, ResendBegin
<1>3. CASE RefuseTrack
  BY <1>3, ResendRefused
<1>4. CASE VisitArrival
  BY <1>4, ResendArrival
<1>5. CASE VisitDeparture
  BY <1>5, ResendDeparture
<1>6. CASE RaiseEvent
  BY <1>6, ResendRaise
<1>7. CASE FinishUpdate
  BY <1>7, ResendFinish
<1>8. CASE CancelRun
  BY <1>8, OtherStep DEF CancelRun, ResendInv
<1>9. CASE PositionElsewhere
  BY <1>9, OtherStep, AddKeepsInterval DEF PositionElsewhere
<1>10. CASE \E s \in Stops, delay \in Delays : Position(s, delay)
  <2>1. PICK s \in Stops, delay \in Delays : Position(s, delay)
    BY <1>10
  <2>2. \A e \in Events : InInterval(times'[e])
    BY <2>1, PositionTimes
  <2> QED
    BY <2>1, <2>2, OtherStep DEF Position
<1>11. CASE BackDone \/ BackDeparture \/ BackArrival
  BY <1>11, BackKeepsInterval, OtherStep
<1> QED
  BY <1>1, <1>2, <1>3, <1>4, <1>5, <1>6, <1>7, <1>8, <1>9, <1>10, <1>11 DEF Next

\* An update sent again with nothing in between changes no event time, if the run
\* took its absolute times as told: for every sequence of updates, cancellations and
\* positions before it, and for delays that are dropped or raised as well.
THEOREM RepeatedUpdatesChangeNothing == Spec => []ResendChangesNothing
<1>1. TypeOK /\ ResendInv => ResendChangesNothing
  <2>1. SUFFICES ASSUME TypeOK, ResendInv, phase = "finish", last # NothingSent,
                        TakenAsTold(last.msg, last.range, last.times)
                 PROVE  times = last.times
    BY DEF ResendChangesNothing
  <2>2. Last + 1 \in Int /\ \A e \in Events : e < Last + 1
    BY EventIndices DEF Events
  <2>3. \A e \in Events : times[e] = last.times[e]
    BY <2>1, <2>2 DEF ResendInv, LastInv, Updating, Repeated, Restored
  <2>4. times \in [Events -> Int] /\ last.times \in [Events -> Int]
    BY <2>1 DEF TypeOK, ResendInv, LastInv
  <2> QED
    BY <2>3, <2>4
<1>2. Spec => []TypeOK
  BY TypeCorrect
<1>3. TypeOK /\ TypeOK' /\ ResendInv /\ [Next]_vars => ResendInv'
  BY ResendStep
<1> QED
  BY <1>1, <1>2, <1>3, ResendInit, PTL DEF Spec

=============================================================================
