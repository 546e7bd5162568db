----------------------------- MODULE VdvAusProofs -----------------------------
(***************************************************************************)
(* What holds of the real-time data of runs that VDV AUS and SIRI ET       *)
(* messages update, for every timetable, every set of messages and any     *)
(* order of them: types, the order of events, and what a repeated and a    *)
(* complete message do.                                                    *)
(***************************************************************************)
EXTENDS VdvAus, TLAPS, WellFoundedInduction, FiniteSetTheorems

-----------------------------------------------------------------------------
(***************************************************************************)
(* Induction over the walks: a set of numbers that has 0 and with each     *)
(* number the next one has all of them.                                    *)
(***************************************************************************)
LEMMA LeastNumber ==
  ASSUME NEW T \in SUBSET Nat, T # {}
  PROVE  \E x \in T : \A y \in T : x <= y
<1> DEFINE R == {ss \in Nat \X Nat : ss[1] < ss[2]}
<1>1. IsWellFoundedOn(R, Nat)
  BY NatLessThanWellFounded DEF OpToRel
<1>2. \E x \in T : \A y \in T : ~(<<y, x>> \in R)
  <2> HIDE DEF R
  <2> QED
    BY <1>1, WFMin
<1>3. PICK x \in T : \A y \in T : ~(<<y, x>> \in R)
  BY <1>2
<1>4. ASSUME NEW y \in T PROVE x <= y
  <2>1. <<y, x>> \notin R
    BY <1>3
  <2> QED
    BY <2>1
<1> QED
  BY <1>4

LEMMA NumbersReached ==
  ASSUME NEW T \in SUBSET Nat, 0 \in T, \A n \in T : n + 1 \in T
  PROVE  T = Nat
<1>1. SUFFICES ASSUME T # Nat PROVE FALSE
  OBVIOUS
<1>2. PICK x \in Nat \ T : \A y \in Nat \ T : x <= y
  BY <1>1, LeastNumber
<1>3. x # 0
  BY <1>2
<1>4. x - 1 \in Nat /\ x - 1 \in T
  BY <1>2, <1>3
<1> QED
  BY <1>4, <1>2

-----------------------------------------------------------------------------
(***************************************************************************)
(* Types: the runs of a timetable, the real-time data of a run and what a  *)
(* walk over its stops keeps.                                              *)
(***************************************************************************)
Told == [l : Nat, arr : Int, dep : Int, rt_arr : Int, rt_dep : Int,
         in_forbidden : BOOLEAN, out_forbidden : BOOLEAN, passing : BOOLEAN,
         arr_canceled : BOOLEAN, dep_canceled : BOOLEAN, recorded : BOOLEAN]
Stops == [loc : Nat \ {0}, in : BOOLEAN, out : BOOLEAN, in_wheelchair : BOOLEAN, out_wheelchair : BOOLEAN]
States == {"kNoRtData", "kObserved", "kPredicted", "kPropagated", "kInconsistent"}

IsTimetable(t) == \A x \in DOMAIN t.routes : IsRoute(t.routes[x])

KeysOf(t) ==
  {k \in [route : DOMAIN t.routes, pos : Nat, day : Int] :
     k.pos \in DOMAIN t.routes[k.route].times /\ is_transport_active(t, k)}
RunsOf(t) ==
  {r \in [route : DOMAIN t.routes, pos : Nat, day : Int, from : Nat \ {0}, to : Nat] :
     /\ r.pos \in DOMAIN t.routes[r.route].times
     /\ is_transport_active(t, KeyOf(r))
     /\ r.from <= r.to /\ r.to <= NStops(t, r)}

RtData(t, k) ==
  {d \in [times : [EventsOf(t, k) -> Int], states : [EventsOf(t, k) -> States],
          stops : [1..NStops(t, k) -> Stops], cancelled : BOOLEAN] :
     \A i \in 1..NStops(t, k) : d.stops[i].loc = StopsOf(t, k)[i].loc}

Delays == [known : BOOLEAN, value : Int]

Walks(t, r) ==
  {w \in [rt : RtData(t, r), cursor : Nat \ {0}, delay : Delays, unmatched : SUBSET (r.from..r.to)] : TRUE}

Inside(d) == \A e \in DOMAIN d.times : rt_interval(d.times[e])
Ordered(d) == \A e, f \in DOMAIN d.times : e < f => d.times[e] <= d.times[f]

\* What is known of a run and of its transport are the same records.
LEMMA RunFacts ==
  ASSUME NEW t, IsTimetable(t), NEW r \in RunsOf(t)
  PROVE  /\ r.route \in DOMAIN t.routes /\ r.pos \in DOMAIN t.routes[r.route].times /\ r.day \in Int
         /\ r.from \in Nat \ {0} /\ r.to \in Nat /\ r.from <= r.to /\ r.to <= NStops(t, r)
         /\ NStops(t, r) \in Nat /\ NStops(t, r) >= 2
         /\ EventsOf(t, r) = 0..2 * NStops(t, r) - 3
         /\ \A e \in EventsOf(t, r) : t.routes[r.route].times[r.pos][e] \in Int
         /\ \A e \in EventsOf(t, r) : scheduled_time(t, r, e) \in Int
         /\ StopsOf(t, r) \in [1..NStops(t, r) -> Stops]
<1>1. IsRoute(t.routes[r.route])
  BY DEF RunsOf, IsTimetable
<1>2. r \in [route : DOMAIN t.routes, pos : Nat, day : Int, from : Nat \ {0}, to : Nat]
  BY DEF RunsOf
<1>3. r.pos \in DOMAIN t.routes[r.route].times /\ r.from <= r.to /\ r.to <= NStops(t, r)
  BY DEF RunsOf
<1>4. StopsOf(t, r) \in [1..NStops(t, r) -> Stops] /\ NStops(t, r) \in Nat
  <2>1. StopsOf(t, r) \in Seq(Stops)
    BY <1>1 DEF IsRoute, StopsOf, Stops
  <2> QED
    BY <2>1 DEF NStops
<1>5. NStops(t, r) >= 2
  BY <1>1 DEF IsRoute, NStops, StopsOf
<1>6. t.routes[r.route].times[r.pos] \in [0..2 * NStops(t, r) - 3 -> Int]
  <2> DEFINE ts == t.routes[r.route].times
             Rows == [0..2 * NStops(t, r) - 3 -> Int]
  <2>1. ts \in Seq(Rows) /\ r.pos \in DOMAIN ts
    BY <1>1, <1>3 DEF IsRoute, NStops, StopsOf
  <2> HIDE DEF ts, Rows
  <2>2. ts[r.pos] \in Rows
    BY <2>1
  <2> QED
    BY <2>2 DEF ts, Rows
<1>7. EventsOf(t, r) = 0..2 * NStops(t, r) - 3
  BY <1>6 DEF EventsOf
<1>8. ASSUME NEW e \in EventsOf(t, r)
      PROVE  t.routes[r.route].times[r.pos][e] \in Int /\ scheduled_time(t, r, e) \in Int
  <2>1. t.routes[r.route].times[r.pos][e] \in Int
    BY <1>6, <1>7
  <2>2. r.day * DayLength \in Int
    BY <1>2, DayAssumption
  <2> QED
    BY <2>1, <2>2 DEF scheduled_time, EventTime
<1> QED
  BY <1>2, <1>3, <1>4, <1>5, <1>7, <1>8

LEMMA KeyFacts ==
  ASSUME NEW t, NEW r
  PROVE  /\ EventsOf(t, KeyOf(r)) = EventsOf(t, r) /\ NStops(t, KeyOf(r)) = NStops(t, r)
         /\ StopsOf(t, KeyOf(r)) = StopsOf(t, r)
         /\ \A e : scheduled_time(t, KeyOf(r), e) = scheduled_time(t, r, e)
         /\ RtData(t, KeyOf(r)) = RtData(t, r)
         /\ add_rt_transport(t, KeyOf(r)) = add_rt_transport(t, r)
BY DEF KeyOf, EventsOf, NStops, StopsOf, scheduled_time, RtData, add_rt_transport

LEMMA EventsAtStop ==
  ASSUME NEW t, IsTimetable(t), NEW r \in RunsOf(t), NEW i \in r.from..r.to
  PROVE  /\ i \in 1..NStops(t, r)
         /\ i # 1 => Arr(i) \in EventsOf(t, r)
         /\ i # r.to => Dep(i) \in EventsOf(t, r)
         /\ EventsAt(i, r.to) \subseteq EventsOf(t, r)
<1>1. i \in Int /\ 1 <= i /\ i <= NStops(t, r) /\ i <= r.to
  BY RunFacts
<1>2. Dep(i) = 2 * i - 2 /\ Arr(i) = 2 * i - 3
  BY <1>1 DEF Dep, Arr
<1>3. i # r.to => i < NStops(t, r)
  BY <1>1, RunFacts
<1>4. i # 1 => Arr(i) \in EventsOf(t, r)
  BY <1>1, <1>2, RunFacts
<1>5. i # r.to => Dep(i) \in EventsOf(t, r)
  BY <1>1, <1>2, <1>3, RunFacts
<1>6. EventsAt(i, r.to) \subseteq EventsOf(t, r)
  <2> SUFFICES ASSUME NEW e \in EventsAt(i, r.to) PROVE e \in EventsOf(t, r)
    OBVIOUS
  <2>1. e >= 0 /\ (e = Arr(i) \/ e = Dep(i)) /\ (e = Dep(i) => i # r.to)
    BY DEF EventsAt
  <2>2. e = Arr(i) => i # 1
    BY <2>1, <1>1, <1>2
  <2> QED
    BY <2>1, <2>2, <1>4, <1>5
<1> QED
  BY <1>1, <1>4, <1>5, <1>6

-----------------------------------------------------------------------------
(***************************************************************************)
(* Each part of the walk keeps the types, and times inside the interval.   *)
(***************************************************************************)
LEMMA WriteType ==
  ASSUME NEW t, NEW r, NEW d \in RtData(t, r), NEW e \in EventsOf(t, r), NEW x \in Int, NEW s \in States
  PROVE  /\ Write(d, e, x, s) \in RtData(t, r)
         /\ Inside(d) => Inside(Write(d, e, x, s))
<1>1. CASE ~rt_interval(x)
  BY <1>1 DEF Write
<1>2. CASE rt_interval(x)
  <2> DEFINE w == [d EXCEPT !.times[e] = x, !.states[e] = s]
  <2>1. Write(d, e, x, s) = w
    BY <1>2 DEF Write
  <2>2. w.times = [d.times EXCEPT ![e] = x] /\ w.states = [d.states EXCEPT ![e] = s]
        /\ w.stops = d.stops /\ w.cancelled = d.cancelled
        /\ d.times \in [EventsOf(t, r) -> Int] /\ d.states \in [EventsOf(t, r) -> States]
    BY DEF RtData
  <2>3. w \in RtData(t, r)
    BY <2>2 DEF RtData
  <2>4. Inside(d) => Inside(w)
    BY <2>2, <1>2 DEF Inside
  <2> QED
    BY <2>1, <2>3, <2>4
<1> QED
  BY <1>1, <1>2

LEMMA UpdateEventType ==
  ASSUME NEW t, IsTimetable(t), NEW r \in RunsOf(t), NEW w \in Walks(t, r),
         NEW e \in EventsOf(t, r), NEW x \in Int, NEW v
  PROVE  LET u == update_event(t, r, w, e, x, v)
         IN  /\ u \in Walks(t, r)
             /\ Inside(w.rt) => Inside(u.rt)
             /\ u.cursor = w.cursor /\ u.unmatched = w.unmatched
<1> DEFINE u == update_event(t, r, w, e, x, v)
           s == IF v.recorded THEN "kObserved" ELSE "kPredicted"
           delay == [known |-> TRUE, value |-> x - scheduled_time(t, r, e)]
<1>1. CASE x = NoTime \/ ~rt_interval(x)
  BY <1>1 DEF update_event
<1>2. CASE ~(x = NoTime \/ ~rt_interval(x))
  <2>1. u = [w EXCEPT !.rt = Write(w.rt, e, x, s), !.delay = delay]
    BY <1>2 DEF update_event
  <2>2. s \in States
    BY DEF States
  <2>3. w.rt \in RtData(t, r)
    BY DEF Walks
  <2>4. Write(w.rt, e, x, s) \in RtData(t, r) /\ (Inside(w.rt) => Inside(Write(w.rt, e, x, s)))
    BY <2>2, <2>3, WriteType
  <2>5. delay \in Delays
    BY RunFacts DEF Delays
  <2> HIDE DEF u, s, delay
  <2> QED
    BY <2>1, <2>4, <2>5 DEF Walks, u
<1> QED
  BY <1>1, <1>2

\* A stop of the run and what it is made of by a stop of the message.
Changed(t, r, stp, i, v) ==
  LET in == ~v.in_forbidden /\ ~v.passing /\ ~v.dep_canceled
      out == ~v.out_forbidden /\ ~v.passing /\ ~v.arr_canceled
  IN  [loc |-> stp.loc, in |-> in, out |-> out,
       in_wheelchair |-> StopsOf(t, r)[i].in_wheelchair /\ in,
       out_wheelchair |-> StopsOf(t, r)[i].out_wheelchair /\ out]

LEMMA ChangedStop ==
  ASSUME NEW t, IsTimetable(t), NEW r \in RunsOf(t), NEW d \in RtData(t, r),
         NEW i \in 1..NStops(t, r), NEW v \in Told
  PROVE  /\ Changed(t, r, d.stops[i], i, v) \in Stops
         /\ change_stop(t, r, d, i, v) = [d EXCEPT !.stops = [d.stops EXCEPT ![i] = Changed(t, r, d.stops[i], i, v)]]
         /\ change_stop(t, r, d, i, v) \in RtData(t, r)
<1> DEFINE old == d.stops[i]
           new == Changed(t, r, old, i, v)
<1>1. d.stops \in [1..NStops(t, r) -> Stops]
  BY DEF RtData
<1>2. old \in Stops
  BY <1>1
<1>3. new \in Stops /\ new.loc = old.loc
  BY <1>2, Zenon DEF Changed, Stops
<1>4. change_stop(t, r, d, i, v) = [d EXCEPT !.stops = [d.stops EXCEPT ![i] = new]]
  BY DEF change_stop, Changed
<1> HIDE DEF new
<1>5. [d EXCEPT !.stops = [d.stops EXCEPT ![i] = new]] \in RtData(t, r)
  BY <1>1, <1>3 DEF RtData
<1> QED
  BY <1>3, <1>4, <1>5 DEF new

LEMMA ApplyStopType ==
  ASSUME NEW t, IsTimetable(t), NEW r \in RunsOf(t), NEW w \in Walks(t, r),
         NEW i \in r.from..r.to, NEW v \in Told
  PROVE  LET u == ApplyStop(t, r, w, i, v)
         IN  /\ u \in Walks(t, r)
             /\ Inside(w.rt) => Inside(u.rt)
             /\ u.cursor = w.cursor /\ u.unmatched = w.unmatched
<1> DEFINE arrived == IF ArrMatches(t, r, i, v) THEN update_event(t, r, w, Arr(i), v.rt_arr, v) ELSE w
           left == IF DepMatches(t, r, i, v) THEN update_event(t, r, arrived, Dep(i), v.rt_dep, v) ELSE arrived
           u == ApplyStop(t, r, w, i, v)
<1>1. v.rt_arr \in Int /\ v.rt_dep \in Int
  BY DEF Told
<1>2. arrived \in Walks(t, r) /\ (Inside(w.rt) => Inside(arrived.rt))
      /\ arrived.cursor = w.cursor /\ arrived.unmatched = w.unmatched
  <2>1. CASE ArrMatches(t, r, i, v)
    <3>1. Arr(i) \in EventsOf(t, r)
      BY <2>1, EventsAtStop DEF ArrMatches
    <3> QED
      BY <2>1, <3>1, <1>1, UpdateEventType
  <2> QED
    BY <2>1
<1> HIDE DEF arrived
<1>3. left \in Walks(t, r) /\ (Inside(arrived.rt) => Inside(left.rt))
      /\ left.cursor = arrived.cursor /\ left.unmatched = arrived.unmatched
  <2>1. CASE DepMatches(t, r, i, v)
    <3>1. Dep(i) \in EventsOf(t, r)
      BY <2>1, EventsAtStop DEF DepMatches
    <3> QED
      BY <2>1, <3>1, <1>1, <1>2, UpdateEventType
  <2> QED
    BY <2>1, <1>2
<1>4. u = [left EXCEPT !.rt = change_stop(t, r, left.rt, i, v)]
  BY DEF ApplyStop, arrived
<1> HIDE DEF left, u
<1>5. left.rt \in RtData(t, r)
  BY <1>3 DEF Walks
<1>6. i \in 1..NStops(t, r)
  BY EventsAtStop
<1>7. change_stop(t, r, left.rt, i, v) \in RtData(t, r)
      /\ change_stop(t, r, left.rt, i, v).times = left.rt.times
  <2>1. change_stop(t, r, left.rt, i, v) \in RtData(t, r)
    BY <1>5, <1>6, ChangedStop
  <2>2. change_stop(t, r, left.rt, i, v).times = left.rt.times
    BY <1>5 DEF change_stop, RtData
  <2> QED
    BY <2>1, <2>2
<1>8. u \in Walks(t, r) /\ u.cursor = left.cursor /\ u.unmatched = left.unmatched
      /\ u.rt.times = left.rt.times
  BY <1>3, <1>4, <1>7 DEF Walks
<1> QED
  BY <1>2, <1>3, <1>8 DEF u, Inside

\* What propagate_delay makes of the events.
LEMMA Propagated ==
  ASSUME NEW t, IsTimetable(t), NEW r \in RunsOf(t), NEW w \in Walks(t, r),
         NEW events \in SUBSET EventsOf(t, r)
  PROVE  LET u == propagate_delay(t, r, w, events)
             late(e) == scheduled_time(t, r, e) + w.delay.value
             written(e) == e \in events /\ w.delay.known /\ rt_interval(late(e))
         IN  /\ u \in Walks(t, r)
             /\ u.cursor = w.cursor /\ u.delay = w.delay /\ u.unmatched = w.unmatched
             /\ u.rt.stops = w.rt.stops /\ u.rt.cancelled = w.rt.cancelled
             /\ \A e \in EventsOf(t, r) :
                  /\ u.rt.times[e] = IF written(e) THEN late(e) ELSE w.rt.times[e]
                  /\ u.rt.states[e] = IF written(e) THEN "kPropagated" ELSE w.rt.states[e]
<1> DEFINE u == propagate_delay(t, r, w, events)
           late(e) == scheduled_time(t, r, e) + w.delay.value
           written == {e \in events : w.delay.known /\ rt_interval(late(e))}
           ts == [e \in EventsOf(t, r) |-> IF e \in written THEN late(e) ELSE w.rt.times[e]]
           ss == [e \in EventsOf(t, r) |-> IF e \in written THEN "kPropagated" ELSE w.rt.states[e]]
<1>1. w.rt \in RtData(t, r) /\ w.delay \in Delays
  BY DEF Walks
<1>2. w.rt.times \in [EventsOf(t, r) -> Int] /\ w.rt.states \in [EventsOf(t, r) -> States]
  BY <1>1 DEF RtData
<1>3. u = [w EXCEPT !.rt = [w.rt EXCEPT !.times = ts, !.states = ss]]
  BY <1>2 DEF propagate_delay, Walks, RtData
<1>4. \A e \in EventsOf(t, r) : late(e) \in Int
  BY <1>1, RunFacts DEF Delays
<1>5. ts \in [EventsOf(t, r) -> Int]
  BY <1>2, <1>4
<1>6. ss \in [EventsOf(t, r) -> States]
  BY <1>2 DEF States
<1>7. \A e \in EventsOf(t, r) : ts[e] = IF e \in written THEN late(e) ELSE w.rt.times[e]
  OBVIOUS
<1>8. \A e \in EventsOf(t, r) : ss[e] = IF e \in written THEN "kPropagated" ELSE w.rt.states[e]
  OBVIOUS
<1> HIDE DEF u, ts, ss
<1>9. [w.rt EXCEPT !.times = ts, !.states = ss] \in RtData(t, r)
  BY <1>1, <1>5, <1>6 DEF RtData
<1>10. /\ u \in Walks(t, r) /\ u.cursor = w.cursor /\ u.delay = w.delay /\ u.unmatched = w.unmatched
       /\ u.rt = [w.rt EXCEPT !.times = ts, !.states = ss]
  BY <1>3, <1>9 DEF Walks
<1>11. u.rt.times = ts /\ u.rt.states = ss /\ u.rt.stops = w.rt.stops /\ u.rt.cancelled = w.rt.cancelled
  BY <1>10, <1>1 DEF RtData
<1> QED
  BY <1>7, <1>8, <1>10, <1>11 DEF u

LEMMA PropagateType ==
  ASSUME NEW t, IsTimetable(t), NEW r \in RunsOf(t), NEW w \in Walks(t, r),
         NEW events \in SUBSET EventsOf(t, r)
  PROVE  Inside(w.rt) => Inside(propagate_delay(t, r, w, events).rt)
<1> DEFINE u == propagate_delay(t, r, w, events)
<1>1. u \in Walks(t, r)
  BY Propagated
<1>2. DOMAIN u.rt.times = EventsOf(t, r) /\ DOMAIN w.rt.times = EventsOf(t, r)
  BY <1>1 DEF Walks, RtData
<1>3. \A e \in EventsOf(t, r) : rt_interval(u.rt.times[e]) \/ u.rt.times[e] = w.rt.times[e]
  BY Propagated
<1> QED
  BY <1>2, <1>3 DEF Inside

\* The events of stops that the message left out.
Unmatched(r, w) == UNION {EventsAt(i, r.to) : i \in w.unmatched}

LEMMA Inconsistent ==
  ASSUME NEW t, IsTimetable(t), NEW r \in RunsOf(t), NEW w \in Walks(t, r)
  PROVE  LET u == set_unmatched_stops_inconsistent(r, w)
         IN  /\ u \in Walks(t, r)
             /\ u.cursor = w.cursor /\ u.delay = w.delay /\ u.unmatched = w.unmatched
             /\ u.rt.stops = w.rt.stops /\ u.rt.times = w.rt.times /\ u.rt.cancelled = w.rt.cancelled
             /\ \A e \in EventsOf(t, r) :
                  u.rt.states[e] = IF e \in Unmatched(r, w) THEN "kInconsistent" ELSE w.rt.states[e]
<1> DEFINE u == set_unmatched_stops_inconsistent(r, w)
           ss == [e \in EventsOf(t, r) |-> IF e \in Unmatched(r, w) THEN "kInconsistent" ELSE w.rt.states[e]]
<1>1. w.rt \in RtData(t, r)
  BY DEF Walks
<1>2. w.rt.states \in [EventsOf(t, r) -> States]
  BY <1>1 DEF RtData
<1>3. u = [w EXCEPT !.rt = [w.rt EXCEPT !.states = ss]]
  BY <1>2 DEF set_unmatched_stops_inconsistent, Unmatched, Walks, RtData
<1>4. ss \in [EventsOf(t, r) -> States]
  BY <1>2 DEF States
<1>5. \A e \in EventsOf(t, r) : ss[e] = IF e \in Unmatched(r, w) THEN "kInconsistent" ELSE w.rt.states[e]
  OBVIOUS
<1> HIDE DEF u, ss
<1>6. [w.rt EXCEPT !.states = ss] \in RtData(t, r)
  BY <1>1, <1>4 DEF RtData
<1>7. /\ u \in Walks(t, r) /\ u.cursor = w.cursor /\ u.delay = w.delay /\ u.unmatched = w.unmatched
      /\ u.rt = [w.rt EXCEPT !.states = ss]
  BY <1>3, <1>6 DEF Walks
<1>8. u.rt.times = w.rt.times /\ u.rt.states = ss /\ u.rt.stops = w.rt.stops /\ u.rt.cancelled = w.rt.cancelled
  BY <1>7, <1>1 DEF RtData
<1> QED
  BY <1>5, <1>7, <1>8 DEF u

LEMMA UpdateStopType ==
  ASSUME NEW t, IsTimetable(t), NEW r \in RunsOf(t), NEW vs \in Seq(Told), NEW w \in Walks(t, r),
         NEW i \in r.from..r.to
  PROVE  LET u == update_stop(t, r, vs, w, i)
         IN  u \in Walks(t, r) /\ (Inside(w.rt) => Inside(u.rt))
<1> DEFINE ks == {k \in w.cursor..Len(vs) : StopMatches(t, r, w, i, vs[k])}
           k == CHOOSE x \in ks : \A y \in ks : x <= y
           applied == ApplyStop(t, r, w, i, vs[k])
           told == {e \in EventsAt(i, r.to) : IF e = Dep(i) THEN DepMatches(t, r, i, vs[k])
                                                            ELSE ArrMatches(t, r, i, vs[k])}
           moved == propagate_delay(t, r, applied, EventsAt(i, r.to) \ told)
           checked == IF k > w.cursor THEN set_unmatched_stops_inconsistent(r, moved) ELSE moved
           passed == propagate_delay(t, r, w, EventsAt(i, r.to))
           u == update_stop(t, r, vs, w, i)
<1>1. EventsAt(i, r.to) \in SUBSET EventsOf(t, r)
  BY EventsAtStop
<1>2. CASE ks # {}
  <2>1. k \in ks
    <3>1. ks \in SUBSET Nat
      BY DEF Walks
    <3> HIDE DEF ks
    <3>2. \E x \in ks : \A y \in ks : x <= y
      BY <1>2, <3>1, LeastNumber
    <3> QED
      BY <3>2
  <2>2. k \in 1..Len(vs) /\ vs[k] \in Told /\ k \in Nat
    <3>1. w.cursor \in Nat \ {0} /\ Len(vs) \in Nat
      BY DEF Walks
    <3>2. k \in w.cursor..Len(vs)
      BY <2>1
    <3> HIDE DEF k
    <3> QED
      BY <3>1, <3>2
  <2> HIDE DEF k, ks
  <2>3. applied \in Walks(t, r) /\ (Inside(w.rt) => Inside(applied.rt))
    BY <2>2, ApplyStopType
  <2> HIDE DEF applied
  <2>4. EventsAt(i, r.to) \ told \in SUBSET EventsOf(t, r)
    BY <1>1
  <2> HIDE DEF told
  <2>5. moved \in Walks(t, r) /\ (Inside(applied.rt) => Inside(moved.rt))
    BY <2>3, <2>4, Propagated, PropagateType
  <2> HIDE DEF moved
  <2>6. checked \in Walks(t, r) /\ checked.rt.times = moved.rt.times
    BY <2>5, Inconsistent
  <2> HIDE DEF checked
  <2>7. u = [checked EXCEPT !.cursor = k + 1, !.unmatched = {}]
    BY <1>2 DEF update_stop, k, ks, applied, told, moved, checked
  <2> HIDE DEF u
  <2>8. u \in Walks(t, r) /\ u.rt = checked.rt
    <3>1. k + 1 \in Nat \ {0} /\ {} \in SUBSET (r.from..r.to)
      BY <2>2
    <3> QED
      BY <2>6, <2>7, <3>1 DEF Walks
  <2> QED
    BY <2>3, <2>5, <2>6, <2>8 DEF u, Inside
<1>3. CASE ks = {} /\ w.delay.known
  <2>1. passed \in Walks(t, r) /\ (Inside(w.rt) => Inside(passed.rt))
    BY <1>1, Propagated, PropagateType
  <2> HIDE DEF passed, ks
  <2>2. u = [passed EXCEPT !.unmatched = passed.unmatched \cup {i}]
    BY <1>3 DEF update_stop, passed, ks
  <2> HIDE DEF u
  <2>3. u \in Walks(t, r) /\ u.rt = passed.rt
    BY <2>1, <2>2 DEF Walks
  <2> QED
    BY <2>1, <2>3 DEF u
<1>4. CASE ks = {} /\ ~w.delay.known
  BY <1>4 DEF update_stop
<1> QED
  BY <1>2, <1>3, <1>4

-----------------------------------------------------------------------------
(***************************************************************************)
(* The walk is a function that is defined stop by stop: it exists.         *)
(***************************************************************************)
Begin(d) == [rt |-> revive(d), cursor |-> 1, delay |-> NoDelay, unmatched |-> {}]

IsWalk(t, r, d, vs, n, f) ==
  f = [x \in 0..n |-> IF x = 0 THEN Begin(d) ELSE update_stop(t, r, vs, f[x - 1], r.from + x - 1)]

LEMMA WalkExists ==
  ASSUME NEW t, NEW r, NEW d, NEW vs, NEW n \in Nat
  PROVE  \E f : IsWalk(t, r, d, vs, n, f)
<1> DEFINE Next_(f, x) == IF x = 0 THEN Begin(d) ELSE update_stop(t, r, vs, f[x - 1], r.from + x - 1)
           T == {m \in Nat : \E f : f = [x \in 0..m |-> Next_(f, x)]}
<1>1. 0 \in T
  <2> DEFINE f == [x \in 0..0 |-> Begin(d)]
  <2>1. f = [x \in 0..0 |-> Next_(f, x)]
    OBVIOUS
  <2> QED
    BY <2>1
<1>2. ASSUME NEW m \in T PROVE m + 1 \in T
  <2>1. PICK f : f = [x \in 0..m |-> Next_(f, x)]
    OBVIOUS
  <2> DEFINE g == [x \in 0..m + 1 |-> IF x = m + 1 THEN Next_(f, x) ELSE f[x]]
  <2>2. ASSUME NEW x \in 0..m + 1 PROVE g[x] = Next_(g, x)
    <3> USE DEF T
    <3>1. CASE x = 0
      BY <3>1, <2>1
    <3>2. CASE x # 0 /\ x # m + 1
      <4>1. x \in 0..m /\ x - 1 \in 0..m
        BY <3>2
      <4>2. g[x] = f[x] /\ g[x - 1] = f[x - 1]
        BY <4>1
      <4>3. f[x] = Next_(f, x)
        BY <4>1, <2>1
      <4> HIDE DEF g
      <4> QED
        BY <4>2, <4>3
    <3>3. CASE x = m + 1
      <4>1. x # 0 /\ x - 1 = m /\ m \in 0..m + 1
        BY <3>3
      <4>2. g[x - 1] = f[x - 1]
        BY <4>1
      <4>3. g[x] = Next_(f, x)
        BY <3>3
      <4> HIDE DEF g
      <4> QED
        BY <4>1, <4>2, <4>3
    <3> QED
      BY <3>1, <3>2, <3>3
  <2>3. g = [x \in 0..m + 1 |-> Next_(g, x)]
    <3> HIDE DEF Next_
    <3> QED
      BY <2>2
  <2> HIDE DEF g
  <2> QED
    BY <2>3
<1>3. T = Nat
  <2> HIDE DEF T
  <2>1. T \in SUBSET Nat
    BY DEF T
  <2> QED
    BY <1>1, <1>2, <2>1, NumbersReached
<1> QED
  BY <1>3 DEF IsWalk

\* The stops of a run, counted by the walk.
Steps(r) == r.to - r.from + 1

LEMMA WalkSteps ==
  ASSUME NEW t, NEW r, NEW d, NEW vs, Steps(r) \in Nat
  PROVE  LET walk == Walk(t, r, d, vs)
         IN  /\ walk[0] = Begin(d)
             /\ \A x \in 1..Steps(r) : walk[x] = update_stop(t, r, vs, walk[x - 1], r.from + x - 1)
<1> DEFINE walk == Walk(t, r, d, vs)
           n == Steps(r)
<1>1. walk = CHOOSE f : IsWalk(t, r, d, vs, n, f)
  BY DEF Walk, Begin, Steps, IsWalk
<1>2. IsWalk(t, r, d, vs, n, walk)
  <2> HIDE DEF walk
  <2>1. \E f : IsWalk(t, r, d, vs, n, f)
    BY WalkExists
  <2> QED
    BY <1>1, <2>1
<1> HIDE DEF walk
<1>3. walk[0] = Begin(d)
  BY <1>2 DEF IsWalk
<1>4. ASSUME NEW x \in 1..n PROVE walk[x] = update_stop(t, r, vs, walk[x - 1], r.from + x - 1)
  <2>1. x \in 0..n /\ x # 0
    OBVIOUS
  <2> QED
    BY <1>2, <2>1 DEF IsWalk
<1> QED
  BY <1>3, <1>4 DEF walk

LEMMA StepsOfRun ==
  ASSUME NEW t, IsTimetable(t), NEW r \in RunsOf(t)
  PROVE  /\ Steps(r) \in Nat \ {0}
         /\ \A x \in 1..Steps(r) : r.from + x - 1 \in r.from..r.to /\ x - 1 \in 0..Steps(r)
<1>1. r.from \in Nat \ {0} /\ r.to \in Nat /\ r.from <= r.to
  BY RunFacts
<1> QED
  BY <1>1 DEF Steps

LEMMA WalkType ==
  ASSUME NEW t, IsTimetable(t), NEW r \in RunsOf(t), NEW d \in RtData(t, r), NEW vs \in Seq(Told)
  PROVE  \A x \in 0..Steps(r) :
           /\ Walk(t, r, d, vs)[x] \in Walks(t, r)
           /\ Inside(d) => Inside(Walk(t, r, d, vs)[x].rt)
<1> DEFINE walk == Walk(t, r, d, vs)
           P(x) == walk[x] \in Walks(t, r) /\ (Inside(d) => Inside(walk[x].rt))
           T == {m \in Nat : m <= Steps(r) => P(m)}
<1>1. Steps(r) \in Nat
  BY StepsOfRun
<1>2. walk[0] = Begin(d) /\ \A x \in 1..Steps(r) : walk[x] = update_stop(t, r, vs, walk[x - 1], r.from + x - 1)
  BY <1>1, WalkSteps
<1> HIDE DEF walk
<1>3. 0 \in T
  <2>1. revive(d) \in RtData(t, r) /\ revive(d).times = d.times
    BY DEF revive, RtData
  <2>2. Begin(d) \in Walks(t, r) /\ Begin(d).rt = revive(d)
    BY <2>1 DEF Begin, Walks, NoDelay, Delays
  <2>3. Inside(d) => Inside(Begin(d).rt)
    BY <2>1, <2>2 DEF Inside
  <2> QED
    BY <2>2, <2>3, <1>2
<1>4. ASSUME NEW m \in T PROVE m + 1 \in T
  <2>1. SUFFICES ASSUME m + 1 <= Steps(r) PROVE P(m + 1)
    OBVIOUS
  <2>2. m \in Nat /\ P(m)
    BY <1>1, <2>1
  <2>3. m + 1 \in 1..Steps(r) /\ (m + 1) - 1 = m
    BY <1>1, <2>1, <2>2
  <2>4. r.from + (m + 1) - 1 \in r.from..r.to
    BY <2>3, StepsOfRun
  <2>5. walk[m + 1] = update_stop(t, r, vs, walk[m], r.from + (m + 1) - 1)
    BY <1>2, <2>3
  <2> QED
    BY <2>2, <2>4, <2>5, UpdateStopType
<1>5. T = Nat
  <2> HIDE DEF P
  <2>1. T \in SUBSET Nat
    OBVIOUS
  <2> HIDE DEF T
  <2> QED
    BY <1>3, <1>4, <2>1, NumbersReached
<1> QED
  BY <1>1, <1>5 DEF walk

-----------------------------------------------------------------------------
(***************************************************************************)
(* After the walk: the first and the last stop, and the order of events.   *)
(***************************************************************************)
\* What handle_first_last_cancelation makes of stop i.
EndStop(r, stp, i) ==
  IF (i = r.from /\ ~stp.in) \/ (i = r.to /\ ~stp.out) THEN CancelStop(stp) ELSE stp

LEMMA FirstLast ==
  ASSUME NEW t, IsTimetable(t), NEW r \in RunsOf(t), NEW d \in RtData(t, r)
  PROVE  LET u == handle_first_last_cancelation(r, d)
         IN  /\ u \in RtData(t, r)
             /\ u.times = d.times /\ u.states = d.states /\ u.cancelled = d.cancelled
             /\ \A i \in 1..NStops(t, r) : u.stops[i] = EndStop(r, d.stops[i], i)
<1> DEFINE first == IF d.stops[r.from].in THEN d ELSE [d EXCEPT !.stops[r.from] = CancelStop(@)]
           u == IF first.stops[r.to].out THEN first ELSE [first EXCEPT !.stops[r.to] = CancelStop(@)]
           S == 1..NStops(t, r)
<1>1. r.from \in S /\ r.to \in S
  BY RunFacts
<1>2. ASSUME NEW x \in RtData(t, r), NEW i \in S
      PROVE  LET y == [x EXCEPT !.stops[i] = CancelStop(@)]
             IN  /\ y \in RtData(t, r)
                 /\ y.times = x.times /\ y.states = x.states /\ y.cancelled = x.cancelled
                 /\ \A j \in S : y.stops[j] = IF j = i THEN CancelStop(x.stops[i]) ELSE x.stops[j]
  <2> DEFINE y == [x EXCEPT !.stops[i] = CancelStop(@)]
  <2>1. x.stops \in [S -> Stops]
    BY DEF RtData
  <2>2. CancelStop(x.stops[i]) \in Stops /\ CancelStop(x.stops[i]).loc = x.stops[i].loc
    BY <2>1 DEF CancelStop, Stops
  <2> DEFINE stops == [x.stops EXCEPT ![i] = CancelStop(x.stops[i])]
  <2>3. y = [x EXCEPT !.stops = stops]
    OBVIOUS
  <2>4. stops \in [S -> Stops]
    BY <2>1, <2>2
  <2>5. \A j \in S : stops[j] = IF j = i THEN CancelStop(x.stops[i]) ELSE x.stops[j]
    BY <2>1
  <2> HIDE DEF y, stops
  <2>6. y.stops = stops /\ y.times = x.times /\ y.states = x.states /\ y.cancelled = x.cancelled
    BY <2>3 DEF RtData
  <2>7. \A j \in S : stops[j].loc = StopsOf(t, r)[j].loc
    BY <2>2, <2>5 DEF RtData
  <2>8. y \in RtData(t, r)
    BY <2>3, <2>4, <2>7 DEF RtData
  <2> QED
    BY <2>5, <2>6, <2>8 DEF y
<1>3. /\ first \in RtData(t, r)
      /\ first.times = d.times /\ first.states = d.states /\ first.cancelled = d.cancelled
      /\ \A j \in S : first.stops[j] = IF j = r.from /\ ~d.stops[j].in THEN CancelStop(d.stops[j]) ELSE d.stops[j]
  BY <1>1, <1>2
<1> HIDE DEF first
<1>4. /\ u \in RtData(t, r)
      /\ u.times = d.times /\ u.states = d.states /\ u.cancelled = d.cancelled
      /\ \A j \in S : u.stops[j] = IF j = r.to /\ ~first.stops[j].out THEN CancelStop(first.stops[j]) ELSE first.stops[j]
  BY <1>1, <1>2, <1>3
<1>5. u = handle_first_last_cancelation(r, d)
  BY DEF handle_first_last_cancelation, first
<1> HIDE DEF u
<1>6. ASSUME NEW j \in S PROVE u.stops[j] = EndStop(r, d.stops[j], j)
  <2>1. ~CancelStop(d.stops[j]).out /\ CancelStop(CancelStop(d.stops[j])) = CancelStop(d.stops[j])
    BY DEF CancelStop
  <2> QED
    BY <2>1, <1>3, <1>4 DEF EndStop
<1> QED
  BY <1>4, <1>5, <1>6

\* The earliest of the events from e on.
Bound(d, e) ==
  LET later == {d.times[f] : f \in {f \in DOMAIN d.times : f >= e}}
  IN  CHOOSE x \in later : \A y \in later : x <= y

LEMMA BoundFacts ==
  ASSUME NEW t, IsTimetable(t), NEW r \in RunsOf(t), NEW d \in RtData(t, r), NEW e \in EventsOf(t, r)
  PROVE  /\ Bound(d, e) \in Int
         /\ \A f \in EventsOf(t, r) : f >= e => Bound(d, e) <= d.times[f]
         /\ \E f \in EventsOf(t, r) : f >= e /\ Bound(d, e) = d.times[f]
<1> DEFINE final == 2 * NStops(t, r) - 3
           E == 0..final
           later == {d.times[f] : f \in {f \in DOMAIN d.times : f >= e}}
           T == {m \in Nat : m <= final => \E f \in final - m..final : \A g \in final - m..final :
                                            d.times[f] <= d.times[g]}
<1>1. EventsOf(t, r) = E /\ final \in Nat
  BY RunFacts
<1>2. d.times \in [E -> Int]
  BY <1>1 DEF RtData
<1> HIDE DEF final
<1>3. 0 \in T
  BY <1>1, <1>2
<1>4. ASSUME NEW m \in T PROVE m + 1 \in T
  <2>1. SUFFICES ASSUME m + 1 <= final
                 PROVE  \E f \in final - (m + 1)..final : \A g \in final - (m + 1)..final : d.times[f] <= d.times[g]
    OBVIOUS
  <2>2. m \in Nat /\ m <= final
    BY <1>1, <2>1
  <2>3. PICK f \in final - m..final : \A g \in final - m..final : d.times[f] <= d.times[g]
    BY <2>2
  <2> DEFINE h == final - (m + 1)
  <2>4. h \in E /\ f \in E /\ \A g \in h..final : g \in E /\ (g = h \/ g \in final - m..final)
    BY <1>1, <2>1, <2>2
  <2>5. d.times[h] \in Int /\ d.times[f] \in Int /\ \A g \in h..final : d.times[g] \in Int
    BY <1>2, <2>4
  <2>6. h \in h..final /\ f \in h..final
    BY <1>1, <2>1, <2>2
  <2> HIDE DEF h
  <2>7. CASE d.times[f] <= d.times[h]
    BY <2>3, <2>4, <2>6, <2>7 DEF h
  <2>8. CASE d.times[h] < d.times[f]
    <3>1. \A g \in h..final : d.times[h] <= d.times[g]
      BY <2>3, <2>4, <2>5, <2>8
    <3> QED
      BY <2>6, <3>1 DEF h
  <2> QED
    BY <2>5, <2>7, <2>8
<1>5. T = Nat
  <2>1. T \in SUBSET Nat
    OBVIOUS
  <2> HIDE DEF T
  <2> QED
    BY <1>3, <1>4, <2>1, NumbersReached
<1>6. e \in E /\ final - e \in Nat /\ final - e <= final /\ final - (final - e) = e
  BY <1>1
<1>7. PICK f \in e..final : \A g \in e..final : d.times[f] <= d.times[g]
  BY <1>5, <1>6
<1>8. \A g : g \in e..final <=> (g \in E /\ g >= e)
  BY <1>1, <1>6
<1>9. DOMAIN d.times = E
  BY <1>2
<1>10. d.times[f] \in later /\ \A y \in later : d.times[f] <= y
  BY <1>7, <1>8, <1>9
<1>11. Bound(d, e) \in later /\ \A y \in later : Bound(d, e) <= y
  <2>1. Bound(d, e) = CHOOSE x \in later : \A y \in later : x <= y
    BY DEF Bound
  <2> HIDE DEF later
  <2> QED
    BY <1>10, <2>1
<1>12. \A g \in E : g >= e => d.times[g] \in later
  BY <1>9
<1>13. \E g \in E : g >= e /\ Bound(d, e) = d.times[g]
  BY <1>9, <1>11
<1> QED
  BY <1>1, <1>2, <1>11, <1>12, <1>13

LEMMA Monotonized ==
  ASSUME NEW t, IsTimetable(t), NEW r \in RunsOf(t), NEW d \in RtData(t, r)
  PROVE  LET u == monotonize(d)
         IN  /\ u \in RtData(t, r)
             /\ u.stops = d.stops /\ u.cancelled = d.cancelled
             /\ \A e \in EventsOf(t, r) :
                  /\ u.times[e] = IF rt_interval(Bound(d, e)) THEN Bound(d, e) ELSE d.times[e]
                  /\ u.states[e] = IF Bound(d, e) # d.times[e] /\ rt_interval(Bound(d, e))
                                   THEN "kInconsistent" ELSE d.states[e]
<1> DEFINE E == EventsOf(t, r)
           lowered == {e \in DOMAIN d.times : Bound(d, e) # d.times[e] /\ rt_interval(Bound(d, e))}
           ts == [e \in E |-> IF e \in lowered THEN Bound(d, e) ELSE d.times[e]]
           ss == [e \in E |-> IF e \in lowered THEN "kInconsistent" ELSE d.states[e]]
           u == monotonize(d)
<1>1. d.times \in [E -> Int] /\ d.states \in [E -> States] /\ DOMAIN d.times = E /\ DOMAIN d.states = E
  BY DEF RtData
<1>2. u = [d EXCEPT !.times = ts, !.states = ss]
  BY <1>1 DEF monotonize, Bound, RtData
<1>3. \A e \in E : e \in lowered <=> (Bound(d, e) # d.times[e] /\ rt_interval(Bound(d, e)))
  BY <1>1
<1>4. \A e \in E : Bound(d, e) \in Int
  BY BoundFacts
<1> HIDE DEF E, lowered, u
<1>5. ts \in [E -> Int]
  BY <1>1, <1>4
<1>6. ss \in [E -> States]
  BY <1>1 DEF States
<1>7. \A e \in E : ts[e] = IF e \in lowered THEN Bound(d, e) ELSE d.times[e]
  OBVIOUS
<1>8. \A e \in E : ss[e] = IF e \in lowered THEN "kInconsistent" ELSE d.states[e]
  OBVIOUS
<1> HIDE DEF ts, ss
<1>9. u.times = ts /\ u.states = ss /\ u.stops = d.stops /\ u.cancelled = d.cancelled
  BY <1>2 DEF RtData
<1>10. u \in RtData(t, r)
  BY <1>2, <1>5, <1>6 DEF RtData, E
<1>11. ASSUME NEW e \in E
       PROVE  /\ u.times[e] = IF rt_interval(Bound(d, e)) THEN Bound(d, e) ELSE d.times[e]
              /\ u.states[e] = IF Bound(d, e) # d.times[e] /\ rt_interval(Bound(d, e))
                               THEN "kInconsistent" ELSE d.states[e]
  BY <1>3, <1>7, <1>8, <1>9
<1> QED
  BY <1>9, <1>10, <1>11 DEF u, E

LEMMA MonotonizedOrder ==
  ASSUME NEW t, IsTimetable(t), NEW r \in RunsOf(t), NEW d \in RtData(t, r), Inside(d)
  PROVE  Inside(monotonize(d)) /\ Ordered(monotonize(d))
<1> DEFINE E == EventsOf(t, r)
           u == monotonize(d)
<1>1. DOMAIN d.times = E /\ DOMAIN u.times = E
  BY Monotonized DEF RtData
<1>2. ASSUME NEW e \in E PROVE rt_interval(Bound(d, e)) /\ u.times[e] = Bound(d, e)
  <2>1. rt_interval(Bound(d, e))
    BY <1>1, BoundFacts DEF Inside
  <2> QED
    BY <2>1, Monotonized
<1>3. Inside(u)
  BY <1>1, <1>2 DEF Inside
<1>4. ASSUME NEW e \in E, NEW f \in E, e < f PROVE u.times[e] <= u.times[f]
  <2>1. PICK g \in E : g >= f /\ Bound(d, f) = d.times[g]
    BY BoundFacts
  <2>2. g >= e
    BY <1>4, <2>1, RunFacts
  <2> QED
    BY <1>2, <2>1, <2>2, BoundFacts
<1>5. Ordered(u)
  BY <1>1, <1>4 DEF Ordered
<1> QED
  BY <1>3, <1>5

\* The run after the walk, before its times are put in order.
Checked(r, w, vs) ==
  handle_first_last_cancelation(r, (IF w.cursor <= Len(vs) THEN set_unmatched_stops_inconsistent(r, w) ELSE w).rt)
Served(d) == {i \in DOMAIN d.stops : ~is_cancelled(d.stops[i])}

LEMMA FinishIs ==
  ASSUME NEW r, NEW w, NEW vs
  PROVE  Finish(r, w, vs) = IF Cardinality(Served(Checked(r, w, vs))) <= 1
                            THEN [Checked(r, w, vs) EXCEPT !.cancelled = TRUE]
                            ELSE monotonize(Checked(r, w, vs))
BY DEF Finish, Checked, Served

LEMMA CheckedFacts ==
  ASSUME NEW t, IsTimetable(t), NEW r \in RunsOf(t), NEW vs, NEW w \in Walks(t, r)
  PROVE  LET c == Checked(r, w, vs)
         IN  /\ c \in RtData(t, r)
             /\ c.times = w.rt.times /\ c.cancelled = w.rt.cancelled
             /\ \A i \in 1..NStops(t, r) : c.stops[i] = EndStop(r, w.rt.stops[i], i)
             /\ \A e \in EventsOf(t, r) :
                  c.states[e] = IF w.cursor <= Len(vs) /\ e \in Unmatched(r, w) THEN "kInconsistent"
                                ELSE w.rt.states[e]
<1> DEFINE x == IF w.cursor <= Len(vs) THEN set_unmatched_stops_inconsistent(r, w) ELSE w
<1>1. /\ x \in Walks(t, r)
      /\ x.rt.stops = w.rt.stops /\ x.rt.times = w.rt.times /\ x.rt.cancelled = w.rt.cancelled
      /\ \A e \in EventsOf(t, r) :
           x.rt.states[e] = IF w.cursor <= Len(vs) /\ e \in Unmatched(r, w) THEN "kInconsistent"
                            ELSE w.rt.states[e]
  BY Inconsistent
<1> HIDE DEF x
<1>2. x.rt \in RtData(t, r)
  BY <1>1 DEF Walks
<1>3. Checked(r, w, vs) = handle_first_last_cancelation(r, x.rt)
  BY DEF Checked, x
<1> QED
  BY <1>1, <1>2, <1>3, FirstLast

(***************************************************************************)
(* An update keeps the types, and the times inside the interval; if the    *)
(* run is not cancelled then, its events are in order.                     *)
(***************************************************************************)
LEMMA UpdateRunType ==
  ASSUME NEW t, IsTimetable(t), NEW r \in RunsOf(t), NEW d \in RtData(t, r), NEW vs \in Seq(Told)
  PROVE  LET u == update_run(t, r, d, vs)
         IN  /\ u \in RtData(t, r)
             /\ Inside(d) => Inside(u) /\ (u.cancelled \/ Ordered(u))
<1> DEFINE w == Walk(t, r, d, vs)[Steps(r)]
           c == Checked(r, w, vs)
           u == update_run(t, r, d, vs)
<1>1. w \in Walks(t, r) /\ (Inside(d) => Inside(w.rt))
  <2>1. Steps(r) \in 0..Steps(r)
    BY StepsOfRun
  <2> QED
    BY <2>1, WalkType
<1>2. u = Finish(r, w, vs)
  BY DEF update_run, Steps
<1> HIDE DEF w, u
<1>3. c \in RtData(t, r) /\ c.times = w.rt.times
  BY <1>1, CheckedFacts
<1>4. Inside(d) => Inside(c)
  BY <1>1, <1>3 DEF Inside
<1> HIDE DEF c
<1>5. CASE Cardinality(Served(c)) <= 1
  <2>1. u = [c EXCEPT !.cancelled = TRUE]
    BY <1>2, <1>5, FinishIs DEF c
  <2>2. u \in RtData(t, r) /\ u.cancelled = TRUE /\ u.times = c.times
    BY <1>3, <2>1 DEF RtData
  <2> QED
    BY <1>4, <2>2 DEF Inside, u
<1>6. CASE ~(Cardinality(Served(c)) <= 1)
  <2>1. u = monotonize(c)
    BY <1>2, <1>6, FinishIs DEF c
  <2> QED
    BY <1>3, <1>4, <2>1, Monotonized, MonotonizedOrder DEF u
<1> QED
  BY <1>5, <1>6

-----------------------------------------------------------------------------
(***************************************************************************)
(* Two walks over the stops of a run with the same message. One starts     *)
(* with the data b, the other one with the data a. They find the same      *)
(* stops, write the same events with the same times and mark the same ones *)
(* as inconsistent; the others are as they were in b and in a.  D and S    *)
(* are events and stops that are known to be the same.                     *)
(***************************************************************************)
SameEvent(x, y, e) == x.times[e] = y.times[e] /\ x.states[e] = y.states[e]

Together(t, r, x, y, b, a, D, S) ==
  /\ x \in RtData(t, r) /\ y \in RtData(t, r)
  /\ x.cancelled = y.cancelled
  /\ \A e \in EventsOf(t, r) :
       \/ SameEvent(x, y, e)
       \/ /\ x.times[e] = b.times[e] /\ y.times[e] = a.times[e]
          /\ \/ x.states[e] = "kInconsistent" /\ y.states[e] = "kInconsistent"
             \/ x.states[e] = b.states[e] /\ y.states[e] = a.states[e]
  /\ \A i \in 1..NStops(t, r) :
       x.stops[i] = y.stops[i] \/ (x.stops[i] = b.stops[i] /\ y.stops[i] = a.stops[i])
  /\ \A e \in D : SameEvent(x, y, e)
  /\ \A i \in S : x.stops[i] = y.stops[i]

InStep(t, r, w, u, b, a, D, S) ==
  /\ w \in Walks(t, r) /\ u \in Walks(t, r)
  /\ w.cursor = u.cursor /\ w.delay = u.delay /\ w.unmatched = u.unmatched
  /\ Together(t, r, w.rt, u.rt, b, a, D, S)

LEMMA EventInStep ==
  ASSUME NEW t, IsTimetable(t), NEW r \in RunsOf(t), NEW w, NEW u, NEW b, NEW a,
         NEW D \in SUBSET EventsOf(t, r), NEW S \in SUBSET (1..NStops(t, r)),
         InStep(t, r, w, u, b, a, D, S), NEW e \in EventsOf(t, r), NEW x \in Int, NEW v
  PROVE  LET w2 == update_event(t, r, w, e, x, v)
             u2 == update_event(t, r, u, e, x, v)
         IN  /\ InStep(t, r, w2, u2, b, a, D, S)
             /\ x # NoTime /\ rt_interval(x) => InStep(t, r, w2, u2, b, a, D \cup {e}, S)
<1> DEFINE w2 == update_event(t, r, w, e, x, v)
           u2 == update_event(t, r, u, e, x, v)
           s == IF v.recorded THEN "kObserved" ELSE "kPredicted"
           delay == [known |-> TRUE, value |-> x - scheduled_time(t, r, e)]
<1>1. CASE x = NoTime \/ ~rt_interval(x)
  BY <1>1 DEF update_event
<1>2. CASE x # NoTime /\ rt_interval(x)
  <2>1. w \in Walks(t, r) /\ u \in Walks(t, r) /\ w.rt \in RtData(t, r) /\ u.rt \in RtData(t, r)
    BY DEF InStep, Walks
  <2>2. w2 \in Walks(t, r) /\ u2 \in Walks(t, r)
    BY <2>1, UpdateEventType
  <2>3. ASSUME NEW z \in Walks(t, r)
        PROVE  LET z2 == update_event(t, r, z, e, x, v)
               IN  /\ z2.cursor = z.cursor /\ z2.unmatched = z.unmatched /\ z2.delay = delay
                   /\ z2.rt.stops = z.rt.stops /\ z2.rt.cancelled = z.rt.cancelled
                   /\ z2.rt.times = [z.rt.times EXCEPT ![e] = x]
                   /\ z2.rt.states = [z.rt.states EXCEPT ![e] = s]
    <3>1. update_event(t, r, z, e, x, v) =
            [z EXCEPT !.rt = [z.rt EXCEPT !.times[e] = x, !.states[e] = s], !.delay = delay]
      BY <1>2 DEF update_event, Write
    <3>2. z.rt \in RtData(t, r)
      BY DEF Walks
    <3> HIDE DEF s, delay
    <3> QED
      BY <3>1, <3>2 DEF Walks, RtData
  <2> HIDE DEF w2, u2, s, delay
  <2>4. w2.cursor = u2.cursor /\ w2.unmatched = u2.unmatched /\ w2.delay = u2.delay
    BY <2>1, <2>3 DEF w2, u2, InStep
  <2>5. /\ w2.rt.stops = w.rt.stops /\ w2.rt.cancelled = w.rt.cancelled
        /\ w2.rt.times = [w.rt.times EXCEPT ![e] = x] /\ w2.rt.states = [w.rt.states EXCEPT ![e] = s]
        /\ u2.rt.stops = u.rt.stops /\ u2.rt.cancelled = u.rt.cancelled
        /\ u2.rt.times = [u.rt.times EXCEPT ![e] = x] /\ u2.rt.states = [u.rt.states EXCEPT ![e] = s]
    BY <2>1, <2>3 DEF w2, u2
  <2>6. DOMAIN w.rt.times = EventsOf(t, r) /\ DOMAIN w.rt.states = EventsOf(t, r)
        /\ DOMAIN u.rt.times = EventsOf(t, r) /\ DOMAIN u.rt.states = EventsOf(t, r)
    BY <2>1 DEF RtData
  <2>7. Together(t, r, w.rt, u.rt, b, a, D, S)
    BY DEF InStep
  <2>8. SameEvent(w2.rt, u2.rt, e)
    BY <2>5, <2>6 DEF SameEvent
  <2>9. \A f \in EventsOf(t, r) \ {e} :
          /\ w2.rt.times[f] = w.rt.times[f] /\ w2.rt.states[f] = w.rt.states[f]
          /\ u2.rt.times[f] = u.rt.times[f] /\ u2.rt.states[f] = u.rt.states[f]
    BY <2>5, <2>6
  <2>10. w2.rt \in RtData(t, r) /\ u2.rt \in RtData(t, r)
    BY <2>2 DEF Walks
  <2>11. Together(t, r, w2.rt, u2.rt, b, a, D \cup {e}, S)
    <3>1. \A f \in D \cup {e} : SameEvent(w2.rt, u2.rt, f)
      BY <2>7, <2>8, <2>9 DEF Together, SameEvent
    <3>2. \A f \in EventsOf(t, r) :
            \/ SameEvent(w2.rt, u2.rt, f)
            \/ /\ w2.rt.times[f] = b.times[f] /\ u2.rt.times[f] = a.times[f]
               /\ \/ w2.rt.states[f] = "kInconsistent" /\ u2.rt.states[f] = "kInconsistent"
                  \/ w2.rt.states[f] = b.states[f] /\ u2.rt.states[f] = a.states[f]
      BY <2>7, <2>8, <2>9 DEF Together, SameEvent
    <3> QED
      BY <2>5, <2>7, <2>10, <3>1, <3>2 DEF Together
  <2>12. Together(t, r, w2.rt, u2.rt, b, a, D, S)
    BY <2>11 DEF Together
  <2> QED
    BY <2>2, <2>4, <2>11, <2>12 DEF InStep, w2, u2
<1> QED
  BY <1>1, <1>2

LEMMA StopInStep ==
  ASSUME NEW t, IsTimetable(t), NEW r \in RunsOf(t), NEW w, NEW u, NEW b, NEW a,
         NEW D \in SUBSET EventsOf(t, r), NEW S \in SUBSET (1..NStops(t, r)),
         InStep(t, r, w, u, b, a, D, S), NEW i \in 1..NStops(t, r), NEW v \in Told
  PROVE  InStep(t, r, [w EXCEPT !.rt = change_stop(t, r, w.rt, i, v)],
                      [u EXCEPT !.rt = change_stop(t, r, u.rt, i, v)], b, a, D, S \cup {i})
<1> DEFINE x == change_stop(t, r, w.rt, i, v)
           y == change_stop(t, r, u.rt, i, v)
           w2 == [w EXCEPT !.rt = x]
           u2 == [u EXCEPT !.rt = y]
<1>1. w \in Walks(t, r) /\ u \in Walks(t, r) /\ w.rt \in RtData(t, r) /\ u.rt \in RtData(t, r)
  BY DEF InStep, Walks
<1>2. w.rt.stops[i].loc = u.rt.stops[i].loc
  BY <1>1 DEF RtData
<1>3. Changed(t, r, w.rt.stops[i], i, v) = Changed(t, r, u.rt.stops[i], i, v)
  BY <1>2 DEF Changed
<1>4. x \in RtData(t, r) /\ y \in RtData(t, r)
  BY <1>1, ChangedStop
<1>5. ASSUME NEW d \in RtData(t, r)
      PROVE  LET z == change_stop(t, r, d, i, v)
             IN  /\ z.times = d.times /\ z.states = d.states /\ z.cancelled = d.cancelled
                 /\ \A j \in 1..NStops(t, r) :
                      z.stops[j] = IF j = i THEN Changed(t, r, d.stops[i], i, v) ELSE d.stops[j]
  <2> DEFINE c == Changed(t, r, d.stops[i], i, v)
             z == change_stop(t, r, d, i, v)
  <2>1. z = [d EXCEPT !.stops = [d.stops EXCEPT ![i] = c]]
    BY ChangedStop
  <2>2. DOMAIN d.stops = 1..NStops(t, r)
    BY DEF RtData
  <2> HIDE DEF c, z
  <2>3. /\ z.times = d.times /\ z.states = d.states /\ z.cancelled = d.cancelled
        /\ z.stops = [d.stops EXCEPT ![i] = c]
    BY <2>1 DEF RtData
  <2> QED
    BY <2>2, <2>3 DEF c, z
<1>6. /\ x.times = w.rt.times /\ x.states = w.rt.states /\ x.cancelled = w.rt.cancelled
      /\ y.times = u.rt.times /\ y.states = u.rt.states /\ y.cancelled = u.rt.cancelled
      /\ \A j \in (1..NStops(t, r)) \ {i} : x.stops[j] = w.rt.stops[j] /\ y.stops[j] = u.rt.stops[j]
      /\ x.stops[i] = y.stops[i]
  BY <1>1, <1>3, <1>5
<1> HIDE DEF x, y
<1>7. Together(t, r, w.rt, u.rt, b, a, D, S)
  BY DEF InStep
<1>8. \A e \in EventsOf(t, r) : SameEvent(x, y, e) <=> SameEvent(w.rt, u.rt, e)
  BY <1>6 DEF SameEvent
<1>9. Together(t, r, x, y, b, a, D, S \cup {i})
  BY <1>4, <1>6, <1>7, <1>8 DEF Together
<1>10. /\ w2 \in Walks(t, r) /\ u2 \in Walks(t, r) /\ w2.rt = x /\ u2.rt = y
       /\ w2.cursor = w.cursor /\ w2.delay = w.delay /\ w2.unmatched = w.unmatched
       /\ u2.cursor = u.cursor /\ u2.delay = u.delay /\ u2.unmatched = u.unmatched
  BY <1>1, <1>4 DEF Walks
<1> HIDE DEF w2, u2
<1>11. InStep(t, r, w2, u2, b, a, D, S \cup {i})
  BY <1>9, <1>10 DEF InStep
<1> QED
  BY <1>11 DEF w2, u2, x, y

LEMMA PropagateInStep ==
  ASSUME NEW t, IsTimetable(t), NEW r \in RunsOf(t), NEW w, NEW u, NEW b, NEW a,
         NEW D \in SUBSET EventsOf(t, r), NEW S \in SUBSET (1..NStops(t, r)),
         InStep(t, r, w, u, b, a, D, S), NEW events \in SUBSET EventsOf(t, r)
  PROVE  InStep(t, r, propagate_delay(t, r, w, events), propagate_delay(t, r, u, events), b, a, D, S)
<1> DEFINE w2 == propagate_delay(t, r, w, events)
           u2 == propagate_delay(t, r, u, events)
           late(e) == scheduled_time(t, r, e) + w.delay.value
           written(e) == e \in events /\ w.delay.known /\ rt_interval(late(e))
<1>1. w \in Walks(t, r) /\ u \in Walks(t, r) /\ w.delay = u.delay
  BY DEF InStep
<1>2. /\ w2 \in Walks(t, r)
      /\ w2.cursor = w.cursor /\ w2.delay = w.delay /\ w2.unmatched = w.unmatched
      /\ w2.rt.stops = w.rt.stops /\ w2.rt.cancelled = w.rt.cancelled
      /\ \A e \in EventsOf(t, r) :
           /\ w2.rt.times[e] = IF written(e) THEN late(e) ELSE w.rt.times[e]
           /\ w2.rt.states[e] = IF written(e) THEN "kPropagated" ELSE w.rt.states[e]
  BY <1>1, Propagated
<1>3. /\ u2 \in Walks(t, r)
      /\ u2.cursor = u.cursor /\ u2.delay = u.delay /\ u2.unmatched = u.unmatched
      /\ u2.rt.stops = u.rt.stops /\ u2.rt.cancelled = u.rt.cancelled
      /\ \A e \in EventsOf(t, r) :
           /\ u2.rt.times[e] = IF written(e) THEN late(e) ELSE u.rt.times[e]
           /\ u2.rt.states[e] = IF written(e) THEN "kPropagated" ELSE u.rt.states[e]
  BY <1>1, Propagated
<1> HIDE DEF w2, u2, written, late
<1>4. Together(t, r, w.rt, u.rt, b, a, D, S)
  BY DEF InStep
<1>5. w2.rt \in RtData(t, r) /\ u2.rt \in RtData(t, r)
  BY <1>2, <1>3 DEF Walks
<1>6. ASSUME NEW e \in EventsOf(t, r)
      PROVE  /\ written(e) => SameEvent(w2.rt, u2.rt, e)
             /\ ~written(e) => /\ w2.rt.times[e] = w.rt.times[e] /\ w2.rt.states[e] = w.rt.states[e]
                               /\ u2.rt.times[e] = u.rt.times[e] /\ u2.rt.states[e] = u.rt.states[e]
  BY <1>2, <1>3 DEF SameEvent
<1>7. \A e \in EventsOf(t, r) :
         \/ SameEvent(w2.rt, u2.rt, e)
         \/ /\ w2.rt.times[e] = b.times[e] /\ u2.rt.times[e] = a.times[e]
            /\ \/ w2.rt.states[e] = "kInconsistent" /\ u2.rt.states[e] = "kInconsistent"
               \/ w2.rt.states[e] = b.states[e] /\ u2.rt.states[e] = a.states[e]
  BY <1>4, <1>6 DEF Together, SameEvent
<1>8. \A e \in D : SameEvent(w2.rt, u2.rt, e)
  BY <1>4, <1>6 DEF Together, SameEvent
<1>9. Together(t, r, w2.rt, u2.rt, b, a, D, S)
  BY <1>2, <1>3, <1>4, <1>5, <1>7, <1>8 DEF Together
<1> QED
  BY <1>2, <1>3, <1>9 DEF InStep, w2, u2

LEMMA InconsistentInStep ==
  ASSUME NEW t, IsTimetable(t), NEW r \in RunsOf(t), NEW w, NEW u, NEW b, NEW a,
         NEW D \in SUBSET EventsOf(t, r), NEW S \in SUBSET (1..NStops(t, r)),
         InStep(t, r, w, u, b, a, D, S)
  PROVE  InStep(t, r, set_unmatched_stops_inconsistent(r, w), set_unmatched_stops_inconsistent(r, u), b, a, D, S)
<1> DEFINE w2 == set_unmatched_stops_inconsistent(r, w)
           u2 == set_unmatched_stops_inconsistent(r, u)
<1>1. w \in Walks(t, r) /\ u \in Walks(t, r) /\ Unmatched(r, w) = Unmatched(r, u)
  BY DEF InStep, Unmatched
<1>2. /\ w2 \in Walks(t, r)
      /\ w2.cursor = w.cursor /\ w2.delay = w.delay /\ w2.unmatched = w.unmatched
      /\ w2.rt.stops = w.rt.stops /\ w2.rt.times = w.rt.times /\ w2.rt.cancelled = w.rt.cancelled
      /\ \A e \in EventsOf(t, r) :
           w2.rt.states[e] = IF e \in Unmatched(r, w) THEN "kInconsistent" ELSE w.rt.states[e]
  BY <1>1, Inconsistent
<1>3. /\ u2 \in Walks(t, r)
      /\ u2.cursor = u.cursor /\ u2.delay = u.delay /\ u2.unmatched = u.unmatched
      /\ u2.rt.stops = u.rt.stops /\ u2.rt.times = u.rt.times /\ u2.rt.cancelled = u.rt.cancelled
      /\ \A e \in EventsOf(t, r) :
           u2.rt.states[e] = IF e \in Unmatched(r, w) THEN "kInconsistent" ELSE u.rt.states[e]
  BY <1>1, Inconsistent
<1> HIDE DEF w2, u2
<1>4. Together(t, r, w.rt, u.rt, b, a, D, S)
  BY DEF InStep
<1>5. w2.rt \in RtData(t, r) /\ u2.rt \in RtData(t, r)
  BY <1>2, <1>3 DEF Walks
<1>6. \A e \in EventsOf(t, r) :
         \/ SameEvent(w2.rt, u2.rt, e)
         \/ /\ w2.rt.times[e] = b.times[e] /\ u2.rt.times[e] = a.times[e]
            /\ \/ w2.rt.states[e] = "kInconsistent" /\ u2.rt.states[e] = "kInconsistent"
               \/ w2.rt.states[e] = b.states[e] /\ u2.rt.states[e] = a.states[e]
  BY <1>2, <1>3, <1>4 DEF Together, SameEvent
<1>7. \A e \in D : SameEvent(w2.rt, u2.rt, e)
  BY <1>2, <1>3, <1>4 DEF Together, SameEvent
<1>8. Together(t, r, w2.rt, u2.rt, b, a, D, S)
  BY <1>2, <1>3, <1>4, <1>5, <1>6, <1>7 DEF Together
<1> QED
  BY <1>2, <1>3, <1>8 DEF InStep, w2, u2

\* The events of stop i that a stop of the message has a time for.
ToldEvents(t, r, i, v) ==
  {e \in {Arr(i)} : ArrMatches(t, r, i, v) /\ v.rt_arr # NoTime /\ rt_interval(v.rt_arr)}
    \cup {e \in {Dep(i)} : DepMatches(t, r, i, v) /\ v.rt_dep # NoTime /\ rt_interval(v.rt_dep)}

LEMMA ApplyInStep ==
  ASSUME NEW t, IsTimetable(t), NEW r \in RunsOf(t), NEW w, NEW u, NEW b, NEW a,
         NEW D \in SUBSET EventsOf(t, r), NEW S \in SUBSET (1..NStops(t, r)),
         InStep(t, r, w, u, b, a, D, S), NEW i \in r.from..r.to, NEW v \in Told
  PROVE  /\ ToldEvents(t, r, i, v) \in SUBSET EventsOf(t, r)
         /\ InStep(t, r, ApplyStop(t, r, w, i, v), ApplyStop(t, r, u, i, v), b, a,
                   D \cup ToldEvents(t, r, i, v), S \cup {i})
<1> DEFINE A == {e \in {Arr(i)} : ArrMatches(t, r, i, v) /\ v.rt_arr # NoTime /\ rt_interval(v.rt_arr)}
           B == {e \in {Dep(i)} : DepMatches(t, r, i, v) /\ v.rt_dep # NoTime /\ rt_interval(v.rt_dep)}
           arrived(z) == IF ArrMatches(t, r, i, v) THEN update_event(t, r, z, Arr(i), v.rt_arr, v) ELSE z
           left(z) == IF DepMatches(t, r, i, v) THEN update_event(t, r, z, Dep(i), v.rt_dep, v) ELSE z
<1>1. v.rt_arr \in Int /\ v.rt_dep \in Int /\ i \in 1..NStops(t, r)
  BY EventsAtStop DEF Told
<1>2. ArrMatches(t, r, i, v) => Arr(i) \in EventsOf(t, r)
  BY EventsAtStop DEF ArrMatches
<1>3. DepMatches(t, r, i, v) => Dep(i) \in EventsOf(t, r)
  BY EventsAtStop DEF DepMatches
<1>4. A \in SUBSET EventsOf(t, r) /\ B \in SUBSET EventsOf(t, r)
  BY <1>2, <1>3
<1>5. InStep(t, r, arrived(w), arrived(u), b, a, D \cup A, S)
  <2>1. CASE A = {}
    <3>1. D \cup A = D
      BY <2>1
    <3>2. CASE ArrMatches(t, r, i, v)
      <4>1. InStep(t, r, update_event(t, r, w, Arr(i), v.rt_arr, v),
                         update_event(t, r, u, Arr(i), v.rt_arr, v), b, a, D, S)
        BY <1>1, <1>2, <3>2, EventInStep
      <4> QED
        BY <3>1, <3>2, <4>1
    <3> QED
      BY <3>1, <3>2
  <2>2. CASE A # {}
    <3>1. A = {Arr(i)} /\ ArrMatches(t, r, i, v) /\ v.rt_arr # NoTime /\ rt_interval(v.rt_arr)
      BY <2>2
    <3>2. InStep(t, r, update_event(t, r, w, Arr(i), v.rt_arr, v),
                       update_event(t, r, u, Arr(i), v.rt_arr, v), b, a, D \cup {Arr(i)}, S)
      BY <1>1, <1>2, <3>1, EventInStep
    <3> QED
      BY <3>1, <3>2
  <2> QED
    BY <2>1, <2>2
<1>6. ASSUME NEW z1, NEW z2, InStep(t, r, z1, z2, b, a, D \cup A, S)
      PROVE  InStep(t, r, left(z1), left(z2), b, a, (D \cup A) \cup B, S)
  <2> DEFINE DA == D \cup A
  <2>0. DA \in SUBSET EventsOf(t, r) /\ InStep(t, r, z1, z2, b, a, DA, S)
    BY <1>4, <1>6
  <2> HIDE DEF DA, A
  <2>1. CASE B = {}
    <3>1. DA \cup B = DA
      BY <2>1
    <3>2. CASE DepMatches(t, r, i, v)
      <4>1. InStep(t, r, update_event(t, r, z1, Dep(i), v.rt_dep, v),
                         update_event(t, r, z2, Dep(i), v.rt_dep, v), b, a, DA, S)
        BY <2>0, <1>1, <1>3, <3>2, EventInStep
      <4> QED
        BY <3>1, <3>2, <4>1 DEF DA
    <3> QED
      BY <2>0, <3>1, <3>2 DEF DA
  <2>2. CASE B # {}
    <3>1. B = {Dep(i)} /\ DepMatches(t, r, i, v) /\ v.rt_dep # NoTime /\ rt_interval(v.rt_dep)
      BY <2>2
    <3>2. InStep(t, r, update_event(t, r, z1, Dep(i), v.rt_dep, v),
                       update_event(t, r, z2, Dep(i), v.rt_dep, v), b, a, DA \cup {Dep(i)}, S)
      BY <2>0, <1>1, <1>3, <3>1, EventInStep
    <3> QED
      BY <3>1, <3>2 DEF DA
  <2> QED
    BY <2>1, <2>2
<1>7. \A z : ApplyStop(t, r, z, i, v) =
               [left(arrived(z)) EXCEPT !.rt = change_stop(t, r, left(arrived(z)).rt, i, v)]
  BY DEF ApplyStop
<1>8. ToldEvents(t, r, i, v) = A \cup B
  BY DEF ToldEvents
<1> HIDE DEF arrived, left, A, B
<1>9. InStep(t, r, left(arrived(w)), left(arrived(u)), b, a, (D \cup A) \cup B, S)
  BY <1>5, <1>6
<1>10. (D \cup A) \cup B \in SUBSET EventsOf(t, r)
  BY <1>4
<1>11. InStep(t, r, ApplyStop(t, r, w, i, v), ApplyStop(t, r, u, i, v), b, a, (D \cup A) \cup B, S \cup {i})
  BY <1>1, <1>7, <1>9, <1>10, StopInStep
<1>12. (D \cup A) \cup B = D \cup ToldEvents(t, r, i, v)
  BY <1>8
<1> QED
  BY <1>4, <1>8, <1>11, <1>12

\* The stops of the message that stop i of the run can be.
Candidates(t, r, vs, w, i) == {k \in w.cursor..Len(vs) : StopMatches(t, r, w, i, vs[k])}
FirstOf(ks) == CHOOSE x \in ks : \A y \in ks : x <= y

LEMMA StopInLockstep ==
  ASSUME NEW t, IsTimetable(t), NEW r \in RunsOf(t), NEW vs \in Seq(Told), NEW w, NEW u, NEW b, NEW a,
         NEW D \in SUBSET EventsOf(t, r), NEW S \in SUBSET (1..NStops(t, r)),
         InStep(t, r, w, u, b, a, D, S), NEW i \in r.from..r.to
  PROVE  LET w2 == update_stop(t, r, vs, w, i)
             u2 == update_stop(t, r, vs, u, i)
             ks == Candidates(t, r, vs, w, i)
             k == FirstOf(ks)
         IN  /\ InStep(t, r, w2, u2, b, a, D, S)
             /\ ks # {} =>
                  /\ k \in ks /\ \A y \in ks : k <= y
                  /\ w2.cursor = k + 1
                  /\ InStep(t, r, w2, u2, b, a, D \cup ToldEvents(t, r, i, vs[k]), S \cup {i})
<1> DEFINE ks == Candidates(t, r, vs, w, i)
           k == FirstOf(ks)
           events == EventsAt(i, r.to)
           told == {e \in events : IF e = Dep(i) THEN DepMatches(t, r, i, vs[k])
                                                 ELSE ArrMatches(t, r, i, vs[k])}
           moved(z) == propagate_delay(t, r, ApplyStop(t, r, z, i, vs[k]), events \ told)
           checked(z) == IF k > w.cursor THEN set_unmatched_stops_inconsistent(r, moved(z)) ELSE moved(z)
           passed(z) == propagate_delay(t, r, z, events)
           w2 == update_stop(t, r, vs, w, i)
           u2 == update_stop(t, r, vs, u, i)
           DT == D \cup ToldEvents(t, r, i, vs[k])
           ST == S \cup {i}
<1>1. w \in Walks(t, r) /\ u \in Walks(t, r) /\ w.cursor = u.cursor /\ w.delay = u.delay /\ w.unmatched = u.unmatched
  BY DEF InStep
<1>2. i \in 1..NStops(t, r) /\ events \in SUBSET EventsOf(t, r)
  BY EventsAtStop
<1>3. w.rt.stops[i].loc = u.rt.stops[i].loc
  BY <1>1, <1>2 DEF Walks, RtData
<1>4. ks = Candidates(t, r, vs, u, i)
  BY <1>1, <1>3 DEF Candidates, StopMatches
<1>5. w.cursor \in Nat \ {0} /\ Len(vs) \in Nat /\ ks \in SUBSET (w.cursor..Len(vs))
  BY <1>1 DEF Walks, Candidates
<1> HIDE DEF ks, events
<1>6. CASE ks # {}
  <2>1. k \in ks /\ \A y \in ks : k <= y
    <3>1. \E x \in ks : \A y \in ks : x <= y
      BY <1>5, <1>6, LeastNumber
    <3> QED
      BY <3>1 DEF FirstOf
  <2>2. k \in 1..Len(vs) /\ k \in Nat /\ vs[k] \in Told
    <3>1. k \in w.cursor..Len(vs)
      BY <2>1, <1>5
    <3> HIDE DEF k
    <3> QED
      BY <3>1, <1>5
  <2>3. \A z \in {w, u} : update_stop(t, r, vs, z, i) = [checked(z) EXCEPT !.cursor = k + 1, !.unmatched = {}]
    <3>1. ASSUME NEW z \in {w, u}
          PROVE  update_stop(t, r, vs, z, i) = [checked(z) EXCEPT !.cursor = k + 1, !.unmatched = {}]
      <4>1. Candidates(t, r, vs, z, i) = ks /\ z.cursor = w.cursor
        BY <1>1, <1>4 DEF ks
      <4>2. {x \in z.cursor..Len(vs) : StopMatches(t, r, z, i, vs[x])} = ks
        BY <4>1 DEF Candidates
      <4>3. (CHOOSE x \in ks : \A y \in ks : x <= y) = k
        BY DEF FirstOf
      <4> DEFINE K == {x \in z.cursor..Len(vs) : StopMatches(t, r, z, i, vs[x])}
                 first == CHOOSE x \in K : \A y \in K : x <= y
                 U(ks_, k_, cursor) ==
                   LET told_ == {e \in EventsAt(i, r.to) : IF e = Dep(i) THEN DepMatches(t, r, i, vs[k_])
                                                                        ELSE ArrMatches(t, r, i, vs[k_])}
                       moved_ == propagate_delay(t, r, ApplyStop(t, r, z, i, vs[k_]), EventsAt(i, r.to) \ told_)
                       checked_ == IF k_ > cursor THEN set_unmatched_stops_inconsistent(r, moved_) ELSE moved_
                       passed_ == propagate_delay(t, r, z, EventsAt(i, r.to))
                   IN  IF ks_ # {} THEN [checked_ EXCEPT !.cursor = k_ + 1, !.unmatched = {}]
                       ELSE IF z.delay.known THEN [passed_ EXCEPT !.unmatched = @ \cup {i}]
                       ELSE z
      <4>4. update_stop(t, r, vs, z, i) = U(K, first, z.cursor)
        BY Zenon DEF update_stop
      <4>5. K = ks /\ first = k /\ z.cursor = w.cursor
        BY <4>1, <4>2, <4>3
      <4>6. U(ks, k, w.cursor) = [checked(z) EXCEPT !.cursor = k + 1, !.unmatched = {}]
        <5> HIDE DEF k, ks
        <5> QED
          BY <1>6, Zenon DEF events
      <4> HIDE DEF U, K, first, k, ks
      <4> QED
        BY <4>4, <4>5, <4>6
    <3> QED
      BY <3>1
  <2> HIDE DEF k
  <2>4. DT \in SUBSET EventsOf(t, r) /\ ST \in SUBSET (1..NStops(t, r))
        /\ InStep(t, r, ApplyStop(t, r, w, i, vs[k]), ApplyStop(t, r, u, i, vs[k]), b, a, DT, ST)
    BY <1>2, <2>2, ApplyInStep
  <2>5. events \ told \in SUBSET EventsOf(t, r)
    BY <1>2
  <2> HIDE DEF told, DT, ST
  <2>6. InStep(t, r, moved(w), moved(u), b, a, DT, ST)
    BY <2>4, <2>5, PropagateInStep
  <2> HIDE DEF moved
  <2>7. InStep(t, r, checked(w), checked(u), b, a, DT, ST)
    BY <2>4, <2>6, InconsistentInStep
  <2> HIDE DEF checked, w2, u2
  <2>8. w2 = [checked(w) EXCEPT !.cursor = k + 1, !.unmatched = {}]
        /\ u2 = [checked(u) EXCEPT !.cursor = k + 1, !.unmatched = {}]
    BY <2>3 DEF w2, u2
  <2>9. k + 1 \in Nat \ {0} /\ {} \in SUBSET (r.from..r.to)
    BY <2>2
  <2>10. checked(w) \in Walks(t, r) /\ checked(u) \in Walks(t, r)
    BY <2>7 DEF InStep
  <2>11. /\ w2 \in Walks(t, r) /\ w2.cursor = k + 1 /\ w2.unmatched = {}
         /\ w2.delay = checked(w).delay /\ w2.rt = checked(w).rt
    BY <2>8, <2>9, <2>10 DEF Walks
  <2>12. /\ u2 \in Walks(t, r) /\ u2.cursor = k + 1 /\ u2.unmatched = {}
         /\ u2.delay = checked(u).delay /\ u2.rt = checked(u).rt
    BY <2>8, <2>9, <2>10 DEF Walks
  <2>13. InStep(t, r, w2, u2, b, a, DT, ST)
    BY <2>7, <2>11, <2>12 DEF InStep
  <2>14. InStep(t, r, w2, u2, b, a, D, S)
    BY <2>13 DEF InStep, Together, DT, ST
  <2> QED
    BY <2>1, <2>11, <2>13, <2>14 DEF w2, u2, DT, ST, k, ks
<1>7. CASE ks = {} /\ w.delay.known
  <2>1. \A z \in {w, u} : update_stop(t, r, vs, z, i) = [passed(z) EXCEPT !.unmatched = @ \cup {i}]
    BY <1>1, <1>4, <1>7 DEF update_stop, Candidates, ks, events
  <2>2. InStep(t, r, passed(w), passed(u), b, a, D, S)
    BY <1>2, PropagateInStep
  <2> HIDE DEF passed, w2, u2
  <2>3. w2 = [passed(w) EXCEPT !.unmatched = @ \cup {i}] /\ u2 = [passed(u) EXCEPT !.unmatched = @ \cup {i}]
    BY <2>1 DEF w2, u2
  <2>4. passed(w) \in Walks(t, r) /\ passed(u) \in Walks(t, r)
    BY <2>2 DEF InStep
  <2>5. /\ w2 \in Walks(t, r) /\ w2.cursor = passed(w).cursor /\ w2.unmatched = passed(w).unmatched \cup {i}
        /\ w2.delay = passed(w).delay /\ w2.rt = passed(w).rt
    BY <2>3, <2>4 DEF Walks
  <2>6. /\ u2 \in Walks(t, r) /\ u2.cursor = passed(u).cursor /\ u2.unmatched = passed(u).unmatched \cup {i}
        /\ u2.delay = passed(u).delay /\ u2.rt = passed(u).rt
    BY <2>3, <2>4 DEF Walks
  <2>7. InStep(t, r, w2, u2, b, a, D, S)
    BY <2>2, <2>5, <2>6 DEF InStep
  <2> QED
    BY <1>7, <2>7 DEF w2, u2, ks
<1>8. CASE ks = {} /\ ~w.delay.known
  <2>1. w2 = w /\ u2 = u
    BY <1>1, <1>4, <1>8 DEF update_stop, Candidates, ks
  <2> HIDE DEF w2, u2
  <2> QED
    BY <1>8, <2>1 DEF w2, u2, ks
<1> QED
  BY <1>6, <1>7, <1>8

-----------------------------------------------------------------------------
(***************************************************************************)
(* The two walks as a whole.                                               *)
(***************************************************************************)
LEMMA DataEqual ==
  ASSUME NEW t, NEW r, NEW x \in RtData(t, r), NEW y \in RtData(t, r), x.cancelled = y.cancelled,
         \A e \in EventsOf(t, r) : SameEvent(x, y, e),
         \A i \in 1..NStops(t, r) : x.stops[i] = y.stops[i]
  PROVE  x = y
<1>1. x.times \in [EventsOf(t, r) -> Int] /\ y.times \in [EventsOf(t, r) -> Int]
      /\ x.states \in [EventsOf(t, r) -> States] /\ y.states \in [EventsOf(t, r) -> States]
      /\ x.stops \in [1..NStops(t, r) -> Stops] /\ y.stops \in [1..NStops(t, r) -> Stops]
  BY DEF RtData
<1>2. x.times = y.times
  BY <1>1 DEF SameEvent
<1>3. x.states = y.states
  BY <1>1 DEF SameEvent
<1>4. x.stops = y.stops
  <2> DEFINE N == 1..NStops(t, r)
  <2>1. x.stops \in [N -> Stops] /\ y.stops \in [N -> Stops] /\ \A i \in N : x.stops[i] = y.stops[i]
    BY <1>1
  <2> HIDE DEF N
  <2> QED
    BY <2>1
<1> QED
  BY <1>2, <1>3, <1>4 DEF RtData

LEMMA BeginInStep ==
  ASSUME NEW t, IsTimetable(t), NEW r \in RunsOf(t), NEW b \in RtData(t, r), NEW a \in RtData(t, r)
  PROVE  /\ InStep(t, r, Begin(b), Begin(a), b, a, {}, {})
         /\ Begin(b).cursor = 1
<1>1. \A d \in RtData(t, r) :
        /\ revive(d) \in RtData(t, r) /\ revive(d).times = d.times /\ revive(d).states = d.states
        /\ revive(d).stops = d.stops /\ revive(d).cancelled = FALSE
  BY DEF revive, RtData
<1>2. Together(t, r, revive(b), revive(a), b, a, {}, {})
  BY <1>1 DEF Together
<1>3. \A d \in RtData(t, r) :
        /\ Begin(d) \in Walks(t, r) /\ Begin(d).rt = revive(d) /\ Begin(d).cursor = 1
        /\ Begin(d).delay = NoDelay /\ Begin(d).unmatched = {}
  BY <1>1 DEF Begin, Walks, NoDelay, Delays
<1> QED
  BY <1>2, <1>3 DEF InStep

LEMMA WalksInStep ==
  ASSUME NEW t, IsTimetable(t), NEW r \in RunsOf(t), NEW vs \in Seq(Told),
         NEW b \in RtData(t, r), NEW a \in RtData(t, r)
  PROVE  \A x \in 0..Steps(r) : InStep(t, r, Walk(t, r, b, vs)[x], Walk(t, r, a, vs)[x], b, a, {}, {})
<1> DEFINE W == Walk(t, r, b, vs)
           U == Walk(t, r, a, vs)
           P(x) == InStep(t, r, W[x], U[x], b, a, {}, {})
           T == {m \in Nat : m <= Steps(r) => P(m)}
<1>1. Steps(r) \in Nat
  BY StepsOfRun
<1>2. /\ W[0] = Begin(b) /\ \A x \in 1..Steps(r) : W[x] = update_stop(t, r, vs, W[x - 1], r.from + x - 1)
      /\ U[0] = Begin(a) /\ \A x \in 1..Steps(r) : U[x] = update_stop(t, r, vs, U[x - 1], r.from + x - 1)
  BY <1>1, WalkSteps
<1> HIDE DEF W, U
<1>3. 0 \in T
  BY <1>2, BeginInStep
<1>4. ASSUME NEW m \in T PROVE m + 1 \in T
  <2>1. SUFFICES ASSUME m + 1 <= Steps(r) PROVE P(m + 1)
    OBVIOUS
  <2>2. m \in Nat /\ P(m)
    BY <1>1, <2>1
  <2>3. m + 1 \in 1..Steps(r) /\ (m + 1) - 1 = m
    BY <1>1, <2>1, <2>2
  <2> DEFINE i == r.from + (m + 1) - 1
  <2>4. i \in r.from..r.to
    BY <2>3, StepsOfRun
  <2>5. W[m + 1] = update_stop(t, r, vs, W[m], i) /\ U[m + 1] = update_stop(t, r, vs, U[m], i)
    BY <1>2, <2>3
  <2>6. {} \in SUBSET EventsOf(t, r) /\ {} \in SUBSET (1..NStops(t, r))
    OBVIOUS
  <2> HIDE DEF i
  <2>7. InStep(t, r, update_stop(t, r, vs, W[m], i), update_stop(t, r, vs, U[m], i), b, a, {}, {})
    BY <2>2, <2>4, <2>6, StopInLockstep
  <2> QED
    BY <2>5, <2>7
<1>5. T = Nat
  <2> HIDE DEF P
  <2>1. T \in SUBSET Nat
    OBVIOUS
  <2> HIDE DEF T
  <2> QED
    BY <1>3, <1>4, <2>1, NumbersReached
<1> QED
  BY <1>1, <1>5 DEF W, U

(***************************************************************************)
(* Twice the same message is as good as once.                              *)
(***************************************************************************)
LEMMA EndStopTwice ==
  ASSUME NEW r, NEW x, NEW i
  PROVE  EndStop(r, EndStop(r, x, i), i) = EndStop(r, x, i)
<1>1. CancelStop(CancelStop(x)) = CancelStop(x) /\ ~CancelStop(x).in /\ ~CancelStop(x).out
  BY DEF CancelStop
<1> QED
  BY <1>1 DEF EndStop

LEMMA UpdateTwice ==
  ASSUME NEW t, IsTimetable(t), NEW r \in RunsOf(t), NEW d \in RtData(t, r), NEW vs \in Seq(Told)
  PROVE  update_run(t, r, update_run(t, r, d, vs), vs) = update_run(t, r, d, vs)
<1> DEFINE n == Steps(r)
           E == EventsOf(t, r)
           f == update_run(t, r, d, vs)
           w == Walk(t, r, d, vs)[n]
           u == Walk(t, r, f, vs)[n]
           c == Checked(r, w, vs)
           k == Checked(r, u, vs)
           marked(e) == w.cursor <= Len(vs) /\ e \in Unmatched(r, w)
<1>1. f \in RtData(t, r)
  BY UpdateRunType
<1>2. f = Finish(r, w, vs) /\ update_run(t, r, f, vs) = Finish(r, u, vs)
  BY DEF update_run, Steps
<1>3. n \in 0..n
  BY StepsOfRun
<1> HIDE DEF f
<1>4. InStep(t, r, w, u, d, f, {}, {})
  BY <1>1, <1>3, WalksInStep
<1> HIDE DEF w, u
<1>5. /\ w \in Walks(t, r) /\ u \in Walks(t, r) /\ w.cursor = u.cursor /\ Unmatched(r, w) = Unmatched(r, u)
      /\ Together(t, r, w.rt, u.rt, d, f, {}, {})
  BY <1>4 DEF InStep, Unmatched
<1>6. /\ c \in RtData(t, r) /\ c.times = w.rt.times /\ c.cancelled = w.rt.cancelled
      /\ \A i \in 1..NStops(t, r) : c.stops[i] = EndStop(r, w.rt.stops[i], i)
      /\ \A e \in E : c.states[e] = IF marked(e) THEN "kInconsistent" ELSE w.rt.states[e]
  BY <1>5, CheckedFacts
<1>7. /\ k \in RtData(t, r) /\ k.times = u.rt.times /\ k.cancelled = u.rt.cancelled
      /\ \A i \in 1..NStops(t, r) : k.stops[i] = EndStop(r, u.rt.stops[i], i)
      /\ \A e \in E : k.states[e] = IF marked(e) THEN "kInconsistent" ELSE u.rt.states[e]
  BY <1>5, CheckedFacts
<1>8. /\ f = IF Cardinality(Served(c)) <= 1 THEN [c EXCEPT !.cancelled = TRUE] ELSE monotonize(c)
      /\ Finish(r, u, vs) = IF Cardinality(Served(k)) <= 1 THEN [k EXCEPT !.cancelled = TRUE] ELSE monotonize(k)
  BY <1>2, FinishIs
<1> HIDE DEF c, k, marked, E
<1>9. f.stops = c.stops
  <2>1. [c EXCEPT !.cancelled = TRUE].stops = c.stops
    BY <1>6 DEF RtData
  <2>2. monotonize(c).stops = c.stops
    BY <1>6, Monotonized
  <2> QED
    BY <1>8, <2>1, <2>2
<1>10. \A i \in 1..NStops(t, r) : u.rt.stops[i] = w.rt.stops[i] \/ u.rt.stops[i] = EndStop(r, w.rt.stops[i], i)
  BY <1>5, <1>6, <1>9 DEF Together
<1>11. \A i \in 1..NStops(t, r) : k.stops[i] = c.stops[i]
  BY <1>6, <1>7, <1>10, EndStopTwice
<1>12. k.stops = c.stops
  <2> DEFINE N == 1..NStops(t, r)
  <2>1. k.stops \in [N -> Stops] /\ c.stops \in [N -> Stops]
    BY <1>6, <1>7 DEF RtData
  <2>2. \A i \in N : k.stops[i] = c.stops[i]
    BY <1>11
  <2> HIDE DEF N
  <2> QED
    BY <2>1, <2>2
<1>13. Served(k) = Served(c) /\ k.cancelled = c.cancelled
  BY <1>5, <1>6, <1>7, <1>12 DEF Served, Together
<1>14. ASSUME NEW e \in E
       PROVE  \/ u.rt.times[e] = w.rt.times[e] /\ u.rt.states[e] = w.rt.states[e]
              \/ u.rt.times[e] = f.times[e] /\ w.rt.states[e] = "kInconsistent" /\ u.rt.states[e] = "kInconsistent"
              \/ u.rt.times[e] = f.times[e] /\ u.rt.states[e] = f.states[e]
  BY <1>5 DEF Together, SameEvent, E
<1>15. CASE Cardinality(Served(c)) <= 1
  <2>1. f = [c EXCEPT !.cancelled = TRUE] /\ Finish(r, u, vs) = [k EXCEPT !.cancelled = TRUE]
    BY <1>8, <1>13, <1>15
  <2>2. f.times = c.times /\ f.states = c.states
    BY <1>6, <2>1 DEF RtData
  <2>3. \A e \in E : SameEvent(k, c, e)
    BY <1>6, <1>7, <1>14, <2>2 DEF SameEvent
  <2>4. k = c
    BY <1>6, <1>7, <1>11, <1>13, <2>3, DataEqual DEF E
  <2> QED
    BY <1>2, <2>1, <2>4 DEF f
<1>16. CASE ~(Cardinality(Served(c)) <= 1)
  <2>1. f = monotonize(c) /\ Finish(r, u, vs) = monotonize(k)
    BY <1>8, <1>13, <1>16
  <2>2. ASSUME NEW e \in E
        PROVE  /\ f.times[e] = IF rt_interval(Bound(c, e)) THEN Bound(c, e) ELSE c.times[e]
               /\ f.states[e] = IF Bound(c, e) # c.times[e] /\ rt_interval(Bound(c, e))
                                THEN "kInconsistent" ELSE c.states[e]
    BY <1>6, <2>1, Monotonized DEF E
  <2>3. ASSUME NEW e \in E
        PROVE  Bound(c, e) \in Int /\ c.times[e] \in Int /\ k.times[e] \in Int
               /\ Bound(c, e) <= k.times[e] /\ k.times[e] <= c.times[e]
    <3>1. Bound(c, e) \in Int /\ Bound(c, e) <= c.times[e]
      <4>1. e >= e
        BY RunFacts DEF E
      <4> QED
        BY <1>6, <4>1, BoundFacts DEF E
    <3>2. c.times[e] \in Int
      BY <1>6 DEF RtData, E
    <3>3. k.times[e] = c.times[e] \/ k.times[e] = f.times[e]
      BY <1>6, <1>7, <1>14
    <3> QED
      BY <2>2, <3>1, <3>2, <3>3
  <2>c. ASSUME NEW e \in E
        PROVE  /\ Bound(c, e) \in Int
               /\ \A g \in E : g >= e => Bound(c, e) <= c.times[g]
               /\ \E g \in E : g >= e /\ Bound(c, e) = c.times[g]
    BY <1>6, BoundFacts DEF E
  <2>k. ASSUME NEW e \in E
        PROVE  /\ Bound(k, e) \in Int
               /\ \A g \in E : g >= e => Bound(k, e) <= k.times[g]
               /\ \E g \in E : g >= e /\ Bound(k, e) = k.times[g]
    BY <1>7, BoundFacts DEF E
  <2>4. ASSUME NEW e \in E PROVE Bound(k, e) = Bound(c, e)
    <3>1. PICK g \in E : g >= e /\ Bound(c, e) = c.times[g]
      BY <2>c
    <3>2. Bound(k, e) <= k.times[g]
      BY <2>k, <3>1
    <3>3. PICK h \in E : h >= e /\ Bound(k, e) = k.times[h]
      BY <2>k
    <3>4. Bound(c, e) <= Bound(c, h)
      <4>1. PICK j \in E : j >= h /\ Bound(c, h) = c.times[j]
        BY <2>c
      <4>2. j >= e
        BY <3>3, <4>1, RunFacts DEF E
      <4> QED
        <5>1. Bound(c, e) <= c.times[j]
          BY <2>c, <4>2
        <5> QED
          BY <4>1, <5>1
    <3>5. Bound(k, e) \in Int
      BY <2>k
    <3>6. Bound(c, e) \in Int /\ Bound(c, h) \in Int /\ k.times[g] \in Int /\ c.times[g] \in Int /\ k.times[h] \in Int
      BY <2>3
    <3>7. k.times[g] <= c.times[g] /\ Bound(c, h) <= k.times[h]
      BY <2>3
    <3> QED
      BY <3>1, <3>2, <3>3, <3>4, <3>5, <3>6, <3>7
  <2>5. ASSUME NEW e \in E PROVE SameEvent(monotonize(k), f, e)
    <3>1. /\ monotonize(k).times[e] = IF rt_interval(Bound(c, e)) THEN Bound(c, e) ELSE k.times[e]
          /\ monotonize(k).states[e] = IF Bound(c, e) # k.times[e] /\ rt_interval(Bound(c, e))
                                       THEN "kInconsistent" ELSE k.states[e]
      BY <1>7, <2>4, Monotonized DEF E
    <3>2. monotonize(k).times[e] = f.times[e]
      BY <3>1, <2>2, <1>6, <1>7, <1>14
    <3>3. monotonize(k).states[e] = f.states[e]
      BY <3>1, <2>2, <1>6, <1>7, <1>14
    <3> QED
      BY <3>2, <3>3 DEF SameEvent
  <2>6. /\ monotonize(k) \in RtData(t, r) /\ monotonize(k).stops = k.stops
        /\ monotonize(k).cancelled = k.cancelled /\ f.cancelled = c.cancelled
    BY <1>6, <1>7, <2>1, Monotonized
  <2>7. monotonize(k) = f
    BY <1>1, <1>9, <1>12, <1>13, <2>5, <2>6, DataEqual DEF E
  <2> QED
    BY <1>2, <2>1, <2>7 DEF f
<1> QED
  BY <1>15, <1>16 DEF f

(***************************************************************************)
(* A message that has a time for each event of the run.                    *)
(***************************************************************************)
Tells(t, r, vs) ==
  /\ r.from = 1 /\ Len(vs) = NStops(t, r)
  /\ \A i \in 1..NStops(t, r) :
       /\ vs[i].l = StopsOf(t, r)[i].loc
       /\ i = 1 \/ (ArrMatches(t, r, i, vs[i]) /\ rt_interval(vs[i].rt_arr))
       /\ i = NStops(t, r) \/ (DepMatches(t, r, i, vs[i]) /\ rt_interval(vs[i].rt_dep))

\* The events up to the departure at stop x.
EventsTo(t, r, x) == {e \in EventsOf(t, r) : e <= 2 * x - 2}

LEMMA TellsStop ==
  ASSUME NEW t, IsTimetable(t), NEW r \in RunsOf(t), NEW vs \in Seq(Told), Tells(t, r, vs),
         NEW b, NEW a, NEW i \in 1..NStops(t, r), NEW w, NEW u,
         InStep(t, r, w, u, b, a, EventsTo(t, r, i - 1), 1..i - 1), w.cursor = i
  PROVE  LET w2 == update_stop(t, r, vs, w, i)
             u2 == update_stop(t, r, vs, u, i)
         IN  /\ InStep(t, r, w2, u2, b, a, EventsTo(t, r, i), 1..i)
             /\ w2.cursor = i + 1
<1> DEFINE ks == Candidates(t, r, vs, w, i)
           k == FirstOf(ks)
           N == NStops(t, r)
           D == EventsTo(t, r, i - 1)
           w2 == update_stop(t, r, vs, w, i)
           u2 == update_stop(t, r, vs, u, i)
<1>1. /\ r.from = 1 /\ Len(vs) = N /\ vs[i].l = StopsOf(t, r)[i].loc
      /\ i = 1 \/ (ArrMatches(t, r, i, vs[i]) /\ rt_interval(vs[i].rt_arr))
      /\ i = N \/ (DepMatches(t, r, i, vs[i]) /\ rt_interval(vs[i].rt_dep))
  BY DEF Tells
<1>2. N \in Nat /\ N >= 2 /\ r.to \in Nat /\ r.to <= N /\ i \in Nat /\ 1 <= i /\ i <= N /\ vs[i] \in Told
  BY <1>1, RunFacts
<1>3. r.to = N
  <2>1. SUFFICES ASSUME r.to # N PROVE FALSE
    OBVIOUS
  <2>2. r.to \in 1..N
    BY <1>1, <1>2, RunFacts
  <2>3. DepMatches(t, r, r.to, vs[r.to])
    BY <2>1, <2>2 DEF Tells
  <2> QED
    BY <2>3 DEF DepMatches
<1>4. i \in r.from..r.to
  BY <1>1, <1>2, <1>3
<1>5. w \in Walks(t, r) /\ w.rt.stops[i].loc = StopsOf(t, r)[i].loc
  BY DEF InStep, Walks, RtData
<1>6. StopMatches(t, r, w, i, vs[i])
  <2>1. vs[i].l # NoLocation
    <3>1. StopsOf(t, r)[i] \in Stops
      BY RunFacts
    <3> QED
      BY <1>1, <3>1 DEF Stops, NoLocation
  <2>2. matches(t, "equivalent", w.rt.stops[i].loc, vs[i].l)
    BY <1>1, <1>5 DEF matches
  <2>3. ArrMatches(t, r, i, vs[i]) \/ DepMatches(t, r, i, vs[i])
    BY <1>1, <1>2
  <2> QED
    BY <2>1, <2>2, <2>3 DEF StopMatches
<1>7. i \in ks
  BY <1>1, <1>2, <1>6 DEF Candidates
<1>8. D \in SUBSET EventsOf(t, r) /\ 1..i - 1 \in SUBSET (1..N)
  BY <1>2 DEF EventsTo
<1> HIDE DEF ks, D, w2, u2
<1>9. /\ k \in ks /\ \A y \in ks : k <= y
      /\ w2.cursor = k + 1
      /\ InStep(t, r, w2, u2, b, a, D \cup ToldEvents(t, r, i, vs[k]), (1..i - 1) \cup {i})
  BY <1>4, <1>7, <1>8, StopInLockstep DEF ks, D, w2, u2
<1>10. k = i
  <2>1. k \in i..Len(vs)
    BY <1>9 DEF ks, Candidates
  <2>2. k <= i
    BY <1>7, <1>9
  <2> HIDE DEF k
  <2> QED
    BY <1>1, <1>2, <2>1, <2>2
<1> HIDE DEF k
<1>11. (1..i - 1) \cup {i} = 1..i
  BY <1>2
<1>12. D \cup ToldEvents(t, r, i, vs[i]) = EventsTo(t, r, i)
  <2>1. Arr(i) = 2 * i - 3 /\ Dep(i) = 2 * i - 2
    BY <1>2 DEF Arr, Dep
  <2>2. \A x : rt_interval(x) /\ x \in Int => x # NoTime
    BY RtIntervalAssumption DEF rt_interval, NoTime
  <2>3. vs[i].rt_arr \in Int /\ vs[i].rt_dep \in Int
    BY <1>2 DEF Told
  <2>4. i # 1 => Arr(i) \in ToldEvents(t, r, i, vs[i])
    BY <1>1, <2>2, <2>3 DEF ToldEvents
  <2>5. i # N => Dep(i) \in ToldEvents(t, r, i, vs[i])
    BY <1>1, <2>2, <2>3 DEF ToldEvents
  <2>6. EventsOf(t, r) = 0..2 * N - 3
    BY RunFacts
  <2>7. ASSUME NEW e \in EventsTo(t, r, i) PROVE e \in D \cup ToldEvents(t, r, i, vs[i])
    <3>1. e \in Nat /\ e <= 2 * i - 2 /\ e <= 2 * N - 3 /\ e \in EventsOf(t, r)
      BY <1>2, <2>6 DEF EventsTo
    <3>2. CASE e <= 2 * (i - 1) - 2
      BY <3>1, <3>2 DEF D, EventsTo
    <3>3. CASE e = 2 * i - 3
      <4>1. i # 1 /\ e = Arr(i)
        BY <2>1, <3>1, <3>3
      <4> QED
        BY <2>4, <4>1
    <3>4. CASE e = 2 * i - 2
      <4>1. i # N /\ e = Dep(i)
        BY <1>2, <2>1, <3>1, <3>4
      <4> QED
        BY <2>5, <4>1
    <3> QED
      BY <1>2, <3>1, <3>2, <3>3, <3>4
  <2>8. ASSUME NEW e \in D \cup ToldEvents(t, r, i, vs[i]) PROVE e \in EventsTo(t, r, i)
    <3>1. CASE e \in D
      <4>1. e \in EventsOf(t, r) /\ e <= 2 * (i - 1) - 2
        BY <3>1 DEF D, EventsTo
      <4>2. e \in Int
        BY <2>6, <4>1
      <4> QED
        BY <1>2, <4>1, <4>2 DEF EventsTo
    <3>2. CASE e \in ToldEvents(t, r, i, vs[i])
      <4>1. e \in EventsOf(t, r)
        <5>1. ToldEvents(t, r, i, vs[i]) \in SUBSET EventsOf(t, r)
          BY <1>2, <1>4, <1>8, ApplyInStep DEF D
        <5> QED
          BY <3>2, <5>1
      <4>2. e = Arr(i) \/ e = Dep(i)
        BY <3>2 DEF ToldEvents
      <4> QED
        BY <1>2, <2>1, <4>1, <4>2 DEF EventsTo
    <3> QED
      BY <3>1, <3>2
  <2> QED
    BY <2>7, <2>8
<1> QED
  BY <1>9, <1>10, <1>11, <1>12 DEF w2, u2

LEMMA TellsWalk ==
  ASSUME NEW t, IsTimetable(t), NEW r \in RunsOf(t), NEW vs \in Seq(Told), Tells(t, r, vs),
         NEW b \in RtData(t, r), NEW a \in RtData(t, r)
  PROVE  \A x \in 0..Steps(r) :
           /\ InStep(t, r, Walk(t, r, b, vs)[x], Walk(t, r, a, vs)[x], b, a, EventsTo(t, r, x), 1..x)
           /\ Walk(t, r, b, vs)[x].cursor = x + 1
<1> DEFINE W == Walk(t, r, b, vs)
           U == Walk(t, r, a, vs)
           P(x) == InStep(t, r, W[x], U[x], b, a, EventsTo(t, r, x), 1..x) /\ W[x].cursor = x + 1
           T == {m \in Nat : m <= Steps(r) => P(m)}
<1>1. Steps(r) \in Nat /\ r.from = 1 /\ Steps(r) <= NStops(t, r) /\ NStops(t, r) \in Nat
  BY StepsOfRun, RunFacts DEF Tells, Steps
<1>2. /\ W[0] = Begin(b) /\ \A x \in 1..Steps(r) : W[x] = update_stop(t, r, vs, W[x - 1], r.from + x - 1)
      /\ U[0] = Begin(a) /\ \A x \in 1..Steps(r) : U[x] = update_stop(t, r, vs, U[x - 1], r.from + x - 1)
  BY <1>1, WalkSteps
<1> HIDE DEF W, U
<1>3. 0 \in T
  <2>1. EventsTo(t, r, 0) = {}
    BY RunFacts DEF EventsTo
  <2>2. 1..0 = {}
    OBVIOUS
  <2>3. InStep(t, r, W[0], U[0], b, a, EventsTo(t, r, 0), 1..0)
    BY <1>2, <2>1, <2>2, BeginInStep
  <2>4. W[0].cursor = 0 + 1
    BY <1>2, BeginInStep
  <2> QED
    BY <2>3, <2>4
<1>4. ASSUME NEW m \in T PROVE m + 1 \in T
  <2>1. SUFFICES ASSUME m + 1 <= Steps(r) PROVE P(m + 1)
    OBVIOUS
  <2>2. m \in Nat /\ P(m)
    BY <1>1, <2>1
  <2> DEFINE i == m + 1
  <2>3. i \in 1..Steps(r) /\ i - 1 = m /\ r.from + i - 1 = i /\ i \in 1..NStops(t, r)
    BY <1>1, <2>1, <2>2
  <2>4. W[i] = update_stop(t, r, vs, W[m], i) /\ U[i] = update_stop(t, r, vs, U[m], i)
    BY <1>2, <2>3
  <2>5. InStep(t, r, W[m], U[m], b, a, EventsTo(t, r, i - 1), 1..i - 1) /\ W[m].cursor = i
    BY <2>2, <2>3
  <2> HIDE DEF i
  <2>6. InStep(t, r, W[i], U[i], b, a, EventsTo(t, r, i), 1..i) /\ W[i].cursor = i + 1
    <3> DEFINE w == W[m]
               u == U[m]
    <3>1. i \in 1..NStops(t, r) /\ w.cursor = i /\ InStep(t, r, w, u, b, a, EventsTo(t, r, i - 1), 1..i - 1)
      BY <2>3, <2>5
    <3>2. W[i] = update_stop(t, r, vs, w, i) /\ U[i] = update_stop(t, r, vs, u, i)
      BY <2>3, <2>4
    <3> HIDE DEF w, u
    <3>3. /\ InStep(t, r, update_stop(t, r, vs, w, i), update_stop(t, r, vs, u, i), b, a, EventsTo(t, r, i), 1..i)
          /\ update_stop(t, r, vs, w, i).cursor = i + 1
      BY <3>1, TellsStop
    <3> QED
      BY <3>2, <3>3
  <2> QED
    BY <2>6 DEF i
<1>5. T = Nat
  <2> HIDE DEF P
  <2>1. T \in SUBSET Nat
    OBVIOUS
  <2> HIDE DEF T
  <2> QED
    BY <1>3, <1>4, <2>1, NumbersReached
<1> QED
  BY <1>1, <1>5 DEF W, U

(***************************************************************************)
(* Such a message decides: what was known before does not matter.          *)
(***************************************************************************)
LEMMA TellsDecides ==
  ASSUME NEW t, IsTimetable(t), NEW r \in RunsOf(t), NEW vs \in Seq(Told), Tells(t, r, vs),
         NEW b \in RtData(t, r), NEW a \in RtData(t, r)
  PROVE  update_run(t, r, b, vs) = update_run(t, r, a, vs)
<1> DEFINE n == Steps(r)
           w == Walk(t, r, b, vs)[n]
           u == Walk(t, r, a, vs)[n]
           N == NStops(t, r)
<1>1. n \in 0..n /\ r.from = 1 /\ r.to \in Nat /\ r.to <= N /\ N \in Nat
  BY StepsOfRun, RunFacts DEF Tells
<1>2. r.to = N
  <2>1. SUFFICES ASSUME r.to # N PROVE FALSE
    OBVIOUS
  <2>2. r.to \in 1..N
    BY <1>1, RunFacts
  <2>3. DepMatches(t, r, r.to, vs[r.to])
    BY <2>1, <2>2 DEF Tells
  <2> QED
    BY <2>3 DEF DepMatches
<1>3. n = N
  BY <1>1, <1>2 DEF Steps
<1>4. InStep(t, r, w, u, b, a, EventsTo(t, r, n), 1..n)
  BY <1>1, TellsWalk
<1>5. EventsTo(t, r, n) = EventsOf(t, r)
  BY <1>1, <1>3, RunFacts DEF EventsTo
<1>6. update_run(t, r, b, vs) = Finish(r, w, vs) /\ update_run(t, r, a, vs) = Finish(r, u, vs)
  BY DEF update_run, Steps
<1> HIDE DEF w, u
<1>7. /\ w \in Walks(t, r) /\ u \in Walks(t, r)
      /\ w.cursor = u.cursor /\ w.delay = u.delay /\ w.unmatched = u.unmatched
      /\ Together(t, r, w.rt, u.rt, b, a, EventsOf(t, r), 1..N)
  BY <1>3, <1>4, <1>5 DEF InStep
<1>8. w.rt = u.rt
  <2>1. w.rt \in RtData(t, r) /\ u.rt \in RtData(t, r) /\ w.rt.cancelled = u.rt.cancelled
        /\ (\A e \in EventsOf(t, r) : SameEvent(w.rt, u.rt, e))
        /\ (\A i \in 1..N : w.rt.stops[i] = u.rt.stops[i])
    BY <1>7 DEF Together
  <2> QED
    BY <2>1, DataEqual
<1>9. w = u
  BY <1>7, <1>8 DEF Walks
<1> QED
  BY <1>6, <1>9

-----------------------------------------------------------------------------
(***************************************************************************)
(* The runs that a message is matched to are runs of the timetable, and    *)
(* no two of them are parts of the same transport on the same day.         *)
(***************************************************************************)
IsMatchable(t) ==
  /\ IsTimetable(t)
  /\ \A x \in DOMAIN t.trips : IsTrip(t.routes, t.trips[x])
  /\ DOMAIN t.trips \subseteq DOMAIN t.info
  /\ DOMAIN t.eq_order \subseteq Nat
  /\ \A l \in DOMAIN t.eq_order :
       /\ t.eq_order[l] \in Seq(Nat)
       /\ {t.eq_order[l][x] : x \in DOMAIN t.eq_order[l]} = t.equivalences[l]

\* The stops that messages tell of, on the locations of the timetable.
ToldOf(t) == {v \in Told : v.l \in {NoLocation} \cup DOMAIN t.eq_order}

AreMatches(t, runs) ==
  /\ runs \subseteq RunsOf(t)
  /\ \A r, s \in runs : KeyOf(r) = KeyOf(s) => r = s

IsCandidates(t, c) == \A k \in DOMAIN c : k \in KeysOf(t) /\ c[k].from \in 1..NStops(t, k)

LEMMA ActiveKey ==
  ASSUME NEW t, IsTimetable(t), NEW route \in DOMAIN t.routes, NEW pos \in DOMAIN t.routes[route].times, NEW day,
         is_transport_active(t, [route |-> route, pos |-> pos, day |-> day])
  PROVE  [route |-> route, pos |-> pos, day |-> day] \in KeysOf(t)
<1>1. IsRoute(t.routes[route])
  BY DEF IsTimetable
<1>2. pos \in Nat
  BY <1>1 DEF IsRoute
<1>3. day \in t.routes[route].days[pos]
  BY DEF is_transport_active
<1>4. day \in Int
  BY <1>1, <1>3 DEF IsRoute
<1> QED
  BY <1>2, <1>4 DEF KeysOf

LEMMA HitFacts ==
  ASSUME NEW t, IsMatchable(t), NEW v \in ToldOf(t), NEW h \in Hits(t, v)
  PROVE  h.key \in KeysOf(t) /\ h.x \in Nat /\ h.i \in 1..NStops(t, h.key)
<1>1. v.l \in DOMAIN t.eq_order /\ is_transport_active(t, h.key)
  BY DEF Hits, ToldOf
<1>2. PICK x \in DOMAIN t.eq_order[v.l] : \E c \in Calls(t, t.eq_order[v.l][x]) : h \in HitsAt(t, v, x, c)
  BY DEF Hits, ToldOf
<1>3. PICK c \in Calls(t, t.eq_order[v.l][x]) : h \in HitsAt(t, v, x, c)
  BY <1>2
<1>4. c.r \in DOMAIN t.routes /\ c.i \in DOMAIN t.routes[c.r].stops
  BY <1>3 DEF Calls
<1>5. x \in Nat
  BY <1>1, <1>2 DEF IsMatchable
<1>6. PICK pos \in DOMAIN t.routes[c.r].times :
        \E day, score : h = [key |-> [route |-> c.r, pos |-> pos, day |-> day], x |-> x, i |-> c.i, score |-> score]
  BY <1>3 DEF HitsAt
<1>7. PICK day, score : h = [key |-> [route |-> c.r, pos |-> pos, day |-> day], x |-> x, i |-> c.i, score |-> score]
  BY <1>6
<1>8. h.key \in KeysOf(t)
  BY <1>1, <1>4, <1>6, <1>7, ActiveKey DEF IsMatchable
<1>9. DOMAIN t.routes[c.r].stops = 1..NStops(t, h.key)
  <2>1. t.routes[c.r].stops \in Seq(Stops)
    BY <1>4 DEF IsMatchable, IsTimetable, IsRoute, Stops
  <2>2. h.key.route = c.r
    BY <1>7
  <2> QED
    BY <2>1, <2>2 DEF NStops, StopsOf
<1> QED
  BY <1>4, <1>5, <1>7, <1>8, <1>9

\* Of the hits of a run one is scanned first.
LEMMA FirstHit ==
  ASSUME NEW H, H # {}, \A h \in H : h.x \in Nat /\ h.i \in Nat
  PROVE  \E h \in H : \A g \in H : ScannedBefore(h, g)
<1>1. {h.x : h \in H} \in SUBSET Nat /\ {h.x : h \in H} # {}
  OBVIOUS
<1>2. PICK x \in {h.x : h \in H} : \A y \in {h.x : h \in H} : x <= y
  BY <1>1, LeastNumber
<1>3. {h.i : h \in {h \in H : h.x = x}} \in SUBSET Nat /\ {h.i : h \in {h \in H : h.x = x}} # {}
  BY <1>2
<1>4. PICK i \in {h.i : h \in {h \in H : h.x = x}} : \A j \in {h.i : h \in {h \in H : h.x = x}} : i <= j
  BY <1>3, LeastNumber
<1>5. PICK h \in H : h.x = x /\ h.i = i
  BY <1>4
<1>6. ASSUME NEW g \in H PROVE ScannedBefore(h, g)
  <2>1. x <= g.x /\ x \in Nat /\ g.x \in Nat
    BY <1>2
  <2>2. g.x = x => i <= g.i
    BY <1>4
  <2> QED
    BY <1>5, <2>1, <2>2 DEF ScannedBefore
<1> QED
  BY <1>6

LEMMA AddStopCandidates ==
  ASSUME NEW t, IsMatchable(t), NEW v \in ToldOf(t), NEW c, IsCandidates(t, c)
  PROVE  IsCandidates(t, AddStop(t, c, v))
<1> DEFINE hits == Hits(t, v)
           of(k) == {h \in hits : h.key = k}
           first(k) == CHOOSE h \in of(k) : \A g \in of(k) : ScannedBefore(h, g)
           from(k) == IF k \in DOMAIN c THEN c[k].from ELSE first(k).i
           n == AddStop(t, c, v)
<1>1. DOMAIN n = DOMAIN c \cup {h.key : h \in hits}
  BY DEF AddStop
<1>2. \A k \in DOMAIN n : n[k].from = from(k)
  BY DEF AddStop
<1> HIDE DEF n
<1>3. ASSUME NEW k \in DOMAIN n PROVE k \in KeysOf(t) /\ from(k) \in 1..NStops(t, k)
  <2>1. CASE k \in DOMAIN c
    BY <2>1 DEF IsCandidates
  <2>2. CASE k \notin DOMAIN c
    <3>1. of(k) # {}
      BY <1>1, <2>2
    <3>2. \A h \in of(k) : h.x \in Nat /\ h.i \in 1..NStops(t, k) /\ h.key = k /\ k \in KeysOf(t)
      BY HitFacts
    <3> HIDE DEF of
    <3>3. \E h \in of(k) : \A g \in of(k) : ScannedBefore(h, g)
      BY <3>1, <3>2, FirstHit
    <3>4. first(k) \in of(k)
      BY <3>3
    <3> QED
      BY <2>2, <3>2, <3>4
  <2> QED
    BY <2>1, <2>2
<1> QED
  BY <1>2, <1>3 DEF IsCandidates, n

AreCandidates(t, vs, f) ==
  f = [x \in 0..Len(vs) |-> IF x = 0 THEN <<>> ELSE AddStop(t, f[x - 1], vs[x])]

LEMMA CandidatesExist ==
  ASSUME NEW t, NEW vs, Len(vs) \in Nat
  PROVE  \E f : AreCandidates(t, vs, f)
<1> DEFINE Next_(f, x) == IF x = 0 THEN <<>> ELSE AddStop(t, f[x - 1], vs[x])
           T == {m \in Nat : \E f : f = [x \in 0..m |-> Next_(f, x)]}
<1>1. 0 \in T
  <2> DEFINE f == [x \in 0..0 |-> <<>>]
  <2>1. f = [x \in 0..0 |-> Next_(f, x)]
    OBVIOUS
  <2> QED
    BY <2>1
<1>2. ASSUME NEW m \in T PROVE m + 1 \in T
  <2>1. PICK f : f = [x \in 0..m |-> Next_(f, x)]
    OBVIOUS
  <2> DEFINE g == [x \in 0..m + 1 |-> IF x = m + 1 THEN Next_(f, x) ELSE f[x]]
  <2>2. ASSUME NEW x \in 0..m + 1 PROVE g[x] = Next_(g, x)
    <3>1. CASE x = 0
      BY <3>1, <2>1
    <3>2. CASE x # 0 /\ x # m + 1
      <4>1. x \in 0..m /\ x - 1 \in 0..m
        BY <3>2
      <4>2. g[x] = f[x] /\ g[x - 1] = f[x - 1]
        BY <4>1
      <4>3. f[x] = Next_(f, x)
        BY <4>1, <2>1
      <4> HIDE DEF g
      <4> QED
        BY <4>2, <4>3
    <3>3. CASE x = m + 1
      <4>1. x # 0 /\ x - 1 = m /\ m \in 0..m + 1
        BY <3>3
      <4>2. g[x - 1] = f[x - 1]
        BY <4>1
      <4>3. g[x] = Next_(f, x)
        BY <3>3
      <4> HIDE DEF g
      <4> QED
        BY <4>1, <4>2, <4>3
    <3> QED
      BY <3>1, <3>2, <3>3
  <2>3. g = [x \in 0..m + 1 |-> Next_(g, x)]
    <3> HIDE DEF Next_
    <3> QED
      BY <2>2
  <2> HIDE DEF g
  <2> QED
    BY <2>3
<1>3. T = Nat
  <2> HIDE DEF T
  <2>1. T \in SUBSET Nat
    BY DEF T
  <2> QED
    BY <1>1, <1>2, <2>1, NumbersReached
<1> QED
  BY <1>3 DEF AreCandidates

LEMMA CandidatesOfMessage ==
  ASSUME NEW t, IsMatchable(t), NEW vs \in Seq(ToldOf(t))
  PROVE  LET f == CandidatesAt(t, vs)
         IN  /\ f[0] = <<>>
             /\ \A x \in 1..Len(vs) : f[x] = AddStop(t, f[x - 1], vs[x])
             /\ \A x \in 0..Len(vs) : IsCandidates(t, f[x])
<1> DEFINE f == CandidatesAt(t, vs)
           n == Len(vs)
           T == {m \in Nat : m <= n => IsCandidates(t, f[m])}
<1>1. n \in Nat
  OBVIOUS
<1>2. f = CHOOSE g : AreCandidates(t, vs, g)
  BY DEF CandidatesAt, AreCandidates
<1>3. AreCandidates(t, vs, f)
  <2> HIDE DEF f
  <2>1. \E g : AreCandidates(t, vs, g)
    BY <1>1, CandidatesExist
  <2> QED
    BY <1>2, <2>1
<1> HIDE DEF f
<1>4. f[0] = <<>> /\ \A x \in 1..n : f[x] = AddStop(t, f[x - 1], vs[x])
  BY <1>1, <1>3 DEF AreCandidates
<1>5. 0 \in T
  BY <1>4 DEF IsCandidates
<1>6. ASSUME NEW m \in T PROVE m + 1 \in T
  <2>1. SUFFICES ASSUME m + 1 <= n PROVE IsCandidates(t, f[m + 1])
    OBVIOUS
  <2>2. m \in Nat /\ IsCandidates(t, f[m])
    BY <1>1, <2>1
  <2>3. m + 1 \in 1..n /\ (m + 1) - 1 = m
    BY <1>1, <2>1, <2>2
  <2>4. vs[m + 1] \in ToldOf(t)
    BY <2>3
  <2>5. f[m + 1] = AddStop(t, f[m], vs[m + 1])
    BY <1>4, <2>3
  <2> QED
    BY <2>2, <2>4, <2>5, AddStopCandidates
<1>7. T = Nat
  <2>1. T \in SUBSET Nat
    OBVIOUS
  <2> HIDE DEF T
  <2> QED
    BY <1>5, <1>6, <2>1, NumbersReached
<1>8. \A x \in 0..n : IsCandidates(t, f[x])
  BY <1>1, <1>7
<1> QED
  BY <1>4, <1>8 DEF f

LEMMA BestMatches ==
  ASSUME NEW t, IsMatchable(t), NEW c, IsCandidates(t, c), NEW n, NEW complete
  PROVE  AreMatches(t, best_matches(t, c, n, complete))
<1> DEFINE Whole(k) == [route |-> k.route, pos |-> k.pos, day |-> k.day,
                        from |-> c[k].from, to |-> Len(t.routes[k.route].stops)]
           best == CHOOSE s \in {c[k].score : k \in DOMAIN c} : \A k \in DOMAIN c : s >= c[k].score
           found == {Whole(k) : k \in {k \in DOMAIN c : c[k].score * 1000 > best * 975}}
<1>1. best_matches(t, c, n, complete) = {} \/ best_matches(t, c, n, complete) = found
  BY DEF best_matches
<1> HIDE DEF best
<1>2. ASSUME NEW k \in DOMAIN c
      PROVE  Whole(k) \in RunsOf(t) /\ KeyOf(Whole(k)) = k
  <2>1. k \in KeysOf(t) /\ c[k].from \in 1..NStops(t, k)
    BY DEF IsCandidates
  <2>2. k \in [route : DOMAIN t.routes, pos : Nat, day : Int] /\ k.pos \in DOMAIN t.routes[k.route].times
        /\ is_transport_active(t, k)
    BY <2>1 DEF KeysOf
  <2>3. KeyOf(Whole(k)) = k
    BY <2>2 DEF KeyOf
  <2>4. Len(t.routes[k.route].stops) \in Nat
    BY <2>2 DEF IsMatchable, IsTimetable, IsRoute
  <2>5. NStops(t, k) = Len(t.routes[k.route].stops) /\ NStops(t, Whole(k)) = NStops(t, k)
    BY DEF NStops, StopsOf
  <2>6. c[k].from \in Nat \ {0} /\ c[k].from <= NStops(t, k)
    BY <2>1, <2>4, <2>5
  <2>7. Whole(k) \in [route : DOMAIN t.routes, pos : Nat, day : Int, from : Nat \ {0}, to : Nat]
    BY <2>2, <2>4, <2>6
  <2>8. Whole(k).to <= NStops(t, Whole(k)) /\ Whole(k).from <= Whole(k).to
    BY <2>4, <2>5, <2>6
  <2> QED
    BY <2>2, <2>3, <2>7, <2>8 DEF RunsOf
<1> HIDE DEF Whole
<1>3. \A r \in found : \E k \in DOMAIN c : r = Whole(k)
  OBVIOUS
<1>4. \A r \in found : r \in RunsOf(t)
  BY <1>2, <1>3
<1>5. \A r, s \in found : KeyOf(r) = KeyOf(s) => r = s
  BY <1>2, <1>3
<1> QED
  BY <1>1, <1>4, <1>5 DEF AreMatches

LEMMA MatchesOfMessage ==
  ASSUME NEW t, IsMatchable(t), NEW m, m.stops \in Seq(ToldOf(t))
  PROVE  AreMatches(t, match_run(t, m))
<1> DEFINE named == resolve_static_trip_id(t, m.trip, m.date)
           c == CandidatesAt(t, m.stops)[Len(m.stops)]
<1>1. AreMatches(t, named)
  <2>1. CASE m.trip \notin DOMAIN t.trips
    BY <2>1 DEF resolve_static_trip_id, AreMatches
  <2>2. CASE m.trip \in DOMAIN t.trips
    <3> DEFINE x == t.trips[m.trip]
               r == [x EXCEPT !.day = m.date]
    <3>1. named = {s \in {r} : is_transport_active(t, KeyOf(s))}
      BY <2>2 DEF resolve_static_trip_id
    <3>2. IsTrip(t.routes, x)
      BY <2>2 DEF IsMatchable
    <3> HIDE DEF x
    <3>3. ASSUME is_transport_active(t, KeyOf(r)) PROVE r \in RunsOf(t)
      <4>1. x \in [route : DOMAIN t.routes, pos : Nat, day : Int, from : Nat \ {0}, to : Nat]
            /\ x.pos \in DOMAIN t.routes[x.route].times
            /\ x.from <= x.to /\ x.to <= Len(t.routes[x.route].stops)
        BY <3>2 DEF IsTrip
      <4>2. KeyOf(r) = [route |-> x.route, pos |-> x.pos, day |-> m.date]
        BY <4>1 DEF KeyOf
      <4>3. KeyOf(r) \in KeysOf(t)
        BY <3>3, <4>1, <4>2, ActiveKey DEF IsMatchable
      <4>4. m.date \in Int
        BY <4>2, <4>3 DEF KeysOf
      <4>5. r \in [route : DOMAIN t.routes, pos : Nat, day : Int, from : Nat \ {0}, to : Nat]
            /\ r.route = x.route /\ r.pos = x.pos /\ r.from = x.from /\ r.to = x.to
        BY <4>1, <4>4
      <4> HIDE DEF r
      <4> QED
        BY <3>3, <4>1, <4>5 DEF RunsOf, NStops, StopsOf
    <3> QED
      BY <3>1, <3>3 DEF AreMatches
  <2> QED
    BY <2>1, <2>2
<1>2. AreMatches(t, best_matches(t, c, Len(m.stops), m.complete))
  <2>1. Len(m.stops) \in 0..Len(m.stops)
    OBVIOUS
  <2>2. IsCandidates(t, c)
    BY <2>1, CandidatesOfMessage
  <2> HIDE DEF c
  <2> QED
    BY <2>2, BestMatches
<1>3. match_run(t, m) = IF named # {} THEN named ELSE best_matches(t, c, Len(m.stops), m.complete)
  BY DEF match_run
<1> QED
  BY <1>1, <1>2, <1>3

-----------------------------------------------------------------------------
(***************************************************************************)
(* The state: types, and what the last message has made of its runs.       *)
(***************************************************************************)
TypeInv ==
  /\ feed \in Feeds
  /\ \A id \in DOMAIN matches_ : AreMatches(tt, matches_[id].runs)
  /\ \A k \in DOMAIN rt : k \in KeysOf(tt) /\ rt[k] \in RtData(tt, k)

LastInv ==
  last.id # NoId /\ ~last.m.cancelled =>
    /\ last.m.stops \in Seq(Told)
    /\ AreMatches(tt, last.runs)
    /\ \A r \in last.runs : KeyOf(r) \in DOMAIN rt =>
         \E b \in RtData(tt, r) : rt[KeyOf(r)] = update_run(tt, r, b, last.m.stops)

Inv == TypeInv /\ LastInv

LEMMA FeedFacts ==
  ASSUME feed \in Feeds
  PROVE  IsMatchable(tt) /\ \A m \in feed.messages : m.stops \in Seq(ToldOf(tt)) /\ m.stops \in Seq(Told)
<1>1. IsMatchable(tt)
  BY FeedsAssumption DEF IsMatchable, IsTimetable, tt
<1>2. DOMAIN tt.eq_order \subseteq Nat
  BY <1>1 DEF IsMatchable
<1> DEFINE S == [l : {NoLocation} \cup DOMAIN tt.eq_order,
                 arr : Int, dep : Int, rt_arr : Int, rt_dep : Int,
                 in_forbidden : BOOLEAN, out_forbidden : BOOLEAN, passing : BOOLEAN,
                 arr_canceled : BOOLEAN, dep_canceled : BOOLEAN, recorded : BOOLEAN]
<1>3. S \subseteq ToldOf(tt)
  <2> SUFFICES ASSUME NEW v \in S PROVE v \in ToldOf(tt)
    OBVIOUS
  <2>1. v.l \in {NoLocation} \cup DOMAIN tt.eq_order /\ v.l \in Nat
    BY <1>2 DEF NoLocation
  <2>2. v \in Told
    BY <2>1 DEF Told
  <2> QED
    BY <2>1, <2>2 DEF ToldOf
<1>4. ToldOf(tt) \subseteq Told
  BY DEF ToldOf
<1>5. ASSUME NEW m \in feed.messages PROVE m.stops \in Seq(S)
  BY FeedsAssumption DEF tt
<1> HIDE DEF S
<1>6. ASSUME NEW m \in feed.messages PROVE m.stops \in Seq(ToldOf(tt)) /\ m.stops \in Seq(Told)
  BY <1>3, <1>4, <1>5
<1> QED
  BY <1>1, <1>6

LEMMA RunKey ==
  ASSUME NEW t, IsTimetable(t), NEW r \in RunsOf(t)
  PROVE  KeyOf(r) \in KeysOf(t) /\ RtData(t, KeyOf(r)) = RtData(t, r)
<1>1. r.route \in DOMAIN t.routes /\ r.pos \in DOMAIN t.routes[r.route].times /\ r.day \in Int
      /\ is_transport_active(t, KeyOf(r))
  BY RunFacts DEF RunsOf
<1> QED
  BY <1>1, ActiveKey, KeyFacts DEF KeyOf

\* The planned times of a run are in order.
LEMMA ScheduledInOrder ==
  ASSUME NEW t, IsTimetable(t), NEW r \in RunsOf(t), NEW e \in EventsOf(t, r), NEW f \in EventsOf(t, r), e <= f
  PROVE  scheduled_time(t, r, e) <= scheduled_time(t, r, f)
<1> DEFINE row == t.routes[r.route].times[r.pos]
<1>1. IsRoute(t.routes[r.route]) /\ r.pos \in DOMAIN t.routes[r.route].times /\ r.day \in Int
  BY RunFacts DEF IsTimetable
<1>2. \A x, y \in EventsOf(t, r) : x <= y => row[x] <= row[y]
  BY <1>1 DEF IsRoute, EventsOf
<1>3. \A x \in EventsOf(t, r) : row[x] \in Int
  BY RunFacts
<1>4. r.day * DayLength \in Int
  BY <1>1, DayAssumption
<1>5. \A x : scheduled_time(t, r, x) = r.day * DayLength + row[x]
  BY DEF scheduled_time, EventTime
<1> HIDE DEF row
<1>6. row[e] <= row[f] /\ row[e] \in Int /\ row[f] \in Int
  BY <1>2, <1>3
<1> QED
  BY <1>4, <1>5, <1>6

LEMMA AddType ==
  ASSUME NEW t, IsTimetable(t), NEW r \in RunsOf(t)
  PROVE  /\ add_rt_transport(t, r) \in RtData(t, r)
         /\ (\A e \in EventsOf(t, r) : rt_interval(scheduled_time(t, r, e))) =>
              Inside(add_rt_transport(t, r)) /\ Ordered(add_rt_transport(t, r))
<1> DEFINE ts == [e \in EventsOf(t, r) |-> clamp_delta(scheduled_time(t, r, e))]
           ss == [e \in EventsOf(t, r) |-> "kNoRtData"]
           d == add_rt_transport(t, r)
<1>1. d = [times |-> ts, states |-> ss, stops |-> StopsOf(t, r), cancelled |-> FALSE]
  BY DEF add_rt_transport
<1>2. \A e \in EventsOf(t, r) : scheduled_time(t, r, e) \in Int
  BY RunFacts
<1>3. \A x \in Int : clamp_delta(x) \in Int /\ (rt_interval(x) => clamp_delta(x) = x)
  BY RtIntervalAssumption DEF clamp_delta, Larger, Smaller, rt_interval
<1>4. ts \in [EventsOf(t, r) -> Int]
  BY <1>2, <1>3
<1>5. ss \in [EventsOf(t, r) -> States]
  BY DEF States
<1>6. StopsOf(t, r) \in [1..NStops(t, r) -> Stops]
  BY RunFacts
<1>7. \A e \in EventsOf(t, r) : ts[e] = clamp_delta(scheduled_time(t, r, e))
  OBVIOUS
<1> HIDE DEF ts, ss, d
<1>8. d \in RtData(t, r) /\ d.times = ts
  BY <1>1, <1>4, <1>5, <1>6 DEF RtData
<1>9. ASSUME \A e \in EventsOf(t, r) : rt_interval(scheduled_time(t, r, e))
      PROVE  Inside(d) /\ Ordered(d)
  <2>1. DOMAIN d.times = EventsOf(t, r)
    BY <1>8, <1>4
  <2>2. \A e \in EventsOf(t, r) : d.times[e] = scheduled_time(t, r, e)
    BY <1>2, <1>3, <1>7, <1>8, <1>9
  <2>3. Inside(d)
    BY <1>9, <2>1, <2>2 DEF Inside
  <2>4. ASSUME NEW e \in EventsOf(t, r), NEW f \in EventsOf(t, r), e < f
        PROVE  scheduled_time(t, r, e) <= scheduled_time(t, r, f)
    <3>1. e \in Int /\ f \in Int
      BY RunFacts
    <3> QED
      BY <2>4, <3>1, ScheduledInOrder
  <2>5. Ordered(d)
    BY <2>1, <2>2, <2>4 DEF Ordered
  <2> QED
    BY <2>3, <2>5
<1> QED
  BY <1>8, <1>9 DEF d

\* A run that is updated for the first time lies inside the interval.
LEMMA InsideInterval ==
  ASSUME NEW t, IsTimetable(t), NEW r \in RunsOf(t), is_in_rt_interval(t, r)
  PROVE  \A e \in EventsOf(t, r) : rt_interval(scheduled_time(t, r, e))
<1> DEFINE N == NStops(t, r)
           row == t.routes[r.route].times[r.pos]
           c == r.day * DayLength
<1>1. N \in Nat /\ N >= 2 /\ EventsOf(t, r) = 0..2 * N - 3
  BY RunFacts
<1>2. Dep(1) = 0 /\ Arr(N) = 2 * N - 3
  BY <1>1 DEF Dep, Arr
<1>3. IsRoute(t.routes[r.route]) /\ r.pos \in DOMAIN t.routes[r.route].times /\ r.day \in Int
  BY RunFacts DEF IsTimetable
<1>4. \A e, f \in EventsOf(t, r) : e <= f => row[e] <= row[f]
  BY <1>3 DEF IsRoute, EventsOf
<1>5. \A e \in EventsOf(t, r) : row[e] \in Int
  BY RunFacts
<1>6. c \in Int /\ DayLength \in Nat
  BY <1>3, DayAssumption
<1>7. \A e : scheduled_time(t, r, e) = c + row[e]
  BY DEF scheduled_time, EventTime
<1>8. /\ RtFrom + DayLength <= scheduled_time(t, r, 0)
      /\ scheduled_time(t, r, 2 * N - 3) < RtTo - DayLength
  BY <1>2 DEF is_in_rt_interval
<1> HIDE DEF N, row, c
<1>9. 0 \in EventsOf(t, r) /\ 2 * N - 3 \in EventsOf(t, r)
  BY <1>1
<1>10. ASSUME NEW e \in EventsOf(t, r) PROVE rt_interval(scheduled_time(t, r, e))
  <2>1. 0 <= e /\ e <= 2 * N - 3
    BY <1>1
  <2>2. row[0] <= row[e] /\ row[e] <= row[2 * N - 3]
    BY <1>4, <1>9, <2>1
  <2>3. RtFrom + DayLength <= c + row[0] /\ c + row[2 * N - 3] < RtTo - DayLength
    BY <1>7, <1>8
  <2>4. row[0] \in Int /\ row[e] \in Int /\ row[2 * N - 3] \in Int
    BY <1>5, <1>9
  <2>5. RtFrom <= c + row[e] /\ c + row[e] < RtTo
    BY <2>2, <2>3, <2>4, <1>6, RtIntervalAssumption
  <2> QED
    BY <2>5, <1>7 DEF rt_interval
<1> QED
  BY <1>10

-----------------------------------------------------------------------------
(***************************************************************************)
(* The steps.                                                              *)
(***************************************************************************)
OrderInv == \A k \in DOMAIN rt : Inside(rt[k]) /\ (rt[k].cancelled \/ Ordered(rt[k]))

(***************************************************************************)
(* process_vdv_alert adds an RT transport to a run without a look at the   *)
(* interval; times outside of it are clamped. Feeds with such alerts have  *)
(* runs inside the interval.                                               *)
(***************************************************************************)
AlertsInside ==
  \A f \in Feeds : (\E a \in f.alerts : a.kind = "siri") =>
    \A k \in KeysOf(f.tt) : \A e \in EventsOf(f.tt, k) : rt_interval(scheduled_time(f.tt, k, e))

LEMMA Kept ==
  /\ DOMAIN matches_kept \subseteq DOMAIN matches_
  /\ \A id \in DOMAIN matches_kept : matches_kept[id] = matches_[id]
BY DEF matches_kept

LEMMA RunsOfMessage ==
  ASSUME TypeInv, NEW m \in feed.messages
  PROVE  AreMatches(tt, runs_of(matches_kept, m))
<1>1. CASE NeedsMatch(matches_kept, m)
  <2>1. AreMatches(tt, match_run(tt, m))
    BY FeedFacts, MatchesOfMessage DEF TypeInv
  <2> QED
    BY <1>1, <2>1 DEF runs_of
<1>2. CASE ~NeedsMatch(matches_kept, m)
  <2>1. m.id \in DOMAIN matches_kept
    BY <1>2 DEF NeedsMatch
  <2>2. AreMatches(tt, matches_[m.id].runs) /\ matches_kept[m.id] = matches_[m.id]
    BY <2>1, Kept DEF TypeInv
  <2> QED
    BY <1>2, <2>2 DEF runs_of
<1> QED
  BY <1>1, <1>2

LEMMA RtOfType ==
  ASSUME TypeInv, NEW r \in RunsOf(tt)
  PROVE  RtOf(r) \in RtData(tt, r)
<1>1. IsTimetable(tt)
  BY FeedFacts DEF TypeInv, IsMatchable
<1>2. CASE KeyOf(r) \in DOMAIN rt
  BY <1>2, KeyFacts DEF TypeInv, RtOf
<1>3. CASE KeyOf(r) \notin DOMAIN rt
  BY <1>1, <1>3, AddType DEF RtOf
<1> QED
  BY <1>2, <1>3

LEMMA UpdatedFacts ==
  ASSUME NEW runs, AreMatches(tt, runs), NEW m
  PROVE  /\ DOMAIN Updated(runs, m) = DOMAIN rt \cup {KeyOf(r) : r \in runs}
         /\ \A r \in runs : Updated(runs, m)[KeyOf(r)] = update_run(tt, r, RtOf(r), m.stops)
         /\ \A k \in DOMAIN rt : k \notin {KeyOf(r) : r \in runs} => Updated(runs, m)[k] = rt[k]
<1> DEFINE keys == {KeyOf(r) : r \in runs}
           run(k) == CHOOSE r \in runs : KeyOf(r) = k
<1>1. Updated(runs, m) =
        [k \in DOMAIN rt \cup keys |->
           IF k \in keys THEN update_run(tt, run(k), RtOf(run(k)), m.stops) ELSE rt[k]]
  BY DEF Updated
<1>2. ASSUME NEW r \in runs PROVE run(KeyOf(r)) = r /\ KeyOf(r) \in keys
  <2>1. run(KeyOf(r)) \in runs /\ KeyOf(run(KeyOf(r))) = KeyOf(r)
    OBVIOUS
  <2> QED
    BY <2>1 DEF AreMatches
<1> HIDE DEF run
<1>3. ASSUME NEW r \in runs PROVE Updated(runs, m)[KeyOf(r)] = update_run(tt, r, RtOf(r), m.stops)
  <2> HIDE DEF keys
  <2> QED
    BY <1>1, <1>2
<1> QED
  BY <1>1, <1>3

\* A step that leaves the real-time data alone, or makes it of another kind.
LEMMA SameFeed ==
  ASSUME feed' = feed
  PROVE  tt' = tt
BY DEF tt

(***************************************************************************)
(* What the real-time data is after each of the actions.                   *)
(***************************************************************************)
LEMMA CancelData ==
  ASSUME TypeInv, NEW runs, cancel_runs(runs)
  PROVE  /\ \A k \in DOMAIN rt' : k \in KeysOf(tt) /\ rt'[k] \in RtData(tt, k)
         /\ OrderInv => OrderInv'
<1>1. /\ DOMAIN rt' = DOMAIN rt
      /\ \A k \in DOMAIN rt : rt'[k] = rt[k] \/ rt'[k] = [rt[k] EXCEPT !.cancelled = TRUE]
  BY DEF cancel_runs
<1>2. ASSUME NEW k \in DOMAIN rt
      PROVE  /\ [rt[k] EXCEPT !.cancelled = TRUE] \in RtData(tt, k)
             /\ [rt[k] EXCEPT !.cancelled = TRUE].times = rt[k].times
             /\ [rt[k] EXCEPT !.cancelled = TRUE].cancelled
  <2>1. rt[k] \in RtData(tt, k)
    BY DEF TypeInv
  <2> QED
    BY <2>1 DEF RtData
<1>3. ASSUME NEW k \in DOMAIN rt' PROVE k \in KeysOf(tt) /\ rt'[k] \in RtData(tt, k)
  BY <1>1, <1>2 DEF TypeInv
<1>4. ASSUME OrderInv, NEW k \in DOMAIN rt' PROVE Inside(rt'[k]) /\ (rt'[k].cancelled \/ Ordered(rt'[k]))
  <2>1. Inside(rt[k]) /\ (rt[k].cancelled \/ Ordered(rt[k]))
    BY <1>1, <1>4 DEF OrderInv
  <2>2. CASE rt'[k] = rt[k]
    BY <2>1, <2>2
  <2>3. CASE rt'[k] = [rt[k] EXCEPT !.cancelled = TRUE]
    <3>1. rt'[k].times = rt[k].times /\ rt'[k].cancelled
      BY <1>1, <1>2, <2>3
    <3> QED
      BY <2>1, <3>1 DEF Inside
  <2> QED
    BY <1>1, <2>2, <2>3
<1> QED
  BY <1>3, <1>4 DEF OrderInv

LEMMA UpdateData ==
  ASSUME TypeInv, NEW runs, AreMatches(tt, runs), NEW m \in feed.messages,
         rt' = Updated({r \in runs : IsUpdated(r)}, m)
  PROVE  /\ \A k \in DOMAIN rt' : k \in KeysOf(tt) /\ rt'[k] \in RtData(tt, k)
         /\ \A r \in runs : KeyOf(r) \in DOMAIN rt' =>
              \E b \in RtData(tt, r) : rt'[KeyOf(r)] = update_run(tt, r, b, m.stops)
         /\ OrderInv => OrderInv'
<1> DEFINE updated == {r \in runs : IsUpdated(r)}
           keys == {KeyOf(r) : r \in updated}
<1>1. IsTimetable(tt) /\ m.stops \in Seq(Told)
  BY FeedFacts DEF TypeInv, IsMatchable
<1>2. AreMatches(tt, updated)
  BY DEF AreMatches
<1>3. /\ DOMAIN rt' = DOMAIN rt \cup keys
      /\ \A r \in updated : rt'[KeyOf(r)] = update_run(tt, r, RtOf(r), m.stops)
      /\ \A k \in DOMAIN rt : k \notin keys => rt'[k] = rt[k]
  <2>1. rt' = Updated(updated, m)
    OBVIOUS
  <2> HIDE DEF updated
  <2>2. /\ DOMAIN Updated(updated, m) = DOMAIN rt \cup keys
        /\ \A r \in updated : Updated(updated, m)[KeyOf(r)] = update_run(tt, r, RtOf(r), m.stops)
        /\ \A k \in DOMAIN rt : k \notin keys => Updated(updated, m)[k] = rt[k]
    BY <1>2, UpdatedFacts, Zenon
  <2> HIDE DEF keys
  <2> QED
    BY <2>1, <2>2
<1>4. updated \subseteq RunsOf(tt)
  BY <1>2 DEF AreMatches
<1>5. ASSUME NEW r \in updated
      PROVE  /\ RtOf(r) \in RtData(tt, r) /\ KeyOf(r) \in KeysOf(tt)
             /\ rt'[KeyOf(r)] \in RtData(tt, KeyOf(r))
             /\ OrderInv => Inside(rt'[KeyOf(r)]) /\ (rt'[KeyOf(r)].cancelled \/ Ordered(rt'[KeyOf(r)]))
  <2>1. r \in RunsOf(tt) /\ RtOf(r) \in RtData(tt, r)
    BY <1>4, RtOfType
  <2>2. KeyOf(r) \in KeysOf(tt) /\ RtData(tt, KeyOf(r)) = RtData(tt, r)
    BY <1>1, <2>1, RunKey
  <2> DEFINE u == update_run(tt, r, RtOf(r), m.stops)
  <2>3. /\ u \in RtData(tt, r)
        /\ Inside(RtOf(r)) => Inside(u) /\ (u.cancelled \/ Ordered(u))
    BY <1>1, <2>1, UpdateRunType
  <2>4. rt'[KeyOf(r)] = u
    BY <1>3
  <2>5. OrderInv => Inside(RtOf(r))
    <3>1. CASE KeyOf(r) \in DOMAIN rt
      BY <3>1 DEF OrderInv, RtOf
    <3>2. CASE KeyOf(r) \notin DOMAIN rt
      <4>1. is_in_rt_interval(tt, r)
        BY <3>2 DEF IsUpdated
      <4>2. Inside(add_rt_transport(tt, r))
        BY <1>1, <2>1, <4>1, InsideInterval, AddType
      <4> QED
        BY <3>2, <4>2 DEF RtOf
    <3> QED
      BY <3>1, <3>2
  <2> HIDE DEF u, updated
  <2> QED
    BY <2>1, <2>2, <2>3, <2>4, <2>5
<1>6. ASSUME NEW k \in DOMAIN rt'
      PROVE  /\ k \in KeysOf(tt) /\ rt'[k] \in RtData(tt, k)
             /\ OrderInv => Inside(rt'[k]) /\ (rt'[k].cancelled \/ Ordered(rt'[k]))
  <2>1. CASE k \in keys
    <3>1. PICK r \in updated : k = KeyOf(r)
      BY <2>1
    <3> HIDE DEF updated
    <3> QED
      BY <3>1, <1>5
  <2>2. CASE k \notin keys
    <3>1. k \in DOMAIN rt /\ rt'[k] = rt[k]
      BY <1>3, <2>2
    <3> QED
      BY <3>1 DEF TypeInv, OrderInv
  <2> QED
    BY <2>1, <2>2
<1>7. ASSUME NEW r \in runs, KeyOf(r) \in DOMAIN rt'
      PROVE  \E b \in RtData(tt, r) : rt'[KeyOf(r)] = update_run(tt, r, b, m.stops)
  <2>1. r \in updated
    <3>1. CASE KeyOf(r) \in DOMAIN rt
      BY <3>1 DEF IsUpdated
    <3>2. CASE KeyOf(r) \in keys
      <4>1. PICK s \in updated : KeyOf(s) = KeyOf(r)
        BY <3>2
      <4>2. s = r
        BY <4>1 DEF AreMatches
      <4> QED
        BY <4>2
    <3> QED
      BY <1>3, <1>7, <3>1, <3>2
  <2>2. RtOf(r) \in RtData(tt, r)
    BY <1>5, <2>1
  <2> HIDE DEF updated
  <2> QED
    BY <1>3, <2>1, <2>2
<1> HIDE DEF keys, updated
<1> QED
  BY <1>6, <1>7 DEF OrderInv

LEMMA AlertData ==
  ASSUME TypeInv, NEW alert \in feed.alerts, ProcessVdvAlert(alert)
  PROVE  /\ \A k \in DOMAIN rt' : k \in KeysOf(tt) /\ rt'[k] \in RtData(tt, k)
         /\ AlertsInside /\ OrderInv => OrderInv'
<1> DEFINE runs == AffectedRuns(alert)
           keys == {KeyOf(r) : r \in runs}
           run(k) == CHOOSE r \in runs : KeyOf(r) = k
<1>1. IsTimetable(tt) /\ feed \in Feeds
  BY FeedFacts DEF TypeInv, IsMatchable
<1>2. runs \subseteq RunsOf(tt)
  <2> SUFFICES ASSUME NEW r \in runs PROVE r \in RunsOf(tt)
    OBVIOUS
  <2>1. PICK id \in DOMAIN matches_kept : r \in matches_kept[id].runs
    BY DEF AffectedRuns
  <2>2. AreMatches(tt, matches_kept[id].runs)
    BY <2>1, Kept DEF TypeInv
  <2> QED
    BY <2>1, <2>2 DEF AreMatches
<1>3. rt' = [k \in DOMAIN rt \cup keys |-> IF k \in DOMAIN rt THEN rt[k] ELSE add_rt_transport(tt, run(k))]
  BY DEF ProcessVdvAlert
<1>4. alert.kind = "siri"
  BY DEF ProcessVdvAlert
<1> HIDE DEF runs
<1>5. ASSUME NEW k \in keys
      PROVE  /\ k \in KeysOf(tt) /\ add_rt_transport(tt, run(k)) \in RtData(tt, k)
             /\ AlertsInside => Inside(add_rt_transport(tt, run(k))) /\ Ordered(add_rt_transport(tt, run(k)))
  <2>1. run(k) \in runs /\ KeyOf(run(k)) = k
    <3>1. PICK s \in runs : k = KeyOf(s)
      OBVIOUS
    <3> QED
      BY <3>1
  <2> DEFINE r == run(k)
  <2>2. r \in RunsOf(tt) /\ KeyOf(r) = k
    BY <1>2, <2>1
  <2> HIDE DEF run, r
  <2>3. k \in KeysOf(tt) /\ RtData(tt, k) = RtData(tt, r)
    BY <1>1, <2>2, RunKey
  <2>4. add_rt_transport(tt, r) \in RtData(tt, r)
    BY <1>1, <2>2, AddType
  <2>5. ASSUME AlertsInside
        PROVE  Inside(add_rt_transport(tt, r)) /\ Ordered(add_rt_transport(tt, r))
    <3>1. \A e \in EventsOf(tt, k) : rt_interval(scheduled_time(tt, k, e))
      BY <1>1, <1>4, <2>3, <2>5 DEF AlertsInside, tt
    <3>2. \A e \in EventsOf(tt, r) : rt_interval(scheduled_time(tt, r, e))
      BY <2>2, <3>1, KeyFacts
    <3> QED
      BY <1>1, <2>2, <3>2, AddType
  <2> QED
    BY <2>3, <2>4, <2>5 DEF r
<1> HIDE DEF keys, run
<1>6. /\ DOMAIN rt' = DOMAIN rt \cup keys
      /\ \A k \in DOMAIN rt : rt'[k] = rt[k]
      /\ \A k \in keys : k \notin DOMAIN rt => rt'[k] = add_rt_transport(tt, run(k))
  BY <1>3
<1>7. ASSUME NEW k \in DOMAIN rt' PROVE k \in KeysOf(tt) /\ rt'[k] \in RtData(tt, k)
  BY <1>5, <1>6 DEF TypeInv
<1>8. ASSUME AlertsInside, OrderInv, NEW k \in DOMAIN rt'
      PROVE  Inside(rt'[k]) /\ (rt'[k].cancelled \/ Ordered(rt'[k]))
  <2>1. CASE k \in DOMAIN rt
    BY <1>6, <1>8, <2>1 DEF OrderInv
  <2>2. CASE k \notin DOMAIN rt
    <3>1. k \in keys /\ rt'[k] = add_rt_transport(tt, run(k))
      BY <1>6, <2>2
    <3> QED
      BY <1>5, <1>8, <3>1
  <2> QED
    BY <2>1, <2>2
<1> QED
  BY <1>7, <1>8 DEF OrderInv

(***************************************************************************)
(* The invariant holds at first, and each action preserves it.             *)
(***************************************************************************)
LEMMA MatchesStay ==
  ASSUME TypeInv, feed' = feed, matches_' = matches_kept
  PROVE  \A id \in DOMAIN matches_' : AreMatches(tt', matches_'[id].runs)
BY Kept, SameFeed DEF TypeInv

LEMMA IgnoreInv ==
  ASSUME Inv, NEW m, IgnoreMessage(m), feed' = feed
  PROVE  Inv' /\ (OrderInv => OrderInv')
<1>1. rt' = rt /\ last' = last /\ matches_' = matches_kept /\ tt' = tt
  BY SameFeed DEF IgnoreMessage
<1>2. TypeInv'
  BY <1>1, MatchesStay DEF Inv, TypeInv
<1>3. LastInv'
  BY <1>1 DEF Inv, LastInv
<1>4. OrderInv => OrderInv'
  BY <1>1 DEF OrderInv
<1> QED
  BY <1>2, <1>3, <1>4 DEF Inv

LEMMA ProcessInv ==
  ASSUME Inv, NEW m \in feed.messages, ProcessRun(m), feed' = feed
  PROVE  Inv' /\ (OrderInv => OrderInv')
<1> DEFINE runs == runs_of(matches_kept, m)
<1>1. TypeInv /\ tt' = tt
  BY SameFeed DEF Inv
<1>2. AreMatches(tt, runs)
  BY <1>1, RunsOfMessage
<1>3. m.stops \in Seq(Told)
  BY <1>1, FeedFacts DEF TypeInv
<1> HIDE DEF runs
<1>4. /\ matches_' =
           [id \in DOMAIN matches_kept \cup {m.id} |->
              IF id = m.id
              THEN [runs |-> runs, last_accessed |-> now,
                    only_saw_incomplete |->
                      ~m.complete /\ (id \notin DOMAIN matches_kept \/ matches_kept[id].only_saw_incomplete)]
              ELSE matches_kept[id]]
      /\ IF m.cancelled THEN cancel_runs(runs) ELSE rt' = Updated({r \in runs : IsUpdated(r)}, m)
      /\ last' = [id |-> m.id, m |-> m, runs |-> runs]
  BY DEF ProcessRun, runs
<1>5. ASSUME NEW id \in DOMAIN matches_' PROVE AreMatches(tt, matches_'[id].runs)
  <2>1. CASE id = m.id
    BY <1>2, <1>4, <2>1
  <2>2. CASE id # m.id
    <3>1. id \in DOMAIN matches_kept /\ matches_'[id] = matches_kept[id]
      BY <1>4, <2>2
    <3> QED
      BY <1>1, <3>1, Kept DEF TypeInv
  <2> QED
    BY <2>1, <2>2
<1>6. /\ \A k \in DOMAIN rt' : k \in KeysOf(tt) /\ rt'[k] \in RtData(tt, k)
      /\ OrderInv => OrderInv'
  <2>1. CASE m.cancelled
    BY <1>1, <1>4, <2>1, CancelData
  <2>2. CASE ~m.cancelled
    BY <1>1, <1>2, <1>4, <2>2, UpdateData
  <2> QED
    BY <2>1, <2>2
<1>7. ~m.cancelled => \A r \in runs : KeyOf(r) \in DOMAIN rt' =>
        \E b \in RtData(tt, r) : rt'[KeyOf(r)] = update_run(tt, r, b, m.stops)
  BY <1>1, <1>2, <1>4, UpdateData
<1>8. TypeInv'
  BY <1>1, <1>5, <1>6 DEF TypeInv
<1>9. LastInv'
  <2>1. last'.m = m /\ last'.runs = runs
    BY <1>4
  <2> QED
    BY <1>1, <1>2, <1>3, <1>7, <2>1 DEF LastInv
<1> QED
  BY <1>6, <1>8, <1>9 DEF Inv

LEMMA AlertInv ==
  ASSUME Inv, NEW alert \in feed.alerts, ProcessVdvAlert(alert)
  PROVE  Inv' /\ (AlertsInside /\ OrderInv => OrderInv')
<1>1. TypeInv /\ feed' = feed /\ matches_' = matches_kept /\ last' = NoMessage
  BY DEF Inv, ProcessVdvAlert
<1>2. tt' = tt
  BY <1>1, SameFeed
<1>3. TypeInv'
  <2>1. \A k \in DOMAIN rt' : k \in KeysOf(tt) /\ rt'[k] \in RtData(tt, k)
    BY <1>1, AlertData
  <2>2. \A id \in DOMAIN matches_' : AreMatches(tt', matches_'[id].runs)
    BY <1>1, MatchesStay
  <2> QED
    BY <1>1, <1>2, <2>1, <2>2 DEF TypeInv
<1>4. LastInv'
  BY <1>1 DEF LastInv, NoMessage
<1> QED
  BY <1>1, <1>3, <1>4, AlertData DEF Inv

LEMMA IdleInv ==
  ASSUME Inv, UNCHANGED <<feed, matches_, rt, last>>
  PROVE  Inv' /\ (OrderInv => OrderInv')
BY SameFeed DEF Inv, TypeInv, LastInv, OrderInv

LEMMA InitInv ==
  ASSUME Init
  PROVE  Inv /\ OrderInv
<1>1. TypeInv /\ OrderInv
  BY DEF Init, TypeInv, OrderInv
<1>2. LastInv
  BY DEF Init, LastInv, NoMessage
<1> QED
  BY <1>1, <1>2 DEF Inv

LEMMA StepInv ==
  ASSUME Inv, [Next]_vars
  PROVE  Inv' /\ (AlertsInside /\ OrderInv => OrderInv')
<1>1. CASE Update
  <2>1. feed' = feed
    BY <1>1 DEF Update
  <2>2. PICK m \in feed.messages : IgnoreMessage(m) \/ ProcessRun(m)
    BY <1>1 DEF Update
  <2> QED
    BY <2>1, <2>2, IgnoreInv, ProcessInv
<1>2. ASSUME NEW alert \in feed.alerts, ProcessVdvAlert(alert)
      PROVE  Inv' /\ (AlertsInside /\ OrderInv => OrderInv')
  BY <1>2, AlertInv
<1>3. ASSUME NEW alert \in feed.alerts, HandleAlert(alert)
      PROVE  Inv' /\ (AlertsInside /\ OrderInv => OrderInv')
  BY <1>3, IdleInv DEF HandleAlert
<1>4. CASE Tick
  BY <1>4, IdleInv DEF Tick
<1>5. CASE UNCHANGED vars
  BY <1>5, IdleInv DEF vars
<1> QED
  BY <1>1, <1>2, <1>3, <1>4, <1>5 DEF Next

(***************************************************************************)
(* Types: what is stored for an id are runs of the timetable, one for each *)
(* transport and day at most; RT transports have a time and a state for    *)
(* each event and a stop for each stop of a run of the timetable.          *)
(***************************************************************************)
THEOREM TypesHold == Spec => []TypeInv
<1>1. Init => Inv
  BY InitInv
<1>2. Inv /\ [Next]_vars => Inv'
  BY StepInv
<1>3. Inv => TypeInv
  BY DEF Inv
<1> QED
  BY <1>1, <1>2, <1>3, PTL DEF Spec

(***************************************************************************)
(* The same message once more changes nothing, for every timetable, every  *)
(* set of messages and whatever was known of the runs before (update_run). *)
(***************************************************************************)
THEOREM ResentMessagesChangeNothing == Spec => []ResendChangesNothing
<1>1. Init => Inv
  BY InitInv
<1>2. Inv /\ [Next]_vars => Inv'
  BY StepInv
<1>3. ASSUME Inv PROVE ResendChangesNothing
  <2> SUFFICES ASSUME last.id # NoId, ~last.m.cancelled,
                      NEW r \in last.runs, KeyOf(r) \in DOMAIN rt
               PROVE  update_run(tt, r, rt[KeyOf(r)], last.m.stops) = rt[KeyOf(r)]
    BY DEF ResendChangesNothing
  <2>1. IsTimetable(tt)
    BY <1>3, FeedFacts DEF Inv, TypeInv, IsMatchable
  <2>2. last.m.stops \in Seq(Told) /\ AreMatches(tt, last.runs)
    BY <1>3 DEF Inv, LastInv
  <2>3. r \in RunsOf(tt)
    BY <2>2 DEF AreMatches
  <2>4. PICK b \in RtData(tt, r) : rt[KeyOf(r)] = update_run(tt, r, b, last.m.stops)
    BY <1>3 DEF Inv, LastInv
  <2> QED
    BY <2>1, <2>2, <2>3, <2>4, UpdateTwice
<1> QED
  BY <1>1, <1>2, <1>3, PTL DEF Spec

(***************************************************************************)
(* A message with a time for each event of a run decides alone: what came  *)
(* before, in whatever order, leaves no trace in the run (update_run).     *)
(***************************************************************************)
THEOREM CompleteMessagesDecide == Spec => []CompleteMessageDecides
<1>1. Init => Inv
  BY InitInv
<1>2. Inv /\ [Next]_vars => Inv'
  BY StepInv
<1>3. ASSUME Inv PROVE CompleteMessageDecides
  <2> SUFFICES ASSUME last.id # NoId, ~last.m.cancelled,
                      NEW r \in last.runs, KeyOf(r) \in DOMAIN rt, TellsAll(r, last.m)
               PROVE  rt[KeyOf(r)] = update_run(tt, r, add_rt_transport(tt, r), last.m.stops)
    BY DEF CompleteMessageDecides
  <2>1. IsTimetable(tt)
    BY <1>3, FeedFacts DEF Inv, TypeInv, IsMatchable
  <2>2. last.m.stops \in Seq(Told) /\ AreMatches(tt, last.runs)
    BY <1>3 DEF Inv, LastInv
  <2>3. r \in RunsOf(tt)
    BY <2>2 DEF AreMatches
  <2>4. PICK b \in RtData(tt, r) : rt[KeyOf(r)] = update_run(tt, r, b, last.m.stops)
    BY <1>3 DEF Inv, LastInv
  <2>5. Tells(tt, r, last.m.stops)
    BY DEF TellsAll, Tells
  <2>6. add_rt_transport(tt, r) \in RtData(tt, r)
    BY <2>1, <2>3, AddType
  <2> QED
    BY <2>1, <2>2, <2>3, <2>4, <2>5, <2>6, TellsDecides
<1> QED
  BY <1>1, <1>2, <1>3, PTL DEF Spec

(***************************************************************************)
(* Whatever messages on a run have come, the events of a run that is not   *)
(* cancelled are in order (monotonize), for every timetable and every set  *)
(* of messages, if the runs that alerts add lie inside the interval that   *)
(* real-time data can represent.                                           *)
(***************************************************************************)
THEOREM EventsStayInOrder ==
  ASSUME AlertsInside
  PROVE  Spec => []InOrder
<1> DEFINE All == Inv /\ OrderInv
<1>1. Init => All
  BY InitInv
<1>2. All /\ [Next]_vars => All'
  BY StepInv
<1>3. All => InOrder
  BY DEF OrderInv, Ordered, InOrder
<1> QED
  BY <1>1, <1>2, <1>3, PTL DEF Spec

-----------------------------------------------------------------------------
(***************************************************************************)
(* Matching: times of the day and the day of a run (mam_dist).             *)
(***************************************************************************)
LEMMA DayAndMam ==
  ASSUME NEW t \in Int
  PROVE  days(t) \in Int /\ mam(t) \in 0..DayLength - 1 /\ t = days(t) * DayLength + mam(t)
BY DayAssumption DEF days, mam

LEMMA LaterDay ==
  ASSUME NEW a \in Int, NEW b \in Int, a < b
  PROVE  a * DayLength + DayLength <= b * DayLength
<1>1. (b - a) - 1 \in Nat /\ DayLength \in Nat
  BY DayAssumption
<1>2. ((b - a) - 1) * DayLength >= 0
  BY <1>1
<1>3. ((b - a) - 1) * DayLength = b * DayLength - a * DayLength - DayLength
  BY <1>1
<1>4. a * DayLength \in Int /\ b * DayLength \in Int
  BY <1>1
<1> QED
  BY <1>1, <1>2, <1>3, <1>4

LEMMA SplitTime ==
  ASSUME NEW d \in Int, NEW m \in 0..DayLength - 1
  PROVE  days(d * DayLength + m) = d /\ mam(d * DayLength + m) = m
<1> DEFINE t == d * DayLength + m
           c == days(t)
           k == mam(t)
<1>1. t \in Int /\ d * DayLength \in Int /\ DayLength \in Nat \ {0}
  BY DayAssumption
<1>2. c \in Int /\ k \in 0..DayLength - 1 /\ t = c * DayLength + k /\ c * DayLength \in Int
  <2> HIDE DEF t
  <2> QED
    BY <1>1, DayAndMam
<1>3. t = d * DayLength + m
  OBVIOUS
<1> HIDE DEF t, c, k
<1>4. ~(c < d)
  <2>1. SUFFICES ASSUME c < d PROVE FALSE
    OBVIOUS
  <2>2. c * DayLength + DayLength <= d * DayLength
    BY <1>1, <1>2, <2>1, LaterDay
  <2> QED
    BY <1>1, <1>2, <1>3, <2>2
<1>5. ~(d < c)
  <2>1. SUFFICES ASSUME d < c PROVE FALSE
    OBVIOUS
  <2>2. d * DayLength + DayLength <= c * DayLength
    BY <1>1, <1>2, <2>1, LaterDay
  <2> QED
    BY <1>1, <1>2, <1>3, <2>2
<1>6. c = d
  BY <1>2, <1>4, <1>5
<1>7. k = m
  BY <1>1, <1>2, <1>3, <1>6
<1> QED
  BY <1>6, <1>7 DEF t, c, k

\* The day on which the event at a is next to the time T, and how far it is.
DistOf(T, a) == mam_dist(mam(T), mam(a))
DayOf(T, a) == days(T) - (days(a) - DistOf(T, a).day_shift)

LEMMA DistanceOfTimes ==
  ASSUME NEW T \in Int, NEW a \in Int
  PROVE  /\ DistOf(T, a).error \in Nat /\ DayOf(T, a) \in Int
         /\ Distance(T, DayOf(T, a) * DayLength + a) = DistOf(T, a).error
<1> DEFINE x == mam(T)
           y == mam(a)
           dist == DistOf(T, a)
           c == days(T) - days(a)
<1>1. /\ days(T) \in Int /\ x \in 0..DayLength - 1 /\ T = days(T) * DayLength + x
      /\ days(a) \in Int /\ y \in 0..DayLength - 1 /\ a = days(a) * DayLength + y
  BY DayAndMam
<1>2. DayLength \in Nat \ {0}
  BY DayAssumption
<1>3. dist = mam_dist(x, y)
  BY DEF DistOf
<1>4. /\ dist.error = IF 2 * Distance(x, y) > DayLength THEN DayLength - Distance(x, y) ELSE Distance(x, y)
      /\ dist.day_shift = IF 2 * Distance(x, y) > DayLength THEN (IF x < y THEN -1 ELSE 1) ELSE 0
  BY <1>3 DEF mam_dist
<1>5. DayOf(T, a) = c + dist.day_shift
  <2>1. dist.day_shift \in Int
    BY <1>4
  <2>2. DayOf(T, a) = days(T) - (days(a) - dist.day_shift)
    BY DEF DayOf
  <2> HIDE DEF dist
  <2> QED
    BY <1>1, <2>1, <2>2
<1>6. c * DayLength = days(T) * DayLength - days(a) * DayLength /\ c \in Int /\ c * DayLength \in Int
  BY <1>1, <1>2
<1>7. days(T) * DayLength \in Int /\ days(a) * DayLength \in Int
  BY <1>1, <1>2
<1>8. a \in Int /\ T \in Int
  OBVIOUS
<1> DEFINE D == DayOf(T, a) * DayLength
<1> HIDE DEF x, y, dist, c, D
<1>9. SUFFICES /\ dist.error \in Nat /\ DayOf(T, a) \in Int
               /\ Distance(T, D + a) = dist.error
  BY DEF dist, D
<1>10. CASE 2 * Distance(x, y) > DayLength /\ x < y
  <2>1. dist.error = DayLength - (y - x) /\ dist.day_shift = -1
    BY <1>1, <1>4, <1>10 DEF Distance
  <2>2. DayOf(T, a) = c - 1 /\ D = c * DayLength - DayLength
    BY <1>2, <1>5, <1>6, <2>1 DEF D
  <2>3. T - (D + a) = DayLength - (y - x)
    BY <1>1, <1>2, <1>6, <1>7, <2>2
  <2> QED
    BY <1>1, <1>2, <1>6, <1>8, <2>1, <2>2, <2>3 DEF Distance
<1>11. CASE 2 * Distance(x, y) > DayLength /\ ~(x < y)
  <2>1. dist.error = DayLength - (x - y) /\ dist.day_shift = 1
    BY <1>1, <1>4, <1>11 DEF Distance
  <2>2. DayOf(T, a) = c + 1 /\ D = c * DayLength + DayLength
    BY <1>2, <1>5, <1>6, <2>1 DEF D
  <2>3. (D + a) - T = DayLength - (x - y)
    BY <1>1, <1>2, <1>6, <1>7, <2>2
  <2> QED
    BY <1>1, <1>2, <1>6, <1>8, <2>1, <2>2, <2>3 DEF Distance
<1>12. CASE ~(2 * Distance(x, y) > DayLength)
  <2>1. dist.error = Distance(x, y) /\ dist.day_shift = 0
    BY <1>4, <1>12
  <2>2. DayOf(T, a) = c /\ D = c * DayLength
    BY <1>5, <1>6, <2>1 DEF D
  <2>3. T - (D + a) = x - y
    BY <1>1, <1>6, <1>7, <2>2
  <2> QED
    BY <1>1, <1>2, <1>6, <1>8, <2>1, <2>2, <2>3 DEF Distance
<1> QED
  BY <1>10, <1>11, <1>12

LEMMA ExactTime ==
  ASSUME NEW T \in Int, NEW a \in Int, NEW day \in Int, T = day * DayLength + a
  PROVE  DistOf(T, a).error = 0 /\ DayOf(T, a) = day
<1>1. days(a) \in Int /\ mam(a) \in 0..DayLength - 1 /\ a = days(a) * DayLength + mam(a)
  BY DayAndMam
<1>2. T = (day + days(a)) * DayLength + mam(a)
  <2> DEFINE c == days(a)
             y == mam(a)
  <2>1. c \in Int /\ y \in Int /\ a = c * DayLength + y
    BY <1>1, DayAssumption
  <2>2. (day + c) * DayLength = day * DayLength + c * DayLength
    BY <2>1, DayAssumption
  <2>3. day * DayLength \in Int /\ c * DayLength \in Int
    BY <2>1, DayAssumption
  <2> HIDE DEF c, y
  <2>4. T = (day + c) * DayLength + y
    BY <2>1, <2>2, <2>3
  <2> QED
    BY <2>4 DEF c, y
<1>3. days(T) = day + days(a) /\ mam(T) = mam(a)
  BY <1>1, <1>2, SplitTime
<1>4. DistOf(T, a) = [error |-> 0, day_shift |-> 0]
  BY <1>1, <1>3, DayAssumption DEF DistOf, mam_dist, Distance
<1> QED
  BY <1>1, <1>3, <1>4 DEF DayOf

(***************************************************************************)
(* Hits: a run that is found for a stop of the message is at a stop of its *)
(* own at about the time, and one that is there exactly has full score.    *)
(***************************************************************************)
WholeOf(t, k) == [route |-> k.route, pos |-> k.pos, day |-> k.day, from |-> 1, to |-> NStops(t, k)]

LEMMA KeyRow ==
  ASSUME NEW t, IsTimetable(t), NEW k \in KeysOf(t)
  PROVE  /\ NStops(t, k) \in Nat /\ NStops(t, k) >= 2
         /\ DOMAIN StopsOf(t, k) = 1..NStops(t, k)
         /\ EventsOf(t, k) = 0..2 * NStops(t, k) - 3
         /\ \A e \in EventsOf(t, k) : t.routes[k.route].times[k.pos][e] \in Int
<1> DEFINE r == WholeOf(t, k)
<1>1. /\ k \in [route : DOMAIN t.routes, pos : Nat, day : Int]
      /\ k.pos \in DOMAIN t.routes[k.route].times /\ is_transport_active(t, k)
  BY DEF KeysOf
<1>2. NStops(t, k) \in Nat /\ NStops(t, k) >= 2
  <2>1. t.routes[k.route].stops \in Seq(Stops) /\ Len(t.routes[k.route].stops) >= 2
    BY <1>1 DEF IsTimetable, IsRoute, Stops
  <2> QED
    BY <2>1 DEF NStops, StopsOf
<1>3. r \in [route : DOMAIN t.routes, pos : Nat, day : Int, from : Nat \ {0}, to : Nat]
      /\ r.route = k.route /\ r.pos = k.pos /\ r.from = 1 /\ r.to = NStops(t, k) /\ KeyOf(r) = k
  BY <1>1, <1>2 DEF KeyOf, WholeOf
<1> HIDE DEF r
<1>4. NStops(t, r) = NStops(t, k) /\ EventsOf(t, r) = EventsOf(t, k) /\ StopsOf(t, r) = StopsOf(t, k)
  BY <1>3 DEF NStops, StopsOf, EventsOf
<1>5. r \in RunsOf(t)
  BY <1>1, <1>2, <1>3, <1>4 DEF RunsOf
<1>6. /\ StopsOf(t, r) \in [1..NStops(t, r) -> Stops]
      /\ EventsOf(t, r) = 0..2 * NStops(t, r) - 3
      /\ \A e \in EventsOf(t, r) : t.routes[r.route].times[r.pos][e] \in Int
  BY <1>5, RunFacts
<1> QED
  BY <1>2, <1>3, <1>4, <1>6

LEMMA PlannedEventFacts ==
  ASSUME NEW n \in Nat, NEW i \in 1..n, NEW v \in Told, PlannedEvent(v, n, i).time # NoTime
  PROVE  PlannedEvent(v, n, i).time \in Int /\ PlannedEvent(v, n, i).e \in 0..2 * n - 3
<1>1. v.arr \in Int /\ v.dep \in Int
  BY DEF Told
<1>2. i \in Int /\ 1 <= i /\ i <= n /\ n \in Int
  OBVIOUS
<1>3. CASE v.dep # NoTime /\ i # n
  <2>1. PlannedEvent(v, n, i) = [time |-> v.dep, e |-> 2 * (i - 1)]
    BY <1>3 DEF PlannedEvent, Dep
  <2> QED
    BY <1>1, <1>2, <1>3, <2>1
<1>4. CASE ~(v.dep # NoTime /\ i # n) /\ v.arr # NoTime /\ i # 1
  <2>1. PlannedEvent(v, n, i) = [time |-> v.arr, e |-> 2 * (i - 1) - 1]
    BY <1>4 DEF PlannedEvent, Arr
  <2> QED
    BY <1>1, <1>2, <1>4, <2>1
<1>5. CASE ~(v.dep # NoTime /\ i # n) /\ ~(v.arr # NoTime /\ i # 1)
  <2>1. PlannedEvent(v, n, i).time = NoTime
    BY <1>5 DEF PlannedEvent
  <2> QED
    BY <2>1
<1> QED
  BY <1>3, <1>4, <1>5

\* The planned event at a call, and the hit of a transport if it is near enough.
PlannedAt(t, v, c) == PlannedEvent(v, Len(t.routes[c.r].stops), c.i)

HitOf(t, v, x, c, pos) ==
  LET at == t.routes[c.r].times[pos][PlannedAt(t, v, c).e]
  IN  [key |-> [route |-> c.r, pos |-> pos, day |-> DayOf(PlannedAt(t, v, c).time, at)],
       x |-> x, i |-> c.i, score |-> local_score(DistOf(PlannedAt(t, v, c).time, at).error)]

IsNear(t, v, c, pos) ==
  DistOf(PlannedAt(t, v, c).time, t.routes[c.r].times[pos][PlannedAt(t, v, c).e]).error
    <= kAllowedTimeDiscrepancy

LEMMA HitsAtIs ==
  ASSUME NEW t, NEW v, NEW x, NEW c, NEW h
  PROVE  h \in HitsAt(t, v, x, c) <=>
           /\ PlannedAt(t, v, c).time # NoTime /\ internal_interval(PlannedAt(t, v, c).time)
           /\ \E pos \in DOMAIN t.routes[c.r].times : IsNear(t, v, c, pos) /\ h = HitOf(t, v, x, c, pos)
BY DEF HitsAt, HitOf, IsNear, PlannedAt, DistOf, DayOf

LEMMA Scores ==
  ASSUME NEW e \in Nat, e <= kAllowedTimeDiscrepancy
  PROVE  local_score(e) \in 0..230 /\ (e = 0 => local_score(e) = 230)
<1>1. e <= 15
  BY DEF kAllowedTimeDiscrepancy
<1>2. e * e <= 15 * e /\ 0 <= e * e /\ e * e \in Int
  <2>1. e * (15 - e) >= 0
    BY <1>1
  <2> QED
    BY <2>1
<1> QED
  BY <1>1, <1>2 DEF local_score, kExactMatchScore

\* IsAt is about the transport and the day only.
LEMMA SameAt ==
  ASSUME NEW r, NEW v, NEW i, NEW error
  PROVE  IsAt(r, v, i, error) <=> IsAt(KeyOf(r), v, i, error)
BY DEF IsAt, KeyOf, NStops, StopsOf, scheduled_time

LEMMA HitIsAt ==
  ASSUME IsMatchable(tt), NEW v \in ToldOf(tt), NEW h \in Hits(tt, v)
  PROVE  h.score \in 0..230 /\ IsAt(h.key, v, h.i, kAllowedTimeDiscrepancy)
<1>1. v.l # NoLocation /\ v.l \in DOMAIN tt.eq_order /\ v \in Told
  BY DEF Hits, ToldOf
<1>2. PICK x \in DOMAIN tt.eq_order[v.l] : \E c \in Calls(tt, tt.eq_order[v.l][x]) : h \in HitsAt(tt, v, x, c)
  BY DEF Hits, ToldOf
<1>3. PICK c \in Calls(tt, tt.eq_order[v.l][x]) : h \in HitsAt(tt, v, x, c)
  BY <1>2
<1>4. c.r \in DOMAIN tt.routes /\ tt.routes[c.r].stops[c.i].loc = tt.eq_order[v.l][x]
  BY <1>3 DEF Calls
<1> DEFINE n == Len(tt.routes[c.r].stops)
           ev == PlannedAt(tt, v, c)
<1>5. ev.time # NoTime /\ internal_interval(ev.time)
  BY <1>3, HitsAtIs
<1>6. PICK pos \in DOMAIN tt.routes[c.r].times : IsNear(tt, v, c, pos) /\ h = HitOf(tt, v, x, c, pos)
  BY <1>3, HitsAtIs
<1> DEFINE a == tt.routes[c.r].times[pos][ev.e]
<1>7. /\ h.key = [route |-> c.r, pos |-> pos, day |-> DayOf(ev.time, a)] /\ h.i = c.i
      /\ h.score = local_score(DistOf(ev.time, a).error)
  BY <1>6 DEF HitOf
<1>8. h.key \in KeysOf(tt) /\ h.i \in 1..NStops(tt, h.key)
  BY HitFacts
<1>9. NStops(tt, h.key) = n /\ h.key.route = c.r /\ h.key.pos = pos /\ h.key.day = DayOf(ev.time, a)
  BY <1>7 DEF NStops, StopsOf
<1>10. n \in Nat /\ EventsOf(tt, h.key) = 0..2 * n - 3
       /\ \A e \in EventsOf(tt, h.key) : tt.routes[h.key.route].times[h.key.pos][e] \in Int
  BY <1>8, <1>9, KeyRow DEF IsMatchable
<1> HIDE DEF n
<1>11. ev.time \in Int /\ ev.e \in 0..2 * n - 3
  <2>1. ev = PlannedEvent(v, n, c.i) /\ c.i \in 1..n
    BY <1>7, <1>8, <1>9 DEF PlannedAt, n
  <2> QED
    BY <1>1, <1>5, <1>10, <2>1, PlannedEventFacts
<1> HIDE DEF ev
<1>12. a \in Int
  BY <1>9, <1>10, <1>11
<1>13. scheduled_time(tt, h.key, ev.e) = DayOf(ev.time, a) * DayLength + a
  BY <1>9 DEF scheduled_time, EventTime
<1> HIDE DEF a
<1>14. DistOf(ev.time, a).error \in Nat
       /\ Distance(ev.time, scheduled_time(tt, h.key, ev.e)) = DistOf(ev.time, a).error
  BY <1>11, <1>12, <1>13, DistanceOfTimes
<1>15. DistOf(ev.time, a).error <= kAllowedTimeDiscrepancy
  BY <1>6 DEF a, ev, IsNear
<1>16. StopsOf(tt, h.key)[h.i].loc \in tt.equivalences[v.l]
  <2>1. StopsOf(tt, h.key)[h.i].loc = tt.eq_order[v.l][x]
    BY <1>4, <1>7, <1>9 DEF StopsOf
  <2> QED
    BY <1>1, <2>1 DEF IsMatchable
<1>17. ev = PlannedEvent(v, NStops(tt, h.key), h.i)
  BY <1>7, <1>9 DEF ev, n, PlannedAt
<1>18. IsAt(h.key, v, h.i, kAllowedTimeDiscrepancy)
  BY <1>1, <1>5, <1>14, <1>15, <1>16, <1>17 DEF IsAt, ev
<1> QED
  BY <1>7, <1>14, <1>15, <1>18, Scores

LEMMA AtIsHit ==
  ASSUME IsMatchable(tt), NEW v \in ToldOf(tt), NEW k \in KeysOf(tt), NEW i \in 1..NStops(tt, k),
         IsAt(k, v, i, 0)
  PROVE  \E h \in Hits(tt, v) : h.key = k /\ h.i = i /\ h.score = 230
<1> DEFINE n == NStops(tt, k)
           ev == PlannedEvent(v, n, i)
           row == tt.routes[k.route].times[k.pos]
           c == [r |-> k.route, i |-> i]
<1>1. /\ v.l # NoLocation /\ StopsOf(tt, k)[i].loc \in tt.equivalences[v.l]
      /\ ev.time # NoTime /\ internal_interval(ev.time)
      /\ Distance(ev.time, scheduled_time(tt, k, ev.e)) <= 0
  BY DEF IsAt
<1>2. v \in Told /\ v.l \in DOMAIN tt.eq_order
  BY <1>1 DEF ToldOf
<1>3. PICK x \in DOMAIN tt.eq_order[v.l] : tt.eq_order[v.l][x] = StopsOf(tt, k)[i].loc
  <2>1. StopsOf(tt, k)[i].loc \in {tt.eq_order[v.l][x] : x \in DOMAIN tt.eq_order[v.l]}
    BY <1>1, <1>2 DEF IsMatchable
  <2> QED
    BY <2>1
<1>4. /\ k \in [route : DOMAIN tt.routes, pos : Nat, day : Int]
      /\ k.pos \in DOMAIN tt.routes[k.route].times /\ is_transport_active(tt, k)
  BY DEF KeysOf
<1>5. /\ n \in Nat /\ DOMAIN StopsOf(tt, k) = 1..n /\ EventsOf(tt, k) = 0..2 * n - 3
      /\ \A e \in EventsOf(tt, k) : row[e] \in Int
  BY KeyRow DEF IsMatchable
<1>6. n = Len(tt.routes[k.route].stops) /\ c.r = k.route /\ c.i = i
  BY DEF NStops, StopsOf
<1>7. c \in Calls(tt, tt.eq_order[v.l][x])
  BY <1>3, <1>4, <1>5 DEF Calls, StopsOf
<1> HIDE DEF n, c
<1>8. ev.time \in Int /\ ev.e \in 0..2 * n - 3
  BY <1>1, <1>2, <1>5, PlannedEventFacts DEF n
<1>9. ev = PlannedAt(tt, v, c)
  BY <1>6 DEF PlannedAt
<1> HIDE DEF ev
<1> DEFINE a == row[ev.e]
<1>10. a \in Int /\ k.day \in Int /\ k.day * DayLength \in Int
  BY <1>4, <1>5, <1>8, DayAssumption
<1>11. scheduled_time(tt, k, ev.e) = k.day * DayLength + a
  BY DEF scheduled_time, EventTime
<1> HIDE DEF row
<1>12. ev.time = k.day * DayLength + a
  BY <1>1, <1>8, <1>10, <1>11 DEF Distance
<1>13. a = tt.routes[c.r].times[k.pos][ev.e]
  BY <1>6 DEF row
<1> HIDE DEF a
<1>14. DistOf(ev.time, a).error = 0 /\ DayOf(ev.time, a) = k.day
  BY <1>8, <1>10, <1>12, ExactTime
<1> DEFINE h == HitOf(tt, v, x, c, k.pos)
<1>15. h = [key |-> [route |-> c.r, pos |-> k.pos, day |-> k.day], x |-> x, i |-> i, score |-> local_score(0)]
  BY <1>6, <1>9, <1>13, <1>14 DEF HitOf
<1>16. h \in HitsAt(tt, v, x, c)
  <2>1. k.pos \in DOMAIN tt.routes[c.r].times
    BY <1>4, <1>6
  <2>2. 0 <= kAllowedTimeDiscrepancy
    BY DEF kAllowedTimeDiscrepancy
  <2>3. IsNear(tt, v, c, k.pos)
    BY <1>9, <1>13, <1>14, <2>2 DEF IsNear
  <2>4. PlannedAt(tt, v, c).time # NoTime /\ internal_interval(PlannedAt(tt, v, c).time)
    BY <1>1, <1>9 DEF ev
  <2> QED
    BY <2>1, <2>3, <2>4, HitsAtIs
<1>17. [route |-> c.r, pos |-> k.pos, day |-> k.day] = k
  BY <1>4, <1>6
<1>18. h.key = k /\ h.i = i /\ h.score = 230
  BY <1>15, <1>17, Scores DEF kAllowedTimeDiscrepancy
<1> HIDE DEF h
<1>19. h \in Hits(tt, v)
  BY <1>1, <1>3, <1>4, <1>7, <1>16, <1>18 DEF Hits
<1> QED
  BY <1>18, <1>19

LEMMA BestScore ==
  ASSUME NEW S \in SUBSET Nat, S # {}, NEW B \in Nat, \A s \in S : s <= B
  PROVE  \E s \in S : \A x \in S : s >= x
<1>1. {B - s : s \in S} \in SUBSET Nat /\ {B - s : s \in S} # {}
  <2>1. \A s \in S : B - s \in Nat
    OBVIOUS
  <2> QED
    BY <2>1
<1>2. PICK y \in {B - s : s \in S} : \A z \in {B - s : s \in S} : y <= z
  BY <1>1, LeastNumber
<1>3. PICK s \in S : y = B - s
  OBVIOUS
<1>4. ASSUME NEW x \in S PROVE s >= x
  <2>1. y <= B - x
    BY <1>2
  <2> QED
    BY <1>3, <2>1
<1> QED
  BY <1>4

(***************************************************************************)
(* A stop of the message adds to the score of a candidate: nothing if the  *)
(* run is not hit, all there is if it is there exactly.                    *)
(***************************************************************************)
Before(c, k) == IF k \in DOMAIN c THEN c[k].score ELSE 0
IsScored(c) == \A k \in DOMAIN c : c[k].score \in Nat

LEMMA AddedScore ==
  ASSUME IsMatchable(tt), NEW v \in ToldOf(tt), NEW c, IsCandidates(tt, c), IsScored(c),
         NEW k \in DOMAIN AddStop(tt, c, v)
  PROVE  LET new == AddStop(tt, c, v)[k]
             before == Before(c, k)
         IN  /\ before \in Nat /\ new.score \in Nat /\ before <= new.score /\ new.score <= before + 230
             /\ (\A h \in Hits(tt, v) : h.key # k) => new.score = before
             /\ (\E h \in Hits(tt, v) : h.key = k /\ h.i >= new.from /\ h.score = 230) => new.score = before + 230
             /\ k \in DOMAIN c => new.from = c[k].from
             /\ k \notin DOMAIN c => \E h \in Hits(tt, v) : h.key = k /\ h.i = new.from
<1> DEFINE hits == Hits(tt, v)
           of(x) == {h \in hits : h.key = x}
           first(x) == CHOOSE h \in of(x) : \A g \in of(x) : ScannedBefore(h, g)
           from(x) == IF x \in DOMAIN c THEN c[x].from ELSE first(x).i
           scores(x) == {h.score : h \in {h \in of(x) : h.i >= from(x)}} \cup {0}
           best(x) == CHOOSE s \in scores(x) : \A y \in scores(x) : s >= y
           n == AddStop(tt, c, v)
<1>1. n = [x \in DOMAIN c \cup {h.key : h \in hits} |-> [from |-> from(x), score |-> Before(c, x) + best(x)]]
  BY DEF AddStop, Before
<1>2. k \in DOMAIN c \cup {h.key : h \in hits}
  BY <1>1
<1>3. n[k].from = from(k) /\ n[k].score = Before(c, k) + best(k)
  <2> HIDE DEF n, from, best
  <2> QED
    BY <1>1, <1>2
<1> HIDE DEF n
<1>4. Before(c, k) \in Nat
  BY DEF Before, IsScored
<1>5. \A h \in hits : h.score \in 0..230 /\ h.x \in Nat /\ h.i \in Nat
  <2> SUFFICES ASSUME NEW h \in hits PROVE h.score \in 0..230 /\ h.x \in Nat /\ h.i \in Nat
    OBVIOUS
  <2>1. h.key \in KeysOf(tt) /\ h.x \in Nat /\ h.i \in 1..NStops(tt, h.key)
    BY HitFacts
  <2>2. h.i \in Nat
    BY <2>1
  <2> QED
    BY <2>1, <2>2, HitIsAt
<1> HIDE DEF hits
<1>6. scores(k) \in SUBSET Nat /\ scores(k) # {} /\ \A s \in scores(k) : s <= 230
  <2> HIDE DEF from
  <2> QED
    BY <1>5
<1>7. best(k) \in scores(k) /\ \A s \in scores(k) : best(k) >= s
  <2> HIDE DEF scores
  <2>1. \E s \in scores(k) : \A y \in scores(k) : s >= y
    BY <1>6, BestScore
  <2> QED
    BY <2>1
<1> HIDE DEF best
<1>8. best(k) \in Nat /\ best(k) <= 230
  <2> HIDE DEF scores
  <2> QED
    BY <1>6, <1>7
<1>9. ASSUME \A h \in hits : h.key # k PROVE best(k) = 0
  <2>1. scores(k) = {0}
    <3> HIDE DEF from
    <3> QED
      BY <1>9
  <2> QED
    BY <1>7, <2>1
<1>10. ASSUME NEW h \in hits, h.key = k, h.i >= n[k].from, h.score = 230 PROVE best(k) = 230
  <2>1. 230 \in scores(k)
    <3> HIDE DEF from
    <3> QED
      BY <1>3, <1>10
  <2>2. best(k) >= 230
    BY <1>7, <2>1
  <2> QED
    BY <1>8, <2>2
<1>11. ASSUME k \notin DOMAIN c PROVE \E h \in hits : h.key = k /\ h.i = n[k].from
  <2>1. of(k) # {} /\ \A h \in of(k) : h \in hits /\ h.key = k /\ h.x \in Nat /\ h.i \in Nat
    BY <1>2, <1>5, <1>11
  <2> HIDE DEF of
  <2>2. \E h \in of(k) : \A g \in of(k) : ScannedBefore(h, g)
    BY <2>1, FirstHit
  <2>3. first(k) \in of(k)
    BY <2>2
  <2> HIDE DEF first
  <2>4. n[k].from = first(k).i
    BY <1>3, <1>11
  <2> QED
    BY <2>1, <2>3, <2>4
<1>12. k \in DOMAIN c => n[k].from = c[k].from
  BY <1>3
<1> HIDE DEF from
<1> QED
  BY <1>3, <1>4, <1>8, <1>9, <1>10, <1>11, <1>12 DEF n, hits

LEMMA CandidatesGrow ==
  ASSUME NEW t, NEW c, NEW v
  PROVE  /\ DOMAIN c \subseteq DOMAIN AddStop(t, c, v)
         /\ \A h \in Hits(t, v) : h.key \in DOMAIN AddStop(t, c, v)
         /\ \A k \in DOMAIN AddStop(t, c, v) : k \in DOMAIN c \/ \E h \in Hits(t, v) : h.key = k
<1>1. DOMAIN AddStop(t, c, v) = DOMAIN c \cup {h.key : h \in Hits(t, v)}
  BY DEF AddStop
<1> QED
  BY <1>1

\* The candidates after each stop: their types and how they follow each other.
IsChain(vs, f) ==
  /\ f[0] = <<>>
  /\ \A x \in 1..Len(vs) : f[x] = AddStop(tt, f[x - 1], vs[x])
  /\ \A x \in 0..Len(vs) : IsCandidates(tt, f[x]) /\ IsScored(f[x])

LEMMA ChainOfMessage ==
  ASSUME IsMatchable(tt), NEW vs \in Seq(ToldOf(tt))
  PROVE  IsChain(vs, CandidatesAt(tt, vs))
<1> DEFINE f == CandidatesAt(tt, vs)
           n == Len(vs)
           T == {m \in Nat : m <= n => IsScored(f[m])}
<1>1. n \in Nat
  OBVIOUS
<1>2. /\ f[0] = <<>>
      /\ \A x \in 1..n : f[x] = AddStop(tt, f[x - 1], vs[x])
      /\ \A x \in 0..n : IsCandidates(tt, f[x])
  BY CandidatesOfMessage
<1> HIDE DEF f
<1>3. 0 \in T
  BY <1>2 DEF IsScored
<1>4. ASSUME NEW m \in T PROVE m + 1 \in T
  <2>1. SUFFICES ASSUME m + 1 <= n PROVE IsScored(f[m + 1])
    OBVIOUS
  <2>2. m \in 0..n /\ IsScored(f[m])
    BY <1>1, <2>1
  <2>3. m + 1 \in 1..n /\ (m + 1) - 1 = m
    BY <1>1, <2>1
  <2>4. vs[m + 1] \in ToldOf(tt) /\ IsCandidates(tt, f[m])
    BY <1>2, <2>2, <2>3
  <2>5. f[m + 1] = AddStop(tt, f[m], vs[m + 1])
    BY <1>2, <2>3
  <2> QED
    BY <2>2, <2>4, <2>5, AddedScore DEF IsScored
<1>5. T = Nat
  <2>1. T \in SUBSET Nat
    OBVIOUS
  <2> HIDE DEF T
  <2> QED
    BY <1>3, <1>4, <2>1, NumbersReached
<1>6. \A x \in 0..n : IsScored(f[x])
  BY <1>1, <1>5
<1> QED
  BY <1>2, <1>6 DEF f, IsChain

(***************************************************************************)
(* A candidate has no more points than there are stops of the message that *)
(* it meets; a run that is exactly as the message says has all of them.    *)
(***************************************************************************)
Meets(k, v) == \E i \in 1..NStops(tt, k) : IsAt(k, v, i, kAllowedTimeDiscrepancy)
MetTo(vs, k, x) == {j \in 1..x : Meets(k, vs[j])}

LEMMA MetFacts ==
  ASSUME NEW vs, NEW k, NEW x \in Nat
  PROVE  /\ IsFiniteSet(MetTo(vs, k, x)) /\ Cardinality(MetTo(vs, k, x)) \in Nat
         /\ Cardinality(MetTo(vs, k, x)) <= x
         /\ Cardinality(MetTo(vs, k, x + 1)) =
              Cardinality(MetTo(vs, k, x)) + IF Meets(k, vs[x + 1]) THEN 1 ELSE 0
<1> DEFINE S == MetTo(vs, k, x)
<1>1. IsFiniteSet(1..x) /\ Cardinality(1..x) <= x
  BY FS_Interval
<1>2. S \in SUBSET (1..x)
  BY DEF MetTo
<1>3. IsFiniteSet(S) /\ Cardinality(S) <= Cardinality(1..x) /\ Cardinality(S) \in Nat
  BY <1>1, <1>2, FS_Subset, FS_CardinalityType
<1>4. Cardinality(1..x) \in Nat
  BY <1>1, FS_CardinalityType
<1>5. CASE Meets(k, vs[x + 1])
  <2>1. MetTo(vs, k, x + 1) = S \cup {x + 1}
    <3>1. ASSUME NEW j \in MetTo(vs, k, x + 1) PROVE j \in S \cup {x + 1}
      <4>1. j \in 1..x + 1 /\ Meets(k, vs[j])
        BY DEF MetTo
      <4>2. j \in 1..x \/ j = x + 1
        BY <4>1
      <4> QED
        BY <4>1, <4>2 DEF MetTo
    <3>2. ASSUME NEW j \in S \cup {x + 1} PROVE j \in MetTo(vs, k, x + 1)
      <4>1. j \in 1..x + 1 /\ Meets(k, vs[j])
        BY <1>5 DEF MetTo
      <4> QED
        BY <4>1 DEF MetTo
    <3> QED
      BY <3>1, <3>2
  <2>2. x + 1 \notin S
    BY <1>2
  <2>3. Cardinality(S \cup {x + 1}) = Cardinality(S) + 1
    BY <1>3, <2>2, FS_AddElement
  <2>4. Cardinality(MetTo(vs, k, x + 1)) = Cardinality(S) + 1
    BY <2>1, <2>3
  <2>5. Cardinality(S) <= x
    BY <1>1, <1>3, <1>4
  <2> QED
    BY <1>3, <1>5, <2>4, <2>5
<1>6. CASE ~Meets(k, vs[x + 1])
  <2>1. MetTo(vs, k, x + 1) = S
    <3>1. ASSUME NEW j \in MetTo(vs, k, x + 1) PROVE j \in S
      <4>1. j \in 1..x + 1 /\ Meets(k, vs[j])
        BY DEF MetTo
      <4>2. j \in 1..x
        BY <1>6, <4>1
      <4> QED
        BY <4>1, <4>2 DEF MetTo
    <3>2. S \subseteq MetTo(vs, k, x + 1)
      BY DEF MetTo
    <3> QED
      BY <3>1, <3>2
  <2> QED
    BY <1>1, <1>3, <1>4, <1>6, <2>1
<1> QED
  BY <1>5, <1>6

LEMMA HitMeets ==
  ASSUME IsMatchable(tt), NEW v \in ToldOf(tt), NEW h \in Hits(tt, v)
  PROVE  Meets(h.key, v)
<1>1. h.i \in 1..NStops(tt, h.key)
  BY HitFacts
<1>2. IsAt(h.key, v, h.i, kAllowedTimeDiscrepancy)
  BY HitIsAt
<1> QED
  BY <1>1, <1>2 DEF Meets

LEMMA ScoreIsMet ==
  ASSUME IsMatchable(tt), NEW vs \in Seq(ToldOf(tt)), NEW f, IsChain(vs, f)
  PROVE  \A x \in 0..Len(vs) : \A k \in DOMAIN f[x] : f[x][k].score <= 230 * Cardinality(MetTo(vs, k, x))
<1> DEFINE n == Len(vs)
           Bounded(x) == \A k \in DOMAIN f[x] : f[x][k].score <= 230 * Cardinality(MetTo(vs, k, x))
           T == {m \in Nat : m <= n => Bounded(m)}
<1>1. n \in Nat
  OBVIOUS
<1>2. 0 \in T
  BY DEF IsChain
<1>3. ASSUME NEW m \in T PROVE m + 1 \in T
  <2>1. SUFFICES ASSUME m + 1 <= n PROVE Bounded(m + 1)
    OBVIOUS
  <2>2. m \in 0..n /\ m \in Nat /\ Bounded(m)
    BY <1>1, <2>1
  <2>3. m + 1 \in 1..n /\ (m + 1) - 1 = m
    BY <1>1, <2>1
  <2> DEFINE c == f[m]
             v == vs[m + 1]
  <2>4. v \in ToldOf(tt) /\ IsCandidates(tt, c) /\ IsScored(c) /\ f[m + 1] = AddStop(tt, c, v)
    BY <2>2, <2>3 DEF IsChain
  <2>5. SUFFICES ASSUME NEW k \in DOMAIN AddStop(tt, c, v)
                 PROVE  AddStop(tt, c, v)[k].score <= 230 * Cardinality(MetTo(vs, k, m + 1))
    BY <2>4
  <2> DEFINE met == Cardinality(MetTo(vs, k, m))
             new == AddStop(tt, c, v)[k].score
             before == Before(c, k)
  <2>6. met \in Nat /\ Cardinality(MetTo(vs, k, m + 1)) = met + IF Meets(k, v) THEN 1 ELSE 0
    BY <2>2, MetFacts
  <2>7. /\ before \in Nat /\ new \in Nat /\ new <= before + 230
        /\ (\A h \in Hits(tt, v) : h.key # k) => new = before
    BY <2>4, AddedScore
  <2>8. before <= 230 * met
    <3>1. CASE k \in DOMAIN c
      <4>1. c[k].score <= 230 * Cardinality(MetTo(vs, k, m))
        BY <2>2, <3>1
      <4> QED
        BY <3>1, <4>1 DEF Before
    <3>2. CASE k \notin DOMAIN c
      BY <2>6, <3>2 DEF Before
    <3> QED
      BY <3>1, <3>2
  <2>9. (\E h \in Hits(tt, v) : h.key = k) => Meets(k, v)
    BY <2>4, HitMeets
  <2> HIDE DEF c, v, met, new, before
  <2>10. CASE \E h \in Hits(tt, v) : h.key = k
    <3>1. Cardinality(MetTo(vs, k, m + 1)) = met + 1
      BY <2>6, <2>9, <2>10
    <3>2. new <= 230 * (met + 1)
      BY <2>6, <2>7, <2>8
    <3> QED
      BY <3>1, <3>2 DEF new
  <2>11. CASE ~\E h \in Hits(tt, v) : h.key = k
    <3>1. new <= 230 * Cardinality(MetTo(vs, k, m + 1))
      <4>1. new = before
        BY <2>7, <2>11
      <4> QED
        BY <4>1, <2>6, <2>7, <2>8
    <3> QED
      BY <3>1 DEF new
  <2> QED
    BY <2>10, <2>11
<1>4. T = Nat
  <2>1. T \in SUBSET Nat
    OBVIOUS
  <2> HIDE DEF T
  <2> QED
    BY <1>2, <1>3, <2>1, NumbersReached
<1> QED
  BY <1>1, <1>4

\* The message begins at stop first of k and tells its times exactly from there.
IsExact(vs, k, first) ==
  /\ first \in 1..NStops(tt, k)
  /\ \A i \in 1..NStops(tt, k) : IsAt(k, vs[1], i, kAllowedTimeDiscrepancy) => i <= first
  /\ \A x \in 1..Len(vs) : \E i \in first..NStops(tt, k) : IsAt(k, vs[x], i, 0)

LEMMA ExactScore ==
  ASSUME IsMatchable(tt), NEW vs \in Seq(ToldOf(tt)), NEW f, IsChain(vs, f),
         NEW k \in KeysOf(tt), NEW first, IsExact(vs, k, first)
  PROVE  \A x \in 1..Len(vs) : k \in DOMAIN f[x] /\ f[x][k].score = 230 * x
<1> DEFINE n == Len(vs)
           Full(x) == k \in DOMAIN f[x] /\ f[x][k].from <= first /\ f[x][k].score = 230 * x
           T == {m \in Nat : m # 0 /\ m <= n => Full(m)}
<1>1. n \in Nat /\ first \in Nat /\ first >= 1 /\ NStops(tt, k) \in Nat
  BY KeyRow DEF IsExact, IsMatchable
<1>2. 0 \in T
  OBVIOUS
<1>3. ASSUME NEW m \in T PROVE m + 1 \in T
  <2>1. SUFFICES ASSUME m + 1 <= n PROVE Full(m + 1)
    OBVIOUS
  <2>2. m \in 0..n /\ m \in Nat /\ (m # 0 => Full(m))
    BY <1>1, <2>1
  <2>3. m + 1 \in 1..n /\ (m + 1) - 1 = m
    BY <1>1, <2>1
  <2> DEFINE c == f[m]
             v == vs[m + 1]
             new == AddStop(tt, c, v)[k]
  <2>4. v \in ToldOf(tt) /\ IsCandidates(tt, c) /\ IsScored(c) /\ f[m + 1] = AddStop(tt, c, v)
    BY <2>2, <2>3 DEF IsChain
  <2>5. PICK i \in first..NStops(tt, k) : IsAt(k, v, i, 0)
    BY <2>3 DEF IsExact
  <2>6. i \in 1..NStops(tt, k) /\ i \in Int /\ first <= i
    BY <1>1, <2>5
  <2>7. PICK h \in Hits(tt, v) : h.key = k /\ h.i = i /\ h.score = 230
    BY <2>4, <2>5, <2>6, AtIsHit
  <2>8. k \in DOMAIN AddStop(tt, c, v)
    BY <2>7, CandidatesGrow
  <2>9. /\ (\E g \in Hits(tt, v) : g.key = k /\ g.i >= new.from /\ g.score = 230) =>
             new.score = Before(c, k) + 230
        /\ k \in DOMAIN c => new.from = c[k].from
        /\ k \notin DOMAIN c => \E g \in Hits(tt, v) : g.key = k /\ g.i = new.from
    BY <2>4, <2>8, AddedScore
  <2> HIDE DEF new
  <2>10. CASE m = 0
    <3>1. c = <<>> /\ v = vs[1] /\ DOMAIN c = {}
      BY <2>10 DEF IsChain
    <3>2. PICK g \in Hits(tt, v) : g.key = k /\ g.i = new.from
      BY <2>9, <3>1
    <3>3. g.i \in 1..NStops(tt, k) /\ IsAt(k, vs[1], g.i, kAllowedTimeDiscrepancy)
      BY <2>4, <3>1, <3>2, HitFacts, HitIsAt
    <3>4. new.from <= first /\ new.from \in Int
      BY <3>2, <3>3 DEF IsExact
    <3>5. Before(c, k) = 0
      BY <3>1 DEF Before
    <3>6. h.i >= new.from
      BY <1>1, <2>6, <2>7, <3>4
    <3>7. new.score = 230 * (m + 1)
      BY <2>7, <2>9, <2>10, <3>5, <3>6
    <3> QED
      BY <2>4, <2>8, <3>4, <3>7 DEF new
  <2>11. CASE m # 0
    <3>1. k \in DOMAIN c /\ c[k].from <= first /\ c[k].score = 230 * m
      BY <2>2, <2>11
    <3>2. c[k].from \in Int
      BY <2>4, <3>1 DEF IsCandidates
    <3>3. new.from = c[k].from /\ Before(c, k) = 230 * m
      BY <2>9, <3>1 DEF Before
    <3>4. h.i >= new.from
      BY <1>1, <2>6, <2>7, <3>1, <3>2, <3>3
    <3>5. new.score = 230 * m + 230
      BY <2>7, <2>9, <3>3, <3>4
    <3>6. new.score = 230 * (m + 1)
      BY <2>2, <3>5
    <3> QED
      BY <2>4, <2>8, <3>1, <3>3, <3>6 DEF new
  <2> QED
    BY <2>10, <2>11
<1>4. T = Nat
  <2>1. T \in SUBSET Nat
    OBVIOUS
  <2> HIDE DEF T
  <2> QED
    BY <1>2, <1>3, <2>1, NumbersReached
<1>5. ASSUME NEW x \in 1..n PROVE k \in DOMAIN f[x] /\ f[x][k].score = 230 * x
  <2>1. x \in T /\ x # 0 /\ x <= n
    BY <1>1, <1>4
  <2> QED
    BY <2>1
<1> QED
  BY <1>5

(***************************************************************************)
(* The runs that are chosen of the candidates (best_matches).              *)
(***************************************************************************)
FoundFor(vs, complete) == best_matches(tt, CandidatesAt(tt, vs)[Len(vs)], Len(vs), complete)

LEMMA FoundFits ==
  ASSUME IsMatchable(tt), NEW vs \in Seq(ToldOf(tt)), vs # <<>>, NEW complete
  PROVE  LET found == FoundFor(vs, complete)
         IN  /\ \A k \in KeysOf(tt) : \A first : IsExact(vs, k, first) => \E x \in found : KeyOf(x) = k
             /\ \A r \in found : /\ NStops(tt, r) = NStops(tt, KeyOf(r))
                                 /\ 2000 * Cardinality(MetTo(vs, KeyOf(r), Len(vs))) > 975 * Len(vs)
<1> DEFINE n == Len(vs)
           f == CandidatesAt(tt, vs)
           c == f[n]
           scores == {c[k].score : k \in DOMAIN c}
           best == CHOOSE s \in scores : \A k \in DOMAIN c : s >= c[k].score
           Whole(k) == [route |-> k.route, pos |-> k.pos, day |-> k.day,
                        from |-> c[k].from, to |-> Len(tt.routes[k.route].stops)]
           found == FoundFor(vs, complete)
<1>1. n \in Nat /\ n >= 1 /\ n \in 0..n /\ n \in 1..n
  OBVIOUS
<1>2. IsChain(vs, f)
  BY ChainOfMessage
<1>3. found = IF DOMAIN c = {} \/ ~IsEnough(best, n, complete) THEN {}
              ELSE {Whole(k) : k \in {k \in DOMAIN c : c[k].score * 1000 > best * 975}}
  BY DEF best_matches, FoundFor
<1> HIDE DEF found
<1>4. IsCandidates(tt, c) /\ IsScored(c)
  BY <1>1, <1>2 DEF IsChain
<1>5. ASSUME NEW k \in DOMAIN c
      PROVE  /\ c[k].score \in Nat /\ c[k].score <= 230 * Cardinality(MetTo(vs, k, n))
             /\ Cardinality(MetTo(vs, k, n)) \in Nat /\ c[k].score <= 230 * n
             /\ KeyOf(Whole(k)) = k /\ NStops(tt, Whole(k)) = NStops(tt, k)
  <2>1. c[k].score <= 230 * Cardinality(MetTo(vs, k, n))
    BY <1>1, <1>2, ScoreIsMet
  <2>2. c[k].score \in Nat
    BY <1>4 DEF IsScored
  <2>3. Cardinality(MetTo(vs, k, n)) \in Nat /\ Cardinality(MetTo(vs, k, n)) <= n
    BY <1>1, MetFacts
  <2>4. k \in [route : DOMAIN tt.routes, pos : Nat, day : Int]
    BY <1>4 DEF IsCandidates, KeysOf
  <2>5. KeyOf(Whole(k)) = k /\ NStops(tt, Whole(k)) = NStops(tt, k)
    BY <2>4 DEF KeyOf, NStops, StopsOf
  <2> HIDE DEF c, Whole
  <2>6. c[k].score <= 230 * n
    BY <1>1, <2>1, <2>2, <2>3
  <2> QED
    BY <2>1, <2>2, <2>3, <2>5, <2>6
<1> HIDE DEF n, c, Whole
<1>6. ASSUME DOMAIN c # {}
      PROVE  best \in Nat /\ best <= 230 * n /\ \A k \in DOMAIN c : best >= c[k].score
  <2>1. scores \in SUBSET Nat /\ scores # {} /\ (\A s \in scores : s <= 230 * n) /\ 230 * n \in Nat
    BY <1>1, <1>5, <1>6
  <2>2. \E s \in scores : \A x \in scores : s >= x
    <3> HIDE DEF scores
    <3> QED
      BY <2>1, BestScore
  <2>3. \E s \in scores : \A k \in DOMAIN c : s >= c[k].score
    BY <2>2
  <2>4. best \in scores /\ \A k \in DOMAIN c : best >= c[k].score
    <3> HIDE DEF scores
    <3> QED
      BY <2>3
  <2> HIDE DEF best, scores
  <2> QED
    BY <2>1, <2>4
<1> HIDE DEF best, scores
<1>7. ASSUME NEW k \in KeysOf(tt), NEW first, IsExact(vs, k, first)
      PROVE  \E x \in found : KeyOf(x) = k
  <2>1. k \in DOMAIN c /\ c[k].score = 230 * n
    BY <1>1, <1>2, <1>7, ExactScore DEF c, n
  <2>2. best = 230 * n
    BY <1>1, <1>5, <1>6, <2>1
  <2>3. IsEnough(best, n, complete)
    BY <1>1, <2>2 DEF IsEnough, kExactMatchScore
  <2>4. c[k].score * 1000 > best * 975
    BY <1>1, <2>1, <2>2
  <2>5. Whole(k) \in found
    BY <1>3, <2>1, <2>3, <2>4
  <2> QED
    BY <1>5, <2>1, <2>5
<1>8. ASSUME NEW r \in found
      PROVE  /\ NStops(tt, r) = NStops(tt, KeyOf(r))
             /\ 2000 * Cardinality(MetTo(vs, KeyOf(r), n)) > 975 * n
  <2>1. DOMAIN c # {} /\ IsEnough(best, n, complete)
    BY <1>3, <1>8
  <2>2. PICK k \in DOMAIN c : r = Whole(k) /\ c[k].score * 1000 > best * 975
    BY <1>3, <1>8, <2>1
  <2>3. best \in Nat /\ best * 10 > n * 1150
    <3>1. best \in Nat /\ best * 10 > n * 230 * (IF complete THEN 5 ELSE 7)
      BY <1>6, <2>1 DEF IsEnough, kExactMatchScore
    <3> QED
      BY <1>1, <3>1
  <2>4. 2000 * Cardinality(MetTo(vs, k, n)) > 975 * n
    BY <1>1, <1>5, <2>2, <2>3
  <2> QED
    BY <1>5, <2>2, <2>4
<1> QED
  BY <1>7, <1>8 DEF n, c, found

(***************************************************************************)
(* The last message is one of the feed's, whatever has become of it.       *)
(***************************************************************************)
MessageInv == last.id # NoId => last.m.stops \in Seq(ToldOf(tt)) /\ last.m.stops # <<>>

LEMMA MessageStep ==
  ASSUME Inv, MessageInv, [Next]_vars
  PROVE  MessageInv'
<1>1. CASE Update
  <2>1. tt' = tt
    BY <1>1, SameFeed DEF Update
  <2>2. PICK m \in feed.messages : IgnoreMessage(m) \/ ProcessRun(m)
    BY <1>1 DEF Update
  <2>3. CASE IgnoreMessage(m)
    BY <2>1, <2>3 DEF IgnoreMessage, MessageInv
  <2>4. CASE ProcessRun(m)
    <3>1. m.stops # <<>> /\ last'.m = m
      BY <2>4 DEF ProcessRun
    <3>2. m.stops \in Seq(ToldOf(tt))
      BY FeedFacts DEF Inv, TypeInv
    <3> QED
      BY <2>1, <3>1, <3>2 DEF MessageInv
  <2> QED
    BY <2>2, <2>3, <2>4
<1>2. ASSUME NEW alert \in feed.alerts, ProcessVdvAlert(alert)
      PROVE  MessageInv'
  BY <1>2 DEF ProcessVdvAlert, MessageInv, NoMessage
<1>3. ASSUME UNCHANGED <<feed, last>>
      PROVE  MessageInv'
  BY <1>3, SameFeed DEF MessageInv
<1>4. ASSUME NEW alert \in feed.alerts, HandleAlert(alert)
      PROVE  MessageInv'
  BY <1>3, <1>4 DEF HandleAlert
<1>5. CASE Tick
  BY <1>3, <1>5 DEF Tick
<1>6. CASE UNCHANGED vars
  BY <1>3, <1>6 DEF vars
<1> QED
  BY <1>1, <1>2, <1>4, <1>5, <1>6 DEF Next

LEMMA ActiveRunKey ==
  ASSUME IsTimetable(tt), NEW r \in ActiveRuns
  PROVE  KeyOf(r) \in KeysOf(tt) /\ NStops(tt, KeyOf(r)) = NStops(tt, r)
<1>1. PICK x \in DOMAIN tt.routes : \E pos \in DOMAIN tt.routes[x].times : \E d \in tt.routes[x].days[pos] :
        r = [route |-> x, pos |-> pos, day |-> d, from |-> 1, to |-> Len(tt.routes[x].stops)]
  BY DEF ActiveRuns
<1>2. PICK pos \in DOMAIN tt.routes[x].times, d \in Int :
        /\ d \in tt.routes[x].days[pos]
        /\ r = [route |-> x, pos |-> pos, day |-> d, from |-> 1, to |-> Len(tt.routes[x].stops)]
  BY <1>1 DEF IsTimetable, IsRoute
<1>3. KeyOf(r) = [route |-> x, pos |-> pos, day |-> d]
  BY <1>2 DEF KeyOf
<1>4. is_transport_active(tt, [route |-> x, pos |-> pos, day |-> d])
  BY <1>2 DEF is_transport_active
<1>5. KeyOf(r) \in KeysOf(tt)
  BY <1>3, <1>4, ActiveKey
<1> QED
  BY <1>5, KeyFacts

(***************************************************************************)
(* Each run that is exactly as a message says from a stop on is matched,   *)
(* and a run that is matched meets about half of the stops of the message  *)
(* at about the time, for every timetable and every message: match_run     *)
(* looks at times of the day only, and the day it infers, over midnight    *)
(* and for transports that run longer than a day, is the right one.        *)
(***************************************************************************)
THEOREM MatchedRunsFit == Spec => []MatchesFit
<1> DEFINE All == Inv /\ MessageInv
<1>1. Init => All
  BY InitInv DEF Init, NoMessage, MessageInv
<1>2. All /\ [Next]_vars => All'
  BY StepInv, MessageStep
<1>3. ASSUME All PROVE MatchesFit
  <2>1. SUFFICES ASSUME last.id # NoId, resolve_static_trip_id(tt, last.m.trip, last.m.date) = {}
                 PROVE  LET found == match_run(tt, last.m)
                        IN  /\ \A r \in ActiveRuns : IsAsPlanned(r, last.m) => \E x \in found : KeyOf(x) = KeyOf(r)
                            /\ \A r \in found : 2000 * Cardinality(StopsMet(r, last.m)) > 975 * Len(last.m.stops)
    BY DEF MatchesFit
  <2> DEFINE vs == last.m.stops
             found == FoundFor(vs, last.m.complete)
  <2>2. IsMatchable(tt) /\ vs \in Seq(ToldOf(tt)) /\ vs # <<>> /\ DOMAIN vs = 1..Len(vs)
    BY <1>3, <2>1, FeedFacts DEF Inv, TypeInv, MessageInv
  <2>3. match_run(tt, last.m) = found
    BY <2>1 DEF match_run, FoundFor
  <2>4. /\ \A k \in KeysOf(tt) : \A first : IsExact(vs, k, first) => \E x \in found : KeyOf(x) = k
        /\ \A r \in found : /\ NStops(tt, r) = NStops(tt, KeyOf(r))
                            /\ 2000 * Cardinality(MetTo(vs, KeyOf(r), Len(vs))) > 975 * Len(vs)
    <3> HIDE DEF vs
    <3> QED
      BY <2>2, FoundFits
  <2> HIDE DEF found
  <2>5. ASSUME NEW r \in ActiveRuns, IsAsPlanned(r, last.m)
        PROVE  \E x \in found : KeyOf(x) = KeyOf(r)
    <3>1. KeyOf(r) \in KeysOf(tt) /\ NStops(tt, KeyOf(r)) = NStops(tt, r)
      BY <2>2, ActiveRunKey DEF IsMatchable
    <3>2. PICK first \in 1..NStops(tt, r) :
            /\ \A i \in 1..NStops(tt, r) : IsAt(r, vs[1], i, kAllowedTimeDiscrepancy) => i <= first
            /\ \A k \in DOMAIN vs : \E i \in first..NStops(tt, r) : IsAt(r, vs[k], i, 0)
      BY <2>5 DEF IsAsPlanned
    <3>3. IsExact(vs, KeyOf(r), first)
      BY <2>2, <3>1, <3>2, SameAt DEF IsExact
    <3> QED
      BY <2>4, <3>1, <3>3
  <2>6. ASSUME NEW r \in found
        PROVE  2000 * Cardinality(StopsMet(r, last.m)) > 975 * Len(vs)
    <3>1. NStops(tt, r) = NStops(tt, KeyOf(r))
      BY <2>4
    <3>2. StopsMet(r, last.m) = MetTo(vs, KeyOf(r), Len(vs))
      BY <2>2, <3>1, SameAt DEF StopsMet, MetTo, Meets
    <3> QED
      BY <2>4, <3>2
  <2> QED
    BY <2>3, <2>5, <2>6
<1> QED
  BY <1>1, <1>2, <1>3, PTL DEF Spec

-----------------------------------------------------------------------------
(***************************************************************************)
(* Alerts: what is stored of them.                                         *)
(***************************************************************************)
PeriodSets == SUBSET [from : Int, to : Int]

ListsOf(al) ==
  al.rt_transport \cup al.trip \cup al.route_id \cup al.agency \cup al.route_type \cup al.location

IsStore(al) ==
  /\ al = [rt_transport |-> al.rt_transport, trip |-> al.trip, route_id |-> al.route_id, agency |-> al.agency,
           route_type |-> al.route_type, location |-> al.location, impact_period |-> al.impact_period]
  /\ al.impact_period \in Seq(PeriodSets)
  /\ \A y \in ListsOf(al) : y.alert \in 1..Len(al.impact_period)

\* An entity is registered in one list at most, all of it under the alert's number.
LEMMA RegisteredAs ==
  ASSUME NEW t, NEW e, NEW a
  PROVE  LET x == Registered(t, e, a)
         IN  /\ x.rt_transport = {}
             /\ \A y \in ListsOf(x) : y.alert = a
<1> DEFINE x == Registered(t, e, a)
<1>1. CASE ~IsUsable(e)
  BY <1>1 DEF Registered, no_alerts, ListsOf
<1>2. CASE IsUsable(e) /\ e.trip # NoId
  <2>1. x = [no_alerts EXCEPT !.trip = TripRefs(t, e, a)]
    BY <1>2 DEF Registered
  <2>2. \A y \in TripRefs(t, e, a) : y.alert = a
    BY DEF TripRefs
  <2> HIDE DEF x
  <2>3. x.rt_transport = {} /\ ListsOf(x) = TripRefs(t, e, a)
    BY <2>1 DEF no_alerts, ListsOf
  <2> QED
    BY <2>2, <2>3 DEF x
<1>3. CASE IsUsable(e) /\ e.trip = NoId /\ e.route # NoId
  BY <1>3 DEF Registered, no_alerts, ListsOf
<1>4. CASE IsUsable(e) /\ e.trip = NoId /\ e.route = NoId /\ e.agency # NoId
  BY <1>4 DEF Registered, no_alerts, ListsOf
<1>5. CASE IsUsable(e) /\ e.trip = NoId /\ e.route = NoId /\ e.agency = NoId
  BY <1>5 DEF Registered, no_alerts, ListsOf
<1> QED
  BY <1>1, <1>2, <1>3, <1>4, <1>5

\* What handle_alert adds to a list: all that the entities are registered as.
LEMMA HandledAlert ==
  ASSUME NEW al, IsStore(al), NEW alert, ImpactOf(alert) \in PeriodSets,
         NEW new, new = handle_alert(tt, al, alert), NEW a, a = NextAlert(al)
  PROVE  /\ IsStore(new)
         /\ new.rt_transport = al.rt_transport
         /\ \A y : y \in new.trip <=> y \in al.trip \/ \E e \in alert.entities : y \in Registered(tt, e, a).trip
         /\ \A y : y \in new.route_id <=>
              y \in al.route_id \/ \E e \in alert.entities : y \in Registered(tt, e, a).route_id
         /\ \A y : y \in new.agency <=> y \in al.agency \/ \E e \in alert.entities : y \in Registered(tt, e, a).agency
         /\ \A y : y \in new.route_type <=>
              y \in al.route_type \/ \E e \in alert.entities : y \in Registered(tt, e, a).route_type
         /\ \A y : y \in new.location <=>
              y \in al.location \/ \E e \in alert.entities : y \in Registered(tt, e, a).location
         /\ (\E e \in alert.entities : Registered(tt, e, a) # no_alerts) => new.impact_period[a] = ImpactOf(alert)
<1> DEFINE found == {Registered(tt, e, a) : e \in alert.entities} \ {no_alerts}
           periods == Append(al.impact_period, ImpactOf(alert))
<1>1. new = IF found = {} THEN al
            ELSE [rt_transport |-> al.rt_transport,
                  trip |-> al.trip \cup UNION {x.trip : x \in found},
                  route_id |-> al.route_id \cup UNION {x.route_id : x \in found},
                  agency |-> al.agency \cup UNION {x.agency : x \in found},
                  route_type |-> al.route_type \cup UNION {x.route_type : x \in found},
                  location |-> al.location \cup UNION {x.location : x \in found},
                  impact_period |-> periods]
  BY DEF handle_alert
<1>2. /\ \A x : x \in found <=> x # no_alerts /\ \E e \in alert.entities : x = Registered(tt, e, a)
      /\ no_alerts.trip = {} /\ no_alerts.route_id = {} /\ no_alerts.agency = {}
      /\ no_alerts.route_type = {} /\ no_alerts.location = {}
  BY DEF no_alerts
<1>3. \A y : y \in UNION {x.trip : x \in found} <=> \E e \in alert.entities : y \in Registered(tt, e, a).trip
  <2> HIDE DEF found
  <2> QED
    BY <1>2
<1>4. \A y : y \in UNION {x.route_id : x \in found} <=> \E e \in alert.entities : y \in Registered(tt, e, a).route_id
  <2> HIDE DEF found
  <2> QED
    BY <1>2
<1>5. \A y : y \in UNION {x.agency : x \in found} <=> \E e \in alert.entities : y \in Registered(tt, e, a).agency
  <2> HIDE DEF found
  <2> QED
    BY <1>2
<1>6. \A y : y \in UNION {x.route_type : x \in found} <=>
               \E e \in alert.entities : y \in Registered(tt, e, a).route_type
  <2> HIDE DEF found
  <2> QED
    BY <1>2
<1>7. \A y : y \in UNION {x.location : x \in found} <=> \E e \in alert.entities : y \in Registered(tt, e, a).location
  <2> HIDE DEF found
  <2> QED
    BY <1>2
<1>8. /\ al.impact_period \in Seq(PeriodSets) /\ Len(al.impact_period) \in Nat
      /\ a = Len(al.impact_period) + 1
      /\ periods \in Seq(PeriodSets) /\ Len(periods) = a /\ periods[a] = ImpactOf(alert)
  BY DEF IsStore, NextAlert
<1>9. (\E e \in alert.entities : Registered(tt, e, a) # no_alerts) => found # {}
  <2> HIDE DEF found
  <2> QED
    BY <1>2
<1> HIDE DEF found, periods
<1>10. CASE found = {}
  <2>1. new = al
    BY <1>1, <1>10
  <2>2. \A x : x \notin UNION {y.trip : y \in found} /\ x \notin UNION {y.route_id : y \in found}
               /\ x \notin UNION {y.agency : y \in found} /\ x \notin UNION {y.route_type : y \in found}
               /\ x \notin UNION {y.location : y \in found}
    BY <1>10
  <2> QED
    BY <1>3, <1>4, <1>5, <1>6, <1>7, <1>9, <1>10, <2>1, <2>2
<1>11. CASE found # {}
  <2>1. /\ new.rt_transport = al.rt_transport
        /\ new.trip = al.trip \cup UNION {x.trip : x \in found}
        /\ new.route_id = al.route_id \cup UNION {x.route_id : x \in found}
        /\ new.agency = al.agency \cup UNION {x.agency : x \in found}
        /\ new.route_type = al.route_type \cup UNION {x.route_type : x \in found}
        /\ new.location = al.location \cup UNION {x.location : x \in found}
        /\ new.impact_period = periods
        /\ new = [rt_transport |-> new.rt_transport, trip |-> new.trip, route_id |-> new.route_id,
                  agency |-> new.agency, route_type |-> new.route_type, location |-> new.location,
                  impact_period |-> new.impact_period]
    <3> DEFINE s1 == al.trip \cup UNION {x.trip : x \in found}
               s2 == al.route_id \cup UNION {x.route_id : x \in found}
               s3 == al.agency \cup UNION {x.agency : x \in found}
               s4 == al.route_type \cup UNION {x.route_type : x \in found}
               s5 == al.location \cup UNION {x.location : x \in found}
    <3>1. new = [rt_transport |-> al.rt_transport, trip |-> s1, route_id |-> s2, agency |-> s3,
                 route_type |-> s4, location |-> s5, impact_period |-> periods]
      BY <1>1, <1>11
    <3> HIDE DEF s1, s2, s3, s4, s5
    <3>2. /\ new.rt_transport = al.rt_transport /\ new.trip = s1 /\ new.route_id = s2 /\ new.agency = s3
          /\ new.route_type = s4 /\ new.location = s5 /\ new.impact_period = periods
      BY <3>1
    <3> QED
      BY <3>1, <3>2 DEF s1, s2, s3, s4, s5
  <2>2. /\ \A y : y \in new.trip <=> y \in al.trip \/ \E e \in alert.entities : y \in Registered(tt, e, a).trip
        /\ \A y : y \in new.route_id <=>
             y \in al.route_id \/ \E e \in alert.entities : y \in Registered(tt, e, a).route_id
        /\ \A y : y \in new.agency <=> y \in al.agency \/ \E e \in alert.entities : y \in Registered(tt, e, a).agency
        /\ \A y : y \in new.route_type <=>
             y \in al.route_type \/ \E e \in alert.entities : y \in Registered(tt, e, a).route_type
        /\ \A y : y \in new.location <=>
             y \in al.location \/ \E e \in alert.entities : y \in Registered(tt, e, a).location
    BY <1>3, <1>4, <1>5, <1>6, <1>7, <2>1
  <2>3. ASSUME NEW y \in ListsOf(new) PROVE y.alert \in 1..a
    <3>1. y \in ListsOf(al) \/ \E e \in alert.entities : y \in ListsOf(Registered(tt, e, a))
      BY <2>1, <2>2 DEF ListsOf
    <3>2. y \in ListsOf(al) => y.alert \in 1..Len(al.impact_period)
      BY DEF IsStore
    <3>3. \A e \in alert.entities : y \in ListsOf(Registered(tt, e, a)) => y.alert = a
      BY RegisteredAs
    <3> QED
      BY <1>8, <3>1, <3>2, <3>3
  <2>4. IsStore(new)
    BY <1>8, <2>1, <2>3 DEF IsStore
  <2> QED
    BY <1>8, <2>1, <2>2, <2>4
<1> QED
  BY <1>10, <1>11

(***************************************************************************)
(* What get_alerts looks up before it compares the times.                  *)
(***************************************************************************)
CallAt(r, i) == IF i = 0 THEN NoLocation ELSE LocationOf(tt, rt, r, i)

IsLookedUp(al, t, r, l, fuzzy, y) ==
  \/ y \in al.rt_transport /\ y.key = KeyOf(r) /\ KeyOf(r) \in DOMAIN rt /\ MatchesLocation(tt, l, fuzzy, y.l)
  \/ y \in al.trip /\ y.trip = t /\ y.key \in {NoKey, KeyOf(r)} /\ MatchesLocation(tt, l, fuzzy, y.l)
  \/ /\ y \in al.route_id /\ y.route = tt.info[t].route_id /\ y.direction \in {NoDirection, tt.info[t].direction}
     /\ MatchesLocation(tt, l, fuzzy, y.l)
  \/ /\ y \in al.agency /\ y.agency = tt.info[t].agency /\ y.type \in {0, tt.info[t].route_type}
     /\ MatchesLocation(tt, l, fuzzy, y.l)
  \/ y \in al.route_type /\ y.type = tt.info[t].route_type /\ MatchesLocation(tt, l, fuzzy, y.l)
  \/ y \in al.location /\ l # NoLocation /\ y.l \in {l, tt.parents[l]} \ {NoLocation}

FirstTime(r, i) == TimeOf(tt, rt, r, IF i > 1 THEN Arr(i) ELSE Dep(IF i = 0 THEN r.from ELSE 1))
LastTime(r, i) == TimeOf(tt, rt, r, IF i = 0 THEN Arr(r.to) ELSE IF i # NStops(tt, r) THEN Dep(i) ELSE Arr(i))

LEMMA FoundAlerts ==
  ASSUME NEW al, NEW t, NEW r, NEW i, NEW fuzzy, NEW a
  PROVE  a \in get_alerts(tt, rt, al, t, r, i, fuzzy) <=>
           /\ \E y : IsLookedUp(al, t, r, CallAt(r, i), fuzzy, y) /\ y.alert = a
           /\ impacts(al, a, FirstTime(r, i), LastTime(r, i) + 1)
<1> DEFINE l == CallAt(r, i)
           trips == {x \in al.trip : x.trip = t /\ x.key \in {NoKey, KeyOf(r)}}
           found == {x \in al.rt_transport : x.key = KeyOf(r) /\ KeyOf(r) \in DOMAIN rt}
                      \cup trips
                      \cup by_route_id(tt, al, t)
                      \cup {x \in al.agency : x.agency = tt.info[t].agency /\ x.type \in {0, tt.info[t].route_type}}
                      \cup {x \in al.route_type : x.type = tt.info[t].route_type}
           stops == {x \in al.location : l # NoLocation /\ x.l \in {l, tt.parents[l]} \ {NoLocation}}
           near == {x.alert : x \in {x \in found : MatchesLocation(tt, l, fuzzy, x.l)}} \cup {x.alert : x \in stops}
<1>1. get_alerts(tt, rt, al, t, r, i, fuzzy) = {x \in near : impacts(al, x, FirstTime(r, i), LastTime(r, i) + 1)}
  BY DEF get_alerts, FirstTime, LastTime, CallAt
<1>2. \A y : IsLookedUp(al, t, r, l, fuzzy, y) <=> (y \in found /\ MatchesLocation(tt, l, fuzzy, y.l)) \/ y \in stops
  BY DEF IsLookedUp, by_route_id
<1> HIDE DEF found, stops, l
<1>3. a \in near <=> \E y : IsLookedUp(al, t, r, l, fuzzy, y) /\ y.alert = a
  BY <1>2
<1> HIDE DEF near
<1> QED
  BY <1>1, <1>3 DEF l

\* An alert is looked up if one of its entities is, as if it were alone.
LEMMA LookedUpByEntity ==
  ASSUME NEW al, IsStore(al), NEW alert, ImpactOf(alert) \in PeriodSets,
         NEW new, new = handle_alert(tt, al, alert), NEW a, a = NextAlert(al),
         NEW t, NEW r, NEW l, NEW fuzzy
  PROVE  (\E y : IsLookedUp(new, t, r, l, fuzzy, y) /\ y.alert = a) <=>
           \E e \in alert.entities : \E y : IsLookedUp(Registered(tt, e, a), t, r, l, fuzzy, y)
<1> DEFINE R(e) == Registered(tt, e, a)
<1>1. /\ new.rt_transport = al.rt_transport
      /\ \A y : y \in new.trip <=> y \in al.trip \/ \E e \in alert.entities : y \in R(e).trip
      /\ \A y : y \in new.route_id <=> y \in al.route_id \/ \E e \in alert.entities : y \in R(e).route_id
      /\ \A y : y \in new.agency <=> y \in al.agency \/ \E e \in alert.entities : y \in R(e).agency
      /\ \A y : y \in new.route_type <=> y \in al.route_type \/ \E e \in alert.entities : y \in R(e).route_type
      /\ \A y : y \in new.location <=> y \in al.location \/ \E e \in alert.entities : y \in R(e).location
  BY HandledAlert
<1>2. \A e : R(e).rt_transport = {} /\ \A y \in ListsOf(R(e)) : y.alert = a
  BY RegisteredAs
<1>3. \A y \in ListsOf(al) : y.alert # a
  <2>1. a = Len(al.impact_period) + 1 /\ Len(al.impact_period) \in Nat
    BY DEF IsStore, NextAlert
  <2>2. \A y \in ListsOf(al) : y.alert \in 1..Len(al.impact_period)
    BY DEF IsStore
  <2> QED
    BY <2>1, <2>2
<1> HIDE DEF R
<1>4. ASSUME NEW y, IsLookedUp(new, t, r, l, fuzzy, y), y.alert = a
      PROVE  \E e \in alert.entities : IsLookedUp(R(e), t, r, l, fuzzy, y)
  <2>1. y \notin ListsOf(al)
    BY <1>3, <1>4
  <2>2. /\ y \notin new.rt_transport /\ y \notin al.trip /\ y \notin al.route_id /\ y \notin al.agency
        /\ y \notin al.route_type /\ y \notin al.location
    BY <1>1, <2>1 DEF ListsOf
  <2> QED
    BY <1>1, <1>4, <2>2 DEF IsLookedUp
<1>5. ASSUME NEW e \in alert.entities, NEW y, IsLookedUp(R(e), t, r, l, fuzzy, y)
      PROVE  IsLookedUp(new, t, r, l, fuzzy, y) /\ y.alert = a
  <2>1. IsLookedUp(new, t, r, l, fuzzy, y)
    BY <1>1, <1>2, <1>5 DEF IsLookedUp
  <2>2. y \in ListsOf(R(e))
    BY <1>5 DEF IsLookedUp, ListsOf
  <2> QED
    BY <1>2, <2>1, <2>2
<1> QED
  BY <1>4, <1>5 DEF R

(***************************************************************************)
(* The selectors of an entity agree with each other: handle_alert registers*)
(* an entity under the first of them (and its stop), the rest is not read. *)
(***************************************************************************)
Agrees(t, e) ==
  \A x \in DOMAIN t.trips :
    LET info == t.info[x]
        of_agency == e.agency \in {NoId, info.agency} /\ e.type \in {0, info.route_type}
    IN  /\ e.trip # NoId /\ e.trip = x =>
             of_agency /\ e.route \in {NoId, info.route_id} /\ e.direction \in {NoDirection, info.direction}
        /\ e.trip = NoId /\ e.route # NoId /\ e.route = info.route_id => of_agency

\* Whether the stop of an entity fits, if it names more than a stop.
StopFits(e, l, fuzzy) ==
  LET up == IF l = NoLocation THEN {} ELSE {l, tt.parents[l]}
      stations == up \cup (IF l = NoLocation \/ tt.parents[l] = NoLocation THEN {} ELSE {tt.parents[tt.parents[l]]})
  IN  IF e.stop = NoLocation THEN fuzzy \/ l = NoLocation ELSE e.stop \in stations

LEMMA StopFitsIs ==
  ASSUME NEW e, NEW l, NEW fuzzy \in BOOLEAN
  PROVE  MatchesLocation(tt, l, fuzzy, e.stop) <=> StopFits(e, l, fuzzy)
<1>1. CASE l = NoLocation
  BY <1>1 DEF MatchesLocation, StopFits
<1>2. CASE l # NoLocation /\ tt.parents[l] = NoLocation
  BY <1>2 DEF MatchesLocation, StopFits
<1>3. CASE l # NoLocation /\ tt.parents[l] # NoLocation
  BY <1>3 DEF MatchesLocation, StopFits
<1> QED
  BY <1>1, <1>2, <1>3

\* The runs that a trip with or without a date is registered for.
LEMMA TripFits ==
  ASSUME IsMatchable(tt), NEW r \in ActiveRuns, NEW t \in DOMAIN tt.trips,
         tt.trips[t].route = r.route, tt.trips[t].pos = r.pos, NEW e
  PROVE  (\E x \in TripsOf(tt, e) : x.trip = t /\ x.key \in {NoKey, KeyOf(r)}) <=>
           e.trip = t /\ e.date \in {NoTime, r.day}
<1>1. KeyOf(r) \in KeysOf(tt) /\ KeyOf(r) = [route |-> r.route, pos |-> r.pos, day |-> r.day]
  BY ActiveRunKey DEF IsMatchable, KeyOf
<1>2. IsTrip(tt.routes, tt.trips[t])
  BY DEF IsMatchable
<1>3. is_transport_active(tt, KeyOf(r)) /\ r.pos # 0
  <2>1. KeyOf(r).pos = r.pos /\ KeyOf(r).route = r.route
    BY <1>1
  <2>2. r.route \in DOMAIN tt.routes /\ r.pos \in DOMAIN tt.routes[r.route].times
    BY <1>2 DEF IsTrip
  <2>3. 0 \notin DOMAIN tt.routes[r.route].times
    <3> DEFINE ts == tt.routes[r.route].times
               Rows == [0..2 * Len(tt.routes[r.route].stops) - 3 -> Int]
    <3>1. ts \in Seq(Rows)
      BY <2>2 DEF IsMatchable, IsTimetable, IsRoute
    <3> HIDE DEF ts, Rows
    <3>2. 0 \notin DOMAIN ts
      BY <3>1
    <3> QED
      BY <3>2 DEF ts
  <2> QED
    BY <1>1, <2>2, <2>3 DEF KeysOf
<1>4. CASE e.date = NoTime
  <2> DEFINE x1 == [trip |-> e.trip, key |-> NoKey]
  <2>1. \A x : x \in TripsOf(tt, e) <=> e.trip \in DOMAIN tt.trips /\ x = x1
    BY <1>4 DEF TripsOf
  <2>2. x1.trip = e.trip /\ x1.key = NoKey
    OBVIOUS
  <2> HIDE DEF x1
  <2> QED
    BY <1>4, <2>1, <2>2
<1>5. CASE e.date # NoTime
  <2> DEFINE run == [tt.trips[e.trip] EXCEPT !.day = e.date]
  <2>1. \A x : x \in TripsOf(tt, e) <=>
          /\ e.trip \in DOMAIN tt.trips /\ is_transport_active(tt, KeyOf(run))
          /\ x = [trip |-> e.trip, key |-> KeyOf(run)]
    BY <1>5 DEF TripsOf, resolve_static_trip_id
  <2>2. ASSUME e.trip = t PROVE KeyOf(run) = [route |-> r.route, pos |-> r.pos, day |-> e.date]
    BY <1>2, <2>2 DEF IsTrip, KeyOf
  <2> HIDE DEF run
  <2>3. ASSUME NEW x \in TripsOf(tt, e), x.trip = t, x.key \in {NoKey, KeyOf(r)}
        PROVE  e.trip = t /\ e.date = r.day
    <3>1. e.trip = t /\ x.key = [route |-> r.route, pos |-> r.pos, day |-> e.date]
      BY <2>1, <2>2, <2>3
    <3>2. x.key # NoKey
      BY <1>3, <3>1 DEF NoKey
    <3> QED
      BY <1>1, <2>3, <3>1, <3>2
  <2>4. ASSUME e.trip = t, e.date = r.day
        PROVE  \E x \in TripsOf(tt, e) : x.trip = t /\ x.key \in {NoKey, KeyOf(r)}
    <3>1. KeyOf(run) = KeyOf(r)
      BY <1>1, <2>2, <2>4
    <3>2. [trip |-> e.trip, key |-> KeyOf(run)] \in TripsOf(tt, e)
      BY <1>3, <2>1, <2>4, <3>1
    <3> QED
      BY <2>4, <3>1, <3>2
  <2> QED
    BY <1>5, <2>3, <2>4
<1> QED
  BY <1>4, <1>5

NamesRun(e) == e.trip # NoId \/ e.route # NoId \/ e.agency # NoId \/ e.type # 0

LEMMA SelectsIs ==
  ASSUME NEW e, NEW t, NEW r, NEW i, NEW fuzzy \in BOOLEAN, CallAt(r, i) = NoLocation <=> i = 0
  PROVE  Selects(e, t, r, i, fuzzy) <=>
           /\ IsUsable(e)
           /\ e.trip # NoId => e.trip = t /\ e.date \in {NoTime, r.day}
           /\ e.route # NoId => e.route = tt.info[t].route_id
           /\ e.direction # NoDirection => e.direction = tt.info[t].direction
           /\ e.agency # NoId => e.agency = tt.info[t].agency
           /\ e.type # 0 => e.type = tt.info[t].route_type
           /\ IF NamesRun(e) THEN StopFits(e, CallAt(r, i), fuzzy)
              ELSE e.stop # NoLocation /\ CallAt(r, i) # NoLocation /\ e.stop \in {CallAt(r, i), tt.parents[CallAt(r, i)]}
<1> DEFINE l == CallAt(r, i)
           up == IF l = NoLocation THEN {} ELSE {l, tt.parents[l]}
           stations == up \cup (IF l = NoLocation \/ tt.parents[l] = NoLocation THEN {} ELSE {tt.parents[tt.parents[l]]})
           Fits == IF e.stop = NoLocation THEN NamesRun(e) /\ (fuzzy \/ i = 0)
                   ELSE e.stop \in (IF NamesRun(e) THEN stations ELSE up)
<1>1. Selects(e, t, r, i, fuzzy) <=>
        /\ IsUsable(e)
        /\ e.trip # NoId => e.trip = t /\ e.date \in {NoTime, r.day}
        /\ e.route # NoId => e.route = tt.info[t].route_id
        /\ e.direction # NoDirection => e.direction = tt.info[t].direction
        /\ e.agency # NoId => e.agency = tt.info[t].agency
        /\ e.type # 0 => e.type = tt.info[t].route_type
        /\ Fits
  BY DEF Selects, CallAt, NamesRun
<1>2. StopFits(e, l, fuzzy) <=> IF e.stop = NoLocation THEN fuzzy \/ l = NoLocation ELSE e.stop \in stations
  BY DEF StopFits
<1> HIDE DEF stations
<1>3. CASE NamesRun(e)
  BY <1>1, <1>2, <1>3
<1>4. CASE ~NamesRun(e)
  BY <1>1, <1>4
<1> QED
  BY <1>3, <1>4

LEMMA EntityLookedUp ==
  ASSUME IsMatchable(tt), NEW r \in ActiveRuns, NEW t \in DOMAIN tt.trips,
         tt.trips[t].route = r.route, tt.trips[t].pos = r.pos,
         NEW e, Agrees(tt, e), NEW a, NEW i, NEW fuzzy \in BOOLEAN, CallAt(r, i) = NoLocation <=> i = 0
  PROVE  (\E y : IsLookedUp(Registered(tt, e, a), t, r, CallAt(r, i), fuzzy, y)) <=> Selects(e, t, r, i, fuzzy)
<1> DEFINE l == CallAt(r, i)
           x == Registered(tt, e, a)
           info == tt.info[t]
           fits == StopFits(e, l, fuzzy)
           picked == \E y : IsLookedUp(x, t, r, l, fuzzy, y)
           selects == Selects(e, t, r, i, fuzzy)
<1>1. selects <=>
        /\ IsUsable(e)
        /\ e.trip # NoId => e.trip = t /\ e.date \in {NoTime, r.day}
        /\ e.route # NoId => e.route = info.route_id
        /\ e.direction # NoDirection => e.direction = info.direction
        /\ e.agency # NoId => e.agency = info.agency
        /\ e.type # 0 => e.type = info.route_type
        /\ IF NamesRun(e) THEN fits ELSE e.stop # NoLocation /\ l # NoLocation /\ e.stop \in {l, tt.parents[l]}
  BY SelectsIs
<1>2. MatchesLocation(tt, l, fuzzy, e.stop) <=> fits
  BY StopFitsIs
<1>3. t \in DOMAIN tt.info /\ info.route_id \in Routes(tt) /\ info.agency \in Agencies(tt)
  BY DEF IsMatchable, Routes, Agencies
<1>4. /\ e.trip # NoId /\ e.trip = t =>
           /\ e.agency \in {NoId, info.agency} /\ e.type \in {0, info.route_type}
           /\ e.route \in {NoId, info.route_id} /\ e.direction \in {NoDirection, info.direction}
      /\ e.trip = NoId /\ e.route # NoId /\ e.route = info.route_id =>
           e.agency \in {NoId, info.agency} /\ e.type \in {0, info.route_type}
  BY DEF Agrees
<1> HIDE DEF l, info, fits, selects
<1>5. CASE ~IsUsable(e)
  <2>1. x = no_alerts
    BY <1>5 DEF Registered
  <2> HIDE DEF x
  <2>2. ~picked
    BY <2>1 DEF IsLookedUp, no_alerts
  <2> QED
    BY <1>1, <1>5, <2>2 DEF x, selects, l
<1>6. CASE IsUsable(e) /\ e.trip # NoId
  <2>1. x = [no_alerts EXCEPT !.trip = TripRefs(tt, e, a)]
    BY <1>6 DEF Registered
  <2> HIDE DEF x
  <2>2. /\ x.trip = TripRefs(tt, e, a) /\ x.rt_transport = {} /\ x.route_id = {} /\ x.agency = {}
        /\ x.route_type = {} /\ x.location = {}
    BY <2>1 DEF no_alerts
  <2>3. \A y : IsLookedUp(x, t, r, l, fuzzy, y) <=>
          y \in TripRefs(tt, e, a) /\ y.trip = t /\ y.key \in {NoKey, KeyOf(r)} /\ MatchesLocation(tt, l, fuzzy, y.l)
    BY <2>2 DEF IsLookedUp
  <2>4. picked <=> (\E z \in TripsOf(tt, e) : z.trip = t /\ z.key \in {NoKey, KeyOf(r)}) /\ fits
    <3>1. \A y \in TripRefs(tt, e, a) : y.l = e.stop /\ \E z \in TripsOf(tt, e) : y.trip = z.trip /\ y.key = z.key
      BY DEF TripRefs
    <3>2. \A z \in TripsOf(tt, e) : \E y \in TripRefs(tt, e, a) : y.l = e.stop /\ y.trip = z.trip /\ y.key = z.key
      <4> SUFFICES ASSUME NEW z \in TripsOf(tt, e)
                   PROVE  \E y \in TripRefs(tt, e, a) : y.l = e.stop /\ y.trip = z.trip /\ y.key = z.key
        OBVIOUS
      <4>1. [trip |-> z.trip, l |-> e.stop, alert |-> a, key |-> z.key] \in TripRefs(tt, e, a)
        BY DEF TripRefs
      <4> QED
        BY <4>1
    <3> QED
      BY <1>2, <2>3, <3>1, <3>2
  <2>5. picked <=> e.trip = t /\ e.date \in {NoTime, r.day} /\ fits
    BY <2>4, TripFits
  <2> HIDE DEF picked
  <2>6. picked <=> selects
    BY <1>1, <1>4, <1>6, <2>5 DEF NamesRun
  <2> QED
    BY <2>6 DEF picked, x, selects, l
<1>7. CASE IsUsable(e) /\ e.trip = NoId /\ e.route # NoId
  <2> DEFINE y1 == [route |-> e.route, direction |-> e.direction, l |-> e.stop, alert |-> a]
  <2>1. x = [no_alerts EXCEPT !.route_id = {y1 : z \in {e.route} \cap Routes(tt)}]
    BY <1>7 DEF Registered
  <2> HIDE DEF x
  <2>2. \A y : IsLookedUp(x, t, r, l, fuzzy, y) <=>
          /\ y = y1 /\ e.route \in Routes(tt)
          /\ y.route = info.route_id /\ y.direction \in {NoDirection, info.direction}
          /\ MatchesLocation(tt, l, fuzzy, y.l)
    <3> HIDE DEF y1
    <3> QED
      BY <2>1 DEF IsLookedUp, no_alerts, info
  <2>3. picked <=> e.route = info.route_id /\ e.direction \in {NoDirection, info.direction} /\ fits
    <3>1. y1.route = e.route /\ y1.direction = e.direction /\ y1.l = e.stop
      OBVIOUS
    <3> HIDE DEF y1
    <3>2. picked <=> IsLookedUp(x, t, r, l, fuzzy, y1)
      BY <2>2
    <3> HIDE DEF picked
    <3> QED
      BY <1>2, <1>3, <2>2, <3>1, <3>2
  <2> HIDE DEF picked
  <2>4. picked <=> selects
    BY <1>1, <1>4, <1>7, <2>3 DEF NamesRun
  <2> QED
    BY <2>4 DEF picked, x, selects, l
<1>8. CASE IsUsable(e) /\ e.trip = NoId /\ e.route = NoId /\ e.agency # NoId
  <2> DEFINE y1 == [agency |-> e.agency, type |-> e.type, l |-> e.stop, alert |-> a]
  <2>1. x = [no_alerts EXCEPT !.agency = {y1 : z \in {e.agency} \cap Agencies(tt)}]
    BY <1>8 DEF Registered
  <2> HIDE DEF x
  <2>2. \A y : IsLookedUp(x, t, r, l, fuzzy, y) <=>
          /\ y = y1 /\ e.agency \in Agencies(tt)
          /\ y.agency = info.agency /\ y.type \in {0, info.route_type}
          /\ MatchesLocation(tt, l, fuzzy, y.l)
    <3> HIDE DEF y1
    <3> QED
      BY <2>1 DEF IsLookedUp, no_alerts, info
  <2>3. picked <=> e.agency = info.agency /\ e.type \in {0, info.route_type} /\ fits
    <3>1. y1.agency = e.agency /\ y1.type = e.type /\ y1.l = e.stop
      OBVIOUS
    <3> HIDE DEF y1
    <3>2. picked <=> IsLookedUp(x, t, r, l, fuzzy, y1)
      BY <2>2
    <3> HIDE DEF picked
    <3> QED
      BY <1>2, <1>3, <2>2, <3>1, <3>2
  <2>4. e.direction = NoDirection
    BY <1>8 DEF IsUsable
  <2> HIDE DEF picked
  <2>5. picked <=> selects
    BY <1>1, <1>8, <2>3, <2>4 DEF NamesRun
  <2> QED
    BY <2>5 DEF picked, x, selects, l
<1>9. CASE IsUsable(e) /\ e.trip = NoId /\ e.route = NoId /\ e.agency = NoId /\ e.type # 0
  <2> DEFINE y1 == [type |-> e.type, l |-> e.stop, alert |-> a]
  <2>1. x = [no_alerts EXCEPT !.route_type = {y1}]
    BY <1>9 DEF Registered
  <2> HIDE DEF x
  <2>2. \A y : IsLookedUp(x, t, r, l, fuzzy, y) <=>
          y = y1 /\ y.type = info.route_type /\ MatchesLocation(tt, l, fuzzy, y.l)
    <3> HIDE DEF y1
    <3> QED
      BY <2>1 DEF IsLookedUp, no_alerts, info
  <2>3. picked <=> e.type = info.route_type /\ fits
    <3>1. y1.type = e.type /\ y1.l = e.stop
      OBVIOUS
    <3> HIDE DEF y1
    <3>2. picked <=> IsLookedUp(x, t, r, l, fuzzy, y1)
      BY <2>2
    <3> HIDE DEF picked
    <3> QED
      BY <1>2, <2>2, <3>1, <3>2
  <2>4. e.direction = NoDirection
    BY <1>9 DEF IsUsable
  <2> HIDE DEF picked
  <2>5. picked <=> selects
    BY <1>1, <1>9, <2>3, <2>4 DEF NamesRun
  <2> QED
    BY <2>5 DEF picked, x, selects, l
<1>10. CASE IsUsable(e) /\ ~NamesRun(e)
  <2>1. e.trip = NoId /\ e.route = NoId /\ e.agency = NoId /\ e.type = 0 /\ e.direction = NoDirection
    BY <1>10 DEF NamesRun, IsUsable
  <2> DEFINE y1 == [l |-> e.stop, alert |-> a]
  <2>2. x = IF e.stop # NoLocation THEN [no_alerts EXCEPT !.location = {y1}] ELSE no_alerts
    BY <1>10, <2>1 DEF Registered
  <2> HIDE DEF x
  <2>3. \A y : IsLookedUp(x, t, r, l, fuzzy, y) <=>
          e.stop # NoLocation /\ y = y1 /\ l # NoLocation /\ y.l \in {l, tt.parents[l]} \ {NoLocation}
    <3> HIDE DEF y1
    <3> QED
      BY <2>2 DEF IsLookedUp, no_alerts
  <2>4. picked <=> e.stop # NoLocation /\ l # NoLocation /\ e.stop \in {l, tt.parents[l]}
    <3>1. y1.l = e.stop
      OBVIOUS
    <3> HIDE DEF y1
    <3>2. picked <=> IsLookedUp(x, t, r, l, fuzzy, y1)
      BY <2>3
    <3> HIDE DEF picked
    <3> QED
      BY <2>3, <3>1, <3>2
  <2> HIDE DEF picked
  <2>5. picked <=> selects
    BY <1>1, <1>10, <2>1, <2>4
  <2> QED
    BY <2>5 DEF picked, x, selects, l
<1> QED
  BY <1>5, <1>6, <1>7, <1>8, <1>9, <1>10 DEF NamesRun

(***************************************************************************)
(* The period: as the times of a run are in order, the first and the last  *)
(* of a call tell all that the two of them could.                          *)
(***************************************************************************)
LEMMA ActiveRunFacts ==
  ASSUME IsTimetable(tt), NEW r \in ActiveRuns
  PROVE  r \in RunsOf(tt) /\ r.from = 1 /\ r.to = NStops(tt, r)
<1>1. KeyOf(r) \in KeysOf(tt) /\ NStops(tt, KeyOf(r)) = NStops(tt, r)
  BY ActiveRunKey
<1>2. NStops(tt, KeyOf(r)) \in Nat /\ NStops(tt, KeyOf(r)) >= 2
  BY <1>1, KeyRow
<1>3. PICK x, pos, d : r = [route |-> x, pos |-> pos, day |-> d, from |-> 1, to |-> Len(tt.routes[x].stops)]
  BY DEF ActiveRuns
<1>4. r.from = 1 /\ r.to = NStops(tt, r)
  BY <1>3 DEF NStops, StopsOf
<1>5. KeyOf(r) = [route |-> r.route, pos |-> r.pos, day |-> r.day]
  BY DEF KeyOf
<1>6. /\ r.route \in DOMAIN tt.routes /\ r.pos \in Nat /\ r.day \in Int
      /\ r.pos \in DOMAIN tt.routes[r.route].times /\ is_transport_active(tt, KeyOf(r))
  BY <1>1, <1>5 DEF KeysOf
<1>7. r \in [route : DOMAIN tt.routes, pos : Nat, day : Int, from : Nat \ {0}, to : Nat]
  <2>1. r = [route |-> r.route, pos |-> r.pos, day |-> r.day, from |-> r.from, to |-> r.to]
    BY <1>3
  <2> QED
    BY <1>1, <1>2, <1>4, <1>6, <2>1
<1> QED
  BY <1>1, <1>2, <1>4, <1>6, <1>7 DEF RunsOf

\* The two events of a call, or of the run; at its ends they are the same.
LEMMA EventsOfCall ==
  ASSUME IsTimetable(tt), NEW r \in ActiveRuns, NEW i \in 0..NStops(tt, r)
  PROVE  LET events == IF i = 0 THEN {Dep(r.from), Arr(r.to)} ELSE {Arr(i), Dep(i)} \cap EventsOf(tt, r)
         IN  \E e, f \in EventsOf(tt, r) :
               /\ e <= f /\ events = {e, f}
               /\ FirstTime(r, i) = TimeOf(tt, rt, r, e) /\ LastTime(r, i) = TimeOf(tt, rt, r, f)
<1> DEFINE n == NStops(tt, r)
           events == IF i = 0 THEN {Dep(r.from), Arr(r.to)} ELSE {Arr(i), Dep(i)} \cap EventsOf(tt, r)
<1>1. n \in Nat /\ n >= 2 /\ EventsOf(tt, r) = 0..2 * n - 3 /\ r.from = 1 /\ r.to = n
  BY ActiveRunFacts, RunFacts
<1>2. i \in Int /\ 0 <= i /\ i <= n
  BY <1>1
<1> HIDE DEF n
<1>3. CASE i = 0
  <2>1. Dep(r.from) = 0 /\ Arr(r.to) = 2 * n - 3
    BY <1>1 DEF Dep, Arr
  <2>2. events = {0, 2 * n - 3} /\ 0 \in EventsOf(tt, r) /\ 2 * n - 3 \in EventsOf(tt, r) /\ 0 <= 2 * n - 3
    BY <1>1, <1>3, <2>1
  <2>3. FirstTime(r, i) = TimeOf(tt, rt, r, 0) /\ LastTime(r, i) = TimeOf(tt, rt, r, 2 * n - 3)
    BY <1>3, <2>1 DEF FirstTime, LastTime
  <2> QED
    BY <2>2, <2>3
<1>4. CASE i = 1
  <2>1. Dep(i) = 0 /\ Arr(i) = -1 /\ i # n
    BY <1>1, <1>4 DEF Dep, Arr
  <2>2. events = {0} /\ 0 \in EventsOf(tt, r)
    BY <1>1, <1>4, <2>1
  <2>3. FirstTime(r, i) = TimeOf(tt, rt, r, 0) /\ LastTime(r, i) = TimeOf(tt, rt, r, 0)
    BY <1>4, <2>1 DEF FirstTime, LastTime, n
  <2> QED
    BY <2>2, <2>3
<1>5. CASE i > 1 /\ i # n
  <2>1. Dep(i) = 2 * i - 2 /\ Arr(i) = 2 * i - 3
    BY <1>2 DEF Dep, Arr
  <2>2. events = {2 * i - 3, 2 * i - 2} /\ 2 * i - 3 \in EventsOf(tt, r) /\ 2 * i - 2 \in EventsOf(tt, r)
        /\ 2 * i - 3 <= 2 * i - 2
    BY <1>1, <1>2, <1>5, <2>1
  <2>3. FirstTime(r, i) = TimeOf(tt, rt, r, 2 * i - 3) /\ LastTime(r, i) = TimeOf(tt, rt, r, 2 * i - 2)
    BY <1>2, <1>5, <2>1 DEF FirstTime, LastTime, n
  <2> QED
    BY <2>2, <2>3
<1>6. CASE i > 1 /\ i = n
  <2>1. Dep(i) = 2 * n - 2 /\ Arr(i) = 2 * n - 3
    BY <1>2, <1>6 DEF Dep, Arr
  <2>2. events = {2 * n - 3} /\ 2 * n - 3 \in EventsOf(tt, r)
    BY <1>1, <1>2, <1>6, <2>1
  <2>3. FirstTime(r, i) = TimeOf(tt, rt, r, 2 * n - 3) /\ LastTime(r, i) = TimeOf(tt, rt, r, 2 * n - 3)
    BY <1>2, <1>6, <2>1 DEF FirstTime, LastTime, n
  <2> QED
    BY <1>1, <2>2, <2>3
<1> QED
  BY <1>2, <1>3, <1>4, <1>5, <1>6

LEMMA TimesOfRun ==
  ASSUME TypeInv, OrderInv, NEW r \in ActiveRuns, IsTravelled(r),
         NEW e \in EventsOf(tt, r), NEW f \in EventsOf(tt, r), e <= f
  PROVE  TimeOf(tt, rt, r, e) \in Int /\ TimeOf(tt, rt, r, e) <= TimeOf(tt, rt, r, f)
<1>1. IsTimetable(tt)
  BY FeedFacts DEF TypeInv, IsMatchable
<1>2. r \in RunsOf(tt) /\ EventsOf(tt, KeyOf(r)) = EventsOf(tt, r) /\ e \in Int /\ f \in Int
  BY <1>1, ActiveRunFacts, KeyFacts, RunFacts
<1>3. CASE KeyOf(r) \notin DOMAIN rt
  BY <1>1, <1>2, <1>3, RunFacts, ScheduledInOrder DEF TimeOf
<1>4. CASE KeyOf(r) \in DOMAIN rt
  <2> DEFINE d == rt[KeyOf(r)]
  <2>1. d \in RtData(tt, KeyOf(r)) /\ Ordered(d)
    BY <1>4 DEF TypeInv, OrderInv, IsTravelled
  <2>2. d.times \in [EventsOf(tt, r) -> Int]
    BY <1>2, <2>1 DEF RtData
  <2>3. TimeOf(tt, rt, r, e) = d.times[e] /\ TimeOf(tt, rt, r, f) = d.times[f]
    BY <1>4 DEF TimeOf
  <2> HIDE DEF d
  <2>4. d.times[e] \in Int /\ d.times[e] <= d.times[f]
    BY <1>2, <2>1, <2>2 DEF Ordered
  <2> QED
    BY <2>3, <2>4
<1> QED
  BY <1>3, <1>4

LEMMA PeriodFits ==
  ASSUME TypeInv, OrderInv, NEW r \in ActiveRuns, IsTravelled(r), NEW i \in 0..NStops(tt, r),
         NEW al, NEW a, NEW periods \in PeriodSets, al.impact_period[a] = periods
  PROVE  impacts(al, a, FirstTime(r, i), LastTime(r, i) + 1) <=> IsInPeriod(periods, r, i)
<1> DEFINE events == IF i = 0 THEN {Dep(r.from), Arr(r.to)} ELSE {Arr(i), Dep(i)} \cap EventsOf(tt, r)
<1>1. IsTimetable(tt)
  BY FeedFacts DEF TypeInv, IsMatchable
<1>2. PICK e, f \in EventsOf(tt, r) :
        /\ e <= f /\ events = {e, f}
        /\ FirstTime(r, i) = TimeOf(tt, rt, r, e) /\ LastTime(r, i) = TimeOf(tt, rt, r, f)
  BY <1>1, EventsOfCall
<1> DEFINE x == TimeOf(tt, rt, r, e)
           y == TimeOf(tt, rt, r, f)
<1>3. r \in RunsOf(tt) /\ f <= f
  BY <1>1, ActiveRunFacts, RunFacts
<1>4. x \in Int /\ y \in Int /\ x <= y
  BY <1>2, <1>3, TimesOfRun
<1>5. IsInPeriod(periods, r, i) <=>
        periods = {} \/ \E p \in periods : (\E z \in {TimeOf(tt, rt, r, g) : g \in events} : p.from <= z)
                                           /\ (\E z \in {TimeOf(tt, rt, r, g) : g \in events} : z < p.to)
  BY DEF IsInPeriod
<1>6. {TimeOf(tt, rt, r, g) : g \in events} = {x, y}
  <2> HIDE DEF events
  <2> QED
    BY <1>2
<1> HIDE DEF x, y, events
<1>7. \A p \in periods : p.from \in Int /\ p.to \in Int
  BY DEF PeriodSets
<1>8. \A p \in periods : overlaps(p, x, y + 1) <=> (\E z \in {x, y} : p.from <= z) /\ (\E z \in {x, y} : z < p.to)
  BY <1>4, <1>7 DEF overlaps
<1>9. impacts(al, a, FirstTime(r, i), LastTime(r, i) + 1) <=>
        periods = {} \/ \E p \in periods : overlaps(p, x, y + 1)
  BY <1>2 DEF impacts, x, y
<1> QED
  BY <1>5, <1>6, <1>8, <1>9

LEMMA ActiveCall ==
  ASSUME TypeInv, NEW r \in ActiveRuns, NEW i \in 0..NStops(tt, r)
  PROVE  CallAt(r, i) = NoLocation <=> i = 0
<1>1. IsTimetable(tt)
  BY FeedFacts DEF TypeInv, IsMatchable
<1>2. CASE i = 0
  BY <1>2 DEF CallAt
<1>3. CASE i # 0
  <2>1. r \in RunsOf(tt) /\ StopsOf(tt, r) \in [1..NStops(tt, r) -> Stops] /\ NStops(tt, r) \in Nat
    BY <1>1, ActiveRunFacts, RunFacts
  <2>2. i \in 1..NStops(tt, r)
    BY <1>3, <2>1
  <2>3. StopsOf(tt, r)[i].loc # 0
    <3>1. StopsOf(tt, r)[i] \in Stops
      BY <2>1, <2>2
    <3> QED
      BY <3>1 DEF Stops
  <2>4. KeyOf(r) \in DOMAIN rt => rt[KeyOf(r)].stops[i].loc = StopsOf(tt, r)[i].loc
    BY <2>2, KeyFacts DEF TypeInv, RtData
  <2>5. CallAt(r, i) = StopsOf(tt, r)[i].loc
    BY <1>3, <2>4 DEF CallAt, LocationOf
  <2> QED
    BY <1>3, <2>3, <2>5 DEF NoLocation
<1> QED
  BY <1>2, <1>3

(***************************************************************************)
(* The store of alerts in every state, and the theorem.                    *)
(***************************************************************************)
LEMMA FeedAlerts ==
  ASSUME feed \in Feeds, NEW alert \in feed.alerts
  PROVE  /\ alert.kind = "gtfs" => ImpactOf(alert) \in PeriodSets
         /\ alert.kind = "siri" => {alert.publication} \in PeriodSets
<1>1. (IF alert.kind = "siri" THEN {alert.publication} ELSE alert.impact \cup alert.active) \subseteq [from : Int, to : Int]
  BY FeedsAssumption
<1>2. CASE alert.kind = "siri"
  BY <1>1, <1>2 DEF PeriodSets
<1>3. CASE alert.kind # "siri"
  BY <1>1, <1>3 DEF PeriodSets, ImpactOf
<1> QED
  BY <1>2, <1>3

LEMMA StoreOfSiri ==
  ASSUME IsStore(alerts), NEW alert \in feed.alerts, feed \in Feeds, ProcessVdvAlert(alert)
  PROVE  IsStore(alerts')
<1> DEFINE a == NextAlert(alerts)
           S1 == {[key |-> KeyOf(r), l |-> NoLocation, alert |-> a] : r \in AffectedRuns(alert)}
           S2 == {[route |-> x, direction |-> NoDirection, l |-> NoLocation, alert |-> a] :
                     x \in alert.lines \cap Routes(tt)}
           S3 == {[l |-> x, alert |-> a] : x \in alert.stop_places}
           periods == Append(alerts.impact_period, {alert.publication})
<1>1. /\ \A y \in S1 : y.alert = a
      /\ \A y \in S2 : y.alert = a
      /\ \A y \in S3 : y.alert = a
  OBVIOUS
<1>2. alerts' = [[alerts EXCEPT !.rt_transport = @ \cup S1, !.route_id = @ \cup S2, !.location = @ \cup S3]
                  EXCEPT !.impact_period = Append(@, {alert.publication})]
  BY DEF ProcessVdvAlert, affects_alerts
<1>3. {alert.publication} \in PeriodSets
  BY FeedAlerts DEF ProcessVdvAlert
<1>4. /\ alerts.impact_period \in Seq(PeriodSets) /\ Len(alerts.impact_period) \in Nat
      /\ a = Len(alerts.impact_period) + 1
      /\ periods \in Seq(PeriodSets) /\ Len(periods) = a
  BY <1>3 DEF IsStore, NextAlert
<1>5. alerts = [rt_transport |-> alerts.rt_transport, trip |-> alerts.trip, route_id |-> alerts.route_id,
                agency |-> alerts.agency, route_type |-> alerts.route_type, location |-> alerts.location,
                impact_period |-> alerts.impact_period]
  BY DEF IsStore
<1> HIDE DEF S1, S2, S3, a
<1>6. alerts' = [rt_transport |-> alerts.rt_transport \cup S1, trip |-> alerts.trip,
                 route_id |-> alerts.route_id \cup S2, agency |-> alerts.agency,
                 route_type |-> alerts.route_type, location |-> alerts.location \cup S3, impact_period |-> periods]
  BY <1>2, <1>5
<1> HIDE DEF periods
<1>7. \A y \in ListsOf(alerts') : y \in ListsOf(alerts) \/ y \in S1 \/ y \in S2 \/ y \in S3
  BY <1>6 DEF ListsOf
<1>8. \A y \in ListsOf(alerts') : y.alert \in 1..a
  <2>1. \A y \in ListsOf(alerts) : y.alert \in 1..Len(alerts.impact_period)
    BY DEF IsStore
  <2> QED
    BY <1>1, <1>4, <1>7, <2>1
<1> QED
  BY <1>4, <1>6, <1>8 DEF IsStore

LEMMA StoreStep ==
  ASSUME Inv, IsStore(alerts), [Next]_vars
  PROVE  IsStore(alerts')
<1>1. feed \in Feeds
  BY DEF Inv, TypeInv
<1>2. ASSUME UNCHANGED alerts PROVE IsStore(alerts')
  BY <1>2
<1>3. CASE Update
  BY <1>2, <1>3 DEF Update
<1>4. ASSUME NEW alert \in feed.alerts, ProcessVdvAlert(alert)
      PROVE  IsStore(alerts')
  BY <1>1, <1>4, StoreOfSiri
<1>5. ASSUME NEW alert \in feed.alerts, HandleAlert(alert)
      PROVE  IsStore(alerts')
  <2>1. alerts' = handle_alert(tt, alerts, alert) /\ ImpactOf(alert) \in PeriodSets
    BY <1>1, <1>5, FeedAlerts DEF HandleAlert
  <2> QED
    BY <2>1, HandledAlert
<1>6. CASE Tick
  BY <1>2, <1>6 DEF Tick
<1>7. CASE UNCHANGED vars
  BY <1>2, <1>7 DEF vars
<1> QED
  BY <1>3, <1>4, <1>5, <1>6, <1>7 DEF Next

LEMMA InitStore ==
  ASSUME Init
  PROVE  IsStore(alerts)
<1>1. alerts = no_alerts
  BY DEF Init
<1>2. IsStore(no_alerts)
  BY DEF IsStore, ListsOf, no_alerts
<1> QED
  BY <1>1, <1>2

\* The entities of all alerts of GTFS-RT are consistent in themselves.
EntitiesAgree ==
  \A f \in Feeds : \A alert \in f.alerts : alert.kind = "gtfs" => \A e \in alert.entities : Agrees(f.tt, e)

LEMMA AlertIsFound ==
  ASSUME EntitiesAgree, Inv, OrderInv, IsStore(alerts),
         NEW alert \in feed.alerts, alert.kind = "gtfs",
         NEW stored, stored = handle_alert(tt, alerts, alert),
         NEW r \in ActiveRuns, IsTravelled(r), NEW fuzzy \in BOOLEAN,
         NEW t \in DOMAIN tt.trips, tt.trips[t].route = r.route, tt.trips[t].pos = r.pos,
         NEW i \in 0..NStops(tt, r)
  PROVE  NextAlert(alerts) \in get_alerts(tt, rt, stored, t, r, i, fuzzy) <=>
           /\ \E e \in alert.entities : Selects(e, t, r, i, fuzzy)
           /\ IsInPeriod(ImpactOf(alert), r, i)
<1> DEFINE a == NextAlert(alerts)
           l == CallAt(r, i)
           periods == ImpactOf(alert)
<1>1. TypeInv /\ feed \in Feeds
  BY DEF Inv, TypeInv
<1>2. IsMatchable(tt) /\ periods \in PeriodSets
  BY <1>1, FeedFacts, FeedAlerts
<1>3. \A e \in alert.entities : Agrees(tt, e)
  BY <1>1 DEF EntitiesAgree, tt
<1>4. l = NoLocation <=> i = 0
  BY <1>1, ActiveCall
<1>5. a \in get_alerts(tt, rt, stored, t, r, i, fuzzy) <=>
        /\ \E y : IsLookedUp(stored, t, r, l, fuzzy, y) /\ y.alert = a
        /\ impacts(stored, a, FirstTime(r, i), LastTime(r, i) + 1)
  BY FoundAlerts
<1>6. (\E y : IsLookedUp(stored, t, r, l, fuzzy, y) /\ y.alert = a) <=>
        \E e \in alert.entities : \E y : IsLookedUp(Registered(tt, e, a), t, r, l, fuzzy, y)
  BY <1>2, LookedUpByEntity
<1>7. \A e \in alert.entities :
        (\E y : IsLookedUp(Registered(tt, e, a), t, r, l, fuzzy, y)) <=> Selects(e, t, r, i, fuzzy)
  BY <1>2, <1>3, <1>4, EntityLookedUp
<1>8. ASSUME NEW e \in alert.entities, NEW y, IsLookedUp(Registered(tt, e, a), t, r, l, fuzzy, y)
      PROVE  stored.impact_period[a] = periods
  <2>1. ~IsLookedUp(no_alerts, t, r, l, fuzzy, y)
    BY DEF IsLookedUp, no_alerts
  <2>2. Registered(tt, e, a) # no_alerts
    BY <1>8, <2>1
  <2> QED
    BY <1>2, <2>2, HandledAlert
<1>9. stored.impact_period[a] = periods =>
        (impacts(stored, a, FirstTime(r, i), LastTime(r, i) + 1) <=> IsInPeriod(periods, r, i))
  BY <1>1, <1>2, PeriodFits
<1> HIDE DEF a, l, periods
<1>10. a \in get_alerts(tt, rt, stored, t, r, i, fuzzy) <=>
         (\E e \in alert.entities : Selects(e, t, r, i, fuzzy)) /\ IsInPeriod(periods, r, i)
  BY <1>5, <1>6, <1>7, <1>8, <1>9
<1> QED
  BY <1>10 DEF a, periods

(***************************************************************************)
(* An alert of GTFS-RT is found for a trip at a stop, or for all of it,    *)
(* exactly if one of its entities selects them and its period covers the   *)
(* time of the call, delays included, for every timetable, every run that  *)
(* is not cancelled and whatever messages and alerts came before: the      *)
(* entry in one list (handle_alert) and the look-up in all of them         *)
(* (get_alerts) agree. Entities have to be consistent: what is named       *)
(* besides the first selector is not read.                                 *)
(***************************************************************************)
THEOREM AlertsAreFound ==
  ASSUME AlertsInside, EntitiesAgree
  PROVE  Spec => []AlertsFound
<1> DEFINE All == Inv /\ OrderInv /\ IsStore(alerts)
<1>1. Init => All
  BY InitInv, InitStore
<1>2. All /\ [Next]_vars => All'
  <2>1. IsStore(alerts)' <=> IsStore(alerts')
    BY DEF IsStore, ListsOf
  <2> QED
    BY <2>1, StepInv, StoreStep
<1>3. All => AlertsFound
  BY AlertIsFound DEF AlertsFound
<1> QED
  BY <1>1, <1>2, <1>3, PTL DEF Spec

=============================================================================
