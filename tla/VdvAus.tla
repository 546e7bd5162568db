------------------------------- MODULE VdvAus -------------------------------
(***************************************************************************)
(* struct updater of vdv_aus.cc: messages on runs are matched once and     *)
(* remembered by their id; they update the real-time data of the runs or   *)
(* cancel them. Alerts are registered for the runs that an id was matched  *)
(* to. Ids that were not asked for in kMatchRetention are forgotten, every *)
(* kCleanUpInterval at most. GTFS-RT alerts share the store of alerts.     *)
(*                                                                         *)
(* A feed is a timetable, the messages and the alerts that may come, in    *)
(* any order and any number of times. A document with several messages is  *)
(* the same as one document for each of them. Messages on additional runs  *)
(* and stops are not supported by the code and are ignored there.          *)
(***************************************************************************)
EXTENDS Transports, Locations, SequencesExt

(***************************************************************************)
(* Runs in messages of VDV-454 AUS and SIRI ET: which runs of the          *)
(* timetable a message is about (updater::match_run), and what it changes  *)
(* of one of them (updater::update_run).                                   *)
(*                                                                         *)
(* A timetable tt has locations (see Locations; eq_order is the order of   *)
(* the equivalences), routes (see Transports; with stops) and trips. A run *)
(* is [route, pos, day, from, to]: a transport on a day and the first and  *)
(* the last of its stops, which are numbered from 1. What a message says   *)
(* of a stop is                                                            *)
(*   [l, arr, dep, rt_arr, rt_dep, in_forbidden, out_forbidden, passing,   *)
(*    arr_canceled, dep_canceled, recorded]                                *)
(* with NoTime for what is missing and location 0 for one that is not      *)
(* known. Platforms are texts that are stored along and are left out.      *)
(***************************************************************************)

CONSTANTS
  LastDay,         \* days of the timetable: 0..LastDay
  RtFrom, RtTo     \* rt_interval(): RtFrom <= t < RtTo

ASSUME RtIntervalAssumption == RtFrom \in Nat /\ RtTo \in Nat /\ RtFrom < RtTo

kExactMatchScore == 230
kAllowedTimeDiscrepancy == 15   \* the largest error of a score above 0
NoTime == -1

Larger(a, b) == IF a > b THEN a ELSE b
Smaller(a, b) == IF a < b THEN a ELSE b
Distance(a, b) == IF a < b THEN b - a ELSE a - b

Dep(i) == 2 * (i - 1)
Arr(i) == 2 * (i - 1) - 1
StopsOf(tt, r) == tt.routes[r.route].stops
NStops(tt, r) == Len(StopsOf(tt, r))
EventsOf(tt, r) == DOMAIN tt.routes[r.route].times[r.pos]
scheduled_time(tt, r, e) == EventTime(tt.routes[r.route], r.pos, r.day, e)

\* A run without its stop range: transport and day.
KeyOf(r) == [route |-> r.route, pos |-> r.pos, day |-> r.day]
is_transport_active(tt, k) == k.day \in tt.routes[k.route].days[k.pos]

-----------------------------------------------------------------------------
(***************************************************************************)
(* match_run                                                               *)
(***************************************************************************)

\* The planned event that is compared at stop i of n: a departure if any.
PlannedEvent(v, n, i) ==
  IF v.dep # NoTime /\ i # n THEN [time |-> v.dep, e |-> Dep(i)]
  ELSE IF v.arr # NoTime /\ i # 1 THEN [time |-> v.arr, e |-> Arr(i)]
  ELSE [time |-> NoTime, e |-> 0]

internal_interval(t) == 0 <= t /\ t < (LastDay + 1) * DayLength

\* Mutant: the day is shifted the other way.
mam_dist_Back(a, b) ==
  LET abs == Distance(a, b)
  IN  IF 2 * abs > DayLength THEN [error |-> DayLength - abs, day_shift |-> IF a < b THEN 1 ELSE -1]
      ELSE [error |-> abs, day_shift |-> 0]
\* The distance of two times of the day, and whether midnight is in between.
mam_dist(a, b) ==
  LET abs == Distance(a, b)
  IN  IF 2 * abs > DayLength THEN [error |-> DayLength - abs, day_shift |-> IF a < b THEN -1 ELSE 1]
      ELSE [error |-> abs, day_shift |-> 0]

local_score(error) == kExactMatchScore - error * error

\* Where a location is called at: route and stop.
Calls(tt, l) ==
  UNION {{[r |-> r, i |-> i] : i \in {i \in DOMAIN tt.routes[r].stops : tt.routes[r].stops[i].loc = l}} :
           r \in DOMAIN tt.routes}

(***************************************************************************)
(* The runs that are at the stop at about the time, with the position of   *)
(* the location among those that are equivalent to the stop.               *)
(***************************************************************************)
HitsAt(tt, v, x, c) ==
  LET route == tt.routes[c.r]
      ev == PlannedEvent(v, Len(route.stops), c.i)
      at(pos) == route.times[pos][ev.e]
      dist(pos) == mam_dist(mam(ev.time), mam(at(pos)))
      hit(pos) == [key |-> [route |-> c.r, pos |-> pos,
                            day |-> days(ev.time) - (days(at(pos)) - dist(pos).day_shift)],
                   x |-> x, i |-> c.i, score |-> local_score(dist(pos).error)]
  IN  IF ev.time = NoTime \/ ~internal_interval(ev.time) THEN {}
      ELSE {hit(pos) : pos \in {pos \in DOMAIN route.times : dist(pos).error <= kAllowedTimeDiscrepancy}}

Hits(tt, v) ==
  IF v.l = NoLocation THEN {}
  ELSE {h \in UNION {UNION {HitsAt(tt, v, x, c) : c \in Calls(tt, tt.eq_order[v.l][x])} :
                       x \in DOMAIN tt.eq_order[v.l]} :
          is_transport_active(tt, h.key)}

ScannedBefore(a, b) == a.x < b.x \/ (a.x = b.x /\ a.i <= b.i)

(***************************************************************************)
(* A candidate starts at the stop it was found at first; what is before    *)
(* that stop does not count.  Each stop of the message adds its best score.*)
(***************************************************************************)
AddStop(tt, candidates, v) ==
  LET hits == Hits(tt, v)
      of(k) == {h \in hits : h.key = k}
      first(k) == CHOOSE h \in of(k) : \A g \in of(k) : ScannedBefore(h, g)
      from(k) == IF k \in DOMAIN candidates THEN candidates[k].from ELSE first(k).i
      scores(k) == {h.score : h \in {h \in of(k) : h.i >= from(k)}} \cup {0}
      best(k) == CHOOSE s \in scores(k) : \A x \in scores(k) : s >= x
      before(k) == IF k \in DOMAIN candidates THEN candidates[k].score ELSE 0
  IN  [k \in DOMAIN candidates \cup {h.key : h \in hits} |->
         [from |-> from(k), score |-> before(k) + best(k)]]

\* What has to be reached: half of the full score, more for a part of a run.
IsEnough(score, n, complete) == score * 10 > n * kExactMatchScore * (IF complete THEN 5 ELSE 7)

best_matches(tt, candidates, n, complete) ==
  LET best == CHOOSE s \in {candidates[k].score : k \in DOMAIN candidates} :
                \A k \in DOMAIN candidates : s >= candidates[k].score
      Whole(k) == [route |-> k.route, pos |-> k.pos, day |-> k.day,
                   from |-> candidates[k].from, to |-> Len(tt.routes[k.route].stops)]
  IN  IF DOMAIN candidates = {} \/ ~IsEnough(best, n, complete) THEN {}
      ELSE {Whole(k) : k \in {k \in DOMAIN candidates : candidates[k].score * 1000 > best * 975}}

\* A trip id and a service date name the run.
resolve_static_trip_id(tt, trip, date) ==
  IF trip \notin DOMAIN tt.trips THEN {}
  ELSE {r \in {[tt.trips[trip] EXCEPT !.day = date]} : is_transport_active(tt, KeyOf(r))}

\* The candidates after each of the stops of the message.
CandidatesAt(tt, vs) ==
  LET candidates[x \in 0..Len(vs)] == IF x = 0 THEN <<>> ELSE AddStop(tt, candidates[x - 1], vs[x])
  IN  candidates

match_run(tt, m) ==
  LET named == resolve_static_trip_id(tt, m.trip, m.date)
      candidates == CandidatesAt(tt, m.stops)[Len(m.stops)]
  IN  IF named # {} THEN named ELSE best_matches(tt, candidates, Len(m.stops), m.complete)

-----------------------------------------------------------------------------
(***************************************************************************)
(* The real-time data of a run: times and states of its events, its stops, *)
(* and whether it is cancelled.                                            *)
(***************************************************************************)
rt_interval(t) == RtFrom <= t /\ t < RtTo

\* unix_to_delta clamps what it cannot represent.
clamp_delta(t) == Larger(RtFrom - 1, Smaller(RtTo, t))

is_in_rt_interval(tt, r) ==
  LET inner(t) == RtFrom + DayLength <= t /\ t < RtTo - DayLength
  IN  inner(scheduled_time(tt, r, Dep(1))) /\ inner(scheduled_time(tt, r, Arr(NStops(tt, r))))

add_rt_transport(tt, r) ==
  [times |-> [e \in EventsOf(tt, r) |-> clamp_delta(scheduled_time(tt, r, e))],
   states |-> [e \in EventsOf(tt, r) |-> "kNoRtData"],
   stops |-> StopsOf(tt, r), cancelled |-> FALSE]

is_cancelled(stp) == ~stp.in /\ ~stp.out

Write(rt, e, t, state) ==
  IF rt_interval(t) THEN [rt EXCEPT !.times[e] = t, !.states[e] = state] ELSE rt

-----------------------------------------------------------------------------
(***************************************************************************)
(* update_run goes over the stops of the run, with a cursor in the stops   *)
(* of the message, the delay that was seen last and the stops since the    *)
(* last match: w = [rt, cursor, delay, unmatched].                         *)
(***************************************************************************)
NoDelay == [known |-> FALSE, value |-> 0]

ArrMatches(tt, r, i, v) ==
  /\ i # 1 /\ v.arr # NoTime
  /\ Distance(v.arr, scheduled_time(tt, r, Arr(i))) <= kAllowedTimeDiscrepancy
DepMatches(tt, r, i, v) ==
  /\ i # r.to /\ v.dep # NoTime
  /\ Distance(v.dep, scheduled_time(tt, r, Dep(i))) <= kAllowedTimeDiscrepancy

StopMatches(tt, r, w, i, v) ==
  /\ v.l # NoLocation /\ matches(tt, "equivalent", w.rt.stops[i].loc, v.l)
  /\ ArrMatches(tt, r, i, v) \/ DepMatches(tt, r, i, v)

\* An event at the time that is told; its delay is carried on to what follows.
update_event(tt, r, w, e, t, v) ==
  IF t = NoTime \/ ~rt_interval(t) THEN w
  ELSE [w EXCEPT !.rt = Write(@, e, t, IF v.recorded THEN "kObserved" ELSE "kPredicted"),
                 !.delay = [known |-> TRUE, value |-> t - scheduled_time(tt, r, e)]]

change_stop(tt, r, rt, i, v) ==
  LET in == ~v.in_forbidden /\ ~v.passing /\ ~v.dep_canceled
      out == ~v.out_forbidden /\ ~v.passing /\ ~v.arr_canceled
      planned == StopsOf(tt, r)[i]
  IN  [rt EXCEPT !.stops[i] = [loc |-> @.loc, in |-> in, out |-> out,
                               in_wheelchair |-> planned.in_wheelchair /\ in,
                               out_wheelchair |-> planned.out_wheelchair /\ out]]

ApplyStop(tt, r, w, i, v) ==
  LET arrived == IF ArrMatches(tt, r, i, v) THEN update_event(tt, r, w, Arr(i), v.rt_arr, v) ELSE w
      left == IF DepMatches(tt, r, i, v) THEN update_event(tt, r, arrived, Dep(i), v.rt_dep, v) ELSE arrived
  IN  [left EXCEPT !.rt = change_stop(tt, r, @, i, v)]

EventsAt(i, last) == {e \in {Arr(i), Dep(i)} : e >= 0 /\ (e = Dep(i) => i # last)}

\* Mutant: the delay is added to what is known already.
propagate_delay_Again(tt, r, w, events) ==
  IF ~w.delay.known THEN w
  ELSE [w EXCEPT !.rt.times = [e \in DOMAIN @ |->
                                 IF e \in events /\ rt_interval(@[e] + w.delay.value)
                                 THEN @[e] + w.delay.value ELSE @[e]]]
\* The events at a stop that the message has no time for.
propagate_delay(tt, r, w, events) ==
  LET late(e) == scheduled_time(tt, r, e) + w.delay.value
      written == {e \in events : w.delay.known /\ rt_interval(late(e))}
  IN  [w EXCEPT !.rt.times = [e \in DOMAIN @ |-> IF e \in written THEN late(e) ELSE @[e]],
                !.rt.states = [e \in DOMAIN @ |-> IF e \in written THEN "kPropagated" ELSE @[e]]]

set_unmatched_stops_inconsistent(r, w) ==
  LET events == UNION {EventsAt(i, r.to) : i \in w.unmatched}
  IN  [w EXCEPT !.rt.states = [e \in DOMAIN @ |-> IF e \in events THEN "kInconsistent" ELSE @[e]]]

update_stop(tt, r, vs, w, i) ==
  LET ks == {k \in w.cursor..Len(vs) : StopMatches(tt, r, w, i, vs[k])}
      k == CHOOSE x \in ks : \A y \in ks : x <= y
      applied == ApplyStop(tt, r, w, i, vs[k])
      told == {e \in EventsAt(i, r.to) : IF e = Dep(i) THEN DepMatches(tt, r, i, vs[k])
                                                       ELSE ArrMatches(tt, r, i, vs[k])}
      moved == propagate_delay(tt, r, applied, EventsAt(i, r.to) \ told)
      checked == IF k > w.cursor THEN set_unmatched_stops_inconsistent(r, moved) ELSE moved
      passed == propagate_delay(tt, r, w, EventsAt(i, r.to))
  IN  IF ks # {} THEN [checked EXCEPT !.cursor = k + 1, !.unmatched = {}]
      ELSE IF w.delay.known THEN [passed EXCEPT !.unmatched = @ \cup {i}]
      ELSE w

-----------------------------------------------------------------------------
CancelStop(stp) ==
  [loc |-> stp.loc, in |-> FALSE, out |-> FALSE, in_wheelchair |-> FALSE, out_wheelchair |-> FALSE]

handle_first_last_cancelation(r, rt) ==
  LET first == IF rt.stops[r.from].in THEN rt ELSE [rt EXCEPT !.stops[r.from] = CancelStop(@)]
  IN  IF first.stops[r.to].out THEN first ELSE [first EXCEPT !.stops[r.to] = CancelStop(@)]

\* Mutant: only the departures are looked at.
monotonize_Departures(rt) ==
  LET bound(e) == LET later == {rt.times[f] : f \in {f \in DOMAIN rt.times : f >= e /\ f % 2 = 0}}
                  IN  IF later = {} THEN rt.times[e] ELSE CHOOSE t \in later : \A x \in later : t <= x
  IN  [rt EXCEPT !.times = [e \in DOMAIN @ |-> bound(e)]]
\* Backwards: no event later than one that follows it.
monotonize(rt) ==
  LET later(e) == {rt.times[f] : f \in {f \in DOMAIN rt.times : f >= e}}
      bound(e) == CHOOSE t \in later(e) : \A x \in later(e) : t <= x
      lowered == {e \in DOMAIN rt.times : bound(e) # rt.times[e] /\ rt_interval(bound(e))}
  IN  [rt EXCEPT !.times = [e \in DOMAIN @ |-> IF e \in lowered THEN bound(e) ELSE @[e]],
                 !.states = [e \in DOMAIN @ |-> IF e \in lowered THEN "kInconsistent" ELSE @[e]]]

\* Mutant: what was cancelled remains cancelled.
revive_Never(before) == before
\* A message that does not cancel the run revives it.
revive(before) == [before EXCEPT !.cancelled = FALSE]

\* The walk over the stops: begin, and after each of them. What is known of
\* run r before the message is before.
Walk(tt, r, before, vs) ==
  LET begin == [rt |-> revive(before), cursor |-> 1, delay |-> NoDelay, unmatched |-> {}]
      walk[x \in 0..r.to - r.from + 1] ==
        IF x = 0 THEN begin ELSE update_stop(tt, r, vs, walk[x - 1], r.from + x - 1)
  IN  walk

\* What follows the walk over all stops.
Finish(r, walked, vs) ==
  LET checked == IF walked.cursor <= Len(vs) THEN set_unmatched_stops_inconsistent(r, walked) ELSE walked
      rt == handle_first_last_cancelation(r, checked.rt)
  IN  IF Cardinality({i \in DOMAIN rt.stops : ~is_cancelled(rt.stops[i])}) <= 1
      THEN [rt EXCEPT !.cancelled = TRUE]
      ELSE monotonize(rt)

update_run(tt, r, before, vs) == Finish(r, Walk(tt, r, before, vs)[r.to - r.from + 1], vs)

-----------------------------------------------------------------------------
(***************************************************************************)
(* struct alerts: which alerts there are and where they are registered,    *)
(* for GTFS-RT (handle_alert) and SIRI SX (process_vdv_alert), and which   *)
(* of them are shown for a run or one of its stops (get_alerts).           *)
(*                                                                         *)
(* Alerts are numbered from 1. What an alert is about is registered under  *)
(* the first selector it names: a trip or an RT transport, a route, an     *)
(* agency, a type of route or a location; each with a location, or 0.      *)
(* A timetable tt also has, for each of its trips, its route_id,           *)
(* direction, agency and route_type in tt.info. Texts, causes and effects  *)
(* are stored along and are left out.                                      *)
(***************************************************************************)

Unknown == -1        \* a stop id that is not in the timetable
NoId == ""
NoDirection == -1
NoKey == [route |-> 0, pos |-> 0, day |-> 0]   \* transport::invalid()

no_alerts == [rt_transport |-> {}, trip |-> {}, route_id |-> {}, agency |-> {},
              route_type |-> {}, location |-> {}, impact_period |-> <<>>]

\* Periods are [from, to); an alert without any has an impact at all times.
overlaps(p, from, to) == p.from < to /\ from < p.to
impacts(alerts, a, from, to) ==
  \/ alerts.impact_period[a] = {}
  \/ \E p \in alerts.impact_period[a] : overlaps(p, from, to)

-----------------------------------------------------------------------------
(***************************************************************************)
(* handle_alert: an informed entity e is                                   *)
(*   [stop, trip, date, route, direction, agency, type]                    *)
(***************************************************************************)
IsUsable(e) == e.stop # Unknown /\ ~(e.direction # NoDirection /\ e.route = NoId)

\* A trip id on all days, or on the day that is given too.
TripsOf(tt, e) ==
  IF e.date = NoTime THEN {[trip |-> e.trip, key |-> NoKey] : x \in {e.trip} \cap DOMAIN tt.trips}
  ELSE {[trip |-> e.trip, key |-> KeyOf(r)] : r \in resolve_static_trip_id(tt, e.trip, e.date)}

TripRefs(tt, e, a) ==
  {[trip |-> x.trip, l |-> e.stop, alert |-> a, key |-> x.key] : x \in TripsOf(tt, e)}

Routes(tt) == {tt.info[t].route_id : t \in DOMAIN tt.info}
Agencies(tt) == {tt.info[t].agency : t \in DOMAIN tt.info}

\* Where the entity is registered, as alerts with only that.
Registered(tt, e, a) ==
  IF ~IsUsable(e) THEN no_alerts
  ELSE IF e.trip # NoId THEN [no_alerts EXCEPT !.trip = TripRefs(tt, e, a)]
  ELSE IF e.route # NoId
  THEN [no_alerts EXCEPT
          !.route_id = {[route |-> e.route, direction |-> e.direction, l |-> e.stop, alert |-> a] :
                          x \in {e.route} \cap Routes(tt)}]
  ELSE IF e.agency # NoId
  THEN [no_alerts EXCEPT
          !.agency = {[agency |-> e.agency, type |-> e.type, l |-> e.stop, alert |-> a] :
                        x \in {e.agency} \cap Agencies(tt)}]
  ELSE IF e.type # 0 THEN [no_alerts EXCEPT !.route_type = {[type |-> e.type, l |-> e.stop, alert |-> a]}]
  ELSE IF e.stop # NoLocation THEN [no_alerts EXCEPT !.location = {[l |-> e.stop, alert |-> a]}]
  ELSE no_alerts

NextAlert(alerts) == Len(alerts.impact_period) + 1

\* Impact periods, if any are given, or else the active ones.
ImpactOf(alert) == IF alert.impact # {} THEN alert.impact ELSE alert.active

\* An alert none of whose entities is known is not stored.
handle_alert(tt, alerts, alert) ==
  LET a == NextAlert(alerts)
      found == {Registered(tt, e, a) : e \in alert.entities} \ {no_alerts}
  IN  IF found = {} THEN alerts
      ELSE [rt_transport |-> alerts.rt_transport,
            trip |-> alerts.trip \cup UNION {x.trip : x \in found},
            route_id |-> alerts.route_id \cup UNION {x.route_id : x \in found},
            agency |-> alerts.agency \cup UNION {x.agency : x \in found},
            route_type |-> alerts.route_type \cup UNION {x.route_type : x \in found},
            location |-> alerts.location \cup UNION {x.location : x \in found},
            impact_period |-> Append(alerts.impact_period, ImpactOf(alert))]

-----------------------------------------------------------------------------
(***************************************************************************)
(* get_alerts for trip t on run r, at stop i or, with i = 0, for the run.  *)
(* fuzzy: an alert without a location is about each stop, too.             *)
(***************************************************************************)
MatchesLocation(tt, l, fuzzy, x) ==
  LET parent == IF l = NoLocation THEN NoLocation ELSE tt.parents[l]
      grandparent == IF parent = NoLocation THEN NoLocation ELSE tt.parents[parent]
  IN  \/ x = l
      \/ fuzzy /\ x = NoLocation
      \/ x # NoLocation /\ x \in {parent, grandparent}

\* Mutant: the direction is not compared.
by_route_id_AnyDirection(tt, alerts, t) ==
  {x \in alerts.route_id : x.route = tt.info[t].route_id}
by_route_id(tt, alerts, t) ==
  {x \in alerts.route_id : /\ x.route = tt.info[t].route_id
                           /\ x.direction \in {NoDirection, tt.info[t].direction}}

\* rt: the real-time data of the runs that have any.
TimeOf(tt, rt, r, e) == IF KeyOf(r) \in DOMAIN rt THEN rt[KeyOf(r)].times[e] ELSE scheduled_time(tt, r, e)
LocationOf(tt, rt, r, i) == IF KeyOf(r) \in DOMAIN rt THEN rt[KeyOf(r)].stops[i].loc ELSE StopsOf(tt, r)[i].loc

get_alerts(tt, rt, alerts, t, r, i, fuzzy) ==
  LET from == TimeOf(tt, rt, r, IF i > 1 THEN Arr(i) ELSE Dep(IF i = 0 THEN r.from ELSE 1))
      to == TimeOf(tt, rt, r, IF i = 0 THEN Arr(r.to) ELSE IF i # NStops(tt, r) THEN Dep(i) ELSE Arr(i))
      l == IF i = 0 THEN NoLocation ELSE LocationOf(tt, rt, r, i)
      info == tt.info[t]
      found ==
        {x \in alerts.rt_transport : x.key = KeyOf(r) /\ KeyOf(r) \in DOMAIN rt}
          \cup {x \in alerts.trip : x.trip = t /\ x.key \in {NoKey, KeyOf(r)}}
          \cup by_route_id(tt, alerts, t)
          \cup {x \in alerts.agency : x.agency = info.agency /\ x.type \in {0, info.route_type}}
          \cup {x \in alerts.route_type : x.type = info.route_type}
      near == {x.alert : x \in {x \in found : MatchesLocation(tt, l, fuzzy, x.l)}}
                \cup {x.alert : x \in {x \in alerts.location :
                                         l # NoLocation /\ x.l \in {l, tt.parents[l]} \ {NoLocation}}}
  IN  {a \in near : impacts(alerts, a, from, to + 1)}

-----------------------------------------------------------------------------
CONSTANTS
  Feeds,             \* the feeds to check, [tt, messages, alerts]
  kCleanUpInterval, kMatchRetention,
  MaxNow,            \* bound: how long the clock runs
  MaxAlerts          \* bound: how many alerts are stored

\* The times of a transport are in order, as feeds have to give them (the
\* GTFS loader asserts it where it joins trips, seated.cc).
IsRoute(r) ==
  /\ r.stops \in Seq([loc : Nat \ {0}, in : BOOLEAN, out : BOOLEAN,
                       in_wheelchair : BOOLEAN, out_wheelchair : BOOLEAN])
  /\ Len(r.stops) >= 2
  /\ r.times \in Seq([0..2 * Len(r.stops) - 3 -> Int])
  /\ \A pos \in DOMAIN r.times : \A e, f \in DOMAIN r.times[pos] :
       e <= f => r.times[pos][e] <= r.times[pos][f]
  /\ r.days \in [DOMAIN r.times -> SUBSET Int]

IsTrip(routes, t) ==
  /\ t \in [route : DOMAIN routes, pos : Nat, day : Int, from : Nat \ {0}, to : Nat]
  /\ t.pos \in DOMAIN routes[t.route].times
  /\ t.from <= t.to /\ t.to <= Len(routes[t.route].stops)

ASSUME FeedsAssumption ==
  \A f \in Feeds :
    /\ \A x \in DOMAIN f.tt.routes : IsRoute(f.tt.routes[x])
    /\ \A t \in DOMAIN f.tt.trips : IsTrip(f.tt.routes, f.tt.trips[t])
    /\ DOMAIN f.tt.trips \subseteq DOMAIN f.tt.info
    /\ DOMAIN f.tt.eq_order \subseteq Nat
    /\ \A l \in DOMAIN f.tt.eq_order :
         /\ f.tt.eq_order[l] \in Seq(Nat)
         /\ {f.tt.eq_order[l][x] : x \in DOMAIN f.tt.eq_order[l]} = f.tt.equivalences[l]
    /\ \A m \in f.messages :
         m.stops \in Seq([l : {NoLocation} \cup DOMAIN f.tt.eq_order,
                          arr : Int, dep : Int, rt_arr : Int, rt_dep : Int,
                          in_forbidden : BOOLEAN, out_forbidden : BOOLEAN, passing : BOOLEAN,
                          arr_canceled : BOOLEAN, dep_canceled : BOOLEAN, recorded : BOOLEAN])
    /\ \A a \in f.alerts :
         (IF a.kind = "siri" THEN {a.publication} ELSE a.impact \cup a.active) \subseteq [from : Int, to : Int]

VARIABLES
  feed,
  matches_,      \* for each id: the runs, only_saw_incomplete_, last_accessed_
  rt,            \* the real-time data of the runs that have an RT transport
  off,           \* runs whose day is switched off in the static timetable
  alerts,
  now, last_cleanup,
  last           \* the last message, and what its runs were

tt == feed.tt
vars == <<feed, matches_, rt, off, alerts, now, last_cleanup, last>>

NoMessage == [id |-> NoId]

Init ==
  /\ feed \in Feeds
  /\ matches_ = <<>> /\ rt = <<>> /\ off = {} /\ alerts = no_alerts
  /\ now = 0 /\ last_cleanup = 0 /\ last = NoMessage

-----------------------------------------------------------------------------
(***************************************************************************)
(* clean_up, at the begin of update                                        *)
(***************************************************************************)
IsCleanUp == now - last_cleanup > kCleanUpInterval

matches_kept ==
  LET kept == {id \in DOMAIN matches_ : ~IsCleanUp \/ now - matches_[id].last_accessed <= kMatchRetention}
  IN  [id \in kept |-> matches_[id]]

-----------------------------------------------------------------------------
(***************************************************************************)
(* process_vdv_run                                                         *)
(***************************************************************************)
\* Matched if it is new, and again when it is complete for the first time.
NeedsMatch(known, m) ==
  m.id \notin DOMAIN known \/ (m.complete /\ known[m.id].only_saw_incomplete)

runs_of(known, m) == IF NeedsMatch(known, m) THEN match_run(tt, m) ELSE known[m.id].runs

\* The RT transport of a run, which is added if there is none.
RtOf(r) == IF KeyOf(r) \in DOMAIN rt THEN rt[KeyOf(r)] ELSE add_rt_transport(tt, r)

IsUpdated(r) == KeyOf(r) \in DOMAIN rt \/ is_in_rt_interval(tt, r)

cancel_runs(runs) ==
  /\ rt' = [k \in DOMAIN rt |-> IF k \in {KeyOf(r) : r \in runs} THEN [rt[k] EXCEPT !.cancelled = TRUE] ELSE rt[k]]
  /\ off' = off \cup {KeyOf(r) : r \in runs}

Updated(runs, m) ==
  LET now_rt == {KeyOf(r) : r \in runs}
      run(k) == CHOOSE r \in runs : KeyOf(r) = k
  IN  [k \in DOMAIN rt \cup now_rt |-> IF k \in now_rt THEN update_run(tt, run(k), RtOf(run(k)), m.stops) ELSE rt[k]]

\* No id or no stops: nothing is done.
IgnoreMessage(m) ==
  /\ m.id = NoId \/ m.stops = <<>>
  /\ matches_' = matches_kept
  /\ UNCHANGED <<rt, off, last>>

ProcessRun(m) ==
  /\ m.id # NoId /\ m.stops # <<>>
  /\ \E runs \in {runs_of(matches_kept, m)} :
       /\ matches_' =
            [id \in DOMAIN matches_kept \cup {m.id} |->
               IF id = m.id
               THEN [runs |-> runs, last_accessed |-> now,
                     only_saw_incomplete |->
                       ~m.complete /\ (id \notin DOMAIN matches_kept \/ matches_kept[id].only_saw_incomplete)]
               ELSE matches_kept[id]]
       /\ IF m.cancelled THEN cancel_runs(runs)
          ELSE \E updated \in {{r \in runs : IsUpdated(r)}} :
                 /\ rt' = Updated(updated, m)
                 /\ off' = off \cup {KeyOf(r) : r \in updated}
       /\ last' = [id |-> m.id, m |-> m, runs |-> runs]

CleanUp == last_cleanup' = IF IsCleanUp THEN now ELSE last_cleanup

Update ==
  /\ \E m \in feed.messages : IgnoreMessage(m) \/ ProcessRun(m)
  /\ CleanUp
  /\ UNCHANGED <<feed, alerts, now>>

-----------------------------------------------------------------------------
(***************************************************************************)
(* process_vdv_alert                                                       *)
(***************************************************************************)
\* The runs of ids that have been seen; they get an RT transport.
AffectedRuns(alert) == UNION {matches_kept[id].runs : id \in alert.ids \cap DOMAIN matches_kept}

affects_alerts(alert, a) ==
  [alerts EXCEPT
     !.rt_transport = @ \cup {[key |-> KeyOf(r), l |-> NoLocation, alert |-> a] : r \in AffectedRuns(alert)},
     !.route_id = @ \cup {[route |-> x, direction |-> NoDirection, l |-> NoLocation, alert |-> a] :
                            x \in alert.lines \cap Routes(tt)},
     !.location = @ \cup {[l |-> x, alert |-> a] : x \in alert.stop_places}]

ProcessVdvAlert(alert) ==
  /\ alert.kind = "siri" /\ Len(alerts.impact_period) < MaxAlerts
  /\ alerts' = [affects_alerts(alert, NextAlert(alerts)) EXCEPT
                  !.impact_period = Append(@, {alert.publication})]
  /\ LET keys == {KeyOf(r) : r \in AffectedRuns(alert)}
         run(k) == CHOOSE r \in AffectedRuns(alert) : KeyOf(r) = k
     IN  /\ rt' = [k \in DOMAIN rt \cup keys |-> IF k \in DOMAIN rt THEN rt[k] ELSE add_rt_transport(tt, run(k))]
         /\ off' = off \cup keys
  /\ matches_' = matches_kept
  /\ CleanUp
  /\ last' = NoMessage
  /\ UNCHANGED <<feed, now>>

HandleAlert(alert) ==
  /\ alert.kind = "gtfs" /\ Len(alerts.impact_period) < MaxAlerts
  /\ alerts' = handle_alert(tt, alerts, alert)
  /\ UNCHANGED <<feed, matches_, rt, off, now, last_cleanup, last>>

Tick ==
  /\ now < MaxNow
  /\ now' = now + 1
  /\ UNCHANGED <<feed, matches_, rt, off, alerts, last_cleanup, last>>

Next ==
  \/ Update
  \/ \E alert \in feed.alerts : ProcessVdvAlert(alert) \/ HandleAlert(alert)
  \/ Tick

Spec == Init /\ [][Next]_vars

-----------------------------------------------------------------------------
ActiveRuns ==
  UNION {UNION {{[route |-> x, pos |-> pos, day |-> d, from |-> 1, to |-> Len(tt.routes[x].stops)] :
                   d \in tt.routes[x].days[pos]} :
                  pos \in DOMAIN tt.routes[x].times} :
           x \in DOMAIN tt.routes}

\* The run is at stop i at the planned time of v, up to error.
IsAt(r, v, i, error) ==
  LET ev == PlannedEvent(v, NStops(tt, r), i)
  IN  /\ v.l # NoLocation /\ StopsOf(tt, r)[i].loc \in tt.equivalences[v.l]
      /\ ev.time # NoTime /\ internal_interval(ev.time)
      /\ Distance(ev.time, scheduled_time(tt, r, ev.e)) <= error

\* The message begins at a stop of the run, one that is not met again later
\* (a candidate begins where it is found), and tells its times from there on.
IsAsPlanned(r, m) ==
  \E first \in 1..NStops(tt, r) :
    /\ \A i \in 1..NStops(tt, r) : IsAt(r, m.stops[1], i, kAllowedTimeDiscrepancy) => i <= first
    /\ \A k \in DOMAIN m.stops : \E i \in first..NStops(tt, r) : IsAt(r, m.stops[k], i, 0)

StopsMet(r, m) ==
  {k \in DOMAIN m.stops : \E i \in 1..NStops(tt, r) :
     IsAt(r, m.stops[k], i, kAllowedTimeDiscrepancy)}

(***************************************************************************)
(* match_run compares times of the day and infers the day of the run, also *)
(* over midnight (mam_dist): each run that is exactly as a message says is *)
(* matched, and a run that is matched meets about half of the stops of the *)
(* message (its score is at least 97.5 % of one that is more than a half)  *)
(* at about the time.                                                      *)
(***************************************************************************)
MatchesFit ==
  last.id # NoId /\ resolve_static_trip_id(tt, last.m.trip, last.m.date) = {} =>
    LET found == match_run(tt, last.m)
    IN  /\ \A r \in ActiveRuns : IsAsPlanned(r, last.m) => \E x \in found : KeyOf(x) = KeyOf(r)
        /\ \A r \in found : 2000 * Cardinality(StopsMet(r, last.m)) > 975 * Len(last.m.stops)

(***************************************************************************)
(* Whatever messages on a run have come, partial ones and ones with times  *)
(* that contradict each other among them, the events of a run that is not  *)
(* cancelled are in order (monotonize): raptor relies on it.               *)
(***************************************************************************)
InOrder ==
  \A k \in DOMAIN rt : ~rt[k].cancelled =>
    \A e, f \in DOMAIN rt[k].times : e < f => rt[k].times[e] <= rt[k].times[f]

(***************************************************************************)
(* Feeds repeat their messages. The same message once more changes nothing *)
(* of what its runs' times, states and stops are (update_run).             *)
(***************************************************************************)
ResendChangesNothing ==
  last.id # NoId /\ ~last.m.cancelled =>
    \A r \in {r \in last.runs : KeyOf(r) \in DOMAIN rt} :
      update_run(tt, r, rt[KeyOf(r)], last.m.stops) = rt[KeyOf(r)]

\* The message has a time for each event of the run.
TellsAll(r, m) ==
  /\ r.from = 1 /\ Len(m.stops) = NStops(tt, r)
  /\ \A i \in 1..NStops(tt, r) :
       /\ m.stops[i].l = StopsOf(tt, r)[i].loc
       /\ i = 1 \/ (ArrMatches(tt, r, i, m.stops[i]) /\ rt_interval(m.stops[i].rt_arr))
       /\ i = NStops(tt, r) \/ (DepMatches(tt, r, i, m.stops[i]) /\ rt_interval(m.stops[i].rt_dep))

(***************************************************************************)
(* A message with a time for each event of a run decides alone: delays and *)
(* cancellations of the run or of its stops that came before, in whatever  *)
(* order, leave no trace in it (update_run).                               *)
(***************************************************************************)
CompleteMessageDecides ==
  last.id # NoId /\ ~last.m.cancelled =>
    \A r \in {r \in last.runs : KeyOf(r) \in DOMAIN rt /\ TellsAll(r, last.m)} :
      rt[KeyOf(r)] = update_run(tt, r, add_rt_transport(tt, r), last.m.stops)

\* All that the entity names holds for trip t on run r, at stop i or for all of it.
Selects(e, t, r, i, fuzzy) ==
  LET info == tt.info[t]
      l == IF i = 0 THEN NoLocation ELSE LocationOf(tt, rt, r, i)
      up == IF l = NoLocation THEN {} ELSE {l, tt.parents[l]}
      stations == up \cup (IF l = NoLocation \/ tt.parents[l] = NoLocation THEN {} ELSE {tt.parents[tt.parents[l]]})
      names_run == e.trip # NoId \/ e.route # NoId \/ e.agency # NoId \/ e.type # 0
  IN  /\ IsUsable(e)
      /\ e.trip # NoId => e.trip = t /\ e.date \in {NoTime, r.day}
      /\ e.route # NoId => e.route = info.route_id
      /\ e.direction # NoDirection => e.direction = info.direction
      /\ e.agency # NoId => e.agency = info.agency
      /\ e.type # 0 => e.type = info.route_type
      /\ IF e.stop = NoLocation THEN names_run /\ (fuzzy \/ i = 0)
         ELSE e.stop \in (IF names_run THEN stations ELSE up)

(***************************************************************************)
(* The times at which the run is at the stop, or on its way, as they are   *)
(* now, lie in a period of the alert.                                      *)
(***************************************************************************)
IsInPeriod(periods, r, i) ==
  LET events == IF i = 0 THEN {Dep(r.from), Arr(r.to)} ELSE {Arr(i), Dep(i)} \cap EventsOf(tt, r)
      times == {TimeOf(tt, rt, r, e) : e \in events}
  IN  periods = {} \/ \E p \in periods : (\E x \in times : p.from <= x) /\ (\E x \in times : x < p.to)

IsTravelled(r) == KeyOf(r) \in DOMAIN rt => ~rt[KeyOf(r)].cancelled

(***************************************************************************)
(* An alert is registered in one of six lists and looked up by trip, RT   *)
(* transport, route, agency, type and stop: it is found for a trip at a    *)
(* stop exactly if one of its entities selects them and its period covers  *)
(* the time of the call, with the delay known by then. (The times of a run *)
(* that is cancelled need not be in order.)                                *)
(***************************************************************************)
AlertsFound ==
  \A alert \in {a \in feed.alerts : a.kind = "gtfs"} : \E stored \in {handle_alert(tt, alerts, alert)} :
    \A r \in {r \in ActiveRuns : IsTravelled(r)}, fuzzy \in BOOLEAN :
      \A t \in {t \in DOMAIN tt.trips : tt.trips[t].route = r.route /\ tt.trips[t].pos = r.pos} :
        \A i \in 0..NStops(tt, r) :
          NextAlert(alerts) \in get_alerts(tt, rt, stored, t, r, i, fuzzy)
            <=> /\ \E e \in alert.entities : Selects(e, t, r, i, fuzzy)
                /\ IsInPeriod(ImpactOf(alert), r, i)

=============================================================================
