----------------------------- MODULE Reconstruct -----------------------------
(***************************************************************************)
(* How the legs of a journey are found again (reconstruct.cc): from the    *)
(* destination's label, round by round, a walk and a transport that lead   *)
(* from a label of the round before. The labels of the start time must     *)
(* still be there.                                                         *)
(*                                                                         *)
(* A leg is [kind, from, to, dep, arr, duration, run, first, last] in the  *)
(* order of travel; kind is "ride", "walk" or "offset", duration that of   *)
(* the walk, first and last are stops of the run. A run is [rt, r, pos,    *)
(* day]: a real-time transport, or a transport of a route on a day.        *)
(* q is the query as the algorithm is told, uq as the user states it.      *)
(***************************************************************************)
EXTENDS StartTimes

kStart == -2     \* the special station that stands for the start
NoRun == [rt |-> FALSE, r |-> 0, pos |-> 0, day |-> 0]

LineOf(n, run) == IF run.rt THEN n.rt_transports[run.r] ELSE n.routes[run.r]
TimeOf(n, run, event) ==
  IF run.rt THEN n.rt_transports[run.r].times[event]
  ELSE EventTime(n.routes[run.r], run.pos, run.day, event)

\* From a to b in the direction of the search.
Leg(dir, kind, a, b, time_at_a, time_at_b, duration, run, stop_a, stop_b) ==
  IF dir = 1
  THEN [kind |-> kind, from |-> a, to |-> b, dep |-> time_at_a, arr |-> time_at_b,
        duration |-> duration, run |-> run, first |-> stop_a, last |-> stop_b]
  ELSE [kind |-> kind, from |-> b, to |-> a, dep |-> time_at_b, arr |-> time_at_a,
        duration |-> duration, run |-> run, first |-> stop_b, last |-> stop_a]
WalkLeg(dir, kind, a, b, time_at_a, time_at_b, duration) ==
  Leg(dir, kind, a, b, time_at_a, time_at_b, duration, NoRun, 0, 0)

\* Where the next ride back has to arrive, or the first one to be boarded.
SearchStartOf(q, leg) == IF q.dir = 1 THEN leg.from ELSE leg.to
TimeAtSearchStartOf(q, leg) == IF q.dir = 1 THEN leg.dep ELSE leg.arr

is_journey_start(n, uq, l) == \E o \in uq.start : matches(n, uq.start_match_mode, o.target, l)

IsTd(q, td, l) == q.td /\ td[l] # <<>>

\* The first of a sequence of sets that has an element.
FirstNonempty(sets) ==
  LET First(x) == {i \in DOMAIN x : x[i] # {} /\ \A j \in 1..i - 1 : x[j] = {}}
  IN  UNION {UNION {x[i] : i \in First(x)} : x \in {sets}}

-----------------------------------------------------------------------------
(***************************************************************************)
(* Back along a run from the stop where it is left, to the first stop that *)
(* has been reached early enough with the right number of vias. visited    *)
(* gives for each number of vias at the current stop those at the end.     *)
(***************************************************************************)
\* Mutant: vias that are passed are not counted.
ride_through_Past(q, l, visited) == visited
ride_through(q, l, visited) ==
  [v \in DOMAIN visited |-> IF IsPassedVia(q, l, v) THEN visited[v + 1] ELSE visited[v]]

walk_back(n, q, s, k, run, finish, v, from) ==
  LET r == LineOf(n, run)
      n_stops == IF q.dir = 1 THEN finish - 1 ELSE Len(r.stops) - finish
      Stop(a, i) ==
        LET x == finish - q.dir * i
            l == r.stops[x].loc
            section == IF q.dir = 1 THEN x ELSE x - 1
            event == IF q.dir = 1 THEN DepartureOf(x) ELSE ArrivalOf(x)
            entries ==
              IF ~can_start(q, r.stops[x]) THEN {}
              ELSE {w \in ViaCounts(q) :
                      /\ a.visited[w] = v
                      /\ better_or_eq(q, s.round_times[k - 1][l][w], clamp(TimeOf(n, run, event)))}
        IN  IF a.done THEN a
            ELSE IF \E f \in q.flags : section \notin r.sections[f] THEN [a EXCEPT !.done = TRUE]
            ELSE IF entries = {} THEN [a EXCEPT !.visited = ride_through(q, l, @)]
            ELSE [a EXCEPT !.done = TRUE,
                    !.found = {[stop |-> x, v |-> CHOOSE w \in entries : \A y \in entries : w <= y]}]
  IN  ForEach(Stop, [visited |-> from, done |-> FALSE, found |-> {}], 1..n_stops).found

(***************************************************************************)
(* First as if a via without a stay at the last stop were not visited by   *)
(* the ride, then as if it were. The legs found: [leg, v], at most one.    *)
(***************************************************************************)
find_start_in_prev_round(n, q, s, k, run, finish, v) ==
  LET stops == LineOf(n, run).stops
      same == [w \in ViaCounts(q) |-> w]
      passes == <<same, ride_through(q, stops[finish].loc, same)>>
      entry(x) == IF q.dir = 1 THEN DepartureOf(x) ELSE ArrivalOf(x)
      exit == IF q.dir = 1 THEN ArrivalOf(finish) ELSE DepartureOf(finish)
      found == FirstNonempty([i \in 1..2 |-> walk_back(n, q, s, k, run, finish, v, passes[i])])
  IN  {[leg |-> Leg(q.dir, "ride", stops[x.stop].loc, stops[finish].loc,
                    clamp(TimeOf(n, run, entry(x.stop))), TimeOf(n, run, exit), 0,
                    run, x.stop, finish),
        v |-> x.v] : x \in found}

\* The stops of a line where a ride can end at l.
Finishes(q, r, l) ==
  {i \in DOMAIN r.stops :
     /\ r.stops[i].loc = l /\ can_finish(q, r.stops[i])
     /\ i # (IF q.dir = 1 THEN 1 ELSE Len(r.stops))}

AllowedLines(q, lines) == {x \in DOMAIN lines : is_used(q, lines[x])}

\* Real-time transports may arrive early.
RtRunsArriving(n, q, l, time) ==
  LET exit(i) == IF q.dir = 1 THEN ArrivalOf(i) ELSE DepartureOf(i)
  IN  UNION {{[run |-> [rt |-> TRUE, r |-> x, pos |-> 0, day |-> 0], finish |-> i] :
                i \in {i \in Finishes(q, n.rt_transports[x], l) :
                         better_or_eq(q, n.rt_transports[x].times[exit(i)], time)}} :
             x \in AllowedLines(q, n.rt_transports)}

(***************************************************************************)
(* Other transports arrive at the minute of the label; before a walk that  *)
(* depends on the time it may have been any time before, also days ago.    *)
(***************************************************************************)
RunsArriving(n, q, l, time, is_td) ==
  LET event(i) == IF q.dir = 1 THEN ArrivalOf(i) ELSE DepartureOf(i)
      At(x, pos, i) == n.routes[x].times[pos][event(i)]
      DayOf(x, pos, i, shift) == days(time) - days(At(x, pos, i)) - q.dir * shift
      IsUsable(x, pos, i, shift) ==
        /\ DayOf(x, pos, i, shift) \in n.routes[x].days[pos]
        /\ IF is_td
           THEN /\ better_or_eq(q, EventTime(n.routes[x], pos, DayOf(x, pos, i, shift), event(i)), time)
                /\ \A y \in 0..shift - 1 :
                     DayOf(x, pos, i, y) \notin n.routes[x].days[pos]
                       \/ ~better_or_eq(q, EventTime(n.routes[x], pos, DayOf(x, pos, i, y), event(i)), time)
           ELSE shift = 0 /\ mam(At(x, pos, i)) = mam(time)
      OfRoute(x) ==
        {y \in (DOMAIN n.routes[x].times) \X Finishes(q, n.routes[x], l) \X (0..MaxTravelDays) :
           IsUsable(x, y[1], y[2], y[3])}
  IN  UNION {{[run |-> [rt |-> FALSE, r |-> x, pos |-> y[1], day |-> DayOf(x, y[1], y[2], y[3])],
               finish |-> y[2]] : y \in OfRoute(x)} : x \in AllowedLines(q, n.routes)}

(***************************************************************************)
(* A ride that ends at l: of real-time transports first. Which one of      *)
(* several is taken depends on the order of the data.                      *)
(***************************************************************************)
get_transport(n, q, s, k, l, time, is_td, v) ==
  FirstNonempty([i \in 1..2 |->
    UNION {find_start_in_prev_round(n, q, s, k, x.run, x.finish, v) :
             x \in IF i = 1 THEN RtRunsArriving(n, q, l, time)
                   ELSE RunsArriving(n, q, l, time, is_td)}])

-----------------------------------------------------------------------------
(***************************************************************************)
(* A walk w from its target to l after a ride to the target, such that l   *)
(* is reached at the time of its label: [walk, ride, v]. The vias at both  *)
(* ends count if that leads to a ride; else they are visited before.       *)
(***************************************************************************)
check_fp(n, q, s, k, l, time, w, v) ==
  LET IsVia(x, i) == i # 0 /\ x \in q.vias[i].stops
      \* the vias visited and the stays, at l and at the target
      StaysOf(counts) ==
        LET at_l == counts /\ IsVia(l, v)
            v_l == IF at_l THEN v - 1 ELSE v
            at_target == counts /\ IsVia(w.target, v_l)
            same == at_l /\ matches(n, "equivalent", l, w.target)
        IN  [v |-> IF at_target THEN v_l - 1 ELSE v_l,
             stay_l |-> IF at_l /\ ~same THEN q.vias[v].stay ELSE 0,
             stay_target |-> IF at_target THEN q.vias[v_l].stay
                             ELSE IF same THEN q.vias[v].stay ELSE 0]
      Walk(x) ==
        LET start == clamp(time - q.dir * (w.d + x.stay_l))
        IN  WalkLeg(q.dir, w.kind, w.target, l, start, start + q.dir * w.d, w.duration)
      Rides(x) ==
        get_transport(n, q, s, k, w.target, clamp(time - q.dir * (w.d + x.stay_l + x.stay_target)),
                      w.is_td, x.v)
  IN  FirstNonempty([i \in 1..2 |->
        UNION {{[walk |-> Walk(x), ride |-> y.leg, v |-> y.v] : y \in Rides(x)} :
                 x \in {StaysOf(i = 1)}}])

AWalk(kind, target, duration, d, is_td) ==
  [kind |-> kind, target |-> target, duration |-> duration, d |-> d, is_td |-> is_td]

\* The ways from the stops around to a door, fixed ones first.
DestWalks(n, q, uq, time) ==
  LET td(l) == get_td_duration(-q.dir, uq.td_dest[l], time)
      Offsets(l, d, is_td) ==
        IF d >= kMaxDuration THEN {}
        ELSE {AWalk("offset", eq, d, d, is_td) : eq \in for_each_meta(n, "intermodal", l)}
  IN  <<UNION {Offsets(o.target, o.duration, FALSE) : o \in uq.destination},
        UNION {Offsets(l, td(l).duration, TRUE) :
                 l \in {l \in DOMAIN uq.td_dest : uq.td_dest[l] # <<>> /\ Found(td(l))}}>>

\* A change at the same stop, a footpath, a time-dependent footpath.
TransferWalks(n, q, l, time, is_last) ==
  LET transfer_time == IF is_last THEN 0 ELSE adjusted_transfer_time(q, n.transfer_time[l])
      footpaths == {fp \in n.footpaths : /\ l = (IF q.dir = 1 THEN fp.to ELSE fp.from)
                                         /\ ~IsTd(q, n.td_out, fp.from)}
      td_footpaths ==
        IF ~q.td THEN {}
        ELSE for_each_footpath(-q.dir, (IF q.dir = 1 THEN n.td_in ELSE n.td_out)[l], time)
  IN  <<{AWalk("walk", l, transfer_time, transfer_time, FALSE)},
        {AWalk("walk", IF q.dir = 1 THEN fp.from ELSE fp.to, fp.duration,
               adjusted_transfer_time(q, fp.duration), FALSE) : fp \in footpaths},
        {AWalk("walk", fp.target, fp.td.duration, fp.td.duration, TRUE) :
           fp \in {fp \in td_footpaths : fp.td.duration < kMaxDuration}}>>

\* If there is none, the reconstruction fails with an exception.
get_legs(n, q, uq, s, k, l, v, is_last) ==
  LET time == s.round_times[k][l][v]
      Walks == IF is_last /\ q.intermodal THEN DestWalks(n, q, uq, time)
               ELSE TransferWalks(n, q, l, time, is_last)
  IN  UNION {FirstNonempty([i \in DOMAIN walks |->
                              UNION {check_fp(n, q, s, k, l, time, w, v) : w \in walks[i]}]) :
               walks \in {Walks}}

(***************************************************************************)
(* The way from the start to the first ride, as <<leg>>, or <<>> if it is  *)
(* boarded at the start.                                                   *)
(***************************************************************************)
StartStay(q, l, v) == IF v # 0 /\ l \in q.vias[1].stops THEN q.vias[1].stay ELSE 0

find_start_footpath(n, q, uq, s, j, ride, v) ==
  LET l == SearchStartOf(q, ride)
      is_start_via == v # 0 /\ l \in q.vias[1].stops
      leg_start_time == TimeAtSearchStartOf(q, ride) - q.dir * StartStay(q, l, v)
      Reaches(d) == better_or_eq(q, j.start, leg_start_time - q.dir * d)
      Offset(d) ==
        <<WalkLeg(q.dir, "offset", kStart, l, leg_start_time - q.dir * d, leg_start_time, d)>>
      td == get_td_duration(-q.dir, uq.td_start[l], leg_start_time)
      by_offset == {Offset(o.duration) : o \in {o \in uq.start :
                      matches(n, uq.start_match_mode, o.target, l) /\ Reaches(o.duration)}}
      by_td_offset == IF uq.td_start[l] # <<>> /\ Found(td) /\ Reaches(td.duration)
                      THEN {Offset(td.duration)} ELSE {}
      fp_target_time == s.round_times[0][l][v]
      fp_arrival_time == clamp(fp_target_time - q.dir * StartStay(q, l, v))
      Target(fp) == IF q.dir = 1 THEN fp.from ELSE fp.to
      \* The stay before a walk from the first via.
      stay(fp) == IF v # 0 /\ ~is_start_via /\ Target(fp) \in q.vias[1].stops
                  THEN q.vias[1].stay ELSE 0
      d(fp) == adjusted_transfer_time(q, fp.duration)
      start_matches(a, b) == IF uq.is_ontrip THEN better_or_eq(q, a, b) ELSE a = b
      footpaths ==
        {fp \in n.footpaths :
           /\ l = (IF q.dir = 1 THEN fp.to ELSE fp.from)
           /\ is_journey_start(n, uq, Target(fp)) /\ fp_target_time # kInvalid(q)
           /\ start_matches(clamp(j.start + q.dir * (stay(fp) + d(fp))), fp_arrival_time)}
      Walk(fp) == <<WalkLeg(q.dir, "walk", Target(fp), l, j.start + q.dir * stay(fp),
                            fp_arrival_time, d(fp))>>
  IN  IF uq.start_match_mode = "intermodal" THEN FirstNonempty(<<by_offset, by_td_offset>>)
      ELSE IF is_journey_start(n, uq, l) /\ better_or_eq(q, j.start, leg_start_time) THEN {<<>>}
      ELSE {Walk(fp) : fp \in footpaths}

-----------------------------------------------------------------------------
(***************************************************************************)
(* What happens to the legs once they are found: walks are moved to where  *)
(* they are walked, and shorter walks are looked for along the same runs   *)
(* (reconstruct.cc, optimize_footpaths.cc, specify_td_offsets.cc). The     *)
(* query is the one of the order of travel: jq as the user states it, vias *)
(* as the algorithm is told.                                               *)
(***************************************************************************)
StopsOf(n, leg) == LineOf(n, leg.run).stops
DepTime(n, leg, x) == TimeOf(n, leg.run, DepartureOf(x))
ArrTime(n, leg, x) == TimeOf(n, leg.run, ArrivalOf(x))
IsKind(legs, i, kind) == i \in DOMAIN legs /\ legs[i].kind = kind

-----------------------------------------------------------------------------
(***************************************************************************)
(* The number of vias visited before each leg, and the stays at its first  *)
(* stop. A walk visits a via if there is time for the stay.                *)
(***************************************************************************)
\* Mutant: a stay that just fits is not one.
Fits_Just(legs, i, duration) ==
  LET from == IF i = 1 THEN legs[i].dep ELSE legs[i - 1].arr
      to == IF i = Len(legs) THEN legs[i].arr ELSE legs[i + 1].dep
  IN  from + duration < to
Fits(legs, i, duration) ==
  LET from == IF i = 1 THEN legs[i].dep ELSE legs[i - 1].arr
      to == IF i = Len(legs) THEN legs[i].arr ELSE legs[i + 1].dep
  IN  from + duration <= to

count_vias(n, q, vias, legs) ==
  LET IsVia(v, l) == v < Len(vias) /\ l \in vias[v + 1].stops
      Ride(v, i) ==
        ForEach(LAMBDA v1, x : IF IsVia(v1, StopsOf(n, legs[i])[x].loc) /\ vias[v1 + 1].stay = 0
                               THEN v1 + 1 ELSE v1,
                v, legs[i].first..legs[i].last)
      Visit(a, i, l) ==
        LET stay == vias[a.v + 1].stay
        IN  IF IsVia(a.v, l) /\ Fits(legs, i, a.walk + stay)
            THEN [v |-> a.v + 1, walk |-> a.walk + stay,
                  stay |-> IF l = legs[i].from THEN a.stay + stay ELSE a.stay]
            ELSE a
      Walk(v, i) ==
        LET d == IF legs[i].kind = "walk" THEN adjusted_transfer_time(q, legs[i].duration)
                 ELSE legs[i].duration
            at_from == Visit([v |-> v, walk |-> d, stay |-> 0], i, legs[i].from)
        IN  IF legs[i].from = legs[i].to THEN at_from ELSE Visit(at_from, i, legs[i].to)
      Count(a, i) ==
        LET walked == Walk(a.v, i)
            ride == legs[i].kind = "ride"
        IN  [v |-> IF ride THEN Ride(a.v, i) ELSE walked.v,
             before |-> Append(a.before, a.v),
             stay |-> Append(a.stay, IF ride THEN 0 ELSE walked.stay)]
  IN  ForEach(Count, [v |-> 0, before |-> <<>>, stay |-> <<>>], DOMAIN legs)

(***************************************************************************)
(* A backward search ends with walks as late as possible. They are moved   *)
(* to the arrival of the ride before them and the stay there; one that     *)
(* depends on the time to when it is usable after that.                    *)
(***************************************************************************)
\* Mutant: the walk may arrive after the label.
EarliestWalks_Late(n, leg, t) ==
  {fp \in for_each_footpath(1, n.td_out[leg.from], t) : fp.target = leg.to}
EarliestWalks(n, leg, t) ==
  {fp \in for_each_footpath(1, n.td_out[leg.from], t) :
     fp.target = leg.to /\ t + fp.td.duration <= leg.arr}

adjust_footpaths(n, q, vias, legs) ==
  LET counts == count_vias(n, q, vias, legs)
      ready(i) == legs[i - 1].arr + counts.stay[i]
      MoveTo(leg, dep, d) == [leg EXCEPT !.dep = dep, !.arr = dep + d]
      Timed(leg, t) ==
        IF EarliestWalks(n, leg, t) = {} THEN leg
        ELSE LET fp == CHOOSE fp \in EarliestWalks(n, leg, t) : TRUE
             IN  [MoveTo(leg, t + fp.td.duration - fp.td.walk, fp.td.walk)
                    EXCEPT !.duration = fp.td.walk]
      Adjusted(i) ==
        IF i = 1 \/ legs[i].kind # "walk" THEN legs[i]
        ELSE IF ready(i) < legs[i].dep /\ legs[i].from # legs[i].to /\ IsTd(q, n.td_out, legs[i].from)
        THEN Timed(legs[i], ready(i))
        ELSE MoveTo(legs[i], ready(i), legs[i].arr - legs[i].dep)
  IN  [i \in DOMAIN legs |-> Adjusted(i)]

-----------------------------------------------------------------------------
(***************************************************************************)
(* The first ride can be boarded at another stop, before the first via, if *)
(* the way there is shorter and leaves no earlier. ways are pairs of a     *)
(* stop and the duration of the way to it.                                 *)
(***************************************************************************)
move_boarding(n, vias, legs, best_duration, ways) ==
  LET PastVia(x) == vias # <<>> /\ \E y \in 1..x : StopsOf(n, legs[2])[y].loc \in vias[1].stops
      Move(a, x) ==
        LET stp == StopsOf(n, a.legs[2])[x]
            dep == DepTime(n, a.legs[2], x)
            shorter == {d \in {w[2] : w \in {w \in ways : w[1] = stp.loc}} : d < a.best /\ a.legs[1].dep <= dep - d}
            d == CHOOSE d \in shorter : \A y \in shorter : d <= y
        IN  IF PastVia(x) \/ ~stp.in \/ shorter = {} THEN a
            ELSE [best |-> d,
                  legs |-> [a.legs EXCEPT
                    ![1] = [@ EXCEPT !.to = stp.loc, !.dep = dep - d, !.arr = dep, !.duration = d],
                    ![2] = [@ EXCEPT !.from = stp.loc, !.dep = dep, !.first = x]]]
  IN  ForEach(Move, [best |-> best_duration, legs |-> legs], 1..legs[2].last - 1).legs

optimize_initial_departure(n, jq, vias, legs) ==
  IF ~(IsKind(legs, 1, "offset") /\ IsKind(legs, 2, "ride")) THEN legs
  ELSE move_boarding(n, vias, legs, legs[1].duration,
         {<<o.target, o.duration>> : o \in jq.start})

optimize_initial_start_footpath(n, q, vias, legs) ==
  IF ~(IsKind(legs, 1, "walk") /\ IsKind(legs, 2, "ride")) \/ IsTd(q, n.td_out, legs[1].from)
  THEN legs
  ELSE move_boarding(n, vias, legs, adjusted_transfer_time(q, legs[1].duration),
         {<<fp.to, adjusted_transfer_time(q, fp.duration)>> :
            fp \in {fp \in n.footpaths : fp.from = legs[1].from}})

\* The last ride can be left at another stop, not before the last via.
move_alighting(n, vias, legs, best_duration, ways) ==
  LET end == Len(legs)
      ride == legs[end - 1]
      stops == StopsOf(n, ride)
      last_via == IF vias = <<>> THEN {}
                  ELSE {x \in DOMAIN stops : stops[x].loc \in vias[Len(vias)].stops}
      Move(a, x) ==
        LET arr == ArrTime(n, ride, x)
            shorter == {d \in {w[2] : w \in {w \in ways : w[1] = stops[x].loc}} : d < a.best /\ arr + d <= a.legs[end].arr}
            d == CHOOSE d \in shorter : \A y \in shorter : d <= y
        IN  IF ~stops[x].out \/ shorter = {} \/ \E y \in last_via : y > x THEN a
            ELSE [best |-> d,
                  legs |-> [a.legs EXCEPT
                    ![end] = [@ EXCEPT !.from = stops[x].loc, !.dep = arr, !.arr = arr + d,
                                       !.duration = d],
                    ![end - 1] = [@ EXCEPT !.to = stops[x].loc, !.arr = arr, !.last = x]]]
  IN  ForEach(Move, [best |-> best_duration, legs |-> legs], ride.first + 1..Len(stops)).legs

optimize_last_arrival(n, jq, vias, legs) ==
  IF ~(IsKind(legs, Len(legs), "offset") /\ IsKind(legs, Len(legs) - 1, "ride")) THEN legs
  ELSE move_alighting(n, vias, legs, legs[Len(legs)].duration,
         {<<o.target, o.duration>> : o \in jq.destination})

optimize_final_egress_footpath(n, q, vias, legs) ==
  LET last == legs[Len(legs)]
  IN  IF ~(IsKind(legs, Len(legs), "walk") /\ IsKind(legs, Len(legs) - 1, "ride"))
           \/ IsTd(q, n.td_in, last.to)
      THEN legs
      ELSE move_alighting(n, vias, legs, adjusted_transfer_time(q, last.duration),
             {<<fp.from, adjusted_transfer_time(q, fp.duration)>> :
                fp \in {fp \in n.footpaths : fp.to = last.to}})

-----------------------------------------------------------------------------
kMaxRewardedBuffer == 15

(***************************************************************************)
(* What a change costs, in fifths of a minute by the highest importance of *)
(* a station: the walk, less when it is within an important station and    *)
(* when there is some time left.                                           *)
(***************************************************************************)
get_penalty(n, duration, buffer, from, to) ==
  LET rewarded == IF buffer < 0 THEN 0 ELSE IF buffer > kMaxRewardedBuffer THEN kMaxRewardedBuffer
                  ELSE buffer
      importance == IF matches(n, "equivalent", from, to) THEN n.importance[get_root_idx(n, from)]
                    ELSE 0
  IN  5 * n.max_importance * duration - 15 * importance - n.max_importance * rewarded

(***************************************************************************)
(* The vias without a stay that a run passes from a stop on, up to one     *)
(* with a stay: then the change is kept as it is.                          *)
(***************************************************************************)
PassedVias(vias, stops, first, before) ==
  LET Stop(a, x) ==
        IF a.keep \/ a.v = Len(vias) \/ stops[x].loc \notin vias[a.v + 1].stops THEN a
        ELSE IF vias[a.v + 1].stay = 0 THEN [a EXCEPT !.v = @ + 1, !.at = @ \cup {x}]
        ELSE [a EXCEPT !.keep = TRUE]
  IN  ForEach(Stop, [v |-> before, at |-> {}, keep |-> FALSE], first..Len(stops))

\* A change from a stop of the first run to a stop of the second, as the legs
\* around i + 1, if it is better.
better_transfer(n, q, a, i, x, y) ==
  LET from == StopsOf(n, a.legs[i])[x]
      to == StopsOf(n, a.legs[i + 2])[y]
      walks == {fp \in n.footpaths : fp.from = from.loc /\ fp.to = to.loc}
      fp == CHOOSE fp \in walks : TRUE
      d == adjusted_transfer_time(q, fp.duration)
      arr == ArrTime(n, a.legs[i], x)
      dep == DepTime(n, a.legs[i + 2], y)
      penalty == get_penalty(n, d, dep - arr - d, from.loc, to.loc)
  IN  IF ~from.out \/ ~to.in \/ walks = {} THEN a
      ELSE IF arr + d > dep \/ penalty >= a.penalty THEN a
      ELSE [penalty |-> penalty,
            legs |-> [a.legs EXCEPT
              ![i] = [@ EXCEPT !.to = from.loc, !.arr = arr, !.last = x],
              ![i + 1] = [@ EXCEPT !.from = from.loc, !.to = to.loc, !.dep = arr, !.arr = arr + d,
                                   !.duration = fp.duration],
              ![i + 2] = [@ EXCEPT !.from = to.loc, !.dep = dep, !.first = y]]]

optimize_transfers(n, q, vias, legs) ==
  LET counts == count_vias(n, q, vias, legs)
      Optimize(now, i) ==
        LET from_run == PassedVias(vias, StopsOf(n, now[i]), now[i].first, counts.before[i])
            to_run == PassedVias(vias, StopsOf(n, now[i + 2]), now[i + 2].first, from_run.v)
            alight == {x \in now[i].first + 1..Len(StopsOf(n, now[i])) :
                         \A y \in from_run.at : y <= x}
            board == {x \in 1..now[i + 2].last - 1 : \A y \in to_run.at : x <= y}
            \* the stations compared first are those of the rides
            as_is == get_penalty(n, now[i + 1].duration, now[i + 2].dep - now[i + 1].arr,
                                 now[i].from, now[i + 2].to)
        IN  IF \/ ~(IsKind(now, i, "ride") /\ IsKind(now, i + 1, "walk") /\ IsKind(now, i + 2, "ride"))
               \/ from_run.keep \/ to_run.keep
               \/ IsTd(q, n.td_out, now[i + 1].from)
            THEN now
            ELSE ForEach(LAMBDA a, x : ForEach(LAMBDA b, y : better_transfer(n, q, b, i, x, y), a, board),
                         [penalty |-> as_is, legs |-> now], alight).legs
  IN  ForEach(Optimize, legs, 1..Len(legs) - 2)

(***************************************************************************)
(* A way that depends on the time is given without the wait before it.     *)
(***************************************************************************)
specify_td_offsets(jq, legs) ==
  LET Leaves(i) == i = 1
      IsTimed(i) ==
        /\ legs[i].kind = "offset"
        /\ (IF Leaves(i) THEN jq.td_start[legs[i].to] ELSE jq.td_dest[legs[i].from]) # <<>>
      td(i) == IF Leaves(i) THEN get_td_duration(1, jq.td_start[legs[i].to], legs[i].dep)
               ELSE get_td_duration(-1, jq.td_dest[legs[i].from], legs[i].arr)
      Timed(i) ==
        IF Leaves(i) THEN [legs[i] EXCEPT !.arr = legs[i].dep + td(i).walk, !.duration = td(i).walk]
        ELSE [legs[i] EXCEPT !.dep = legs[i].arr - td(i).walk, !.duration = td(i).walk]
  IN  [i \in DOMAIN legs |->
         IF i \in {1, Len(legs)} /\ IsTimed(i) /\ Found(td(i)) THEN Timed(i) ELSE legs[i]]

=============================================================================
