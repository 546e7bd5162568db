-------------------------------- MODULE Direct --------------------------------
(***************************************************************************)
(* Direct connections: journeys with one ride, enumerated line by line     *)
(* (direct.cc), and what they are used for: the alternatives of a leg      *)
(* (leg_alternatives.cc) and slow journeys without a change. Their queries *)
(* are in the order of travel. A leg is one of Reconstruct.                *)
(***************************************************************************)
EXTENDS Reconstruct

Sorted(S, Before(_, _)) ==
  MapThenFoldSet(LAMBDA x, list : Append(list, x), <<>>, LAMBDA x : x,
                 LAMBDA T : CHOOSE x \in T : \A y \in T : x = y \/ Before(y, x), S)
Listed(S) ==
  MapThenFoldSet(LAMBDA x, list : Append(list, x), <<>>, LAMBDA x : x,
                 LAMBDA T : CHOOSE x \in T : TRUE, S)
\* The element of a set that has one. (The({F(x) : x \in {e}}) is F(e), with e evaluated once.)
The(S) == CHOOSE x \in S : TRUE
IfNone(S, default) == The({IF T = {} THEN {default} ELSE T : T \in {S}})

-----------------------------------------------------------------------------
(***************************************************************************)
(* The way between a stop, where a ride is boarded or left at t, and the   *)
(* start or the end: a set with the leg, or none. It takes duration in     *)
(* all, walk of it is walked; the rest is waited at the stop.              *)
(***************************************************************************)
AccessLeg(kind, boards, stop, other, t, duration, walk) ==
  WalkLeg(1, kind, IF boards THEN other ELSE stop, IF boards THEN stop ELSE other,
          IF boards THEN t - duration ELSE t + duration - walk,
          IF boards THEN t - duration + walk ELSE t + duration, walk)

lookup_offset(l, t, boards, offsets, td_offsets) ==
  LET fixed == {o.duration : o \in {o \in offsets : o.target = l}}
      ways == IF td_offsets[l] = <<>> THEN {[duration |-> d, walk |-> d] : d \in fixed}
              ELSE {td \in {get_td_duration(IF boards THEN -1 ELSE 1, td_offsets[l], t)} :
                      Found(td) /\ td.duration < kMaxDuration}
  IN  {AccessLeg("offset", boards, l, IF boards THEN kStart ELSE kEnd, t, way.duration, way.walk) :
         way \in {way \in ways : \A d \in fixed : td_offsets[l] = <<>> => way.duration <= d}}

(***************************************************************************)
(* A walk between the stop and one of the locations the query names. One   *)
(* of the query's own locations counts when its offset is the best so far, *)
(* with the time to change added.                                          *)
(***************************************************************************)
TheWalk(n, q, boards, l, x, t) ==
  LET from == IF boards THEN x ELSE l
      to == IF boards THEN l ELSE x
      walks == IF IsTd(q, n.td_out, from)
               THEN {[duration |-> fp.td.duration, walk |-> fp.td.walk] :
                       fp \in {fp \in for_each_footpath(IF boards THEN -1 ELSE 1, n.td_out[from], t) :
                                 fp.target = to}}
               ELSE {[duration |-> d, walk |-> d] :
                       d \in {adjusted_transfer_time(q, fp.duration) :
                                fp \in {fp \in n.footpaths : fp.from = from /\ fp.to = to}}}
  IN  {w \in walks : w.duration < kMaxDuration}

\* The best way so far, with offset o of the query, from or to location x.
WayVia(n, q, l, t, boards, change, use_footpaths, best, o, x) ==
  LET way(d, w) == [duration |-> o.duration + d, walk |-> o.duration + w, source |-> o.target]
      direct == IF x = l /\ o.duration < best.duration THEN {way(change, change)} ELSE {best}
      walked == {way(w.duration, w.walk) : w \in IF use_footpaths THEN TheWalk(n, q, boards, l, x, t) ELSE {}}
  IN  CHOOSE a \in direct \cup walked :
        /\ \A b \in direct \cup walked : a.duration <= b.duration
        /\ \A b \in direct : a.duration = b.duration => a = b

lookup_footpath(n, q, l, t, boards, offsets, mode, use_footpaths) ==
  LET Before(a, b) == a.duration < b.duration \/ (a.duration = b.duration /\ a.target < b.target)
      change == IF mode = "exact" THEN adjusted_transfer_time(q, n.transfer_time[l]) ELSE 0
      best == FoldLeft(LAMBDA b, o :
                         ForEach(LAMBDA b1, x : WayVia(n, q, l, t, boards, change, use_footpaths, b1, o, x),
                                 b, for_each_meta(n, mode, o.target)),
                       [duration |-> kMaxDuration, walk |-> kMaxDuration, source |-> 0],
                       Sorted(offsets, Before))
  IN  {AccessLeg("walk", boards, l, way.source, t, way.duration, way.walk) :
         way \in {way \in {best} : way.duration < kMaxDuration}}

\* The side of the query that is looked at.
Side(q, boards) ==
  IF boards THEN [offsets |-> q.start, td |-> q.td_start, mode |-> q.start_match_mode,
                  use_footpaths |-> q.use_start_footpaths]
  ELSE [offsets |-> q.destination, td |-> q.td_dest, mode |-> q.dest_match_mode,
        use_footpaths |-> TRUE]

lookup_access(n, q, l, t, boards) ==
  LET x == Side(q, boards)
  IN  IF x.mode = "intermodal" THEN lookup_offset(l, t, boards, x.offsets, x.td)
      ELSE lookup_footpath(n, q, l, t, boards, x.offsets, x.mode, x.use_footpaths)

-----------------------------------------------------------------------------
(***************************************************************************)
(* The stops where a ride may begin or end, and its ends along a line: the *)
(* first stop where it may begin, the first one after that where it may    *)
(* end, and so on from there.                                              *)
(***************************************************************************)
collect_locations(n, q, boards) ==
  LET side == Side(q, boards)
      Around(l) ==
        {IF boards THEN fp.to ELSE fp.from :
           fp \in {fp \in n.footpaths : (IF boards THEN fp.from ELSE fp.to) = l}}
        \cup (IF q.td THEN {fp.target : fp \in ToSet((IF boards THEN n.td_out ELSE n.td_in)[l])} ELSE {})
      At(l) == {l} \cup (IF side.use_footpaths THEN Around(l) ELSE {})
  IN  {l \in DOMAIN side.td : side.td[l] # <<>>}
        \cup (IF side.mode = "intermodal" THEN {o.target : o \in side.offsets}
              ELSE UNION {UNION {At(l) : l \in for_each_meta(n, side.mode, o.target)} : o \in side.offsets})

for_each_pair(q, stops, boarding, alighting) ==
  LET Stop(a, i) ==
        IF a.from # 0
        THEN IF stops[i].loc \in alighting /\ can_finish([dir |-> 1, wheelchair |-> q.wheelchair], stops[i])
             THEN [from |-> 0, pairs |-> a.pairs \cup {<<a.from, i>>}] ELSE a
        ELSE IF stops[i].loc \in boarding /\ can_start([dir |-> 1, wheelchair |-> q.wheelchair], stops[i])
             THEN [a EXCEPT !.from = i] ELSE a
  IN  ForEach(Stop, [from |-> 0, pairs |-> {}], DOMAIN stops).pairs

sections_violate_constraints(q, r, pair) ==
  \E f \in q.flags : ~(pair[1]..pair[2] - 1 \subseteq r.sections[f])

\* Nobody needs a way of no minutes from or to a door.
assemble_legs(boarding_walk, transit, alighting_walk) ==
  SelectSeq(<<boarding_walk, transit, alighting_walk>>,
            LAMBDA leg : ~(leg.kind = "offset" /\ leg.dep = leg.arr))

(***************************************************************************)
(* The journey with a run between two of its stops: at most one.           *)
(***************************************************************************)
InReach(dir, time, walks) == IF dir = 1 THEN walks[1].dep >= time ELSE walks[2].arr <= time

WithRun(n, q, dir, time, run, pair) ==
  UNION {{assemble_legs(walks[1], ride, walks[2]) :
            walks \in {w \in lookup_access(n, q, ride.from, ride.dep, TRUE)
                                 \X lookup_access(n, q, ride.to, ride.arr, FALSE) :
                         InReach(dir, time, w)}} :
           ride \in {Leg(1, "ride", LineOf(n, run).stops[pair[1]].loc, LineOf(n, run).stops[pair[2]].loc,
                         TimeOf(n, run, DepartureOf(pair[1])), TimeOf(n, run, ArrivalOf(pair[2])), 0,
                         run, pair[1], pair[2])}}

(***************************************************************************)
(* The runs of a line, of a route from the day of the time on, day by day  *)
(* and run by run; backwards in a backward search.                         *)
(***************************************************************************)
route_gen(n, dir, time, x, pair) ==
  LET r == n.routes[x]
      event == IF dir = 1 THEN DepartureOf(pair[1]) ELSE ArrivalOf(pair[2])
      DaysOf(pos) == {day + days(r.times[pos][event]) : day \in r.days[pos]}
      visits == {v \in UNION {{<<day, pos>> : day \in DaysOf(pos)} : pos \in DOMAIN r.times} :
                   v[1] \in r.route_days /\ dir * v[1] >= dir * days(time)}
      Before(a, b) == dir * a[1] < dir * b[1] \/ (a[1] = b[1] /\ dir * a[2] < dir * b[2])
      RunOf(v) == [rt |-> FALSE, r |-> x, pos |-> v[2], day |-> v[1] - days(r.times[v[2]][event])]
  IN  The({[i \in DOMAIN order |-> RunOf(order[i])] : order \in {Sorted(visits, Before)}})

rt_gen(x) == <<[rt |-> TRUE, r |-> x, pos |-> 0, day |-> 0]>>

(***************************************************************************)
(* All of them, merged by their arrivals (departures, in a backward        *)
(* search): of each line, the one at the head is compared, so one that     *)
(* follows a later one is as late.                                         *)
(***************************************************************************)
Merged(dir, lists) ==
  LET Key(legs) == IF dir = 1 THEN Last(legs).arr ELSE -legs[1].dep
      all == UNION {{[key |-> Max({Key(lists[i][y]) : y \in 1..k}), list |-> i, at |-> k] :
                       k \in DOMAIN lists[i]} : i \in DOMAIN lists}
      Before(a, b) ==
        \/ a.key < b.key
        \/ a.key = b.key /\ (a.list < b.list \/ (a.list = b.list /\ a.at < b.at))
  IN  The({[i \in DOMAIN order |-> lists[order[i].list][order[i].at]] : order \in {Sorted(all, Before)}})

JourneysOf(n, q, dir, time, x, pair) ==
  FoldLeft(LAMBDA found, run : found \o Listed(WithRun(n, q, dir, time, run, pair)),
           <<>>, IF x[1] THEN rt_gen(x[2]) ELSE route_gen(n, dir, time, x[2], pair))

\* Each line with each pair of its stops.
Generators(n, q, locations) ==
  LET lines(rt) == IF rt THEN n.rt_transports ELSE n.routes
      Pairs(r) == {pair \in for_each_pair(q, r.stops, locations[TRUE], locations[FALSE]) :
                     ~sections_violate_constraints(q, r, pair)}
  IN  UNION {UNION {{<<<<rt, x>>, pair>> : pair \in Pairs(lines(rt)[x])} :
                      x \in AllowedLines(q, lines(rt))} : rt \in BOOLEAN}

get_direct_journeys(n, q, dir, time) ==
  The({Merged(dir, lists) :
         lists \in {[i \in DOMAIN g |-> JourneysOf(n, q, dir, time, g[i][1], g[i][2])] :
           g \in {Listed(Generators(n, q, locations)) :
             locations \in {[boards \in BOOLEAN |-> collect_locations(n, q, boards)]}}}})

-----------------------------------------------------------------------------
(***************************************************************************)
(* The journeys of one ride that are added to the results on request,      *)
(* however slow, if not much slower than the fastest of them. q is the     *)
(* query of a search in direction dir, jq the same in the order of travel. *)
(***************************************************************************)
Enriching(q, dir, iv, found) ==
  LET start(legs) == IF dir = 1 THEN legs[1].dep ELSE Last(legs).arr
      IsPast(legs) == IF dir = 1 THEN start(legs) >= iv.to ELSE start(legs) < iv.from
      upto == {i \in DOMAIN found : \A y \in 1..i : ~IsPast(found[y])}
      direct == {legs \in {found[i] : i \in upto} : contains(iv, start(legs))}
      duration(legs) == Last(legs).arr - legs[1].dep
  IN  {legs \in direct : \/ q.slow_factor = 0
                         \/ \A x \in direct : duration(legs) <= duration(x) * q.slow_factor}

enrich_with_slow_direct(n, q, jq, dir, iv) ==
  UNION {Enriching(q, dir, iv, found) :
           found \in IF q.slow_direct THEN {get_direct_journeys(n, jq, dir, IF dir = 1 THEN iv.from ELSE iv.to)}
                     ELSE {}}

-----------------------------------------------------------------------------
make_alternative_query(q, from, to) ==
  [start |-> {[target |-> from, duration |-> 0]}, destination |-> {[target |-> to, duration |-> 0]},
   start_match_mode |-> "exact", dest_match_mode |-> "exact", use_start_footpaths |-> TRUE,
   td_start |-> [l \in DOMAIN q.td_start |-> <<>>], td_dest |-> [l \in DOMAIN q.td_dest |-> <<>>],
   claszes |-> q.claszes, flags |-> q.flags, wheelchair |-> q.wheelchair, td |-> q.td,
   transfer |-> q.transfer]

optimize_footpaths(n, q, vias, legs) ==
  The({optimize_transfers(n, q, vias, d) :
         d \in {optimize_final_egress_footpath(n, q, vias, c) :
           c \in {optimize_last_arrival(n, q, vias, b) :
             b \in {optimize_initial_start_footpath(n, q, vias, a) :
               a \in {optimize_initial_departure(n, q, vias, legs)}}}}})

(***************************************************************************)
(* Those of the direct journeys that do not take the run that is replaced. *)
(* Runs are compared by their transports and stops, and trips that are     *)
(* known from real-time data only, as those of a network here, have none:  *)
(* they are all alike.                                                     *)
(***************************************************************************)
IsSameRun(n, a, b) ==
  a = b \/ (a.rt /\ b.rt /\ Len(LineOf(n, a).stops) = Len(LineOf(n, b).stops))

AlternativesAmong(n, q, range, original, max_alternatives, found) ==
  LET InTime(legs) == range.dir = -1 \/ Last(legs).arr <= range.until
      upto == {i \in DOMAIN found : \A y \in 1..i : InTime(found[y])}
      IsOriginal(leg) == /\ leg.kind = "ride" /\ IsSameRun(n, leg.run, original.run)
                         /\ leg.first = original.first /\ leg.last = original.last
      Others(optimized) ==
        SelectSeq(optimized, LAMBDA legs : \A i \in DOMAIN legs : ~IsOriginal(legs[i]))
  IN  UNION {{others[i] : i \in {i \in DOMAIN others : i <= max_alternatives}} :
               others \in {Others([i \in 1..Cardinality(upto) |-> optimize_footpaths(n, q, <<>>, found[i])])}}

(***************************************************************************)
(* Alternatives to a ride, between the ride before it and the one after:   *)
(* later departures; for a first ride with one after it, earlier arrivals. *)
(***************************************************************************)
RidesOf(legs) == {i \in DOMAIN legs : legs[i].kind = "ride"}

get_leg_alternatives(n, q, legs, i, max_alternatives) ==
  LET before == {x \in RidesOf(legs) : x < i}
      after == {x \in RidesOf(legs) : x > i}
      prev == legs[Max(before)]
      next == legs[Min(after)]
      base == make_alternative_query(q, IF before = {} THEN 0 ELSE prev.to, IF after = {} THEN 0 ELSE next.from)
      from_start ==
        IF before # {} THEN base
        ELSE [base EXCEPT !.start_match_mode = q.start_match_mode, !.start = q.start, !.td_start = q.td_start,
                          !.use_start_footpaths = q.use_start_footpaths]
      direct_query ==
        IF after # {} THEN from_start
        ELSE [from_start EXCEPT !.dest_match_mode = q.dest_match_mode, !.destination = q.destination,
                                !.td_dest = q.td_dest]
      no_limit == Last(legs).arr + kMaxTravelTime * DayLength
      range == IF before = {} /\ after # {} THEN [dir |-> -1, from |-> next.dep, until |-> no_limit]
                ELSE [dir |-> 1, from |-> IF before = {} THEN legs[1].dep ELSE prev.arr,
                      until |-> IF after = {} THEN no_limit ELSE next.dep]
  IN  UNION {AlternativesAmong(n, x[1], x[2], legs[i], max_alternatives,
                               get_direct_journeys(n, x[1], x[2].dir, x[2].from)) :
               x \in {<<direct_query, range>>}}

-----------------------------------------------------------------------------
(***************************************************************************)
(* pong: between a ride and the one after the next, the earliest direct    *)
(* journey replaces the ride in the middle. The walk to it starts at once, *)
(* unless it depends on the time.                                          *)
(***************************************************************************)
get_earliest_alternative(n, q, from, to, from_arr, to_dep) ==
  LET Starting(walk) ==
        IF IsTd(q, n.td_out, walk.from) THEN walk
        ELSE [walk EXCEPT !.dep = from_arr, !.arr = from_arr + (walk.arr - walk.dep)]
  IN  {[found[1] EXCEPT ![1] = Starting(@)] :
         found \in {found \in {get_direct_journeys(n, make_alternative_query(q, from, to), 1, from_arr)} :
                     found # <<>> /\ Last(found[1]).arr <= to_dep}}

replace_middle_rides(n, q, legs) ==
  LET Replaced(now, i) ==
        {[now EXCEPT ![i + 1] = e[1], ![i + 2] = e[2], ![i + 3] = e[3]] :
           e \in IF \E x \in {i, i + 2, i + 4} : now[x].kind # "ride" THEN {}
                 ELSE get_earliest_alternative(n, q, now[i].to, now[i + 4].from, now[i].arr, now[i + 4].dep)}
  IN  ForEach(LAMBDA now, i : The(IfNone(Replaced(now, i), now)), legs, 1..Len(legs) - 4)

=============================================================================
