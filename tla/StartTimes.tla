------------------------------ MODULE StartTimes ------------------------------
(***************************************************************************)
(* Where and when a search starts (start_times.cc).                        *)
(*                                                                         *)
(* A query, as a user states it, is a record of                            *)
(*   start, destination : sets of [target, duration]                       *)
(*   td_start, td_dest  : for each location its time-dependent offsets, a  *)
(*                        list as in RaptorRounds; <<>> if it has none     *)
(*   start_match_mode, dest_match_mode, use_start_footpaths                *)
(*   via_stops          : a sequence of [location, stay]                   *)
(*   max_start_offset, transfer, wheelchair and what the drivers need.     *)
(* A start is [time_at_start, time_at_stop, stop, v]. The events of a      *)
(* network's transports are those of RaptorRounds.                         *)
(***************************************************************************)
EXTENDS RaptorRounds, SequencesExt

\* Intervals are half open.
contains(iv, t) == iv.from <= t /\ t < iv.to

\* An offset is a duration, or a list of durations by time.
Fixed(d) == [td |-> FALSE, duration |-> d]
ByTime(list) == [td |-> TRUE, list |-> list]

\* The departures at a start are looked up backwards, from the event.
get_duration(dir, t, offset, invert) ==
  IF ~offset.td THEN offset.duration
  ELSE LET d == get_td_duration(IF invert THEN -dir ELSE dir, offset.list, t)
       IN  IF Found(d) THEN d.duration ELSE kMaxDuration

\* Entering at the last stop, or leaving at the first one, leads nowhere.
StartsAt(dir, q, r, i) ==
  /\ i # (IF dir = 1 THEN Len(r.stops) ELSE 1)
  /\ can_start([dir |-> dir, wheelchair |-> q.wheelchair], r.stops[i])

StartEvent(dir, i) == IF dir = 1 THEN DepartureOf(i) ELSE ArrivalOf(i)

-----------------------------------------------------------------------------
(***************************************************************************)
(* The departures at a stop of a route, transport by transport, day by     *)
(* day; one that is no improvement over the last start is left out.        *)
(***************************************************************************)
NoImprovement(dir, starts, x) ==
  /\ starts # <<>>
  /\ Last(starts).time_at_start = x.time_at_start
  /\ Last(starts).v = x.v
  /\ is_better_or_eq(dir, Last(starts).time_at_stop, x.time_at_stop)

StartOf(dir, ev_time, d, l, v) ==
  [time_at_start |-> ev_time - dir * d, time_at_stop |-> ev_time, stop |-> l, v |-> v]

add_start_times_at_stop(dir, r, i, l, iv_at_start, iv_at_stop, offset, v, starts) ==
  LET event == StartEvent(dir, i)
      OnDay(t, found, day) ==
        LET ev_time == day * DayLength + mam(r.times[t][event])
            d == get_duration(dir, ev_time, offset, TRUE)
            x == StartOf(dir, ev_time, d, l, v)
        IN  IF /\ day - days(r.times[t][event]) \in r.days[t]
               /\ contains(iv_at_stop, ev_time)
               /\ d # kMaxDuration
               /\ contains(iv_at_start, x.time_at_start)
               /\ ~NoImprovement(dir, found, x)
            THEN Append(found, x) ELSE found
  IN  ForEach(LAMBDA found, t :
                ForEach(LAMBDA found1, day : OnDay(t, found1, day), found,
                        days(iv_at_stop.from)..days(iv_at_stop.to)),
              starts, DOMAIN r.times)

\* The real-time transports at l.
add_rt_starts(n, dir, q, iv, l, offset, v, starts) ==
  LET At(r, found, i) ==
        LET ev_time == r.times[StartEvent(dir, i)]
            d == get_duration(dir, ev_time, offset, TRUE)
            x == StartOf(dir, ev_time, d, l, v)
        IN  IF d # kMaxDuration /\ contains(iv, x.time_at_start)
            THEN Append(found, x) ELSE found
      Stops(r) == {i \in DOMAIN r.stops : r.stops[i].loc = l /\ StartsAt(dir, q, r, i)}
  IN  ForEach(LAMBDA found, x : ForEach(LAMBDA found1, i : At(n.rt_transports[x], found1, i),
                                        found, Stops(n.rt_transports[x])),
              starts, DOMAIN n.rt_transports)

(***************************************************************************)
(* One start at the end of the interval: what it leads to dominates        *)
(* journeys of the interval that are not worth it.                         *)
(***************************************************************************)
add_ontrip_start(dir, iv, l, offset, v, starts) ==
  LET t == IF dir = 1 THEN iv.to ELSE iv.from - 1
      d == get_duration(dir, t, offset, FALSE)
  IN  IF d = kMaxDuration THEN starts
      ELSE Append(starts, [time_at_start |-> t, time_at_stop |-> t + dir * d, stop |-> l, v |-> v])

add_starts_in_interval(n, dir, q, iv, l, offset, v, starts, add_ontrip) ==
  LET iv_at_stop == IF dir = 1 THEN [iv EXCEPT !.to = @ + q.max_start_offset]
                               ELSE [iv EXCEPT !.from = @ - q.max_start_offset]
      OfRoute(found, x) ==
        LET r == n.routes[x]
        IN  ForEach(LAMBDA found1, i :
                      add_start_times_at_stop(dir, r, i, l, iv, iv_at_stop, offset, v, found1),
                    found,
                    {i \in DOMAIN r.stops : r.stops[i].loc = l /\ StartsAt(dir, q, r, i)})
      scheduled == ForEach(OfRoute, starts, DOMAIN n.routes)
      all == add_rt_starts(n, dir, q, iv, l, offset, v, scheduled)
  IN  IF add_ontrip THEN add_ontrip_start(dir, iv, l, offset, v, all) ELSE all

-----------------------------------------------------------------------------
(***************************************************************************)
(* The shortest offset to each stop at which transports can be boarded, on *)
(* the ways that have not (v = 0) or have (v = 1) visited the first via.   *)
(***************************************************************************)
start_via(n, q) ==
  IF q.via_stops = <<>> THEN {} ELSE for_each_meta(n, "equivalent", q.via_stops[1].location)

\* What one start offset is worth: a set of <<v, l, duration>>.
Visiting(n, q, l, d, is_walked_from_via) ==
  IF ~is_walked_from_via /\ l \notin start_via(n, q) THEN {<<0, l, d>>}
  ELSE {<<1, l, d + q.via_stops[1].stay>>}
         \cup (IF q.via_stops[1].stay = 0 THEN {} ELSE {<<0, l, d>>})

StartsBy(n, dir, q) ==
  LET Footpaths(l) ==
        {<<IF dir = 1 THEN fp.to ELSE fp.from, adjusted_transfer_time(q, fp.duration)>> :
           fp \in {fp \in n.footpaths : (IF dir = 1 THEN fp.from ELSE fp.to) = l}}
      At(o, l) ==
        Visiting(n, q, l, o.duration, FALSE)
          \cup (IF q.use_start_footpaths
                THEN UNION {Visiting(n, q, fp[1], o.duration + fp[2], l \in start_via(n, q)) :
                              fp \in Footpaths(l)}
                ELSE {})
  IN  UNION {UNION {At(o, l) : l \in for_each_meta(n, q.start_match_mode, o.target)} :
             o \in q.start}

shortest_start(n, dir, q) ==
  LET all == StartsBy(n, dir, q)
  IN  {x \in all : \A y \in all : <<x[1], x[2]>> = <<y[1], y[2]>> => x[3] <= y[3]}

(***************************************************************************)
(* The stops come from hash maps, in any order.                            *)
(***************************************************************************)
Orders(S) == {p \in [1..Cardinality(S) -> S] : \A i, j \in DOMAIN p : p[i] = p[j] => i = j}
AllOffsets(n, dir, q) ==
  LET walked == {[v |-> x[1], l |-> x[2], offset |-> Fixed(x[3])] : x \in shortest_start(n, dir, q)}
      td == {[v |-> IF l \in start_via(n, q) THEN 1 ELSE 0, l |-> l, offset |-> ByTime(q.td_start[l])] :
               l \in {l \in DOMAIN q.td_start : q.td_start[l] # <<>>}}
  IN  {o1 \o o2 \o o3 : o1 \in Orders({x \in walked : x.v = 0}),
                        o2 \in Orders({x \in walked : x.v = 1}), o3 \in Orders(td)}

AnOrder(orders) == CHOOSE o \in orders : TRUE

\* The starts of an interval, given the order of the stops.
starts_in_interval(n, dir, q, iv, order, add_ontrip) ==
  FoldLeft(LAMBDA found, x :
             add_starts_in_interval(n, dir, q, iv, x.l, x.offset, x.v, found, add_ontrip),
           <<>>, order)

\* The starts at a time.
starts_at(n, dir, q, t, order) ==
  FoldLeft(LAMBDA found, x :
             LET d == get_duration(dir, t, x.offset, FALSE)
             IN  IF d = kMaxDuration THEN found
                 ELSE Append(found, [time_at_start |-> t, time_at_stop |-> t + dir * d,
                                     stop |-> x.l, v |-> x.v]),
           <<>>, order)

-----------------------------------------------------------------------------
(***************************************************************************)
(* What the algorithm is told of the destination and the vias.             *)
(***************************************************************************)
collect_destinations(n, q) ==
  LET dest == UNION {{<<l, d.duration>> : l \in for_each_meta(n, q.dest_match_mode, d.target)} :
                     d \in q.destination}
      least(S) == CHOOSE x \in S : \A y \in S : x <= y
  IN  IF q.dest_match_mode = "intermodal"
      THEN [is_dest |-> {kEnd},
            dist_to_end |-> [l \in AllLocations(n) |->
                               least({kUnreachable} \cup {x[2] : x \in {x \in dest : x[1] = l}})]]
      ELSE [is_dest |-> {x[1] : x \in dest},
            dist_to_end |-> [l \in AllLocations(n) |-> kUnreachable]]

collect_via_destinations(n, via) ==
  [stops |-> for_each_meta(n, "equivalent", via.location), stay |-> via.stay]

(***************************************************************************)
(* query::sanitize, and the settings as search::init corrects them: vias   *)
(* at the same place become one with the sum of the stays.                 *)
(***************************************************************************)
sanitize_via_stops(n, vias) ==
  FoldLeft(LAMBDA merged, via :
             IF merged # <<>> /\ matches(n, "equivalent", Last(merged).location, via.location)
             THEN [merged EXCEPT ![Len(merged)].stay = @ + via.stay] ELSE Append(merged, via),
           <<>>, vias)

Corrected(transfer) ==
  LET AtLeast(low, x) == IF x < low THEN low ELSE x
      factor == AtLeast(1, transfer.factor)
      min == AtLeast(0, transfer.min)
      additional == AtLeast(0, transfer.additional)
  IN  [default |-> factor = 1 /\ min = 0 /\ additional = 0,
       factor |-> factor, min |-> min, additional |-> additional]

sanitize(n, q) ==
  [q EXCEPT !.max_travel_time = IF @ < 0 \/ @ > kMaxTravelTime THEN kMaxTravelTime ELSE @,
            !.via_stops = sanitize_via_stops(n, @)]

\* search::init: an algorithm for the query.
init(n, dir, q, lb) ==
  LET dest == collect_destinations(n, q)
  IN  [dir |-> dir, intermodal |-> q.dest_match_mode = "intermodal",
       is_dest |-> dest.is_dest, dist_to_end |-> dest.dist_to_end, td_dest |-> q.td_dest,
       vias |-> [i \in DOMAIN q.via_stops |-> collect_via_destinations(n, q.via_stops[i])],
       claszes |-> q.claszes, flags |-> q.flags, wheelchair |-> q.wheelchair, td |-> q.td,
       lb |-> lb, transfer |-> q.transfer]

\* Mutant: the vias stay in their order.
flip_dir_Vias(q) ==
  [q EXCEPT !.start = q.destination, !.destination = q.start,
            !.td_start = q.td_dest, !.td_dest = q.td_start,
            !.start_match_mode = q.dest_match_mode, !.dest_match_mode = q.start_match_mode]
flip_dir(q) ==
  [q EXCEPT !.start = q.destination, !.destination = q.start,
            !.td_start = q.td_dest, !.td_dest = q.td_start,
            !.start_match_mode = q.dest_match_mode, !.dest_match_mode = q.start_match_mode,
            !.via_stops = Reverse(q.via_stops)]

=============================================================================
