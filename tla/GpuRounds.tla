------------------------------ MODULE GpuRounds ------------------------------
(***************************************************************************)
(* RAPTOR on the GPU (raptor_impl.cuh): what its kernels read and write.   *)
(* Networks and queries are those of RaptorRounds, a query has no vias.    *)
(*                                                                         *)
(* A label of round_times_ and tmp_ is a word [t, bc]: a time and the      *)
(* breadcrumb of the ride it came with. Words are only ever lowered, by    *)
(* an atomic minimum (device_times::update_min): of equal times the        *)
(* smaller breadcrumb stays.                                               *)
(***************************************************************************)
EXTENDS Itineraries, RaptorRounds, SequencesExt

(***************************************************************************)
(* A breadcrumb has the transport in its low and the stops in its high     *)
(* bits. Transports are <<0, route, position>>, real-time transports,      *)
(* which count down from the sentinel, <<1, -index, 0>>. The traffic day   *)
(* is not stored.                                                          *)
(***************************************************************************)
make_transport_payload(transport, board, alight) == <<alight, board>> \o transport
route_transport(i, pos) == <<0, i, pos>>
encode_rt_bc_transport(i) == <<1, -i, 0>>
make_start_bc == <<0, 0, 2, 0, 0>>
kBcMask == <<2047, 2047, 2, 0, 0>>

bc_alight(bc) == bc[1]
bc_board(bc) == bc[2]
bc_is_start(bc) == bc[3] = 2
is_rt_bc_transport(bc) == bc[3] = 1
decode_rt_bc_transport(bc) == -bc[4]

LOCAL BcLess(a, b) == \E i \in 1..5 : a[i] < b[i] /\ \A j \in 1..i - 1 : a[j] = b[j]

invalid_packed(q) == [t |-> kInvalid(q), bc |-> kBcMask]

\* Mutant: a store, whatever is there by now.
update_min_Store(q, word, t, bc) == [t |-> t, bc |-> bc]
\* Mutant: the breadcrumb is stored beside the time.
update_min_Torn(q, word, t, bc) == [t |-> best_of(q, t, word.t), bc |-> bc]
update_min(q, word, t, bc) ==
  IF better(q, t, word.t) \/ (t = word.t /\ BcLess(bc, word.bc)) THEN [t |-> t, bc |-> bc]
  ELSE word

-----------------------------------------------------------------------------
(***************************************************************************)
(* The device memory. touched has the labels that any start time wrote,    *)
(* et_result the earliest transport at each stop of a marked route.        *)
(***************************************************************************)
Words(n, q) == [l \in Nodes(n) |-> invalid_packed(q)]
Times0(n, q) == [l \in Nodes(n) |-> kInvalid(q)]

DeviceState(n, q) ==
  [time_at_dest |-> [k \in Rounds |-> kInvalid(q)],
   round_times |-> [k \in Rounds |-> Words(n, q)],
   best |-> Times0(n, q), tmp |-> Words(n, q),
   station_mark |-> {}, prev_station_mark |-> {}, route_mark |-> {}, rt_transport_mark |-> {},
   touched |-> {}, reusable |-> FALSE, any_marked |-> FALSE, et_result |-> <<>>,
   bounds |-> NoBounds]

device_reset_arrivals(n, q, s) ==
  [s EXCEPT !.time_at_dest = [k \in Rounds |-> kInvalid(q)],
            !.round_times = [k \in Rounds |-> Words(n, q)],
            !.touched = {}, !.reusable = FALSE]

device_next_start_time(n, q, s) ==
  [s EXCEPT !.best = Times0(n, q), !.tmp = Words(n, q),
            !.station_mark = {}, !.prev_station_mark = {},
            !.route_mark = {}, !.rt_transport_mark = {}]

relax(q, s, k, l, t, bc) ==
  [s EXCEPT !.round_times[k][l] = update_min(q, @, t, bc), !.touched = @ \cup {<<k, l>>}]

improve(q, s, l, t) == [s EXCEPT !.best[l] = best_of(q, t, @)]

device_update_time_at_dest(q, s, k, max_transfers, t) ==
  [s EXCEPT !.time_at_dest = [i \in Rounds |->
     IF i \in k..max_transfers THEN best_of(q, @[i], t) ELSE @[i]]]

init_arrivals(q, s, starts, worst_time_at_dest) ==
  LET Seed(s1, x) ==
        [improve(q, relax(q, s1, 0, x.stop, clamp(x.time), make_start_bc), x.stop, clamp(x.time))
           EXCEPT !.station_mark = @ \cup {x.stop}]
  IN  MapThenFoldSet(LAMBDA x, s1 : Seed(s1, x),
        [s EXCEPT !.time_at_dest = [i \in Rounds |-> best_of(q, @[i], clamp(worst_time_at_dest))]],
        LAMBDA x : x, LAMBDA T : CHOOSE x \in T : TRUE, starts)

(***************************************************************************)
(* Labels that earlier start times left in the round count for this one.   *)
(* The limit is taken from the destinations by other threads of the same   *)
(* kernel: those in early read the best time before it is updated.         *)
(***************************************************************************)
reuse_previous_arrivals(n, q, s, k, max_transfers, early) ==
  LET best == [l \in Nodes(n) |-> IF <<k, l>> \in s.touched
                                  THEN best_of(q, s.round_times[k][l].t, s.best[l]) ELSE s.best[l]]
      seen(d) == IF d \in early THEN s.best[d] ELSE best[d]
      reset == [s EXCEPT !.any_marked = FALSE]
  IN  IF ~s.reusable THEN reset
      ELSE ForEach(LAMBDA s1, d : device_update_time_at_dest(q, s1, k, max_transfers, seen(d)),
                   [reset EXCEPT !.best = best], q.is_dest)

mark_from_locations(n, s) ==
  LET routes == MarkedBy(n.routes, s.station_mark)
      rt_transports == MarkedBy(n.rt_transports, s.station_mark)
  IN  [s EXCEPT !.route_mark = @ \cup routes, !.rt_transport_mark = @ \cup rt_transports,
                !.any_marked = @ \/ routes \cup rt_transports # {}]

swap_reset(s) == [s EXCEPT !.prev_station_mark = s.station_mark, !.station_mark = {}]

-----------------------------------------------------------------------------
(***************************************************************************)
(* Each stop of a marked route where a label waits looks for its earliest  *)
(* transport, without lower bounds and before any ride of this round.      *)
(***************************************************************************)
earliest_transport_at(n, q, s, k, r, i) ==
  LET stp == r.stops[StopIdx(q, r, i)]
      time == s.round_times[k - 1][stp.loc].t
  IN  IF \/ i = Len(r.stops) \/ stp.loc \notin s.prev_station_mark
         \/ ~can_start(q, stp) \/ time = kInvalid(q)
      THEN NoTransport
      ELSE get_earliest_transport(q.dir, r, BoardEvent(q, r, i), time, 0, s.time_at_dest[k])

run_lookups(n, q, s, k) ==
  [s EXCEPT !.any_marked = FALSE,
            !.et_result = [x \in s.route_mark |->
               [i \in DOMAIN n.routes[x].stops |-> earliest_transport_at(n, q, s, k, n.routes[x], i)]]]

(***************************************************************************)
(* A warp has the stops of a route on its lanes. The transport that        *)
(* arrives at a stop is the least key of those before it, up to the last   *)
(* section that ends rides: first by traffic day and transport (in search  *)
(* direction), then by the stop where it is boarded.                       *)
(***************************************************************************)
pack_et(q, et) == <<q.dir * et.day, q.dir * et.pos>>
KeyLess(a, b) == a[1] < b[1] \/ (a[1] = b[1] /\ a[2] < b[2])

BoardedBefore(q, r, et, i) ==
  {j \in 1..i - 1 : et[j] # NoTransport /\ \A x \in j + 1..i : ~EndsRides(q, r, x)}

earliest_ride(q, r, et, i) ==
  CHOOSE j \in BoardedBefore(q, r, et, i) :
    \A x \in BoardedBefore(q, r, et, i) \ {j} :
      \/ KeyLess(pack_et(q, et[j]), pack_et(q, et[x]))
      \/ pack_et(q, et[j]) = pack_et(q, et[x]) /\ j < x

\* A transport arrives at the i-th stop.
arrive(n, q, s, k, r, i, t, transport, board) ==
  LET l == r.stops[StopIdx(q, r, i)].loc
  IN  IF better_or_eq(q, t, s.time_at_dest[k]) /\ within_bounds(n, q, s, k, l, t, 0)
      THEN [s EXCEPT !.tmp[l] = update_min(q, @, t, make_transport_payload(transport,
                                             StopIdx(q, r, board), StopIdx(q, r, i))),
                     !.station_mark = @ \cup {l}, !.any_marked = TRUE]
      ELSE s

update_route_warp(n, q, k, state, x) ==
  LET r == n.routes[x]
      et == state.et_result[x]
      Stop(s, i) ==
        LET board == earliest_ride(q, r, et, i)
        IN  IF BoardedBefore(q, r, et, i) = {} \/ ~can_finish(q, r.stops[StopIdx(q, r, i)]) THEN s
            ELSE arrive(n, q, s, k, r, i, RideTime(r, et[board], AlightEvent(q, r, i)),
                        route_transport(x, et[board].pos), board)
  IN  ForEach(Stop, state, 2..Len(r.stops))

\* A real-time transport is boarded at the last stop possible.
update_rt_transport_warp(n, q, k, state, x) ==
  LET r == n.rt_transports[x]
      Boards(i) ==
        {j \in 1..i - 1 :
           LET stp == r.stops[StopIdx(q, r, j)]
           IN  /\ can_start(q, stp) /\ stp.loc \in state.prev_station_mark
               /\ better_or_eq(q, state.round_times[k - 1][stp.loc].t, clamp(r.times[BoardEvent(q, r, j)]))
               /\ \A y \in j + 1..i : ~EndsRides(q, r, y)}
      Stop(s, i) ==
        IF Boards(i) = {} \/ ~can_finish(q, r.stops[StopIdx(q, r, i)]) THEN s
        ELSE arrive(n, q, s, k, r, i, clamp(r.times[AlightEvent(q, r, i)]), encode_rt_bc_transport(x),
                    CHOOSE j \in Boards(i) : \A y \in Boards(i) : y <= j)
  IN  ForEach(Stop, state, 2..Len(r.stops))

\* No word is read that is written: the warps' order does not matter.
device_loop_routes(n, q, k, state) ==
  ForEach(LAMBDA s, x : update_rt_transport_warp(n, q, k, s, x),
          ForEach(LAMBDA s, x : update_route_warp(n, q, k, s, x), state,
                  {x \in state.route_mark : is_used(q, n.routes[x])}),
          {x \in state.rt_transport_mark : is_used(q, n.rt_transports[x])})

-----------------------------------------------------------------------------
(***************************************************************************)
(* Transfers and footpaths. A thread at a marked location reads the limit  *)
(* once; then its targets are relaxed, by several threads if they are      *)
(* many. A relaxation reads the best time of its target and writes later.  *)
(***************************************************************************)
relaxations(n, q, s, l, limit) ==
  LET word == s.tmp[l]
      To(kind, target, d) ==
        [kind |-> kind, target |-> target, t |-> clamp(word.t + q.dir * d), bc |-> word.bc,
         limit |-> limit]
      td_fps == (IF q.dir = 1 THEN n.td_out ELSE n.td_in)[l]
  IN  IF word.t = kInvalid(q) THEN {}
      ELSE {To("walk", l, IF ~q.intermodal /\ l \in q.is_dest THEN 0
                          ELSE adjusted_transfer_time(q, n.transfer_time[l]))}
           \cup {To("egress", kEnd, q.dist_to_end[l]) :
                   x \in {x \in {l} : q.intermodal /\ q.dist_to_end[x] # kUnreachable}}
           \cup {To("walk", fp.target, fp.td.duration) :
                   fp \in IF q.td THEN for_each_footpath(q.dir, td_fps, word.t) ELSE {}}
           \cup {To("walk", IF q.dir = 1 THEN fp.to ELSE fp.from, adjusted_transfer_time(q, fp.duration)) :
                   fp \in StaticFootpaths(n, q, l)}

td_dest_offsets(q, s) ==
  LET stops == {l \in s.prev_station_mark :
                  /\ q.intermodal /\ q.td_dest[l] # <<>> /\ s.tmp[l].t # kInvalid(q)
                  /\ Found(get_td_duration(q.dir, q.td_dest[l], s.tmp[l].t))}
  IN  {[kind |-> "td_egress", target |-> kEnd, bc |-> s.tmp[l].bc, limit |-> kInvalid(q),
        t |-> clamp(s.tmp[l].t + q.dir * get_td_duration(q.dir, q.td_dest[l], s.tmp[l].t).duration)] :
          l \in stops}

improves(q, s, x) == better(q, x.t, s.best[x.target])

\* Without bounds, the round has it even if it is pruned.
loosely_relaxed(q, s, k, x) ==
  IF x.kind = "walk" /\ s.bounds.last = 0 /\ improves(q, s, x) THEN relax(q, s, k, x.target, x.t, x.bc)
  ELSE s

passes(n, q, s, k, x) ==
  /\ better_or_eq(q, x.t, IF x.kind = "td_egress" THEN s.time_at_dest[k] ELSE x.limit)
  /\ x.kind # "egress" => improves(q, s, x)
  /\ x.kind = "walk" => within_bounds(n, q, s, k, x.target, x.t, 0)

relax_fp_target(q, s, k, max_transfers, x) ==
  LET relaxed == improve(q, relax(q, s, k, x.target, x.t, x.bc), x.target, x.t)
      marked == IF x.kind = "walk" THEN [relaxed EXCEPT !.station_mark = @ \cup {x.target}] ELSE relaxed
  IN  IF x.kind # "walk" \/ x.target \in q.is_dest
      THEN device_update_time_at_dest(q, marked, k, max_transfers, x.t) ELSE marked

\* Mutant: what it was reached with before the round.
fill_bounds_kernel_Before(n, q, s, last) ==
  [last |-> last,
   rows |-> [k \in 0..last |-> [l \in Nodes(n) |-> [v \in {0} |->
               ForEach(LAMBDA b, x : best_of(q, s.round_times[x][l].t, b), kInvalid(q), 0..k - 1)]]]]
\* What each location was reached with by the round, also in an earlier one.
fill_bounds_kernel(n, q, s, last) ==
  LET HasTd(l) == q.td /\ l # kEnd /\ (IF q.dir = 1 THEN n.td_out ELSE n.td_in)[l] # <<>>
      BestBy(k, l) == ForEach(LAMBDA b, x : best_of(q, s.round_times[x][l].t, b), kInvalid(q), 0..k)
  IN  [last |-> last,
       rows |-> [k \in 0..last |-> [l \in Nodes(n) |-> [v \in {0} |->
                   IF HasTd(l) THEN (IF q.dir = 1 THEN -MaxDelta - 1 ELSE MaxDelta)
                   ELSE BestBy(k, l)]]]]

-----------------------------------------------------------------------------
(***************************************************************************)
(* Journeys from the breadcrumbs: the device follows them from the label   *)
(* of a destination, the host puts the legs in chronological order and     *)
(* moves the walks to where they are walked. A leg is [walk, from, to,     *)
(* dep, arr, bc, day]; bc and day are those of the ride.                   *)
(***************************************************************************)

kMaxRecLegs == 2 * kMaxTransfers + 4

LOCAL Least(S) == CHOOSE x \in S : \A y \in S : x <= y

(***************************************************************************)
(* The traffic day of the ride with which l was reached at arr: the last   *)
(* one, in search direction, on which it arrives by then.                  *)
(***************************************************************************)
traffic_days(q, r, pos, event, arr) ==
  LET day(offset) == days(arr) - days(r.times[pos][event]) - q.dir * offset
  IN  {offset \in 0..MaxTravelDays :
         /\ day(offset) \in r.days[pos]
         /\ better_or_eq(q, clamp(EventTime(r, pos, day(offset), event)), arr)}

find_day(q, r, pos, event, arr) ==
  days(arr) - days(r.times[pos][event]) - q.dir * Least(traffic_days(q, r, pos, event, arr))

IsOnRoute(bc) == ~is_rt_bc_transport(bc)
LineOf(n, bc) == IF IsOnRoute(bc) THEN n.routes[bc[4]] ELSE n.rt_transports[decode_rt_bc_transport(bc)]

(***************************************************************************)
(* One round back: the ride that led to the location, and the walk or      *)
(* transfer after it.                                                      *)
(***************************************************************************)
reconstruct_round(n, q, s, k, a) ==
  LET word == s.round_times[k][a.loc]
      bc == word.bc
      r == LineOf(n, bc)
      \* board and alight are positions in the stop sequence
      alight_event == IF q.dir = 1 THEN ArrivalOf(bc_alight(bc)) ELSE DepartureOf(bc_alight(bc))
      board_event == IF q.dir = 1 THEN DepartureOf(bc_board(bc)) ELSE ArrivalOf(bc_board(bc))
      day == IF IsOnRoute(bc) THEN find_day(q, r, bc[5], alight_event, word.t) ELSE 0
      at(event) == clamp(IF IsOnRoute(bc) THEN EventTime(r, bc[5], day, event) ELSE r.times[event])
      alight == r.stops[bc_alight(bc)].loc
      board == r.stops[bc_board(bc)].loc
      walk == [walk |-> TRUE, from |-> alight, to |-> a.loc, dep |-> at(alight_event), arr |-> word.t,
               bc |-> bc, day |-> day]
      ride == [walk |-> FALSE, from |-> board, to |-> alight, dep |-> at(board_event),
               arr |-> at(alight_event), bc |-> bc, day |-> day]
      is_egress == q.intermodal /\ a.loc = kEnd
      no_walk == is_egress \/ (a.legs = <<>> /\ alight = a.loc /\ at(alight_event) = word.t)
      legs == a.legs \o (IF no_walk THEN <<ride>> ELSE <<walk, ride>>)
  IN  IF a.done \/ bc_is_start(bc) THEN [a EXCEPT !.done = TRUE]
      ELSE IF IsOnRoute(bc) /\ traffic_days(q, r, bc[5], alight_event, word.t) = {}
      THEN [a EXCEPT !.done = TRUE, !.failed = TRUE]
      ELSE [a EXCEPT !.legs = legs, !.loc = board, !.failed = Len(legs) > kMaxRecLegs,
                     !.done = Len(legs) > kMaxRecLegs, !.dest = IF is_egress THEN alight ELSE @]

reconstruct_journey(n, q, s, dest, K) ==
  LET back == ForEach(LAMBDA a, i : reconstruct_round(n, q, s, K - i, a),
                [loc |-> dest, dest |-> dest, legs |-> <<>>, done |-> FALSE, failed |-> FALSE], 0..K - 1)
  IN  [back EXCEPT !.failed = @ \/ back.legs = <<>>]

-----------------------------------------------------------------------------
Chronological(q, legs) ==
  IF q.dir = 1 THEN Reverse(legs)
  ELSE [i \in DOMAIN legs |-> [legs[i] EXCEPT !.from = legs[i].to, !.to = legs[i].from,
                                              !.dep = legs[i].arr, !.arr = legs[i].dep]]

has_td_at(q, td, l) == q.td /\ td[l] # <<>>
IsTdWalk(n, q, leg) == leg.from # leg.to /\ has_td_at(q, n.td_out, leg.from)

(***************************************************************************)
(* Walks start when the ride before them arrives (after a backward search  *)
(* they end when the next one leaves), unless they depend on the time.     *)
(***************************************************************************)
re_anchor(n, q, legs) ==
  [i \in DOMAIN legs |->
     IF i = 1 \/ ~legs[i].walk \/ IsTdWalk(n, q, legs[i]) THEN legs[i]
     ELSE [legs[i] EXCEPT !.dep = legs[i - 1].arr,
                          !.arr = legs[i - 1].arr + (legs[i].arr - legs[i].dep)]]

\* Walks to a target in a list of time-dependent footpaths.
LOCAL WalksTo(dir, c, t, target) == {fp \in for_each_footpath(dir, c, t) : fp.target = target}

shorten(n, q, legs) ==
  LET Key(leg) == IF q.dir = 1 THEN leg.to ELSE leg.from
      Walks(leg) ==
        IF ~leg.walk \/ ~has_td_at(q, IF q.dir = 1 THEN n.td_in ELSE n.td_out, Key(leg)) THEN {}
        ELSE WalksTo(-1, (IF q.dir = 1 THEN n.td_in ELSE n.td_out)[Key(leg)], leg.arr,
                     IF q.dir = 1 THEN leg.from ELSE leg.to)
      Walked(leg, fp) ==
        [leg EXCEPT !.dep = leg.arr - fp.td.duration, !.arr = leg.arr - fp.td.duration + fp.td.walk]
  IN  [i \in DOMAIN legs |->
         IF Walks(legs[i]) = {} THEN legs[i]
         ELSE Walked(legs[i], CHOOSE fp \in Walks(legs[i]) : TRUE)]

\* Backward searches: such a walk starts as soon as it can after the arrival.
walk_early(n, q, legs) ==
  LET Walks(i) == {fp \in WalksTo(1, n.td_out[legs[i].from], legs[i - 1].arr, legs[i].to) :
                     legs[i - 1].arr + fp.td.duration <= legs[i].arr}
      Walked(i, fp) ==
        [legs[i] EXCEPT !.dep = legs[i - 1].arr + fp.td.duration - fp.td.walk,
                        !.arr = legs[i - 1].arr + fp.td.duration]
  IN  [i \in DOMAIN legs |->
         IF q.dir = 1 \/ i = 1 \/ ~legs[i].walk \/ ~IsTdWalk(n, q, legs[i]) \/ Walks(i) = {} THEN legs[i]
         ELSE Walked(i, CHOOSE fp \in Walks(i) : TRUE)]

materialize(n, q, legs) == walk_early(n, q, shorten(n, q, re_anchor(n, q, Chronological(q, legs))))

\* The journeys of all destinations and rounds, added one by one.
collect_journeys(n, q, s, start_time, end_k, results) ==
  LET labels == {x \in (1..end_k - 1) \X q.is_dest : s.round_times[x[1]][x[2]].t # kInvalid(q)}
      built(x) == reconstruct_journey(n, q, s, x[2], x[1])
      journey(x) ==
        LET j == built(x)
        IN  [start |-> start_time, dest |-> s.round_times[x[1]][x[2]].t, transfers |-> x[1] - 1,
             at |-> j.dest, legs |-> materialize(n, q, j.legs)]
      After(x, y) == y[2] < x[2] \/ (y[2] = x[2] /\ y[1] <= x[1])
  IN  MapThenFoldSet(LAMBDA j, found : add(found, j), results, journey,
                     LAMBDA T : CHOOSE x \in T : \A y \in T : After(x, y),
                     {x \in labels : ~built(x).failed})
=============================================================================
