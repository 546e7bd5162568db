----------------------------- MODULE RaptorRounds -----------------------------
(***************************************************************************)
(* The rounds of RAPTOR (raptor.h) on a network n for a query q.           *)
(*                                                                         *)
(* A network (see Locations) also has                                      *)
(*   transfer_time : of each location                                      *)
(*   footpaths     : a set of [from, to, duration], those of the profile   *)
(*   td_out, td_in : for each location its time-dependent footpaths, a     *)
(*                   list as below; <<>> if it has none                    *)
(*   routes        : a sequence of routes as in Transports, with stops and *)
(*                   filters                                               *)
(*   rt_transports : a sequence of [stops, times, clasz, sections]         *)
(* Stops are [loc, in, out, in_wheelchair, out_wheelchair]; sections gives *)
(* for each flag which sections have it.                                   *)
(*                                                                         *)
(* A query is [dir, intermodal, is_dest, dist_to_end, td_dest, vias,       *)
(* claszes, flags, wheelchair, td, lb, transfer, max_transfers]; a via is  *)
(* [stops, stay]. Labels are kept for each number of vias that have been   *)
(* visited, times count from the base day.                                 *)
(***************************************************************************)
EXTENDS Transports, Locations, Journeys, Folds

(***************************************************************************)
(* Time-dependent footpaths: the way between two places takes a duration   *)
(* that depends on the time (an elevator is out of order until noon). A    *)
(* list has an entry [target, valid_from, duration] per period, sorted by  *)
(* target and begin of the period; it ends where the next one begins. A    *)
(* period of duration kMaxDuration cannot be walked in.                    *)
(***************************************************************************)

CONSTANTS
  kMaxDuration,
  kMaxTravelTime

kForward == 1
kBackward == -1
flip(dir) == -dir
NoDuration == [duration |-> -1]
Found(td) == td # NoDuration

Earliest(S) == CHOOSE x \in S : \A y \in S : x <= y
Latest(S) == CHOOSE x \in S : \A y \in S : x >= y
Smaller(x, y) == IF x < y THEN x ELSE y
Larger(x, y) == IF x < y THEN y ELSE x

(***************************************************************************)
(* get_td_duration takes the first period that is not over at t (searching *)
(* forward) or the last one in which t can still be reached. The duration  *)
(* returned includes the time waited, "walk" does not.                     *)
(***************************************************************************)
td_duration_fwd(c, t) ==
  LET candidates ==
        {i \in DOMAIN c : /\ c[i].duration # kMaxDuration
                          /\ ~(/\ c[i].valid_from < t /\ i # Len(c)
                               /\ c[i + 1].valid_from <= t)}
      i == Earliest(candidates)
  IN  IF candidates = {} \/ c[Earliest(candidates)].valid_from - t > kMaxTravelTime
      THEN NoDuration
      ELSE [duration |-> Larger(c[i].valid_from, t) + c[i].duration - t,
            walk |-> c[i].duration]

latest_arr(c, i, t) ==
  IF i = Len(c) THEN t ELSE Smaller(t, c[i + 1].valid_from - 1 + c[i].duration)

td_duration_bwd(c, t) ==
  LET candidates ==
        {i \in DOMAIN c : /\ c[i].duration # kMaxDuration
                          /\ c[i].valid_from + c[i].duration <= t}
      i == Latest(candidates)
  IN  IF candidates = {} \/ t - latest_arr(c, Latest(candidates), t) > kMaxTravelTime
      THEN NoDuration
      ELSE [duration |-> t - (latest_arr(c, i, t) - c[i].duration),
            walk |-> c[i].duration]

get_td_duration(dir, c, t) ==
  IF dir = kForward THEN td_duration_fwd(c, t) ELSE td_duration_bwd(c, t)

(***************************************************************************)
(* One call per run of entries with the same target.                       *)
(***************************************************************************)
for_each_footpath(dir, c, t) ==
  LET starts == {i \in DOMAIN c : i = 1 \/ c[i - 1].target # c[i].target}
      RangeFrom(i) ==
        SubSeq(c, i, Latest({j \in i..Len(c) :
                               \A k \in i..j : c[k].target = c[i].target}))
  IN  {[target |-> c[i].target, td |-> get_td_duration(dir, RangeFrom(i), t)] :
         i \in {i \in starts : Found(get_td_duration(dir, RangeFrom(i), t))}}

-----------------------------------------------------------------------------
CONSTANTS
  kMaxTransfers,
  MaxDelta       \* the highest delta_t

ASSUME LabelAssumption ==
  kMaxTransfers \in Nat /\ MaxDelta \in Nat

kEnd == -1       \* the special station that stands for the destination
kUnreachable == 65535

clamp(t) == IF t > MaxDelta THEN MaxDelta ELSE IF t < -MaxDelta - 1 THEN -MaxDelta - 1 ELSE t
kInvalid(q) == IF q.dir = 1 THEN MaxDelta ELSE -MaxDelta - 1

Rounds == 0..kMaxTransfers + 1
Nodes(n) == AllLocations(n) \cup {kEnd}
Vias(q) == Len(q.vias)
ViaCounts(q) == 0..Vias(q)

better(q, a, b) == is_better(q.dir, a, b)
better_or_eq(q, a, b) == is_better_or_eq(q.dir, a, b)
best_of(q, a, b) == get_best(q.dir, a, b)

\* A loop over the set bits of a bit field, or over a range: ascending.
last_of(S) == CHOOSE m \in S : \A y \in S : m >= y
ForEach(op(_, _), base, S) ==
  MapThenFoldSet(LAMBDA x, y : op(y, x), base, LAMBDA x : x, last_of, S)

\* A loop whose order does not matter.
any_of(S) == CHOOSE m \in S : TRUE
ForAny(op(_, _), base, S) ==
  MapThenFoldSet(LAMBDA x, y : op(y, x), base, LAMBDA x : x, any_of, S)

adjusted_transfer_time(q, d) ==
  IF q.transfer.default THEN d
  ELSE q.transfer.additional
         + (LET scaled == d * q.transfer.factor
            IN  IF scaled > q.transfer.min THEN scaled ELSE q.transfer.min)

can_start(q, stp) ==
  IF q.dir = 1 THEN IF q.wheelchair THEN stp.in_wheelchair ELSE stp.in
               ELSE IF q.wheelchair THEN stp.out_wheelchair ELSE stp.out
can_finish(q, stp) ==
  IF q.dir = 1 THEN IF q.wheelchair THEN stp.out_wheelchair ELSE stp.out
               ELSE IF q.wheelchair THEN stp.in_wheelchair ELSE stp.in

-----------------------------------------------------------------------------
(***************************************************************************)
(* The algorithm's state: labels per round, location and number of vias;   *)
(* the best of all rounds, and the arrivals by transports of this round.   *)
(***************************************************************************)
Invalid(n, q) == [l \in Nodes(n) |-> [v \in ViaCounts(q) |-> kInvalid(q)]]

NoBounds == [last |-> 0, rows |-> <<>>]

InitialState(n, q) ==
  [time_at_dest |-> [k \in Rounds |-> kInvalid(q)],
   round_times |-> [k \in Rounds |-> Invalid(n, q)],
   best |-> Invalid(n, q), tmp |-> Invalid(n, q),
   station_mark |-> {}, prev_station_mark |-> {}, bounds |-> NoBounds]

reset_arrivals(n, q, s) ==
  [s EXCEPT !.time_at_dest = [k \in Rounds |-> kInvalid(q)],
            !.round_times = [k \in Rounds |-> Invalid(n, q)]]

next_start_time(n, q, s) ==
  [s EXCEPT !.best = Invalid(n, q), !.tmp = Invalid(n, q),
            !.station_mark = {}, !.prev_station_mark = {}]

add_start(q, s, l, t, v) ==
  [s EXCEPT !.best[l][v] = best_of(q, clamp(t), @),
            !.round_times[0][l][v] = best_of(q, clamp(t), @),
            !.station_mark = @ \cup {l}]

\* Mutant: the limit is set for the rounds before.
update_time_at_dest_Before(q, s, k, t) ==
  [s EXCEPT !.time_at_dest = [i \in Rounds |-> IF i <= k THEN best_of(q, @[i], t) ELSE @[i]]]
update_time_at_dest(q, s, k, t) ==
  [s EXCEPT !.time_at_dest = [i \in Rounds |-> IF i >= k THEN best_of(q, @[i], t) ELSE @[i]]]

limit_time_at_dest(q, s, k, t) == update_time_at_dest(q, s, k, clamp(t))

(***************************************************************************)
(* The bounds of a search in the other direction: the labels it left, made *)
(* monotone in rounds and vias.                                            *)
(***************************************************************************)
fill_bounds(n, q, s, last) ==
  LET src == s.round_times
      BestBy(k, l, v) ==
        ForEach(LAMBDA b, x : best_of(q, src[x][l][v], b), kInvalid(q), 0..k)
      BestOfVias(k, l, v) ==
        ForEach(LAMBDA b, w : best_of(q, BestBy(k, l, w), b), kInvalid(q), v..Vias(q))
      PassAll == IF q.dir = 1 THEN -MaxDelta - 1 ELSE MaxDelta
      HasTd(l) == q.td /\ l # kEnd /\ (IF q.dir = 1 THEN n.td_out ELSE n.td_in)[l] # <<>>
  IN  [last |-> last,
       rows |-> [k \in 0..last |-> [l \in Nodes(n) |-> [v \in ViaCounts(q) |->
                   IF HasTd(l) THEN PassAll ELSE BestOfVias(k, l, v)]]]]

via_stays(q, l) ==
  ForEach(LAMBDA sum, i : sum + (IF l \in q.vias[i].stops THEN q.vias[i].stay ELSE 0),
          0, DOMAIN q.vias)

within_bounds(n, q, s, k, l, t, v) ==
  \/ s.bounds.last = 0
  \/ better_or_eq(q, t, s.bounds.rows[s.bounds.last - k][l][Vias(q) - v]
                          + q.dir * adjusted_transfer_time(q, n.transfer_time[l])
                          + q.dir * via_stays(q, l))

lb_reachable(q, l) == q.lb[l] # kUnreachable

Promising(q, s, k, l, t) ==
  /\ better_or_eq(q, t, s.time_at_dest[k])
  /\ lb_reachable(q, l)
  /\ better_or_eq(q, t + q.dir * q.lb[l], s.time_at_dest[k])

-----------------------------------------------------------------------------
(***************************************************************************)
(* Vias: the numbers of vias after l, reached with v of them. A stay may   *)
(* be left out, then the via is not visited yet.                           *)
(***************************************************************************)
IsNextVia(q, l, v) == v < Vias(q) /\ l \in q.vias[v + 1].stops

next_via_states(q, l, v) ==
  IF ~IsNextVia(q, l, v) THEN {v}
  ELSE IF q.vias[v + 1].stay = 0 THEN {v + 1} ELSE {v, v + 1}

via_stay(q, v, target_v) == IF target_v = v THEN 0 ELSE q.vias[v + 1].stay

(***************************************************************************)
(* The target of a transfer or footpath gets its label. Without bounds,    *)
(* the round has it even if it is pruned.                                  *)
(***************************************************************************)
UpdateTarget(n, q, s, k, l, v, t, is_dest) ==
  LET improves == better(q, t, s.best[l][v])
      kept == IF s.bounds.last = 0 /\ improves
              THEN [s EXCEPT !.round_times[k][l][v] = best_of(q, t, @)] ELSE s
      updated == [kept EXCEPT !.round_times[k][l][v] = t, !.best[l][v] = t,
                              !.station_mark = @ \cup {l}]
  IN  IF ~(improves /\ Promising(q, s, k, l, t) /\ within_bounds(n, q, s, k, l, t, v))
      THEN kept
      ELSE IF is_dest THEN update_time_at_dest(q, updated, k, t) ELSE updated

Transfer(n, q, k, l, v, s, target_v) ==
  LET is_dest == target_v = Vias(q) /\ l \in q.is_dest
      transfer_time == IF ~q.intermodal /\ is_dest THEN 0
                       ELSE adjusted_transfer_time(q, n.transfer_time[l])
  IN  UpdateTarget(n, q, s, k, l, target_v,
        clamp(s.tmp[l][v] + q.dir * (transfer_time + via_stay(q, v, target_v))), is_dest)

TransferFrom(n, q, k, l, s, v) ==
  IF s.tmp[l][v] = kInvalid(q) THEN s
  ELSE ForEach(LAMBDA s1, w : Transfer(n, q, k, l, v, s1, w), s, next_via_states(q, l, v))

TransfersAt(n, q, k, s, l) ==
  ForEach(LAMBDA s1, v : TransferFrom(n, q, k, l, s1, v), s, ViaCounts(q))

update_transfers(n, q, k, state) ==
  ForEach(LAMBDA s, l : TransfersAt(n, q, k, s, l), state, state.prev_station_mark)

(***************************************************************************)
(* A walk from l to target that takes d: the vias may be visited, and the  *)
(* stay spent, at both ends of it.  With dest_vias vias visited, target is *)
(* a destination.                                                          *)
(***************************************************************************)
Arrive(n, q, k, walk, start_v, s, target_v) ==
  UpdateTarget(n, q, s, k, walk.target, target_v,
    clamp(s.tmp[walk.from][walk.v]
            + q.dir * (walk.duration + via_stay(q, walk.v, start_v)
                         + via_stay(q, start_v, target_v))),
    target_v \in walk.dest_vias)

Leave(n, q, k, walk, s, start_v) ==
  ForEach(LAMBDA s1, target_v : Arrive(n, q, k, walk, start_v, s1, target_v), s,
          next_via_states(q, walk.target, start_v))

UpdateWalk(n, q, k, state, l, v, target, d, dest_vias) ==
  LET walk == [from |-> l, v |-> v, target |-> target, duration |-> d, dest_vias |-> dest_vias]
  IN  ForEach(LAMBDA s, start_v : Leave(n, q, k, walk, s, start_v), state, next_via_states(q, l, v))

\* Static footpaths are not used where the source has time-dependent ones.
has_td_out(n, q, l) == q.td /\ n.td_out[l] # <<>>
has_td_in(n, q, l) == q.td /\ n.td_in[l] # <<>>

StaticFootpaths(n, q, l) ==
  IF q.dir = 1
  THEN IF has_td_out(n, q, l) THEN {} ELSE {fp \in n.footpaths : fp.from = l}
  ELSE {fp \in n.footpaths : fp.to = l
          /\ ~(has_td_in(n, q, l) /\ has_td_out(n, q, fp.from))}

\* The end of a footpath at which the search comes, or goes on.
FootpathFrom(q, fp) == IF q.dir = 1 THEN fp.from ELSE fp.to
FootpathTo(q, fp) == IF q.dir = 1 THEN fp.to ELSE fp.from

FootpathWith(n, q, k, fp, s, v) ==
  IF s.tmp[FootpathFrom(q, fp)][v] = kInvalid(q) THEN s
  ELSE UpdateWalk(n, q, k, s, FootpathFrom(q, fp), v, FootpathTo(q, fp),
         adjusted_transfer_time(q, fp.duration),
         IF FootpathTo(q, fp) \in q.is_dest THEN {Vias(q)} ELSE {})

Footpath(n, q, k, s, fp) ==
  ForEach(LAMBDA s1, v : FootpathWith(n, q, k, fp, s1, v), s, ViaCounts(q))

FootpathsAt(n, q, k, s, l) ==
  ForAny(LAMBDA s1, fp : Footpath(n, q, k, s1, fp), s, StaticFootpaths(n, q, l))

update_footpaths(n, q, k, state) ==
  ForEach(LAMBDA s, l : FootpathsAt(n, q, k, s, l), state, state.prev_station_mark)

TdFootpaths(n, q, l) == IF q.dir = 1 THEN n.td_out[l] ELSE n.td_in[l]

TdFootpath(n, q, k, l, v, s, fp) ==
  UpdateWalk(n, q, k, s, l, v, fp.target, fp.td.duration,
             IF fp.target \in q.is_dest THEN ViaCounts(q) ELSE {})

TdFootpathsWith(n, q, k, l, s, v) ==
  IF s.tmp[l][v] = kInvalid(q) THEN s
  ELSE ForAny(LAMBDA s1, fp : TdFootpath(n, q, k, l, v, s1, fp), s,
              for_each_footpath(q.dir, TdFootpaths(n, q, l), s.tmp[l][v]))

TdFootpathsAt(n, q, k, s, l) ==
  IF TdFootpaths(n, q, l) = <<>> THEN s
  ELSE ForEach(LAMBDA s1, v : TdFootpathsWith(n, q, k, l, s1, v), s, ViaCounts(q))

update_td_offsets(n, q, k, state) ==
  IF ~q.td THEN state
  ELSE ForEach(LAMBDA s, l : TdFootpathsAt(n, q, k, s, l), state, state.prev_station_mark)

(***************************************************************************)
(* The way from a stop to an intermodal destination, also after a stay at  *)
(* the last via.                                                           *)
(***************************************************************************)
ReachEnd(q, k, s, t) ==
  update_time_at_dest(q, [s EXCEPT !.round_times[k][kEnd][Vias(q)] = t,
                                   !.best[kEnd][Vias(q)] = t], k, t)

ReachEndIfBetter(q, k, s, t) ==
  IF better_or_eq(q, t, s.time_at_dest[k]) THEN ReachEnd(q, k, s, t) ELSE s

OffsetFromVia(q, k, s, l) ==
  LET v == Vias(q) - 1
  IN  IF Vias(q) = 0 \/ s.tmp[l][v] = kInvalid(q) \/ l \notin q.vias[v + 1].stops
      THEN s
      ELSE ReachEndIfBetter(q, k, s,
             clamp(s.tmp[l][v] + q.dir * (q.vias[v + 1].stay + q.dist_to_end[l])))

OffsetFrom(q, k, s, l) ==
  IF q.dist_to_end[l] = kUnreachable THEN s
  ELSE LET s1 == OffsetFromVia(q, k, s, l)
       IN  IF s1.tmp[l][Vias(q)] = kInvalid(q) THEN s1
           ELSE ReachEndIfBetter(q, k, s1, clamp(s1.tmp[l][Vias(q)] + q.dir * q.dist_to_end[l]))

TdOffsetFrom(q, k, s, l) ==
  LET time == s.tmp[l][Vias(q)]
      td == get_td_duration(q.dir, q.td_dest[l], time)
      t == clamp(time + q.dir * td.duration)
  IN  IF q.td_dest[l] = <<>> \/ time = kInvalid(q) THEN s
      ELSE IF /\ Found(td)
              /\ better_or_eq(q, t, s.time_at_dest[k])
              /\ better(q, t, s.best[kEnd][Vias(q)])
      THEN ReachEnd(q, k, s, t) ELSE s

update_intermodal_footpaths(n, q, k, state) ==
  IF ~q.intermodal THEN state
  ELSE ForEach(LAMBDA s, l : TdOffsetFrom(q, k, OffsetFrom(q, k, s, l), l), state,
               state.prev_station_mark)

-----------------------------------------------------------------------------
(***************************************************************************)
(* Rides. A query asks for flags (bikes, cars, wheelchairs, no compulsory  *)
(* reservation): a transport with none of its sections flagged is left     *)
(* out, a ride ends where a section is not flagged.                        *)
(***************************************************************************)
is_used(q, r) == r.clasz \in q.claszes /\ \A f \in q.flags : r.sections[f] # {}

\* The i-th stop that is passed, and whether a ride can come from the one before.
StopIdx(q, r, i) == IF q.dir = 1 THEN i ELSE Len(r.stops) + 1 - i
EndsRides(q, r, i) ==
  LET section == IF q.dir = 1 THEN StopIdx(q, r, i) - 1 ELSE StopIdx(q, r, i)
  IN  i # 1 /\ \E f \in q.flags : section \notin r.sections[f]

DepartureOf(i) == 2 * i - 2
ArrivalOf(i) == 2 * i - 3
BoardEvent(q, r, i) ==
  IF q.dir = 1 THEN DepartureOf(StopIdx(q, r, i)) ELSE ArrivalOf(StopIdx(q, r, i))
AlightEvent(q, r, i) ==
  IF q.dir = 1 THEN ArrivalOf(StopIdx(q, r, i)) ELSE DepartureOf(StopIdx(q, r, i))

IsPassedVia(q, l, v) == IsNextVia(q, l, v) /\ q.vias[v + 1].stay = 0

\* A ride arrives at l at t.
Alight(n, q, s, k, l, v, t) ==
  IF Promising(q, s, k, l, t) /\ within_bounds(n, q, s, k, l, t, v)
  THEN [s EXCEPT !.tmp[l][v] = best_of(q, t, @), !.station_mark = @ \cup {l}]
  ELSE s

(***************************************************************************)
(* A real-time transport runs once: et has the numbers of vias with which  *)
(* it has been boarded, moved up at each via it passes.                    *)
(***************************************************************************)
PassWith(q, l, rides, x) ==
  LET v == Vias(q) - x
  IN  IF v \in rides /\ IsPassedVia(q, l, v) THEN (rides \ {v}) \cup {v + 1} ELSE rides

Passed(q, l, et) == ForEach(LAMBDA rides, x : PassWith(q, l, rides, x), et, 1..Vias(q))

AlightFromRt(n, q, k, r, i, s, v) ==
  Alight(n, q, s, k, r.stops[StopIdx(q, r, i)].loc, v, clamp(r.times[AlightEvent(q, r, i)]))

RtStop(n, q, k, r, a, i) ==
  LET stp == r.stops[StopIdx(q, r, i)]
      l == stp.loc
      kept == IF EndsRides(q, r, i) THEN {} ELSE a.et
      et == IF i = 1 THEN kept ELSE Passed(q, l, kept)
      s == IF i = 1 \/ ~can_finish(q, stp) THEN a.s
           ELSE ForEach(LAMBDA s1, v : AlightFromRt(n, q, k, r, i, s1, v), a.s, et)
      Boards ==
        IF i = Len(r.stops) \/ ~can_start(q, stp) \/ l \notin s.prev_station_mark THEN {}
        ELSE {v \in ViaCounts(q) :
                better_or_eq(q, s.round_times[k - 1][l][v],
                             clamp(r.times[BoardEvent(q, r, i)]))}
  IN  IF a.done THEN a
      ELSE IF ~lb_reachable(q, l) THEN [a EXCEPT !.s = s, !.done = TRUE]
      ELSE [a EXCEPT !.s = s, !.et = et \cup Boards]

update_rt_transport(n, q, k, state, r) ==
  ForEach(LAMBDA a, i : RtStop(n, q, k, r, a, i), [s |-> state, et |-> {}, done |-> FALSE],
          1..Len(r.stops)).s

loop_rt_routes(n, q, k, state, marked) ==
  ForEach(LAMBDA s, i : update_rt_transport(n, q, k, s, n.rt_transports[i]), state,
          {i \in marked : is_used(q, n.rt_transports[i])})

(***************************************************************************)
(* A route's transports: the rides are kept by the number of vias visited  *)
(* at boarding and the number of vias passed since.                        *)
(***************************************************************************)
RideKeys(q) == {x \in ViaCounts(q) \X ViaCounts(q) : x[1] + x[2] <= Vias(q)}
NoRides(q) == [x \in RideKeys(q) |-> NoTransport]

RideTime(r, ride, event) == clamp(EventTime(r, ride.pos, ride.day, event))

\* Rides that pass a via replace slower ones that have passed it before.
RideKey(q, e, x) == <<e, Vias(q) - e - x>>

PassVia(q, r, l, event, e, et, x) ==
  LET from == et[RideKey(q, e, x)]
      to == et[RideKey(q, e, x - 1)]
  IN  IF from = NoTransport \/ ~IsPassedVia(q, l, Vias(q) - x) THEN et
      ELSE [et EXCEPT ![RideKey(q, e, x)] = NoTransport,
                      ![RideKey(q, e, x - 1)] =
                        IF \/ to = NoTransport
                           \/ better(q, RideTime(r, from, event), RideTime(r, to, event))
                        THEN from ELSE to]

PassViasFrom(q, r, l, event, et, e) ==
  ForEach(LAMBDA et1, x : PassVia(q, r, l, event, e, et1, x), et, 1..Vias(q) - e)

PassVias(q, r, l, rides, event) ==
  ForEach(LAMBDA et, e : PassViasFrom(q, r, l, event, et, e), rides, 0..Vias(q) - 1)

\* Mutant: the best label of all rounds is read.
Boarded_Best(q, k, s, r, l, i, v, ride) ==
  LET event == BoardEvent(q, r, i)
      TimeOf(x) == IF x = NoTransport THEN kInvalid(q) ELSE RideTime(r, x, event)
      time == s.best[l][v]
      new_et == get_earliest_transport(q.dir, r, event, time, q.lb[l], s.time_at_dest[k])
      IsFirstLabel == s.best[l][v] = kInvalid(q) /\ s.tmp[l][v] = kInvalid(q)
  IN  IF /\ time # kInvalid(q)
         /\ better_or_eq(q, time, TimeOf(ride))
         /\ new_et # NoTransport
         /\ IsFirstLabel \/ better_or_eq(q, TimeOf(new_et), TimeOf(ride))
      THEN new_et ELSE ride
\* A label boards the first transport, if no earlier one has been boarded.
Boarded(q, k, s, r, l, i, v, ride) ==
  LET event == BoardEvent(q, r, i)
      TimeOf(x) == IF x = NoTransport THEN kInvalid(q) ELSE RideTime(r, x, event)
      time == s.round_times[k - 1][l][v]
      new_et == get_earliest_transport(q.dir, r, event, time, q.lb[l], s.time_at_dest[k])
      IsFirstLabel == s.best[l][v] = kInvalid(q) /\ s.tmp[l][v] = kInvalid(q)
  IN  IF /\ time # kInvalid(q)
         /\ better_or_eq(q, time, TimeOf(ride))
         /\ new_et # NoTransport
         /\ IsFirstLabel \/ better_or_eq(q, TimeOf(new_et), TimeOf(ride))
      THEN new_et ELSE ride

AlightFrom(n, q, k, r, i, et, s, x) ==
  Alight(n, q, s, k, r.stops[StopIdx(q, r, i)].loc, x[1] + x[2],
         RideTime(r, et[x], AlightEvent(q, r, i)))

RouteStop(n, q, k, r, a, i) ==
  LET stp == r.stops[StopIdx(q, r, i)]
      l == stp.loc
      kept == IF EndsRides(q, r, i) THEN NoRides(q) ELSE a.et
      et == IF i = 1 THEN kept ELSE PassVias(q, r, l, kept, AlightEvent(q, r, i))
      Rides == {x \in RideKeys(q) : et[x] # NoTransport}
      s == IF ~can_finish(q, stp) THEN a.s
           ELSE ForAny(LAMBDA s1, x : AlightFrom(n, q, k, r, i, et, s1, x), a.s, Rides)
      Waits == i # Len(r.stops) /\ can_start(q, stp) /\ l \in s.prev_station_mark
  IN  IF a.done THEN a
      ELSE IF Waits /\ ~lb_reachable(q, l) THEN [a EXCEPT !.s = s, !.done = TRUE]
      ELSE [a EXCEPT !.s = s,
              !.et = IF ~Waits THEN et
                     ELSE [x \in RideKeys(q) |->
                             IF x[2] = 0 THEN Boarded(q, k, s, r, l, i, x[1], et[x])
                             ELSE et[x]]]

update_route(n, q, k, state, r) ==
  ForEach(LAMBDA a, i : RouteStop(n, q, k, r, a, i),
          [s |-> state, et |-> NoRides(q), done |-> FALSE], 1..Len(r.stops)).s

loop_routes(n, q, k, state, marked) ==
  ForEach(LAMBDA s, i : update_route(n, q, k, s, n.routes[i]), state,
          {i \in marked : is_used(q, n.routes[i])})

-----------------------------------------------------------------------------
(***************************************************************************)
(* A round starts with the labels earlier starts left in it, and rides the *)
(* transports at the marked stops.                                         *)
(***************************************************************************)
begin_round(n, q, k, s) ==
  LET best == [l \in Nodes(n) |-> [v \in ViaCounts(q) |->
                 best_of(q, s.round_times[k][l][v], s.best[l][v])]]
  IN  ForEach(LAMBDA s1, l : update_time_at_dest(q, s1, k, best[l][Vias(q)]),
              [s EXCEPT !.best = best], q.is_dest)

MarkedBy(transports, stations) ==
  {i \in DOMAIN transports : \E x \in DOMAIN transports[i].stops :
     transports[i].stops[x].loc \in stations}

swap_marks(s) == [s EXCEPT !.prev_station_mark = s.station_mark, !.station_mark = {}]

-----------------------------------------------------------------------------
(***************************************************************************)
(* raptor::execute as one operation, for the drivers that call it: all     *)
(* rounds of a start time, then every label of a destination is added to   *)
(* the journeys.                                                           *)
(***************************************************************************)

\* The transfers of a round are numbered from 0, so there is one round more.
last_round(max_transfers) ==
  (IF max_transfers < kMaxTransfers THEN max_transfers ELSE kMaxTransfers) + 2

Marks(n, s) ==
  [routes |-> MarkedBy(n.routes, s.station_mark),
   rt_transports |-> MarkedBy(n.rt_transports, s.station_mark)]
NothingMarked == [routes |-> {}, rt_transports |-> {}]

ride_all(n, q, k, s, marked) ==
  swap_marks(loop_rt_routes(n, q, k, loop_routes(n, q, k, s, marked.routes),
                            marked.rt_transports))

walk_all(n, q, k, s) ==
  LET transferred == update_transfers(n, q, k, s)
      ended == update_intermodal_footpaths(n, q, k, transferred)
  IN  update_td_offsets(n, q, k, update_footpaths(n, q, k, ended))

\* The journeys of a start time, destination by destination, round by round.
collect(q, s, start_time, end_k, results) ==
  LET labels == {x \in (1..end_k - 1) \X q.is_dest :
                   s.round_times[x[1]][x[2]][Vias(q)] # kInvalid(q)}
      journey(x) == [start |-> start_time, dest |-> s.round_times[x[1]][x[2]][Vias(q)],
                     transfers |-> x[1] - 1]
      After(x, y) == y[2] < x[2] \/ (y[2] = x[2] /\ y[1] <= x[1])
  IN  MapThenFoldSet(LAMBDA j, found : add(found, j), results, journey,
                     LAMBDA T : CHOOSE x \in T : \A y \in T : After(x, y), labels)

rounds(n, q, state, end_k) ==
  LET Round(a, k) ==
        LET begun == begin_round(n, q, k, a.s)
            marked == Marks(n, a.s)
        IN  IF a.done THEN a
            ELSE IF marked = NothingMarked THEN [s |-> begun, done |-> TRUE]
            ELSE [s |-> walk_all(n, q, k, ride_all(n, q, k, swap_marks(begun), marked)), done |-> FALSE]
  IN  ForEach(Round, [s |-> state, done |-> FALSE], 1..end_k - 1).s

(***************************************************************************)
(* next_start_time, add_start for each of starts ([stop, time, v]) and     *)
(* execute: the labels it leaves, and the journeys with those it finds.    *)
(***************************************************************************)
begin(n, q, s, starts, worst_time_at_dest) ==
  limit_time_at_dest(q,
    ForAny(LAMBDA s1, x : add_start(q, s1, x.stop, x.time, x.v), next_start_time(n, q, s), starts),
    0, worst_time_at_dest)

execute(n, q, s, starts, start_time, max_transfers, worst_time_at_dest, results) ==
  LET end_k == last_round(max_transfers)
      Journeys(labels) ==
        [s |-> labels, results |-> collect(q, labels, start_time, end_k, results)]
  IN  Journeys(rounds(n, q, begin(n, q, s, starts, worst_time_at_dest), end_k))
=============================================================================
