------------------------------- MODULE TripBased -------------------------------
(***************************************************************************)
(* The transfers of trip-based routing (tb/preprocess.cc), on the networks *)
(* of RaptorRounds without real-time transports. A transport is a pair     *)
(* <<route, position>>. The i-th segment of it leads from its i-th stop to *)
(* the next one.                                                           *)
(*                                                                         *)
(* Bit fields are sets of traffic days. The loops of the code treat each   *)
(* day for itself, so they are stated here by what decides about a day.    *)
(***************************************************************************)
EXTENDS RaptorRounds, SequencesExt, Journeys, Itineraries

kMaxTransferTime == DayLength

TransportsOf(n) ==
  UNION {{<<x, pos>> : pos \in DOMAIN n.routes[x].times} : x \in DOMAIN n.routes}

DepMam(r, pos, i) == mam(r.times[pos][DepartureOf(i)])

\* The order of pairs, as of std::tie.
PairLess(a, b) == a[1] < b[1] \/ (a[1] = b[1] /\ a[2] < b[2])
FirstPair(S) == CHOOSE a \in S : \A b \in S \ {a} : PairLess(a, b)

(***************************************************************************)
(* linear_lb on the departures at a stop: the departures <<day, position>> *)
(* at or after a minute of the first day.                                  *)
(***************************************************************************)
DeparturesFrom(r, i, minute, n_days) ==
  {c \in (0..n_days - 1) \X (DOMAIN r.times) : c[1] * DayLength + DepMam(r, c[2], i) >= minute}

(***************************************************************************)
(* The neighborhood of a route: where its transports can be left, which    *)
(* routes can be boarded there or after a walk, without turning back.      *)
(***************************************************************************)
IsUturn(n, prev, next, duration) ==
  /\ prev.loc = next.loc /\ prev.out /\ next.in
  /\ n.transfer_time[prev.loc] <= duration

IsUturnAtTerminus(prev, next, is_last) == is_last /\ prev.loc = next.loc /\ prev.out

add_non_uturn_transfers(n, x, i, target, duration) ==
  UNION {{[from |-> i, route |-> y, at |-> j, duration |-> duration] :
            j \in {j \in 1..Len(n.routes[y].stops) - 1 :
              LET stops == n.routes[y].stops
                  prev == n.routes[x].stops[i - 1]
              IN  /\ stops[j].loc = target /\ stops[j].in
                  /\ ~IsUturn(n, prev, stops[j + 1], duration)
                  /\ ~IsUturnAtTerminus(prev, stops[j + 1], j + 1 = Len(stops))}} :
         y \in DOMAIN n.routes}

get_route_neighborhood(n, x) ==
  LET stops == n.routes[x].stops
  IN  UNION {add_non_uturn_transfers(n, x, i, stops[i].loc, n.transfer_time[stops[i].loc])
             \cup UNION {add_non_uturn_transfers(n, x, i, fp.to, fp.duration) :
                           fp \in {fp \in n.footpaths : fp.from = stops[i].loc}} :
               i \in {i \in 2..Len(stops) : stops[i].out}}

\* Later stops come first: transfers that are possible there are not needed before.
Precedes(a, b) ==
  \/ a.route < b.route
  \/ a.route = b.route /\ a.from > b.from
  \/ a.route = b.route /\ a.from = b.from /\ a.at < b.at

-----------------------------------------------------------------------------
ArrivalAt(n, t, i) == n.routes[t[1]].times[t[2]][ArrivalOf(i)]

\* The days between the traffic days of t and of the transport it is left for.
DayOffset(n, t, nb, c) ==
  days(ArrivalAt(n, t, nb.from)) + c[1] - days(n.routes[nb.route].times[c[2]][DepartureOf(nb.at)])

RunsOnDay(n, y, pos, day) == day \in n.routes[y].days[pos]

\* Departures are looked at up to the longest transfer.
Connections(n, t, nb) ==
  LET arr == mam(ArrivalAt(n, t, nb.from))
      r == n.routes[nb.route]
  IN  {c \in DeparturesFrom(r, nb.at, arr + nb.duration, 3) :
         c[1] * DayLength + DepMam(r, c[2], nb.at) - arr <= kMaxTransferTime}

\* On each traffic day of t the first of them that runs.
EarliestConnections(n, t, nb, day) ==
  LET running == {c \in Connections(n, t, nb) :
                    RunsOnDay(n, nb.route, c[2], day + DayOffset(n, t, nb, c))}
  IN  {c \in running : \A o \in running \ {c} : PairLess(c, o)}

\* reached_line_based: earlier transports of a route are better.
LineKey(n, t, nb, c) == <<DayOffset(n, t, nb, c), DepMam(n.routes[nb.route], c[2], 1)>>

(***************************************************************************)
(* A transfer is not needed if one before it leads to the same stop or one *)
(* before, and to the same transport or one before.                        *)
(***************************************************************************)
line_based(n, t, neighborhood) ==
  LET taken == [x \in neighborhood \X n.routes[t[1]].days[t[2]] |-> EarliestConnections(n, t, x[1], x[2])]
      Covers(o, nb, day, c) ==
        \E d \in taken[<<o, day>>] : ~PairLess(LineKey(n, t, nb, c), LineKey(n, t, o, d))
      Needed(nb, day, c) ==
        \A o \in neighborhood :
          Precedes(o, nb) /\ o.route = nb.route /\ o.at <= nb.at => ~Covers(o, nb, day, c)
      on(nb, c) == {day \in n.routes[t[1]].days[t[2]] : c \in taken[<<nb, day>>] /\ Needed(nb, day, c)}
  IN  {x \in UNION {{[nb |-> nb, c |-> c, days |-> on(nb, c)] : c \in Connections(n, t, nb)} :
              nb \in neighborhood} : x.days # {}}

-----------------------------------------------------------------------------
(***************************************************************************)
(* reached_reduction: when a location is reached by rides and walks, and   *)
(* from when on one can change there.                                      *)
(***************************************************************************)
Reaches(n, l, time) ==
  {<<"arr", l, time>>, <<"ch", l, time + n.transfer_time[l]>>}
    \cup UNION {{<<"arr", fp.to, time + fp.duration>>, <<"ch", fp.to, time + fp.duration>>} :
                  fp \in {fp \in n.footpaths : fp.from = l}}

ReachesOnBoard(n, t, from) ==
  LET stops == n.routes[t[1]].stops
  IN  UNION {Reaches(n, stops[i].loc, ArrivalAt(n, t, i)) : i \in {i \in from..Len(stops) : stops[i].out}}

\* Whether the transport can be left at a stop is not looked at.
ReachesBy(n, t, x) ==
  LET r == n.routes[x.nb.route]
  IN  UNION {Reaches(n, r.stops[i].loc,
                     DayOffset(n, t, x.nb, x.c) * DayLength + r.times[x.c[2]][ArrivalOf(i)]) :
               i \in x.nb.at + 1..Len(r.stops)}

\* Transfers of later stops are looked at first, those of a stop in their order.
LookedAtBefore(x, y) ==
  \/ x.nb.from > y.nb.from
  \/ x.nb.from = y.nb.from /\ (Precedes(x.nb, y.nb) \/ (x.nb = y.nb /\ PairLess(x.c, y.c)))

\* Mutant: on whatever days the other transfer can be made.
reduce_AnyDay(n, t, transfers) ==
  LET Known(x) ==
        ReachesOnBoard(n, t, x.nb.from)
          \cup UNION {ReachesBy(n, t, o) : o \in {o \in transfers : LookedAtBefore(o, x)}}
      Improves(x) ==
        \E z \in ReachesBy(n, t, x) :
          \A w \in Known(x) : w[1] = z[1] /\ w[2] = z[2] => z[3] < w[3]
  IN  {x \in transfers : Improves(x)}
reduce(n, t, transfers) ==
  LET Known(x, day) ==
        ReachesOnBoard(n, t, x.nb.from)
          \cup UNION {ReachesBy(n, t, o) : o \in {o \in transfers : LookedAtBefore(o, x) /\ day \in o.days}}
      Improves(x, day) ==
        \E z \in ReachesBy(n, t, x) :
          \A w \in Known(x, day) : w[1] = z[1] /\ w[2] = z[2] => z[3] < w[3]
  IN  {x \in {[o EXCEPT !.days = {day \in @ : Improves(o, day)}] : o \in transfers} : x.days # {}}

(***************************************************************************)
(* tb_data: the transfers of each segment, in order. The day offset fits   *)
(* into four bits.                                                         *)
(***************************************************************************)
to_transfer(n, t, x) ==
  [route |-> x.nb.route, pos |-> x.c[2], segment |-> x.nb.at, days |-> x.days,
   day_offset |-> DayOffset(n, t, x.nb, x.c)]

preprocess_transport(n, t) ==
  LET transfers == reduce(n, t, line_based(n, t, get_route_neighborhood(n, t[1])))
  IN  [i \in 1..Len(n.routes[t[1]].stops) - 1 |->
         LET here == SetToSortSeq({x \in transfers : x.nb.from = i + 1}, LookedAtBefore)
         IN  [j \in DOMAIN here |-> to_transfer(n, t, here[j])]]

preprocess(n) == [t \in TransportsOf(n) |-> preprocess_transport(n, t)]

-----------------------------------------------------------------------------
(***************************************************************************)
(* The data of a trip-based query: the segments reached so far (reached.h) *)
(* and the queue of segments to look at (queue.h).                         *)
(*                                                                         *)
(* An entry of the queue is [route, pos, day, from, to, parent], the       *)
(* segments from..to - 1 of a transport; parent is the position of another *)
(* entry or kNoParent. Days count from the base day of the query.          *)
(***************************************************************************)

CONSTANTS
  QUERY_DAY_SHIFT,  \* the first traffic day of a query, in days before the base day
  kTBMaxDayOffset   \* so many days are told apart

kNoParent == 0
kNDaysToIterate == 2

-----------------------------------------------------------------------------
(***************************************************************************)
(* reached: for each route a Pareto set of [transport, segment, k], where  *)
(* the order of the transports is that of their day, then of the route.    *)
(***************************************************************************)
to_transport(pos, day) == <<day + QUERY_DAY_SHIFT, pos>>
NotLater(a, b) == ~PairLess(b, a)

query_reached(n, r, x, transport, k) ==
  LET segments == {e.segment : e \in {e \in r[x] : e.k <= k /\ NotLater(e.transport, transport)}}
                    \cup {Len(n.routes[x].stops)}
  IN  CHOOSE s \in segments : \A o \in segments : s <= o

entry_dominates(e, o) ==
  e.k <= o.k /\ NotLater(e.transport, o.transport) /\ e.segment <= o.segment

update_reached(r, x, transport, segment, k) ==
  LET new == [transport |-> transport, segment |-> segment, k |-> k]
  IN  [r EXCEPT ![x] = IF \E e \in @ : entry_dominates(e, new) THEN @
                       ELSE {e \in @ : ~entry_dominates(new, e)} \cup {new}]

-----------------------------------------------------------------------------
\* The state of a query that the queue changes: [q_n, r].
push(n, s, x, pos, day, segment, parent, k) ==
  LET transport == to_transport(pos, day)
      min_segment == query_reached(n, s.r, x, transport, k)
  IN  IF segment >= min_segment THEN s
      ELSE [s EXCEPT !.q_n = Append(@, [route |-> x, pos |-> pos, day |-> day, from |-> segment,
                                        to |-> min_segment, parent |-> parent]),
                     !.r = update_reached(@, x, transport, segment, k)]

\* Mutant: the day of the transport that is left.
enqueue_SameDay(n, s, transfer, parent, k) ==
  push(n, s, transfer.route, transfer.pos, s.q_n[parent].day, transfer.segment, parent, k)
enqueue(n, s, transfer, parent, k) ==
  LET day == s.q_n[parent].day + transfer.day_offset
  IN  IF day + QUERY_DAY_SHIFT <= 0 \/ day + QUERY_DAY_SHIFT >= kTBMaxDayOffset THEN s
      ELSE push(n, s, transfer.route, transfer.pos, day, transfer.segment, parent, k)

initial_enqueue(n, s, x, pos, day, segment) ==
  IF day + QUERY_DAY_SHIFT < 0 \/ day + QUERY_DAY_SHIFT >= kTBMaxDayOffset THEN s
  ELSE push(n, s, x, pos, day, segment, kNoParent, 0)

\* get_earliest_transport.h: today's or tomorrow's departures.
earliest_transport(r, i, time) ==
  {c \in DeparturesFrom(r, i, mam(time), kNDaysToIterate) :
     days(time) + c[1] - days(r.times[c[2]][DepartureOf(i)]) \in r.days[c[2]]}

tb_add_start(n, s, x) ==
  LET At(s1, y) ==
        LET r == n.routes[y[1]]
            found == earliest_transport(r, y[2], x.time)
            c == FirstPair(found)
        IN  IF found = {} THEN s1
            ELSE initial_enqueue(n, s1, y[1], c[2],
                   days(x.time) + c[1] - days(r.times[c[2]][DepartureOf(y[2])]), y[2])
      stops == {y \in UNION {{<<i, j>> : j \in 1..Len(n.routes[i].stops) - 1} : i \in DOMAIN n.routes} :
                  n.routes[y[1]].stops[y[2]].in /\ n.routes[y[1]].stops[y[2]].loc = x.stop}
  IN  FoldLeft(At, s, SetToSortSeq(stops, PairLess))

(***************************************************************************)
(* The segments <<route, i>> from which the destination is reached, with   *)
(* the durations from the stop at their end.                               *)
(***************************************************************************)
DestSegments(n, q) ==
  LET ends == IF q.intermodal
              THEN {<<l, q.dist_to_end[l]>> : l \in {l \in DOMAIN q.dist_to_end : q.dist_to_end[l] # kUnreachable}}
              ELSE {<<l, 0>> : l \in q.is_dest}
                     \cup {<<fp.from, fp.duration>> : fp \in {fp \in n.footpaths : fp.to \in q.is_dest}}
      at(x, i) == {e[2] : e \in {e \in ends : n.routes[x].stops[i + 1].out
                                               /\ e[1] = n.routes[x].stops[i + 1].loc}}
  IN  UNION {UNION {{<<x, i, d>> : d \in at(x, i)} : i \in 1..Len(n.routes[x].stops) - 1} : x \in DOMAIN n.routes}

\* end_reachable_ is the domain of dist_to_dest_ in the first query of a state.
mark_dest_segments(n, q) ==
  LET segments == DestSegments(n, q)
      durations(y) == {x[3] : x \in {x \in segments : <<x[1], x[2]>> = y}}
  IN  [y \in {<<x[1], x[2]>> : x \in segments} |->
         CHOOSE d \in durations(y) : \A o \in durations(y) : d <= o]

-----------------------------------------------------------------------------
(***************************************************************************)
(* reconstruct: from the entry back to the start. The segment of a parent  *)
(* from which the transfer was made is searched among its transfers.       *)
(***************************************************************************)
FullRange(n, e) == e.from..Len(n.routes[e.route].stops) - 1

ArrivalOn(n, e, i) == EventTime(n.routes[e.route], e.pos, e.day, ArrivalOf(i + 1))
StopAfter(n, e, i) == n.routes[e.route].stops[i + 1].loc

RideLeg(n, e, i) ==
  [walk |-> FALSE, from |-> n.routes[e.route].stops[e.from].loc, to |-> StopAfter(n, e, i),
   dep |-> EventTime(n.routes[e.route], e.pos, e.day, DepartureOf(e.from)), arr |-> ArrivalOn(n, e, i)]

WalkLeg(from, to, dep, arr) == [walk |-> TRUE, from |-> from, to |-> to, dep |-> dep, arr |-> arr]

\* The ends of a ride with the entry that make up the arrival: <<segment, target, duration>>.
LastLegs(n, q, dist, e, arrival) ==
  LET at(i) == StopAfter(n, e, i)
      ends(i) ==
        IF q.intermodal
        THEN {<<i, kEnd, d>> : d \in {d \in {dist[<<e.route, i>>]} : q.dist_to_end[at(i)] = d}}
        ELSE {<<i, x[1], x[2]>> :
                x \in {<<at(i), 0>>} \cup {<<fp.to, fp.duration>> : fp \in {fp \in n.footpaths : fp.from = at(i)}}}
  IN  {x \in UNION {ends(i) : i \in {i \in FullRange(n, e) : <<e.route, i>> \in DOMAIN dist}} :
         /\ ArrivalOn(n, e, x[1]) + x[3] = arrival
         /\ q.intermodal \/ x[2] \in q.is_dest}

arrival_segments(n, tbd, e, to) ==
  {i \in FullRange(n, e) : \E j \in DOMAIN tbd[<<e.route, e.pos>>][i] :
     LET x == tbd[<<e.route, e.pos>>][i][j]
     IN  x.route = to.route /\ x.pos = to.pos /\ x.segment = to.from}

LOCAL Least(S) == CHOOSE i \in S : \A o \in S : i <= o

get_fps(n, from, to) ==
  IF from = to THEN {n.transfer_time[from]}
  ELSE {fp.duration : fp \in {fp \in n.footpaths : fp.from = from /\ fp.to = to}}

Back(n, tbd, q_n, a) ==
  LET parent == q_n[q_n[a.entry].parent]
      segments == arrival_segments(n, tbd, parent, q_n[a.entry])
      i == Least(segments)
      first == a.legs[1]
      fps == get_fps(n, StopAfter(n, parent, i), first.from)
      arr == ArrivalOn(n, parent, i)
  IN  IF a.failed \/ q_n[a.entry].parent = kNoParent THEN a
      ELSE IF segments = {} \/ fps = {} THEN [a EXCEPT !.failed = TRUE]
      ELSE [a EXCEPT !.entry = q_n[a.entry].parent,
                     !.legs = <<RideLeg(n, parent, i),
                                WalkLeg(StopAfter(n, parent, i), first.from, arr, arr + Least(fps))>> \o @]

tb_reconstruct(n, q, tbd, dist, q_n, entry, arrival) ==
  LET e == q_n[entry]
      ends == LastLegs(n, q, dist, e, arrival)
      i == Least({x[1] : x \in ends})
      end == CHOOSE x \in ends : x[1] = i /\ \A y \in ends : y[1] = i => x[3] <= y[3]
      last == [entry |-> entry, failed |-> FALSE,
               legs |-> <<RideLeg(n, e, i), WalkLeg(StopAfter(n, e, i), end[2], ArrivalOn(n, e, i), arrival)>>]
  IN  IF ends = {} THEN [entry |-> entry, failed |-> TRUE, legs |-> <<>>]
      ELSE ForEach(LAMBDA a, x : Back(n, tbd, q_n, a), last, 1..kMaxTransfers)

-----------------------------------------------------------------------------
(***************************************************************************)
(* query_engine::execute for one start time after the other. The segments  *)
(* reached and the arrival times stay for the next, earlier, start time;   *)
(* the queue does not. A round looks three times at what the round before  *)
(* has put into the queue.                                                 *)
(***************************************************************************)

CONSTANT Searches
(* Sets of [n, q, starts], see Raptor; starts without vias.                *)

VARIABLES
  search,
  tbd,      \* the transfers of the timetable
  s,        \* the queue and the segments reached: [q_n, r]
  t_min,
  parent,
  todo,     \* the starts that are not processed yet
  k,        \* the round
  round,    \* [from, to], the entries of the round
  results,
  pc

vars == <<search, tbd, s, t_min, parent, todo, k, round, results, pc>>

n == search.n
q == search.q
start_time == Head(todo).time_at_start
worst_time_at_dest == start_time + q.max_travel_time + 1
dist_to_dest == mark_dest_segments(n, q)

Never == MaxDelta
NumberOfTransfers == 0..kMaxTransfers

Init ==
  /\ search \in Searches
  /\ tbd = preprocess(search.n)
  /\ s = [q_n |-> <<>>, r |-> [x \in DOMAIN search.n.routes |-> {}]]
  /\ t_min = [i \in NumberOfTransfers |-> Never]
  /\ parent = [i \in NumberOfTransfers |-> kNoParent]
  /\ todo = search.starts
  /\ k = 0 /\ round = [from |-> 1, to |-> 0] /\ results = {} /\ pc = "start"

\* next_start_time, add_start of every start, and what execute forgets.
Start ==
  /\ pc = "start" /\ todo # <<>>
  /\ LET earlier(x, y) == x.time < y.time \/ (x.time = y.time /\ x.stop < y.stop)
         added == FoldLeft(LAMBDA s1, x : tb_add_start(n, s1, x), [s EXCEPT !.q_n = <<>>],
                           SetToSortSeq(Head(todo).starts, earlier))
     IN  s' = added /\ round' = [from |-> 1, to |-> Len(added.q_n)]
  /\ \E late \in {{i \in 0..kMaxTransfers - 1 : t_min[i] >= worst_time_at_dest}} :
       /\ t_min' = [i \in NumberOfTransfers |-> IF i \in late THEN worst_time_at_dest ELSE t_min[i]]
       /\ parent' = [i \in NumberOfTransfers |-> IF i \in late THEN kNoParent ELSE parent[i]]
  /\ k' = 0 /\ pc' = "dest"
  /\ UNCHANGED <<search, tbd, todo, results>>

Entries == round.from..round.to
IsRound == k < kMaxTransfers /\ Entries # {}

\* The arrivals at the destination from an entry, segment by segment.
Arrivals(e) ==
  {ArrivalOn(n, e, i) + dist_to_dest[<<e.route, i>>] :
     i \in {i \in e.from..e.to - 1 : <<e.route, i>> \in DOMAIN dist_to_dest}}

SegDest ==
  /\ pc = "dest" /\ IsRound
  /\ \E arrivals \in {UNION {{<<t, i>> : t \in Arrivals(s.q_n[i])} : i \in Entries}} :
       LET best == FirstPair(arrivals)
       IN  IF arrivals = {} THEN UNCHANGED <<t_min, parent>>
           ELSE /\ t_min' = [i \in NumberOfTransfers |->
                               IF i >= k /\ best[1] < t_min[i] THEN best[1] ELSE t_min[i]]
                /\ parent' = IF best[1] < t_min[k] THEN [parent EXCEPT ![k] = best[2]] ELSE parent
  /\ pc' = "prune"
  /\ UNCHANGED <<search, tbd, s, todo, k, round, results>>

\* An entry is as good as its first stop.
Prunable(e) ==
  ArrivalOn(n, e, e.from) + q.lb[StopAfter(n, e, e.from)] > t_min[k + 1]

SegPrune ==
  /\ pc = "prune"
  /\ s' = [s EXCEPT !.q_n = [i \in DOMAIN @ |->
             IF i \in Entries /\ Prunable(@[i]) THEN [@[i] EXCEPT !.to = s.q_n[i].from] ELSE @[i]]]
  /\ pc' = "transfers"
  /\ UNCHANGED <<search, tbd, t_min, parent, todo, k, round, results>>

\* The transfers of an entry that can be made on its day.
TransfersOf(e) ==
  LET segments == tbd[<<e.route, e.pos>>]
      all == FoldLeft(LAMBDA x, i : x \o segments[i], <<>>,
                      [i \in 1..e.to - e.from |-> e.from + i - 1])
  IN  SelectSeq(all, LAMBDA x : e.day \in x.days)

SegTransfers ==
  /\ pc = "transfers"
  /\ LET Of(s1, i) == FoldLeft(LAMBDA s2, x : enqueue(n, s2, x, i, k + 1), s1, TransfersOf(s1.q_n[i]))
     IN  \E enqueued \in {ForEach(Of, s, Entries)} :
           s' = enqueued /\ round' = [from |-> round.to + 1, to |-> Len(enqueued.q_n)]
  /\ k' = k + 1 /\ pc' = "dest"
  /\ UNCHANGED <<search, tbd, t_min, parent, todo, results>>

\* Journeys with an arrival time, and for new ones their legs.
Collect ==
  /\ pc = "dest" /\ ~IsRound
  /\ LET journey(i) == [start |-> start_time, dest |-> t_min[i], transfers |-> i]
         found == {i \in 0..kMaxTransfers - 1 : parent[i] # kNoParent}
         all == ForEach(LAMBDA x, i : add(x, journey(i)), {[start |-> j.start, dest |-> j.dest,
                          transfers |-> j.transfers] : j \in results}, found)
         known == {j \in results : [start |-> j.start, dest |-> j.dest, transfers |-> j.transfers] \in all}
         reconstructed(j) ==
           tb_reconstruct(n, q, tbd, dist_to_dest, s.q_n, parent[j.transfers], j.dest)
         new == {j \in all : \A o \in known : [start |-> o.start, dest |-> o.dest, transfers |-> o.transfers] # j}
     IN  results' = known \cup {[start |-> j.start, dest |-> j.dest, transfers |-> j.transfers,
                                 failed |-> reconstructed(j).failed, legs |-> reconstructed(j).legs] : j \in new}
  /\ todo' = Tail(todo) /\ pc' = "start"
  /\ UNCHANGED <<search, tbd, s, t_min, parent, k, round>>

Done == pc = "start" /\ todo = <<>> /\ UNCHANGED vars

Next == Start \/ SegDest \/ SegPrune \/ SegTransfers \/ Collect \/ Done

Spec == Init /\ [][Next]_vars

-----------------------------------------------------------------------------
Processed == SubSeq(search.starts, 1, Len(search.starts) - Len(todo))

Existing ==
  UNION {UNION {{[start |-> Processed[i].time_at_start, dest |-> t, transfers |-> m - 1] :
            t \in Ends(n, q, Processed[i].starts, m)} : m \in 1..kMaxTransfers} : i \in DOMAIN Processed}
Wanted(journeys) == {j \in journeys : j.dest - j.start <= q.max_travel_time}
Criteria(j) == [start |-> j.start, dest |-> j.dest, transfers |-> j.transfers]

(***************************************************************************)
(* Although transfers are left out of the data, and segments that were     *)
(* reached before, the results are the best itineraries of all start times *)
(* so far.                                                                 *)
(***************************************************************************)
FindsTheBest ==
  pc = "start" =>
    {Criteria(j) : j \in results}
      = {j \in Wanted(Existing) : \A o \in Wanted(Existing) : dominates(o, j) => o = j}

(***************************************************************************)
(* Each result can be travelled: a predecessor is found for each entry,    *)
(* and the legs found follow one another in time.                          *)
(***************************************************************************)
JourneysFit ==
  \A j \in results :
    LET legs == j.legs
    IN  /\ ~j.failed
        /\ \A i \in 1..Len(legs) - 1 : legs[i].to = legs[i + 1].from /\ legs[i].arr <= legs[i + 1].dep
        /\ j.start <= legs[1].dep /\ legs[Len(legs)].arr = j.dest
        /\ Cardinality({i \in DOMAIN legs : ~legs[i].walk}) = j.transfers + 1

=============================================================================
