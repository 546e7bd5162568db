-------------------------------- MODULE Raptor --------------------------------
(***************************************************************************)
(* raptor::execute for one start time after the other, as                  *)
(* search::search_interval calls it: the labels of a round stay where they *)
(* are for the next start time, which is an earlier one (a later one in a  *)
(* backward search).                                                       *)
(***************************************************************************)
EXTENDS Itineraries, RaptorRounds

CONSTANT Searches
(* Sets of [n, q, starts]: a network, a query and a sequence of            *)
(* [time_at_start, starts], where starts is a set of [stop, time, v].      *)

-----------------------------------------------------------------------------
(***************************************************************************)
(* The searches there are: no more than kMaxVias vias, the events of a     *)
(* transport in order (the loaders and the updates see to it), no start at *)
(* the lower end of what a label can hold. The start times are sorted, the *)
(* last one to leave (the first one to arrive) is the first one searched.  *)
(***************************************************************************)
kMaxVias == 2

IsList(c) == c \in Seq({c[i] : i \in DOMAIN c})

EventsOf(r) == 0..2 * Len(r.stops) - 3
InOrder(r, times) ==
  \A e \in EventsOf(r) : times[e] \in Int /\ \A e2 \in EventsOf(r) : e <= e2 => times[e] <= times[e2]

StopsIn(m, r) == IsList(r.stops) /\ \A i \in DOMAIN r.stops : r.stops[i].loc \in AllLocations(m)

IsTdList(m, c) ==
  /\ IsList(c)
  /\ \A i \in DOMAIN c :
       c[i].target \in AllLocations(m) /\ c[i].valid_from \in Int /\ c[i].duration \in Nat

IsNetwork(m) ==
  /\ AllLocations(m) \subseteq Nat /\ IsFiniteSet(AllLocations(m))
  /\ \A l \in AllLocations(m) :
       m.transfer_time[l] \in Nat /\ IsTdList(m, m.td_out[l]) /\ IsTdList(m, m.td_in[l])
  /\ IsFiniteSet(m.footpaths)
  /\ \A fp \in m.footpaths :
       fp.from \in AllLocations(m) /\ fp.to \in AllLocations(m) /\ fp.duration \in Nat
  /\ IsList(m.routes) /\ IsList(m.rt_transports)
  /\ \A i \in DOMAIN m.routes :
       LET r == m.routes[i]
       IN  /\ StopsIn(m, r)
           /\ IsList(r.times)
           /\ \A j \in DOMAIN r.times : InOrder(r, r.times[j]) /\ r.days[j] \subseteq Int
  /\ \A i \in DOMAIN m.rt_transports :
       StopsIn(m, m.rt_transports[i]) /\ InOrder(m.rt_transports[i], m.rt_transports[i].times)

IsQuery(m, ask) ==
  /\ ask.dir \in {1, -1} /\ ask.is_dest \subseteq Nodes(m)
  /\ ask.intermodal => ask.is_dest = {kEnd}
  /\ IsList(ask.vias) /\ Len(ask.vias) <= kMaxVias
  /\ \A i \in DOMAIN ask.vias : ask.vias[i].stay \in Nat
  /\ \A l \in Nodes(m) : ask.lb[l] \in Nat
  /\ \A l \in AllLocations(m) : ask.dist_to_end[l] \in Nat /\ IsTdList(m, ask.td_dest[l])
  /\ ask.transfer.default \in BOOLEAN
  /\ {ask.transfer.factor, ask.transfer.min, ask.transfer.additional} \subseteq Nat
  /\ ask.max_transfers \in Nat /\ ask.max_travel_time \in Int

\* What a label cannot be: the lower end of its type.
kFirst(ask) == IF ask.dir = 1 THEN -MaxDelta - 1 ELSE MaxDelta

IsStart(m, ask, x) ==
  x.stop \in AllLocations(m) /\ x.time \in Int /\ clamp(x.time) # kFirst(ask) /\ x.v \in ViaCounts(ask)

ASSUME SearchesAssumption ==
  \A x \in Searches :
    /\ IsNetwork(x.n) /\ IsQuery(x.n, x.q)
    /\ IsList(x.starts)
    /\ \A i \in DOMAIN x.starts :
         /\ x.starts[i].time_at_start \in Int /\ IsFiniteSet(x.starts[i].starts)
         /\ \A y \in x.starts[i].starts : IsStart(x.n, x.q, y)
         /\ \A j \in DOMAIN x.starts : i <= j =>
              better_or_eq(x.q, x.starts[j].time_at_start, x.starts[i].time_at_start)

-----------------------------------------------------------------------------

VARIABLES
  search,
  s,           \* raptor_state and time_at_dest_
  todo,        \* the starts that are not processed yet
  k,           \* the round
  marked,      \* [routes, rt_transports] marked for this round
  results,
  pc

vars == <<search, s, todo, k, marked, results, pc>>

n == search.n
q == search.q
start_time == Head(todo).time_at_start

end_k == last_round(q.max_transfers)

Init ==
  /\ search \in Searches
  /\ s = InitialState(n, q)
  /\ todo = search.starts
  /\ k = 0 /\ marked = NothingMarked /\ results = {} /\ pc = "start"

\* Upper bound of what is worth to be found. A search for the way to all stops has no destination.
IsOneToAll == q.is_dest = {}
worst_time_at_dest ==
  start_time + q.dir * (IF IsOneToAll THEN q.max_travel_time ELSE q.max_travel_time + 1)

Start ==
  /\ pc = "start" /\ todo # <<>>
  /\ s' = begin(n, q, s, Head(todo).starts, worst_time_at_dest)
  /\ k' = 1 /\ pc' = "begin"
  /\ UNCHANGED <<search, todo, marked, results>>

BeginRound ==
  /\ pc = "begin" /\ k < end_k
  /\ LET begun == begin_round(n, q, k, s)
         marks == Marks(n, s)
     IN  IF marks = NothingMarked
         THEN s' = begun /\ pc' = "collect" /\ UNCHANGED <<k, marked>>
         ELSE s' = swap_marks(begun) /\ marked' = marks /\ pc' = "ride" /\ UNCHANGED k
  /\ UNCHANGED <<search, todo, results>>

Ride ==
  /\ pc = "ride"
  /\ s' = ride_all(n, q, k, s, marked)
  /\ marked' = NothingMarked
  /\ pc' = "walk"
  /\ UNCHANGED <<search, todo, k, results>>

Walk ==
  /\ pc = "walk"
  /\ s' = walk_all(n, q, k, s)
  /\ k' = k + 1 /\ pc' = "begin"
  /\ UNCHANGED <<search, todo, marked, results>>

\* Every label that a destination has, in each round, is a journey.
Collect ==
  /\ pc = "collect" \/ (pc = "begin" /\ k = end_k)
  /\ results' = collect(q, s, start_time, end_k, results)
  /\ todo' = Tail(todo) /\ k' = 0 /\ pc' = "start"
  /\ UNCHANGED <<search, s, marked>>

Done == pc = "start" /\ todo = <<>> /\ UNCHANGED vars

Next == Start \/ BeginRound \/ Ride \/ Walk \/ Collect \/ Done

Spec == Init /\ [][Next]_vars

-----------------------------------------------------------------------------
(***************************************************************************)
(* One-to-all (one_to_all.cc): one start time, no destination; the results *)
(* are the labels. uq is the query as the user states it.                  *)
(***************************************************************************)
one_to_all(m, dir, uq) ==
  [n |-> m,
   q |-> [dir |-> dir, intermodal |-> FALSE, is_dest |-> {}, vias |-> <<>>, td_dest |-> uq.td_dest,
          dist_to_end |-> [l \in AllLocations(m) |-> kUnreachable], lb |-> [l \in Nodes(m) |-> 0],
          claszes |-> uq.claszes, flags |-> uq.flags, wheelchair |-> uq.wheelchair, td |-> uq.td,
          transfer |-> uq.transfer, max_transfers |-> uq.max_transfers,
          max_travel_time |-> uq.max_travel_time],
   starts |-> <<[time_at_start |-> uq.start_time,
                 starts |-> UNION {{[stop |-> l, time |-> uq.start_time + dir * o.duration, v |-> 0] :
                                      l \in for_each_meta(m, uq.start_match_mode, o.target)} :
                                   o \in uq.start}]>>]

\* The durations to a location by number of rides, and the fastest: the last of them.
for_each_one_to_all_round_time(l, start, transfers) ==
  {[k |-> i, duration |-> q.dir * (s.round_times[i][l][0] - start)] :
     i \in {i \in 0..transfers + 1 : s.round_times[i][l][0] # kInvalid(q)}}

get_fastest_one_to_all_offsets(l, start, transfers) ==
  LET offsets == {[k |-> i, duration |-> s.round_times[i][l][0] - start] :
                    i \in {i \in 0..transfers + 1 : s.round_times[i][l][0] # kInvalid(q)}}
  IN  {x \in offsets : \A y \in offsets : y.k <= x.k}

-----------------------------------------------------------------------------
Processed == SubSeq(search.starts, 1, Len(search.starts) - Len(todo))

TravelTime(j) == q.dir * (j.dest - j.start)
Wanted(journeys) == {j \in journeys : TravelTime(j) <= q.max_travel_time}

Existing ==
  UNION {{[start |-> Processed[x[1]].time_at_start, dest |-> t, transfers |-> x[2] - 1] :
            t \in Ends(n, q, Processed[x[1]].starts, x[2])} :
         x \in (DOMAIN Processed) \X (1..end_k - 1)}

ParetoOptimal(journeys) == {j \in journeys : \A o \in journeys : dominates(o, j) => o = j}

\* How long one is on the way to a location, with the time to change there.
Reaching(l, m) ==
  {[k |-> m, duration |-> q.dir * (p[3] - Processed[1].time_at_start)] :
     p \in {p \in Waits(n, q, Processed[1].starts, m) : p[1] = l}}
InTime(offsets) == {x \in offsets : x.duration <= q.max_travel_time}

AllReached ==
  LET start == Processed[1].time_at_start
      transfers == end_k - 2
      Fastest(l) == {x \in UNION {Reaching(l, m) : m \in 0..end_k - 1} : x.duration <= q.max_travel_time}
      Optimal(l) ==
        {x \in Fastest(l) : \A y \in Fastest(l) :
           /\ y.k < x.k => y.duration > x.duration
           /\ y.k = x.k => y.duration >= x.duration}
  IN  \A l \in AllLocations(n) : \E optimal \in {Optimal(l)} :
        /\ InTime(for_each_one_to_all_round_time(l, start, transfers)) = optimal
        /\ \A x \in optimal :
             (\A y \in optimal : y.k <= x.k) =>
               get_fastest_one_to_all_offsets(l, start, transfers)
                 = {[x EXCEPT !.duration = q.dir * @]}

(***************************************************************************)
(* The results of all start times so far are the best itineraries of these *)
(* start times, no more and no less: labels kept from earlier start times, *)
(* limits, lower bounds and marks lose nothing, and whatever is a label of *)
(* the destination can be travelled. Without a destination, the best ways  *)
(* to every location within the time to travel.                            *)
(***************************************************************************)
FindsTheBest ==
  pc = "start" =>
    IF ~IsOneToAll THEN Wanted(results) = ParetoOptimal(Wanted(Existing))
    ELSE Processed # <<>> => AllReached

(***************************************************************************)
(* A label that is better than those of earlier rounds is a ride and a     *)
(* walk away from a label of the round before, whatever start time each of *)
(* them is from: this is how the legs of a journey are found afterwards.   *)
(***************************************************************************)
LabelsOf(i) ==
  {<<x[1], x[2], s.round_times[i][x[1]][x[2]]>> :
     x \in {x \in AllLocations(n) \X ViaCounts(q) : s.round_times[i][x[1]][x[2]] # kInvalid(q)}}

Improving(i) ==
  {p \in LabelsOf(i) : \A j \in 0..i - 1 : better(q, p[3], s.round_times[j][p[1]][p[2]])}

Reconstructible ==
  pc = "start" =>
    \A i \in Rounds \ {0} :
      LET arrived == Rides(n, q, LabelsOf(i - 1))
      IN  Improving(i) \subseteq
            Transfers(n, q, arrived) \cup WalkTo(n, q, arrived) \cup AtDestination(q, arrived)

(***************************************************************************)
(* No result promises more than there is: some itinerary with a start time *)
(* searched so far leaves no earlier, arrives no later and has no more     *)
(* transfers. Labels kept from other start times, arrivals kept from other *)
(* rounds and labels that were pruned never add up to a journey that       *)
(* nobody can make. Who starts at a destination is there already.          *)
(***************************************************************************)
Staying(starts) ==
  {x.time : x \in {x \in starts : x.stop \in q.is_dest /\ x.v = Vias(q)}}

NothingBetterPromised ==
  \A j \in results : \E g \in DOMAIN Processed :
    /\ better_or_eq(q, j.start, Processed[g].time_at_start)
    /\ \E t \in Staying(Processed[g].starts)
              \cup UNION {Ends(n, q, Processed[g].starts, m) : m \in 1..j.transfers + 1} :
         better_or_eq(q, t, j.dest)

=============================================================================
