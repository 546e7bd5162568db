------------------------------ MODULE GpuRaptor ------------------------------
(***************************************************************************)
(* gpu_raptor::execute for one start time after the other. The kernels of  *)
(* a round are started one after the other, each waits for the one before. *)
(* In most of them no thread reads what another one writes, so that they   *)
(* are one step. In reuse_previous_arrivals and in transfers_footpaths,    *)
(* threads work on the best times and limits that others are improving.    *)
(***************************************************************************)
EXTENDS GpuRounds

CONSTANT Searches
(* Sets of [n, q, starts, pong]: as in Raptor, and the query of the search *)
(* back from a result, with its starts at [dest |-> 0], or NoPong.         *)

VARIABLES
  search,
  s,        \* the device memory
  todo,     \* the starts that are not processed yet
  k,
  lanes,    \* [ready, check, store]: the threads of transfers_footpaths
  results,
  ping,     \* the result that is searched back from
  kernel    \* the next kernel

vars == <<search, s, todo, k, lanes, results, ping, kernel>>

n == search.n
q == search.q
start_time == Head(todo).time_at_start
end_k == last_round(q.max_transfers)

NoPong == [q |-> 0, starts |-> {}]
NoPing == [start |-> 0, dest |-> 0, transfers |-> -1]
Idle == [ready |-> {}, check |-> {}, store |-> {}]

Init ==
  /\ search \in Searches
  /\ s = DeviceState(n, q)
  /\ todo = search.starts
  /\ k = 0 /\ lanes = Idle /\ results = {} /\ ping = NoPing /\ kernel = "init_arrivals"

worst_time_at_dest == start_time + q.dir * (q.max_travel_time + 1)

InitArrivals ==
  /\ kernel = "init_arrivals" /\ todo # <<>> /\ Head(todo).starts # {}
  /\ s' = init_arrivals(q, device_next_start_time(n, q, s), Head(todo).starts, worst_time_at_dest)
  /\ k' = 1 /\ kernel' = "reuse"
  /\ UNCHANGED <<search, todo, lanes, results, ping>>

\* Without starts, nothing is launched.
NoStarts ==
  /\ kernel = "init_arrivals" /\ todo # <<>> /\ Head(todo).starts = {}
  /\ s' = device_next_start_time(n, q, s)
  /\ todo' = Tail(todo)
  /\ UNCHANGED <<search, k, lanes, results, ping, kernel>>

Reuse ==
  /\ kernel = "reuse"
  /\ \E early \in IF s.reusable THEN SUBSET q.is_dest ELSE {{}} :
       s' = reuse_previous_arrivals(n, q, s, k, q.max_transfers, early)
  /\ kernel' = "mark"
  /\ UNCHANGED <<search, todo, k, lanes, results, ping>>

Mark ==
  /\ kernel = "mark"
  /\ s' = mark_from_locations(n, s)
  /\ kernel' = "begin_transit"
  /\ UNCHANGED <<search, todo, k, lanes, results, ping>>

\* If nothing is marked, the kernels that were launched after it do nothing.
BeginTransit ==
  /\ kernel = "begin_transit"
  /\ IF s.any_marked
     THEN s' = run_lookups(n, q, swap_reset(s), k) /\ kernel' = "loop_routes"
     ELSE UNCHANGED s /\ kernel' = "reconstruct"
  /\ UNCHANGED <<search, todo, k, lanes, results, ping>>

LoopRoutes ==
  /\ kernel = "loop_routes"
  /\ s' = device_loop_routes(n, q, k, s)
  /\ kernel' = "begin_footpaths"
  /\ UNCHANGED <<search, todo, k, lanes, results, ping>>

BeginFootpaths ==
  /\ kernel = "begin_footpaths"
  /\ IF s.any_marked
     THEN /\ s' = swap_reset(s)
          /\ lanes' = [ready |-> s.station_mark, check |-> td_dest_offsets(q, s'), store |-> {}]
          /\ kernel' = "footpaths"
     ELSE UNCHANGED <<s, lanes>> /\ kernel' = "reconstruct"
  /\ UNCHANGED <<search, todo, k, results, ping>>

\* A thread reads the limit of the round.
ReadLimit(l) ==
  /\ kernel = "footpaths" /\ l \in lanes.ready
  /\ lanes' = [lanes EXCEPT !.ready = @ \ {l},
                            !.check = @ \cup relaxations(n, q, s, l, s.time_at_dest[k])]
  /\ UNCHANGED <<search, s, todo, k, results, ping, kernel>>

\* It looks whether a target is improved; then best_ can get better yet.
Check(x) ==
  /\ kernel = "footpaths" /\ x \in lanes.check
  /\ s' = loosely_relaxed(q, s, k, x)
  /\ lanes' = [lanes EXCEPT !.check = @ \ {x}, !.store = @ \cup {y \in {x} : passes(n, q, s, k, y)}]
  /\ UNCHANGED <<search, todo, k, results, ping, kernel>>

Store(x) ==
  /\ kernel = "footpaths" /\ x \in lanes.store
  /\ s' = relax_fp_target(q, s, k, q.max_transfers, x)
  /\ lanes' = [lanes EXCEPT !.store = @ \ {x}]
  /\ UNCHANGED <<search, todo, k, results, ping, kernel>>

EndRound ==
  /\ kernel = "footpaths" /\ lanes = Idle
  /\ s' = [s EXCEPT !.route_mark = {}, !.rt_transport_mark = {}]
  /\ IF k + 1 = end_k THEN kernel' = "reconstruct" /\ UNCHANGED k
                      ELSE kernel' = "reuse" /\ k' = k + 1
  /\ UNCHANGED <<search, todo, lanes, results, ping>>

Reconstruct ==
  /\ kernel = "reconstruct"
  /\ results' = collect_journeys(n, q, s, start_time, end_k, results)
  /\ s' = [s EXCEPT !.reusable = TRUE]
  /\ todo' = Tail(todo) /\ k' = 0 /\ kernel' = "init_arrivals"
  /\ UNCHANGED <<search, lanes, ping>>

(***************************************************************************)
(* pong.cc on the GPU: the labels of the search bound those of the search  *)
(* back from one of its results.                                           *)
(***************************************************************************)
Pong ==
  /\ kernel = "init_arrivals" /\ todo = <<>> /\ search.pong.starts # {} /\ ping = NoPing
  /\ \E j \in results :
       LET most == CHOOSE x \in {o.transfers : o \in results} : \A o \in results : o.transfers <= x
           bounds == fill_bounds_kernel(n, q, s, most + 1)
           at(x) == [x EXCEPT !.time = j.dest + @]
       IN  /\ ping' = [start |-> j.start, dest |-> j.dest, transfers |-> j.transfers]
           /\ search' = [search EXCEPT
                !.q = [search.pong.q EXCEPT !.max_transfers = j.transfers,
                         !.max_travel_time = q.dir * (j.dest - j.start) - 1],
                !.starts = <<[time_at_start |-> j.dest, starts |-> {at(x) : x \in search.pong.starts}]>>]
           /\ s' = device_reset_arrivals(n, search.pong.q,
                     [s EXCEPT !.bounds = [bounds EXCEPT !.last = j.transfers + 1]])
  /\ todo' = search'.starts
  /\ results' = {}
  /\ UNCHANGED <<k, lanes, kernel>>

Done == kernel = "init_arrivals" /\ todo = <<>> /\ (search.pong.starts # {} => ping # NoPing \/ results = {})
        /\ UNCHANGED vars

Next ==
  \/ InitArrivals \/ NoStarts \/ Reuse \/ Mark \/ BeginTransit \/ LoopRoutes \/ BeginFootpaths
  \/ \E l \in lanes.ready : ReadLimit(l)
  \/ \E x \in lanes.check : Check(x)
  \/ \E x \in lanes.store : Store(x)
  \/ EndRound \/ Reconstruct \/ Pong \/ Done

Spec == Init /\ [][Next]_vars

-----------------------------------------------------------------------------
Processed == SubSeq(search.starts, 1, Len(search.starts) - Len(todo))

TravelTime(j) == q.dir * (j.dest - j.start)
Wanted(journeys) == {j \in journeys : TravelTime(j) <= q.max_travel_time}
AsTimes(journeys) ==
  {[start |-> j.start, dest |-> j.dest, transfers |-> j.transfers] : j \in journeys}

Existing ==
  UNION {{[start |-> Processed[i].time_at_start, dest |-> t, transfers |-> m - 1] :
            t \in Ends(n, q, Processed[i].starts, m)} :
         <<i, m>> \in (DOMAIN Processed) \X (1..end_k - 1)}

ParetoOptimal(journeys) == {j \in journeys : \A o \in journeys : dominates(o, j) => o = j}

(***************************************************************************)
(* However the threads are scheduled, the results are the best itineraries *)
(* that exist.                                                             *)
(***************************************************************************)
FindsTheBest ==
  kernel = "init_arrivals" /\ ping = NoPing =>
    Wanted(AsTimes(results)) = ParetoOptimal(Wanted(Existing))

(***************************************************************************)
(* The legs of a journey follow each other in place and time, each ride is *)
(* one of the timetable, each walk is long enough, and the journey fits    *)
(* between its start and its destination.                                  *)
(***************************************************************************)
RideExists(leg) ==
  LET on(r, board, alight, at(_)) ==
        /\ r.stops[board].loc = leg.from /\ r.stops[alight].loc = leg.to /\ board < alight
        /\ can_start(q, r.stops[bc_board(leg.bc)]) /\ can_finish(q, r.stops[bc_alight(leg.bc)])
        /\ leg.dep = at(DepartureOf(board)) /\ leg.arr = at(ArrivalOf(alight))
      lesser == IF q.dir = 1 THEN bc_board(leg.bc) ELSE bc_alight(leg.bc)
      greater == IF q.dir = 1 THEN bc_alight(leg.bc) ELSE bc_board(leg.bc)
      r == LineOf(n, leg.bc)
  IN  IF IsOnRoute(leg.bc)
      THEN leg.day \in r.days[leg.bc[5]]
             /\ on(r, lesser, greater, LAMBDA e : clamp(EventTime(r, leg.bc[5], leg.day, e)))
      ELSE on(r, lesser, greater, LAMBDA e : clamp(r.times[e]))

StaticWalk(leg) ==
  \E d \in {adjusted_transfer_time(q, n.transfer_time[l]) : l \in {leg.from} \cap {leg.to}}
             \cup {0 : l \in {leg.from} \cap {leg.to} \cap q.is_dest}
             \cup {adjusted_transfer_time(q, fp.duration) :
                     fp \in {fp \in n.footpaths : fp.from = leg.from /\ fp.to = leg.to}} :
    leg.arr - leg.dep = d

TdWalk(leg) ==
  LET c == n.td_out[leg.from]
  IN  q.td /\ \E i \in DOMAIN c :
        /\ c[i].target = leg.to /\ c[i].duration # kMaxDuration
        /\ leg.arr - leg.dep = c[i].duration /\ c[i].valid_from <= leg.dep
        /\ i < Len(c) /\ c[i + 1].target = leg.to => leg.dep < c[i + 1].valid_from

Fits(j) ==
  LET legs == j.legs
      first == legs[1]
      last == legs[Len(legs)]
      starts == UNION {Processed[i].starts : i \in {i \in DOMAIN Processed :
                                                     Processed[i].time_at_start = j.start}}
      StartsAt(l, t) == \E x \in starts : x.stop = l /\ better_or_eq(q, x.time, t)
      EndsAt(l, t) ==
        IF ~q.intermodal THEN l \in q.is_dest /\ better_or_eq(q, t, j.dest)
        ELSE \/ t + q.dir * q.dist_to_end[l] = j.dest
             \/ /\ q.td_dest[l] # <<>> /\ Found(get_td_duration(q.dir, q.td_dest[l], t))
                /\ t + q.dir * get_td_duration(q.dir, q.td_dest[l], t).duration = j.dest
  IN  /\ legs # <<>>
      /\ \A i \in DOMAIN legs : IF legs[i].walk THEN StaticWalk(legs[i]) \/ TdWalk(legs[i])
                                                ELSE RideExists(legs[i])
      /\ \A i \in 2..Len(legs) : legs[i - 1].to = legs[i].from /\ legs[i - 1].arr <= legs[i].dep
      /\ IF q.dir = 1 THEN StartsAt(first.from, first.dep) /\ EndsAt(last.to, last.arr)
                      ELSE StartsAt(last.to, last.arr) /\ EndsAt(first.from, first.dep)

JourneysFit ==
  kernel = "init_arrivals" /\ ping = NoPing => \A j \in Wanted(results) : Fits(j)

(***************************************************************************)
(* Whatever the search has found, the search back finds, starting no       *)
(* earlier: its bounds do not cut off that journey.                        *)
(***************************************************************************)
PongAnswers ==
  kernel = "init_arrivals" /\ ping # NoPing /\ todo = <<>> =>
    \E j \in results : /\ j.transfers = ping.transfers /\ better_or_eq(q, j.dest, ping.start)
                       /\ Fits(j)

=============================================================================
