--------------------------------- MODULE Pong ---------------------------------
(***************************************************************************)
(* The range search by ping and pong (pong.cc): from a start time, a ping  *)
(* finds the earliest arrivals; for each of them, a pong in the other      *)
(* direction finds the latest departure. The next ping starts right after  *)
(* the first of these departures. (In a backward search, the other way     *)
(* round.) Journeys of pongs start at their arrivals.                      *)
(***************************************************************************)
EXTENDS Search

CONSTANTS
  kMinLookAhead,
  kMaxLookAhead

VARIABLES
  ping_time,  \* start_time
  pings,      \* the ping results that are still to be ponged
  departures  \* the departures of this ping's journeys

pong_vars == <<ping_time, pings, departures>>

first_time == IF fwd THEN interval.from ELSE interval.to - 1
end_time == IF fwd THEN interval.to ELSE interval.from - 1
lookahead_end == IF fwd THEN interval.from + kMaxLookAhead ELSE interval.to - kMaxLookAhead

\* The times at which real-time data could matter to it.
pong_search_interval(tt, d, query) ==
  LET iv == start_time_interval(query)
  IN  reachable_events(d, IF d = 1 THEN [iv EXCEPT !.to = tt.to] ELSE [iv EXCEPT !.from = tt.from],
                       Lesser(query.max_travel_time + kMinLookAhead, kMaxTravelTime))

PongInit ==
  /\ search \in {[x EXCEPT !.q = [sanitize(x.n, x.q) EXCEPT
                                    !.fastest_direct = get_fastest_direct(x.n, x.dir, x.q)]] :
                   x \in {x \in Searches : x.driver = "pong"}}
  /\ algo = init(n, dir, q, search.lb)
  /\ interval = q.start_time
  /\ starts = {} /\ s = InitialState(n, algo)
  /\ results = {} /\ reconstructed = {} /\ stopped = FALSE
  /\ ping_time = first_time /\ pings = {} /\ departures = {}
  /\ pc = "ping"

-----------------------------------------------------------------------------
(***************************************************************************)
(* Journeys that arrive before the next start time can no longer be        *)
(* dominated: those that arrive later limit what the ping looks for.       *)
(***************************************************************************)
is_validated(j) == is_better(dir, j.dest, ping_time)
IsTooSlow(j) == travel_time(j) >= q.fastest_direct \/ travel_time(j) > q.max_travel_time

Continues ==
  /\ \/ is_better(dir, ping_time, end_time)
     \/ LET valid == {j \in results : is_validated(j)}
        IN  Cardinality(valid) + Cardinality({j \in valid : ~IsTooSlow(j)})
              < 2 * q.min_connection_count
  /\ contains(search.tt, ping_time)
  /\ is_better(dir, ping_time, lookahead_end)

limit_by_results(state) ==
  MapThenFoldSet(LAMBDA j, limited : limit_time_at_dest(algo, limited, j.transfers + 1, j.start),
                 state, LAMBDA j : j, LAMBDA T : CHOOSE j \in T : TRUE,
                 {j \in results : ~is_validated(j)})

fq == [flip_dir(q) EXCEPT !.use_start_footpaths = q.dest_match_mode # "intermodal"]
pong_algo == init(n, -dir, fq, [l \in Nodes(n) |-> 0])

run_ping ==
  LET limited == limit_by_results(reset_arrivals(n, algo, [s EXCEPT !.bounds.last = 0]))
      reach == Lesser(q.max_travel_time + kMinLookAhead, kMaxTravelTime)
  IN  execute(n, algo, limited, AsStarts(StartsAtTime(n, dir, q, ping_time)),
              ping_time, q.max_transfers, ping_time + dir * reach, {})

Ping ==
  /\ pc = "ping" /\ Continues
  /\ \E done \in {run_ping} :
       /\ pings' = done.results
       /\ IF done.results = {}
          THEN pc' = "quit" /\ s' = done.s
          ELSE LET most == CHOOSE x \in {j.transfers : j \in done.results} :
                             \A j \in done.results : j.transfers <= x
               IN  /\ pc' = "pong"
                   /\ s' = [reset_arrivals(n, pong_algo, done.s) EXCEPT
                              !.bounds = fill_bounds(n, algo, done.s, most + 1)]
  /\ departures' = {}
  /\ UNCHANGED <<search, algo, interval, starts, results, reconstructed, stopped, ping_time>>

\* The one with the most transfers is next.
NextPing == CHOOSE j \in pings : \A o \in pings : o.transfers <= j.transfers

Matches(found, ping) == {j \in found : j.transfers = ping.transfers /\ j.start = ping.dest}

Answered(found) ==
  /\ pings' = pings \ {NextPing}
  /\ departures' = departures \cup {j.dest : j \in Matches(found, NextPing)}

\* An earlier ping has found the same arrival.
Known ==
  /\ pc = "pong" /\ pings # {} /\ Matches(results, NextPing) # {}
  /\ Answered(results)
  /\ UNCHANGED <<search_vars, ping_time>>

run_pong(j) ==
  execute(n, pong_algo, [s EXCEPT !.bounds.last = j.transfers + 1],
          AsStarts(StartsAtTime(n, -dir, fq, j.dest)), j.dest, j.transfers, j.start, results)

PongFound ==
  /\ pc = "pong" /\ pings # {} /\ Matches(results, NextPing) = {}
  /\ \E done \in {run_pong(NextPing)} :
       /\ s' = done.s
       /\ results' = done.results
       /\ IF Matches(done.results, NextPing) = {}
          THEN pc' = "failed" /\ reconstructed' = reconstructed /\ UNCHANGED <<pings, departures>>
          ELSE /\ reconstructed' = (reconstructed \cap done.results)
                                      \cup Matches(done.results, NextPing)
               /\ Answered(done.results)
               /\ pc' = pc
  /\ UNCHANGED <<search, algo, interval, starts, stopped, ping_time>>

\* Mutant: the next ping starts with the first departure, unchecked.
Progress_Same ==
  /\ pc = "pong" /\ pings = {}
  /\ ping_time' = CHOOSE t \in departures : \A u \in departures : is_better_or_eq(dir, t, u)
  /\ pc' = "ping" /\ departures' = {}
  /\ UNCHANGED <<search, algo, interval, starts, s, results, reconstructed, stopped, pings>>
Progress ==
  /\ pc = "pong" /\ pings = {}
  /\ LET first == CHOOSE t \in departures : \A u \in departures : is_better_or_eq(dir, t, u)
     IN  IF is_better(dir, ping_time, first + dir)
         THEN ping_time' = first + dir /\ pc' = "ping"
         ELSE pc' = "failed" /\ UNCHANGED ping_time
  /\ departures' = {}
  /\ UNCHANGED <<search, algo, interval, starts, s, results, reconstructed, stopped, pings>>

searched_until == IF is_better(dir, lookahead_end, ping_time) THEN lookahead_end ELSE ping_time

IsOutOfInterval(j) ==
  IF fwd THEN ~q.extend_later /\ j.dest >= interval.to
  ELSE ~q.extend_earlier /\ j.dest < interval.from

PongFinish ==
  /\ pc = "quit" \/ (pc = "ping" /\ (~Continues \/ q.has_timeout))
  /\ results' = {[start |-> j.dest, dest |-> j.start, transfers |-> j.transfers] :
                   j \in {j \in reconstructed :
                            /\ is_validated(j) /\ ~IsOutOfInterval(j)
                            /\ is_better(dir, j.dest, lookahead_end)
                            /\ ~IsTooSlow(j)}}
  /\ reconstructed' = results'
  /\ interval' = IF fwd THEN [interval EXCEPT !.to = searched_until]
                 ELSE [interval EXCEPT !.from = searched_until + 1]
  /\ pc' = "done"
  /\ UNCHANGED <<search, algo, starts, s, stopped, pong_vars>>

PongNext == Ping \/ Known \/ PongFound \/ Progress \/ PongFinish

=============================================================================
