-------------------------------- MODULE Search --------------------------------
(***************************************************************************)
(* The search driver (search.h): RAPTOR is executed for each start time of *)
(* an interval, the last one first in a forward search, and the interval   *)
(* is extended until enough journeys are found. An extension in the bad    *)
(* direction resets the labels and takes back the journeys from outside.   *)
(***************************************************************************)
EXTENDS StartTimes, RaptorRounds

(***************************************************************************)
(* How far the interval of a search extends (interval_estimate.h), and the *)
(* times a search can reach (search_interval.cc). A query has              *)
(*   start_time             : the interval it asks for                     *)
(*   min_connection_count, extend_earlier, extend_later                    *)
(*   max_interval           : an interval that is not left, or NoInterval  *)
(*   is_direct_known        : fastest_direct_ is given                     *)
(* tt is the external interval of the timetable.                           *)
(***************************************************************************)

CONSTANTS
  Hour,
  kMaxSearchIntervalSize

NoInterval == [from |-> 0, to |-> 0]

Lesser(a, b) == IF a < b THEN a ELSE b
Greater(a, b) == IF a < b THEN b ELSE a

size(iv) == iv.to - iv.from
clamp_to(iv, t) == IF t < iv.from THEN iv.from ELSE IF iv.to < t THEN iv.to ELSE t
Clamped(iv, limits) == [from |-> clamp_to(limits, iv.from), to |-> clamp_to(limits, iv.to)]

\* std::chrono::round<days>: halves go to the even day.
round_to_day(t) ==
  LET day == t \div DayLength
      rest == 2 * (t % DayLength)
  IN  DayLength * (IF rest < DayLength \/ (rest = DayLength /\ day % 2 = 0) THEN day ELSE day + 1)

\* Division of durations truncates.
half(d) == IF d >= 0 THEN d \div 2 ELSE -((-d) \div 2)

\* No more than a day or two around the query, and no more than labels hold.
data_type_max_interval(q) ==
  LET iv == q.start_time
      margin == DayLength * (IF q.is_direct_known THEN 1 ELSE 2)
  IN  [from |-> Greater(round_to_day(iv.from - margin),
                        round_to_day(iv.from + half(size(iv) - kMaxSearchIntervalSize))),
       to |-> Lesser(round_to_day(iv.to + margin),
                     round_to_day(iv.from + half(size(iv) + kMaxSearchIntervalSize)))]

ClampInterval(tt, q, iv) ==
  LET inside == Clamped(Clamped(iv, tt), data_type_max_interval(q))
  IN  IF q.max_interval = NoInterval THEN inside ELSE Clamped(inside, q.max_interval)

can_extend_earlier(tt, q, iv) == q.extend_earlier /\ iv.from # tt.from
can_extend_later(tt, q, iv) == q.extend_later /\ iv.to # tt.to
can_extend_both_dir(tt, q, iv) == can_extend_earlier(tt, q, iv) /\ can_extend_later(tt, q, iv)

Extends(q) == q.extend_earlier \/ q.extend_later

(***************************************************************************)
(* The first interval. The bad direction is the one in which an extension  *)
(* makes the search start anew: there, more is searched at once.           *)
(***************************************************************************)
initial(tt, dir, q, iv) ==
  LET ext == Hour * q.min_connection_count
      bad == IF dir = 1 THEN can_extend_later(tt, q, iv) ELSE can_extend_earlier(tt, q, iv)
      Widen(earlier, later) == [from |-> iv.from - earlier, to |-> iv.to + later]
      widened ==
        IF bad
        THEN IF dir = 1
             THEN IF can_extend_earlier(tt, q, iv) THEN Widen(Hour, ext) ELSE Widen(0, Hour + ext)
             ELSE IF can_extend_later(tt, q, iv) THEN Widen(ext, Hour) ELSE Widen(Hour + ext, 0)
        ELSE IF dir = 1
             THEN IF q.extend_earlier THEN Widen(Hour + ext, 0) ELSE iv
             ELSE IF q.extend_later THEN Widen(0, Hour + ext) ELSE iv
  IN  IF q.min_connection_count = 0 \/ ~Extends(q) THEN iv ELSE ClampInterval(tt, q, widened)

extension(tt, q, iv, num_con_req) ==
  LET ext == size(iv) * num_con_req
      earlier == IF can_extend_both_dir(tt, q, iv) THEN half(ext)
                 ELSE IF q.extend_earlier THEN ext ELSE 0
      later == IF can_extend_both_dir(tt, q, iv) THEN half(ext)
               ELSE IF q.extend_later THEN ext ELSE 0
  IN  IF num_con_req = 0 \/ ~Extends(q) THEN iv
      ELSE ClampInterval(tt, q, [from |-> iv.from - earlier, to |-> iv.to + later])

\* Everything, as far as it may be searched.
max_interval(tt, q) ==
  LET inside == Clamped(tt, data_type_max_interval(q))
  IN  IF q.max_interval = NoInterval THEN inside ELSE Clamped(inside, q.max_interval)

-----------------------------------------------------------------------------
start_time_interval(q) == IF q.is_ontrip THEN [q.start_time EXCEPT !.to = @ + 1] ELSE q.start_time

reachable_events(dir, iv, max_reach) ==
  IF dir = 1 THEN [iv EXCEPT !.to = @ + max_reach] ELSE [iv EXCEPT !.from = @ - max_reach]

\* Mutant: the extension of the interval is forgotten.
raptor_search_interval_Fixed(tt, dir, q) == reachable_events(dir, start_time_interval(q), q.max_travel_time)

\* The times at which real-time data could matter to a search.
raptor_search_interval(tt, dir, q) ==
  LET query_iv == start_time_interval(q)
      max_iv == max_interval(tt, q)
      extends == q.min_connection_count # 0
      iv == [from |-> IF extends /\ q.extend_earlier THEN Lesser(query_iv.from, max_iv.from)
                      ELSE query_iv.from,
             to |-> IF extends /\ q.extend_later THEN Greater(query_iv.to, max_iv.to)
                    ELSE query_iv.to]
  IN  reachable_events(dir, iv, q.max_travel_time)

-----------------------------------------------------------------------------
(***************************************************************************)
(* The shortest walk from the start to the destination: journeys that take *)
(* as long are not wanted. Footpaths lead to what the query names as its   *)
(* destination only, one after the other.                                  *)
(***************************************************************************)
kUnreachableDirect == 32767

get_fastest_direct(m, d, query) ==
  LET at_start == UNION {{<<l, o.duration>> : l \in for_each_meta(m, query.start_match_mode, o.target)} :
                           o \in query.start}
      targets == {o.target : o \in query.destination}
      Walked(x) ==
        {<<IF d = 1 THEN fp.to ELSE fp.from, x[2] + adjusted_transfer_time(query, fp.duration)>> :
           fp \in {fp \in m.footpaths : /\ x[1] = (IF d = 1 THEN fp.from ELSE fp.to)
                                        /\ (IF d = 1 THEN fp.to ELSE fp.from) \in targets}}
      reached[i \in 0..Cardinality(targets)] ==
        IF i = 0 THEN at_start ELSE reached[i - 1] \cup UNION {Walked(x) : x \in reached[i - 1]}
      ends == UNION {{x[2] + o.duration : o \in {o \in query.destination : o.target = x[1]}} :
                     x \in reached[Cardinality(targets)]}
      shortest == CHOOSE x \in ends : \A y \in ends : x <= y
  IN  IF query.is_direct_known THEN query.fastest_direct
      ELSE IF ends = {} THEN kUnreachableDirect ELSE shortest * query.direct_factor

(***************************************************************************)
(* A query for somebody on a train ([r, pos, day]) that arrives at a stop  *)
(* next: any later stop can be changed at.                                 *)
(***************************************************************************)
generate_ontrip_train_query(m, t, stop_idx, query) ==
  LET Arrival(i) == EventTime(m.routes[t.r], t.pos, t.day, 2 * i - 3)
      loc(i) == m.routes[t.r].stops[i].loc
  IN  [query EXCEPT
         !.start = @ \cup {[target |-> loc(i), duration |-> Arrival(i) + m.transfer_time[loc(i)] - Arrival(stop_idx)] :
                           i \in stop_idx..Len(m.routes[t.r].stops)},
         !.start_time = [from |-> Arrival(stop_idx), to |-> Arrival(stop_idx)], !.is_ontrip = TRUE]

-----------------------------------------------------------------------------
CONSTANT Searches
(***************************************************************************)
(* Sets of [driver, n, dir, q, lb, tt]: the driver, a network, the         *)
(* direction, a query as above and in StartTimes, with its                 *)
(* fastest_direct and has_timeout, lower bounds and the timetable's        *)
(* interval.                                                               *)
(***************************************************************************)

VARIABLES
  search,
  algo,          \* the query, as the algorithm is told
  interval,      \* search_interval_
  starts,        \* the starts that are still to be searched
  s,             \* raptor_state and time_at_dest_
  results,
  reconstructed, \* the journeys of results with is_reconstructed_
  stopped,       \* early_termination
  pc

search_vars == <<search, algo, interval, starts, s, results, reconstructed, stopped, pc>>

n == search.n
q == search.q
dir == search.dir
fwd == dir = 1

travel_time(j) == IF j.dest < j.start THEN j.start - j.dest ELSE j.dest - j.start
InInterval(j) == contains(interval, j.start)

Counted(journeys) == {j \in journeys : q.is_ontrip \/ InInterval(j)}
n_results_in_interval == Cardinality(Counted(results))

\* Without a stop at which to start and to end at once there is a search.
start_dest_overlap ==
  /\ "intermodal" \notin {q.start_match_mode, q.dest_match_mode}
  /\ \E o \in q.start, d \in q.destination :
       for_each_meta(n, q.start_match_mode, o.target)
         \cap for_each_meta(n, q.dest_match_mode, d.target) # {}

StartsIn(iv, add_ontrip) ==
  {ToSet(starts_in_interval(n, dir, q, iv, order, add_ontrip)) : order \in AllOffsets(n, dir, q)}
StartsAtTime(m, d, query, t) == ToSet(starts_at(m, d, query, t, AnOrder(AllOffsets(m, d, query))))

SearchInit ==
  /\ search \in {[x EXCEPT !.q = [sanitize(x.n, x.q) EXCEPT !.transfer = Corrected(@),
                                    !.fastest_direct = get_fastest_direct(x.n, x.dir, x.q)]] :
                   x \in {x \in Searches : x.driver = "search"}}
  /\ algo = init(n, dir, q, search.lb)
  /\ interval = IF q.is_ontrip \/ start_dest_overlap THEN q.start_time
                ELSE initial(search.tt, dir, q, q.start_time)
  /\ starts \in IF start_dest_overlap THEN {{}}
                ELSE IF size(interval) # 0 THEN StartsIn(interval, TRUE)
                ELSE IF q.is_ontrip THEN {StartsAtTime(n, dir, q, q.start_time.from)}
                ELSE StartsIn(q.start_time, TRUE)
  /\ s = InitialState(n, algo)
  /\ results = {} /\ reconstructed = {} /\ stopped = FALSE
  /\ pc = IF start_dest_overlap THEN "done" ELSE "search"

-----------------------------------------------------------------------------
(***************************************************************************)
(* search_interval: the starts of a time at once.                          *)
(***************************************************************************)
start_time == CHOOSE t \in {x.time_at_start : x \in starts} :
                \A x \in starts : is_better_or_eq(-dir, t, x.time_at_start)
Current == {x \in starts : x.time_at_start = start_time}
AsStarts(S) == {[stop |-> x.stop, time |-> x.time_at_stop, v |-> x.v] : x \in S}

worst_time_at_dest ==
  start_time + dir * (Lesser(q.fastest_direct, q.max_travel_time) + 1)

\* Only the end that is reached last can be cut off.
MayStop ==
  /\ q.min_connection_count > 0
  /\ IF fwd THEN q.extend_earlier /\ ~q.extend_later ELSE q.extend_later /\ ~q.extend_earlier

SearchStarts ==
  /\ pc = "search" /\ starts # {} /\ ~stopped
  /\ \E done \in {execute(n, algo, s, AsStarts(Current), start_time, q.max_transfers,
                           worst_time_at_dest, results)} :
       /\ s' = done.s
       /\ results' = done.results
       /\ reconstructed' = (reconstructed \cap results')
            \cup {j \in Counted(results') : travel_time(j) < q.fastest_direct}
       /\ stopped' = (MayStop /\ Cardinality(Counted(results')) >= q.min_connection_count)
  /\ interval' = IF ~stopped' THEN interval
                 ELSE IF fwd THEN [interval EXCEPT !.from = start_time]
                 ELSE [interval EXCEPT !.to = start_time + 1]
  /\ starts' = starts \ Current
  /\ UNCHANGED <<search, algo, pc>>

\* What remains after an early termination is skipped.
SkipStarts ==
  /\ pc = "search" /\ stopped /\ starts # {}
  /\ starts' = {}
  /\ UNCHANGED <<search, algo, interval, s, results, reconstructed, stopped, pc>>

-----------------------------------------------------------------------------
MustFinish ==
  results = {} \/ q.is_ontrip \/ n_results_in_interval >= q.min_connection_count

new_interval ==
  extension(search.tt, q, interval, q.min_connection_count - n_results_in_interval)

IsMaximum == new_interval = interval

\* Mutant: it is the other direction that resets.
resets_Swapped(earlier, later) == size(IF fwd THEN earlier ELSE later) # 0
\* Labels are of starts that are searched later: what comes first now is reset.
resets(earlier, later) == size(IF fwd THEN later ELSE earlier) # 0

remove_ontrip_results == {j \in results : InInterval(j)}

Extend ==
  /\ pc = "search" /\ starts = {} /\ ~MustFinish /\ ~IsMaximum
  /\ LET earlier == [from |-> new_interval.from, to |-> interval.from]
         later == [from |-> interval.to, to |-> new_interval.to]
         Added(iv, add_ontrip) == IF size(iv) = 0 THEN {{}} ELSE StartsIn(iv, add_ontrip)
     IN  /\ \E S \in Added(earlier, ~fwd), T \in Added(later, fwd) : starts' = S \cup T
         /\ s' = IF resets(earlier, later) THEN reset_arrivals(n, algo, s) ELSE s
         /\ results' = IF resets(earlier, later) THEN remove_ontrip_results ELSE results
  /\ reconstructed' = reconstructed \cap results'
  /\ interval' = new_interval
  /\ stopped' = FALSE
  /\ UNCHANGED <<search, algo, pc>>

(***************************************************************************)
(* The loop also ends when it takes too long. Only journeys that could be  *)
(* reconstructed, of the interval and not too slow, are returned.          *)
(***************************************************************************)
Finish ==
  /\ pc = "search" /\ starts = {}
  /\ MustFinish \/ IsMaximum \/ q.has_timeout
  /\ results' = {j \in reconstructed :
                   q.is_ontrip \/ (/\ InInterval(j)
                                   /\ travel_time(j) < q.fastest_direct
                                   /\ travel_time(j) <= q.max_travel_time)}
  /\ reconstructed' = results'
  /\ pc' = "done"
  /\ UNCHANGED <<search, algo, interval, starts, s, stopped>>

SearchNext == SearchStarts \/ SkipStarts \/ Extend \/ Finish

=============================================================================
