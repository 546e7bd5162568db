-------------------------------- MODULE Routing --------------------------------
(***************************************************************************)
(* A query, answered by the one or the other driver, and the journeys they *)
(* return, reconstructed one at a time before the next execution of the    *)
(* algorithm touches the labels.                                           *)
(***************************************************************************)
EXTENDS Pong, Direct, Itineraries

VARIABLES
  queue,  \* the journeys that are still to be reconstructed
  rec     \* the one in work: [step, j, l, v, k, legs]

rec_vars == <<queue, rec>>

NothingToDo == [step |-> "none", j |-> 0, l |-> 0, v |-> 0, k |-> 0, legs |-> <<>>]
RecInit == queue = {} /\ rec = NothingToDo

\* A pong's journey is one of the query in the other direction.
rq == IF search.driver = "search" THEN algo ELSE pong_algo
ruq == IF search.driver = "search" THEN q ELSE fq

\* The query in the order of travel.
jq == IF rq.dir = 1 THEN ruq ELSE flip_dir(ruq)
jvias == IF rq.dir = 1 THEN rq.vias ELSE Reverse(rq.vias)

IsIdle == queue = {} /\ rec.step \in {"none", "done", "failed"}

\* A driver's step, which may ask for journeys. (At the end it returns those it has.)
Reconstructs ==
  /\ queue' = IF pc' = "done" THEN {} ELSE reconstructed' \ reconstructed
  /\ UNCHANGED rec

\* The destination that is the first to have the label.
dest_of(j) ==
  LET found == {l \in rq.is_dest : s.round_times[j.transfers + 1][l][Vias(rq)] = j.dest}
  IN  CHOOSE l \in found : \A x \in found : l <= x

BeginJourney ==
  /\ queue # {} /\ rec.step \in {"none", "done", "failed"}
  /\ \E j \in queue :
       /\ rec' = [step |-> "legs", j |-> j, l |-> dest_of(j), v |-> Vias(rq),
                  k |-> j.transfers + 1, legs |-> <<>>]
       /\ queue' = queue \ {j}
  /\ UNCHANGED <<search_vars, pong_vars>>

Fail == rec' = [rec EXCEPT !.step = "failed"]

\* No walk of zero minutes at the end.
GetLegs ==
  /\ rec.step = "legs"
  /\ \E found \in {get_legs(n, rq, ruq, s, rec.k, rec.l, rec.v, rec.k = rec.j.transfers + 1)} :
       IF found = {} THEN Fail
       ELSE \E x \in found :
         LET is_empty == /\ rec.legs = <<>> /\ x.walk.from = x.walk.to
                         /\ x.walk.dep = x.walk.arr
         IN  rec' = [rec EXCEPT !.legs = @ \o (IF is_empty THEN <<x.ride>> ELSE <<x.walk, x.ride>>),
                                !.l = SearchStartOf(rq, x.ride), !.v = x.v, !.k = @ - 1,
                                !.step = IF rec.k = 1 THEN "start" ELSE "legs"]
  /\ UNCHANGED <<search_vars, pong_vars, queue>>

FindStart ==
  /\ rec.step = "start"
  /\ \E found \in {find_start_footpath(n, rq, ruq, s, rec.j, Last(rec.legs), rec.v)} :
       IF found = {} THEN Fail
       ELSE \E x \in found :
         rec' = [rec EXCEPT !.step = "adjust",
                            !.legs = IF rq.dir = 1 THEN Reverse(rec.legs \o x) ELSE rec.legs \o x]
  /\ UNCHANGED <<search_vars, pong_vars, queue>>

Adjust ==
  /\ rec.step = "adjust"
  /\ rec' = [rec EXCEPT !.step = "optimize",
                        !.legs = IF rq.dir = 1 THEN @ ELSE adjust_footpaths(n, rq, jvias, @)]
  /\ UNCHANGED <<search_vars, pong_vars, queue>>

Optimize ==
  /\ rec.step = "optimize"
  /\ \E a \in {optimize_initial_departure(n, jq, jvias, rec.legs)} :
       \E b \in {optimize_initial_start_footpath(n, rq, jvias, a)} :
         \E c \in {optimize_last_arrival(n, jq, jvias, b)} :
           \E d \in {optimize_final_egress_footpath(n, rq, jvias, c)} :
             \E e \in {optimize_transfers(n, rq, jvias, d)} :
               rec' = [rec EXCEPT !.legs = specify_td_offsets(jq, e),
                                  !.step = IF search.driver = "pong" /\ fwd /\ jvias = <<>>
                                           THEN "replace" ELSE "done"]
  /\ UNCHANGED <<search_vars, pong_vars, queue>>

\* The drivers' last step, done here for each journey by itself.
Replace ==
  /\ rec.step = "replace"
  /\ rec' = [rec EXCEPT !.step = "done", !.legs = replace_middle_rides(n, q, @)]
  /\ UNCHANGED <<search_vars, pong_vars, queue>>

RecNext == BeginJourney \/ GetLegs \/ FindStart \/ Adjust \/ Optimize \/ Replace

-----------------------------------------------------------------------------
(***************************************************************************)
(* The drivers, and the reconstruction in between.                         *)
(***************************************************************************)
vars == <<search_vars, pong_vars, rec_vars>>

Init ==
  /\ \/ SearchInit /\ ping_time = 0 /\ pings = {} /\ departures = {}
     \/ PongInit
  /\ RecInit

Ended == pc \in {"failed", "done"}
Done == Ended /\ UNCHANGED vars

RunSearch == IsIdle /\ SearchNext /\ Reconstructs /\ UNCHANGED pong_vars
RunPong == IsIdle /\ PongNext /\ Reconstructs

Next == RunSearch \/ RunPong \/ RecNext \/ Done

(***************************************************************************)
(* The drivers' loops run on: fairness without ENABLED, which is expensive *)
(* to evaluate here.                                                       *)
(***************************************************************************)
RunsOn == []<>Ended \/ []<><<Next>>_vars

Spec == Init /\ [][Next]_vars /\ RunsOn

-----------------------------------------------------------------------------
\* The journeys that exist for a traveller who is ready at t.
JourneysAt(t) ==
  {[start |-> t, dest |-> x[2], transfers |-> x[1] - 1] :
     x \in UNION {{<<m, e>> : e \in Ends(n, algo, AsStarts(StartsAtTime(n, dir, q, t)), m)} :
                    m \in 1..last_round(q.max_transfers) - 1}}

(***************************************************************************)
(* The minutes of the interval and the one after it (before it, in a       *)
(* backward search): who can leave later and arrives no later does so.     *)
(***************************************************************************)
ReadyTimes ==
  IF q.is_ontrip THEN {q.start_time.from}
  ELSE IF fwd THEN interval.from..interval.to ELSE interval.from - 1..interval.to - 1

\* A set of journeys is compared as journey::dominates does.
BestOf(journeys) == {j \in journeys : \A o \in journeys : dominates(o, j) => o = j}

Promised(journeys) ==
  {j \in journeys : (q.is_ontrip \/ InInterval(j)) /\ ~IsTooSlow(j)}

(***************************************************************************)
(* The drivers return the best journeys of the interval they say they have *)
(* searched: no start that is left out, label that is kept, interval that  *)
(* is extended or cut off, no bound and no ping loses one.                 *)
(***************************************************************************)
CompleteForInterval ==
  pc = "done" /\ ~start_dest_overlap =>
    Promised(results) = Promised(BestOf(UNION {JourneysAt(t) : t \in ReadyTimes}))

(***************************************************************************)
(* Every ping is answered, and the next one starts later: neither          *)
(* exception of pong.cc is thrown.                                         *)
(***************************************************************************)
NoPongFails == pc # "failed"

(***************************************************************************)
(* All that is returned happens while real-time data is looked at.         *)
(***************************************************************************)
EventsInReach ==
  pc = "done" =>
    LET reach == IF search.driver = "search" THEN raptor_search_interval(search.tt, dir, q)
                 ELSE pong_search_interval(search.tt, dir, q)
    IN  \A j \in Promised(results) : contains(reach, j.start) /\ contains(reach, j.dest)

(***************************************************************************)
(* The drivers end.                                                        *)
(***************************************************************************)
Terminates == <>Ended

-----------------------------------------------------------------------------
(***************************************************************************)
(* Every journey of the labels can be found again: neither exception of    *)
(* reconstruct.cc is thrown.                                               *)
(***************************************************************************)
EveryLegFound == rec.step # "failed"

-----------------------------------------------------------------------------
(***************************************************************************)
(* What makes a journey one that can be travelled, by definition.          *)
(***************************************************************************)
departure(j) == IF rq.dir = 1 THEN j.start ELSE j.dest
arrival(j) == IF rq.dir = 1 THEN j.dest ELSE j.start

RideExists(leg) ==
  LET r == LineOf(n, leg.run)
  IN  /\ leg.first < leg.last /\ is_used(rq, r)
      /\ ~leg.run.rt => leg.run.day \in r.days[leg.run.pos]
      /\ leg.from = r.stops[leg.first].loc /\ leg.dep = DepTime(n, leg, leg.first)
      /\ leg.to = r.stops[leg.last].loc /\ leg.arr = ArrTime(n, leg, leg.last)
      /\ \A f \in rq.flags : leg.first..leg.last - 1 \subseteq r.sections[f]
      /\ can_start([rq EXCEPT !.dir = 1], r.stops[leg.first])
      /\ can_finish([rq EXCEPT !.dir = 1], r.stops[leg.last])

\* A list of durations by time lets one walk from dep to arr.
IsOpen(list, dep, arr) ==
  \E i \in DOMAIN list, t \in dep..arr :
    /\ list[i].duration # kMaxDuration /\ t + list[i].duration <= arr
    /\ list[i].valid_from <= t /\ (i < Len(list) => list[i + 1].valid_from > t)

WalkExists(leg) ==
  LET Takes(d) == leg.dep + adjusted_transfer_time(rq, d) <= leg.arr
  IN  IF leg.from = leg.to THEN Takes(n.transfer_time[leg.from])
      ELSE IF IsTd(rq, n.td_out, leg.from)
      THEN IsOpen(SelectSeq(n.td_out[leg.from], LAMBDA fp : fp.target = leg.to), leg.dep, leg.arr)
      ELSE \E fp \in n.footpaths : fp.from = leg.from /\ fp.to = leg.to /\ Takes(fp.duration)

OffsetExists(leg, mode, offsets, td, l) ==
  \/ \E o \in offsets : matches(n, mode, o.target, l) /\ leg.dep + o.duration <= leg.arr
  \/ IsOpen(td[l], leg.dep, leg.arr)

LegExists(legs, i) ==
  LET leg == legs[i]
  IN  CASE leg.kind = "ride" -> RideExists(leg)
        [] leg.kind = "walk" -> WalkExists(leg)
        [] leg.kind = "offset" /\ i = 1 ->
             OffsetExists(leg, jq.start_match_mode, jq.start, jq.td_start, leg.to)
        [] leg.kind = "offset" /\ i = Len(legs) /\ i # 1 ->
             OffsetExists(leg, jq.dest_match_mode, jq.destination, jq.td_dest, leg.from)
        [] OTHER -> FALSE

\* There is a way, or the door is at the stop and open.
EndsAt(mode, offsets, td, leg, l) ==
  \/ leg.kind = "offset"
  \/ \E o \in offsets : matches(n, mode, o.target, l) /\ (mode # "intermodal" \/ o.duration = 0)
  \/ \E t \in {leg.dep, leg.arr} : IsOpen(td[l], t, t)

CanBeTravelled(j, legs) ==
  /\ \A i \in DOMAIN legs : legs[i].dep <= legs[i].arr /\ LegExists(legs, i)
  /\ \A i \in 1..Len(legs) - 1 : legs[i].to = legs[i + 1].from /\ legs[i].arr <= legs[i + 1].dep
  /\ EndsAt(jq.start_match_mode, jq.start, jq.td_start, legs[1], legs[1].from)
  /\ EndsAt(jq.dest_match_mode, jq.destination, jq.td_dest, Last(legs), Last(legs).to)
  /\ departure(j) <= legs[1].dep /\ Last(legs).arr <= arrival(j)
  /\ Cardinality({i \in DOMAIN legs : legs[i].kind = "ride"}) = j.transfers + 1

\* The time at a stop, without the time to change there, is spent on a via.
VisitsAllVias(j, legs) ==
  LET Visit(vs, l, spare) ==
        vs \cup {v + 1 : v \in {v \in vs : /\ v < Len(jvias) /\ l \in jvias[v + 1].stops
                                           /\ jvias[v + 1].stay <= spare}}
      Pass(vs, leg) ==
        ForEach(LAMBDA vs1, x : Visit(vs1, StopsOf(n, leg)[x].loc, 0), vs,
                IF leg.kind = "ride" THEN leg.first..leg.last ELSE {})
      Arrived(i) == IF i = 1 THEN departure(j) ELSE legs[i - 1].arr
      Travel(a, i) ==
        LET spare == a.spare + legs[i].dep - Arrived(i)
        IN  IF legs[i].from = legs[i].to THEN [a EXCEPT !.spare = spare]
            ELSE [vs |-> Pass(Visit(a.vs, legs[i].from, spare), legs[i]), spare |-> 0]
      travelled == ForEach(Travel, [vs |-> {0}, spare |-> 0], DOMAIN legs)
  IN  Len(jvias) \in
        Visit(travelled.vs, Last(legs).to, travelled.spare + arrival(j) - Last(legs).arr)

\* A list of legs as a journey.
JourneyOf(legs) ==
  LET dep == legs[1].dep
      arr == Last(legs).arr
  IN  [start |-> IF rq.dir = 1 THEN dep ELSE arr, dest |-> IF rq.dir = 1 THEN arr ELSE dep,
       transfers |-> Cardinality(RidesOf(legs)) - 1]

\* The journey with one of its rides replaced by an alternative.
max_alternatives == 2
WithAlternative(legs, i, alternative) ==
  LET before == {x \in RidesOf(legs) : x < i}
      after == {x \in RidesOf(legs) : x > i}
  IN  (IF before = {} THEN <<>> ELSE SubSeq(legs, 1, Max(before))) \o alternative
        \o (IF after = {} THEN <<>> ELSE SubSeq(legs, Min(after), Len(legs)))
Alternatives(legs) ==
  UNION {{WithAlternative(legs, i, alternative) :
            alternative \in get_leg_alternatives(n, jq, legs, i, max_alternatives)} :
           i \in RidesOf(legs)}

SlowDirect == enrich_with_slow_direct(n, q, IF fwd THEN q ELSE flip_dir(q), dir, interval)

(***************************************************************************)
(* The legs that are found make up a journey that can be travelled between *)
(* its departure and its arrival, and they visit the vias, also after      *)
(* walks have been exchanged for shorter ones; a ride can be replaced by   *)
(* each of its alternatives, and the slow journeys without a change that   *)
(* pongs are enriched with can be travelled, too.                          *)
(***************************************************************************)
HasAllLegs == rec.step \in {"optimize", "replace", "done"}
Claims ==
  {<<rec.j, legs>> : legs \in IF HasAllLegs THEN {rec.legs} ELSE {}}
    \cup {<<JourneyOf(legs), legs>> :
            legs \in (IF rec.step = "done" THEN Alternatives(rec.legs) ELSE {})
                       \cup (IF pc = "done" THEN SlowDirect ELSE {})}
JourneysCanBeTravelled == \A x \in Claims : CanBeTravelled(x[1], x[2])
ViasStayVisited == HasAllLegs => VisitsAllVias(rec.j, rec.legs)

=============================================================================
