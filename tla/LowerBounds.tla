----------------------------- MODULE LowerBounds -----------------------------
(***************************************************************************)
(* Lower bounds of the travel time to the destination: the lower bound     *)
(* graph between stations that the loader builds, the edges a real-time    *)
(* timetable adds to it, and the search on both with which every query     *)
(* starts. RAPTOR drops a stop when its time plus the bound is too late:   *)
(* bounds that are too high lose journeys.                                 *)
(*                                                                         *)
(* A network (see Locations) also has                                      *)
(*   footpaths : for each profile a set of [from, to, duration]            *)
(*   routes    : a sequence of [stops, times, profiles]: locations, the    *)
(*               events of each transport (see Transports), and the        *)
(*               profiles that may use the route                           *)
(* A real-time transport is [stops, times, route, transport]; the last two *)
(* are 0 if it replaces no static transport.                               *)
(***************************************************************************)
EXTENDS Locations, Sequences, Functions

CONSTANTS
  Networks,     \* timetables
  RtUpdates(_), \* lists of real-time transports a timetable may get
  Queries(_),   \* queries on a timetable
  MaxUpdates,   \* real-time updates before the query
  MaxTravelTime \* kMaxTravelTime in minutes, the last bucket of the queue

Directions == {"fwd", "bwd"}
DefaultProfile == 0
Infinity == 65535

ASSUME MaxTravelTimeAssumption == MaxTravelTime \in Nat /\ MaxTravelTime < Infinity

(***************************************************************************)
(* Locations have up to two levels below the stations. The times of a      *)
(* transport are in order, of real-time transports as well.                *)
(***************************************************************************)
IsHierarchy(n) ==
  /\ n.parents \in Seq({NoLocation} \cup AllLocations(n))
  /\ \A l \in AllLocations(n) :
       LET p == n.parents[l]
       IN  p = NoLocation \/ n.parents[p] = NoLocation \/ n.parents[n.parents[p]] = NoLocation

IsRun(n, stops, times) ==
  /\ stops \in Seq(AllLocations(n)) /\ Len(stops) >= 2
  /\ times \in [0..2 * Len(stops) - 3 -> Int]
  /\ \A e, f \in DOMAIN times : e <= f => times[e] <= times[f]

IsNetwork(n) ==
  /\ IsHierarchy(n)
  /\ DefaultProfile \in DOMAIN n.footpaths
  /\ \A prf \in DOMAIN n.footpaths :
       n.footpaths[prf] \subseteq [from : AllLocations(n), to : AllLocations(n), duration : Nat]
  /\ \A r \in Range(n.routes) :
       /\ DefaultProfile \in r.profiles /\ DOMAIN r.times # {}
       /\ \A t \in DOMAIN r.times : IsRun(n, r.stops, r.times[t])

IsRtUpdate(n, u) ==
  /\ u \in Seq(Range(u))
  /\ \A rt \in Range(u) :
       /\ IsRun(n, rt.stops, rt.times)
       /\ rt.route # 0 => rt.route \in DOMAIN n.routes /\ rt.transport \in DOMAIN n.routes[rt.route].times

\* A duration has to fit into the dial, as dial::push asserts.
IsQuery(n, q) ==
  /\ q.dir \in Directions /\ q.profile \in DOMAIN n.footpaths
  /\ q.mode \in {"exact", "intermodal", "only_children", "equivalent"}
  /\ \A o \in q.destination : o.target \in AllLocations(n) /\ o.duration \in 0..MaxTravelTime

ASSUME NetworksAssumption ==
  \A n \in Networks :
    /\ IsNetwork(n)
    /\ \A u \in RtUpdates(n) : IsRtUpdate(n, u)
    /\ \A q \in Queries(n) : IsQuery(n, q)

VARIABLES
  tt,      \* the network
  lb_graph, \* its static graphs per direction and profile
  rts,     \* its real-time transports
  rtt,     \* the rt_timetable's part: has_edges and graph per direction
  updates, \* number of updates
  query,   \* the running query, or NoQuery
  pq,      \* the dial: the locations in each bucket
  dists,   \* distances by location
  done

vars == <<tt, lb_graph, rts, rtt, updates, query, pq, dists, done>>

NoQuery == [mode |-> "none"]

dep(s) == 2 * (s - 1)
arr(s) == 2 * (s - 1) - 1

MinOf(S) == CHOOSE x \in S : \A y \in S : x <= y
Lower(x, y) == IF x < y THEN x ELSE y

(***************************************************************************)
(* build_lb_graph: the edges of a station are those of all its locations,  *)
(* against the direction of the search. An edge is [target, duration].     *)
(***************************************************************************)
Segments(r) == 1..Len(r.stops) - 1
SegmentTime(times, s) == times[arr(s + 1)] - times[dep(s)]

FootpathWeights(n, dir, prf, l) ==
  {[target |-> get_root_idx(n, IF dir = "fwd" THEN fp.from ELSE fp.to),
    duration |-> fp.duration] :
      fp \in {f \in n.footpaths[prf] : l = IF dir = "fwd" THEN f.to ELSE f.from}}

FastestTransport(r, s) ==
  MinOf({SegmentTime(r.times[t], s) : t \in DOMAIN r.times})

RouteWeights(n, dir, prf, l) ==
  UNION {{[target |-> get_root_idx(n, r.stops[IF dir = "fwd" THEN s ELSE s + 1]),
           duration |-> FastestTransport(r, s)] :
             s \in {s \in Segments(r) :
                      r.stops[IF dir = "fwd" THEN s + 1 ELSE s] = l}} :
         r \in {r \in Range(n.routes) : prf \in r.profiles}}

build_lb_graph(n, dir, prf) ==
  [l \in AllLocations(n) |->
     IF n.parents[l] # NoLocation THEN {}
     ELSE LET weights == UNION {FootpathWeights(n, dir, prf, x)
                                  \cup RouteWeights(n, dir, prf, x) :
                                    x \in {l} \cup Descendants(n, l)}
          IN  {w \in weights :
                 /\ w.target # l
                 /\ \A v \in weights : v.target = w.target => w.duration <= v.duration}]

-----------------------------------------------------------------------------
(***************************************************************************)
(* update_lbs builds the real-time edges anew from all transports. An edge *)
(* that the static graph has at least as fast is left out. The bits that   *)
(* say which locations have edges outlive the graph.                       *)
(***************************************************************************)
is_fastest(edges, e) == \A x \in edges : x.target = e.target => x.duration > e.duration

AddEdge(g, dir, src, e) ==
  IF ~is_fastest(lb_graph[dir][DefaultProfile][src], e) THEN g
  ELSE IF g.has_edges[dir][src] /\ ~is_fastest(g.graph[dir][src], e) THEN g
  ELSE [g EXCEPT !.has_edges[dir][src] = TRUE, 
                 !.graph[dir][src] = {x \in @ : x.target # e.target} \cup {e}]

add_lb_edge(g, from, to, travel_time) ==
  IF from = to THEN g
  ELSE AddEdge(AddEdge(g, "fwd", to, [target |-> from, duration |-> travel_time]),
               "bwd", from, [target |-> to, duration |-> travel_time])

\* Mutant: only the length of the stop sequence is compared.
StaticIsAsFast_Length(rt, s) ==
  /\ rt.route # 0
  /\ LET r == tt.routes[rt.route]
     IN  /\ Len(r.stops) = Len(rt.stops)
         /\ SegmentTime(rt.times, s) >= SegmentTime(r.times[rt.transport], s)

StaticIsAsFast(rt, s) ==
  /\ rt.route # 0
  /\ LET r == tt.routes[rt.route]
     IN  /\ Len(r.stops) = Len(rt.stops)
         /\ r.stops[s] = rt.stops[s] /\ r.stops[s + 1] = rt.stops[s + 1]
         /\ SegmentTime(rt.times, s) >= SegmentTime(r.times[rt.transport], s)

UpdateSegment(g, rt, s) ==
  IF SegmentTime(rt.times, s) < 0 \/ StaticIsAsFast(rt, s) THEN g
  ELSE add_lb_edge(g, get_root_idx(tt, rt.stops[s]),
                   get_root_idx(tt, rt.stops[s + 1]), SegmentTime(rt.times, s))

NoEdges(n) == [d \in Directions |-> [l \in AllLocations(n) |-> {}]]

UpdateTransport(g, rt) ==
  LET after[s \in 0..Len(rt.stops) - 1] == IF s = 0 THEN g ELSE UpdateSegment(after[s - 1], rt, s)
  IN  after[Len(rt.stops) - 1]

update_lbs(transports) ==
  LET none == [rtt EXCEPT !.graph = NoEdges(tt)]
      after[x \in 0..Len(transports)] == IF x = 0 THEN none ELSE UpdateTransport(after[x - 1], transports[x])
  IN  after[Len(transports)]

-----------------------------------------------------------------------------
(***************************************************************************)
(* The dial: which location is next in a bucket is left open.              *)
(***************************************************************************)
EmptyDial == [d \in 0..MaxTravelTime |-> {}]

IsEmpty(dial) == \A d \in DOMAIN dial : dial[d] = {}
TopBucket(dial) == MinOf({d \in DOMAIN dial : dial[d] # {}})

Init ==
  /\ tt \in Networks
  /\ lb_graph = [dir \in Directions |-> [prf \in DOMAIN tt.footpaths |->
                   build_lb_graph(tt, dir, prf)]]
  /\ rts = <<>> /\ updates = 0 /\ done = FALSE
  /\ rtt = [has_edges |-> [d \in Directions |-> [l \in AllLocations(tt) |-> FALSE]],
            graph |-> NoEdges(tt)]
  /\ query = NoQuery /\ pq = EmptyDial
  /\ dists = [l \in AllLocations(tt) |-> Infinity]

UpdateLbs ==
  /\ query = NoQuery /\ updates < MaxUpdates
  /\ \E u \in RtUpdates(tt) :
       rts' = u /\ rtt' = update_lbs(u)
  /\ updates' = updates + 1
  /\ UNCHANGED <<tt, lb_graph, query, pq, dists, done>>

(***************************************************************************)
(* Destinations are [target, duration], a query also has a match mode, a   *)
(* direction and a profile. Distances are kept for the roots first, then   *)
(* pushed for all locations that match.                                    *)
(***************************************************************************)
RootMinimum(q) ==
  LET durations(r) ==
        {o.duration : o \in {o \in q.destination :
                              \E x \in for_each_meta(tt, q.mode, o.target) : get_root_idx(tt, x) = r}}
  IN  [r \in {r \in AllLocations(tt) : durations(r) # {}} |-> MinOf(durations(r))]

Dijkstra(q) ==
  /\ query = NoQuery
  /\ query' = q
  /\ LET min == RootMinimum(q)
         pushed(l) == {min[r] : r \in {r \in DOMAIN min : l \in for_each_meta(tt, q.mode, r)}}
     IN  /\ pq' = [d \in 0..MaxTravelTime |-> {l \in AllLocations(tt) : d \in pushed(l)}]
         /\ dists' = [l \in AllLocations(tt) |-> MinOf({Infinity} \cup pushed(l))]
  /\ UNCHANGED <<tt, lb_graph, rts, rtt, updates, done>>

Edges(l) ==
  lb_graph[query.dir][query.profile][l]
    \cup (IF rtt.has_edges[query.dir][l] THEN rtt.graph[query.dir][l] ELSE {})

Improves(ds, e, d) == d < ds[e.target] /\ d <= MaxTravelTime

Expanded(ds, dial, l, d) ==
  LET labels == {[l |-> e.target, d |-> d + e.duration] :
                   e \in {e \in Edges(l) : Improves(ds, e, d + e.duration)}}
  IN  [dists |-> [x \in DOMAIN ds |-> MinOf({ds[x]} \cup {y.d : y \in {y \in labels : y.l = x}})],
       pq |-> [b \in DOMAIN dial |-> dial[b] \cup {y.l : y \in {y \in labels : y.d = b}}]]

\* Mutant: a label that is out of date is skipped before it is removed.
AfterTop_NotRemoved(l, d) ==
  IF dists[l] < d THEN [dists |-> dists, pq |-> pq]
  ELSE Expanded(dists, [pq EXCEPT ![d] = @ \ {l}], l, d)
AfterTop(l, d) ==
  LET popped == [pq EXCEPT ![d] = @ \ {l}]
  IN  IF dists[l] < d THEN [dists |-> dists, pq |-> popped]
      ELSE Expanded(dists, popped, l, d)

Pop ==
  /\ query # NoQuery /\ ~done /\ ~IsEmpty(pq)
  /\ \E l \in pq[TopBucket(pq)] :
       LET after == AfterTop(l, TopBucket(pq))
       IN  dists' = after.dists /\ pq' = after.pq
  /\ UNCHANGED <<tt, lb_graph, rts, rtt, updates, query, done>>

(***************************************************************************)
(* Children get the bounds of their parents, location by location.         *)
(***************************************************************************)
inherit(ds, l) == [x \in AllLocations(tt) |-> IF tt.parents[x] = l THEN Lower(ds[l], ds[x]) ELSE ds[x]]

Inherited ==
  LET after[l \in 0..Len(tt.parents)] == IF l = 0 THEN dists ELSE inherit(after[l - 1], l)
  IN  after[Len(tt.parents)]

Finish ==
  /\ query # NoQuery /\ ~done /\ IsEmpty(pq)
  /\ dists' = Inherited
  /\ done' = TRUE
  /\ UNCHANGED <<tt, lb_graph, rts, rtt, updates, query, pq>>

Next == UpdateLbs \/ (\E q \in Queries(tt) : Dijkstra(q)) \/ Pop \/ Finish

\* The search runs to its end.
Spec == Init /\ [][Next]_vars /\ WF_vars(Pop \/ Finish)

-----------------------------------------------------------------------------
(***************************************************************************)
(* What a traveller can do, location by location and without any graph:    *)
(* walk, or ride any transport from any of its stops to a later one. It    *)
(* takes no less time than this in any journey.                            *)
(***************************************************************************)
Rides(stops, times) ==
  {[from |-> stops[x[1]], to |-> stops[x[2]], duration |-> times[arr(x[2])] - times[dep(x[1])]] :
     x \in {x \in (DOMAIN stops) \X (DOMAIN stops) : x[1] < x[2]}}

Moves ==
  LET all == tt.footpaths[query.profile]
        \cup (UNION {UNION {Rides(r.stops, r.times[t]) : t \in DOMAIN r.times} :
                      r \in {r \in Range(tt.routes) : query.profile \in r.profiles}})
        \cup (UNION {Rides(rt.stops, rt.times) : rt \in Range(rts)})
  IN  IF query.dir = "fwd" THEN all
      ELSE {[from |-> m.to, to |-> m.from, duration |-> m.duration] : m \in all}

DistToEnd(l) ==
  MinOf({Infinity} \cup {o.duration : o \in {o \in query.destination :
                                       l \in for_each_meta(tt, query.mode, o.target)}})

OneMove(moves, after) ==
  [l \in AllLocations(tt) |->
     MinOf({after[l]} \cup {m.duration + after[m.to] : m \in {m \in moves : m.from = l}})]

Remaining ==
  LET moves == Moves
      after[k \in 0..Len(tt.parents)] ==
        IF k = 0 THEN [l \in AllLocations(tt) |-> DistToEnd(l)] ELSE OneMove(moves, after[k - 1])
  IN  after[Len(tt.parents)]

(***************************************************************************)
(* No bound is higher than what a journey from the location takes, in both *)
(* directions and with all real-time transports: pruning loses nothing.    *)
(***************************************************************************)
Admissible ==
  done => LET remaining == Remaining
          IN  \A l \in AllLocations(tt) :
                remaining[l] <= MaxTravelTime => dists[l] <= remaining[l]

\* Every query gets its bounds.
Terminates == (query # NoQuery) ~> done

=============================================================================
