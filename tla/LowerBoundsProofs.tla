-------------------------- MODULE LowerBoundsProofs --------------------------
(***************************************************************************)
(* No lower bound is higher than what a journey takes, for every network,  *)
(* all real-time updates and every query: the graph has a way for each     *)
(* move of a traveller, and the search leaves no edge behind that could    *)
(* still improve a distance.                                               *)
(***************************************************************************)
EXTENDS LowerBounds, TLAPS, WellFoundedInduction

-----------------------------------------------------------------------------
(***************************************************************************)
(* Numbers: the least one of a set, induction up to a bound, and functions *)
(* that are defined number by number.                                      *)
(***************************************************************************)
LEMMA LeastNumber ==
  ASSUME NEW T \in SUBSET Nat, T # {}
  PROVE  \E x \in T : \A y \in T : x <= y
<1> DEFINE R == {ss \in Nat \X Nat : ss[1] < ss[2]}
<1>1. IsWellFoundedOn(R, Nat)
  BY NatLessThanWellFounded DEF OpToRel
<1>2. \E x \in T : \A y \in T : ~(<<y, x>> \in R)
  <2> HIDE DEF R
  <2> QED
    BY <1>1, WFMin
<1>3. PICK x \in T : \A y \in T : ~(<<y, x>> \in R)
  BY <1>2
<1>4. ASSUME NEW y \in T PROVE x <= y
  <2>1. <<y, x>> \notin R
    BY <1>3
  <2> QED
    BY <2>1
<1> QED
  BY <1>4

LEMMA NumbersReached ==
  ASSUME NEW T \in SUBSET Nat, 0 \in T, \A n \in T : n + 1 \in T
  PROVE  T = Nat
<1>1. SUFFICES ASSUME T # Nat PROVE FALSE
  OBVIOUS
<1>2. PICK x \in Nat \ T : \A y \in Nat \ T : x <= y
  BY <1>1, LeastNumber
<1>3. x # 0
  BY <1>2
<1>4. x - 1 \in Nat /\ x - 1 \in T
  BY <1>2, <1>3
<1> QED
  BY <1>4, <1>2

LEMMA UpTo ==
  ASSUME NEW n \in Nat, NEW T, 0 \in T, \A k \in 1..n : k - 1 \in T => k \in T
  PROVE  0..n \subseteq T
<1> DEFINE U == {k \in Nat : k <= n => k \in T}
<1>1. 0 \in U
  OBVIOUS
<1>2. ASSUME NEW k \in U PROVE k + 1 \in U
  <2>1. k \in Nat /\ (k <= n => k \in T)
    OBVIOUS
  <2>2. ASSUME k + 1 <= n PROVE k + 1 \in T
    <3>1. k + 1 \in 1..n /\ (k + 1) - 1 = k /\ k \in T
      BY <2>1, <2>2
    <3> QED
      BY <3>1
  <2> QED
    BY <2>1, <2>2
<1> HIDE DEF U
<1>3. U = Nat
  <2>1. U \in SUBSET Nat
    BY DEF U
  <2> QED
    BY <1>1, <1>2, <2>1, NumbersReached
<1> QED
  BY <1>3 DEF U

LEMMA MinOfFacts ==
  ASSUME NEW S \in SUBSET Nat, S # {}
  PROVE  MinOf(S) \in S /\ \A y \in S : MinOf(S) <= y
BY LeastNumber DEF MinOf

\* f starts with b and goes on with the steps G, a function of their own.
Recursive(f, n, S, b, G) ==
  f \in [0..n -> S] /\ \A k \in 0..n : f[k] = IF k = 0 THEN b ELSE G[<<k, f[k - 1]>>]

LEMMA FunctionExists ==
  ASSUME NEW n \in Nat, NEW S, NEW b \in S, NEW G \in [(1..n) \X S -> S]
  PROVE  \E f : Recursive(f, n, S, b, G)
<1> DEFINE T == {m \in 0..n : \E f \in [0..m -> S] : \A k \in 0..m : f[k] = IF k = 0 THEN b ELSE G[<<k, f[k - 1]>>]}
<1>1. 0 \in T
  <2> DEFINE f == [k \in 0..0 |-> b]
  <2>1. f \in [0..0 -> S] /\ \A k \in 0..0 : f[k] = IF k = 0 THEN b ELSE G[<<k, f[k - 1]>>]
    OBVIOUS
  <2> HIDE DEF f
  <2>2. 0 \in 0..n
    OBVIOUS
  <2> QED
    BY <2>1, <2>2
<1>2. ASSUME NEW m \in 1..n, m - 1 \in T PROVE m \in T
  <2>1. PICK f \in [0..m - 1 -> S] : \A k \in 0..m - 1 : f[k] = IF k = 0 THEN b ELSE G[<<k, f[k - 1]>>]
    BY <1>2
  <2> DEFINE g == [k \in 0..m |-> IF k = m THEN G[<<m, f[m - 1]>>] ELSE f[k]]
  <2>2. f[m - 1] \in S /\ G[<<m, f[m - 1]>>] \in S
    BY <2>1
  <2>3. g \in [0..m -> S]
    BY <2>1, <2>2
  <2>4. ASSUME NEW k \in 0..m PROVE g[k] = IF k = 0 THEN b ELSE G[<<k, g[k - 1]>>]
    <3>1. CASE k = m
      <4>1. m - 1 \in 0..m /\ m - 1 # m /\ g[m - 1] = f[m - 1] /\ g[k] = G[<<m, f[m - 1]>>] /\ k # 0
        BY <3>1
      <4> HIDE DEF g
      <4> QED
        BY <3>1, <4>1
    <3>2. CASE k # m
      <4>1. k \in 0..m - 1 /\ g[k] = f[k]
        BY <3>2
      <4>2. k # 0 => k - 1 \in 0..m /\ g[k - 1] = f[k - 1]
        BY <4>1
      <4> HIDE DEF g
      <4> QED
        BY <2>1, <4>1, <4>2
    <3> QED
      BY <3>1, <3>2
  <2> HIDE DEF g
  <2>5. m \in 0..n
    OBVIOUS
  <2> QED
    BY <2>3, <2>4, <2>5
<1> HIDE DEF T
<1>3. 0..n \subseteq T
  BY <1>1, <1>2, UpTo
<1>4. n \in T
  BY <1>3
<1> QED
  BY <1>4 DEF T, Recursive

-----------------------------------------------------------------------------
(***************************************************************************)
(* Locations. A station that follows its platforms in the numbering hands  *)
(* its bound down too late for what lies below the platforms: StationsFirst *)
(* excludes it.                                                            *)
(***************************************************************************)
Edge(n) == [target : AllLocations(n), duration : Nat]

StationsFirst ==
  \A n \in Networks : \A l \in AllLocations(n) :
    LET p == n.parents[l]
    IN  p # NoLocation /\ n.parents[p] # NoLocation => n.parents[p] < p

DefaultProfileAsked == \A n \in Networks : \A q \in Queries(n) : q.profile = DefaultProfile

LEMMA LocationsTyped ==
  ASSUME NEW n, IsHierarchy(n)
  PROVE  /\ AllLocations(n) = 1..Len(n.parents) /\ Len(n.parents) \in Nat
         /\ \A l \in AllLocations(n) : n.parents[l] \in {NoLocation} \cup AllLocations(n)
         /\ NoLocation \notin AllLocations(n)
<1> DEFINE P == n.parents
           S == {NoLocation} \cup AllLocations(n)
<1>1. P \in Seq(S) /\ DOMAIN P = AllLocations(n)
  BY DEF IsHierarchy, AllLocations
<1> HIDE DEF P, S
<1>2. DOMAIN P = 1..Len(P) /\ Len(P) \in Nat /\ \A l \in DOMAIN P : P[l] \in S
  BY <1>1
<1> QED
  BY <1>1, <1>2 DEF P, S, NoLocation

LEMMA RootFacts ==
  ASSUME NEW n, IsHierarchy(n), NEW l \in AllLocations(n)
  PROVE  /\ get_root_idx(n, l) \in AllLocations(n)
         /\ n.parents[get_root_idx(n, l)] = NoLocation
         /\ l \in {get_root_idx(n, l)} \cup Descendants(n, get_root_idx(n, l))
<1>1. /\ n.parents[l] \in {NoLocation} \cup AllLocations(n)
      /\ \A x \in AllLocations(n) : n.parents[x] \in {NoLocation} \cup AllLocations(n)
  BY LocationsTyped
<1> DEFINE p == n.parents[l]
<1>2. p = NoLocation \/ n.parents[p] = NoLocation \/ n.parents[n.parents[p]] = NoLocation
  BY DEF IsHierarchy
<1>3. \E r \in AllLocations(n) : n.parents[r] = NoLocation /\ l \in {r} \cup Descendants(n, r)
  <2>1. CASE p = NoLocation
    BY <2>1
  <2>2. CASE p # NoLocation /\ n.parents[p] = NoLocation
    <3>1. p \in AllLocations(n) /\ l \in children(n, p)
      BY <1>1, <2>2 DEF children
    <3> QED
      BY <2>2, <3>1 DEF Descendants
  <2>3. CASE p # NoLocation /\ n.parents[p] # NoLocation
    <3> DEFINE r == n.parents[p]
    <3>1. p \in AllLocations(n) /\ l \in children(n, p) /\ r \in AllLocations(n) /\ p \in children(n, r)
      BY <1>1, <2>3 DEF children
    <3> HIDE DEF r
    <3>2. l \in Descendants(n, r)
      BY <3>1 DEF Descendants
    <3>3. n.parents[r] = NoLocation
      BY <1>2, <2>3 DEF r
    <3> QED
      BY <3>1, <3>2, <3>3
  <2> QED
    BY <2>1, <2>2, <2>3
<1> QED
  BY <1>3 DEF get_root_idx

\* A root is its own root, and any location lies at most two levels below its root.
LEMMA RootOfRoot ==
  ASSUME NEW n, IsHierarchy(n), NEW r \in AllLocations(n), n.parents[r] = NoLocation
  PROVE  get_root_idx(n, r) = r
<1> DEFINE x == get_root_idx(n, r)
<1>1. x \in AllLocations(n) /\ r \in {x} \cup Descendants(n, x)
  BY RootFacts
<1>2. NoLocation \notin AllLocations(n)
  BY LocationsTyped
<1> HIDE DEF x
<1>3. r \notin Descendants(n, x)
  BY <1>1, <1>2 DEF Descendants, children
<1> QED
  BY <1>1, <1>3 DEF x

LEMMA PathToRoot ==
  ASSUME NEW n, IsHierarchy(n), NEW l \in AllLocations(n)
  PROVE  LET p == n.parents[l]
             r == get_root_idx(n, l)
         IN  l = r \/ (p \in AllLocations(n) /\ (p = r \/ n.parents[p] = r) /\ (n.parents[p] = NoLocation => p = r))
<1> DEFINE r == get_root_idx(n, l)
<1>1. r \in AllLocations(n) /\ n.parents[r] = NoLocation /\ l \in {r} \cup Descendants(n, r)
  BY RootFacts
<1>2. NoLocation \notin AllLocations(n)
  BY LocationsTyped
<1> HIDE DEF r
<1>3. l = r \/ n.parents[l] = r \/ (n.parents[l] \in AllLocations(n) /\ n.parents[n.parents[l]] = r)
  BY <1>1 DEF Descendants, children
<1> QED
  BY <1>1, <1>2, <1>3 DEF r

-----------------------------------------------------------------------------
(***************************************************************************)
(* The static graph has a way for every footpath and every segment of a    *)
(* route's transports.                                                     *)
(***************************************************************************)
Weights(n, dir, prf, l) ==
  UNION {FootpathWeights(n, dir, prf, x) \cup RouteWeights(n, dir, prf, x) :
           x \in {l} \cup Descendants(n, l)}

LEMMA SegmentTimeTyped ==
  ASSUME NEW n, NEW stops, NEW times, IsRun(n, stops, times), NEW s \in 1..Len(stops) - 1
  PROVE  SegmentTime(times, s) \in Nat
<1>1. Len(stops) \in Nat /\ times \in [0..2 * Len(stops) - 3 -> Int]
  BY DEF IsRun
<1>2. dep(s) = 2 * s - 2 /\ arr(s + 1) = 2 * s - 1
  BY <1>1 DEF dep, arr
<1>3. dep(s) \in DOMAIN times /\ arr(s + 1) \in DOMAIN times /\ dep(s) <= arr(s + 1)
  BY <1>1, <1>2
<1>4. times[dep(s)] <= times[arr(s + 1)] /\ times[dep(s)] \in Int /\ times[arr(s + 1)] \in Int
  BY <1>1, <1>3 DEF IsRun
<1> QED
  BY <1>4 DEF SegmentTime

LEMMA StopsTyped ==
  ASSUME NEW n, NEW stops, NEW times, IsRun(n, stops, times)
  PROVE  /\ Len(stops) \in Nat /\ Len(stops) >= 2 /\ DOMAIN stops = 1..Len(stops)
         /\ \A s \in 1..Len(stops) : stops[s] \in AllLocations(n)
BY DEF IsRun

LEMMA FastestTransportFacts ==
  ASSUME NEW n, IsNetwork(n), NEW r \in Range(n.routes), NEW s \in Segments(r)
  PROVE  /\ FastestTransport(r, s) \in Nat
         /\ \A t \in DOMAIN r.times : FastestTransport(r, s) <= SegmentTime(r.times[t], s)
<1> DEFINE T == {SegmentTime(r.times[t], s) : t \in DOMAIN r.times}
<1>1. DOMAIN r.times # {} /\ \A t \in DOMAIN r.times : IsRun(n, r.stops, r.times[t])
  BY DEF IsNetwork
<1>2. s \in 1..Len(r.stops) - 1
  BY DEF Segments
<1>3. T \in SUBSET Nat
  BY <1>1, <1>2, SegmentTimeTyped
<1>4. CASE T = {}
  <2>1. DOMAIN r.times = {}
    BY <1>4
  <2> QED
    BY <1>1, <2>1
<1>5. CASE T # {}
  BY <1>3, <1>5, MinOfFacts DEF FastestTransport
<1> QED
  BY <1>4, <1>5

LEMMA WeightsTyped ==
  ASSUME NEW n, IsNetwork(n), NEW dir \in Directions, NEW l \in AllLocations(n)
  PROVE  Weights(n, dir, DefaultProfile, l) \subseteq Edge(n)
<1>1. IsHierarchy(n) /\ DefaultProfile \in DOMAIN n.footpaths
  BY DEF IsNetwork
<1>2. ASSUME NEW x, NEW w \in FootpathWeights(n, dir, DefaultProfile, x) PROVE w \in Edge(n)
  <2>1. PICK fp \in n.footpaths[DefaultProfile] :
          w = [target |-> get_root_idx(n, IF dir = "fwd" THEN fp.from ELSE fp.to), duration |-> fp.duration]
    BY <1>2 DEF FootpathWeights
  <2>2. fp \in [from : AllLocations(n), to : AllLocations(n), duration : Nat]
    BY <1>1 DEF IsNetwork
  <2> DEFINE y == IF dir = "fwd" THEN fp.from ELSE fp.to
  <2>3. y \in AllLocations(n) /\ fp.duration \in Nat
    BY <2>2
  <2> HIDE DEF y
  <2>4. get_root_idx(n, y) \in AllLocations(n)
    BY <1>1, <2>3, RootFacts
  <2>5. w = [target |-> get_root_idx(n, y), duration |-> fp.duration]
    BY <2>1 DEF y
  <2> QED
    BY <2>3, <2>4, <2>5 DEF Edge
<1>3. ASSUME NEW x, NEW w \in RouteWeights(n, dir, DefaultProfile, x) PROVE w \in Edge(n)
  <2>1. PICK r \in Range(n.routes) : \E s \in Segments(r) :
          w = [target |-> get_root_idx(n, r.stops[IF dir = "fwd" THEN s ELSE s + 1]),
               duration |-> FastestTransport(r, s)]
    BY <1>3 DEF RouteWeights
  <2>2. PICK s \in Segments(r) :
          w = [target |-> get_root_idx(n, r.stops[IF dir = "fwd" THEN s ELSE s + 1]),
               duration |-> FastestTransport(r, s)]
    BY <2>1
  <2>3. \E t \in DOMAIN r.times : IsRun(n, r.stops, r.times[t])
    BY DEF IsNetwork
  <2>4. /\ Len(r.stops) \in Nat
        /\ \A k \in 1..Len(r.stops) : r.stops[k] \in AllLocations(n)
    BY <2>3, StopsTyped
  <2> DEFINE k == IF dir = "fwd" THEN s ELSE s + 1
  <2>5. k \in 1..Len(r.stops)
    BY <2>4 DEF Segments
  <2> HIDE DEF k
  <2>6. get_root_idx(n, r.stops[k]) \in AllLocations(n)
    BY <1>1, <2>4, <2>5, RootFacts
  <2>7. FastestTransport(r, s) \in Nat
    BY FastestTransportFacts
  <2>8. w = [target |-> get_root_idx(n, r.stops[k]), duration |-> FastestTransport(r, s)]
    BY <2>2 DEF k
  <2> QED
    BY <2>6, <2>7, <2>8 DEF Edge
<1> QED
  BY <1>2, <1>3 DEF Weights

LEMMA GraphTyped ==
  ASSUME NEW n, IsNetwork(n), NEW dir \in Directions
  PROVE  build_lb_graph(n, dir, DefaultProfile) \in [AllLocations(n) -> SUBSET Edge(n)]
<1> DEFINE W(l) == Weights(n, dir, DefaultProfile, l)
           E(l) == IF n.parents[l] # NoLocation THEN {}
                   ELSE {w \in W(l) : /\ w.target # l
                                      /\ \A v \in W(l) : v.target = w.target => w.duration <= v.duration}
<1>1. build_lb_graph(n, dir, DefaultProfile) = [l \in AllLocations(n) |-> E(l)]
  BY DEF build_lb_graph, Weights
<1>2. \A l \in AllLocations(n) : W(l) \subseteq Edge(n)
  BY WeightsTyped
<1> HIDE DEF W
<1>3. \A l \in AllLocations(n) : E(l) \subseteq Edge(n)
  BY <1>2
<1> HIDE DEF E
<1> QED
  BY <1>1, <1>3

\* An edge of the graph takes no longer than any weight with the same target.
LEMMA WeightCovered ==
  ASSUME NEW n, IsNetwork(n), NEW dir \in Directions, NEW l \in AllLocations(n), n.parents[l] = NoLocation,
         NEW w \in Weights(n, dir, DefaultProfile, l), w.target # l
  PROVE  \E e \in build_lb_graph(n, dir, DefaultProfile)[l] : e.target = w.target /\ e.duration <= w.duration
<1> DEFINE W == Weights(n, dir, DefaultProfile, l)
           D == {v.duration : v \in {v \in W : v.target = w.target}}
<1>1. W \subseteq Edge(n) /\ w \in W
  BY WeightsTyped
<1>2. build_lb_graph(n, dir, DefaultProfile)[l]
        = {x \in W : x.target # l /\ \A v \in W : v.target = x.target => x.duration <= v.duration}
  BY DEF build_lb_graph, Weights
<1> HIDE DEF W
<1>3. D \in SUBSET Nat /\ w.duration \in D
  BY <1>1 DEF Edge
<1>4. MinOf(D) \in D /\ \A y \in D : MinOf(D) <= y
  <2> HIDE DEF D
  <2> QED
    BY <1>3, MinOfFacts
<1>5. PICK e \in W : e.target = w.target /\ e.duration = MinOf(D)
  BY <1>4
<1>6. \A v \in W : v.target = e.target => e.duration <= v.duration
  BY <1>4, <1>5
<1>7. e.duration <= w.duration
  BY <1>3, <1>4, <1>5
<1> QED
  BY <1>2, <1>5, <1>6, <1>7

StaticWay(n, dir, src, target, d) ==
  src = target \/ \E e \in build_lb_graph(n, dir, DefaultProfile)[src] : e.target = target /\ e.duration <= d

\* A weight at any location of a station gives a way from the station.
LEMMA WeightIsWay ==
  ASSUME NEW n, IsNetwork(n), NEW dir \in Directions, NEW x \in AllLocations(n), NEW d \in Nat,
         NEW w \in FootpathWeights(n, dir, DefaultProfile, x) \cup RouteWeights(n, dir, DefaultProfile, x),
         w.duration <= d
  PROVE  StaticWay(n, dir, get_root_idx(n, x), w.target, d)
<1> DEFINE l == get_root_idx(n, x)
<1>1. IsHierarchy(n)
  BY DEF IsNetwork
<1>2. l \in AllLocations(n) /\ n.parents[l] = NoLocation /\ x \in {l} \cup Descendants(n, l)
  BY <1>1, RootFacts
<1> HIDE DEF l
<1>3. w \in Weights(n, dir, DefaultProfile, l)
  BY <1>2 DEF Weights
<1>4. CASE w.target # l
  <2>1. PICK e \in build_lb_graph(n, dir, DefaultProfile)[l] : e.target = w.target /\ e.duration <= w.duration
    BY <1>2, <1>3, <1>4, WeightCovered
  <2>2. e \in Edge(n)
    BY <1>2, GraphTyped
  <2>3. w \in Edge(n)
    BY <1>2, <1>3, WeightsTyped
  <2>4. e.duration \in Nat /\ w.duration \in Nat
    BY <2>2, <2>3 DEF Edge
  <2>5. e.duration <= d
    BY <2>1, <2>4
  <2>6. StaticWay(n, dir, l, w.target, d)
    BY <2>1, <2>5 DEF StaticWay
  <2> QED
    BY <2>6 DEF l
<1>5. CASE w.target = l
  <2>1. StaticWay(n, dir, l, w.target, d)
    BY <1>5 DEF StaticWay
  <2> QED
    BY <2>1 DEF l
<1> QED
  BY <1>4, <1>5

LEMMA FootpathIsWay ==
  ASSUME NEW n, IsNetwork(n), NEW fp \in n.footpaths[DefaultProfile]
  PROVE  /\ StaticWay(n, "fwd", get_root_idx(n, fp.to), get_root_idx(n, fp.from), fp.duration)
         /\ StaticWay(n, "bwd", get_root_idx(n, fp.from), get_root_idx(n, fp.to), fp.duration)
<1>1. fp \in [from : AllLocations(n), to : AllLocations(n), duration : Nat]
  BY DEF IsNetwork
<1>2. fp.from \in AllLocations(n) /\ fp.to \in AllLocations(n) /\ fp.duration \in Nat
  BY <1>1
<1> DEFINE f == [target |-> get_root_idx(n, fp.from), duration |-> fp.duration]
           b == [target |-> get_root_idx(n, fp.to), duration |-> fp.duration]
<1>3. f \in FootpathWeights(n, "fwd", DefaultProfile, fp.to)
  BY DEF FootpathWeights
<1>4. b \in FootpathWeights(n, "bwd", DefaultProfile, fp.from)
  BY DEF FootpathWeights
<1>5. /\ f.target = get_root_idx(n, fp.from) /\ f.duration = fp.duration
      /\ b.target = get_root_idx(n, fp.to) /\ b.duration = fp.duration
  OBVIOUS
<1> HIDE DEF f, b
<1>6. f.duration <= fp.duration /\ b.duration <= fp.duration
  BY <1>2, <1>5
<1>7. StaticWay(n, "fwd", get_root_idx(n, fp.to), f.target, fp.duration)
  BY <1>2, <1>3, <1>6, WeightIsWay DEF Directions
<1>8. StaticWay(n, "bwd", get_root_idx(n, fp.from), b.target, fp.duration)
  BY <1>2, <1>4, <1>6, WeightIsWay DEF Directions
<1> QED
  BY <1>5, <1>7, <1>8

LEMMA SegmentIsWay ==
  ASSUME NEW n, IsNetwork(n), NEW r \in Range(n.routes), NEW t \in DOMAIN r.times,
         NEW s \in 1..Len(r.stops) - 1, NEW d \in Nat, SegmentTime(r.times[t], s) <= d
  PROVE  /\ StaticWay(n, "fwd", get_root_idx(n, r.stops[s + 1]), get_root_idx(n, r.stops[s]), d)
         /\ StaticWay(n, "bwd", get_root_idx(n, r.stops[s]), get_root_idx(n, r.stops[s + 1]), d)
<1>1. IsRun(n, r.stops, r.times[t]) /\ DefaultProfile \in r.profiles
  BY DEF IsNetwork
<1>2. Len(r.stops) \in Nat /\ \A k \in 1..Len(r.stops) : r.stops[k] \in AllLocations(n)
  BY <1>1, StopsTyped
<1>3. s \in Segments(r) /\ s \in 1..Len(r.stops) /\ s + 1 \in 1..Len(r.stops)
  BY <1>2 DEF Segments
<1>4. r.stops[s] \in AllLocations(n) /\ r.stops[s + 1] \in AllLocations(n)
  BY <1>2, <1>3
<1>5. /\ FastestTransport(r, s) \in Nat /\ SegmentTime(r.times[t], s) \in Nat
      /\ FastestTransport(r, s) <= SegmentTime(r.times[t], s)
  BY <1>1, <1>3, FastestTransportFacts, SegmentTimeTyped
<1> DEFINE f == [target |-> get_root_idx(n, r.stops[s]), duration |-> FastestTransport(r, s)]
           b == [target |-> get_root_idx(n, r.stops[s + 1]), duration |-> FastestTransport(r, s)]
<1>6. f \in RouteWeights(n, "fwd", DefaultProfile, r.stops[s + 1])
  BY <1>1, <1>3 DEF RouteWeights
<1>7. b \in RouteWeights(n, "bwd", DefaultProfile, r.stops[s])
  BY <1>1, <1>3 DEF RouteWeights
<1>8. /\ f.target = get_root_idx(n, r.stops[s]) /\ f.duration = FastestTransport(r, s)
      /\ b.target = get_root_idx(n, r.stops[s + 1]) /\ b.duration = FastestTransport(r, s)
  OBVIOUS
<1> HIDE DEF f, b
<1>9. f.duration <= d /\ b.duration <= d
  BY <1>5, <1>8
<1>10. StaticWay(n, "fwd", get_root_idx(n, r.stops[s + 1]), f.target, d)
  BY <1>4, <1>6, <1>9, WeightIsWay DEF Directions
<1>11. StaticWay(n, "bwd", get_root_idx(n, r.stops[s]), b.target, d)
  BY <1>4, <1>7, <1>9, WeightIsWay DEF Directions
<1> QED
  BY <1>8, <1>10, <1>11

-----------------------------------------------------------------------------
(***************************************************************************)
(* Real-time edges: a way is never lost again while update_lbs adds edges, *)
(* and each segment of a transport gets its way in both directions.        *)
(***************************************************************************)
StaticState ==
  /\ tt \in Networks
  /\ lb_graph = [dir \in Directions |-> [prf \in DOMAIN tt.footpaths |-> build_lb_graph(tt, dir, prf)]]

Graph(n) ==
  [has_edges : [Directions -> [AllLocations(n) -> BOOLEAN]],
   graph : [Directions -> [AllLocations(n) -> SUBSET Edge(n)]]]

Ways(g, dir, src) ==
  lb_graph[dir][DefaultProfile][src] \cup (IF g.has_edges[dir][src] THEN g.graph[dir][src] ELSE {})

HasWay(g, dir, src, target, d) ==
  src = target \/ \E e \in Ways(g, dir, src) : e.target = target /\ e.duration <= d

\* The ways of g are ways of h as well.
KeepsWays(g, h) ==
  \A dir \in Directions, a \in AllLocations(tt), b \in AllLocations(tt), d \in Nat :
    HasWay(g, dir, a, b, d) => HasWay(h, dir, a, b, d)

LEMMA StaticFacts ==
  ASSUME StaticState
  PROVE  /\ IsNetwork(tt) /\ IsHierarchy(tt)
         /\ \A dir \in Directions :
              /\ lb_graph[dir][DefaultProfile] = build_lb_graph(tt, dir, DefaultProfile)
              /\ lb_graph[dir][DefaultProfile] \in [AllLocations(tt) -> SUBSET Edge(tt)]
<1>1. IsNetwork(tt)
  BY NetworksAssumption DEF StaticState
<1>2. IsHierarchy(tt) /\ DefaultProfile \in DOMAIN tt.footpaths
  BY <1>1 DEF IsNetwork
<1>3. ASSUME NEW dir \in Directions
      PROVE  lb_graph[dir][DefaultProfile] = build_lb_graph(tt, dir, DefaultProfile)
  BY <1>2 DEF StaticState
<1> QED
  BY <1>1, <1>2, <1>3, GraphTyped

LEMMA StaticWayKept ==
  ASSUME StaticState, NEW g, NEW dir \in Directions, NEW a, NEW b, NEW d, StaticWay(tt, dir, a, b, d)
  PROVE  HasWay(g, dir, a, b, d)
BY StaticFacts DEF StaticWay, HasWay, Ways

LEMMA KeepsWaysTransitive ==
  ASSUME NEW f, NEW g, NEW h, KeepsWays(f, g), KeepsWays(g, h)
  PROVE  KeepsWays(f, h)
BY DEF KeepsWays

\* The graph with the edge in place of those to the same target.
WithEdge(g, dir, src, e) ==
  [g EXCEPT !.has_edges[dir][src] = TRUE,
            !.graph[dir][src] = {x \in @ : x.target # e.target} \cup {e}]

LEMMA WithEdgeFacts ==
  ASSUME StaticState, NEW g \in Graph(tt), NEW dir \in Directions, NEW src \in AllLocations(tt),
         NEW e \in Edge(tt)
  PROVE  LET h == WithEdge(g, dir, src, e)
         IN  /\ h \in Graph(tt)
             /\ h.has_edges[dir][src] /\ h.graph[dir][src] = {x \in g.graph[dir][src] : x.target # e.target} \cup {e}
             /\ \A i \in Directions, a \in AllLocations(tt) :
                  i # dir \/ a # src =>
                    h.has_edges[i][a] = g.has_edges[i][a] /\ h.graph[i][a] = g.graph[i][a]
<1> DEFINE L == AllLocations(tt)
           E == Edge(tt)
           hs == g.has_edges
           gr == g.graph
           new == {x \in gr[dir][src] : x.target # e.target} \cup {e}
           h == WithEdge(g, dir, src, e)
<1>1. hs \in [Directions -> [L -> BOOLEAN]] /\ gr \in [Directions -> [L -> SUBSET E]]
  BY DEF Graph
<1>2. h = [has_edges |-> [hs EXCEPT ![dir][src] = TRUE], graph |-> [gr EXCEPT ![dir][src] = new]]
  <2>1. g = [has_edges |-> hs, graph |-> gr]
    BY DEF Graph
  <2> DEFINE rec == [has_edges |-> hs, graph |-> gr]
  <2>2. h = [rec EXCEPT !.has_edges[dir][src] = TRUE,
                        !.graph[dir][src] = {x \in @ : x.target # e.target} \cup {e}]
    BY <2>1 DEF WithEdge
  <2> HIDE DEF h, hs, gr
  <2>3. rec.has_edges = hs /\ rec.graph = gr
    OBVIOUS
  <2>4. h = [has_edges |-> [hs EXCEPT ![dir][src] = TRUE], graph |-> [gr EXCEPT ![dir][src] = new]]
    BY <2>2 DEF new
  <2> QED
    BY <2>4
<1>3. h.has_edges = [hs EXCEPT ![dir][src] = TRUE] /\ h.graph = [gr EXCEPT ![dir][src] = new]
  BY <1>2
<1>4. src \in L /\ e \in E
  OBVIOUS
<1> HIDE DEF h, hs, gr, L, E
<1>5. gr[dir][src] \in SUBSET E
  BY <1>1, <1>4
<1>6. new \in SUBSET E
  BY <1>4, <1>5
<1> HIDE DEF new
<1>7. h.has_edges \in [Directions -> [L -> BOOLEAN]] /\ h.graph \in [Directions -> [L -> SUBSET E]]
  BY <1>1, <1>3, <1>4, <1>6
<1>8. h.has_edges[dir][src] /\ h.graph[dir][src] = new
  BY <1>1, <1>3, <1>4
<1>9. ASSUME NEW i \in Directions, NEW a \in L, i # dir \/ a # src
      PROVE  h.has_edges[i][a] = hs[i][a] /\ h.graph[i][a] = gr[i][a]
  <2>1. CASE i = dir
    <3>1. a # src /\ hs[dir] \in [L -> BOOLEAN] /\ gr[dir] \in [L -> SUBSET E]
      BY <1>1, <1>9, <2>1
    <3>2. h.has_edges[dir] = [hs[dir] EXCEPT ![src] = TRUE] /\ h.graph[dir] = [gr[dir] EXCEPT ![src] = new]
      BY <1>1, <1>3
    <3> QED
      BY <2>1, <3>1, <3>2
  <2>2. CASE i # dir
    BY <1>1, <1>3, <2>2
  <2> QED
    BY <2>1, <2>2
<1>10. h \in Graph(tt)
  BY <1>2, <1>3, <1>7 DEF Graph, L, E
<1> QED
  BY <1>8, <1>9, <1>10 DEF new, h, hs, gr, L

LEMMA AddEdgeFacts ==
  ASSUME StaticState, NEW g \in Graph(tt), NEW dir \in Directions, NEW src \in AllLocations(tt),
         NEW e \in Edge(tt)
  PROVE  LET h == AddEdge(g, dir, src, e)
         IN  h \in Graph(tt) /\ KeepsWays(g, h) /\ HasWay(h, dir, src, e.target, e.duration)
<1> DEFINE static == lb_graph[dir][DefaultProfile][src]
           rt == g.graph[dir][src]
           h == AddEdge(g, dir, src, e)
<1>1. static \subseteq Edge(tt) /\ rt \subseteq Edge(tt) /\ g.has_edges[dir][src] \in BOOLEAN
  BY StaticFacts DEF Graph
<1>2. Ways(g, dir, src) = static \cup (IF g.has_edges[dir][src] THEN rt ELSE {})
  BY DEF Ways
<1> HIDE DEF static, rt
<1>3. ASSUME NEW S \in SUBSET Edge(tt), ~is_fastest(S, e), S \subseteq Ways(g, dir, src)
      PROVE  HasWay(g, dir, src, e.target, e.duration)
  <2>1. PICK x \in S : x.target = e.target /\ ~(x.duration > e.duration)
    BY <1>3 DEF is_fastest
  <2>2. x \in Edge(tt) /\ x \in Ways(g, dir, src)
    BY <1>3
  <2>3. x.duration \in Nat /\ e.duration \in Nat
    BY <2>2 DEF Edge
  <2>4. x.duration <= e.duration
    BY <2>1, <2>3
  <2> QED
    BY <2>1, <2>2, <2>4 DEF HasWay
<1>4. CASE ~is_fastest(static, e) \/ (g.has_edges[dir][src] /\ ~is_fastest(rt, e))
  <2>1. h = g
    BY <1>4 DEF AddEdge, static, rt
  <2>2. HasWay(g, dir, src, e.target, e.duration)
    BY <1>1, <1>2, <1>3, <1>4
  <2> QED
    BY <2>1, <2>2 DEF KeepsWays
<1>5. CASE ~(~is_fastest(static, e) \/ (g.has_edges[dir][src] /\ ~is_fastest(rt, e)))
  <2>1. h = WithEdge(g, dir, src, e)
    BY <1>5 DEF AddEdge, WithEdge, static, rt
  <2> HIDE DEF h
  <2>2. /\ h \in Graph(tt)
        /\ h.has_edges[dir][src] /\ h.graph[dir][src] = {x \in rt : x.target # e.target} \cup {e}
        /\ \A i \in Directions, a \in AllLocations(tt) :
             i # dir \/ a # src =>
               h.has_edges[i][a] = g.has_edges[i][a] /\ h.graph[i][a] = g.graph[i][a]
    BY <2>1, WithEdgeFacts DEF rt
  <2>3. Ways(h, dir, src) = static \cup {x \in rt : x.target # e.target} \cup {e}
    BY <2>2 DEF Ways, static
  <2>4. e.duration \in Nat
    BY DEF Edge
  <2>5. HasWay(h, dir, src, e.target, e.duration)
    BY <2>3, <2>4 DEF HasWay
  <2>6. ASSUME NEW i \in Directions, NEW a \in AllLocations(tt), NEW b \in AllLocations(tt), NEW d \in Nat,
               HasWay(g, i, a, b, d)
        PROVE  HasWay(h, i, a, b, d)
    <3>1. CASE i # dir \/ a # src
      BY <2>2, <2>6, <3>1 DEF HasWay, Ways
    <3>2. CASE i = dir /\ a = src /\ a # b
      <4>1. PICK x \in Ways(g, dir, src) : x.target = b /\ x.duration <= d
        BY <2>6, <3>2 DEF HasWay
      <4>2. CASE x \in static \/ b # e.target
        <5>1. x \in Ways(h, dir, src)
          BY <1>2, <2>3, <4>1, <4>2
        <5> QED
          BY <3>2, <4>1, <5>1 DEF HasWay
      <4>3. CASE x \notin static /\ b = e.target
        <5>1. g.has_edges[dir][src] /\ x \in rt
          BY <1>2, <4>3
        <5>2. x.duration > e.duration
          BY <1>5, <4>1, <4>3, <5>1 DEF is_fastest
        <5>3. x.duration \in Nat
          BY <1>1, <5>1 DEF Edge
        <5>4. e.duration <= d
          BY <2>4, <4>1, <5>2, <5>3
        <5> QED
          BY <2>3, <3>2, <4>3, <5>4 DEF HasWay
      <4> QED
        BY <4>2, <4>3
    <3>3. CASE a = b
      BY <3>3 DEF HasWay
    <3> QED
      BY <3>1, <3>2, <3>3
  <2>7. KeepsWays(g, h)
    BY <2>6 DEF KeepsWays
  <2> QED
    BY <2>2, <2>5, <2>7 DEF h
<1> QED
  BY <1>4, <1>5

\* What a segment asks of the graph.
SegmentHasWays(g, from, to, d) == HasWay(g, "fwd", to, from, d) /\ HasWay(g, "bwd", from, to, d)

LEMMA AddLbEdgeFacts ==
  ASSUME StaticState, NEW g \in Graph(tt), NEW from \in AllLocations(tt), NEW to \in AllLocations(tt),
         NEW d \in Nat
  PROVE  LET h == add_lb_edge(g, from, to, d)
         IN  h \in Graph(tt) /\ KeepsWays(g, h) /\ SegmentHasWays(h, from, to, d)
<1>1. CASE from = to
  <2>1. add_lb_edge(g, from, to, d) = g
    BY <1>1 DEF add_lb_edge
  <2> QED
    BY <1>1, <2>1 DEF KeepsWays, SegmentHasWays, HasWay
<1>2. CASE from # to
  <2> DEFINE f == [target |-> from, duration |-> d]
             b == [target |-> to, duration |-> d]
             i == AddEdge(g, "fwd", to, f)
             h == AddEdge(i, "bwd", from, b)
  <2>1. add_lb_edge(g, from, to, d) = h
    BY <1>2 DEF add_lb_edge
  <2>2. f \in Edge(tt) /\ b \in Edge(tt) /\ f.target = from /\ b.target = to /\ f.duration = d /\ b.duration = d
    BY DEF Edge
  <2> HIDE DEF f, b
  <2>3. i \in Graph(tt) /\ KeepsWays(g, i) /\ HasWay(i, "fwd", to, from, d)
    BY <2>2, AddEdgeFacts DEF Directions
  <2> HIDE DEF i
  <2>4. h \in Graph(tt) /\ KeepsWays(i, h) /\ HasWay(h, "bwd", from, to, d)
    BY <2>2, <2>3, AddEdgeFacts DEF Directions
  <2> HIDE DEF h
  <2>5. HasWay(h, "fwd", to, from, d)
    BY <2>3, <2>4 DEF KeepsWays, Directions
  <2>6. KeepsWays(g, h)
    BY <2>3, <2>4, KeepsWaysTransitive
  <2> QED
    BY <2>1, <2>4, <2>5, <2>6 DEF SegmentHasWays
<1> QED
  BY <1>1, <1>2

Covers(g, rt, s) ==
  SegmentHasWays(g, get_root_idx(tt, rt.stops[s]), get_root_idx(tt, rt.stops[s + 1]), SegmentTime(rt.times, s))

CoversAll(g, rt) == \A s \in 1..Len(rt.stops) - 1 : Covers(g, rt, s)

IsTransport(rt) ==
  /\ IsRun(tt, rt.stops, rt.times)
  /\ rt.route # 0 => rt.route \in DOMAIN tt.routes /\ rt.transport \in DOMAIN tt.routes[rt.route].times

LEMMA TransportTyped ==
  ASSUME StaticState, NEW rt, IsTransport(rt), NEW s \in 1..Len(rt.stops) - 1
  PROVE  /\ Len(rt.stops) \in Nat /\ SegmentTime(rt.times, s) \in Nat
         /\ get_root_idx(tt, rt.stops[s]) \in AllLocations(tt)
         /\ get_root_idx(tt, rt.stops[s + 1]) \in AllLocations(tt)
<1>1. IsRun(tt, rt.stops, rt.times) /\ IsHierarchy(tt)
  BY StaticFacts DEF IsTransport
<1>2. Len(rt.stops) \in Nat /\ \A k \in 1..Len(rt.stops) : rt.stops[k] \in AllLocations(tt)
  BY <1>1, StopsTyped
<1>3. s \in 1..Len(rt.stops) /\ s + 1 \in 1..Len(rt.stops)
  BY <1>2
<1>4. rt.stops[s] \in AllLocations(tt) /\ rt.stops[s + 1] \in AllLocations(tt)
  BY <1>2, <1>3
<1> QED
  BY <1>1, <1>2, <1>4, RootFacts, SegmentTimeTyped

LEMMA CoversKept ==
  ASSUME StaticState, NEW rt, IsTransport(rt), NEW s \in 1..Len(rt.stops) - 1,
         NEW g, NEW h, KeepsWays(g, h), Covers(g, rt, s)
  PROVE  Covers(h, rt, s)
<1>1. /\ SegmentTime(rt.times, s) \in Nat
      /\ get_root_idx(tt, rt.stops[s]) \in AllLocations(tt)
      /\ get_root_idx(tt, rt.stops[s + 1]) \in AllLocations(tt)
  BY TransportTyped
<1> QED
  BY <1>1 DEF Covers, SegmentHasWays, KeepsWays, Directions

LEMMA UpdateSegmentFacts ==
  ASSUME StaticState, NEW rt, IsTransport(rt), NEW s \in 1..Len(rt.stops) - 1, NEW g \in Graph(tt)
  PROVE  LET h == UpdateSegment(g, rt, s)
         IN  h \in Graph(tt) /\ KeepsWays(g, h) /\ Covers(h, rt, s)
<1> DEFINE from == get_root_idx(tt, rt.stops[s])
           to == get_root_idx(tt, rt.stops[s + 1])
           d == SegmentTime(rt.times, s)
<1>1. d \in Nat /\ from \in AllLocations(tt) /\ to \in AllLocations(tt)
  BY TransportTyped
<1>2. CASE StaticIsAsFast(rt, s)
  <2>1. UpdateSegment(g, rt, s) = g
    BY <1>2 DEF UpdateSegment
  <2> DEFINE r == tt.routes[rt.route]
             t == rt.transport
  <2>2. rt.route \in DOMAIN tt.routes /\ t \in DOMAIN r.times
    BY <1>2 DEF StaticIsAsFast, IsTransport
  <2>3. /\ Len(r.stops) = Len(rt.stops)
        /\ r.stops[s] = rt.stops[s] /\ r.stops[s + 1] = rt.stops[s + 1]
        /\ SegmentTime(rt.times, s) >= SegmentTime(r.times[t], s)
    BY <1>2 DEF StaticIsAsFast
  <2>4. r \in Range(tt.routes)
    BY <2>2 DEF Range
  <2> HIDE DEF r, t
  <2>5. IsNetwork(tt)
    BY StaticFacts
  <2>6. IsRun(tt, r.stops, r.times[t])
    BY <2>2, <2>4, <2>5 DEF IsNetwork
  <2>7. s \in 1..Len(r.stops) - 1
    BY <2>3
  <2>8. SegmentTime(r.times[t], s) \in Nat
    BY <2>6, <2>7, SegmentTimeTyped
  <2>9. SegmentTime(r.times[t], s) <= d
    BY <1>1, <2>3, <2>8
  <2>10. /\ StaticWay(tt, "fwd", get_root_idx(tt, r.stops[s + 1]), get_root_idx(tt, r.stops[s]), d)
         /\ StaticWay(tt, "bwd", get_root_idx(tt, r.stops[s]), get_root_idx(tt, r.stops[s + 1]), d)
    <3> HIDE DEF d
    <3> QED
      BY <1>1, <2>2, <2>4, <2>5, <2>7, <2>9, SegmentIsWay
  <2>11. StaticWay(tt, "fwd", to, from, d) /\ StaticWay(tt, "bwd", from, to, d)
    BY <2>3, <2>10
  <2>12. HasWay(g, "fwd", to, from, d) /\ HasWay(g, "bwd", from, to, d)
    <3> HIDE DEF from, to, d
    <3> QED
      BY <2>11, StaticWayKept DEF Directions
  <2>13. Covers(g, rt, s)
    BY <2>12 DEF Covers, SegmentHasWays
  <2> QED
    BY <2>1, <2>13 DEF KeepsWays
<1>3. CASE ~StaticIsAsFast(rt, s)
  <2>1. UpdateSegment(g, rt, s) = add_lb_edge(g, from, to, d)
    BY <1>1, <1>3 DEF UpdateSegment
  <2> DEFINE h == add_lb_edge(g, from, to, d)
  <2>2. h \in Graph(tt) /\ KeepsWays(g, h) /\ SegmentHasWays(h, from, to, d)
    <3> HIDE DEF from, to, d
    <3> QED
      BY <1>1, AddLbEdgeFacts
  <2> QED
    BY <2>1, <2>2 DEF Covers
<1> QED
  BY <1>2, <1>3

LEMMA UpdateTransportFacts ==
  ASSUME StaticState, NEW rt, IsTransport(rt), NEW g \in Graph(tt)
  PROVE  LET h == UpdateTransport(g, rt)
         IN  h \in Graph(tt) /\ KeepsWays(g, h) /\ CoversAll(h, rt)
<1> DEFINE n == Len(rt.stops) - 1
           after == CHOOSE f : f = [s \in 0..n |-> IF s = 0 THEN g ELSE UpdateSegment(f[s - 1], rt, s)]
           G == [x \in (1..n) \X Graph(tt) |-> UpdateSegment(x[2], rt, x[1])]
<1>1. UpdateTransport(g, rt) = after[n]
  BY DEF UpdateTransport
<1>2. n \in Nat /\ n >= 1
  BY StopsTyped DEF IsTransport
<1>3. ASSUME NEW s \in 1..n, NEW h \in Graph(tt)
      PROVE  /\ UpdateSegment(h, rt, s) \in Graph(tt)
             /\ KeepsWays(h, UpdateSegment(h, rt, s)) /\ Covers(UpdateSegment(h, rt, s), rt, s)
  BY UpdateSegmentFacts
<1>4. G \in [(1..n) \X Graph(tt) -> Graph(tt)]
  BY <1>3
<1>5. \E f : f = [s \in 0..n |-> IF s = 0 THEN g ELSE UpdateSegment(f[s - 1], rt, s)]
  <2> DEFINE S == Graph(tt)
  <2> HIDE DEF S
  <2>1. PICK f : Recursive(f, n, S, g, G)
    <3>1. G \in [(1..n) \X S -> S] /\ g \in S
      BY <1>4 DEF S
    <3> HIDE DEF G, n
    <3> QED
      BY <1>2, <3>1, FunctionExists
  <2>2. ASSUME NEW k \in 0..n
        PROVE  f[k] = IF k = 0 THEN g ELSE UpdateSegment(f[k - 1], rt, k)
    <3>1. CASE k = 0
      BY <2>1, <3>1 DEF Recursive
    <3>2. CASE k # 0
      <4>1. k \in 1..n /\ k - 1 \in 0..n
        BY <1>2, <3>2
      <4>2. f[k - 1] \in Graph(tt)
        BY <2>1, <4>1 DEF S, Recursive
      <4>3. G[<<k, f[k - 1]>>] = UpdateSegment(f[k - 1], rt, k)
        BY <4>1, <4>2
      <4> QED
        BY <2>1, <3>2, <4>3 DEF Recursive
    <3> QED
      BY <3>1, <3>2
  <2>3. f = [k \in 0..n |-> IF k = 0 THEN g ELSE UpdateSegment(f[k - 1], rt, k)]
    BY <2>1, <2>2 DEF Recursive
  <2> QED
    BY <2>3
<1>6. after = [s \in 0..n |-> IF s = 0 THEN g ELSE UpdateSegment(after[s - 1], rt, s)]
  <2> HIDE DEF n
  <2> QED
    BY <1>5
<1> HIDE DEF after, G
<1> DEFINE T == {k \in 0..n : /\ after[k] \in Graph(tt) /\ KeepsWays(g, after[k])
                              /\ \A s \in 1..k : Covers(after[k], rt, s)}
<1>7. 0 \in T
  <2>1. after[0] = g /\ 0 \in 0..n
    BY <1>2, <1>6
  <2> QED
    BY <2>1 DEF KeepsWays
<1>8. ASSUME NEW k \in 1..n, k - 1 \in T PROVE k \in T
  <2>1. k \in 0..n /\ k # 0 /\ k - 1 \in 0..n
    BY <1>2
  <2>2. after[k] = UpdateSegment(after[k - 1], rt, k)
    BY <1>6, <2>1
  <2>3. /\ after[k - 1] \in Graph(tt) /\ KeepsWays(g, after[k - 1])
        /\ \A s \in 1..k - 1 : Covers(after[k - 1], rt, s)
    BY <1>8
  <2>4. after[k] \in Graph(tt) /\ KeepsWays(after[k - 1], after[k]) /\ Covers(after[k], rt, k)
    BY <1>3, <2>2, <2>3
  <2>5. KeepsWays(g, after[k])
    BY <2>3, <2>4, KeepsWaysTransitive
  <2>6. ASSUME NEW s \in 1..k PROVE Covers(after[k], rt, s)
    <3>1. CASE s = k
      BY <2>4, <3>1
    <3>2. CASE s # k
      <4>1. s \in 1..k - 1 /\ s \in 1..Len(rt.stops) - 1
        BY <1>2, <3>2
      <4> QED
        BY <2>3, <2>4, <4>1, CoversKept
    <3> QED
      BY <3>1, <3>2
  <2> QED
    BY <2>1, <2>4, <2>5, <2>6
<1> HIDE DEF T
<1>9. n \in T
  <2>1. 0..n \subseteq T
    <3> HIDE DEF n
    <3> QED
      BY <1>2, <1>7, <1>8, UpTo
  <2> QED
    BY <1>2, <2>1
<1> QED
  BY <1>1, <1>9 DEF T, CoversAll

LEMMA UpdateLbsFacts ==
  ASSUME StaticState, rtt \in Graph(tt), NEW u, IsRtUpdate(tt, u)
  PROVE  update_lbs(u) \in Graph(tt) /\ \A x \in DOMAIN u : CoversAll(update_lbs(u), u[x])
<1> DEFINE n == Len(u)
           none == [rtt EXCEPT !.graph = NoEdges(tt)]
           after == CHOOSE f : f = [x \in 0..n |-> IF x = 0 THEN none ELSE UpdateTransport(f[x - 1], u[x])]
           G == [x \in (1..n) \X Graph(tt) |-> UpdateTransport(x[2], u[x[1]])]
<1>1. update_lbs(u) = after[n]
  BY DEF update_lbs
<1>2. n \in Nat /\ DOMAIN u = 1..n /\ \A x \in 1..n : IsTransport(u[x])
  <2>1. u \in Seq(Range(u)) /\ \A rt \in Range(u) : IsTransport(rt)
    BY DEF IsRtUpdate, IsTransport
  <2> DEFINE R == Range(u)
  <2>2. \A x \in DOMAIN u : u[x] \in R
    BY DEF Range
  <2> HIDE DEF R
  <2>3. u \in Seq(R)
    BY <2>1 DEF R
  <2>4. Len(u) \in Nat /\ DOMAIN u = 1..Len(u)
    BY <2>3
  <2>5. \A x \in DOMAIN u : IsTransport(u[x])
    BY <2>1, <2>2 DEF R
  <2> QED
    BY <2>4, <2>5
<1>3. none \in Graph(tt)
  <2>1. NoEdges(tt) \in [Directions -> [AllLocations(tt) -> SUBSET Edge(tt)]]
    BY DEF NoEdges
  <2> QED
    BY <2>1 DEF Graph
<1> HIDE DEF none, n
<1>4. ASSUME NEW x \in 1..n, NEW h \in Graph(tt)
      PROVE  /\ UpdateTransport(h, u[x]) \in Graph(tt)
             /\ KeepsWays(h, UpdateTransport(h, u[x])) /\ CoversAll(UpdateTransport(h, u[x]), u[x])
  BY <1>2, UpdateTransportFacts
<1>5. G \in [(1..n) \X Graph(tt) -> Graph(tt)]
  BY <1>4
<1>6. \E f : f = [x \in 0..n |-> IF x = 0 THEN none ELSE UpdateTransport(f[x - 1], u[x])]
  <2> DEFINE S == Graph(tt)
  <2> HIDE DEF S
  <2>1. PICK f : Recursive(f, n, S, none, G)
    <3>1. G \in [(1..n) \X S -> S] /\ none \in S
      BY <1>3, <1>5 DEF S
    <3> HIDE DEF G
    <3> QED
      BY <1>2, <3>1, FunctionExists
  <2>2. ASSUME NEW k \in 0..n
        PROVE  f[k] = IF k = 0 THEN none ELSE UpdateTransport(f[k - 1], u[k])
    <3>1. CASE k = 0
      BY <2>1, <3>1 DEF Recursive
    <3>2. CASE k # 0
      <4>1. k \in 1..n /\ k - 1 \in 0..n
        BY <1>2, <3>2
      <4>2. f[k - 1] \in Graph(tt)
        BY <2>1, <4>1 DEF S, Recursive
      <4>3. G[<<k, f[k - 1]>>] = UpdateTransport(f[k - 1], u[k])
        BY <4>1, <4>2
      <4> QED
        BY <2>1, <3>2, <4>3 DEF Recursive
    <3> QED
      BY <3>1, <3>2
  <2>3. f = [x \in 0..n |-> IF x = 0 THEN none ELSE UpdateTransport(f[x - 1], u[x])]
    BY <2>1, <2>2 DEF Recursive
  <2> QED
    BY <2>3
<1>7. after = [x \in 0..n |-> IF x = 0 THEN none ELSE UpdateTransport(after[x - 1], u[x])]
  BY <1>6
<1> HIDE DEF after, G
<1> DEFINE T == {k \in 0..n : after[k] \in Graph(tt) /\ \A x \in 1..k : CoversAll(after[k], u[x])}
<1>8. 0 \in T
  <2>1. after[0] = none /\ 0 \in 0..n
    BY <1>2, <1>7
  <2> QED
    BY <1>3, <2>1
<1>9. ASSUME NEW k \in 1..n, k - 1 \in T PROVE k \in T
  <2>1. k \in 0..n /\ k # 0 /\ k - 1 \in 0..n
    BY <1>2
  <2>2. after[k] = UpdateTransport(after[k - 1], u[k])
    BY <1>7, <2>1
  <2>3. after[k - 1] \in Graph(tt) /\ \A x \in 1..k - 1 : CoversAll(after[k - 1], u[x])
    BY <1>9
  <2>4. after[k] \in Graph(tt) /\ KeepsWays(after[k - 1], after[k]) /\ CoversAll(after[k], u[k])
    BY <1>4, <2>2, <2>3
  <2>5. ASSUME NEW x \in 1..k PROVE CoversAll(after[k], u[x])
    <3>1. CASE x = k
      BY <2>4, <3>1
    <3>2. CASE x # k
      <4>1. x \in 1..k - 1 /\ x \in 1..n
        BY <1>2, <3>2
      <4>2. IsTransport(u[x]) /\ CoversAll(after[k - 1], u[x])
        BY <1>2, <2>3, <4>1
      <4> QED
        BY <2>4, <4>2, CoversKept DEF CoversAll
    <3> QED
      BY <3>1, <3>2
  <2> QED
    BY <2>1, <2>4, <2>5
<1> HIDE DEF T
<1>10. 0..n \subseteq T
  BY <1>2, <1>8, <1>9, UpTo
<1>11. n \in T
  BY <1>2, <1>10
<1> QED
  BY <1>1, <1>2, <1>11 DEF T

-----------------------------------------------------------------------------
(***************************************************************************)
(* A search that has relaxed all edges bounds every move of a traveller.   *)
(***************************************************************************)
SearchState ==
  /\ StaticState
  /\ rtt \in Graph(tt)
  /\ \A x \in DOMAIN rts : IsTransport(rts[x]) /\ CoversAll(rtt, rts[x])
  /\ query \in Queries(tt) /\ query.profile = DefaultProfile

Distances == [AllLocations(tt) -> Nat]

Closed(ds) ==
  \A l \in AllLocations(tt) : \A e \in Edges(l) :
    ds[l] + e.duration <= MaxTravelTime => ds[e.target] <= ds[l] + e.duration

Reached(ds) ==
  \A o \in query.destination : \A l \in AllLocations(tt) :
    l \in for_each_meta(tt, query.mode, o.target) => ds[get_root_idx(tt, l)] <= o.duration

LEMMA SearchFacts ==
  ASSUME SearchState
  PROVE  /\ IsQuery(tt, query) /\ query.dir \in Directions /\ MaxTravelTime \in Nat
         /\ \A l \in AllLocations(tt) :
              Edges(l) = Ways(rtt, query.dir, l) /\ Edges(l) \subseteq Edge(tt)
<1>1. IsQuery(tt, query)
  BY NetworksAssumption DEF SearchState, StaticState
<1>2. query.dir \in Directions
  BY <1>1 DEF IsQuery
<1>3. ASSUME NEW l \in AllLocations(tt)
      PROVE  Edges(l) = Ways(rtt, query.dir, l) /\ Edges(l) \subseteq Edge(tt)
  <2>1. Edges(l) = Ways(rtt, query.dir, l)
    BY DEF SearchState, Edges, Ways
  <2>2. lb_graph[query.dir][DefaultProfile][l] \subseteq Edge(tt)
    BY <1>2, StaticFacts DEF SearchState
  <2>3. rtt.graph[query.dir][l] \subseteq Edge(tt)
    BY <1>2 DEF SearchState, Graph
  <2> QED
    BY <2>1, <2>2, <2>3 DEF Ways
<1> QED
  BY <1>1, <1>2, <1>3, MaxTravelTimeAssumption

LEMMA WayTaken ==
  ASSUME SearchState, NEW ds \in Distances, Closed(ds), NEW a \in AllLocations(tt), NEW b \in AllLocations(tt),
         NEW d \in Nat, HasWay(rtt, query.dir, a, b, d), ds[a] + d <= MaxTravelTime
  PROVE  ds[b] <= ds[a] + d
<1>1. ds[a] \in Nat /\ ds[b] \in Nat /\ MaxTravelTime \in Nat
  BY SearchFacts DEF Distances
<1>2. CASE a = b
  BY <1>1, <1>2
<1>3. CASE a # b
  <2>1. PICK e \in Ways(rtt, query.dir, a) : e.target = b /\ e.duration <= d
    BY <1>3 DEF HasWay
  <2>2. e \in Edges(a) /\ e \in Edge(tt)
    BY <2>1, SearchFacts
  <2>3. e.duration \in Nat
    BY <2>2 DEF Edge
  <2>4. ds[a] + e.duration <= MaxTravelTime
    BY <1>1, <2>1, <2>3
  <2>5. ds[b] <= ds[a] + e.duration
    BY <2>1, <2>2, <2>4 DEF Closed
  <2> QED
    BY <1>1, <2>1, <2>3, <2>5
<1> QED
  BY <1>2, <1>3

RideTime(times, i, j) == times[arr(j)] - times[dep(i)]

\* Waiting at the stops on the way only adds to the times of the segments.
LEMMA RideTimes ==
  ASSUME NEW n, NEW stops, NEW times, IsRun(n, stops, times),
         NEW i \in 1..Len(stops), NEW j \in 1..Len(stops), i < j
  PROVE  /\ RideTime(times, i, j) \in Nat
         /\ j = i + 1 => RideTime(times, i, j) = SegmentTime(times, i)
         /\ j # i + 1 => /\ SegmentTime(times, i) + RideTime(times, i + 1, j) <= RideTime(times, i, j)
                         /\ RideTime(times, i, j - 1) + SegmentTime(times, j - 1) <= RideTime(times, i, j)
<1> DEFINE D == 0..2 * Len(stops) - 3
<1>1. /\ Len(stops) \in Nat /\ times \in [D -> Int]
      /\ \A e, f \in D : e <= f => times[e] <= times[f]
  BY DEF IsRun
<1>2. /\ dep(i) = 2 * i - 2 /\ arr(j) = 2 * j - 3 /\ dep(i + 1) = 2 * i /\ arr(i + 1) = 2 * i - 1
      /\ dep(j - 1) = 2 * j - 4 /\ arr(j - 1) = 2 * j - 5
  BY <1>1 DEF dep, arr
<1>3. dep(i) \in D /\ arr(j) \in D /\ arr(i + 1) \in D /\ dep(j - 1) \in D
  BY <1>1, <1>2
<1>4. j # i + 1 => dep(i + 1) \in D /\ arr(j - 1) \in D
  BY <1>1, <1>2
<1>5. dep(i) <= arr(j) /\ arr(i + 1) <= dep(i + 1) /\ arr(j - 1) <= dep(j - 1)
  BY <1>1, <1>2
<1> HIDE DEF D
<1>6. times[dep(i)] <= times[arr(j)] /\ times[dep(i)] \in Int /\ times[arr(j)] \in Int
  BY <1>1, <1>3, <1>5
<1>7. j # i + 1 => /\ times[arr(i + 1)] <= times[dep(i + 1)] /\ times[arr(j - 1)] <= times[dep(j - 1)]
                   /\ times[arr(i + 1)] \in Int /\ times[dep(i + 1)] \in Int
                   /\ times[arr(j - 1)] \in Int /\ times[dep(j - 1)] \in Int
  BY <1>1, <1>3, <1>4, <1>5
<1>8. SegmentTime(times, i) = times[arr(i + 1)] - times[dep(i)]
  BY DEF SegmentTime
<1>9. SegmentTime(times, j - 1) = times[arr(j)] - times[dep(j - 1)]
  BY <1>1 DEF SegmentTime
<1> QED
  BY <1>6, <1>7, <1>8, <1>9 DEF RideTime

LEMMA RideTaken ==
  ASSUME SearchState, NEW ds \in Distances, Closed(ds), NEW stops, NEW times, IsRun(tt, stops, times),
         \A s \in 1..Len(stops) - 1 :
           SegmentHasWays(rtt, get_root_idx(tt, stops[s]), get_root_idx(tt, stops[s + 1]), SegmentTime(times, s)),
         NEW i \in 1..Len(stops), NEW j \in 1..Len(stops), i < j
  PROVE  /\ (query.dir = "fwd" /\ ds[get_root_idx(tt, stops[j])] + RideTime(times, i, j) <= MaxTravelTime
               => ds[get_root_idx(tt, stops[i])] <= ds[get_root_idx(tt, stops[j])] + RideTime(times, i, j))
         /\ (query.dir = "bwd" /\ ds[get_root_idx(tt, stops[i])] + RideTime(times, i, j) <= MaxTravelTime
               => ds[get_root_idx(tt, stops[j])] <= ds[get_root_idx(tt, stops[i])] + RideTime(times, i, j))
<1> DEFINE root(k) == get_root_idx(tt, stops[k])
           N == 1..Len(stops)
<1>1. Len(stops) \in Nat /\ \A k \in N : stops[k] \in AllLocations(tt)
  BY StopsTyped
<1>2. MaxTravelTime \in Nat /\ IsHierarchy(tt)
  BY SearchFacts, StaticFacts DEF SearchState
<1>3. \A k \in N : root(k) \in AllLocations(tt) /\ ds[root(k)] \in Nat
  BY <1>1, <1>2, RootFacts DEF Distances
<1>4. \A s \in 1..Len(stops) - 1 : SegmentTime(times, s) \in Nat
  BY SegmentTimeTyped
<1>5. \A x \in N, y \in N : x < y =>
        /\ RideTime(times, x, y) \in Nat
        /\ y = x + 1 => RideTime(times, x, y) = SegmentTime(times, x)
        /\ y # x + 1 => /\ SegmentTime(times, x) + RideTime(times, x + 1, y) <= RideTime(times, x, y)
                        /\ RideTime(times, x, y - 1) + SegmentTime(times, y - 1) <= RideTime(times, x, y)
  BY RideTimes
<1>6. ASSUME NEW s \in 1..Len(stops) - 1
      PROVE  /\ query.dir = "fwd" /\ ds[root(s + 1)] + SegmentTime(times, s) <= MaxTravelTime
                  => ds[root(s)] <= ds[root(s + 1)] + SegmentTime(times, s)
             /\ query.dir = "bwd" /\ ds[root(s)] + SegmentTime(times, s) <= MaxTravelTime
                  => ds[root(s + 1)] <= ds[root(s)] + SegmentTime(times, s)
  <2>1. s \in N /\ s + 1 \in N
    BY <1>1
  <2>2. HasWay(rtt, "fwd", root(s + 1), root(s), SegmentTime(times, s))
        /\ HasWay(rtt, "bwd", root(s), root(s + 1), SegmentTime(times, s))
    BY DEF SegmentHasWays
  <2>3. root(s) \in AllLocations(tt) /\ root(s + 1) \in AllLocations(tt) /\ SegmentTime(times, s) \in Nat
    BY <1>3, <1>4, <2>1
  <2> HIDE DEF root
  <2> QED
    BY <2>2, <2>3, WayTaken
<1> DEFINE d(x) == ds[root(x)]
           D(x, y) == RideTime(times, x, y)
           S(x) == SegmentTime(times, x)
<1>7. \A k \in N : d(k) \in Nat
  BY <1>3
<1>8. \A s \in 1..Len(stops) - 1 :
        /\ S(s) \in Nat
        /\ query.dir = "fwd" /\ d(s + 1) + S(s) <= MaxTravelTime => d(s) <= d(s + 1) + S(s)
        /\ query.dir = "bwd" /\ d(s) + S(s) <= MaxTravelTime => d(s + 1) <= d(s) + S(s)
  BY <1>4, <1>6
<1>9. \A x \in N, y \in N : x < y =>
        /\ D(x, y) \in Nat
        /\ y = x + 1 => D(x, y) = S(x)
        /\ y # x + 1 => S(x) + D(x + 1, y) <= D(x, y) /\ D(x, y - 1) + S(y - 1) <= D(x, y)
  BY <1>5
<1> HIDE DEF d, D, S, root
<1>10. ASSUME query.dir = "fwd", d(j) + D(i, j) <= MaxTravelTime
       PROVE  d(i) <= d(j) + D(i, j)
  <2> DEFINE T == {k \in 0..j - 1 : k # 0 /\ d(j) + D(j - k, j) <= MaxTravelTime => d(j - k) <= d(j) + D(j - k, j)}
  <2>1. 0 \in T
    BY <1>1
  <2>2. ASSUME NEW k \in 1..j - 1, k - 1 \in T PROVE k \in T
    <3> DEFINE x == j - k
    <3>1. x \in N /\ x \in 1..Len(stops) - 1 /\ j \in N /\ x < j /\ x + 1 \in N /\ k \in 0..j - 1
      BY <1>1
    <3>2. d(x) \in Nat /\ d(j) \in Nat /\ S(x) \in Nat /\ D(x, j) \in Nat /\ d(x + 1) \in Nat
      BY <1>7, <1>8, <1>9, <3>1
    <3>3. ASSUME d(j) + D(x, j) <= MaxTravelTime PROVE d(x) <= d(j) + D(x, j)
      <4>1. CASE k = 1
        <5>1. j = x + 1 /\ D(x, j) = S(x)
          BY <1>9, <3>1, <4>1
        <5> QED
          BY <1>8, <1>10, <3>1, <3>3, <5>1
      <4>2. CASE k # 1
        <5>1. k - 1 # 0 /\ j - (k - 1) = x + 1 /\ x + 1 < j /\ j # x + 1
          BY <4>2
        <5>2. D(x + 1, j) \in Nat /\ S(x) + D(x + 1, j) <= D(x, j)
          BY <1>9, <3>1, <5>1
        <5>3. d(j) + D(x + 1, j) <= MaxTravelTime => d(x + 1) <= d(j) + D(x + 1, j)
          BY <2>2, <5>1
        <5> HIDE DEF x
        <5>4. d(x + 1) <= d(j) + D(x + 1, j)
          BY <1>2, <3>2, <3>3, <5>2, <5>3
        <5>5. d(x + 1) + S(x) <= MaxTravelTime
          BY <1>2, <3>2, <3>3, <5>2, <5>4
        <5>6. d(x) <= d(x + 1) + S(x)
          BY <1>8, <1>10, <3>1, <5>5
        <5> QED
          BY <3>2, <5>2, <5>4, <5>6
      <4> QED
        BY <4>1, <4>2
    <3> QED
      BY <3>1, <3>3
  <2> HIDE DEF T
  <2>3. 0..j - 1 \subseteq T
    <3>1. j - 1 \in Nat
      BY <1>1
    <3> DEFINE m == j - 1
    <3>2. m \in Nat /\ \A k \in 1..m : k - 1 \in T => k \in T
      BY <2>2, <3>1
    <3> HIDE DEF m
    <3>3. 0..m \subseteq T
      BY <2>1, <3>2, UpTo
    <3> QED
      BY <3>3 DEF m
  <2>4. j - i \in 0..j - 1 /\ j - i # 0 /\ j - (j - i) = i
    BY <1>1
  <2>5. j - i \in T
    BY <2>3, <2>4
  <2> QED
    BY <1>10, <2>4, <2>5 DEF T
<1>11. ASSUME query.dir = "bwd", d(i) + D(i, j) <= MaxTravelTime
       PROVE  d(j) <= d(i) + D(i, j)
  <2> DEFINE m == Len(stops) - i
             T == {k \in 0..m : k # 0 /\ d(i) + D(i, i + k) <= MaxTravelTime => d(i + k) <= d(i) + D(i, i + k)}
  <2>1. 0 \in T
    BY <1>1
  <2>2. ASSUME NEW k \in 1..m, k - 1 \in T PROVE k \in T
    <3> DEFINE y == i + k
    <3>1. y \in N /\ y - 1 \in 1..Len(stops) - 1 /\ i \in N /\ i < y /\ y - 1 \in N /\ k \in 0..m /\ (y - 1) + 1 = y
      BY <1>1
    <3>2. d(y) \in Nat /\ d(i) \in Nat /\ S(y - 1) \in Nat /\ D(i, y) \in Nat /\ d(y - 1) \in Nat
      BY <1>7, <1>8, <1>9, <3>1
    <3>3. ASSUME d(i) + D(i, y) <= MaxTravelTime PROVE d(y) <= d(i) + D(i, y)
      <4>1. CASE k = 1
        <5>1. y = i + 1 /\ y - 1 = i /\ D(i, y) = S(i)
          BY <1>9, <3>1, <4>1
        <5> QED
          BY <1>8, <1>11, <3>1, <3>3, <5>1
      <4>2. CASE k # 1
        <5>1. k - 1 # 0 /\ i + (k - 1) = y - 1 /\ i < y - 1 /\ y # i + 1
          BY <4>2
        <5>2. D(i, y - 1) \in Nat /\ D(i, y - 1) + S(y - 1) <= D(i, y)
          BY <1>9, <3>1, <5>1
        <5>3. d(i) + D(i, y - 1) <= MaxTravelTime => d(y - 1) <= d(i) + D(i, y - 1)
          BY <2>2, <5>1
        <5> HIDE DEF y
        <5>4. d(y - 1) <= d(i) + D(i, y - 1)
          BY <1>2, <3>2, <3>3, <5>2, <5>3
        <5>5. d(y - 1) + S(y - 1) <= MaxTravelTime
          BY <1>2, <3>2, <3>3, <5>2, <5>4
        <5>6. d(y) <= d(y - 1) + S(y - 1)
          BY <1>8, <1>11, <3>1, <5>5
        <5> QED
          BY <3>2, <5>2, <5>4, <5>6
      <4> QED
        BY <4>1, <4>2
    <3> QED
      BY <3>1, <3>3
  <2> HIDE DEF T
  <2>3. 0..m \subseteq T
    <3>1. m \in Nat
      BY <1>1
    <3> HIDE DEF m
    <3> QED
      BY <2>1, <2>2, <3>1, UpTo
  <2>4. j - i \in 0..m /\ j - i # 0 /\ i + (j - i) = j
    BY <1>1
  <2>5. j - i \in T
    BY <2>3, <2>4
  <2> QED
    BY <1>11, <2>4, <2>5 DEF T
<1> QED
  BY <1>10, <1>11 DEF d, D, root

\* A move m of a traveller is bounded in the direction of the search.
MoveBounded(ds, m) ==
  /\ m.from \in AllLocations(tt) /\ m.to \in AllLocations(tt) /\ m.duration \in Nat
  /\ query.dir = "fwd" /\ ds[get_root_idx(tt, m.to)] + m.duration <= MaxTravelTime
       => ds[get_root_idx(tt, m.from)] <= ds[get_root_idx(tt, m.to)] + m.duration
  /\ query.dir = "bwd" /\ ds[get_root_idx(tt, m.from)] + m.duration <= MaxTravelTime
       => ds[get_root_idx(tt, m.to)] <= ds[get_root_idx(tt, m.from)] + m.duration

LEMMA FootpathBounded ==
  ASSUME SearchState, NEW ds \in Distances, Closed(ds), NEW m \in tt.footpaths[DefaultProfile]
  PROVE  MoveBounded(ds, m)
<1>1. IsNetwork(tt) /\ IsHierarchy(tt)
  BY StaticFacts DEF SearchState
<1>2. m \in [from : AllLocations(tt), to : AllLocations(tt), duration : Nat]
  BY <1>1 DEF IsNetwork
<1>3. m.from \in AllLocations(tt) /\ m.to \in AllLocations(tt) /\ m.duration \in Nat
  BY <1>2
<1> DEFINE f == get_root_idx(tt, m.from)
           t == get_root_idx(tt, m.to)
<1>4. f \in AllLocations(tt) /\ t \in AllLocations(tt)
  BY <1>1, <1>3, RootFacts
<1>5. StaticWay(tt, "fwd", t, f, m.duration) /\ StaticWay(tt, "bwd", f, t, m.duration)
  BY <1>1, FootpathIsWay
<1> HIDE DEF f, t
<1>6. HasWay(rtt, "fwd", t, f, m.duration) /\ HasWay(rtt, "bwd", f, t, m.duration)
  BY <1>5, StaticWayKept DEF SearchState, Directions
<1>7. /\ query.dir = "fwd" /\ ds[t] + m.duration <= MaxTravelTime => ds[f] <= ds[t] + m.duration
      /\ query.dir = "bwd" /\ ds[f] + m.duration <= MaxTravelTime => ds[t] <= ds[f] + m.duration
  BY <1>3, <1>4, <1>6, WayTaken
<1> QED
  BY <1>3, <1>7 DEF MoveBounded, f, t

LEMMA RideBounded ==
  ASSUME SearchState, NEW ds \in Distances, Closed(ds), NEW stops, NEW times, IsRun(tt, stops, times),
         \A s \in 1..Len(stops) - 1 :
           SegmentHasWays(rtt, get_root_idx(tt, stops[s]), get_root_idx(tt, stops[s + 1]), SegmentTime(times, s)),
         NEW m \in Rides(stops, times)
  PROVE  MoveBounded(ds, m)
<1>1. DOMAIN stops = 1..Len(stops) /\ \A k \in 1..Len(stops) : stops[k] \in AllLocations(tt)
  BY StopsTyped
<1>2. PICK x \in (DOMAIN stops) \X (DOMAIN stops) :
        /\ x[1] < x[2]
        /\ m = [from |-> stops[x[1]], to |-> stops[x[2]], duration |-> RideTime(times, x[1], x[2])]
  BY DEF Rides, RideTime
<1> DEFINE i == x[1]
           j == x[2]
<1>3. i \in 1..Len(stops) /\ j \in 1..Len(stops) /\ i < j
  BY <1>1, <1>2
<1>4. m.from = stops[i] /\ m.to = stops[j] /\ m.duration = RideTime(times, i, j)
  BY <1>2
<1> HIDE DEF i, j
<1>5. RideTime(times, i, j) \in Nat
  BY <1>3, RideTimes
<1>6. /\ (query.dir = "fwd" /\ ds[get_root_idx(tt, stops[j])] + RideTime(times, i, j) <= MaxTravelTime
            => ds[get_root_idx(tt, stops[i])] <= ds[get_root_idx(tt, stops[j])] + RideTime(times, i, j))
      /\ (query.dir = "bwd" /\ ds[get_root_idx(tt, stops[i])] + RideTime(times, i, j) <= MaxTravelTime
            => ds[get_root_idx(tt, stops[j])] <= ds[get_root_idx(tt, stops[i])] + RideTime(times, i, j))
  BY <1>3, RideTaken
<1> QED
  BY <1>1, <1>3, <1>4, <1>5, <1>6 DEF MoveBounded

LEMMA StaticRideBounded ==
  ASSUME SearchState, NEW ds \in Distances, Closed(ds), NEW r \in Range(tt.routes), NEW t \in DOMAIN r.times,
         NEW m \in Rides(r.stops, r.times[t])
  PROVE  MoveBounded(ds, m)
<1> DEFINE stops == r.stops
           times == r.times[t]
<1>1. IsNetwork(tt) /\ StaticState
  BY StaticFacts DEF SearchState
<1>2. IsRun(tt, stops, times)
  BY <1>1 DEF IsNetwork
<1>3. ASSUME NEW s \in 1..Len(stops) - 1
      PROVE  SegmentHasWays(rtt, get_root_idx(tt, stops[s]), get_root_idx(tt, stops[s + 1]), SegmentTime(times, s))
  <2>1. SegmentTime(times, s) \in Nat /\ SegmentTime(times, s) <= SegmentTime(times, s)
    BY <1>2, SegmentTimeTyped
  <2>2. /\ StaticWay(tt, "fwd", get_root_idx(tt, stops[s + 1]), get_root_idx(tt, stops[s]), SegmentTime(times, s))
        /\ StaticWay(tt, "bwd", get_root_idx(tt, stops[s]), get_root_idx(tt, stops[s + 1]), SegmentTime(times, s))
    BY <1>1, <2>1, SegmentIsWay
  <2> QED
    BY <1>1, <2>2, StaticWayKept DEF SegmentHasWays, Directions
<1>4. m \in Rides(stops, times)
  OBVIOUS
<1> HIDE DEF stops, times
<1> QED
  BY <1>2, <1>3, <1>4, RideBounded

LEMMA RtRideBounded ==
  ASSUME SearchState, NEW ds \in Distances, Closed(ds), NEW rt \in Range(rts), NEW m \in Rides(rt.stops, rt.times)
  PROVE  MoveBounded(ds, m)
<1>1. IsTransport(rt) /\ CoversAll(rtt, rt)
  BY DEF SearchState, Range
<1> DEFINE stops == rt.stops
           times == rt.times
<1>2. IsRun(tt, stops, times)
  BY <1>1 DEF IsTransport
<1>3. \A s \in 1..Len(stops) - 1 :
        SegmentHasWays(rtt, get_root_idx(tt, stops[s]), get_root_idx(tt, stops[s + 1]), SegmentTime(times, s))
  BY <1>1 DEF CoversAll, Covers
<1>4. m \in Rides(stops, times)
  OBVIOUS
<1> HIDE DEF stops, times
<1> QED
  BY <1>2, <1>3, <1>4, RideBounded

\* No move of a traveller, in the direction of the search, is left out.
LEMMA MovesBounded ==
  ASSUME SearchState, NEW ds \in Distances, Closed(ds), NEW m \in Moves
  PROVE  /\ m.from \in AllLocations(tt) /\ m.to \in AllLocations(tt) /\ m.duration \in Nat
         /\ ds[get_root_idx(tt, m.to)] + m.duration <= MaxTravelTime
              => ds[get_root_idx(tt, m.from)] <= ds[get_root_idx(tt, m.to)] + m.duration
<1> DEFINE static == UNION {UNION {Rides(r.stops, r.times[t]) : t \in DOMAIN r.times} :
                              r \in {r \in Range(tt.routes) : query.profile \in r.profiles}}
           rt_rides == UNION {Rides(rt.stops, rt.times) : rt \in Range(rts)}
           all == tt.footpaths[query.profile] \cup static \cup rt_rides
           reversed == {[from |-> x.to, to |-> x.from, duration |-> x.duration] : x \in all}
<1>1. Moves = IF query.dir = "fwd" THEN all ELSE reversed
  BY Zenon DEF Moves
<1>2. ASSUME NEW x \in all PROVE MoveBounded(ds, x)
  <2>1. CASE x \in tt.footpaths[query.profile]
    BY <2>1, FootpathBounded DEF SearchState
  <2>2. CASE x \in static
    <3>1. PICK r \in Range(tt.routes) : \E t \in DOMAIN r.times : x \in Rides(r.stops, r.times[t])
      BY <2>2
    <3>2. PICK t \in DOMAIN r.times : x \in Rides(r.stops, r.times[t])
      BY <3>1
    <3> QED
      BY <3>2, StaticRideBounded
  <2>3. CASE x \in rt_rides
    <3>1. PICK rt \in Range(rts) : x \in Rides(rt.stops, rt.times)
      BY <2>3
    <3> QED
      BY <3>1, RtRideBounded
  <2> HIDE DEF static, rt_rides
  <2> QED
    BY <2>1, <2>2, <2>3
<1>3. query.dir = "fwd" \/ query.dir = "bwd"
  BY SearchFacts DEF Directions
<1> HIDE DEF all, reversed
<1>4. CASE query.dir = "fwd"
  <2>1. MoveBounded(ds, m)
    BY <1>1, <1>2, <1>4
  <2> QED
    BY <1>4, <2>1 DEF MoveBounded
<1>5. CASE query.dir = "bwd"
  <2>1. PICK x \in all : m = [from |-> x.to, to |-> x.from, duration |-> x.duration]
    BY <1>1, <1>5 DEF reversed
  <2>2. m.from = x.to /\ m.to = x.from /\ m.duration = x.duration
    BY <2>1
  <2>3. MoveBounded(ds, x)
    BY <1>2
  <2> QED
    BY <1>5, <2>2, <2>3 DEF MoveBounded
<1> QED
  BY <1>3, <1>4, <1>5

LEMMA DistToEndFacts ==
  ASSUME SearchState, NEW ds \in Distances, Reached(ds), NEW l \in AllLocations(tt)
  PROVE  /\ DistToEnd(l) \in Nat
         /\ DistToEnd(l) <= MaxTravelTime => ds[get_root_idx(tt, l)] <= DistToEnd(l)
<1> DEFINE O == {o \in query.destination : l \in for_each_meta(tt, query.mode, o.target)}
           S == {Infinity} \cup {o.duration : o \in O}
<1>1. \A o \in query.destination : o.duration \in Nat
  BY SearchFacts DEF IsQuery
<1>2. S \in SUBSET Nat /\ S # {}
  BY <1>1 DEF Infinity
<1>3. MinOf(S) \in S
  <2> HIDE DEF S
  <2> QED
    BY <1>2, MinOfFacts
<1>4. DistToEnd(l) = MinOf(S)
  BY DEF DistToEnd
<1>5. ASSUME MinOf(S) <= MaxTravelTime PROVE ds[get_root_idx(tt, l)] <= MinOf(S)
  <2>1. MinOf(S) # Infinity
    BY <1>5, MaxTravelTimeAssumption DEF Infinity
  <2>2. PICK o \in O : MinOf(S) = o.duration
    BY <1>3, <2>1
  <2> QED
    BY <2>2 DEF Reached
<1> QED
  BY <1>2, <1>3, <1>4, <1>5

LEMMA OneMoveFacts ==
  ASSUME SearchState, NEW ds \in Distances, Closed(ds), NEW after \in Distances,
         \A l \in AllLocations(tt) : after[l] <= MaxTravelTime => ds[get_root_idx(tt, l)] <= after[l]
  PROVE  /\ OneMove(Moves, after) \in Distances
         /\ \A l \in AllLocations(tt) :
              OneMove(Moves, after)[l] <= MaxTravelTime => ds[get_root_idx(tt, l)] <= OneMove(Moves, after)[l]
<1> DEFINE M == Moves
<1>1. \A m \in M : /\ m.from \in AllLocations(tt) /\ m.to \in AllLocations(tt) /\ m.duration \in Nat
                   /\ ds[get_root_idx(tt, m.to)] + m.duration <= MaxTravelTime
                        => ds[get_root_idx(tt, m.from)] <= ds[get_root_idx(tt, m.to)] + m.duration
  BY MovesBounded
<1>2. MaxTravelTime \in Nat /\ \A l \in AllLocations(tt) : after[l] \in Nat /\ ds[get_root_idx(tt, l)] \in Nat
  BY SearchFacts, StaticFacts, RootFacts DEF Distances, SearchState
<1> DEFINE S(l) == {after[l]} \cup {m.duration + after[m.to] : m \in {m \in M : m.from = l}}
<1>3. OneMove(M, after) = [l \in AllLocations(tt) |-> MinOf(S(l))]
  BY DEF OneMove
<1> HIDE DEF M
<1>4. ASSUME NEW l \in AllLocations(tt)
      PROVE  MinOf(S(l)) \in Nat /\ (MinOf(S(l)) <= MaxTravelTime => ds[get_root_idx(tt, l)] <= MinOf(S(l)))
  <2>1. S(l) \in SUBSET Nat /\ S(l) # {}
    BY <1>1, <1>2
  <2> DEFINE x == MinOf(S(l))
  <2>2. x \in S(l)
    <3> DEFINE T == S(l)
    <3> HIDE DEF T
    <3>1. T \in SUBSET Nat /\ T # {}
      BY <2>1 DEF T
    <3>2. MinOf(T) \in T
      BY <3>1, MinOfFacts
    <3> QED
      BY <3>2 DEF T
  <2>3. x \in Nat
    BY <2>1, <2>2
  <2>4. x = after[l] \/ \E m \in M : m.from = l /\ x = m.duration + after[m.to]
    <3> HIDE DEF x
    <3> QED
      BY <2>2
  <2> HIDE DEF x
  <2>5. ASSUME x <= MaxTravelTime PROVE ds[get_root_idx(tt, l)] <= x
    <3>1. CASE x = after[l]
      BY <2>5, <3>1
    <3>2. CASE x # after[l]
      <4>1. PICK m \in M : m.from = l /\ x = m.duration + after[m.to]
        BY <2>4, <3>2
      <4>2. /\ m.to \in AllLocations(tt) /\ m.duration \in Nat /\ after[m.to] \in Nat
            /\ ds[get_root_idx(tt, m.to)] \in Nat
        BY <1>1, <1>2
      <4>3. after[m.to] <= MaxTravelTime
        BY <1>2, <2>5, <4>1, <4>2
      <4>4. ds[get_root_idx(tt, m.to)] <= after[m.to]
        BY <4>2, <4>3
      <4>5. ds[get_root_idx(tt, m.to)] + m.duration <= MaxTravelTime
        BY <1>2, <2>5, <4>1, <4>2, <4>4
      <4>6. ds[get_root_idx(tt, l)] <= ds[get_root_idx(tt, m.to)] + m.duration
        BY <1>1, <4>1, <4>5
      <4> QED
        BY <1>2, <4>1, <4>2, <4>4, <4>6
    <3> QED
      BY <3>1, <3>2
  <2> QED
    BY <2>3, <2>5 DEF x
<1> HIDE DEF S
<1>5. OneMove(M, after) \in Distances
  BY <1>3, <1>4 DEF Distances
<1> QED
  BY <1>3, <1>4, <1>5 DEF M

LEMMA RemainingBounded ==
  ASSUME SearchState, NEW ds \in Distances, Closed(ds), Reached(ds), NEW l \in AllLocations(tt)
  PROVE  Remaining[l] \in Nat /\ (Remaining[l] <= MaxTravelTime => ds[get_root_idx(tt, l)] <= Remaining[l])
<1> DEFINE n == Len(tt.parents)
           end == [x \in AllLocations(tt) |-> DistToEnd(x)]
           M == Moves
           after == CHOOSE f : f = [k \in 0..n |-> IF k = 0 THEN end ELSE OneMove(M, f[k - 1])]
           Bounded == {f \in Distances : \A x \in AllLocations(tt) :
                                           f[x] <= MaxTravelTime => ds[get_root_idx(tt, x)] <= f[x]}
           G == [x \in (1..n) \X Bounded |-> OneMove(M, x[2])]
<1>1. Remaining = after[n]
  BY DEF Remaining
<1>2. n \in Nat
  BY StaticFacts, LocationsTyped DEF SearchState
<1>3. end \in Bounded
  BY DistToEndFacts DEF Distances
<1>4. \A f \in Bounded : OneMove(M, f) \in Bounded
  BY OneMoveFacts
<1> HIDE DEF n, end, M, Bounded
<1>5. G \in [(1..n) \X Bounded -> Bounded]
  BY <1>4
<1>6. PICK f : Recursive(f, n, Bounded, end, G)
  <2> HIDE DEF G
  <2> QED
    BY <1>2, <1>3, <1>5, FunctionExists
<1>7. ASSUME NEW k \in 0..n
      PROVE  f[k] = IF k = 0 THEN end ELSE OneMove(M, f[k - 1])
  <2>1. CASE k = 0
    BY <1>6, <2>1 DEF Recursive
  <2>2. CASE k # 0
    <3>1. k \in 1..n /\ k - 1 \in 0..n
      BY <1>2, <2>2
    <3>2. f[k - 1] \in Bounded
      BY <1>6, <3>1 DEF Recursive
    <3>3. G[<<k, f[k - 1]>>] = OneMove(M, f[k - 1])
      BY <3>1, <3>2
    <3> QED
      BY <1>6, <2>2, <3>3 DEF Recursive
  <2> QED
    BY <2>1, <2>2
<1>8. f = [k \in 0..n |-> IF k = 0 THEN end ELSE OneMove(M, f[k - 1])]
  BY <1>6, <1>7 DEF Recursive
<1>9. after = [k \in 0..n |-> IF k = 0 THEN end ELSE OneMove(M, after[k - 1])]
  BY <1>8
<1> HIDE DEF after, G
<1> DEFINE T == {k \in 0..n : after[k] \in Bounded}
<1>10. 0 \in T
  BY <1>2, <1>3, <1>9
<1>11. ASSUME NEW k \in 1..n, k - 1 \in T PROVE k \in T
  <2>1. k \in 0..n /\ k # 0
    BY <1>2
  <2>2. after[k] = OneMove(M, after[k - 1])
    BY <1>9, <2>1
  <2> QED
    BY <1>4, <1>11, <2>1, <2>2
<1> HIDE DEF T
<1>12. n \in T
  <2>1. 0..n \subseteq T
    BY <1>2, <1>10, <1>11, UpTo
  <2> QED
    BY <1>2, <2>1
<1>13. after[n] \in Bounded
  BY <1>12 DEF T
<1> QED
  BY <1>1, <1>13 DEF Bounded, Distances

-----------------------------------------------------------------------------
(***************************************************************************)
(* The bounds are handed down location by location: each location ends     *)
(* with no more than its root has.                                         *)
(***************************************************************************)
LEMMA InheritTyped ==
  ASSUME NEW ds \in Distances, NEW l \in AllLocations(tt)
  PROVE  /\ inherit(ds, l) \in Distances
         /\ \A x \in AllLocations(tt) :
              /\ inherit(ds, l)[x] <= ds[x]
              /\ tt.parents[x] = l => inherit(ds, l)[x] <= ds[l]
BY DEF Distances, inherit, Lower

LEMMA InheritedFacts ==
  ASSUME StaticState, dists \in Distances, StationsFirst
  PROVE  /\ Inherited \in Distances
         /\ \A x \in AllLocations(tt) : Inherited[x] <= dists[get_root_idx(tt, x)]
<1> DEFINE n == Len(tt.parents)
           after == CHOOSE f : f = [l \in 0..n |-> IF l = 0 THEN dists ELSE inherit(f[l - 1], l)]
           S == Distances
           G == [x \in (1..n) \X S |-> inherit(x[2], x[1])]
           parent(x) == tt.parents[x]
<1>1. Inherited = after[n]
  BY DEF Inherited
<1>2. n \in Nat /\ AllLocations(tt) = 1..n /\ IsHierarchy(tt)
      /\ \A x \in AllLocations(tt) : parent(x) \in {NoLocation} \cup AllLocations(tt)
  BY StaticFacts, LocationsTyped
<1>3. \A x \in AllLocations(tt) : parent(x) # NoLocation /\ parent(parent(x)) # NoLocation => parent(parent(x)) < parent(x)
  BY DEF StationsFirst, StaticState
<1>4. \A x \in AllLocations(tt) :
        \/ x = get_root_idx(tt, x)
        \/ /\ parent(x) \in AllLocations(tt)
           /\ parent(x) = get_root_idx(tt, x) \/ parent(parent(x)) = get_root_idx(tt, x)
           /\ parent(parent(x)) = NoLocation => parent(x) = get_root_idx(tt, x)
  BY <1>2, PathToRoot
<1> HIDE DEF n, parent
<1>5. \A l \in 1..n, ds \in S :
        /\ inherit(ds, l) \in S
        /\ \A x \in 1..n : /\ inherit(ds, l)[x] <= ds[x]
                           /\ parent(x) = l => inherit(ds, l)[x] <= ds[l]
  BY <1>2, InheritTyped DEF parent
<1>6. dists \in S /\ \A ds \in S, x \in 1..n : ds[x] \in Nat
  BY <1>2 DEF Distances
<1> HIDE DEF S
<1>7. G \in [(1..n) \X S -> S]
  BY <1>5
<1>8. PICK f : Recursive(f, n, S, dists, G)
  <2> HIDE DEF G
  <2> QED
    BY <1>2, <1>6, <1>7, FunctionExists
<1>9. ASSUME NEW l \in 0..n
      PROVE  f[l] = IF l = 0 THEN dists ELSE inherit(f[l - 1], l)
  <2>1. CASE l = 0
    BY <1>8, <2>1 DEF Recursive
  <2>2. CASE l # 0
    <3>1. l \in 1..n /\ l - 1 \in 0..n
      BY <1>2, <2>2
    <3>2. f[l - 1] \in S
      BY <1>8, <3>1 DEF Recursive
    <3>3. G[<<l, f[l - 1]>>] = inherit(f[l - 1], l)
      BY <3>1, <3>2
    <3> QED
      BY <1>8, <2>2, <3>3 DEF Recursive
  <2> QED
    BY <2>1, <2>2
<1>10. f = [l \in 0..n |-> IF l = 0 THEN dists ELSE inherit(f[l - 1], l)]
  BY <1>8, <1>9 DEF Recursive
<1>11. after = [l \in 0..n |-> IF l = 0 THEN dists ELSE inherit(after[l - 1], l)]
  BY <1>10
<1> HIDE DEF after, G
\* What the locations have after the bounds of 1..k were handed down.
<1> DEFINE HandedDown(ds, k) ==
             \A x \in 1..n :
               /\ ds[x] <= dists[x]
               /\ parent(x) \in 1..k =>
                    /\ ds[x] <= dists[parent(x)]
                    /\ parent(parent(x)) # NoLocation => ds[x] <= dists[parent(parent(x))]
           T == {k \in 0..n : after[k] \in S /\ HandedDown(after[k], k)}
<1>12. 0 \in T
  <2>1. after[0] = dists /\ 0 \in 0..n
    BY <1>2, <1>11
  <2> QED
    BY <1>6, <2>1
<1>13. ASSUME NEW k \in 1..n, k - 1 \in T PROVE k \in T
  <2> DEFINE b == after[k - 1]
             a == after[k]
  <2>1. k \in 0..n /\ k # 0 /\ k - 1 \in 0..n
    BY <1>2
  <2>2. a = inherit(b, k)
    BY <1>11, <2>1
  <2>3. b \in S /\ HandedDown(b, k - 1)
    BY <1>13
  <2> HIDE DEF a, b
  <2>4. a \in S /\ \A x \in 1..n : a[x] <= b[x] /\ (parent(x) = k => a[x] <= b[k])
    BY <1>5, <2>2, <2>3
  <2>5. \A x \in 1..n : a[x] \in Nat /\ b[x] \in Nat /\ dists[x] \in Nat
    BY <1>6, <2>3, <2>4
  <2>6. ASSUME NEW x \in 1..n
        PROVE  /\ a[x] <= dists[x]
               /\ parent(x) \in 1..k =>
                    /\ a[x] <= dists[parent(x)]
                    /\ parent(parent(x)) # NoLocation => a[x] <= dists[parent(parent(x))]
    <3> DEFINE p == parent(x)
               q == parent(p)
    <3>1. a[x] <= b[x] /\ b[x] <= dists[x] /\ a[x] \in Nat /\ b[x] \in Nat /\ dists[x] \in Nat
      BY <2>3, <2>4, <2>5
    <3>2. a[x] <= dists[x]
      BY <3>1
    <3>3. p \in 1..n => q \in {NoLocation} \cup 1..n
      BY <1>2
    <3>4. CASE p \in 1..k - 1
      <4>1. p \in 1..n /\ b[x] <= dists[p] /\ (q # NoLocation => b[x] <= dists[q])
        <5>1. p \in 1..n
          BY <1>2, <3>4
        <5>2. b[x] <= dists[p] /\ (q # NoLocation => b[x] <= dists[q])
          BY <2>3, <3>4
        <5> QED
          BY <5>1, <5>2
      <4>2. dists[p] \in Nat /\ (q # NoLocation => dists[q] \in Nat)
        BY <2>5, <3>3, <4>1
      <4> QED
        BY <3>1, <3>2, <4>1, <4>2
    <3>5. CASE p = k
      <4>1. k \in 1..n /\ a[x] <= b[k] /\ b[k] <= dists[k] /\ b[k] \in Nat /\ dists[k] \in Nat
        BY <2>3, <2>4, <2>5, <3>5
      <4>2. ASSUME q # NoLocation PROVE a[x] <= dists[q]
        <5>1. q \in 1..n /\ q < k
          BY <1>2, <1>3, <3>3, <3>5, <4>1, <4>2 DEF NoLocation
        <5>2. parent(k) = q /\ q \in 1..k - 1
          BY <3>5, <5>1
        <5>3. b[k] <= dists[q]
          BY <2>3, <4>1, <5>2
        <5> QED
          BY <2>5, <3>1, <4>1, <5>1, <5>3
      <4> QED
        BY <3>1, <3>2, <3>5, <4>1, <4>2
    <3> QED
      BY <3>2, <3>4, <3>5
  <2> QED
    BY <2>1, <2>4, <2>6 DEF a
<1> HIDE DEF T
<1>14. n \in T
  <2>1. 0..n \subseteq T
    BY <1>2, <1>12, <1>13, UpTo
  <2> QED
    BY <1>2, <2>1
<1>15. Inherited \in S /\ HandedDown(Inherited, n)
  BY <1>1, <1>14 DEF T
<1>16. ASSUME NEW x \in AllLocations(tt) PROVE Inherited[x] <= dists[get_root_idx(tt, x)]
  <2>1. x \in 1..n
    BY <1>2
  <2>2. CASE x = get_root_idx(tt, x)
    BY <1>15, <2>1, <2>2
  <2>3. CASE x # get_root_idx(tt, x)
    <3>1. /\ parent(x) \in 1..n
          /\ parent(x) = get_root_idx(tt, x) \/ parent(parent(x)) = get_root_idx(tt, x)
          /\ parent(parent(x)) = NoLocation => parent(x) = get_root_idx(tt, x)
      BY <1>2, <1>4, <2>3
    <3>2. /\ Inherited[x] <= dists[parent(x)]
          /\ parent(parent(x)) # NoLocation => Inherited[x] <= dists[parent(parent(x))]
      BY <1>15, <2>1, <3>1
    <3> QED
      BY <3>1, <3>2
  <2> QED
    BY <2>2, <2>3
<1> QED
  BY <1>15, <1>16 DEF S

-----------------------------------------------------------------------------
(***************************************************************************)
(* The start of the search: the locations of the destinations are pushed.  *)
(***************************************************************************)
Pushed(q, l) ==
  LET min == RootMinimum(q)
  IN  {min[r] : r \in {r \in DOMAIN min : l \in for_each_meta(tt, q.mode, r)}}

FirstBuckets(q) == [d \in 0..MaxTravelTime |-> {l \in AllLocations(tt) : d \in Pushed(q, l)}]
FirstDistances(q) == [l \in AllLocations(tt) |-> MinOf({Infinity} \cup Pushed(q, l))]

Buckets == [0..MaxTravelTime -> SUBSET AllLocations(tt)]

\* A root is among the locations that match it, whatever the match mode.
LEMMA RootMatchesItself ==
  ASSUME StaticState, NEW q \in Queries(tt), NEW r \in AllLocations(tt), tt.parents[r] = NoLocation
  PROVE  r \in for_each_meta(tt, q.mode, r)
<1>1. q.mode \in {"exact", "intermodal", "only_children", "equivalent"}
  BY NetworksAssumption DEF StaticState, IsQuery
<1>2. get_root_idx(tt, r) = r
  BY StaticFacts, RootOfRoot
<1>3. CASE q.mode = "exact"
  BY <1>3 DEF for_each_meta
<1>4. CASE q.mode = "intermodal"
  BY <1>4 DEF for_each_meta
<1>5. CASE q.mode = "only_children"
  BY <1>5 DEF for_each_meta
<1>6. CASE q.mode = "equivalent"
  BY <1>2, <1>6 DEF for_each_meta
<1> QED
  BY <1>1, <1>3, <1>4, <1>5, <1>6

LEMMA RootMinimumFacts ==
  ASSUME StaticState, NEW q \in Queries(tt)
  PROVE  /\ DOMAIN RootMinimum(q) \subseteq AllLocations(tt)
         /\ \A r \in DOMAIN RootMinimum(q) : RootMinimum(q)[r] \in 0..MaxTravelTime
         /\ \A o \in q.destination : \A l \in AllLocations(tt) :
              l \in for_each_meta(tt, q.mode, o.target) =>
                /\ get_root_idx(tt, l) \in DOMAIN RootMinimum(q)
                /\ RootMinimum(q)[get_root_idx(tt, l)] <= o.duration
<1> DEFINE durations(r) ==
             {o.duration : o \in {o \in q.destination :
                                   \E x \in for_each_meta(tt, q.mode, o.target) : get_root_idx(tt, x) = r}}
           D == {r \in AllLocations(tt) : durations(r) # {}}
<1>1. RootMinimum(q) = [r \in D |-> MinOf(durations(r))]
  BY DEF RootMinimum
<1>2. \A o \in q.destination : o.duration \in 0..MaxTravelTime
  BY NetworksAssumption DEF StaticState, IsQuery
<1>3. MaxTravelTime \in Nat
  BY MaxTravelTimeAssumption
<1>4. ASSUME NEW r \in D
      PROVE  MinOf(durations(r)) \in durations(r) /\ \A y \in durations(r) : MinOf(durations(r)) <= y
  <2> DEFINE T == durations(r)
  <2>1. T \in SUBSET Nat /\ T # {}
    BY <1>2, <1>3
  <2> HIDE DEF T
  <2>2. MinOf(T) \in T /\ \A y \in T : MinOf(T) <= y
    BY <2>1, MinOfFacts
  <2> QED
    BY <2>2 DEF T
<1>5. ASSUME NEW o \in q.destination, NEW l \in AllLocations(tt), l \in for_each_meta(tt, q.mode, o.target)
      PROVE  get_root_idx(tt, l) \in D /\ MinOf(durations(get_root_idx(tt, l))) <= o.duration
  <2> DEFINE r == get_root_idx(tt, l)
  <2>1. r \in AllLocations(tt)
    BY StaticFacts, RootFacts
  <2>2. o.duration \in durations(r)
    BY <1>5
  <2>3. r \in D
    BY <2>1, <2>2
  <2> HIDE DEF D, durations
  <2> QED
    BY <1>4, <2>2, <2>3
<1>6. \A r \in D : durations(r) \subseteq 0..MaxTravelTime
  BY <1>2
<1>7. D \subseteq AllLocations(tt)
  OBVIOUS
<1> HIDE DEF D, durations
<1> QED
  BY <1>1, <1>4, <1>5, <1>6, <1>7

LEMMA StartFacts ==
  ASSUME StaticState, NEW q \in Queries(tt)
  PROVE  /\ FirstBuckets(q) \in Buckets /\ FirstDistances(q) \in Distances
         /\ \A l \in AllLocations(tt) :
              FirstDistances(q)[l] <= MaxTravelTime => l \in FirstBuckets(q)[FirstDistances(q)[l]]
         /\ \A o \in q.destination : \A l \in AllLocations(tt) :
              l \in for_each_meta(tt, q.mode, o.target) => FirstDistances(q)[get_root_idx(tt, l)] <= o.duration
<1> DEFINE min == RootMinimum(q)
           D == DOMAIN min
           P(l) == Pushed(q, l)
<1>1. /\ D \subseteq AllLocations(tt)
      /\ \A r \in D : min[r] \in 0..MaxTravelTime
      /\ \A o \in q.destination : \A l \in AllLocations(tt) :
           l \in for_each_meta(tt, q.mode, o.target) =>
             get_root_idx(tt, l) \in D /\ min[get_root_idx(tt, l)] <= o.duration
  BY RootMinimumFacts
<1>2. MaxTravelTime \in Nat /\ MaxTravelTime < 65535
  BY MaxTravelTimeAssumption DEF Infinity
<1>3. \A l : P(l) = {min[r] : r \in {r \in D : l \in for_each_meta(tt, q.mode, r)}}
  BY DEF Pushed
<1> HIDE DEF min, D, P
<1>4. \A l : P(l) \subseteq 0..MaxTravelTime
  BY <1>1, <1>3
<1>5. ASSUME NEW l
      PROVE  /\ MinOf({Infinity} \cup P(l)) \in {Infinity} \cup P(l)
             /\ MinOf({Infinity} \cup P(l)) \in Nat
             /\ \A y \in P(l) : MinOf({Infinity} \cup P(l)) <= y
  <2> DEFINE T == {Infinity} \cup P(l)
  <2>1. T \in SUBSET Nat /\ T # {} /\ P(l) \subseteq T
    BY <1>2, <1>4 DEF Infinity
  <2> HIDE DEF T
  <2>2. MinOf(T) \in T /\ \A y \in T : MinOf(T) <= y
    BY <2>1, MinOfFacts
  <2>3. MinOf(T) \in Nat /\ \A y \in P(l) : MinOf(T) <= y
    BY <2>1, <2>2
  <2> QED
    BY <2>2, <2>3 DEF T
<1> DEFINE ds == FirstDistances(q)
           b == FirstBuckets(q)
<1>6. ds = [l \in AllLocations(tt) |-> MinOf({Infinity} \cup P(l))]
      /\ b = [d \in 0..MaxTravelTime |-> {l \in AllLocations(tt) : d \in P(l)}]
  BY DEF FirstDistances, FirstBuckets, P
<1> HIDE DEF ds, b
<1>7. b \in Buckets /\ ds \in Distances
  BY <1>5, <1>6 DEF Buckets, Distances
<1>8. ASSUME NEW l \in AllLocations(tt), ds[l] <= MaxTravelTime PROVE l \in b[ds[l]]
  <2>1. ds[l] = MinOf({Infinity} \cup P(l))
    BY <1>6
  <2>2. ds[l] \in {Infinity} \cup P(l)
    BY <1>5, <2>1
  <2>3. ds[l] \in P(l)
    BY <1>2, <1>8, <2>2 DEF Infinity
  <2>4. ds[l] \in 0..MaxTravelTime
    BY <1>4, <2>3
  <2> QED
    BY <1>6, <2>3, <2>4
<1>9. ASSUME NEW o \in q.destination, NEW l \in AllLocations(tt), l \in for_each_meta(tt, q.mode, o.target)
      PROVE  ds[get_root_idx(tt, l)] <= o.duration
  <2> DEFINE r == get_root_idx(tt, l)
  <2>1. r \in D /\ min[r] <= o.duration /\ min[r] \in 0..MaxTravelTime /\ r \in AllLocations(tt)
    BY <1>1, <1>9
  <2>2. tt.parents[r] = NoLocation
    BY StaticFacts, RootFacts
  <2> HIDE DEF r
  <2>3. r \in for_each_meta(tt, q.mode, r)
    BY <2>1, <2>2, RootMatchesItself
  <2>4. min[r] \in P(r)
    BY <1>3, <2>1, <2>3
  <2>5. ds[r] <= min[r] /\ ds[r] \in Nat
    BY <1>5, <1>6, <2>1, <2>4
  <2>6. o.duration \in Nat
    BY NetworksAssumption, MaxTravelTimeAssumption DEF StaticState, IsQuery
  <2>7. ds[r] <= o.duration
    BY <1>2, <2>1, <2>5, <2>6
  <2> QED
    BY <2>7 DEF r
<1> QED
  BY <1>7, <1>8, <1>9 DEF ds, b

-----------------------------------------------------------------------------
(***************************************************************************)
(* The search: a location is still in the bucket of its distance, or all   *)
(* its edges are relaxed.                                                  *)
(***************************************************************************)
EdgesRelaxed(ds, l) ==
  \A e \in Edges(l) : ds[l] + e.duration <= MaxTravelTime => ds[e.target] <= ds[l] + e.duration

Relaxed(ds, dial) ==
  \A l \in AllLocations(tt) : ds[l] <= MaxTravelTime => l \in dial[ds[l]] \/ EdgesRelaxed(ds, l)

LEMMA ExpandedFacts ==
  ASSUME SearchState, NEW ds \in Distances, NEW dial \in Buckets, NEW l \in AllLocations(tt),
         NEW d \in 0..MaxTravelTime
  PROVE  LET x == Expanded(ds, dial, l, d)
         IN  /\ x.dists \in Distances /\ x.pq \in Buckets
             /\ \A y \in AllLocations(tt) :
                  /\ x.dists[y] <= ds[y]
                  /\ x.dists[y] # ds[y] => y \in x.pq[x.dists[y]]
             /\ \A b \in 0..MaxTravelTime : dial[b] \subseteq x.pq[b]
             /\ \A e \in Edges(l) : d + e.duration <= MaxTravelTime => x.dists[e.target] <= d + e.duration
<1> DEFINE labels == {[l |-> e.target, d |-> d + e.duration] :
                        e \in {e \in Edges(l) : Improves(ds, e, d + e.duration)}}
           C(y) == {ds[y]} \cup {z.d : z \in {z \in labels : z.l = y}}
           nd == [y \in DOMAIN ds |-> MinOf(C(y))]
           np == [b \in DOMAIN dial |-> dial[b] \cup {z.l : z \in {z \in labels : z.d = b}}]
<1>1. Expanded(ds, dial, l, d) = [dists |-> nd, pq |-> np]
  BY DEF Expanded
<1>2. /\ MaxTravelTime \in Nat /\ d \in Nat
      /\ \A e \in Edges(l) : e.target \in AllLocations(tt) /\ e.duration \in Nat
  BY SearchFacts DEF Edge
<1>3. /\ DOMAIN ds = AllLocations(tt) /\ (\A y \in AllLocations(tt) : ds[y] \in Nat)
      /\ DOMAIN dial = 0..MaxTravelTime /\ \A b \in 0..MaxTravelTime : dial[b] \subseteq AllLocations(tt)
  BY DEF Distances, Buckets
<1>4. \A z \in labels : z.l \in AllLocations(tt) /\ z.d \in 0..MaxTravelTime
  BY <1>2 DEF Improves
<1>5. \A e \in Edges(l) : Improves(ds, e, d + e.duration) =>
        \E z \in labels : z.l = e.target /\ z.d = d + e.duration
  <2> SUFFICES ASSUME NEW e \in Edges(l), Improves(ds, e, d + e.duration)
               PROVE  \E z \in labels : z.l = e.target /\ z.d = d + e.duration
    OBVIOUS
  <2> DEFINE z == [l |-> e.target, d |-> d + e.duration]
  <2>1. z \in labels
    OBVIOUS
  <2>2. z.l = e.target /\ z.d = d + e.duration
    OBVIOUS
  <2> HIDE DEF z, labels
  <2> QED
    BY <2>1, <2>2
<1> HIDE DEF labels
<1>6. ASSUME NEW y \in AllLocations(tt)
      PROVE  MinOf(C(y)) \in C(y) /\ MinOf(C(y)) \in Nat /\ \A x \in C(y) : MinOf(C(y)) <= x
  <2> DEFINE T == C(y)
  <2>1. T \in SUBSET Nat /\ T # {}
    BY <1>2, <1>3, <1>4
  <2> HIDE DEF T
  <2>2. MinOf(T) \in T /\ \A x \in T : MinOf(T) <= x
    BY <2>1, MinOfFacts
  <2>3. MinOf(T) \in Nat
    BY <2>1, <2>2
  <2> QED
    BY <2>2, <2>3 DEF T
<1>7. nd \in Distances
  BY <1>3, <1>6 DEF Distances
<1>8. \A b \in 0..MaxTravelTime : np[b] = dial[b] \cup {z.l : z \in {z \in labels : z.d = b}}
  BY <1>3
<1>9. np \in Buckets
  BY <1>3, <1>4 DEF Buckets
<1>10. ASSUME NEW y \in AllLocations(tt)
       PROVE  nd[y] <= ds[y] /\ (nd[y] # ds[y] => y \in np[nd[y]])
  <2>1. nd[y] = MinOf(C(y))
    BY <1>3
  <2>2. nd[y] <= ds[y] /\ nd[y] \in C(y)
    BY <1>6, <2>1
  <2> HIDE DEF nd
  <2>3. ASSUME nd[y] # ds[y] PROVE y \in np[nd[y]]
    <3>1. PICK z \in labels : z.l = y /\ nd[y] = z.d
      BY <2>2, <2>3
    <3>2. nd[y] \in 0..MaxTravelTime
      BY <1>4, <3>1
    <3> HIDE DEF np
    <3> QED
      BY <1>8, <3>1, <3>2
  <2> QED
    BY <2>2, <2>3
<1>11. ASSUME NEW e \in Edges(l), d + e.duration <= MaxTravelTime
       PROVE  nd[e.target] <= d + e.duration
  <2> DEFINE y == e.target
  <2>1. y \in AllLocations(tt) /\ e.duration \in Nat /\ ds[y] \in Nat /\ nd[y] = MinOf(C(y))
    BY <1>2, <1>3
  <2>2. MinOf(C(y)) \in Nat /\ \A x \in C(y) : MinOf(C(y)) <= x
    BY <1>6, <2>1
  <2>3. CASE d + e.duration < ds[y]
    <3>1. \E z \in labels : z.l = y /\ z.d = d + e.duration
      BY <1>5, <1>11, <2>3 DEF Improves
    <3>2. d + e.duration \in C(y)
      BY <3>1
    <3> QED
      BY <2>1, <2>2, <3>2
  <2>4. CASE ds[y] <= d + e.duration
    <3>1. MinOf(C(y)) <= ds[y]
      BY <2>2
    <3> HIDE DEF y, nd, C
    <3>2. nd[y] <= d + e.duration
      BY <1>2, <2>1, <2>2, <2>4, <3>1
    <3> QED
      BY <3>2 DEF y
  <2> QED
    BY <1>2, <2>1, <2>3, <2>4
<1> HIDE DEF nd, np
<1> QED
  BY <1>1, <1>7, <1>8, <1>9, <1>10, <1>11

LEMMA AfterTopFacts ==
  ASSUME SearchState, dists \in Distances, pq \in Buckets, Relaxed(dists, pq), NEW l \in AllLocations(tt),
         NEW d \in 0..MaxTravelTime
  PROVE  LET a == AfterTop(l, d)
         IN  /\ a.dists \in Distances /\ a.pq \in Buckets /\ Relaxed(a.dists, a.pq)
             /\ \A y \in AllLocations(tt) : a.dists[y] <= dists[y]
<1> DEFINE popped == [pq EXCEPT ![d] = @ \ {l}]
           a == AfterTop(l, d)
<1>1. popped \in Buckets /\ \A b \in 0..MaxTravelTime : popped[b] = IF b = d THEN pq[b] \ {l} ELSE pq[b]
  BY DEF Buckets
<1>2. /\ MaxTravelTime \in Nat /\ d \in Nat /\ (\A y \in AllLocations(tt) : dists[y] \in Nat)
      /\ \A y \in AllLocations(tt) : \A e \in Edges(y) : e.target \in AllLocations(tt) /\ e.duration \in Nat
  BY SearchFacts DEF Edge, Distances
<1>3. CASE dists[l] < d
  <2>1. a.dists = dists /\ a.pq = popped
    BY <1>3 DEF AfterTop
  <2> HIDE DEF popped, a
  <2>2. ASSUME NEW y \in AllLocations(tt), dists[y] <= MaxTravelTime
        PROVE  y \in popped[dists[y]] \/ EdgesRelaxed(dists, y)
    <3>1. CASE y \in pq[dists[y]]
      <4>1. dists[y] \in 0..MaxTravelTime
        BY <1>2, <2>2
      <4>2. y = l => dists[y] # d
        BY <1>2, <1>3
      <4> QED
        BY <1>1, <3>1, <4>1, <4>2
    <3>2. CASE EdgesRelaxed(dists, y)
      BY <3>2
    <3> QED
      BY <2>2, <3>1, <3>2 DEF Relaxed
  <2>3. Relaxed(a.dists, a.pq)
    BY <2>1, <2>2 DEF Relaxed
  <2> QED
    BY <1>1, <1>2, <2>1, <2>3 DEF a
<1>4. CASE ~(dists[l] < d)
  <2>1. a = Expanded(dists, popped, l, d)
    BY <1>4 DEF AfterTop
  <2> HIDE DEF popped, a
  <2>2. /\ a.dists \in Distances /\ a.pq \in Buckets
        /\ \A y \in AllLocations(tt) :
             /\ a.dists[y] <= dists[y]
             /\ a.dists[y] # dists[y] => y \in a.pq[a.dists[y]]
        /\ \A b \in 0..MaxTravelTime : popped[b] \subseteq a.pq[b]
        /\ \A e \in Edges(l) : d + e.duration <= MaxTravelTime => a.dists[e.target] <= d + e.duration
    BY <1>1, <2>1, ExpandedFacts
  <2>3. ASSUME NEW y \in AllLocations(tt), a.dists[y] <= MaxTravelTime, a.dists[y] = dists[y],
               ~(y \in a.pq[a.dists[y]])
        PROVE  EdgesRelaxed(a.dists, y)
    <3> SUFFICES ASSUME NEW e \in Edges(y), dists[y] + e.duration <= MaxTravelTime
                 PROVE  a.dists[e.target] <= dists[y] + e.duration
      BY <2>3 DEF EdgesRelaxed
    <3>1. /\ e.target \in AllLocations(tt) /\ e.duration \in Nat /\ dists[y] \in Nat
          /\ dists[e.target] \in Nat
      BY <1>2
    <3>2. a.dists[e.target] \in Nat /\ a.dists[e.target] <= dists[e.target]
      BY <2>2, <3>1 DEF Distances
    <3>3. CASE y = l
      <4>1. d <= dists[y] /\ d + e.duration <= MaxTravelTime
        BY <1>2, <1>4, <3>1, <3>3
      <4>2. a.dists[e.target] <= d + e.duration
        BY <2>2, <3>3, <4>1
      <4> QED
        BY <1>2, <3>1, <3>2, <4>1, <4>2
    <3>4. CASE y # l
      <4>1. dists[y] \in 0..MaxTravelTime
        BY <1>2, <2>3, <3>1
      <4>2. y \notin pq[dists[y]]
        BY <1>1, <2>2, <2>3, <3>4, <4>1
      <4>3. EdgesRelaxed(dists, y)
        BY <2>3, <4>1, <4>2 DEF Relaxed
      <4>4. dists[e.target] <= dists[y] + e.duration
        BY <4>3 DEF EdgesRelaxed
      <4> QED
        BY <3>1, <3>2, <4>4
    <3> QED
      BY <3>3, <3>4
  <2>4. Relaxed(a.dists, a.pq)
    BY <2>2, <2>3 DEF Relaxed
  <2> QED
    BY <2>2, <2>4 DEF a
<1> QED
  BY <1>3, <1>4

-----------------------------------------------------------------------------
(***************************************************************************)
(* The inductive invariant: the real-time graph has a way for each segment *)
(* of the current transports, the destinations are reached and edges wait  *)
(* only at locations that are still in the dial. Once the search is done,  *)
(* the bounds were handed down from distances with nothing left to relax.  *)
(***************************************************************************)
GraphInv ==
  /\ StaticState
  /\ rtt \in Graph(tt)
  /\ \A x \in DOMAIN rts : IsTransport(rts[x]) /\ CoversAll(rtt, rts[x])

TypeInv ==
  /\ query \in Queries(tt) \cup {NoQuery}
  /\ pq \in Buckets /\ dists \in Distances
  /\ done \in BOOLEAN /\ (done => query # NoQuery)

SearchInv == query # NoQuery /\ ~done => Reached(dists) /\ Relaxed(dists, pq)

DoneInv ==
  done => \E ds \in Distances :
            /\ Closed(ds) /\ Reached(ds)
            /\ \A l \in AllLocations(tt) : dists[l] <= ds[get_root_idx(tt, l)]

LowerBoundsInv == GraphInv /\ TypeInv /\ SearchInv /\ DoneInv

LEMMA QueriesAreNoNoQuery ==
  ASSUME tt \in Networks
  PROVE  NoQuery \notin Queries(tt)
<1> SUFFICES ASSUME NoQuery \in Queries(tt) PROVE FALSE
  OBVIOUS
<1>1. NoQuery.mode \in {"exact", "intermodal", "only_children", "equivalent"}
  BY NetworksAssumption DEF IsQuery
<1> QED
  BY <1>1 DEF NoQuery

LEMMA SearchStateHolds ==
  ASSUME DefaultProfileAsked, LowerBoundsInv, query # NoQuery
  PROVE  SearchState
BY DEF DefaultProfileAsked, LowerBoundsInv, GraphInv, TypeInv, SearchState, StaticState

LEMMA InitInv ==
  ASSUME Init
  PROVE  LowerBoundsInv
<1>1. tt \in Networks /\ query = NoQuery /\ ~done /\ done \in BOOLEAN /\ rts = <<>>
  BY DEF Init
<1>2. StaticState
  BY DEF Init, StaticState
<1>3. rtt \in Graph(tt)
  <2>1. [d \in Directions |-> [l \in AllLocations(tt) |-> FALSE]] \in [Directions -> [AllLocations(tt) -> BOOLEAN]]
    OBVIOUS
  <2>2. NoEdges(tt) \in [Directions -> [AllLocations(tt) -> SUBSET Edge(tt)]]
    BY DEF NoEdges
  <2>3. rtt = [has_edges |-> [d \in Directions |-> [l \in AllLocations(tt) |-> FALSE]], graph |-> NoEdges(tt)]
    BY DEF Init
  <2> DEFINE none == [d \in Directions |-> [l \in AllLocations(tt) |-> FALSE]]
  <2> HIDE DEF none
  <2>4. none \in [Directions -> [AllLocations(tt) -> BOOLEAN]] /\ rtt = [has_edges |-> none, graph |-> NoEdges(tt)]
    BY <2>1, <2>3 DEF none
  <2> QED
    BY <2>2, <2>4 DEF Graph
<1>4. pq \in Buckets /\ dists \in Distances
  BY DEF Init, EmptyDial, Buckets, Distances, Infinity
<1>5. \A x \in DOMAIN rts : FALSE
  BY <1>1
<1> QED
  BY <1>1, <1>2, <1>3, <1>4, <1>5 DEF LowerBoundsInv, GraphInv, TypeInv, SearchInv, DoneInv

\* Nothing that the graphs and the search's inputs consist of changes.
LEMMA GraphInvKept ==
  ASSUME GraphInv, UNCHANGED <<tt, lb_graph, rts, rtt>>
  PROVE  GraphInv' /\ Distances' = Distances /\ Buckets' = Buckets
<1>1. tt' = tt /\ lb_graph' = lb_graph /\ rts' = rts /\ rtt' = rtt
  OBVIOUS
<1>2. StaticState'
  BY <1>1 DEF GraphInv, StaticState
<1>3. Distances' = Distances /\ Buckets' = Buckets
  BY <1>1 DEF Distances, Buckets, AllLocations
<1>4. \A rt : IsTransport(rt)' <=> IsTransport(rt)
  BY <1>1 DEF IsTransport
<1>5. \A g, rt : CoversAll(g, rt)' <=> CoversAll(g, rt)
  BY <1>1 DEF CoversAll, Covers, SegmentHasWays, HasWay, Ways
<1>6. (\A x \in DOMAIN rts : IsTransport(rts[x]) /\ CoversAll(rtt, rts[x]))'
  BY <1>1, <1>4, <1>5 DEF GraphInv
<1>7. (rtt \in Graph(tt))'
  BY <1>1 DEF GraphInv
<1> QED
  BY <1>2, <1>3, <1>6, <1>7 DEF GraphInv

LEMMA ClosedKept ==
  ASSUME UNCHANGED <<tt, lb_graph, rtt, query>>
  PROVE  /\ \A ds : Closed(ds)' <=> Closed(ds)
         /\ \A ds : Reached(ds)' <=> Reached(ds)
         /\ \A ds, dial : Relaxed(ds, dial)' <=> Relaxed(ds, dial)
BY DEF Closed, Reached, Relaxed, EdgesRelaxed, Edges, AllLocations

LEMMA UpdateLbsInv ==
  ASSUME LowerBoundsInv, UpdateLbs
  PROVE  LowerBoundsInv'
<1>1. PICK u \in RtUpdates(tt) : rts' = u /\ rtt' = update_lbs(u)
  BY DEF UpdateLbs
<1>2. query = NoQuery /\ ~done /\ UNCHANGED <<tt, lb_graph, query, pq, dists, done>>
  BY DEF UpdateLbs, LowerBoundsInv, TypeInv
<1>3. StaticState /\ StaticState'
  BY <1>2 DEF LowerBoundsInv, GraphInv, StaticState
<1>4. IsRtUpdate(tt, u)
  BY <1>3, NetworksAssumption DEF StaticState
<1>5. /\ update_lbs(u) \in Graph(tt)
      /\ \A x \in DOMAIN u : IsTransport(u[x]) /\ CoversAll(update_lbs(u), u[x])
  <2>1. \A x \in DOMAIN u : IsTransport(u[x])
    BY <1>4 DEF IsRtUpdate, IsTransport, Range
  <2> QED
    BY <1>3, <1>4, <2>1, UpdateLbsFacts DEF LowerBoundsInv, GraphInv
<1>6. (\A rt : IsTransport(rt)' <=> IsTransport(rt)) /\ \A g, rt : CoversAll(g, rt)' <=> CoversAll(g, rt)
  BY <1>2 DEF IsTransport, CoversAll, Covers, SegmentHasWays, HasWay, Ways
<1> DEFINE h == update_lbs(u)
<1>7. GraphInv'
  <2>1. (rtt \in Graph(tt))'
    BY <1>1, <1>2, <1>5
  <2>2. h \in Graph(tt) /\ rtt' = h /\ rts' = u /\ \A x \in DOMAIN u : IsTransport(u[x]) /\ CoversAll(h, u[x])
    BY <1>1, <1>5
  <2> HIDE DEF h
  <2>3. (\A x \in DOMAIN rts : IsTransport(rts[x]) /\ CoversAll(rtt, rts[x]))'
    BY <1>6, <2>2
  <2> QED
    BY <1>3, <2>1, <2>3 DEF GraphInv
<1>8. TypeInv'
  BY <1>2 DEF LowerBoundsInv, TypeInv, Buckets, Distances, AllLocations
<1> QED
  BY <1>2, <1>7, <1>8 DEF LowerBoundsInv, SearchInv, DoneInv

LEMMA DijkstraInv ==
  ASSUME LowerBoundsInv, NEW q \in Queries(tt), Dijkstra(q)
  PROVE  LowerBoundsInv'
<1>1. /\ query = NoQuery /\ query' = q /\ ~done
      /\ pq' = FirstBuckets(q) /\ dists' = FirstDistances(q)
      /\ UNCHANGED <<tt, lb_graph, rts, rtt, updates, done>>
  BY DEF Dijkstra, FirstBuckets, FirstDistances, Pushed, LowerBoundsInv, TypeInv
<1>2. StaticState
  BY DEF LowerBoundsInv, GraphInv
<1>3. /\ FirstBuckets(q) \in Buckets /\ FirstDistances(q) \in Distances
      /\ \A l \in AllLocations(tt) :
           FirstDistances(q)[l] <= MaxTravelTime => l \in FirstBuckets(q)[FirstDistances(q)[l]]
      /\ \A o \in q.destination : \A l \in AllLocations(tt) :
           l \in for_each_meta(tt, q.mode, o.target) => FirstDistances(q)[get_root_idx(tt, l)] <= o.duration
  BY <1>2, StartFacts
<1>4. GraphInv' /\ Distances' = Distances /\ Buckets' = Buckets
  BY <1>1, GraphInvKept DEF LowerBoundsInv
<1>5. q # NoQuery
  BY <1>2, QueriesAreNoNoQuery DEF StaticState
<1> PICK b, ds : b = FirstBuckets(q) /\ ds = FirstDistances(q)
  OBVIOUS
<1>6. b \in Buckets /\ ds \in Distances /\ pq' = b /\ dists' = ds
  BY <1>1, <1>3
<1>7. Relaxed(dists, pq)'
  <2>1. \A l \in AllLocations(tt) : ds[l] <= MaxTravelTime => l \in b[ds[l]]
    BY <1>3
  <2> QED
    BY <1>1, <1>6, <2>1 DEF Relaxed, AllLocations
<1>8. Reached(dists)'
  <2>1. \A o \in q.destination : \A l \in AllLocations(tt) :
          l \in for_each_meta(tt, q.mode, o.target) => ds[get_root_idx(tt, l)] <= o.duration
    BY <1>3
  <2> QED
    BY <1>1, <1>6, <2>1 DEF Reached, AllLocations
<1>9. done \in BOOLEAN /\ done' = done /\ query' \in Queries(tt') /\ query' # NoQuery
  BY <1>1, <1>5 DEF LowerBoundsInv, TypeInv
<1>10. TypeInv'
  BY <1>4, <1>6, <1>9 DEF TypeInv
<1> QED
  BY <1>1, <1>4, <1>7, <1>8, <1>10 DEF LowerBoundsInv, SearchInv, DoneInv

LEMMA PopInv ==
  ASSUME DefaultProfileAsked, LowerBoundsInv, Pop
  PROVE  LowerBoundsInv'
<1>1. /\ query # NoQuery /\ ~done /\ ~IsEmpty(pq)
      /\ UNCHANGED <<tt, lb_graph, rts, rtt, updates, query, done>>
  BY DEF Pop
<1> DEFINE d == TopBucket(pq)
<1>2. PICK l \in pq[d] : dists' = AfterTop(l, d).dists /\ pq' = AfterTop(l, d).pq
  BY DEF Pop
<1>3. SearchState /\ dists \in Distances /\ pq \in Buckets /\ Reached(dists) /\ Relaxed(dists, pq)
  BY <1>1, SearchStateHolds DEF LowerBoundsInv, TypeInv, SearchInv
<1>4. d \in 0..MaxTravelTime
  <2> DEFINE S == {b \in DOMAIN pq : pq[b] # {}}
  <2>1. DOMAIN pq = 0..MaxTravelTime /\ S # {} /\ S \in SUBSET Nat
    BY <1>1, <1>3 DEF Buckets, IsEmpty
  <2>2. d = MinOf(S)
    BY DEF TopBucket
  <2> HIDE DEF S, d
  <2>3. d \in S
    BY <2>1, <2>2, MinOfFacts
  <2> QED
    BY <2>1, <2>3 DEF S
<1>5. l \in AllLocations(tt)
  BY <1>2, <1>3, <1>4 DEF Buckets
<1> PICK nd, np : nd = AfterTop(l, d).dists /\ np = AfterTop(l, d).pq
  OBVIOUS
<1> HIDE DEF d
<1>6. /\ nd \in Distances /\ np \in Buckets /\ Relaxed(nd, np)
      /\ \A y \in AllLocations(tt) : nd[y] <= dists[y]
  BY <1>3, <1>4, <1>5, AfterTopFacts
<1>7. dists' = nd /\ pq' = np
  BY <1>2
<1>8. Reached(nd)
  <2> SUFFICES ASSUME NEW o \in query.destination, NEW y \in AllLocations(tt),
                      y \in for_each_meta(tt, query.mode, o.target)
               PROVE  nd[get_root_idx(tt, y)] <= o.duration
    BY DEF Reached
  <2>1. get_root_idx(tt, y) \in AllLocations(tt)
    BY StaticFacts, RootFacts, <1>3 DEF SearchState
  <2>2. dists[get_root_idx(tt, y)] <= o.duration
    BY <1>3 DEF Reached
  <2>3. o.duration \in Nat
    BY <1>3, SearchFacts DEF IsQuery
  <2> QED
    BY <1>3, <1>6, <2>1, <2>2, <2>3 DEF Distances
<1>9. /\ \A x : Reached(x)' <=> Reached(x)
      /\ \A x, dial : Relaxed(x, dial)' <=> Relaxed(x, dial)
  BY <1>1, ClosedKept
<1>10. Reached(dists)' /\ Relaxed(dists, pq)'
  BY <1>6, <1>7, <1>8, <1>9
<1>11. GraphInv' /\ Distances' = Distances /\ Buckets' = Buckets
  BY <1>1, GraphInvKept DEF LowerBoundsInv
<1>12. TypeInv'
  BY <1>1, <1>6, <1>7, <1>11 DEF LowerBoundsInv, TypeInv
<1> QED
  BY <1>1, <1>10, <1>11, <1>12 DEF LowerBoundsInv, SearchInv, DoneInv

LEMMA FinishInv ==
  ASSUME DefaultProfileAsked, StationsFirst, LowerBoundsInv, Finish
  PROVE  LowerBoundsInv'
<1>1. /\ query # NoQuery /\ ~done /\ IsEmpty(pq) /\ dists' = Inherited /\ done' = TRUE
      /\ UNCHANGED <<tt, lb_graph, rts, rtt, updates, query, pq>>
  BY DEF Finish
<1>2. SearchState /\ dists \in Distances /\ pq \in Buckets /\ Reached(dists) /\ Relaxed(dists, pq)
  BY <1>1, SearchStateHolds DEF LowerBoundsInv, TypeInv, SearchInv
<1>3. Closed(dists)
  <2> SUFFICES ASSUME NEW l \in AllLocations(tt), NEW e \in Edges(l), dists[l] + e.duration <= MaxTravelTime
               PROVE  dists[e.target] <= dists[l] + e.duration
    BY DEF Closed
  <2>1. dists[l] \in Nat /\ e.duration \in Nat /\ MaxTravelTime \in Nat
    BY <1>2, SearchFacts DEF Edge, Distances
  <2>2. dists[l] <= MaxTravelTime /\ dists[l] \in 0..MaxTravelTime
    BY <2>1
  <2>3. l \notin pq[dists[l]]
    BY <1>1, <1>2, <2>2 DEF IsEmpty, Buckets
  <2>4. EdgesRelaxed(dists, l)
    BY <1>2, <2>2, <2>3 DEF Relaxed
  <2> QED
    BY <2>4 DEF EdgesRelaxed
<1> PICK ds, nd : ds = dists /\ nd = Inherited
  OBVIOUS
<1>4. nd \in Distances /\ \A x \in AllLocations(tt) : nd[x] <= ds[get_root_idx(tt, x)]
  BY <1>2, InheritedFacts DEF SearchState
<1>5. (\A x : Closed(x)' <=> Closed(x)) /\ \A x : Reached(x)' <=> Reached(x)
  BY <1>1, ClosedKept
<1>6. GraphInv' /\ Distances' = Distances /\ Buckets' = Buckets
  BY <1>1, GraphInvKept DEF LowerBoundsInv
<1>7. TypeInv'
  BY <1>1, <1>4, <1>6 DEF LowerBoundsInv, TypeInv
<1>8. DoneInv'
  <2>1. ds \in Distances /\ Closed(ds) /\ Reached(ds)
    BY <1>2, <1>3
  <2>2. (ds \in Distances)' /\ Closed(ds)' /\ Reached(ds)'
    BY <1>5, <1>6, <2>1
  <2>3. \A l \in AllLocations(tt') : dists'[l] <= ds[get_root_idx(tt', l)]
    BY <1>1, <1>4
  <2> QED
    BY <2>2, <2>3 DEF DoneInv
<1> QED
  BY <1>1, <1>6, <1>7, <1>8 DEF LowerBoundsInv, SearchInv

LEMMA StutterInv ==
  ASSUME LowerBoundsInv, UNCHANGED vars
  PROVE  LowerBoundsInv'
<1>1. UNCHANGED <<tt, lb_graph, rts, rtt, updates, query, pq, dists, done>>
  BY DEF vars
<1>2. GraphInv' /\ Distances' = Distances /\ Buckets' = Buckets
  BY <1>1, GraphInvKept DEF LowerBoundsInv
<1>3. /\ \A x : Closed(x)' <=> Closed(x)
      /\ \A x : Reached(x)' <=> Reached(x)
      /\ \A x, dial : Relaxed(x, dial)' <=> Relaxed(x, dial)
  BY <1>1, ClosedKept
<1>4. TypeInv'
  BY <1>1, <1>2 DEF LowerBoundsInv, TypeInv
<1>5. SearchInv'
  BY <1>1, <1>3 DEF LowerBoundsInv, SearchInv
<1>6. DoneInv'
  <2>1. ASSUME done PROVE DoneInv'
    <3>1. PICK ds \in Distances : /\ Closed(ds) /\ Reached(ds)
                                  /\ \A l \in AllLocations(tt) : dists[l] <= ds[get_root_idx(tt, l)]
      BY <2>1 DEF LowerBoundsInv, DoneInv
    <3>2. (ds \in Distances)' /\ Closed(ds)' /\ Reached(ds)'
      BY <1>2, <1>3, <3>1
    <3>3. \A l \in AllLocations(tt') : dists'[l] <= ds[get_root_idx(tt', l)]
      BY <1>1, <3>1
    <3> QED
      BY <3>2, <3>3 DEF DoneInv
  <2> QED
    BY <1>1, <2>1 DEF DoneInv
<1> QED
  BY <1>2, <1>4, <1>5, <1>6 DEF LowerBoundsInv

LEMMA InvImpliesAdmissible ==
  ASSUME DefaultProfileAsked, LowerBoundsInv
  PROVE  Admissible
<1> SUFFICES ASSUME done, NEW l \in AllLocations(tt), Remaining[l] <= MaxTravelTime
             PROVE  dists[l] <= Remaining[l]
  BY DEF Admissible
<1>1. SearchState
  BY SearchStateHolds DEF LowerBoundsInv, TypeInv
<1>2. PICK ds \in Distances : /\ Closed(ds) /\ Reached(ds)
                              /\ \A x \in AllLocations(tt) : dists[x] <= ds[get_root_idx(tt, x)]
  BY DEF LowerBoundsInv, DoneInv
<1>3. ds[get_root_idx(tt, l)] <= Remaining[l] /\ dists[l] <= ds[get_root_idx(tt, l)]
  BY <1>1, <1>2, RemainingBounded
<1>4. dists[l] \in Nat /\ ds[get_root_idx(tt, l)] \in Nat
  BY <1>1, <1>2, StaticFacts, RootFacts DEF LowerBoundsInv, TypeInv, Distances, SearchState
<1>5. Remaining[l] \in Nat
  BY <1>1, <1>2, RemainingBounded
<1> QED
  BY <1>3, <1>4, <1>5

-----------------------------------------------------------------------------
(***************************************************************************)
(* Whatever real-time updates came before a query with the default         *)
(* profile, each segment of each current transport has a way in the graphs *)
(* of both directions, and a finished search left no edge that could still *)
(* improve a bound. (update_lbs, AddEdge and Pop; no run checks it.)       *)
(***************************************************************************)
THEOREM InvariantHolds == DefaultProfileAsked /\ StationsFirst => (Spec => []LowerBoundsInv)
<1> SUFFICES ASSUME DefaultProfileAsked, StationsFirst PROVE Spec => []LowerBoundsInv
  OBVIOUS
<1>1. Init => LowerBoundsInv
  BY InitInv
<1>2. LowerBoundsInv /\ [Next]_vars => LowerBoundsInv'
  <2> SUFFICES ASSUME LowerBoundsInv, [Next]_vars PROVE LowerBoundsInv'
    OBVIOUS
  <2>1. CASE UpdateLbs
    BY <2>1, UpdateLbsInv
  <2>2. CASE \E q \in Queries(tt) : Dijkstra(q)
    BY <2>2, DijkstraInv
  <2>3. CASE Pop
    BY <2>3, PopInv
  <2>4. CASE Finish
    BY <2>4, FinishInv
  <2>5. CASE UNCHANGED vars
    BY <2>5, StutterInv
  <2> QED
    BY <2>1, <2>2, <2>3, <2>4, <2>5 DEF Next
<1> QED
  BY <1>1, <1>2, PTL DEF Spec

(***************************************************************************)
(* No bound is higher than what any journey from the location takes:       *)
(* pruning with the bounds loses nothing.                                  *)
(***************************************************************************)
THEOREM BoundsAreAdmissible == DefaultProfileAsked /\ StationsFirst => (Spec => []Admissible)
<1> SUFFICES ASSUME DefaultProfileAsked, StationsFirst PROVE Spec => []Admissible
  OBVIOUS
<1>1. LowerBoundsInv => Admissible
  BY InvImpliesAdmissible
<1>2. Spec => []LowerBoundsInv
  BY InvariantHolds
<1> QED
  BY <1>1, <1>2, PTL

=============================================================================
