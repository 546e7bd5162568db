-------------------------------- MODULE Import --------------------------------
(***************************************************************************)
(* build_footpaths, the part of finalize that relates what the sources     *)
(* have loaded: the links of tracks and between sources, the duplicates,   *)
(* one pair of routes after the other, and the footpaths of the timetable. *)
(***************************************************************************)
EXTENDS Footpaths

(***************************************************************************)
(* Transports that several feeds have, or one feed several times, are      *)
(* merged (merge_duplicates.cc): the days they share are taken from one of *)
(* the two, and its trips are pointed to the other one.                    *)
(*                                                                         *)
(* A feed f (see Footpaths) also has                                       *)
(*   routes : a sequence of [stops, times, days, clasz, flags], as in      *)
(*            Transports; stops are [loc, in, out, ...]                    *)
(*   trips  : for each trip the parts of transports it is, a set of        *)
(*            [t, from, to]; t is a pair <<route, position>>               *)
(*   intra_src, inter_src, merge_threshold : the options, the threshold by *)
(*            clasz                                                        *)
(* What changes is m = [days, ranges]: traffic days of the transports and  *)
(* trip_transport_ranges_.                                                 *)
(***************************************************************************)

kEqDist == 600

TransportsOf(f) == UNION {{<<r, pos>> : pos \in DOMAIN f.routes[r].times} : r \in DOMAIN f.routes}
Before(f) == [t \in TransportsOf(f) |-> f.routes[t[1]].days[t[2]]]
TimesOf(f, t) == f.routes[t[1]].times[t[2]]
TripsOf(f, t) == {trp \in DOMAIN f.trips : \E x \in f.trips[trp] : x.t = t}

-----------------------------------------------------------------------------
\* Which routes can have duplicates of each other.
RootAt(f, r, i) == get_root_idx(f, f.routes[r].stops[i].loc)
FirstRoot(f, r) == RootAt(f, r, 1)
NStops(f, r) == Len(f.routes[r].stops)

RouteStarts(f) ==
  {r \in DOMAIN f.routes : ~IsDummy(f, FirstRoot(f, r)) /\ ~IsNullIsland(f, FirstRoot(f, r))}

AreNeighbours(f, a, b) == a # b /\ distance(f, a, b) <= kEqDist

seq_matches(f, a, b) ==
  \A i \in 1..NStops(f, a) :
    RootAt(f, a, i) = RootAt(f, b, i) \/ AreNeighbours(f, RootAt(f, a, i), RootAt(f, b, i))

route_src(f, r) == f.src[f.routes[r].stops[1].loc]

\* Passengers and luggage alike: flags of the route and its sections, and
\* who can get on and off.
attrs_match(f, a, b) ==
  /\ f.routes[a].flags = f.routes[b].flags
  /\ \A i \in 1..NStops(f, a) :
       [f.routes[a].stops[i] EXCEPT !.loc = 0] = [f.routes[b].stops[i] EXCEPT !.loc = 0]

MayMerge(f, a, b) ==
  /\ NStops(f, a) = NStops(f, b)
  /\ IF route_src(f, a) = route_src(f, b) THEN f.intra_src /\ attrs_match(f, a, b) ELSE f.inter_src
  /\ seq_matches(f, a, b)

(***************************************************************************)
(* Pairs of routes in the order they are compared: within a root, then     *)
(* with its neighbours of a higher index.                                  *)
(***************************************************************************)
ComparedBefore(f, p, o) ==
  LET key(x) == <<FirstRoot(f, x[1]), FirstRoot(f, x[2]), NStops(f, x[1]), x[1], x[2]>>
  IN  \E i \in 1..5 : key(p)[i] < key(o)[i] /\ \A j \in 1..i - 1 : key(p)[j] = key(o)[j]

RoutePairs(f) ==
  LET order(p) == FirstRoot(f, p[1]) < FirstRoot(f, p[2])
                    \/ (FirstRoot(f, p[1]) = FirstRoot(f, p[2]) /\ p[1] <= p[2])
      near(p) == FirstRoot(f, p[1]) = FirstRoot(f, p[2])
                   \/ AreNeighbours(f, FirstRoot(f, p[1]), FirstRoot(f, p[2]))
  IN  SetToSortSeq({p \in RouteStarts(f) \X RouteStarts(f) :
                      order(p) /\ near(p) /\ MayMerge(f, p[1], p[2])},
                   LAMBDA p, o : ComparedBefore(f, p, o))

-----------------------------------------------------------------------------
AbsoluteDelta(a, b) == IF a < b THEN b - a ELSE a - b

Threshold(f, ra, rb) ==
  Min({f.merge_threshold[f.routes[ra].clasz], f.merge_threshold[f.routes[rb].clasz]})
Budget(f, ra, rb) == 2 * (NStops(f, ra) - 1) * Threshold(f, ra, rb)

\* The deltas of all events together are within the budget.
is_duplicate(f, a, b) ==
  LET delta == FoldSet(LAMBDA e, sum : sum + AbsoluteDelta(TimesOf(f, a)[e], TimesOf(f, b)[e]),
                       0, DOMAIN TimesOf(f, a))
  IN  delta <= Budget(f, a[1], b[1])

\* repoint_trips: those of the transport itself.
RepointTrips(f, ranges, from, to) ==
  [trp \in DOMAIN ranges |->
     IF trp \in TripsOf(f, from)
       THEN {IF x.t = from THEN [x EXCEPT !.t = to] ELSE x : x \in ranges[trp]}
       ELSE ranges[trp]]

\* Trips of a also are what they are on b.
AlsoPointTrips(f, ranges, a, b) ==
  [trp \in DOMAIN ranges |->
     IF trp \in TripsOf(f, a) /\ ~\E x \in ranges[trp] : x.t = b
       THEN ranges[trp] \cup {[x EXCEPT !.t = b] : x \in {x \in ranges[trp] : x.t = a}}
       ELSE ranges[trp]]

(***************************************************************************)
(* merge: a disappears if b has all of its days, or b if a has all of b's; *)
(* otherwise a keeps the days that b does not have.                        *)
(***************************************************************************)
\* Mutant: the trips of the one that disappears are not pointed to the other.
merge_NoRepoint(f, m, a, b) ==
  LET shared == m.days[a] \cap m.days[b]
  IN  IF m.days[a] = shared THEN [m EXCEPT !.days[a] = {}]
      ELSE IF m.days[b] = shared THEN [m EXCEPT !.days[b] = {}]
      ELSE [m EXCEPT !.days[a] = @ \ shared, !.ranges = AlsoPointTrips(f, @, a, b)]
merge(f, m, a, b) ==
  LET shared == m.days[a] \cap m.days[b]
  IN  IF m.days[a] = shared THEN [days |-> [m.days EXCEPT ![a] = {}],
                                  ranges |-> RepointTrips(f, m.ranges, a, b)]
      ELSE IF m.days[b] = shared THEN [days |-> [m.days EXCEPT ![b] = {}],
                                       ranges |-> RepointTrips(f, m.ranges, b, a)]
      ELSE [days |-> [m.days EXCEPT ![a] = @ \ shared],
            ranges |-> AlsoPointTrips(f, m.ranges, a, b)]

\* Duplicates are those of the input, merged is what is left of them.
MergePair(f, m, a, b) ==
  IF Before(f)[a] \cap Before(f)[b] # {} /\ is_duplicate(f, a, b)
       /\ m.days[a] \cap m.days[b] # {}
    THEN merge(f, m, a, b)
    ELSE m

(***************************************************************************)
(* merge_route_pair: for each transport of a those of b whose departure is *)
(* within the budget of its own. The departures of a route are in order,   *)
(* so the first one that is not too early is never left of the last one.   *)
(***************************************************************************)
Window(f, ra, rb, ai) ==
  LET dep(r, pos) == f.routes[r].times[pos][0]
      budget == Budget(f, ra, rb)
      tooEarly(bi) == \A x \in 1..bi : \E i \in 1..ai : dep(rb, x) + budget < dep(ra, i)
      first == IF ra = rb THEN ai + 1 ELSE 1
  IN  {bi \in first..Len(f.routes[rb].times) :
         /\ ~tooEarly(bi)
         /\ \A x \in first..bi : ~tooEarly(x) => dep(rb, x) <= dep(ra, ai) + budget}

\* Mutant: only transports with the same departure are compared.
merge_route_pair_SameDeparture(f, m, ra, rb) ==
  LET pairs == {p \in (DOMAIN f.routes[ra].times) \X (DOMAIN f.routes[rb].times) :
                  (ra = rb => p[1] < p[2])
                    /\ f.routes[ra].times[p[1]][0] = f.routes[rb].times[p[2]][0]}
  IN  FoldLeft(LAMBDA x, p : MergePair(f, x, <<ra, p[1]>>, <<rb, p[2]>>), m,
               SetToSortSeq(pairs, LAMBDA p, o : p[1] < o[1] \/ (p[1] = o[1] /\ p[2] < o[2])))
merge_route_pair(f, m, ra, rb) ==
  LET pairs == UNION {{ai} \X Window(f, ra, rb, ai) : ai \in DOMAIN f.routes[ra].times}
  IN  FoldLeft(LAMBDA x, p : MergePair(f, x, <<ra, p[1]>>, <<rb, p[2]>>), m,
               SetToSortSeq(pairs, LAMBDA p, o : p[1] < o[1] \/ (p[1] = o[1] /\ p[2] < o[2])))

-----------------------------------------------------------------------------
CONSTANT Feeds

VARIABLES
  f,
  fps,         \* preprocessing_footpaths_out_, later footpaths_out_
  fps_in,      \* footpaths_in_
  equivalences,
  m,           \* traffic days and trip_transport_ranges_
  todo,        \* the pairs of routes that are still to be compared
  pc

vars == <<f, fps, fps_in, equivalences, m, todo, pc>>

Init ==
  /\ f \in Feeds
  /\ fps = {} /\ fps_in = {} /\ equivalences = {}
  /\ m = [days |-> Before(f), ranges |-> f.trips]
  /\ todo = <<>>
  /\ pc = "read"

ReadStops ==
  /\ pc = "read" /\ pc' = "link"
  /\ \E deep \in BOOLEAN :
       /\ fps' = read_footpaths(f, deep)
       /\ equivalences' = read_equivalences(f, deep)
  /\ UNCHANGED <<f, fps_in, m, todo>>

AddLinks ==
  /\ pc = "link" /\ pc' = "merge"
  /\ fps' = link_nearby_stations(f, add_links_to_and_between_children(f, fps))
  /\ equivalences' = equivalences \cup NearbyEquivalences(f)
  /\ todo' = IF f.intra_src \/ f.inter_src THEN RoutePairs(f) ELSE <<>>
  /\ UNCHANGED <<f, fps_in, m>>

MergeRoutePair ==
  /\ pc = "merge" /\ todo # <<>>
  /\ m' = merge_route_pair(f, m, Head(todo)[1], Head(todo)[2])
  /\ todo' = Tail(todo)
  /\ UNCHANGED <<f, fps, fps_in, equivalences, pc>>

ConnectComponents ==
  /\ pc = "merge" /\ todo = <<>>
  /\ \E connected \in {connect_components(f, get_footpath_graph(fps))} :
       /\ fps' = connected.footpaths
       /\ pc' = IF connected.failed THEN "failed" ELSE "write"
  /\ UNCHANGED <<f, fps_in, equivalences, m, todo>>

WriteFootpaths ==
  /\ pc = "write" /\ pc' = "done"
  /\ fps' = write_footpaths(fps)
  /\ fps_in' = Reversed(write_footpaths(fps))
  /\ UNCHANGED <<f, equivalences, m, todo>>

Done == pc \in {"done", "failed"} /\ UNCHANGED vars

Next == ReadStops \/ AddLinks \/ MergeRoutePair \/ ConnectComponents \/ WriteFootpaths \/ Done

Spec == Init /\ [][Next]_vars

-----------------------------------------------------------------------------
(***************************************************************************)
(* Two transports are the same: they stop at the same stations or at ones  *)
(* that are near, at nearly the same times, and take the same passengers   *)
(* if they are of one source.                                              *)
(***************************************************************************)
Stops(t) == f.routes[t[1]].stops
Station(t, i) == get_root_idx(f, Stops(t)[i].loc)
Deltas(a, b) == FoldSet(LAMBDA e, sum : sum + AbsoluteDelta(TimesOf(f, a)[e], TimesOf(f, b)[e]),
                        0, DOMAIN TimesOf(f, a))
Class(t) == f.routes[t[1]].clasz
AreTheSame(a, b) ==
  LET sameSource == f.src[Stops(a)[1].loc] = f.src[Stops(b)[1].loc]
  IN  /\ a # b /\ Len(Stops(a)) = Len(Stops(b))
      /\ \A i \in DOMAIN Stops(a) : distance(f, Station(a, i), Station(b, i)) <= kEqDist
      /\ \A c \in {Class(a), Class(b)} :
           Deltas(a, b) <= f.merge_threshold[c] * Cardinality(DOMAIN TimesOf(f, a))
      /\ IF sameSource THEN f.intra_src ELSE f.inter_src
      /\ sameSource =>
           /\ f.routes[a[1]].flags = f.routes[b[1]].flags
           /\ \A i \in DOMAIN Stops(a) : /\ Stops(a)[i].in = Stops(b)[i].in
                                         /\ Stops(a)[i].out = Stops(b)[i].out

(***************************************************************************)
(* On every day on which a trip was loaded it is still found: one of its   *)
(* ranges is on its own transport or on the same one of another route, and *)
(* that runs on this day (repoint_trips; the test of merge_duplicates asks *)
(* it of two trips).                                                       *)
(***************************************************************************)
TripsStillRun ==
  \A trp \in DOMAIN f.trips : \A x \in f.trips[trp] : \A day \in Before(f)[x.t] :
    \E y \in m.ranges[trp] :
      /\ day \in m.days[y.t]
      /\ y.from = x.from /\ y.to = x.to
      /\ y.t = x.t \/ AreTheSame(x.t, y.t)

(***************************************************************************)
(* When all pairs of routes have been compared, no transports that are the *)
(* same run on the same day; and a transport lost a day only to another    *)
(* one, or to the one that one lost it to.                                 *)
(***************************************************************************)
HasPlace(t) == ~IsDummy(f, Station(t, 1)) /\ ~IsNullIsland(f, Station(t, 1))
NoDuplicateLeft ==
  pc = "write" =>
    \A a \in TransportsOf(f) :
      LET others == {b \in TransportsOf(f) : AreTheSame(a, b)}
      IN  /\ HasPlace(a) => \A b \in others : HasPlace(b) => m.days[a] \cap m.days[b] = {}
          /\ Before(f)[a] \ m.days[a] \subseteq
               UNION {m.days[c] : c \in others \cup UNION {{c \in TransportsOf(f) : AreTheSame(b, c)} :
                                                             b \in others}}

(***************************************************************************)
(* The footpaths of the timetable are closed: two of them one after the    *)
(* other are no quicker than the footpath between their ends (but for the  *)
(* minute that is rounded), if they are within the limit; stops of two     *)
(* sources that are next to each other are connected; from the track of a  *)
(* station one gets where one gets from the station; nobody walks more     *)
(* quickly than is possible. Before, no pair of stops has two footpaths;   *)
(* and the loader never gives up.                                          *)
(***************************************************************************)
IsLinked(a, b, time) ==
  \/ \E fp \in fps : Pair(fp) = <<a, b>> /\ fp.duration <= time
  \/ f.adjust_footpaths /\ distance(f, a, b) > kMaxWalkDistance
Rounding == IF f.adjust_footpaths THEN 1 ELSE 0

WalksAreClosed ==
  /\ pc # "failed"
  /\ pc = "merge" => LET graph == get_footpath_graph(fps) IN Cardinality(graph) = Cardinality(Pairs(graph))
  /\ pc = "done" =>
       /\ \A x, y \in fps :
            x.to = y.from /\ x.from # y.to /\ x.duration + y.duration < f.max_footpath_length
              => IsLinked(x.from, y.to, x.duration + y.duration + Rounding)
       /\ \A p \in Nearby(f, 300) :
            LET time == Max({transfer_time(f, p[1]), transfer_time(f, p[2]), 4})
            IN  time < f.max_footpath_length => IsLinked(p[1], p[2], time)
       /\ \A x \in fps : \A c \in Tracks(f, x.from) \ {x.to} :
            IsLinked(c, x.to, Max({x.duration, transfer_time(f, c)}))
       /\ \A x \in fps :
            /\ x.duration >= transfer_time(f, x.from) /\ x.duration >= transfer_time(f, x.to)
            /\ f.adjust_footpaths =>
                 (x.duration + 1) * kWalkSpeed > distance(f, x.from, x.to)

=============================================================================
