------------------------------ MODULE Footpaths ------------------------------
(***************************************************************************)
(* How the loader comes to the footpaths of a timetable: what the formats  *)
(* say (gtfs/stop.cc, hrd/stamm/station.cc, netex/load_timetable.cc), the  *)
(* links it adds for tracks and between sources, and the shortest ways     *)
(* over all of these (build_footpaths.cc).                                 *)
(*                                                                         *)
(* A feed f is a network (see Locations) with                              *)
(*   src, format      : the source of each location, 0 for the dummies;    *)
(*                      the format of each source                          *)
(*   pos              : metres along a line; 0 is null island              *)
(*   names            : "" if a stop has none                              *)
(*   transfer_time    : of each location, unless the transfers say more    *)
(*   transfers        : the rows of transfers.txt, [type, from, to, time]  *)
(*   hrd_footpaths    : rows [from, to, duration, f_equal]                 *)
(*   hrd_equivalent   : pairs of stations                                  *)
(*   link_stop_distance, default_transfer_time, max_footpath_length,       *)
(*   adjust_footpaths : the options                                        *)
(* A footpath is [from, to, duration].                                     *)
(***************************************************************************)
EXTENDS Locations, Sequences, FiniteSetsExt, SequencesExt

kWalkSpeed == 90                        \* metres per minute
kMaxWalkDistance == 255 * kWalkSpeed    \* what eight bits of minutes can say
kMaxDuration == 511                     \* of a footpath, nine bits

FP(a, b, d) == [from |-> a, to |-> b, duration |-> d]
Pair(fp) == <<fp.from, fp.to>>
Pairs(fps) == {Pair(fp) : fp \in fps}

distance(f, a, b) == IF f.pos[a] < f.pos[b] THEN f.pos[b] - f.pos[a] ELSE f.pos[a] - f.pos[b]
WalkRoundedUp(m) == (m + kWalkSpeed - 1) \div kWalkSpeed
WalkRounded(m) == (2 * m + kWalkSpeed) \div (2 * kWalkSpeed)
WalkRoundedDown(m) == m \div kWalkSpeed

IsDummy(f, l) == f.src[l] = 0
IsNullIsland(f, l) == f.pos[l] = 0
StopsOfFormat(f, format) ==
  {l \in AllLocations(f) : ~IsDummy(f, l) /\ f.format[f.src[l]] = format}
SameSource(f, l) == {x \in AllLocations(f) : f.src[x] = f.src[l]} \ f.generated_tracks

-----------------------------------------------------------------------------
\* read_transfers: the shortest time within a stop, the first one between two.
TransferRows(f) ==
  {i \in DOMAIN f.transfers : f.transfers[i].type \notin {"not_possible", "stay_seated"}}

transfer_time(f, l) ==
  LET own == {f.transfers[i].time :
                i \in {i \in TransferRows(f) : f.transfers[i].from = l /\ f.transfers[i].to = l}}
  IN  IF own = {} THEN f.transfer_time[l] ELSE Min(own)

Transfers(f) ==
  LET isFirst(i) == ~\E j \in TransferRows(f) : j < i /\ Pair(f.transfers[j]) = Pair(f.transfers[i])
  IN  {FP(f.transfers[i].from, f.transfers[i].to, f.transfers[i].time) :
         i \in {i \in TransferRows(f) : isFirst(i) /\ f.transfers[i].from # f.transfers[i].to}}

\* add_if_not_exists, for footpaths none of which has another duration than
\* the others of its pair.
AddIfNotExists(fps, new) == fps \cup {fp \in new : Pair(fp) \notin Pairs(fps)}

Reversed(fps) == {FP(fp.to, fp.from, fp.duration) : fp \in fps}

Symmetric(fps) == AddIfNotExists(fps, Reversed(fps))

(***************************************************************************)
(* get_metas: the stations around a stop and those of its name, with all   *)
(* that belongs to them, as far as it is near. The children of these are   *)
(* put into the set while a loop runs over it; whether it comes to the     *)
(* children of those is not determined (deep).                             *)
(***************************************************************************)
Close(f, l) ==
  IF f.link_stop_distance = 0 \/ IsNullIsland(f, l) THEN {}
  ELSE {x \in SameSource(f, l) : distance(f, l, x) <= f.link_stop_distance}

SameName(f, l) == {x \in SameSource(f, l) : f.names[x] # "" /\ f.names[x] = f.names[l]}

get_metas(f, l, deep) ==
  LET roots == {get_root_idx(f, x) : x \in {l} \cup SameName(f, l) \cup Close(f, l)}
      related == {x \in SameSource(f, l) : get_root_idx(f, x) \in roots}
      near == {x \in related :
                 /\ distance(f, l, x) <= 2000
                 /\ distance(f, l, x) <= 500 \/ f.parents[l] = x \/ f.parents[x] = l}
      below(S) == SameSource(f, l) \cap UNION {children(f, x) : x \in S}
  IN  near \cup below(near) \cup (IF deep THEN below(below(near)) ELSE {})

Metas(f, deep) ==
  LET walk(p) == FP(p[1], p[2], Max({2, WalkRoundedUp(distance(f, p[1], p[2]))}))
  IN  {fp \in {walk(p) : p \in UNION {{l} \X get_metas(f, l, deep) : l \in StopsOfFormat(f, "gtfs")}} :
         fp.duration <= kMaxDuration}

\* GTFS: the transfers, both ways, and walks where there is no transfer.
GtfsFootpaths(f, deep) ==
  AddIfNotExists(Symmetric(Transfers(f)), Metas(f, deep) \cup Reversed(Metas(f, deep)))

\* HRD: the shortest one of each pair, no less than the times to change.
HrdFootpaths(f) ==
  LET rows == Range(f.hrd_footpaths)
      shortest(p) == Min({r.duration : r \in {r \in rows : Pair(r) = p}})
  IN  {FP(p[1], p[2], Max({shortest(p), transfer_time(f, p[1]), transfer_time(f, p[2])})) :
         p \in Pairs(rows)}

\* NeTEx: every stop around, also the stop itself.
NetexFootpaths(f) ==
  UNION {{FP(l, x, Max({f.default_transfer_time, WalkRoundedUp(distance(f, l, x))})) :
            x \in {x \in SameSource(f, l) : distance(f, l, x) <= f.link_stop_distance}} :
         l \in {l \in StopsOfFormat(f, "netex") : ~IsNullIsland(f, l)}}

read_footpaths(f, deep) == GtfsFootpaths(f, deep) \cup HrdFootpaths(f) \cup NetexFootpaths(f)

read_equivalences(f, deep) ==
  Pairs(Metas(f, deep)) \cup Pairs(NetexFootpaths(f))
    \cup (f.hrd_equivalent \ Pairs({r \in Range(f.hrd_footpaths) : r.f_equal}))

-----------------------------------------------------------------------------
(***************************************************************************)
(* add_links_to_and_between_children: who can reach a station reaches its  *)
(* tracks, and from the tracks one gets where one gets from the station.   *)
(***************************************************************************)
Tracks(f, l) == children(f, l) \cap f.generated_tracks

\* Mutant: no way between the tracks of two stations.
LinksOf_StationOnly(f, fp) ==
  {FP(fp.from, c, fp.duration) : c \in Tracks(f, fp.to)}
    \cup {FP(c, fp.to, fp.duration) : c \in Tracks(f, fp.from)}
LinksOf(f, fp) ==
  {FP(fp.from, c, fp.duration) : c \in Tracks(f, fp.to)}
    \cup {FP(c, fp.to, fp.duration) : c \in Tracks(f, fp.from)}
    \cup {FP(p[1], p[2], fp.duration) : p \in Tracks(f, fp.from) \X children(f, fp.to)}

LinksWithin(f, parent) ==
  LET t == transfer_time(f, parent)
  IN  UNION {{FP(parent, c, t), FP(c, parent, t)}
               \cup {FP(c, x, t) : x \in children(f, parent) \ {c}} : c \in Tracks(f, parent)}

add_links_to_and_between_children(f, fps) ==
  fps \cup UNION {LinksOf(f, fp) : fp \in fps} \cup UNION {LinksWithin(f, l) : l \in AllLocations(f)}

\* link_nearby_stations: stops of different sources that are near.
Nearby(f, metres) ==
  {p \in AllLocations(f) \X AllLocations(f) :
     /\ ~IsDummy(f, p[1]) /\ ~IsDummy(f, p[2]) /\ f.src[p[1]] # f.src[p[2]]
     /\ ~IsNullIsland(f, p[1])
     /\ distance(f, p[1], p[2]) <= metres}

link_nearby_stations(f, fps) ==
  fps \cup {FP(p[1], p[2], Max({transfer_time(f, p[1]), transfer_time(f, p[2]),
                                WalkRounded(distance(f, p[1], p[2]))})) : p \in Nearby(f, 300)}

NearbyEquivalences(f) == {p \in Nearby(f, 300) : distance(f, p[1], p[2]) < 100}

-----------------------------------------------------------------------------
\* get_footpath_graph: of several footpaths of a pair any one may be kept, as
\* they are sorted by target alone. See WalksAreClosed: there are no several.
get_footpath_graph(fps) == {fp \in fps : fp.from # fp.to}

(***************************************************************************)
(* find_components: a search from every stop that has footpaths and is in  *)
(* no component yet. What it reaches is put into the new component, also   *)
(* if it was in one. 0 is no component.                                    *)
(***************************************************************************)
Targets(graph, S) == {fp.to : fp \in {fp \in graph : fp.from \in S}}
ReachedFrom(f, graph, l) ==
  FoldLeft(LAMBDA S, x : S \cup Targets(graph, S), {l}, [x \in AllLocations(f) |-> x])

find_components(f, graph) ==
  FoldLeft(LAMBDA comp, i :
             IF comp[i] # 0 \/ Targets(graph, {i}) = {} THEN comp
             ELSE LET reached == ReachedFrom(f, graph, i)
                  IN  [l \in AllLocations(f) |-> IF l \in reached THEN i ELSE comp[l]],
           [l \in AllLocations(f) |-> 0], [x \in AllLocations(f) |-> x])

Components(f, comp) ==
  {{l \in AllLocations(f) : comp[l] = i} : i \in {comp[l] : l \in AllLocations(f)} \ {0}}

\* The verification and the assertion of build_component_graph.
IsInvalid(graph, C) ==
  Cardinality(C) # 2 /\ (Cardinality(C) < 2 \/ ~(Targets(graph, C) \subseteq C))

-----------------------------------------------------------------------------
\* A conversion to eight bits drops the rest.
u8_minutes(duration) == duration % 256

\* Between two stops as quickly as the times to change allow.
AtLeastTransferTimes(f, fp) ==
  [fp EXCEPT !.duration =
     Max({u8_minutes(@), transfer_time(f, fp.from), transfer_time(f, fp.to)})]

\* adjust_to_walk_speed, where nothing is left of what is too far.
adjust_to_walk_speed(f, fps) ==
  IF ~f.adjust_footpaths THEN fps
  ELSE {[fp EXCEPT !.duration = Max({@, WalkRoundedDown(distance(f, fp.from, fp.to))})] :
          fp \in {fp \in fps : distance(f, fp.from, fp.to) <= kMaxWalkDistance}}

\* Two stops keep the footpaths they have; the first one of a stop counts.
process_2_node_component(f, graph, C) ==
  LET out(l) == {fp \in graph : fp.from = l}
      first(l) == CHOOSE fp \in out(l) : \A o \in out(l) : fp.to <= o.to
  IN  adjust_to_walk_speed(f,
        {AtLeastTransferTimes(f, FP(p[1], p[2], first(p[1]).duration)) :
           p \in {p \in C \X C : p[1] # p[2] /\ out(p[1]) # {}}})

build_component_graph(f, graph, C) ==
  LET edges == {AtLeastTransferTimes(f, fp) : fp \in {fp \in graph : fp.from \in C}}
  IN  edges \cup Reversed(edges)

\* The lengths of the shortest ways from l that are shorter than the limit.
Unreachable == 65535
dijkstra(f, edges, C, l) ==
  LET via(d, x) == {d[e.from] + e.duration : e \in {e \in edges : e.to = x}}
      relax(d) == [x \in C |-> Min({d[x]} \cup {t \in via(d, x) : t < f.max_footpath_length})]
  IN  FoldLeft(LAMBDA d, x : relax(d), [x \in C |-> IF x = l THEN 0 ELSE Unreachable],
               SetToSeq(C))

ShortestPaths(f, graph, C) ==
  LET edges == build_component_graph(f, graph, C)
      from(l) == LET d == dijkstra(f, edges, C, l)
                 IN  {FP(l, x, d[x]) : x \in {x \in C \ {l} : d[x] # Unreachable}}
  IN  adjust_to_walk_speed(f, {AtLeastTransferTimes(f, fp) : fp \in UNION {from(l) : l \in C}})

connect_components(f, graph) ==
  LET components == Components(f, find_components(f, graph))
  IN  [failed |-> \E C \in components : IsInvalid(graph, C),
       footpaths |-> UNION {IF Cardinality(C) = 2 THEN process_2_node_component(f, graph, C)
                            ELSE ShortestPaths(f, graph, C) : C \in components}]

\* One per target, the shortest, and the same ones seen from the target.
write_footpaths(fps) ==
  {fp \in fps : \A o \in fps : Pair(o) = Pair(fp) => fp.duration <= o.duration}

=============================================================================
