------------------------------- MODULE Networks -------------------------------
(***************************************************************************)
(* Small networks of four locations.                                       *)
(***************************************************************************)
EXTENDS RaptorRounds

L == 1..4
\* A stop where everybody can get on and off.
At(l) == [loc |-> l, in |-> TRUE, out |-> TRUE, in_wheelchair |-> TRUE, out_wheelchair |-> TRUE]
Events(m) == 0..2 * m - 3
AllFlags(m) == [f \in {"bike", "wheelchair"} |-> 1..m - 1]

\* A list of event times as the times of a transport.
Times(e) == [i \in 0..Len(e) - 1 |-> e[i + 1]]

Route(stops, times, dayss) ==
  [stops |-> [i \in DOMAIN stops |-> At(stops[i])], times |-> [i \in DOMAIN times |-> Times(times[i])],
   days |-> dayss, route_days |-> UNION {dayss[i] : i \in DOMAIN dayss},
   clasz |-> "bus", sections |-> AllFlags(Len(stops))]

RtTransport(stops, times) ==
  [stops |-> [i \in DOMAIN stops |-> At(stops[i])], times |-> Times(times),
   clasz |-> "bus", sections |-> AllFlags(Len(stops))]

(***************************************************************************)
(* The shortest durations to the destination, whenever transports leave,   *)
(* from the fixpoint of all edges.                                         *)
(***************************************************************************)
Edges(m, dir) ==
  LET edge(r, i, d) == IF dir = 1 THEN [from |-> r.stops[i].loc, to |-> r.stops[i + 1].loc, d |-> d]
                       ELSE [from |-> r.stops[i + 1].loc, to |-> r.stops[i].loc, d |-> d]
      ride(e, i) == e[ArrivalOf(i + 1)] - e[DepartureOf(i)]
      least(S) == CHOOSE x \in S : \A y \in S : x <= y
  IN  UNION {{edge(m.routes[x], i, least({ride(m.routes[x].times[t], i) : t \in DOMAIN m.routes[x].times})) :
                i \in 1..Len(m.routes[x].stops) - 1} : x \in DOMAIN m.routes}
      \cup UNION {{edge(m.rt_transports[x], i, ride(m.rt_transports[x].times, i)) :
                i \in 1..Len(m.rt_transports[x].stops) - 1} : x \in DOMAIN m.rt_transports}
      \cup {[from |-> IF dir = 1 THEN fp.from ELSE fp.to, to |-> IF dir = 1 THEN fp.to ELSE fp.from,
             d |-> fp.duration] : fp \in m.footpaths}
      \cup UNION {{[from |-> l, to |-> m.td_out[l][i].target, d |-> m.td_out[l][i].duration] :
                i \in DOMAIN m.td_out[l]} : l \in IF dir = 1 THEN L ELSE {}}
      \cup UNION {{[from |-> l, to |-> m.td_in[l][i].target, d |-> m.td_in[l][i].duration] :
                i \in DOMAIN m.td_in[l]} : l \in IF dir = -1 THEN L ELSE {}}

LowerBound(m, dir, ends) ==
  LET E == Edges(m, dir)
      least(S) == CHOOSE x \in S : \A y \in S : x <= y
      Longer(x) == {x} \cup {<<e.from, e.d + x[2]>> : e \in {e \in E : e.to = x[1]}}
      dists[i \in 0..4] ==
        IF i = 0 THEN {x \in {<<l, ends[l]>> : l \in DOMAIN ends} : x[2] # kUnreachable}
        ELSE UNION {Longer(x) : x \in dists[i - 1]}
      all == dists[4]
  IN  [l \in Nodes(m) |-> least({kUnreachable} \cup {x[2] : x \in {x \in all : x[1] = l}})]

Default == [default |-> TRUE, factor |-> 1, min |-> 0, additional |-> 0]

-----------------------------------------------------------------------------
Basic(fast, connection, rt, transfer, fps) ==
  [parents |-> [l \in L |-> 0], equivalences |-> [l \in L |-> {l}], generated_tracks |-> {},
   importance |-> [l \in L |-> IF l = 2 THEN 1 ELSE 0], max_importance |-> 1,
   transfer_time |-> [l \in L |-> IF l = 2 THEN transfer ELSE 1], footpaths |-> fps,
   td_out |-> [l \in L |-> <<>>], td_in |-> [l \in L |-> <<>>],
   routes |-> <<Route(<<1, 2, 3>>, <<<<1, 2, 2, fast>>, <<4, 5, 6, 7>>>>, <<{0}, {0, 1}>>),
                Route(<<2, 4>>, connection, <<{0}, {0}>>),
                Route(<<3, 4>>, <<<<7, 8>>>>, <<{0, 1}>>),
            Route(<<1, 4>>, <<<<1, 9>>, <<2, 11>>>>, <<{0}, {0}>>)>>,
   rt_transports |-> rt]

(***************************************************************************)
(* Vias on a line 1, 2, 3, 4 and a shortcut past them; one or two of them, *)
(* with and without a stay, the start among them.                          *)
(***************************************************************************)
ViaNetwork(tr, fps, last) ==
  [Basic(4, <<<<3, 4>>, <<6, 9>>>>, <<>>, tr, fps) EXCEPT
     !.routes = <<Route(<<1, 2, 3, 4>>, <<<<1, 2, 2, 3, 3, 4>>, <<4, 5, 6, 7, 7, 8>>>>, <<{0}, {0, 1}>>),
                  Route(<<2, 4>>, <<<<3, 4>>, <<last, last + 2>>>>, <<{0}, {0}>>),
                  Route(<<3, 2, 4>>, <<<<4, 6, 6, 9>>, <<8, 10, 10, 13>>>>, <<{0}, {0}>>)>>]

\* A way to target that is open from one time to another.
Open(target, from, to, d) ==
  <<[target |-> target, valid_from |-> -50, duration |-> kMaxDuration],
    [target |-> target, valid_from |-> from, duration |-> d],
    [target |-> target, valid_from |-> to, duration |-> kMaxDuration]>>


\* Footpaths from 2 to 3 and from 3 to 4 that are closed for some time.
TdNetwork(from, to, d, fps) ==
  [ViaNetwork(1, fps, 8) EXCEPT
     !.td_out[2] = Open(3, from, to, d), !.td_in[3] = Open(2, from, to, d),
     !.td_out[3] = Open(4, from, to + 2, 1), !.td_in[4] = Open(3, from, to + 2, 1)]

-----------------------------------------------------------------------------
(***************************************************************************)
(* Queries on the small networks, with one interesting thing each.         *)
(***************************************************************************)

Query(m, dir, dest) ==
  [dir |-> dir, intermodal |-> FALSE, is_dest |-> {dest},
   dist_to_end |-> [l \in L |-> kUnreachable], td_dest |-> [l \in L |-> <<>>],
   vias |-> <<>>, claszes |-> {"bus"}, flags |-> {}, wheelchair |-> FALSE, td |-> FALSE,
   lb |-> LowerBound(m, dir, [l \in Nodes(m) |-> IF l = dest THEN 0 ELSE kUnreachable]),
   transfer |-> Default, max_transfers |-> 2, max_travel_time |-> 24]

Group(t, starts) == [time_at_start |-> t, starts |-> starts]
From(l, t) == Group(t, {[stop |-> l, time |-> t, v |-> 0]})

-----------------------------------------------------------------------------
BasicNetworks ==
  {Basic(fast, c, rt, tr, fps) :
     fast \in {4, 5}, c \in {<<<<3, 6>>, <<6, 9>>>>, <<<<2, 9>>, <<5, 10>>>>},
     rt \in {<<>>, <<RtTransport(<<2, 3, 4>>, <<5, 6, 7, 8>>)>>},
     tr \in {0, 1, 2},
     fps \in SUBSET {[from |-> 2, to |-> 3, duration |-> 2], [from |-> 3, to |-> 4, duration |-> 3]}}

BasicSearches ==
  {[n |-> m, q |-> [Query(m, 1, 4) EXCEPT !.max_transfers = mt],
    starts |-> <<From(1, 4), From(1, 2), From(1, 1)>>] : m \in BasicNetworks, mt \in {0, 1, 3}}
  \cup
  {[n |-> m, q |-> Query(m, -1, 1),
    starts |-> <<From(4, 8), From(4, 9), From(4, 28)>>] : m \in BasicNetworks}

-----------------------------------------------------------------------------
(***************************************************************************)
(* Vias on a line 1, 2, 3, 4 and a shortcut past them; one or two of them, *)
(* with and without a stay, the start among them.                          *)
(***************************************************************************)
Via(stops, stay) == [stops |-> stops, stay |-> stay]
ViaLists ==
  {<<Via(S, d)>> : S \in {{2}, {3}, {1}}, d \in {0, 1, 2}}
  \cup {<<Via(S, d), Via(T, e)>> : S \in {{2}, {3}}, T \in {{3}, {2, 3}}, d \in {0, 1}, e \in {0, 2}}

ViaNetworks ==
  {ViaNetwork(tr, fps, last) : tr \in {1}, last \in {6, 8},
     fps \in SUBSET {[from |-> 2, to |-> 3, duration |-> 1], [from |-> 3, to |-> 4, duration |-> 3]}}

\* A start at the first via has visited it, or spends the stay.
ViaStarts(vias, l, t, dir) ==
  Group(t, {[stop |-> l, time |-> t + dir * x[2], v |-> x[1]] :
              x \in IF l \in vias[1].stops THEN {<<1, vias[1].stay>>} \cup IF vias[1].stay = 0 THEN {} ELSE {<<0, 0>>}
                    ELSE {<<0, 0>>}})

Reversed(vias) == IF Len(vias) = 2 THEN <<vias[2], vias[1]>> ELSE vias

ViaSearches ==
  {[n |-> m, q |-> [Query(m, 1, 4) EXCEPT !.vias = vias, !.max_travel_time = 26],
    starts |-> <<ViaStarts(vias, 1, 4, 1), ViaStarts(vias, 1, 1, 1)>>] :
      m \in ViaNetworks, vias \in ViaLists}
  \cup
  {[n |-> m, q |-> [Query(m, -1, 1) EXCEPT !.vias = Reversed(vias), !.max_travel_time = 26],
    starts |-> <<From(4, 9), From(4, 28)>>] : m \in ViaNetworks, vias \in ViaLists}

-----------------------------------------------------------------------------
(***************************************************************************)
(* Intermodal destinations, also with durations that depend on the time.   *)
(***************************************************************************)
IntermodalQuery(m, dir, dist, td) ==
  [Query(m, dir, 4) EXCEPT
     !.intermodal = TRUE, !.is_dest = {kEnd},
     !.dist_to_end = [l \in L |-> IF l \in DOMAIN dist THEN dist[l] ELSE kUnreachable],
     !.td_dest = [l \in L |-> IF l \in DOMAIN td THEN td[l] ELSE <<>>],
     !.lb = LowerBound(m, dir,
              [l \in Nodes(m) |->
                 IF l \in DOMAIN dist THEN (IF l \in DOMAIN td THEN 0 ELSE dist[l])
                 ELSE IF l \in DOMAIN td \cup {kEnd} THEN 0 ELSE kUnreachable])]

Partial(f, S) == [x \in S |-> f[x]]

IntermodalSearches ==
  UNION {{[n |-> m, q |-> [IntermodalQuery(m, 1, Partial([l \in L |-> 6 - l], D), td) EXCEPT !.vias = vias],
           starts |-> <<From(1, 4), From(1, 1)>>] :
             D \in {{3}, {3, 4}, {}}, vias \in {<<>>, <<Via({2}, 1)>>, <<Via({3}, 1)>>, <<Via({3}, 0)>>},
             td \in {<<>>, [l \in {4} |-> Open(4, 9, 11, 1)], [l \in {2} |-> Open(2, 4, 5, 5)]}} :
         m \in ViaNetworks}
  \cup
  UNION {{[n |-> m, q |-> IntermodalQuery(m, -1, Partial([l \in L |-> l + 1], D), td),
           starts |-> <<From(4, 9), From(4, 28)>>] :
             D \in {{1}, {1, 2}, {}}, td \in {<<>>, [l \in {1} |-> Open(1, -2, 1, 1)]}} :
         m \in ViaNetworks}

-----------------------------------------------------------------------------
(***************************************************************************)
(* Footpaths that are closed for some time, in both of their directions;   *)
(* the static ones beside them count only at other stops.                  *)
(***************************************************************************)
TdNetworks ==
  {TdNetwork(from, to, d, fps) : from \in {2, 6}, to \in {7, 12}, d \in {0, 1},
     fps \in {{}, {[from |-> 2, to |-> 3, duration |-> 0], [from |-> 2, to |-> 4, duration |-> 1]}}}

TdSearches ==
  {[n |-> m, q |-> [Query(m, 1, 4) EXCEPT !.td = td], starts |-> <<From(1, 4), From(1, 1)>>] :
     m \in TdNetworks, td \in BOOLEAN}
  \cup
  {[n |-> m, q |-> [Query(m, -1, 1) EXCEPT !.td = td], starts |-> <<From(4, 7), From(4, 12)>>] :
     m \in TdNetworks, td \in BOOLEAN}

-----------------------------------------------------------------------------
(***************************************************************************)
(* Stops where only some can get on or off, sections without bikes, other  *)
(* classes, slower transfers.                                              *)
(***************************************************************************)
FilterNetworks ==
  {[m EXCEPT !.routes[1].stops[2] = stp, !.routes[1].sections = [@ EXCEPT !["bike"] = B],
             !.routes[2].clasz = c] :
     m \in {Basic(4, <<<<3, 6>>, <<6, 9>>>>, <<RtTransport(<<1, 3, 4>>, <<5, 6, 7, 8>>)>>, 0,
                  {[from |-> 2, to |-> 4, duration |-> 3]})},
     stp \in {[At(2) EXCEPT !.in = x, !.out = y, !.out_wheelchair = w, !.in_wheelchair = ~w] :
                x \in BOOLEAN, y \in BOOLEAN, w \in BOOLEAN},
     B \in SUBSET {1, 2}, c \in {"bus", "air"}}

FilteredQuery(m, dir, dest, flags, wheelchair, transfer) ==
  [Query(m, dir, dest) EXCEPT !.flags = flags, !.wheelchair = wheelchair, !.transfer = transfer]

Slower == [default |-> FALSE, factor |-> 2, min |-> 1, additional |-> 1]

FilterSearches ==
  {[n |-> m, q |-> FilteredQuery(m, 1, 4, flags, wheelchair, transfer),
    starts |-> <<From(1, 4), From(1, 1)>>] :
     m \in FilterNetworks, flags \in {{}, {"bike"}}, wheelchair \in BOOLEAN, transfer \in {Default, Slower}}
  \cup
  {[n |-> m, q |-> FilteredQuery(m, -1, 1, flags, wheelchair, transfer),
    starts |-> <<From(4, 9), From(4, 28)>>] :
     m \in FilterNetworks, flags \in {{}, {"bike"}}, wheelchair \in BOOLEAN, transfer \in {Default}}

\* Two stops can be started at, one of them is nearer.
BothFrom(t, far) == Group(t, {[stop |-> 1, time |-> t, v |-> 0], [stop |-> 2, time |-> t + far, v |-> 0]})

OffsetSearches ==
  {[n |-> m, q |-> Query(m, 1, 4), starts |-> <<BothFrom(4, far), BothFrom(2, far), BothFrom(1, far)>>] :
     m \in BasicNetworks, far \in {1, 5}}

\* Times up to, and beyond, what a label can hold.
Shifted(m) ==
  [m EXCEPT !.routes = [i \in DOMAIN @ |->
     [@[i] EXCEPT !.days = [x \in DOMAIN @ |-> {4}], !.route_days = {4}]]]
FarSearches ==
  {[n |-> Shifted(m), q |-> [Query(m, 1, 4) EXCEPT !.max_travel_time = 4],
    starts |-> <<From(1, 85), From(1, 84)>>] : m \in BasicNetworks}
=============================================================================
