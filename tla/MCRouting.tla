------------------------------- MODULE MCRouting -------------------------------
(***************************************************************************)
(* Queries on the networks of four locations, from 1 to 4 or back.         *)
(***************************************************************************)
EXTENDS Routing, Networks

NoLimit == 999
AnInterval(from, to) == [from |-> from, to |-> to]
tt == AnInterval(0, 60)

At0(l) == {[target |-> l, duration |-> 0]}

\* Forward from 1 to 4, backward from 4 to 1.
UserQuery(d, iv) ==
  [start |-> At0(IF d = 1 THEN 1 ELSE 4), destination |-> At0(IF d = 1 THEN 4 ELSE 1),
   td_start |-> [l \in L |-> <<>>], td_dest |-> [l \in L |-> <<>>],
   start_match_mode |-> "exact", dest_match_mode |-> "exact", use_start_footpaths |-> TRUE,
   via_stops |-> <<>>, max_start_offset |-> kMaxTravelTime, transfer |-> Default, claszes |-> {"bus"},
   flags |-> {}, wheelchair |-> FALSE, td |-> FALSE, max_transfers |-> 2, max_travel_time |-> 24,
   fastest_direct |-> NoLimit, is_direct_known |-> FALSE, is_ontrip |-> FALSE, start_time |-> iv,
   min_connection_count |-> 0, extend_earlier |-> FALSE, extend_later |-> FALSE,
   max_interval |-> NoInterval, has_timeout |-> FALSE, slow_direct |-> TRUE, slow_factor |-> 2, direct_factor |-> 1]

Zero(m, dest, query) ==
  LET dist(l) ==
        IF dest.is_dest # {kEnd} THEN IF l \in dest.is_dest THEN 0 ELSE kUnreachable
        ELSE IF l = kEnd \/ query.td_dest[l] # <<>> THEN 0 ELSE dest.dist_to_end[l]
  IN  [l \in Nodes(m) |-> dist(l)]

Ask(driver, m, d, query) ==
  [driver |-> driver, n |-> m, dir |-> d, q |-> query, tt |-> tt,
   lb |-> LowerBound(m, d, Zero(m, collect_destinations(m, query), query))]

Walks == {[from |-> 2, to |-> 3, duration |-> 2], [from |-> 3, to |-> 4, duration |-> 3]}
ANetwork(fps, rt) == Basic(4, <<<<3, 6>>, <<6, 9>>>>, rt, 1, fps)
Late == <<RtTransport(<<2, 3, 4>>, <<5, 6, 7, 8>>)>>

Both == {[d |-> d, fps |-> fps, rt |-> rt] : d \in {1, -1}, fps \in {{}, Walks}, rt \in {<<>>, Late}}
Network(x) == ANetwork(x.fps, x.rt)

\* Short and empty stretches of the day, more journeys wanted, either way.
Ranges ==
  {Ask("search", Network(x), x.d,
       [UserQuery(x.d, iv) EXCEPT !.min_connection_count = c, !.extend_earlier = e[1],
          !.extend_later = e[2], !.has_timeout = c = 3, !.max_transfers = c]) :
     x \in Both, iv \in {AnInterval(3, 4), AnInterval(20, 22)}, c \in {0, 1, 3},
     e \in {<<FALSE, TRUE>>, <<TRUE, FALSE>>, <<TRUE, TRUE>>}}

OnTrip ==
  {Ask("search", Network(x), x.d, [UserQuery(x.d, AnInterval(t, t)) EXCEPT !.is_ontrip = TRUE,
          !.fastest_direct = direct, !.is_direct_known = TRUE]) :
     x \in Both, t \in {1, 3, 9, 28}, direct \in {5, NoLimit}}

Pongs ==
  {Ask("pong", Network(x), x.d,
       [UserQuery(x.d, iv) EXCEPT !.min_connection_count = c,
          !.extend_earlier = x.d = -1, !.extend_later = x.d = 1]) :
     x \in Both, iv \in {AnInterval(1, 2), AnInterval(3, 6), AnInterval(20, 32)}, c \in {0, 1, 3}}

\* Two changes, and more than one run in between.
Chain ==
  [Basic(4, <<<<3, 4>>>>, <<>>, 1, {[from |-> 2, to |-> 3, duration |-> 2]}) EXCEPT
     !.routes = <<Route(<<1, 2>>, <<<<1, 2>>, <<3, 4>>>>, <<{0}, {0, 1}>>),
                  Route(<<2, 3>>, <<<<4, 5>>, <<6, 6>>, <<7, 8>>>>, <<{0}, {0}, {0, 1}>>),
                  Route(<<3, 4>>, <<<<9, 11>>>>, <<{0, 1}>>)>>]
WithWalk(m, d) == [m EXCEPT !.footpaths = @ \cup {[from |-> 1, to |-> 4, duration |-> d]}]
Changes ==
  {Ask(driver, m, d, [UserQuery(d, AnInterval(1, 12)) EXCEPT !.extend_earlier = d = -1, !.extend_later = d = 1]) :
     m \in {Chain, [Chain EXCEPT !.footpaths = {}], WithWalk(Chain, 9), WithWalk(ANetwork(Walks, Late), 6)},
     driver \in {"search", "pong"}, d \in {1, -1}}

(***************************************************************************)
(* Any way to and from stops, of a fixed duration.                         *)
(***************************************************************************)
Offsets(f, S) == {[target |-> l, duration |-> f[l]] : l \in S}
Intermodal(d, near, far, iv) ==
  LET atFirst == {[target |-> 1, duration |-> near], [target |-> 2, duration |-> far]}
      atLast == {[target |-> 3, duration |-> far], [target |-> 4, duration |-> near]}
  IN  [UserQuery(d, iv) EXCEPT
         !.start = IF d = 1 THEN atFirst ELSE atLast, !.destination = IF d = 1 THEN atLast ELSE atFirst,
         !.start_match_mode = "intermodal", !.dest_match_mode = "intermodal",
         !.use_start_footpaths = FALSE]

DoorToDoor ==
  {Ask(driver, Network(x), x.d,
       [Intermodal(x.d, near, 4, iv) EXCEPT !.min_connection_count = 2,
          !.extend_earlier = x.d = -1, !.extend_later = x.d = 1]) :
     driver \in {"search", "pong"}, x \in Both, near \in {0, 2},
     iv \in {AnInterval(1, 3), AnInterval(20, 32)}}

(***************************************************************************)
(* Vias: on the way, at the start, two of them, with and without a stay.   *)
(***************************************************************************)
ViaAt(l, stay) == [location |-> l, stay |-> stay]
ViasAsked ==
  {<<ViaAt(l, d)>> : l \in {1, 2, 3}, d \in {0, 1}}
    \cup {<<ViaAt(2, d), ViaAt(3, e)>> : d \in {0, 1}, e \in {0, 2}}
    \cup {<<ViaAt(2, 1), ViaAt(2, 1)>>}

InDirection(d, vias) == IF d = 1 THEN vias ELSE Reverse(vias)

ViaQueries ==
  {Ask(driver, ViaNetwork(1, Walks, last), d,
       [UserQuery(d, iv) EXCEPT !.via_stops = InDirection(d, vias), !.min_connection_count = 2,
          !.extend_earlier = d = -1, !.extend_later = d = 1]) :
     driver \in {"search", "pong"}, last \in {6, 8}, d \in {1, -1},
     vias \in ViasAsked, iv \in {AnInterval(1, 3), AnInterval(20, 32)}}

DoorToDoorVias(near) ==
  {Ask("search", ViaNetwork(1, Walks, 8), d,
       [Intermodal(d, near, 3, iv) EXCEPT !.via_stops = InDirection(d, vias)]) :
     d \in {1, -1}, vias \in {<<ViaAt(1, 1)>>, <<ViaAt(2, 1)>>, <<ViaAt(2, 0), ViaAt(4, 1)>>},
     iv \in {AnInterval(1, 3), AnInterval(12, 14)}}

(***************************************************************************)
(* Ways to and from stops that are open for some time only.                *)
(***************************************************************************)
Opening(S, from, to, d) == [l \in L |-> IF l \in S THEN Open(l, from, to, d) ELSE <<>>]

TdQueries ==
  {LET base == Intermodal(x.d, 1, 3, iv)
       at == Opening({IF x.d = 1 THEN 1 ELSE 4}, from, from + 4, 2)
       to == Opening({IF x.d = 1 THEN 4 ELSE 1}, from + 3, from + 9, 1)
   IN  Ask(driver, Network(x), x.d,
           [base EXCEPT !.td_start = IF w = 1 THEN @ ELSE at, !.td_dest = IF w = 2 THEN @ ELSE to,
              !.start = IF w = 1 THEN @ ELSE {},
              !.destination = {o \in @ : w = 2 \/ to[o.target] = <<>>}, !.min_connection_count = 2,
              !.extend_earlier = x.d = -1, !.extend_later = x.d = 1]) :
     driver \in {"search", "pong"}, x \in {x \in Both : x.rt = <<>>}, w \in 1..3,
     from \in {0, 2, 4}, iv \in {AnInterval(0, 3), AnInterval(8, 12)}}

(***************************************************************************)
(* Walks at either end, in between and as the time allows; trains that do  *)
(* not take everybody, and slower changes.                                 *)
(***************************************************************************)
AroundStart == {[from |-> 1, to |-> 2, duration |-> 1], [from |-> 3, to |-> 4, duration |-> 2]}

WalkQueries ==
  {Ask("search", ANetwork(AroundStart \cup fps, rt), d,
       [UserQuery(d, iv) EXCEPT !.transfer = transfer, !.is_ontrip = size(iv) = 0]) :
     fps \in {{}, Walks}, rt \in {<<>>, Late}, d \in {1, -1},
     iv \in {AnInterval(1, 3), AnInterval(7, 10), AnInterval(3, 3)}, transfer \in {Default, Slower}}

\* On a train that is at a stop of its line now, or will be tomorrow.
OnTrain ==
  {Ask("search", m, 1,
       generate_ontrip_train_query(m, [r |-> 1, pos |-> 2, day |-> day], stop_idx,
         [Intermodal(1, 0, 0, AnInterval(0, 0)) EXCEPT !.start = {}, !.td_dest = td])) :
     <<m, stop_idx>> \in {x \in {ANetwork(Walks, <<>>), Chain, ViaNetwork(1, Walks, 8)} \X (2..4) :
                            x[2] <= Len(x[1].routes[1].stops)},
     day \in {0, 1}, td \in {[l \in L |-> <<>>], Opening({2}, 2, 9, 1)}}

\* Two lines and a walk from 2 to 3 that is open for some time, or slow at first.
Slowly(target, fast) ==
  <<[target |-> target, valid_from |-> -50, duration |-> 5], [target |-> target, valid_from |-> fast, duration |-> 0]>>
TwoLines(out, in) ==
  [Basic(4, <<<<3, 4>>>>, <<>>, 1, {[from |-> 2, to |-> 3, duration |-> 0]}) EXCEPT
     !.td_out[2] = out, !.td_in[3] = in,
     !.routes = <<Route(<<1, 2>>, <<<<1, 2>>, <<4, 5>>>>, <<{0}, {0, 1}>>),
                  Route(<<3, 4>>, <<<<6, 7>>, <<9, 10>>, <<13, 14>>>>, <<{0}, {0, 1}, {0}>>)>>]
Overtaking == 
  {[TwoLines(Slowly(3, fast), Slowly(2, fast)) EXCEPT
      !.routes[2] = Route(<<3, 4>>, <<<<9, 10>>, <<13, 14>>>>, <<{0}, {0, 1}>>)] : fast \in {4, 6}}
Changing == {TwoLines(Open(3, from, from + 3, d), Open(2, from, from + 3, d)) : from \in {2, 6}, d \in {0, 2}}

TdWalks ==
  UNION {{Ask(driver, m, d,
            [UserQuery(d, iv) EXCEPT !.td = TRUE, !.use_start_footpaths = FALSE,
               !.extend_earlier = d = -1, !.extend_later = d = 1]) :
            m \in Changing \cup {TdNetwork(2, 12, 1, {})} \cup IF driver = "pong" THEN {} ELSE Overtaking,
            d \in {1, -1}, iv \in {AnInterval(1, 3), AnInterval(9, 13)}} :
         driver \in {"search", "pong"}}

Selected ==
  {Ask("search", m, d, [UserQuery(d, iv) EXCEPT !.flags = flags, !.wheelchair = w]) :
     m \in {[ANetwork(Walks, Late) EXCEPT !.routes[1].stops[2] = stp, !.routes[1].sections["bike"] = B] :
               stp \in {At(2), [At(2) EXCEPT !.in_wheelchair = FALSE], [At(2) EXCEPT !.out = FALSE]},
               B \in {{1}, {1, 2}}},
     d \in {1, -1}, flags \in {{}, {"bike"}}, w \in BOOLEAN, iv \in {AnInterval(1, 3), AnInterval(8, 10)}}

MCSearches ==
  Ranges \cup OnTrip \cup OnTrain \cup Pongs \cup Changes \cup DoorToDoor \cup ViaQueries \cup TdQueries \cup WalkQueries
    \cup TdWalks \cup Selected \cup DoorToDoorVias(4)
===============================================================================
