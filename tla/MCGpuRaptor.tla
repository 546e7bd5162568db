------------------------------ MODULE MCGpuRaptor ------------------------------
(***************************************************************************)
(* Some of RAPTOR's searches, those without vias. Two stops to start at    *)
(* and several footpaths let threads compete for the same locations.       *)
(***************************************************************************)
EXTENDS GpuRaptor, Networks

AllFps == {[from |-> 2, to |-> 3, duration |-> 2], [from |-> 3, to |-> 4, duration |-> 3],
           [from |-> 2, to |-> 4, duration |-> 4]}
Shared(fast, c, rt) == Basic(fast, c, rt, 1, AllFps)

CompetingSearches ==
  {[n |-> Shared(fast, c, rt), q |-> Query(Shared(fast, c, rt), 1, 4),
    starts |-> <<BothFrom(2, far), Group(1, {}), BothFrom(1, far)>>, pong |-> NoPong] :
     fast \in {4, 5}, c \in {<<<<3, 6>>, <<6, 9>>>>, <<<<2, 9>>, <<5, 10>>>>}, far \in {1, 5},
     rt \in {<<>>, <<RtTransport(<<2, 3, 4>>, <<5, 6, 7, 8>>)>>}}

Both == {[from |-> 2, to |-> 3, duration |-> 2], [from |-> 3, to |-> 4, duration |-> 3]}
PongNetworks ==
  {Basic(fast, c, rt, 1, fps) :
     fast \in {4, 5}, c \in {<<<<3, 6>>, <<6, 9>>>>, <<<<2, 9>>, <<5, 10>>>>},
     rt \in {<<>>, <<RtTransport(<<2, 3, 4>>, <<5, 6, 7, 8>>)>>}, fps \in {{}, Both}}

\* Searches back start at the destination, and at the stops it is a walk from.
BackFrom(m, dir, dest) ==
  {[stop |-> dest, time |-> 0, v |-> 0]}
  \cup {[stop |-> IF dir = 1 THEN fp.from ELSE fp.to, time |-> -dir * fp.duration, v |-> 0] :
          fp \in {fp \in m.footpaths : dest = IF dir = 1 THEN fp.to ELSE fp.from}}

PongSearches ==
  {[n |-> m, q |-> Query(m, 1, 4), starts |-> <<From(1, 1)>>,
    pong |-> [q |-> Query(m, -1, 1), starts |-> BackFrom(m, 1, 4)]] : m \in PongNetworks}
  \cup
  {[n |-> m, q |-> Query(m, -1, 1), starts |-> <<From(4, 28)>>,
    pong |-> [q |-> Query(m, 1, 4), starts |-> BackFrom(m, -1, 1)]] : m \in PongNetworks}

WithoutPong(x) == [n |-> x.n, q |-> x.q, starts |-> x.starts, pong |-> NoPong]
WithoutVias(S) == {WithoutPong(x) : x \in {x \in S : x.q.vias = <<>>}}

Small(S) ==
  {x \in S : Cardinality(x.n.footpaths) < 2 /\ x.n.transfer_time[2] \in {0, 1} /\ x.q.max_transfers > 0}

MCSearches ==
  CompetingSearches \cup PongSearches
    \cup WithoutVias(Small(BasicSearches \cup IntermodalSearches \cup FilterSearches)
                       \cup TdSearches \cup FarSearches)
================================================================================
