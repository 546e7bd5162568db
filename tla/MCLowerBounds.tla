---------------------------- MODULE MCLowerBounds ----------------------------
(***************************************************************************)
(* Four stations, 3 with the platform 5 and the generated track 6, which   *)
(* belongs to the station or, as a boarding area, to the platform; 4 is    *)
(* equivalent to 2. A fast and a slow transport share the first route, the *)
(* second route ends at 6.                                                 *)
(***************************************************************************)
EXTENDS LowerBounds, TLC

Times(a, b, c, d) == [e \in 0..3 |-> <<a, b, c, d>>[e + 1]]
Fp(a, b, d) == [from |-> a, to |-> b, duration |-> d]

BothWays(S) == S \cup {Fp(f.to, f.from, f.duration) : f \in S}

Net(track, fps0, fps2) ==
  [parents |-> <<0, 0, 0, 0, 3, track>>,
   equivalences |-> <<{1}, {2, 4}, {3}, {2, 4}, {5}, {6}>>,
   generated_tracks |-> IF track = 3 THEN {6} ELSE {},
   footpaths |-> (0 :> BothWays(fps0)) @@ (2 :> BothWays(fps2)),
   routes |-> <<[stops |-> <<1, 2, 5>>, profiles |-> {0, 2},
                 times |-> <<Times(0, 4, 5, 7), Times(1, 3, 3, 6)>>],
                [stops |-> <<2, 4, 6>>, profiles |-> {0, 2},
                 times |-> <<Times(0, 1, 2, 6)>>]>>]

MCNetworks ==
  {Net(3, fps, {}) : fps \in {{}, {Fp(3, 1, 5), Fp(5, 6, 1)}}}
    \cup {Net(5, fps, {}) : fps \in {{Fp(2, 4, 3)}, {Fp(2, 4, 3), Fp(3, 1, 5), Fp(5, 6, 1)}}}

Rt(stops, times, r, t) == [stops |-> stops, times |-> times, route |-> r, transport |-> t]

Delayed == Rt(<<1, 2, 5>>, Times(2, 5, 5, 9), 1, 2)
Faster == Rt(<<1, 2, 5>>, Times(2, 3, 3, 5), 1, 2)
Rerouted == Rt(<<1, 4, 5>>, Times(2, 6, 6, 9), 1, 2)
Additional == Rt(<<4, 1, 3>>, Times(0, 3, 4, 5), 0, 0)
Shuttle == Rt(<<3, 1>>, [e \in 0..1 |-> 6 * e], 0, 0)
MCRtUpdates(n) ==
  {<<Shuttle>>, <<Delayed>>, <<Faster>>, <<Rerouted, Additional>>, <<Faster, Additional>>,
   <<Rerouted, Faster>>}

Dest(l, d) == [target |-> l, duration |-> d]
MCQueries(n) ==
  [dir : Directions, profile : {0},
   mode : {"exact", "equivalent"}, destination : {{Dest(1, 0)}, {Dest(4, 0)}, {Dest(5, 0)}}]
  \cup [dir : Directions, profile : {0}, mode : {"intermodal"},
        destination : {{Dest(3, 2), Dest(2, 4)}, {Dest(6, 1)}}]

=============================================================================
