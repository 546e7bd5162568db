--------------------------- MODULE MCGtfsRtUpdate ---------------------------
(***************************************************************************)
(* A small network: station P has the tracks P1 and P2, station Q one.     *)
(* T1 runs P1 - Q and T2 runs P1 - Q - P1; they share a bitfield.  Trip x  *)
(* is T1, trip y is T1 and the first half of T2 (it continues in two       *)
(* ways), trip z is the second half of T2.                                 *)
(***************************************************************************)
EXTENDS GtfsRtUpdate, TLC

CONSTANTS T1, T2, P1, P2, Q, x, y, z

S(l) == [loc |-> l, in |-> TRUE, out |-> TRUE]
R(t, from, to) == [t |-> t, from |-> from, to |-> to, offset |-> 0]

MCDay == {0, 1, 2}
MCStaticBitfields == <<{0, 1}, {2}>>
MCStaticTraffic == [t \in Transport |-> 1]
MCLocationSeq == T1 :> <<S(P1), S(Q)>> @@ T2 :> <<S(P1), S(Q), S(P1)>>
MCTripRanges ==
  x :> {R(T1, 1, 3)} @@ y :> {R(T1, 1, 3), R(T2, 1, 3)} @@ z :> {R(T2, 2, 4)}
MCEquivalences == P1 :> {P1, P2} @@ P2 :> {P1, P2} @@ Q :> {Q}
MCTripSource == [t \in Trip |-> "src"]

\* Day 2 is a day without service.

\* Skip the middle stop; then it is served again and a track changes, at an
\* equivalent stop or at one that is no track of it.
MCStopUpdates == {<<P2, Skipped, Scheduled>>, <<Scheduled, Scheduled, P2>>}
MCAddedStops == {<<S(P1), S(Q), S(P1)>>}

MCInRtInterval == TransportDay \ {[t |-> T2, day |-> 1]}

=============================================================================
