----------------------------- MODULE MCUpdateRun -----------------------------
(***************************************************************************)
(* Three stops; the messages combine, per stop, no update, early and late  *)
(* events as delays and as times, an event beyond the real-time interval,  *)
(* NO_DATA, a skipped stop and an assignment that is not carried out.      *)
(***************************************************************************)
EXTENDS UpdateRun

D(d) == [kind |-> "delay", value |-> d]
T(t) == [kind |-> "time", value |-> t]
U(rel, a, d) == [rel |-> rel, arrival |-> a, departure |-> d]
Unmatched == U("unmatched", NoEvent, NoEvent)
NoData == U("no_data", NoEvent, NoEvent)

MCStaticTime == [e \in 0..3 |-> <<0, 2, 3, 5>>[e + 1]]

MCMessages ==
  {[s \in 0..2 |-> <<a, b, c>>[s + 1]] :
     a \in {Unmatched, U("scheduled", NoEvent, D(6))},
     b \in {Unmatched, NoData, U("scheduled", D(3), D(1)), U("bad_track", D(2), D(2)),
            U("skipped", D(-1), NoEvent), U("scheduled", D(6), T(20))},
     c \in {Unmatched, U("scheduled", D(-1), NoEvent), U("track", T(9), NoEvent),
            U("skipped", D(20), NoEvent)}}

MCDelays == {-2}
MCMinDelta == -6
MCEpoch == -100
MCRanges == {[from |-> 0, to |-> 3], [from |-> 1, to |-> 3]}

=============================================================================
