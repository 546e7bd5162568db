------------------------------ MODULE ParetoSet ------------------------------
(***************************************************************************)
(* struct pareto_set with journeys as elements, the container in which all *)
(* searches collect their results. An element is added in place, by a      *)
(* single loop that compares, removes and moves; each turn of it is a step.*)
(***************************************************************************)
EXTENDS Journeys, Sequences

CONSTANT Journeys  \* journeys that may be found: [start, dest, transfers]

ASSUME JourneysAssumption ==
  Journeys \subseteq [start : Int, dest : Int, transfers : Nat]

VARIABLES
  els,        \* the vector els_
  adding,     \* an add() is running
  el,         \* its element, the last one if none is running
  i,          \* the loop's index, from 1
  n_removed,
  added       \* all elements add() was called with, for the properties

vars == <<els, adding, el, i, n_removed, added>>

Init ==
  /\ els = <<>> /\ adding = FALSE /\ i = 1 /\ n_removed = 0 /\ added = {}
  /\ el \in Journeys

Add(j) ==
  /\ ~adding
  /\ adding' = TRUE /\ el' = j /\ i' = 1 /\ n_removed' = 0
  /\ UNCHANGED <<els, added>>

Refuse ==
  /\ adding /\ i <= Len(els) /\ dominates(els[i], el)
  /\ adding' = FALSE /\ added' = added \cup {el}
  /\ UNCHANGED <<els, el, i, n_removed>>

Remove ==
  /\ adding /\ i <= Len(els) /\ ~dominates(els[i], el)
  /\ dominates(el, els[i])
  /\ n_removed' = n_removed + 1 /\ i' = i + 1
  /\ UNCHANGED <<els, adding, el, added>>

\* Mutant: elements behind a removed one stay where they are.
Keep_NotMoved ==
  /\ adding /\ i <= Len(els) /\ ~dominates(els[i], el)
  /\ ~dominates(el, els[i])
  /\ i' = i + 1
  /\ UNCHANGED <<els, adding, el, n_removed, added>>

Keep ==
  /\ adding /\ i <= Len(els) /\ ~dominates(els[i], el)
  /\ ~dominates(el, els[i])
  /\ els' = [els EXCEPT ![i - n_removed] = els[i]] /\ i' = i + 1
  /\ UNCHANGED <<adding, el, n_removed, added>>

\* Mutant: the vector is not cut.
PushBack_NotCut ==
  /\ adding /\ i > Len(els)
  /\ els' = Append(els, el)
  /\ adding' = FALSE /\ added' = added \cup {el}
  /\ UNCHANGED <<el, i, n_removed>>

PushBack ==
  /\ adding /\ i > Len(els)
  /\ els' = Append(SubSeq(els, 1, Len(els) - n_removed), el)
  /\ adding' = FALSE /\ added' = added \cup {el}
  /\ UNCHANGED <<el, i, n_removed>>

Next == (\E j \in Journeys : Add(j)) \/ Refuse \/ Remove \/ Keep \/ PushBack

Spec == Init /\ [][Next]_vars

-----------------------------------------------------------------------------
(***************************************************************************)
(* Every element is a journey, the loop stays inside of the vector.        *)
(***************************************************************************)
TypeOK ==
  /\ els \in Seq(Journeys) /\ adding \in BOOLEAN /\ el \in Journeys
  /\ i \in Nat \ {0} /\ n_removed \in 0..i - 1 /\ added \subseteq Journeys
  /\ adding => i <= Len(els) + 1

(***************************************************************************)
(* No journey of the result is dominated by another one of it, and none is *)
(* in it twice.                                                            *)
(***************************************************************************)
Antichain ==
  ~adding => \A a, b \in DOMAIN els : a # b => ~dominates(els[a], els[b])

(***************************************************************************)
(* Whatever was ever added is in the result or dominated by a journey of   *)
(* it: in-place removal loses nothing.                                     *)
(***************************************************************************)
BestKept ==
  ~adding => \A j \in added : \E a \in DOMAIN els : dominates(els[a], j)

(***************************************************************************)
(* add() returns early when the new element is dominated. It never does so *)
(* after it removed an element: the vector would be left half moved.       *)
(***************************************************************************)
RefusedBeforeRemoval ==
  (adding /\ i <= Len(els) /\ dominates(els[i], el)) => n_removed = 0

=============================================================================
