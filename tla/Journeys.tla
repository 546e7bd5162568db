------------------------------- MODULE Journeys -------------------------------
(***************************************************************************)
(* Journeys as the searches compare them: [start, dest, transfers]. Start  *)
(* and dest are the times at the start and at the destination of the       *)
(* search.                                                                 *)
(***************************************************************************)
EXTENDS Integers

\* Mutant: one better criterion is enough.
dominates_Either(j, o) ==
  j.transfers <= o.transfers /\ (j.start >= o.start \/ j.dest <= o.dest)

(***************************************************************************)
(* journey::dominates. A journey found backwards starts at its arrival.    *)
(***************************************************************************)
dominates(j, o) ==
  /\ j.transfers <= o.transfers
  /\ IF j.start <= j.dest THEN j.start >= o.start /\ j.dest <= o.dest
                          ELSE j.start <= o.start /\ j.dest >= o.dest

(***************************************************************************)
(* pareto_set::add, on a set.                                              *)
(***************************************************************************)
add(results, j) ==
  IF \E r \in results : dominates(r, j) THEN results
  ELSE {r \in results : ~dominates(j, r)} \cup {j}

=============================================================================
