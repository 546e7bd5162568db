--------------------------- MODULE ParetoSetProofs ---------------------------
(***************************************************************************)
(* The result of any sequence of add() calls is the Pareto set of the      *)
(* journeys added, for every set of journeys.                              *)
(***************************************************************************)
EXTENDS ParetoSet, SequenceTheorems, TLAPS

(***************************************************************************)
(* Domination is a preorder, also between journeys of both directions: the *)
(* in-place loop rests on it.                                              *)
(***************************************************************************)
LEMMA DominatesReflexive ==
  ASSUME NEW j \in Journeys PROVE dominates(j, j)
BY JourneysAssumption DEF dominates

LEMMA DominatesTransitive ==
  ASSUME NEW j \in Journeys, NEW o \in Journeys, NEW p \in Journeys,
         dominates(j, o), dominates(o, p)
  PROVE  dominates(j, p)
<1> /\ j.transfers <= o.transfers /\ o.transfers <= p.transfers
    /\ IF j.start <= j.dest THEN j.start >= o.start /\ j.dest <= o.dest
                            ELSE j.start <= o.start /\ j.dest >= o.dest
    /\ IF o.start <= o.dest THEN o.start >= p.start /\ o.dest <= p.dest
                            ELSE o.start <= p.start /\ o.dest >= p.dest
  BY DEF dominates
<1> j \in [start : Int, dest : Int, transfers : Nat] /\ o \in [start : Int, dest : Int, transfers : Nat]
    /\ p \in [start : Int, dest : Int, transfers : Nat]
  BY JourneysAssumption
<1> QED BY DEF dominates

(***************************************************************************)
(* The part of the vector that is not moved away: what has been kept so    *)
(* far, and what the loop has not reached.                                 *)
(***************************************************************************)
Valid(a) == a \in DOMAIN els /\ (adding => (a < i - n_removed \/ a >= i))

ValidAntichain ==
  \A a, b \in DOMAIN els :
    Valid(a) /\ Valid(b) /\ a # b => ~dominates(els[a], els[b])

ComparedWithKept ==
  adding => \A a \in 1..i - n_removed - 1 :
              ~dominates(els[a], el) /\ ~dominates(el, els[a])

Covered ==
  \A j \in added :
    \/ \E a \in DOMAIN els : Valid(a) /\ dominates(els[a], j)
    \/ adding /\ n_removed > 0 /\ dominates(el, j)

(***************************************************************************)
(* A removed element witnesses that nothing left dominates the new one.    *)
(***************************************************************************)
Witness ==
  adding /\ n_removed > 0 =>
    \E x \in Journeys : /\ dominates(el, x)
                        /\ \A a \in DOMAIN els : Valid(a) => ~dominates(els[a], x)

Inv == TypeOK /\ ValidAntichain /\ ComparedWithKept /\ Covered /\ Witness

LEMMA InitInv == Init => Inv
<1> SUFFICES ASSUME Init PROVE Inv OBVIOUS
<1>1. TypeOK
  <2>1. els \in Seq(Journeys) /\ Len(els) = 0 BY EmptySeq DEF Init
  <2>2. adding = FALSE /\ el \in Journeys /\ i = 1 /\ n_removed = 0 /\ added = {}
    BY DEF Init
  <2>3. i \in Nat \ {0} /\ n_removed \in 0..i - 1 BY <2>2
  <2> QED BY <2>1, <2>2, <2>3 DEF TypeOK
<1>2. DOMAIN els = {} /\ ~adding /\ added = {} BY DEF Init
<1> QED BY <1>1, <1>2 DEF Inv, ValidAntichain, ComparedWithKept, Covered, Witness

LEMMA AddInv ==
  ASSUME Inv, NEW j \in Journeys, Add(j) PROVE Inv'
BY DEF Add, Inv, TypeOK, ValidAntichain, ComparedWithKept, Covered, Witness, Valid

(***************************************************************************)
(* An element that is refused is dominated by one that is still valid, so  *)
(* nothing has been removed before it.                                     *)
(***************************************************************************)
LEMMA RefuseEarly ==
  ASSUME Inv PROVE RefusedBeforeRemoval
<1> SUFFICES ASSUME adding, i <= Len(els), dominates(els[i], el), n_removed > 0
             PROVE FALSE
  BY DEF Inv, TypeOK, RefusedBeforeRemoval
<1>1. i \in DOMAIN els /\ Valid(i) /\ els[i] \in Journeys /\ el \in Journeys
  BY DEF Inv, TypeOK, Valid
<1>2. PICK x \in Journeys : /\ dominates(el, x)
                            /\ \A a \in DOMAIN els : Valid(a) => ~dominates(els[a], x)
  BY DEF Inv, Witness
<1>3. dominates(els[i], x) BY <1>1, <1>2, DominatesTransitive
<1> QED BY <1>1, <1>2, <1>3

LEMMA RefuseInv ==
  ASSUME Inv, Refuse PROVE Inv'
<1>1. n_removed = 0 BY RefuseEarly DEF Refuse, RefusedBeforeRemoval
<1>2. TypeOK' BY DEF Inv, TypeOK, Refuse
<1>3. \A a : Valid(a)' <=> a \in DOMAIN els BY DEF Refuse, Valid
<1>4. \A a : Valid(a) <=> a \in DOMAIN els
  BY <1>1 DEF Inv, TypeOK, Valid
<1>5. ValidAntichain' BY <1>3, <1>4 DEF Inv, ValidAntichain, Refuse
<1>6. Covered' BY <1>1, <1>3, <1>4 DEF Inv, Covered, Refuse, TypeOK
<1> QED BY <1>2, <1>5, <1>6 DEF Inv, ComparedWithKept, Witness, Refuse

LEMMA RemoveInv ==
  ASSUME Inv, Remove PROVE Inv'
<1>1. TypeOK' BY DEF Inv, TypeOK, Remove
<1>2. /\ i \in Nat /\ n_removed \in Nat /\ i \in DOMAIN els /\ els' = els
      /\ adding /\ adding' /\ i' = i + 1 /\ n_removed' = n_removed + 1
      /\ el' = el /\ added' = added /\ n_removed < i
      /\ els[i] \in Journeys /\ el \in Journeys /\ dominates(el, els[i])
      /\ DOMAIN els \subseteq Nat
  BY DEF Inv, TypeOK, Remove
<1>3. \A a \in DOMAIN els : Valid(a)' <=> Valid(a) /\ a # i
  BY <1>2 DEF Valid
<1>4. ValidAntichain' BY <1>2, <1>3 DEF Inv, ValidAntichain
<1>5. ComparedWithKept' BY <1>2 DEF Inv, ComparedWithKept
<1>6. Covered'
  <2> SUFFICES ASSUME NEW j \in added
               PROVE \/ \E a \in DOMAIN els : Valid(a)' /\ dominates(els[a], j)
                     \/ dominates(el, j)
    BY <1>2 DEF Covered
  <2>1. j \in Journeys BY DEF Inv, TypeOK
  <2>2. CASE dominates(el, j) BY <2>2
  <2>3. CASE ~dominates(el, j)
    <3>1. PICK a \in DOMAIN els : Valid(a) /\ dominates(els[a], j)
      BY <2>3 DEF Inv, Covered
    <3>2. a # i BY <1>2, <2>1, <2>3, <3>1, DominatesTransitive
    <3> QED BY <1>3, <3>1, <3>2
  <2> QED BY <2>2, <2>3
<1>7. Witness'
  <2>1. \A a \in DOMAIN els : Valid(a)' => ~dominates(els[a], els[i])
    BY <1>2, <1>3 DEF Inv, ValidAntichain, Valid
  <2> QED BY <1>2, <2>1 DEF Witness
<1> QED BY <1>1, <1>4, <1>5, <1>6, <1>7 DEF Inv

LEMMA KeepInv ==
  ASSUME Inv, Keep PROVE Inv'
<1> DEFINE to == i - n_removed
<1>1. /\ i \in Nat /\ n_removed \in Nat /\ i \in DOMAIN els /\ n_removed < i
      /\ adding /\ adding' /\ i' = i + 1 /\ n_removed' = n_removed
      /\ el' = el /\ added' = added /\ els \in Seq(Journeys) /\ el \in Journeys
      /\ ~dominates(els[i], el) /\ ~dominates(el, els[i])
      /\ DOMAIN els = 1..Len(els)
  BY DEF Inv, TypeOK, Keep
<1>2. /\ to \in DOMAIN els /\ els' = [els EXCEPT ![to] = els[i]]
      /\ els' \in Seq(Journeys) /\ DOMAIN els' = DOMAIN els /\ Len(els') = Len(els)
  BY <1>1 DEF Keep
<1>3. TypeOK' BY <1>1, <1>2 DEF Inv, TypeOK
<1> DEFINE old(a) == IF a = to THEN i ELSE a
<1>4. \A a \in DOMAIN els : els'[a] = els[old(a)]
  BY <1>1, <1>2
<1>5. \A a \in DOMAIN els : Valid(a)' => /\ old(a) \in DOMAIN els /\ Valid(old(a))
  BY <1>1, <1>2 DEF Valid
<1>6. \A a, b \in DOMAIN els : Valid(a)' /\ Valid(b)' /\ a # b => old(a) # old(b)
  BY <1>1, <1>2 DEF Valid
<1>7. \A a \in DOMAIN els : Valid(a) =>
        \E b \in DOMAIN els : Valid(b)' /\ old(b) = a
  <2> SUFFICES ASSUME NEW a \in DOMAIN els, Valid(a)
               PROVE \E b \in DOMAIN els : Valid(b)' /\ old(b) = a
    OBVIOUS
  <2>1. CASE a = i
    <3>1. PICK b \in DOMAIN els : b = to BY <1>2
    <3>2. Valid(b)' BY <1>1, <1>2, <3>1 DEF Valid
    <3> QED BY <2>1, <3>1, <3>2
  <2>2. CASE a # i
    <3>1. Valid(a)' /\ a # to BY <1>1, <1>2, <2>2 DEF Valid
    <3> QED BY <3>1
  <2> QED BY <2>1, <2>2
<1> HIDE DEF old
<1>8. ValidAntichain'
  BY <1>2, <1>4, <1>5, <1>6 DEF Inv, ValidAntichain
<1>9. ComparedWithKept'
  <2> SUFFICES ASSUME NEW a \in 1..i - n_removed
               PROVE ~dominates(els'[a], el) /\ ~dominates(el, els'[a])
    BY <1>1 DEF ComparedWithKept
  <2>1. a \in DOMAIN els BY <1>1, <1>2
  <2>2. CASE a = to BY <1>1, <1>4, <2>1, <2>2 DEF old
  <2>3. CASE a # to
    <3>1. a \in 1..i - n_removed - 1 BY <1>1, <2>3
    <3> QED BY <1>1, <1>4, <2>1, <2>3, <3>1 DEF old, Inv, ComparedWithKept
  <2> QED BY <2>2, <2>3
<1>10. Covered'
  <2> SUFFICES ASSUME NEW j \in added, ~(n_removed > 0 /\ dominates(el, j))
               PROVE \E a \in DOMAIN els : Valid(a)' /\ dominates(els'[a], j)
    BY <1>1, <1>2 DEF Covered
  <2>1. PICK a \in DOMAIN els : Valid(a) /\ dominates(els[a], j)
    BY DEF Inv, Covered
  <2>2. PICK b \in DOMAIN els : Valid(b)' /\ old(b) = a BY <1>7, <2>1
  <2> QED BY <1>4, <2>1, <2>2
<1>11. Witness'
  <2> SUFFICES ASSUME n_removed > 0
               PROVE \E x \in Journeys :
                       /\ dominates(el, x)
                       /\ \A a \in DOMAIN els : Valid(a)' => ~dominates(els'[a], x)
    BY <1>1, <1>2 DEF Witness
  <2>1. PICK x \in Journeys : /\ dominates(el, x)
                              /\ \A a \in DOMAIN els : Valid(a) => ~dominates(els[a], x)
    BY <1>1 DEF Inv, Witness
  <2>2. \A a \in DOMAIN els : Valid(a)' => ~dominates(els'[a], x)
    BY <1>4, <1>5, <2>1
  <2> QED BY <2>1, <2>2
<1> QED BY <1>3, <1>8, <1>9, <1>10, <1>11 DEF Inv

LEMMA PushBackInv ==
  ASSUME Inv, PushBack PROVE Inv'
<1> DEFINE n == Len(els) - n_removed
<1>1. /\ els \in Seq(Journeys) /\ el \in Journeys /\ adding /\ ~adding'
      /\ i = Len(els) + 1 /\ n_removed \in Nat /\ n_removed < i /\ n \in 0..Len(els)
      /\ n \in Nat /\ added' = added \cup {el} /\ el' = el /\ i' = i
      /\ n_removed' = n_removed /\ DOMAIN els = 1..Len(els)
  BY DEF Inv, TypeOK, PushBack
<1>2. /\ els' = Append(SubSeq(els, 1, n), el) BY DEF PushBack
<1>3. /\ SubSeq(els, 1, n) \in Seq(Journeys) /\ Len(SubSeq(els, 1, n)) = n
      /\ \A a \in 1..n : SubSeq(els, 1, n)[a] = els[a]
  <2>1. \A a \in 1..n : els[a] \in Journeys BY <1>1
  <2> HIDE DEF n
  <2>2. 1 \in Int /\ n \in Int BY <1>1
  <2>3. /\ SubSeq(els, 1, n) \in Seq(Journeys)
        /\ Len(SubSeq(els, 1, n)) = IF 1 <= n THEN n - 1 + 1 ELSE 0
        /\ \A a \in 1..n - 1 + 1 : SubSeq(els, 1, n)[a] = els[1 + a - 1]
    BY <2>1, <2>2, SubSeqProperties
  <2> QED BY <1>1, <2>3
<1>4. /\ els' \in Seq(Journeys) /\ Len(els') = n + 1 /\ DOMAIN els' = 1..n + 1
      /\ els'[n + 1] = el /\ \A a \in 1..n : els'[a] = els[a]
  <2> HIDE DEF n
  <2> QED BY <1>1, <1>2, <1>3, AppendProperties
<1>5. TypeOK'
  <2> HIDE DEF n
  <2> QED BY <1>1, <1>4 DEF Inv, TypeOK, PushBack
<1>6. \A a \in DOMAIN els : Valid(a) <=> a \in 1..n BY <1>1 DEF Valid
<1>7. 1..n = 1..i - n_removed - 1 /\ 1..n \subseteq DOMAIN els BY <1>1
<1>8. ValidAntichain'
  <2> SUFFICES ASSUME NEW a \in 1..n + 1, NEW b \in 1..n + 1, a # b
               PROVE ~dominates(els'[a], els'[b])
    BY <1>4 DEF ValidAntichain
  <2>1. CASE a \in 1..n /\ b \in 1..n
    BY <1>4, <1>6, <1>7, <2>1 DEF Inv, ValidAntichain
  <2>2. CASE a = n + 1 \/ b = n + 1
    <3>1. \A c \in 1..n : ~dominates(els[c], el) /\ ~dominates(el, els[c])
      BY <1>1, <1>7 DEF Inv, ComparedWithKept
    <3>2. a \in 1..n \/ b \in 1..n BY <1>1, <2>2
    <3> QED BY <1>1, <1>4, <2>2, <3>1, <3>2
  <2> QED BY <1>1, <2>1, <2>2
<1>9. Covered'
  <2> SUFFICES ASSUME NEW j \in added \cup {el}
               PROVE \E a \in 1..n + 1 : dominates(els'[a], j)
    BY <1>1, <1>4 DEF Covered, Valid
  <2>1. n + 1 \in 1..n + 1 BY <1>1
  <2>2. CASE j = el BY <1>1, <1>4, <2>1, <2>2, DominatesReflexive
  <2>3. CASE j \in added /\ dominates(el, j) BY <1>4, <2>1, <2>3
  <2>4. CASE j \in added /\ ~dominates(el, j)
    <3>1. PICK a \in DOMAIN els : Valid(a) /\ dominates(els[a], j)
      BY <2>4 DEF Inv, Covered
    <3>2. a \in 1..n /\ a \in 1..n + 1 BY <1>1, <1>6, <3>1
    <3> QED BY <1>4, <3>1, <3>2
  <2> QED BY <2>2, <2>3, <2>4
<1> QED BY <1>1, <1>5, <1>8, <1>9 DEF Inv, ComparedWithKept, Witness

LEMMA Inductive == Spec => []Inv
<1>1. Inv /\ [Next]_vars => Inv'
  <2> SUFFICES ASSUME Inv, [Next]_vars PROVE Inv' OBVIOUS
  <2>1. CASE \E j \in Journeys : Add(j) BY <2>1, AddInv
  <2>2. CASE Refuse BY <2>2, RefuseInv
  <2>3. CASE Remove BY <2>3, RemoveInv
  <2>4. CASE Keep BY <2>4, KeepInv
  <2>5. CASE PushBack BY <2>5, PushBackInv
  <2>6. CASE UNCHANGED vars
    BY <2>6 DEF vars, Inv, TypeOK, ValidAntichain, ComparedWithKept, Covered, Witness, Valid
  <2> QED BY <2>1, <2>2, <2>3, <2>4, <2>5, <2>6 DEF Next
<1> QED BY <1>1, InitInv, PTL DEF Spec

(***************************************************************************)
(* The loop stays inside of the vector.                                    *)
(***************************************************************************)
THEOREM TypeCorrect == Spec => []TypeOK
<1>1. Inv => TypeOK BY DEF Inv
<1> QED BY <1>1, Inductive, PTL

(***************************************************************************)
(* No journey of the result is dominated by another one of it.             *)
(***************************************************************************)
THEOREM ResultIsAntichain == Spec => []Antichain
<1>1. Inv => Antichain BY DEF Inv, ValidAntichain, Antichain, Valid
<1> QED BY <1>1, Inductive, PTL

(***************************************************************************)
(* Whatever was added is in the result or dominated by a journey of it.    *)
(***************************************************************************)
THEOREM NothingBetterLost == Spec => []BestKept
<1>1. Inv => BestKept BY DEF Inv, Covered, BestKept
<1> QED BY <1>1, Inductive, PTL

(***************************************************************************)
(* A refused journey leaves the result as it was.                          *)
(***************************************************************************)
THEOREM RefusalIsEarly == Spec => []RefusedBeforeRemoval
<1>1. Inv => RefusedBeforeRemoval BY RefuseEarly
<1> QED BY <1>1, Inductive, PTL

=============================================================================
