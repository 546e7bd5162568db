--------------------------- MODULE RaptorWalkProofs ---------------------------
(***************************************************************************)
(* What the walks of a round keep and reach (update_transfers,             *)
(* update_footpaths, update_td_offsets, update_intermodal_footpaths), for  *)
(* RaptorProofs: every label they set is explained by the round before,    *)
(* and every arrival is followed up.                                       *)
(***************************************************************************)
EXTENDS Raptor, TLAPS, FiniteSetTheorems, WellFoundedInduction

(***************************************************************************)
(* Numbers: the least one of a set, the highest one, and induction.        *)
(***************************************************************************)
LEMMA LeastNumber ==
  ASSUME NEW T \in SUBSET Nat, T # {}
  PROVE  \E x \in T : \A y \in T : x <= y
<1> DEFINE R == {ss \in Nat \X Nat : ss[1] < ss[2]}
<1>1. IsWellFoundedOn(R, Nat)
  BY NatLessThanWellFounded DEF OpToRel
<1>2. PICK x \in T : \A y \in T : ~(<<y, x>> \in R)
  <2> HIDE DEF R
  <2> QED
    BY <1>1, WFMin
<1>3. ASSUME NEW y \in T PROVE x <= y
  <2>1. <<y, x>> \notin R
    BY <1>2
  <2> QED
    BY <2>1
<1> QED
  BY <1>3

LEMMA NumbersReached ==
  ASSUME NEW T \in SUBSET Nat, 0 \in T, \A y \in T : y + 1 \in T
  PROVE  T = Nat
<1>1. SUFFICES ASSUME T # Nat PROVE FALSE
  OBVIOUS
<1>2. PICK x \in Nat \ T : \A y \in Nat \ T : x <= y
  BY <1>1, LeastNumber
<1>3. x # 0 /\ x - 1 \in Nat /\ x - 1 \in T
  BY <1>2
<1> QED
  BY <1>3, <1>2

\* Of the numbers of a finite set, one is the highest.
\* So it is with any finite set of numbers.
LEMMA HighestOfFinite ==
  ASSUME NEW T \in SUBSET Int, IsFiniteSet(T), T # {}
  PROVE  \E x \in T : \A y \in T : x >= y
<1> DEFINE N == {d \in Nat : \A S \in SUBSET T : S # {} /\ Cardinality(S) <= d
                               => \E x \in S : \A y \in S : x >= y}
<1>1. 0 \in N
  <2>1. ASSUME NEW S \in SUBSET T, S # {}, Cardinality(S) <= 0 PROVE FALSE
    <3>1. IsFiniteSet(S)
      BY FS_Subset
    <3> QED
      BY <2>1, <3>1, FS_CardinalityType, FS_EmptySet
  <2> QED
    BY <2>1
<1>2. ASSUME NEW d \in N PROVE d + 1 \in N
  <2>1. ASSUME NEW S \in SUBSET T, S # {}, Cardinality(S) <= d + 1
        PROVE  \E x \in S : \A y \in S : x >= y
    <3>1. PICK z \in S : TRUE
      BY <2>1
    <3>2. IsFiniteSet(S) /\ Cardinality(S) \in Nat
      BY FS_Subset, FS_CardinalityType
    <3>3. Cardinality(S \ {z}) <= d
      <4>1. Cardinality(S \ {z}) = Cardinality(S) - 1
        BY <3>2, FS_RemoveElement
      <4>2. d \in Nat
        OBVIOUS
      <4> QED
        BY <2>1, <3>2, <4>1, <4>2
    <3>4. CASE S \ {z} = {}
      BY <3>4, <3>1
    <3>5. CASE S \ {z} # {}
      <4>1. PICK x \in S \ {z} : \A y \in S \ {z} : x >= y
        BY <3>3, <3>5
      <4>2. CASE x >= z
        BY <4>1, <4>2
      <4>3. CASE ~(x >= z)
        BY <4>1, <4>3
      <4> QED
        BY <4>2, <4>3
    <3> QED
      BY <3>4, <3>5
  <2> QED
    BY <2>1
<1>3. N = Nat
  <2>1. N \in SUBSET Nat
    OBVIOUS
  <2> HIDE DEF N
  <2> QED
    BY <1>1, <1>2, <2>1, NumbersReached
<1>4. Cardinality(T) \in N
  BY <1>3, FS_CardinalityType
<1> QED
  <2>1. Cardinality(T) \in Nat
    BY FS_CardinalityType
  <2> QED
    BY <1>4, <2>1

-----------------------------------------------------------------------------
(***************************************************************************)
(* A loop over a finite set S: P gives the element that comes last in a    *)
(* set of them, F the state after a state and an element, f the state      *)
(* after each set of elements.                                             *)
(***************************************************************************)
Chooses(P, S) == \A T \in SUBSET S : T # {} => P[T] \in T
Follows(f, F, P, base, S) ==
  \A T \in SUBSET S : f[T] = IF T = {} THEN base ELSE F[<<f[T \ {P[T]}], P[T]>>]

LEMMA SmallerSubset ==
  ASSUME NEW S, IsFiniteSet(S), NEW P, Chooses(P, S), NEW T \in SUBSET S, T # {}
  PROVE  /\ P[T] \in T /\ P[T] \in S
         /\ T \ {P[T]} \in SUBSET S
         /\ Cardinality(T) \in Nat /\ Cardinality(T \ {P[T]}) = Cardinality(T) - 1
         /\ Cardinality(T \ {P[T]}) \in Nat
<1>1. P[T] \in T
  BY DEF Chooses
<1>2. IsFiniteSet(T)
  BY FS_Subset
<1> QED
  BY <1>1, <1>2, FS_RemoveElement, FS_CardinalityType

\* What holds of the empty set and is passed on to a set with one element more.
LEMMA LoopInduction ==
  ASSUME NEW S, IsFiniteSet(S), NEW P, Chooses(P, S), NEW I, {} \in I,
         \A T \in SUBSET S : T # {} /\ T \ {P[T]} \in I => T \in I
  PROVE  \A T \in SUBSET S : T \in I
<1> DEFINE N == {d \in Nat : \A T \in SUBSET S : Cardinality(T) = d => T \in I}
<1>1. 0 \in N
  BY FS_Subset, FS_EmptySet
<1>2. ASSUME NEW d \in N PROVE d + 1 \in N
  <2>1. ASSUME NEW T \in SUBSET S, Cardinality(T) = d + 1 PROVE T \in I
    <3>0. d \in Nat
      OBVIOUS
    <3>1. T # {}
      <4>1. Cardinality({}) = 0
        BY FS_EmptySet
      <4> QED
        BY <2>1, <3>0, <4>1
    <3>2. T \ {P[T]} \in SUBSET S /\ Cardinality(T \ {P[T]}) = d
      BY <3>0, <3>1, <2>1, SmallerSubset
    <3> QED
      BY <3>1, <3>2
  <2>2. d + 1 \in Nat
    OBVIOUS
  <2> QED
    BY <2>1, <2>2
<1>3. N = Nat
  <2>1. N \in SUBSET Nat
    OBVIOUS
  <2> HIDE DEF N
  <2> QED
    BY <1>1, <1>2, <2>1, NumbersReached
<1>4. ASSUME NEW T \in SUBSET S PROVE Cardinality(T) \in Nat
  BY FS_Subset, FS_CardinalityType
<1> QED
  BY <1>3, <1>4

LEMMA StatesExist ==
  ASSUME NEW S, IsFiniteSet(S), NEW P, Chooses(P, S), NEW A, NEW base \in A, NEW F \in [A \X S -> A]
  PROVE  \E f \in [SUBSET S -> A] : Follows(f, F, P, base, S)
<1> DEFINE Upto(f, d) ==
             \A T \in SUBSET S : Cardinality(T) <= d =>
               f[T] = IF T = {} THEN base ELSE F[<<f[T \ {P[T]}], P[T]>>]
           N == {d \in Nat : \E f \in [SUBSET S -> A] : Upto(f, d)}
<1>0. \A T \in SUBSET S : Cardinality(T) \in Nat /\ (Cardinality(T) = 0 <=> T = {})
  BY FS_Subset, FS_CardinalityType, FS_EmptySet
<1>1. 0 \in N
  <2> DEFINE f == [T \in SUBSET S |-> base]
  <2>1. f \in [SUBSET S -> A] /\ Upto(f, 0)
    BY <1>0
  <2> QED
    BY <2>1
<1>2. ASSUME NEW d \in N PROVE d + 1 \in N
  <2>1. PICK f \in [SUBSET S -> A] : Upto(f, d)
    OBVIOUS
  <2> DEFINE g == [T \in SUBSET S |-> IF T = {} THEN base ELSE F[<<f[T \ {P[T]}], P[T]>>]]
  <2>2. ASSUME NEW T \in SUBSET S, Cardinality(T) <= d PROVE g[T] = f[T]
    BY <2>1, <2>2
  <2>3. ASSUME NEW T \in SUBSET S, T # {} PROVE F[<<f[T \ {P[T]}], P[T]>>] \in A
    <3>1. P[T] \in S /\ f[T \ {P[T]}] \in A
      BY <2>3, SmallerSubset
    <3> QED
      BY <3>1
  <2>4. g \in [SUBSET S -> A]
    BY <2>3
  <2>5. ASSUME NEW T \in SUBSET S, Cardinality(T) <= d + 1
        PROVE  g[T] = IF T = {} THEN base ELSE F[<<g[T \ {P[T]}], P[T]>>]
    <3>1. CASE T = {}
      BY <3>1
    <3>2. CASE T # {}
      <4>1. T \ {P[T]} \in SUBSET S /\ Cardinality(T \ {P[T]}) <= d
        BY <3>2, <2>5, SmallerSubset
      <4>2. g[T \ {P[T]}] = f[T \ {P[T]}]
        BY <4>1, <2>2
      <4> HIDE DEF g
      <4>3. g[T] = F[<<f[T \ {P[T]}], P[T]>>]
        BY <3>2 DEF g
      <4> QED
        BY <3>2, <4>2, <4>3
    <3> QED
      BY <3>1, <3>2
  <2> HIDE DEF g
  <2>6. d + 1 \in Nat
    OBVIOUS
  <2> QED
    BY <2>4, <2>5, <2>6
<1>3. N = Nat
  <2>1. N \in SUBSET Nat
    OBVIOUS
  <2> HIDE DEF N
  <2> QED
    BY <1>1, <1>2, <2>1, NumbersReached
<1>4. PICK f \in [SUBSET S -> A] : Upto(f, Cardinality(S))
  BY <1>3, FS_CardinalityType
<1>5. ASSUME NEW T \in SUBSET S PROVE Cardinality(T) <= Cardinality(S)
  BY FS_Subset
<1> QED
  BY <1>4, <1>5 DEF Follows

(***************************************************************************)
(* A loop whose body only goes forward: A has the states, R relates states *)
(* to later ones, D has the elements and the states in which all is done   *)
(* for them, and later is still done.                                      *)
(***************************************************************************)
Forward(S, A, base, R, D) ==
  /\ base \in A
  /\ \A a \in A : <<a, a>> \in R
  /\ \A a1 \in A, a2 \in A, a3 \in A : <<a1, a2>> \in R /\ <<a2, a3>> \in R => <<a1, a3>> \in R
  /\ \A x \in S : \A a1 \in A, a2 \in A : <<x, a1>> \in D /\ <<a1, a2>> \in R => <<x, a2>> \in D
Goes(a, b, x, A, R, D) == b \in A /\ <<a, b>> \in R /\ <<x, b>> \in D
Arrives(b, S, base, A, R, D) == b \in A /\ <<base, b>> \in R /\ \A x \in S : <<x, b>> \in D

Passes(f, P, S, A, R, D) ==
  \A T \in SUBSET S :
    T # {} /\ f[T \ {P[T]}] \in A => Goes(f[T \ {P[T]}], f[T], P[T], A, R, D)

LEMMA LoopAdvances ==
  ASSUME NEW S, IsFiniteSet(S), NEW P, Chooses(P, S), NEW A, NEW base, NEW R, NEW D,
         Forward(S, A, base, R, D), NEW f, f[{}] = base, Passes(f, P, S, A, R, D)
  PROVE  Arrives(f[S], S, base, A, R, D)
<1> DEFINE I == {T \in SUBSET S : f[T] \in A /\ <<base, f[T]>> \in R /\ \A x \in T : <<x, f[T]>> \in D}
<1>1. {} \in I
  BY DEF Forward
<1>2. ASSUME NEW T \in SUBSET S, T # {}, T \ {P[T]} \in I PROVE T \in I
  <2> DEFINE x == P[T]
             a == f[T \ {P[T]}]
  <2>1. x \in T /\ a \in A /\ <<base, a>> \in R /\ \A y \in T \ {x} : <<y, a>> \in D
    BY <1>2 DEF Chooses
  <2>2. f[T] \in A /\ <<a, f[T]>> \in R /\ <<x, f[T]>> \in D
    BY <1>2, <2>1 DEF Passes, Goes
  <2> HIDE DEF x, a
  <2>3. base \in A /\ <<base, f[T]>> \in R
    BY <2>1, <2>2 DEF Forward
  <2>4. \A y \in T : <<y, f[T]>> \in D
    BY <2>1, <2>2 DEF Forward
  <2> QED
    BY <2>2, <2>3, <2>4
<1> HIDE DEF I
<1>3. S \in I
  BY <1>1, <1>2, LoopInduction
<1> QED
  BY <1>3 DEF I, Arrives

-----------------------------------------------------------------------------
(***************************************************************************)
(* What a label can be, and the states of the algorithm: raptor_state      *)
(* without bounds, as one search has it.                                   *)
(***************************************************************************)
LabelTimes(ask) == {t \in -MaxDelta - 1..MaxDelta : t # kFirst(ask)}
Labels(m, ask) == [Nodes(m) -> [ViaCounts(ask) -> LabelTimes(ask)]]
States(m, ask) ==
  [time_at_dest : [Rounds -> Int], round_times : [Rounds -> Labels(m, ask)],
   best : Labels(m, ask), tmp : Labels(m, ask),
   station_mark : SUBSET AllLocations(m), prev_station_mark : SUBSET AllLocations(m),
   bounds : {NoBounds}]

\* The places the labels of a round stand for, and where rides lead to from there.
PlacesOf(m, ask, rt, i) ==
  {<<x[1], x[2], rt[i][x[1]][x[2]]>> :
     x \in {x \in AllLocations(m) \X ViaCounts(ask) : rt[i][x[1]][x[2]] # kInvalid(ask)}}
Arrivals(m, ask, rt, i) == Rides(m, ask, PlacesOf(m, ask, rt, i))
Onward(m, ask, places) ==
  Transfers(m, ask, places) \cup WalkTo(m, ask, places) \cup AtDestination(ask, places)

\* A label of round rd or before is as good.
Known(ask, rt, rd, l, v, t) == \E i \in 0..rd : better_or_eq(ask, rt[i][l][v], t)

Explained(m, ask, rt, i, l, v, t) ==
  \/ t = kInvalid(ask)
  \/ Known(ask, rt, i - 1, l, v, t)
  \/ <<l, v, t>> \in Onward(m, ask, Arrivals(m, ask, rt, i - 1))

LabelsExplained(m, ask, rt) ==
  \A i \in Rounds \ {0} : \A l \in AllLocations(m), v \in ViaCounts(ask) :
    Explained(m, ask, rt, i, l, v, rt[i][l][v])

BestKnown(m, ask, st, rd) ==
  \A l \in AllLocations(m), v \in ViaCounts(ask) :
    Known(ask, st.round_times, rd, l, v, st.best[l][v])

\* A label of the round that is better than the best has been pruned, and would be again.
Pruned(m, ask, st, rd) ==
  \A l \in AllLocations(m), v \in ViaCounts(ask) :
    better(ask, st.round_times[rd][l][v], st.best[l][v])
      => ~Promising(ask, st, rd, l, st.round_times[rd][l][v])

(***************************************************************************)
(* Where an arrival at l at t leads to on foot, and that all of it is      *)
(* known: by the round rd, or earlier.                                     *)
(***************************************************************************)
ChangeTime(m, ask, l, v, w) ==
  (IF ~ask.intermodal /\ w = Vias(ask) /\ l \in ask.is_dest THEN 0
   ELSE adjusted_transfer_time(ask, m.transfer_time[l])) + via_stay(ask, v, w)
Changed(m, ask, l, v, t, w) == clamp(t + ask.dir * ChangeTime(m, ask, l, v, w))
Walked(ask, d, v, y, z, t) ==
  clamp(t + ask.dir * (d + via_stay(ask, v, y) + via_stay(ask, y, z)))

ChangeKnown(m, ask, rt, rd, l, v, t) ==
  \A w \in next_via_states(ask, l, v) : Known(ask, rt, rd, l, w, Changed(m, ask, l, v, t, w))
WalkKnown(ask, rt, rd, l, v, t, target, d) ==
  \A y \in next_via_states(ask, l, v) : \A z \in next_via_states(ask, target, y) :
    Known(ask, rt, rd, target, z, Walked(ask, d, v, y, z, t))
Settled(m, ask, rt, rd, l, v, t) ==
  /\ ChangeKnown(m, ask, rt, rd, l, v, t)
  /\ \A walk \in WalksFrom(m, ask, l, t) :
       WalkKnown(ask, rt, rd, l, v, t, walk.target, walk.duration)

ArrivalsAre(m, ask, st, rd, marks) ==
  \A l \in AllLocations(m), v \in ViaCounts(ask) :
    \/ st.tmp[l][v] = kInvalid(ask)
    \/ Settled(m, ask, st.round_times, rd - 1, l, v, st.tmp[l][v])
    \/ l \in marks /\ <<l, v, st.tmp[l][v]>> \in Arrivals(m, ask, st.round_times, rd - 1)

-----------------------------------------------------------------------------
(***************************************************************************)
(* The inductive invariant.                                                *)
(***************************************************************************)
Control ==
  /\ search \in Searches
  /\ todo \in Seq({search.starts[i] : i \in DOMAIN search.starts})
  /\ pc \in {"start", "begin", "ride", "walk", "collect"}
  /\ pc # "start" => todo # <<>>
  /\ pc = "begin" => k \in 1..end_k
  /\ pc \in {"ride", "walk"} => k \in 1..end_k - 1
  /\ marked.routes \subseteq DOMAIN n.routes /\ marked.rt_transports \subseteq DOMAIN n.rt_transports

InBegin(m, ask, st, rd) == BestKnown(m, ask, st, rd - 1) /\ ArrivalsAre(m, ask, st, rd, {})
InRide(m, ask, st, rd, marks) ==
  BestKnown(m, ask, st, rd) /\ Pruned(m, ask, st, rd) /\ ArrivalsAre(m, ask, st, rd, marks)

RaptorInv ==
  /\ Control
  /\ s \in States(n, q) /\ LabelsExplained(n, q, s.round_times)
  /\ pc = "begin" => InBegin(n, q, s, k)
  /\ pc = "ride" => InRide(n, q, s, k, {})
  /\ pc = "walk" => InRide(n, q, s, k, s.prev_station_mark)

-----------------------------------------------------------------------------
(***************************************************************************)
(* Times, in either direction.                                             *)
(***************************************************************************)
LEMMA Order ==
  ASSUME NEW ask, ask.dir \in {1, -1}, NEW a \in Int, NEW b \in Int, NEW c \in Int
  PROVE  /\ better(ask, a, b) <=> ~better_or_eq(ask, b, a)
         /\ better_or_eq(ask, a, a)
         /\ better_or_eq(ask, a, b) /\ better_or_eq(ask, b, c) => better_or_eq(ask, a, c)
         /\ better_or_eq(ask, a, b) /\ better_or_eq(ask, b, a) => a = b
<1>1. CASE ask.dir = 1
  BY <1>1 DEF better, better_or_eq, is_better, is_better_or_eq
<1>2. CASE ask.dir = -1
  BY <1>2 DEF better, better_or_eq, is_better, is_better_or_eq
<1> QED
  BY <1>1, <1>2

LEMMA StrictOrder ==
  ASSUME NEW ask, ask.dir \in {1, -1}, NEW a \in Int, NEW b \in Int, NEW c \in Int,
         better(ask, a, b)
  PROVE  better_or_eq(ask, a, b) /\ (better_or_eq(ask, b, c) => better(ask, a, c))
<1>1. CASE ask.dir = 1
  BY <1>1 DEF better, better_or_eq, is_better, is_better_or_eq
<1>2. CASE ask.dir = -1
  BY <1>2 DEF better, better_or_eq, is_better, is_better_or_eq
<1> QED
  BY <1>1, <1>2

LEMMA BestOf ==
  ASSUME NEW ask, ask.dir \in {1, -1}, NEW a \in Int, NEW b \in Int
  PROVE  /\ best_of(ask, a, b) \in {a, b}
         /\ better_or_eq(ask, best_of(ask, a, b), a) /\ better_or_eq(ask, best_of(ask, a, b), b)
         /\ better(ask, a, b) => best_of(ask, a, b) = a
         /\ better_or_eq(ask, b, a) => best_of(ask, a, b) = b
<1>1. CASE ask.dir = 1
  BY <1>1 DEF best_of, get_best, better, better_or_eq, is_better, is_better_or_eq
<1>2. CASE ask.dir = -1
  BY <1>2 DEF best_of, get_best, better, better_or_eq, is_better, is_better_or_eq
<1> QED
  BY <1>1, <1>2

LEMMA TimeFacts ==
  ASSUME NEW ask, ask.dir \in {1, -1}
  PROVE  /\ kInvalid(ask) \in LabelTimes(ask) /\ kInvalid(ask) \in Int
         /\ \A t \in LabelTimes(ask) : t \in Int /\ better_or_eq(ask, t, kInvalid(ask))
<1>1. CASE ask.dir = 1
  BY <1>1, LabelAssumption DEF LabelTimes, kInvalid, kFirst, better_or_eq, is_better_or_eq
<1>2. CASE ask.dir = -1
  BY <1>2, LabelAssumption DEF LabelTimes, kInvalid, kFirst, better_or_eq, is_better_or_eq
<1> QED
  BY <1>1, <1>2

\* What comes after a label is a label, or too late for one.
LEMMA ClampedAfter ==
  ASSUME NEW ask, ask.dir \in {1, -1}, NEW t \in LabelTimes(ask), NEW x \in Int,
         better_or_eq(ask, t, x)
  PROVE  clamp(x) \in LabelTimes(ask) /\ (clamp(x) = kInvalid(ask) \/ clamp(x) = x)
<1>1. CASE ask.dir = 1
  BY <1>1, LabelAssumption DEF LabelTimes, kInvalid, kFirst, better_or_eq, is_better_or_eq, clamp
<1>2. CASE ask.dir = -1
  BY <1>2, LabelAssumption DEF LabelTimes, kInvalid, kFirst, better_or_eq, is_better_or_eq, clamp
<1> QED
  BY <1>1, <1>2

LEMMA ClampedIsInt ==
  ASSUME NEW x \in Int
  PROVE  clamp(x) \in Int /\ clamp(x) \in -MaxDelta - 1..MaxDelta
BY LabelAssumption DEF clamp

LEMMA ClampedWalk ==
  ASSUME NEW ask, ask.dir \in {1, -1}, NEW t \in LabelTimes(ask), NEW d \in Nat
  PROVE  /\ clamp(t + ask.dir * d) \in LabelTimes(ask)
         /\ clamp(t + ask.dir * d) = kInvalid(ask) \/ clamp(t + ask.dir * d) = t + ask.dir * d
<1>1. t \in Int
  BY TimeFacts
<1> DEFINE x == t + ask.dir * d
<1>2. CASE ask.dir = 1
  BY <1>1, <1>2, LabelAssumption DEF LabelTimes, kInvalid, kFirst, clamp
<1>3. CASE ask.dir = -1
  BY <1>1, <1>3, LabelAssumption DEF LabelTimes, kInvalid, kFirst, clamp
<1> QED
  BY <1>2, <1>3

(***************************************************************************)
(* A transport that a label boards, with times as they are clamped: it     *)
(* leaves after the label, or only labels that are none have boarded it.   *)
(***************************************************************************)
LEMMA ClampedBoarding ==
  ASSUME NEW ask, ask.dir \in {1, -1}, NEW t \in LabelTimes(ask), NEW x \in Int, NEW y \in Int,
         better_or_eq(ask, t, clamp(x)), better_or_eq(ask, x, y)
  PROVE  \/ t # kInvalid(ask) /\ better_or_eq(ask, t, x) /\ better_or_eq(ask, t, y)
         \/ clamp(y) = kInvalid(ask)
<1>1. CASE ask.dir = 1
  BY <1>1, LabelAssumption DEF LabelTimes, kInvalid, kFirst, better_or_eq, is_better_or_eq, clamp
<1>2. CASE ask.dir = -1
  BY <1>2, LabelAssumption DEF LabelTimes, kInvalid, kFirst, better_or_eq, is_better_or_eq, clamp
<1> QED
  BY <1>1, <1>2

-----------------------------------------------------------------------------
(***************************************************************************)
(* The order of a loop is one of the elements that are there.              *)
(***************************************************************************)
LEMMA LastOf ==
  ASSUME NEW T, T \subseteq Int, IsFiniteSet(T), T # {}
  PROVE  last_of(T) \in T /\ \A x \in T : last_of(T) >= x
<1>1. \E x \in T : \A y \in T : x >= y
  <2>1. T \in SUBSET Int
    OBVIOUS
  <2> QED
    BY <2>1, HighestOfFinite
<1> QED
  BY <1>1 DEF last_of

Numbers(S) == S \subseteq Int /\ IsFiniteSet(S)

Last(S) == [T \in SUBSET S |-> last_of(T)]
Any(S) == [T \in SUBSET S |-> any_of(T)]

LEMMA Picks ==
  ASSUME NEW S, S \subseteq Int, IsFiniteSet(S)
  PROVE  \A T \in SUBSET S : T # {} => last_of(T) \in T /\ \A x \in T : last_of(T) >= x
<1>1. ASSUME NEW T \in SUBSET S, T # {} PROVE last_of(T) \in T /\ \A x \in T : last_of(T) >= x
  BY <1>1, FS_Subset, LastOf
<1> QED
  BY <1>1

LEMMA AnyOf ==
  ASSUME NEW T, T # {}
  PROVE  any_of(T) \in T
BY DEF any_of

LEMMA LastChooses ==
  ASSUME NEW S, Numbers(S)
  PROVE  IsFiniteSet(S) /\ Chooses(Last(S), S)
BY Picks DEF Numbers, Chooses, Last

LEMMA AnyChooses ==
  ASSUME NEW S, IsFiniteSet(S)
  PROVE  IsFiniteSet(S) /\ Chooses(Any(S), S)
BY AnyOf DEF Chooses, Any

-----------------------------------------------------------------------------
(***************************************************************************)
(* The loops of the walks: each body that goes forward makes a loop that   *)
(* goes forward.                                                           *)
(***************************************************************************)
EachTransfer(m, ask, rd, l, v, base, S) ==
  ForEach(LAMBDA a, x : Transfer(m, ask, rd, l, v, a, x), base, S)

LEMMA TransferLoop ==
  ASSUME NEW m, NEW ask, NEW rd, NEW l, NEW v, NEW base, NEW S, Numbers(S),
         NEW A, NEW R, NEW D, Forward(S, A, base, R, D),
         \A x \in S : \A a \in A : Goes(a, Transfer(m, ask, rd, l, v, a, x), x, A, R, D)
  PROVE  Arrives(EachTransfer(m, ask, rd, l, v, base, S), S, base, A, R, D)
<1> DEFINE F == [p \in A \X S |-> Transfer(m, ask, rd, l, v, p[1], p[2])]
           After(f) == [T \in SUBSET S |->
                          IF T = {} THEN base
                          ELSE Transfer(m, ask, rd, l, v, f[T \ {last_of(T)}], last_of(T))]
           iter == CHOOSE f : f = After(f)
<1>1. IsFiniteSet(S) /\ Chooses(Last(S), S)
  BY LastChooses
<1>2. base \in A /\ F \in [A \X S -> A]
  BY DEF Goes, Forward
<1>3. PICK f \in [SUBSET S -> A] : Follows(f, F, Last(S), base, S)
  <2> HIDE DEF F
  <2> QED
    BY <1>1, <1>2, StatesExist
<1>4. f = After(f)
  <2>1. ASSUME NEW T \in SUBSET S, T # {}
        PROVE  f[T] = Transfer(m, ask, rd, l, v, f[T \ {last_of(T)}], last_of(T))
    <3>1. last_of(T) \in S /\ f[T \ {last_of(T)}] \in A
      BY <1>1, <2>1 DEF Chooses, Last
    <3>2. f[T] = F[<<f[T \ {last_of(T)}], last_of(T)>>]
      BY <1>3, <2>1 DEF Follows, Last
    <3> QED
      BY <3>1, <3>2
  <2>2. f[{}] = base
    BY <1>3 DEF Follows
  <2> QED
    BY <2>1, <2>2
<1>5. iter = After(iter)
  BY <1>4
<1>6. EachTransfer(m, ask, rd, l, v, base, S) = iter[S]
  BY DEF EachTransfer, ForEach, MapThenFoldSet
<1> HIDE DEF iter
<1>7. iter[{}] = base
  BY <1>5
<1>8. Passes(iter, Last(S), S, A, R, D)
  <2>1. ASSUME NEW T \in SUBSET S, T # {}, iter[T \ {last_of(T)}] \in A
        PROVE  Goes(iter[T \ {last_of(T)}], iter[T], last_of(T), A, R, D)
    <3>1. last_of(T) \in S
      BY <1>1, <2>1 DEF Chooses, Last
    <3>2. iter[T] = Transfer(m, ask, rd, l, v, iter[T \ {last_of(T)}], last_of(T))
      BY <1>5, <2>1
    <3> QED
      BY <2>1, <3>1, <3>2
  <2> QED
    BY <2>1 DEF Passes, Last
<1> QED
  BY <1>1, <1>6, <1>7, <1>8, LoopAdvances

EachTransferFrom(m, ask, rd, l, base, S) ==
  ForEach(LAMBDA a, x : TransferFrom(m, ask, rd, l, a, x), base, S)

LEMMA TransferFromLoop ==
  ASSUME NEW m, NEW ask, NEW rd, NEW l, NEW base, NEW S, Numbers(S),
         NEW A, NEW R, NEW D, Forward(S, A, base, R, D),
         \A x \in S : \A a \in A : Goes(a, TransferFrom(m, ask, rd, l, a, x), x, A, R, D)
  PROVE  Arrives(EachTransferFrom(m, ask, rd, l, base, S), S, base, A, R, D)
<1> DEFINE F == [p \in A \X S |-> TransferFrom(m, ask, rd, l, p[1], p[2])]
           After(f) == [T \in SUBSET S |->
                          IF T = {} THEN base
                          ELSE TransferFrom(m, ask, rd, l, f[T \ {last_of(T)}], last_of(T))]
           iter == CHOOSE f : f = After(f)
<1>1. IsFiniteSet(S) /\ Chooses(Last(S), S)
  BY LastChooses
<1>2. base \in A /\ F \in [A \X S -> A]
  BY DEF Goes, Forward
<1>3. PICK f \in [SUBSET S -> A] : Follows(f, F, Last(S), base, S)
  <2> HIDE DEF F
  <2> QED
    BY <1>1, <1>2, StatesExist
<1>4. f = After(f)
  <2>1. ASSUME NEW T \in SUBSET S, T # {}
        PROVE  f[T] = TransferFrom(m, ask, rd, l, f[T \ {last_of(T)}], last_of(T))
    <3>1. last_of(T) \in S /\ f[T \ {last_of(T)}] \in A
      BY <1>1, <2>1 DEF Chooses, Last
    <3>2. f[T] = F[<<f[T \ {last_of(T)}], last_of(T)>>]
      BY <1>3, <2>1 DEF Follows, Last
    <3> QED
      BY <3>1, <3>2
  <2>2. f[{}] = base
    BY <1>3 DEF Follows
  <2> QED
    BY <2>1, <2>2
<1>5. iter = After(iter)
  BY <1>4
<1>6. EachTransferFrom(m, ask, rd, l, base, S) = iter[S]
  BY DEF EachTransferFrom, ForEach, MapThenFoldSet
<1> HIDE DEF iter
<1>7. iter[{}] = base
  BY <1>5
<1>8. Passes(iter, Last(S), S, A, R, D)
  <2>1. ASSUME NEW T \in SUBSET S, T # {}, iter[T \ {last_of(T)}] \in A
        PROVE  Goes(iter[T \ {last_of(T)}], iter[T], last_of(T), A, R, D)
    <3>1. last_of(T) \in S
      BY <1>1, <2>1 DEF Chooses, Last
    <3>2. iter[T] = TransferFrom(m, ask, rd, l, iter[T \ {last_of(T)}], last_of(T))
      BY <1>5, <2>1
    <3> QED
      BY <2>1, <3>1, <3>2
  <2> QED
    BY <2>1 DEF Passes, Last
<1> QED
  BY <1>1, <1>6, <1>7, <1>8, LoopAdvances

EachTransfersAt(m, ask, rd, base, S) ==
  ForEach(LAMBDA a, x : TransfersAt(m, ask, rd, a, x), base, S)

LEMMA TransfersAtLoop ==
  ASSUME NEW m, NEW ask, NEW rd, NEW base, NEW S, Numbers(S),
         NEW A, NEW R, NEW D, Forward(S, A, base, R, D),
         \A x \in S : \A a \in A : Goes(a, TransfersAt(m, ask, rd, a, x), x, A, R, D)
  PROVE  Arrives(EachTransfersAt(m, ask, rd, base, S), S, base, A, R, D)
<1> DEFINE F == [p \in A \X S |-> TransfersAt(m, ask, rd, p[1], p[2])]
           After(f) == [T \in SUBSET S |->
                          IF T = {} THEN base
                          ELSE TransfersAt(m, ask, rd, f[T \ {last_of(T)}], last_of(T))]
           iter == CHOOSE f : f = After(f)
<1>1. IsFiniteSet(S) /\ Chooses(Last(S), S)
  BY LastChooses
<1>2. base \in A /\ F \in [A \X S -> A]
  BY DEF Goes, Forward
<1>3. PICK f \in [SUBSET S -> A] : Follows(f, F, Last(S), base, S)
  <2> HIDE DEF F
  <2> QED
    BY <1>1, <1>2, StatesExist
<1>4. f = After(f)
  <2>1. ASSUME NEW T \in SUBSET S, T # {}
        PROVE  f[T] = TransfersAt(m, ask, rd, f[T \ {last_of(T)}], last_of(T))
    <3>1. last_of(T) \in S /\ f[T \ {last_of(T)}] \in A
      BY <1>1, <2>1 DEF Chooses, Last
    <3>2. f[T] = F[<<f[T \ {last_of(T)}], last_of(T)>>]
      BY <1>3, <2>1 DEF Follows, Last
    <3> QED
      BY <3>1, <3>2
  <2>2. f[{}] = base
    BY <1>3 DEF Follows
  <2> QED
    BY <2>1, <2>2
<1>5. iter = After(iter)
  BY <1>4
<1>6. EachTransfersAt(m, ask, rd, base, S) = iter[S]
  BY DEF EachTransfersAt, ForEach, MapThenFoldSet
<1> HIDE DEF iter
<1>7. iter[{}] = base
  BY <1>5
<1>8. Passes(iter, Last(S), S, A, R, D)
  <2>1. ASSUME NEW T \in SUBSET S, T # {}, iter[T \ {last_of(T)}] \in A
        PROVE  Goes(iter[T \ {last_of(T)}], iter[T], last_of(T), A, R, D)
    <3>1. last_of(T) \in S
      BY <1>1, <2>1 DEF Chooses, Last
    <3>2. iter[T] = TransfersAt(m, ask, rd, iter[T \ {last_of(T)}], last_of(T))
      BY <1>5, <2>1
    <3> QED
      BY <2>1, <3>1, <3>2
  <2> QED
    BY <2>1 DEF Passes, Last
<1> QED
  BY <1>1, <1>6, <1>7, <1>8, LoopAdvances

EachArrive(m, ask, rd, walk, sv, base, S) ==
  ForEach(LAMBDA a, x : Arrive(m, ask, rd, walk, sv, a, x), base, S)

LEMMA ArriveLoop ==
  ASSUME NEW m, NEW ask, NEW rd, NEW walk, NEW sv, NEW base, NEW S, Numbers(S),
         NEW A, NEW R, NEW D, Forward(S, A, base, R, D),
         \A x \in S : \A a \in A : Goes(a, Arrive(m, ask, rd, walk, sv, a, x), x, A, R, D)
  PROVE  Arrives(EachArrive(m, ask, rd, walk, sv, base, S), S, base, A, R, D)
<1> DEFINE F == [p \in A \X S |-> Arrive(m, ask, rd, walk, sv, p[1], p[2])]
           After(f) == [T \in SUBSET S |->
                          IF T = {} THEN base
                          ELSE Arrive(m, ask, rd, walk, sv, f[T \ {last_of(T)}], last_of(T))]
           iter == CHOOSE f : f = After(f)
<1>1. IsFiniteSet(S) /\ Chooses(Last(S), S)
  BY LastChooses
<1>2. base \in A /\ F \in [A \X S -> A]
  BY DEF Goes, Forward
<1>3. PICK f \in [SUBSET S -> A] : Follows(f, F, Last(S), base, S)
  <2> HIDE DEF F
  <2> QED
    BY <1>1, <1>2, StatesExist
<1>4. f = After(f)
  <2>1. ASSUME NEW T \in SUBSET S, T # {}
        PROVE  f[T] = Arrive(m, ask, rd, walk, sv, f[T \ {last_of(T)}], last_of(T))
    <3>1. last_of(T) \in S /\ f[T \ {last_of(T)}] \in A
      BY <1>1, <2>1 DEF Chooses, Last
    <3>2. f[T] = F[<<f[T \ {last_of(T)}], last_of(T)>>]
      BY <1>3, <2>1 DEF Follows, Last
    <3> QED
      BY <3>1, <3>2
  <2>2. f[{}] = base
    BY <1>3 DEF Follows
  <2> QED
    BY <2>1, <2>2
<1>5. iter = After(iter)
  BY <1>4
<1>6. EachArrive(m, ask, rd, walk, sv, base, S) = iter[S]
  BY DEF EachArrive, ForEach, MapThenFoldSet
<1> HIDE DEF iter
<1>7. iter[{}] = base
  BY <1>5
<1>8. Passes(iter, Last(S), S, A, R, D)
  <2>1. ASSUME NEW T \in SUBSET S, T # {}, iter[T \ {last_of(T)}] \in A
        PROVE  Goes(iter[T \ {last_of(T)}], iter[T], last_of(T), A, R, D)
    <3>1. last_of(T) \in S
      BY <1>1, <2>1 DEF Chooses, Last
    <3>2. iter[T] = Arrive(m, ask, rd, walk, sv, iter[T \ {last_of(T)}], last_of(T))
      BY <1>5, <2>1
    <3> QED
      BY <2>1, <3>1, <3>2
  <2> QED
    BY <2>1 DEF Passes, Last
<1> QED
  BY <1>1, <1>6, <1>7, <1>8, LoopAdvances

EachLeave(m, ask, rd, walk, base, S) ==
  ForEach(LAMBDA a, x : Leave(m, ask, rd, walk, a, x), base, S)

LEMMA LeaveLoop ==
  ASSUME NEW m, NEW ask, NEW rd, NEW walk, NEW base, NEW S, Numbers(S),
         NEW A, NEW R, NEW D, Forward(S, A, base, R, D),
         \A x \in S : \A a \in A : Goes(a, Leave(m, ask, rd, walk, a, x), x, A, R, D)
  PROVE  Arrives(EachLeave(m, ask, rd, walk, base, S), S, base, A, R, D)
<1> DEFINE F == [p \in A \X S |-> Leave(m, ask, rd, walk, p[1], p[2])]
           After(f) == [T \in SUBSET S |->
                          IF T = {} THEN base
                          ELSE Leave(m, ask, rd, walk, f[T \ {last_of(T)}], last_of(T))]
           iter == CHOOSE f : f = After(f)
<1>1. IsFiniteSet(S) /\ Chooses(Last(S), S)
  BY LastChooses
<1>2. base \in A /\ F \in [A \X S -> A]
  BY DEF Goes, Forward
<1>3. PICK f \in [SUBSET S -> A] : Follows(f, F, Last(S), base, S)
  <2> HIDE DEF F
  <2> QED
    BY <1>1, <1>2, StatesExist
<1>4. f = After(f)
  <2>1. ASSUME NEW T \in SUBSET S, T # {}
        PROVE  f[T] = Leave(m, ask, rd, walk, f[T \ {last_of(T)}], last_of(T))
    <3>1. last_of(T) \in S /\ f[T \ {last_of(T)}] \in A
      BY <1>1, <2>1 DEF Chooses, Last
    <3>2. f[T] = F[<<f[T \ {last_of(T)}], last_of(T)>>]
      BY <1>3, <2>1 DEF Follows, Last
    <3> QED
      BY <3>1, <3>2
  <2>2. f[{}] = base
    BY <1>3 DEF Follows
  <2> QED
    BY <2>1, <2>2
<1>5. iter = After(iter)
  BY <1>4
<1>6. EachLeave(m, ask, rd, walk, base, S) = iter[S]
  BY DEF EachLeave, ForEach, MapThenFoldSet
<1> HIDE DEF iter
<1>7. iter[{}] = base
  BY <1>5
<1>8. Passes(iter, Last(S), S, A, R, D)
  <2>1. ASSUME NEW T \in SUBSET S, T # {}, iter[T \ {last_of(T)}] \in A
        PROVE  Goes(iter[T \ {last_of(T)}], iter[T], last_of(T), A, R, D)
    <3>1. last_of(T) \in S
      BY <1>1, <2>1 DEF Chooses, Last
    <3>2. iter[T] = Leave(m, ask, rd, walk, iter[T \ {last_of(T)}], last_of(T))
      BY <1>5, <2>1
    <3> QED
      BY <2>1, <3>1, <3>2
  <2> QED
    BY <2>1 DEF Passes, Last
<1> QED
  BY <1>1, <1>6, <1>7, <1>8, LoopAdvances

EachFootpathWith(m, ask, rd, fp, base, S) ==
  ForEach(LAMBDA a, x : FootpathWith(m, ask, rd, fp, a, x), base, S)

LEMMA FootpathWithLoop ==
  ASSUME NEW m, NEW ask, NEW rd, NEW fp, NEW base, NEW S, Numbers(S),
         NEW A, NEW R, NEW D, Forward(S, A, base, R, D),
         \A x \in S : \A a \in A : Goes(a, FootpathWith(m, ask, rd, fp, a, x), x, A, R, D)
  PROVE  Arrives(EachFootpathWith(m, ask, rd, fp, base, S), S, base, A, R, D)
<1> DEFINE F == [p \in A \X S |-> FootpathWith(m, ask, rd, fp, p[1], p[2])]
           After(f) == [T \in SUBSET S |->
                          IF T = {} THEN base
                          ELSE FootpathWith(m, ask, rd, fp, f[T \ {last_of(T)}], last_of(T))]
           iter == CHOOSE f : f = After(f)
<1>1. IsFiniteSet(S) /\ Chooses(Last(S), S)
  BY LastChooses
<1>2. base \in A /\ F \in [A \X S -> A]
  BY DEF Goes, Forward
<1>3. PICK f \in [SUBSET S -> A] : Follows(f, F, Last(S), base, S)
  <2> HIDE DEF F
  <2> QED
    BY <1>1, <1>2, StatesExist
<1>4. f = After(f)
  <2>1. ASSUME NEW T \in SUBSET S, T # {}
        PROVE  f[T] = FootpathWith(m, ask, rd, fp, f[T \ {last_of(T)}], last_of(T))
    <3>1. last_of(T) \in S /\ f[T \ {last_of(T)}] \in A
      BY <1>1, <2>1 DEF Chooses, Last
    <3>2. f[T] = F[<<f[T \ {last_of(T)}], last_of(T)>>]
      BY <1>3, <2>1 DEF Follows, Last
    <3> QED
      BY <3>1, <3>2
  <2>2. f[{}] = base
    BY <1>3 DEF Follows
  <2> QED
    BY <2>1, <2>2
<1>5. iter = After(iter)
  BY <1>4
<1>6. EachFootpathWith(m, ask, rd, fp, base, S) = iter[S]
  BY DEF EachFootpathWith, ForEach, MapThenFoldSet
<1> HIDE DEF iter
<1>7. iter[{}] = base
  BY <1>5
<1>8. Passes(iter, Last(S), S, A, R, D)
  <2>1. ASSUME NEW T \in SUBSET S, T # {}, iter[T \ {last_of(T)}] \in A
        PROVE  Goes(iter[T \ {last_of(T)}], iter[T], last_of(T), A, R, D)
    <3>1. last_of(T) \in S
      BY <1>1, <2>1 DEF Chooses, Last
    <3>2. iter[T] = FootpathWith(m, ask, rd, fp, iter[T \ {last_of(T)}], last_of(T))
      BY <1>5, <2>1
    <3> QED
      BY <2>1, <3>1, <3>2
  <2> QED
    BY <2>1 DEF Passes, Last
<1> QED
  BY <1>1, <1>6, <1>7, <1>8, LoopAdvances

EachFootpath(m, ask, rd, base, S) ==
  ForAny(LAMBDA a, x : Footpath(m, ask, rd, a, x), base, S)

LEMMA FootpathLoop ==
  ASSUME NEW m, NEW ask, NEW rd, NEW base, NEW S, IsFiniteSet(S),
         NEW A, NEW R, NEW D, Forward(S, A, base, R, D),
         \A x \in S : \A a \in A : Goes(a, Footpath(m, ask, rd, a, x), x, A, R, D)
  PROVE  Arrives(EachFootpath(m, ask, rd, base, S), S, base, A, R, D)
<1> DEFINE F == [p \in A \X S |-> Footpath(m, ask, rd, p[1], p[2])]
           After(f) == [T \in SUBSET S |->
                          IF T = {} THEN base
                          ELSE Footpath(m, ask, rd, f[T \ {any_of(T)}], any_of(T))]
           iter == CHOOSE f : f = After(f)
<1>1. IsFiniteSet(S) /\ Chooses(Any(S), S)
  BY AnyChooses
<1>2. base \in A /\ F \in [A \X S -> A]
  BY DEF Goes, Forward
<1>3. PICK f \in [SUBSET S -> A] : Follows(f, F, Any(S), base, S)
  <2> HIDE DEF F
  <2> QED
    BY <1>1, <1>2, StatesExist
<1>4. f = After(f)
  <2>1. ASSUME NEW T \in SUBSET S, T # {}
        PROVE  f[T] = Footpath(m, ask, rd, f[T \ {any_of(T)}], any_of(T))
    <3>1. any_of(T) \in S /\ f[T \ {any_of(T)}] \in A
      BY <1>1, <2>1 DEF Chooses, Any
    <3>2. f[T] = F[<<f[T \ {any_of(T)}], any_of(T)>>]
      BY <1>3, <2>1 DEF Follows, Any
    <3> QED
      BY <3>1, <3>2
  <2>2. f[{}] = base
    BY <1>3 DEF Follows
  <2> QED
    BY <2>1, <2>2
<1>5. iter = After(iter)
  BY <1>4
<1>6. EachFootpath(m, ask, rd, base, S) = iter[S]
  BY DEF EachFootpath, ForAny, MapThenFoldSet
<1> HIDE DEF iter
<1>7. iter[{}] = base
  BY <1>5
<1>8. Passes(iter, Any(S), S, A, R, D)
  <2>1. ASSUME NEW T \in SUBSET S, T # {}, iter[T \ {any_of(T)}] \in A
        PROVE  Goes(iter[T \ {any_of(T)}], iter[T], any_of(T), A, R, D)
    <3>1. any_of(T) \in S
      BY <1>1, <2>1 DEF Chooses, Any
    <3>2. iter[T] = Footpath(m, ask, rd, iter[T \ {any_of(T)}], any_of(T))
      BY <1>5, <2>1
    <3> QED
      BY <2>1, <3>1, <3>2
  <2> QED
    BY <2>1 DEF Passes, Any
<1> QED
  BY <1>1, <1>6, <1>7, <1>8, LoopAdvances

EachFootpathsAt(m, ask, rd, base, S) ==
  ForEach(LAMBDA a, x : FootpathsAt(m, ask, rd, a, x), base, S)

LEMMA FootpathsAtLoop ==
  ASSUME NEW m, NEW ask, NEW rd, NEW base, NEW S, Numbers(S),
         NEW A, NEW R, NEW D, Forward(S, A, base, R, D),
         \A x \in S : \A a \in A : Goes(a, FootpathsAt(m, ask, rd, a, x), x, A, R, D)
  PROVE  Arrives(EachFootpathsAt(m, ask, rd, base, S), S, base, A, R, D)
<1> DEFINE F == [p \in A \X S |-> FootpathsAt(m, ask, rd, p[1], p[2])]
           After(f) == [T \in SUBSET S |->
                          IF T = {} THEN base
                          ELSE FootpathsAt(m, ask, rd, f[T \ {last_of(T)}], last_of(T))]
           iter == CHOOSE f : f = After(f)
<1>1. IsFiniteSet(S) /\ Chooses(Last(S), S)
  BY LastChooses
<1>2. base \in A /\ F \in [A \X S -> A]
  BY DEF Goes, Forward
<1>3. PICK f \in [SUBSET S -> A] : Follows(f, F, Last(S), base, S)
  <2> HIDE DEF F
  <2> QED
    BY <1>1, <1>2, StatesExist
<1>4. f = After(f)
  <2>1. ASSUME NEW T \in SUBSET S, T # {}
        PROVE  f[T] = FootpathsAt(m, ask, rd, f[T \ {last_of(T)}], last_of(T))
    <3>1. last_of(T) \in S /\ f[T \ {last_of(T)}] \in A
      BY <1>1, <2>1 DEF Chooses, Last
    <3>2. f[T] = F[<<f[T \ {last_of(T)}], last_of(T)>>]
      BY <1>3, <2>1 DEF Follows, Last
    <3> QED
      BY <3>1, <3>2
  <2>2. f[{}] = base
    BY <1>3 DEF Follows
  <2> QED
    BY <2>1, <2>2
<1>5. iter = After(iter)
  BY <1>4
<1>6. EachFootpathsAt(m, ask, rd, base, S) = iter[S]
  BY DEF EachFootpathsAt, ForEach, MapThenFoldSet
<1> HIDE DEF iter
<1>7. iter[{}] = base
  BY <1>5
<1>8. Passes(iter, Last(S), S, A, R, D)
  <2>1. ASSUME NEW T \in SUBSET S, T # {}, iter[T \ {last_of(T)}] \in A
        PROVE  Goes(iter[T \ {last_of(T)}], iter[T], last_of(T), A, R, D)
    <3>1. last_of(T) \in S
      BY <1>1, <2>1 DEF Chooses, Last
    <3>2. iter[T] = FootpathsAt(m, ask, rd, iter[T \ {last_of(T)}], last_of(T))
      BY <1>5, <2>1
    <3> QED
      BY <2>1, <3>1, <3>2
  <2> QED
    BY <2>1 DEF Passes, Last
<1> QED
  BY <1>1, <1>6, <1>7, <1>8, LoopAdvances

EachTdFootpath(m, ask, rd, l, v, base, S) ==
  ForAny(LAMBDA a, x : TdFootpath(m, ask, rd, l, v, a, x), base, S)

LEMMA TdFootpathLoop ==
  ASSUME NEW m, NEW ask, NEW rd, NEW l, NEW v, NEW base, NEW S, IsFiniteSet(S),
         NEW A, NEW R, NEW D, Forward(S, A, base, R, D),
         \A x \in S : \A a \in A : Goes(a, TdFootpath(m, ask, rd, l, v, a, x), x, A, R, D)
  PROVE  Arrives(EachTdFootpath(m, ask, rd, l, v, base, S), S, base, A, R, D)
<1> DEFINE F == [p \in A \X S |-> TdFootpath(m, ask, rd, l, v, p[1], p[2])]
           After(f) == [T \in SUBSET S |->
                          IF T = {} THEN base
                          ELSE TdFootpath(m, ask, rd, l, v, f[T \ {any_of(T)}], any_of(T))]
           iter == CHOOSE f : f = After(f)
<1>1. IsFiniteSet(S) /\ Chooses(Any(S), S)
  BY AnyChooses
<1>2. base \in A /\ F \in [A \X S -> A]
  BY DEF Goes, Forward
<1>3. PICK f \in [SUBSET S -> A] : Follows(f, F, Any(S), base, S)
  <2> HIDE DEF F
  <2> QED
    BY <1>1, <1>2, StatesExist
<1>4. f = After(f)
  <2>1. ASSUME NEW T \in SUBSET S, T # {}
        PROVE  f[T] = TdFootpath(m, ask, rd, l, v, f[T \ {any_of(T)}], any_of(T))
    <3>1. any_of(T) \in S /\ f[T \ {any_of(T)}] \in A
      BY <1>1, <2>1 DEF Chooses, Any
    <3>2. f[T] = F[<<f[T \ {any_of(T)}], any_of(T)>>]
      BY <1>3, <2>1 DEF Follows, Any
    <3> QED
      BY <3>1, <3>2
  <2>2. f[{}] = base
    BY <1>3 DEF Follows
  <2> QED
    BY <2>1, <2>2
<1>5. iter = After(iter)
  BY <1>4
<1>6. EachTdFootpath(m, ask, rd, l, v, base, S) = iter[S]
  BY DEF EachTdFootpath, ForAny, MapThenFoldSet
<1> HIDE DEF iter
<1>7. iter[{}] = base
  BY <1>5
<1>8. Passes(iter, Any(S), S, A, R, D)
  <2>1. ASSUME NEW T \in SUBSET S, T # {}, iter[T \ {any_of(T)}] \in A
        PROVE  Goes(iter[T \ {any_of(T)}], iter[T], any_of(T), A, R, D)
    <3>1. any_of(T) \in S
      BY <1>1, <2>1 DEF Chooses, Any
    <3>2. iter[T] = TdFootpath(m, ask, rd, l, v, iter[T \ {any_of(T)}], any_of(T))
      BY <1>5, <2>1
    <3> QED
      BY <2>1, <3>1, <3>2
  <2> QED
    BY <2>1 DEF Passes, Any
<1> QED
  BY <1>1, <1>6, <1>7, <1>8, LoopAdvances

EachTdFootpathsWith(m, ask, rd, l, base, S) ==
  ForEach(LAMBDA a, x : TdFootpathsWith(m, ask, rd, l, a, x), base, S)

LEMMA TdFootpathsWithLoop ==
  ASSUME NEW m, NEW ask, NEW rd, NEW l, NEW base, NEW S, Numbers(S),
         NEW A, NEW R, NEW D, Forward(S, A, base, R, D),
         \A x \in S : \A a \in A : Goes(a, TdFootpathsWith(m, ask, rd, l, a, x), x, A, R, D)
  PROVE  Arrives(EachTdFootpathsWith(m, ask, rd, l, base, S), S, base, A, R, D)
<1> DEFINE F == [p \in A \X S |-> TdFootpathsWith(m, ask, rd, l, p[1], p[2])]
           After(f) == [T \in SUBSET S |->
                          IF T = {} THEN base
                          ELSE TdFootpathsWith(m, ask, rd, l, f[T \ {last_of(T)}], last_of(T))]
           iter == CHOOSE f : f = After(f)
<1>1. IsFiniteSet(S) /\ Chooses(Last(S), S)
  BY LastChooses
<1>2. base \in A /\ F \in [A \X S -> A]
  BY DEF Goes, Forward
<1>3. PICK f \in [SUBSET S -> A] : Follows(f, F, Last(S), base, S)
  <2> HIDE DEF F
  <2> QED
    BY <1>1, <1>2, StatesExist
<1>4. f = After(f)
  <2>1. ASSUME NEW T \in SUBSET S, T # {}
        PROVE  f[T] = TdFootpathsWith(m, ask, rd, l, f[T \ {last_of(T)}], last_of(T))
    <3>1. last_of(T) \in S /\ f[T \ {last_of(T)}] \in A
      BY <1>1, <2>1 DEF Chooses, Last
    <3>2. f[T] = F[<<f[T \ {last_of(T)}], last_of(T)>>]
      BY <1>3, <2>1 DEF Follows, Last
    <3> QED
      BY <3>1, <3>2
  <2>2. f[{}] = base
    BY <1>3 DEF Follows
  <2> QED
    BY <2>1, <2>2
<1>5. iter = After(iter)
  BY <1>4
<1>6. EachTdFootpathsWith(m, ask, rd, l, base, S) = iter[S]
  BY DEF EachTdFootpathsWith, ForEach, MapThenFoldSet
<1> HIDE DEF iter
<1>7. iter[{}] = base
  BY <1>5
<1>8. Passes(iter, Last(S), S, A, R, D)
  <2>1. ASSUME NEW T \in SUBSET S, T # {}, iter[T \ {last_of(T)}] \in A
        PROVE  Goes(iter[T \ {last_of(T)}], iter[T], last_of(T), A, R, D)
    <3>1. last_of(T) \in S
      BY <1>1, <2>1 DEF Chooses, Last
    <3>2. iter[T] = TdFootpathsWith(m, ask, rd, l, iter[T \ {last_of(T)}], last_of(T))
      BY <1>5, <2>1
    <3> QED
      BY <2>1, <3>1, <3>2
  <2> QED
    BY <2>1 DEF Passes, Last
<1> QED
  BY <1>1, <1>6, <1>7, <1>8, LoopAdvances

EachTdFootpathsAt(m, ask, rd, base, S) ==
  ForEach(LAMBDA a, x : TdFootpathsAt(m, ask, rd, a, x), base, S)

LEMMA TdFootpathsAtLoop ==
  ASSUME NEW m, NEW ask, NEW rd, NEW base, NEW S, Numbers(S),
         NEW A, NEW R, NEW D, Forward(S, A, base, R, D),
         \A x \in S : \A a \in A : Goes(a, TdFootpathsAt(m, ask, rd, a, x), x, A, R, D)
  PROVE  Arrives(EachTdFootpathsAt(m, ask, rd, base, S), S, base, A, R, D)
<1> DEFINE F == [p \in A \X S |-> TdFootpathsAt(m, ask, rd, p[1], p[2])]
           After(f) == [T \in SUBSET S |->
                          IF T = {} THEN base
                          ELSE TdFootpathsAt(m, ask, rd, f[T \ {last_of(T)}], last_of(T))]
           iter == CHOOSE f : f = After(f)
<1>1. IsFiniteSet(S) /\ Chooses(Last(S), S)
  BY LastChooses
<1>2. base \in A /\ F \in [A \X S -> A]
  BY DEF Goes, Forward
<1>3. PICK f \in [SUBSET S -> A] : Follows(f, F, Last(S), base, S)
  <2> HIDE DEF F
  <2> QED
    BY <1>1, <1>2, StatesExist
<1>4. f = After(f)
  <2>1. ASSUME NEW T \in SUBSET S, T # {}
        PROVE  f[T] = TdFootpathsAt(m, ask, rd, f[T \ {last_of(T)}], last_of(T))
    <3>1. last_of(T) \in S /\ f[T \ {last_of(T)}] \in A
      BY <1>1, <2>1 DEF Chooses, Last
    <3>2. f[T] = F[<<f[T \ {last_of(T)}], last_of(T)>>]
      BY <1>3, <2>1 DEF Follows, Last
    <3> QED
      BY <3>1, <3>2
  <2>2. f[{}] = base
    BY <1>3 DEF Follows
  <2> QED
    BY <2>1, <2>2
<1>5. iter = After(iter)
  BY <1>4
<1>6. EachTdFootpathsAt(m, ask, rd, base, S) = iter[S]
  BY DEF EachTdFootpathsAt, ForEach, MapThenFoldSet
<1> HIDE DEF iter
<1>7. iter[{}] = base
  BY <1>5
<1>8. Passes(iter, Last(S), S, A, R, D)
  <2>1. ASSUME NEW T \in SUBSET S, T # {}, iter[T \ {last_of(T)}] \in A
        PROVE  Goes(iter[T \ {last_of(T)}], iter[T], last_of(T), A, R, D)
    <3>1. last_of(T) \in S
      BY <1>1, <2>1 DEF Chooses, Last
    <3>2. iter[T] = TdFootpathsAt(m, ask, rd, iter[T \ {last_of(T)}], last_of(T))
      BY <1>5, <2>1
    <3> QED
      BY <2>1, <3>1, <3>2
  <2> QED
    BY <2>1 DEF Passes, Last
<1> QED
  BY <1>1, <1>6, <1>7, <1>8, LoopAdvances

EachToEnd(ask, rd, base, S) ==
  ForEach(LAMBDA a, x : TdOffsetFrom(ask, rd, OffsetFrom(ask, rd, a, x), x), base, S)

LEMMA ToEndLoop ==
  ASSUME NEW ask, NEW rd, NEW base, NEW S, Numbers(S),
         NEW A, NEW R, NEW D, Forward(S, A, base, R, D),
         \A x \in S : \A a \in A : Goes(a, TdOffsetFrom(ask, rd, OffsetFrom(ask, rd, a, x), x), x, A, R, D)
  PROVE  Arrives(EachToEnd(ask, rd, base, S), S, base, A, R, D)
<1> DEFINE F == [p \in A \X S |-> TdOffsetFrom(ask, rd, OffsetFrom(ask, rd, p[1], p[2]), p[2])]
           After(f) == [T \in SUBSET S |->
                          IF T = {} THEN base
                          ELSE TdOffsetFrom(ask, rd, OffsetFrom(ask, rd, f[T \ {last_of(T)}], last_of(T)), last_of(T))]
           iter == CHOOSE f : f = After(f)
<1>1. IsFiniteSet(S) /\ Chooses(Last(S), S)
  BY LastChooses
<1>2. base \in A /\ F \in [A \X S -> A]
  BY DEF Goes, Forward
<1>3. PICK f \in [SUBSET S -> A] : Follows(f, F, Last(S), base, S)
  <2> HIDE DEF F
  <2> QED
    BY <1>1, <1>2, StatesExist
<1>4. f = After(f)
  <2>1. ASSUME NEW T \in SUBSET S, T # {}
        PROVE  f[T] = TdOffsetFrom(ask, rd, OffsetFrom(ask, rd, f[T \ {last_of(T)}], last_of(T)), last_of(T))
    <3>1. last_of(T) \in S /\ f[T \ {last_of(T)}] \in A
      BY <1>1, <2>1 DEF Chooses, Last
    <3>2. f[T] = F[<<f[T \ {last_of(T)}], last_of(T)>>]
      BY <1>3, <2>1 DEF Follows, Last
    <3> QED
      BY <3>1, <3>2
  <2>2. f[{}] = base
    BY <1>3 DEF Follows
  <2> QED
    BY <2>1, <2>2
<1>5. iter = After(iter)
  BY <1>4
<1>6. EachToEnd(ask, rd, base, S) = iter[S]
  BY DEF EachToEnd, ForEach, MapThenFoldSet
<1> HIDE DEF iter
<1>7. iter[{}] = base
  BY <1>5
<1>8. Passes(iter, Last(S), S, A, R, D)
  <2>1. ASSUME NEW T \in SUBSET S, T # {}, iter[T \ {last_of(T)}] \in A
        PROVE  Goes(iter[T \ {last_of(T)}], iter[T], last_of(T), A, R, D)
    <3>1. last_of(T) \in S
      BY <1>1, <2>1 DEF Chooses, Last
    <3>2. iter[T] = TdOffsetFrom(ask, rd, OffsetFrom(ask, rd, iter[T \ {last_of(T)}], last_of(T)), last_of(T))
      BY <1>5, <2>1
    <3> QED
      BY <2>1, <3>1, <3>2
  <2> QED
    BY <2>1 DEF Passes, Last
<1> QED
  BY <1>1, <1>6, <1>7, <1>8, LoopAdvances

-----------------------------------------------------------------------------
(***************************************************************************)
(* Where rides lead to, one ride at a time: by the run x of the route r,   *)
(* or by a real-time transport, from the stop c[1] to the stop c[2].       *)
(***************************************************************************)
RideBy(ask, r, x, c, p, w, y) ==
  /\ p[1] = r.stops[StopIdx(ask, r, c[1])].loc
  /\ CanBoard(ask, p[3], EventTime(r, x[1], x[2], BoardEvent(ask, r, c[1])))
  /\ y = <<r.stops[StopIdx(ask, r, c[2])].loc, w,
           EventTime(r, x[1], x[2], AlightEvent(ask, r, c[2]))>>
RtRideBy(ask, r, c, p, w, y) ==
  /\ p[1] = r.stops[StopIdx(ask, r, c[1])].loc
  /\ CanBoard(ask, p[3], r.times[BoardEvent(ask, r, c[1])])
  /\ y = <<r.stops[StopIdx(ask, r, c[2])].loc, w, r.times[AlightEvent(ask, r, c[2])]>>

LEMMA RidesByRoutes ==
  ASSUME NEW ask, NEW r, NEW places, NEW x, NEW y
  PROVE  y \in RunTo(ask, r, x, places)
           <=> \E c \in Sections(ask, r) : \E p \in places :
                 \E w \in AfterRide(ask, r, c[1], c[2], p[2]) : RideBy(ask, r, x, c, p, w, y)
BY DEF RunTo, RideOn, RideBy

LEMMA RidesByRtTransports ==
  ASSUME NEW ask, NEW r, NEW places, NEW y
  PROVE  y \in RtRunTo(ask, r, places)
           <=> \E c \in Sections(ask, r) : \E p \in places :
                 \E w \in AfterRide(ask, r, c[1], c[2], p[2]) : RtRideBy(ask, r, c, p, w, y)
BY DEF RtRunTo, RideOn, RtRideBy

LEMMA RidesAre ==
  ASSUME NEW m, NEW ask, NEW places, NEW y
  PROVE  y \in Rides(m, ask, places) <=>
           \/ \E i \in Used(ask, m.routes) : \E x \in Runs(m.routes[i]) :
                \E c \in Sections(ask, m.routes[i]) : \E p \in places :
                  \E w \in AfterRide(ask, m.routes[i], c[1], c[2], p[2]) :
                    RideBy(ask, m.routes[i], x, c, p, w, y)
           \/ \E i \in Used(ask, m.rt_transports) :
                \E c \in Sections(ask, m.rt_transports[i]) : \E p \in places :
                  \E w \in AfterRide(ask, m.rt_transports[i], c[1], c[2], p[2]) :
                    RtRideBy(ask, m.rt_transports[i], c, p, w, y)
<1>1. y \in Rides(m, ask, places) <=>
        \/ \E i \in Used(ask, m.routes) : \E x \in Runs(m.routes[i]) :
             y \in RunTo(ask, m.routes[i], x, places)
        \/ \E i \in Used(ask, m.rt_transports) : y \in RtRunTo(ask, m.rt_transports[i], places)
  BY DEF Rides
<1> QED
  BY <1>1, RidesByRoutes, RidesByRtTransports

(***************************************************************************)
(* The events of a ride: numbers, in the order they are passed.            *)
(***************************************************************************)
LEMMA EventsPassed ==
  ASSUME NEW ask, ask.dir \in {1, -1}, NEW r, NEW len \in Nat, len = Len(r.stops),
         NEW a \in 1..len, NEW b \in 1..len, a < b
  PROVE  /\ StopIdx(ask, r, a) \in 1..len /\ StopIdx(ask, r, b) \in 1..len
         /\ BoardEvent(ask, r, a) \in EventsOf(r) /\ AlightEvent(ask, r, b) \in EventsOf(r)
         /\ ask.dir = 1 => BoardEvent(ask, r, a) <= AlightEvent(ask, r, b)
         /\ ask.dir = -1 => AlightEvent(ask, r, b) <= BoardEvent(ask, r, a)
<1>1. CASE ask.dir = 1
  BY <1>1 DEF StopIdx, BoardEvent, AlightEvent, EventsOf, ArrivalOf, DepartureOf
<1>2. CASE ask.dir = -1
  BY <1>2 DEF StopIdx, BoardEvent, AlightEvent, EventsOf, ArrivalOf, DepartureOf
<1> QED
  BY <1>1, <1>2

LEMMA TimesPassed ==
  ASSUME NEW ask, ask.dir \in {1, -1}, NEW r, NEW len \in Nat, len = Len(r.stops),
         NEW a \in 1..len, NEW b \in 1..len, a < b, NEW times, InOrder(r, times)
  PROVE  /\ times[BoardEvent(ask, r, a)] \in Int /\ times[AlightEvent(ask, r, b)] \in Int
         /\ better_or_eq(ask, times[BoardEvent(ask, r, a)], times[AlightEvent(ask, r, b)])
<1>1. /\ times[BoardEvent(ask, r, a)] \in Int /\ times[AlightEvent(ask, r, b)] \in Int
      /\ ask.dir = 1 => times[BoardEvent(ask, r, a)] <= times[AlightEvent(ask, r, b)]
      /\ ask.dir = -1 => times[AlightEvent(ask, r, b)] <= times[BoardEvent(ask, r, a)]
  BY EventsPassed DEF InOrder
<1>2. CASE ask.dir = 1
  BY <1>1, <1>2 DEF better_or_eq, is_better_or_eq
<1>3. CASE ask.dir = -1
  BY <1>1, <1>3 DEF better_or_eq, is_better_or_eq
<1> QED
  BY <1>1, <1>2, <1>3

LEMMA RunTimes ==
  ASSUME NEW ask, ask.dir \in {1, -1}, NEW r, NEW len \in Nat, len = Len(r.stops),
         NEW a \in 1..len, NEW b \in 1..len, a < b,
         NEW i, NEW day \in Int, InOrder(r, r.times[i])
  PROVE  /\ EventTime(r, i, day, BoardEvent(ask, r, a)) \in Int
         /\ EventTime(r, i, day, AlightEvent(ask, r, b)) \in Int
         /\ better_or_eq(ask, EventTime(r, i, day, BoardEvent(ask, r, a)),
                              EventTime(r, i, day, AlightEvent(ask, r, b)))
<1> DEFINE x == r.times[i][BoardEvent(ask, r, a)]
           y == r.times[i][AlightEvent(ask, r, b)]
           base == day * DayLength
<1>1. x \in Int /\ y \in Int /\ better_or_eq(ask, x, y)
  BY TimesPassed
<1>2. base \in Int
  BY DayAssumption
<1>3. /\ EventTime(r, i, day, BoardEvent(ask, r, a)) = base + x
      /\ EventTime(r, i, day, AlightEvent(ask, r, b)) = base + y
  BY DEF EventTime
<1> HIDE DEF x, y, base
<1>4. CASE ask.dir = 1
  BY <1>1, <1>2, <1>3, <1>4 DEF better_or_eq, is_better_or_eq
<1>5. CASE ask.dir = -1
  BY <1>1, <1>2, <1>3, <1>5 DEF better_or_eq, is_better_or_eq
<1> QED
  BY <1>4, <1>5

LEMMA RouteFacts ==
  ASSUME NEW m, IsNetwork(m), NEW i \in DOMAIN m.routes
  PROVE  /\ Len(m.routes[i].stops) \in Nat
         /\ DOMAIN m.routes[i].stops = 1..Len(m.routes[i].stops)
         /\ \A j \in 1..Len(m.routes[i].stops) : m.routes[i].stops[j].loc \in AllLocations(m)
         /\ Len(m.routes[i].times) \in Nat /\ DOMAIN m.routes[i].times = 1..Len(m.routes[i].times)
         /\ \A j \in DOMAIN m.routes[i].times :
              InOrder(m.routes[i], m.routes[i].times[j]) /\ m.routes[i].days[j] \subseteq Int
<1> DEFINE r == m.routes[i]
<1>1. /\ StopsIn(m, r) /\ IsList(r.times)
      /\ \A j \in DOMAIN r.times : InOrder(r, r.times[j]) /\ r.days[j] \subseteq Int
  BY DEF IsNetwork
<1> HIDE DEF r
<1>2. /\ Len(r.stops) \in Nat /\ DOMAIN r.stops = 1..Len(r.stops)
      /\ Len(r.times) \in Nat /\ DOMAIN r.times = 1..Len(r.times)
      /\ \A j \in DOMAIN r.stops : r.stops[j].loc \in AllLocations(m)
  BY <1>1 DEF StopsIn, IsList
<1> QED
  BY <1>1, <1>2 DEF r

LEMMA RtTransportFacts ==
  ASSUME NEW m, IsNetwork(m), NEW i \in DOMAIN m.rt_transports
  PROVE  /\ Len(m.rt_transports[i].stops) \in Nat
         /\ DOMAIN m.rt_transports[i].stops = 1..Len(m.rt_transports[i].stops)
         /\ \A j \in 1..Len(m.rt_transports[i].stops) :
              m.rt_transports[i].stops[j].loc \in AllLocations(m)
         /\ InOrder(m.rt_transports[i], m.rt_transports[i].times)
<1> DEFINE r == m.rt_transports[i]
<1>1. StopsIn(m, r) /\ InOrder(r, r.times)
  BY DEF IsNetwork
<1> HIDE DEF r
<1>2. /\ Len(r.stops) \in Nat /\ DOMAIN r.stops = 1..Len(r.stops)
      /\ \A j \in DOMAIN r.stops : r.stops[j].loc \in AllLocations(m)
  BY <1>1 DEF StopsIn, IsList
<1> QED
  BY <1>1, <1>2 DEF r

\* Better labels at the same places lead to everything they led to before.
Covers(ask, more, places) ==
  \A p \in places : \E p2 \in more :
    /\ p2[1] = p[1] /\ p2[2] = p[2] /\ p2[3] # kInvalid(ask) /\ p2[3] \in Int /\ p[3] \in Int
    /\ better_or_eq(ask, p2[3], p[3])

LEMMA BoardsEarlier ==
  ASSUME NEW ask, ask.dir \in {1, -1}, NEW t \in Int, NEW t2 \in Int, NEW dep \in Int,
         CanBoard(ask, t, dep), t2 # kInvalid(ask), better_or_eq(ask, t2, t)
  PROVE  CanBoard(ask, t2, dep)
BY Order DEF CanBoard

LEMMA RidesGrow ==
  ASSUME NEW m, IsNetwork(m), NEW ask, ask.dir \in {1, -1}, NEW places, NEW more,
         Covers(ask, more, places)
  PROVE  Rides(m, ask, places) \subseteq Rides(m, ask, more)
<1>1. SUFFICES ASSUME NEW y \in Rides(m, ask, places) PROVE y \in Rides(m, ask, more)
  OBVIOUS
<1>2. ASSUME NEW i \in Used(ask, m.routes), NEW x \in Runs(m.routes[i]),
             NEW c \in Sections(ask, m.routes[i]), NEW p \in places,
             NEW w \in AfterRide(ask, m.routes[i], c[1], c[2], p[2]),
             RideBy(ask, m.routes[i], x, c, p, w, y)
      PROVE  y \in Rides(m, ask, more)
  <2> DEFINE r == m.routes[i]
             dep == EventTime(r, x[1], x[2], BoardEvent(ask, r, c[1]))
  <2>1. PICK p2 \in more : /\ p2[1] = p[1] /\ p2[2] = p[2] /\ p2[3] # kInvalid(ask)
                           /\ p2[3] \in Int /\ p[3] \in Int /\ better_or_eq(ask, p2[3], p[3])
    BY DEF Covers
  <2>2. i \in DOMAIN m.routes
    BY DEF Used
  <2>3. dep \in Int
    <3>1. /\ x[1] \in DOMAIN r.times /\ x[2] \in r.days[x[1]]
      BY DEF Runs
    <3>2. /\ Len(r.stops) \in Nat /\ DOMAIN r.stops = 1..Len(r.stops)
          /\ InOrder(r, r.times[x[1]]) /\ x[2] \in Int
      BY <2>2, <3>1, RouteFacts
    <3>3. c[1] \in DOMAIN r.stops /\ c[2] \in DOMAIN r.stops /\ c[1] < c[2]
      BY DEF Sections
    <3> HIDE DEF r
    <3> QED
      BY <3>2, <3>3, RunTimes
  <2>4. CanBoard(ask, p[3], dep)
    BY <1>2 DEF RideBy
  <2>5. CanBoard(ask, p2[3], dep)
    <3> HIDE DEF dep
    <3> QED
      BY <2>1, <2>3, <2>4, BoardsEarlier
  <2>6. RideBy(ask, r, x, c, p2, w, y) /\ w \in AfterRide(ask, r, c[1], c[2], p2[2])
    BY <1>2, <2>1, <2>5 DEF RideBy
  <2> QED
    BY <2>1, <2>6, RidesAre
<1>3. ASSUME NEW i \in Used(ask, m.rt_transports), NEW c \in Sections(ask, m.rt_transports[i]),
             NEW p \in places, NEW w \in AfterRide(ask, m.rt_transports[i], c[1], c[2], p[2]),
             RtRideBy(ask, m.rt_transports[i], c, p, w, y)
      PROVE  y \in Rides(m, ask, more)
  <2> DEFINE r == m.rt_transports[i]
             dep == r.times[BoardEvent(ask, r, c[1])]
  <2>1. PICK p2 \in more : /\ p2[1] = p[1] /\ p2[2] = p[2] /\ p2[3] # kInvalid(ask)
                           /\ p2[3] \in Int /\ p[3] \in Int /\ better_or_eq(ask, p2[3], p[3])
    BY DEF Covers
  <2>2. i \in DOMAIN m.rt_transports
    BY DEF Used
  <2>3. dep \in Int
    <3>1. /\ Len(r.stops) \in Nat /\ DOMAIN r.stops = 1..Len(r.stops) /\ InOrder(r, r.times)
      BY <2>2, RtTransportFacts
    <3>2. c[1] \in DOMAIN r.stops /\ c[2] \in DOMAIN r.stops /\ c[1] < c[2]
      BY DEF Sections
    <3> HIDE DEF r
    <3>3. BoardEvent(ask, r, c[1]) \in EventsOf(r)
      BY <3>1, <3>2, EventsPassed
    <3> QED
      BY <3>1, <3>3 DEF InOrder
  <2>4. CanBoard(ask, p[3], dep)
    BY <1>3 DEF RtRideBy
  <2>5. CanBoard(ask, p2[3], dep)
    <3> HIDE DEF dep
    <3> QED
      BY <2>1, <2>3, <2>4, BoardsEarlier
  <2>6. RtRideBy(ask, r, c, p2, w, y) /\ w \in AfterRide(ask, r, c[1], c[2], p2[2])
    BY <1>3, <2>1, <2>5 DEF RtRideBy
  <2> QED
    BY <2>1, <2>6, RidesAre
<1> QED
  BY <1>1, <1>2, <1>3, RidesAre

-----------------------------------------------------------------------------
(***************************************************************************)
(* The labels of the rounds get better, and never worse: what they explain *)
(* stays explained.                                                        *)
(***************************************************************************)
AreLabels(m, ask, rt) == rt \in [Rounds -> Labels(m, ask)]

Grown(m, ask, rt, later) ==
  \A i \in Rounds : \A l \in AllLocations(m), v \in ViaCounts(ask) :
    better_or_eq(ask, later[i][l][v], rt[i][l][v])

LEMMA LabelFacts ==
  ASSUME NEW m, NEW ask, NEW rt, AreLabels(m, ask, rt), NEW i \in Rounds,
         NEW l \in Nodes(m), NEW v \in ViaCounts(ask)
  PROVE  rt[i][l][v] \in LabelTimes(ask) /\ rt[i][l][v] \in Int
<1>1. rt[i] \in Labels(m, ask)
  BY DEF AreLabels
<1>2. rt[i][l][v] \in LabelTimes(ask)
  BY <1>1 DEF Labels
<1> QED
  BY <1>2 DEF LabelTimes

LEMMA RoundFacts ==
  /\ 0 \in Rounds
  /\ \A i \in Rounds : i \in Nat
  /\ \A i \in Rounds \ {0} : i - 1 \in Rounds /\ i \in Nat /\ 0..i - 1 \subseteq Rounds
  /\ \A i \in Rounds : 0..i \subseteq Rounds
BY LabelAssumption DEF Rounds

LEMMA GrownFacts ==
  ASSUME NEW m, NEW ask, ask.dir \in {1, -1}, NEW a, NEW b, NEW c,
         AreLabels(m, ask, a), AreLabels(m, ask, b), AreLabels(m, ask, c)
  PROVE  /\ Grown(m, ask, a, a)
         /\ Grown(m, ask, a, b) /\ Grown(m, ask, b, c) => Grown(m, ask, a, c)
<1>1. ASSUME NEW i \in Rounds, NEW l \in AllLocations(m), NEW v \in ViaCounts(ask)
      PROVE  a[i][l][v] \in Int /\ b[i][l][v] \in Int /\ c[i][l][v] \in Int
  BY LabelFacts DEF Nodes
<1>2. Grown(m, ask, a, a)
  BY <1>1, Order DEF Grown
<1>3. ASSUME Grown(m, ask, a, b), Grown(m, ask, b, c) PROVE Grown(m, ask, a, c)
  <2>1. ASSUME NEW i \in Rounds, NEW l \in AllLocations(m), NEW v \in ViaCounts(ask)
        PROVE  better_or_eq(ask, c[i][l][v], a[i][l][v])
    <3>1. better_or_eq(ask, b[i][l][v], a[i][l][v]) /\ better_or_eq(ask, c[i][l][v], b[i][l][v])
      BY <1>3 DEF Grown
    <3> QED
      BY <3>1, <1>1, Order
  <2> QED
    BY <2>1 DEF Grown
<1> QED
  BY <1>2, <1>3

LEMMA KnownGrows ==
  ASSUME NEW m, NEW ask, ask.dir \in {1, -1}, NEW rt, NEW later,
         AreLabels(m, ask, rt), AreLabels(m, ask, later), Grown(m, ask, rt, later),
         NEW rd \in Rounds, NEW l \in AllLocations(m), NEW v \in ViaCounts(ask), NEW t \in Int,
         Known(ask, rt, rd, l, v, t)
  PROVE  Known(ask, later, rd, l, v, t)
<1>1. PICK i \in 0..rd : better_or_eq(ask, rt[i][l][v], t)
  BY DEF Known
<1>2. i \in Rounds
  BY RoundFacts
<1>3. rt[i][l][v] \in Int /\ later[i][l][v] \in Int
  BY <1>2, LabelFacts DEF Nodes
<1>4. better_or_eq(ask, later[i][l][v], rt[i][l][v])
  BY <1>2 DEF Grown
<1>5. better_or_eq(ask, later[i][l][v], t)
  BY <1>1, <1>3, <1>4, Order
<1> QED
  BY <1>5 DEF Known

LEMMA KnownLater ==
  ASSUME NEW ask, NEW rt, NEW i \in Int, NEW j \in Int, i <= j, NEW l, NEW v, NEW t,
         Known(ask, rt, i, l, v, t)
  PROVE  Known(ask, rt, j, l, v, t)
BY DEF Known

LEMMA PlaceOf ==
  ASSUME NEW m, NEW ask, NEW rt, NEW i, NEW l \in AllLocations(m), NEW v \in ViaCounts(ask),
         rt[i][l][v] # kInvalid(ask)
  PROVE  <<l, v, rt[i][l][v]>> \in PlacesOf(m, ask, rt, i)
<1> DEFINE Valid == {x \in AllLocations(m) \X ViaCounts(ask) : rt[i][x[1]][x[2]] # kInvalid(ask)}
<1>1. <<l, v>> \in Valid
  OBVIOUS
<1>2. PlacesOf(m, ask, rt, i) = {<<x[1], x[2], rt[i][x[1]][x[2]]>> : x \in Valid}
  BY DEF PlacesOf
<1> HIDE DEF Valid
<1>3. <<<<l, v>>[1], <<l, v>>[2], rt[i][<<l, v>>[1]][<<l, v>>[2]]>> \in PlacesOf(m, ask, rt, i)
  BY <1>1, <1>2
<1> QED
  BY <1>3

LEMMA ArrivalsGrow ==
  ASSUME NEW m, IsNetwork(m), NEW ask, ask.dir \in {1, -1}, NEW rt, NEW later,
         AreLabels(m, ask, rt), AreLabels(m, ask, later), Grown(m, ask, rt, later),
         NEW i \in Rounds
  PROVE  Arrivals(m, ask, rt, i) \subseteq Arrivals(m, ask, later, i)
<1>1. Covers(ask, PlacesOf(m, ask, later, i), PlacesOf(m, ask, rt, i))
  <2>1. ASSUME NEW p \in PlacesOf(m, ask, rt, i)
        PROVE  \E p2 \in PlacesOf(m, ask, later, i) :
                 /\ p2[1] = p[1] /\ p2[2] = p[2] /\ p2[3] # kInvalid(ask) /\ p2[3] \in Int /\ p[3] \in Int
                 /\ better_or_eq(ask, p2[3], p[3])
    <3>1. PICK l \in AllLocations(m), v \in ViaCounts(ask) :
            p = <<l, v, rt[i][l][v]>> /\ rt[i][l][v] # kInvalid(ask)
      BY DEF PlacesOf
    <3>2. /\ rt[i][l][v] \in LabelTimes(ask) /\ rt[i][l][v] \in Int /\ later[i][l][v] \in Int
      BY LabelFacts DEF Nodes
    <3>3. better_or_eq(ask, later[i][l][v], rt[i][l][v])
      BY DEF Grown
    <3>4. later[i][l][v] # kInvalid(ask)
      BY <3>1, <3>2, <3>3, Order, TimeFacts
    <3>5. <<l, v, later[i][l][v]>> \in PlacesOf(m, ask, later, i)
      BY <3>4, PlaceOf
    <3> QED
      BY <3>1, <3>2, <3>3, <3>4, <3>5
  <2> QED
    BY <2>1 DEF Covers
<1> QED
  BY <1>1, RidesGrow DEF Arrivals

LEMMA OnwardGrows ==
  ASSUME NEW m, NEW ask, NEW places, NEW more, places \subseteq more
  PROVE  Onward(m, ask, places) \subseteq Onward(m, ask, more)
<1>1. Transfers(m, ask, places) \subseteq Transfers(m, ask, more)
  BY DEF Transfers
<1>2. WalkTo(m, ask, places) \subseteq WalkTo(m, ask, more)
  BY DEF WalkTo
<1>3. AtDestination(ask, places) \subseteq AtDestination(ask, more)
  BY DEF AtDestination
<1> QED
  BY <1>1, <1>2, <1>3 DEF Onward

LEMMA ExplainedGrows ==
  ASSUME NEW m, IsNetwork(m), NEW ask, ask.dir \in {1, -1}, NEW rt, NEW later,
         AreLabels(m, ask, rt), AreLabels(m, ask, later), Grown(m, ask, rt, later),
         NEW i \in Rounds \ {0}, NEW l \in AllLocations(m), NEW v \in ViaCounts(ask), NEW t \in Int,
         Explained(m, ask, rt, i, l, v, t)
  PROVE  Explained(m, ask, later, i, l, v, t)
<1>1. i - 1 \in Rounds
  BY RoundFacts
<1>2. CASE Known(ask, rt, i - 1, l, v, t)
  BY <1>1, <1>2, KnownGrows DEF Explained
<1>3. CASE <<l, v, t>> \in Onward(m, ask, Arrivals(m, ask, rt, i - 1))
  <2>1. Arrivals(m, ask, rt, i - 1) \subseteq Arrivals(m, ask, later, i - 1)
    BY <1>1, ArrivalsGrow
  <2>2. <<l, v, t>> \in Onward(m, ask, Arrivals(m, ask, later, i - 1))
    BY <1>3, <2>1, OnwardGrows
  <2> QED
    BY <2>2 DEF Explained
<1> QED
  BY <1>2, <1>3 DEF Explained

-----------------------------------------------------------------------------
(***************************************************************************)
(* One label is set: it must be explained by the round before.             *)
(***************************************************************************)
IsSet(m, ask, rt, rt2, rd, l, v, u) ==
  /\ AreLabels(m, ask, rt2)
  /\ \A i \in Rounds \ {rd} : rt2[i] = rt[i]
  /\ \A i \in Rounds : \A x \in Nodes(m), y \in ViaCounts(ask) :
       rt2[i][x][y] = IF i = rd /\ x = l /\ y = v THEN u ELSE rt[i][x][y]

LEMMA SetLabelGrows ==
  ASSUME NEW m, NEW ask, ask.dir \in {1, -1}, NEW rt, AreLabels(m, ask, rt),
         NEW rd \in Rounds, NEW l \in Nodes(m), NEW v \in ViaCounts(ask), NEW u \in LabelTimes(ask),
         better_or_eq(ask, u, rt[rd][l][v]),
         NEW rt2, IsSet(m, ask, rt, rt2, rd, l, v, u)
  PROVE  Grown(m, ask, rt, rt2)
<1>1. ASSUME NEW i \in Rounds, NEW x \in AllLocations(m), NEW y \in ViaCounts(ask)
      PROVE  better_or_eq(ask, rt2[i][x][y], rt[i][x][y])
  <2>1. x \in Nodes(m)
    BY DEF Nodes
  <2>2. rt2[i][x][y] = IF i = rd /\ x = l /\ y = v THEN u ELSE rt[i][x][y]
    BY <2>1 DEF IsSet
  <2>3. rt[i][x][y] \in Int
    BY <2>1, LabelFacts
  <2> QED
    BY <2>2, <2>3, Order
<1> QED
  BY <1>1 DEF Grown

LEMMA SetLabelExplained ==
  ASSUME NEW m, IsNetwork(m), NEW ask, ask.dir \in {1, -1}, NEW rt, AreLabels(m, ask, rt),
         NEW rd \in Rounds \ {0}, NEW l \in AllLocations(m), NEW v \in ViaCounts(ask),
         NEW u \in LabelTimes(ask), better_or_eq(ask, u, rt[rd][l][v]),
         LabelsExplained(m, ask, rt), Explained(m, ask, rt, rd, l, v, u),
         NEW rt2, IsSet(m, ask, rt, rt2, rd, l, v, u)
  PROVE  LabelsExplained(m, ask, rt2)
<1>1. l \in Nodes(m) /\ rd \in Rounds
  BY DEF Nodes
<1>2. AreLabels(m, ask, rt2) /\ Grown(m, ask, rt, rt2)
  BY <1>1, SetLabelGrows DEF IsSet
<1>3. ASSUME NEW i \in Rounds \ {0}, NEW x \in AllLocations(m), NEW y \in ViaCounts(ask)
      PROVE  Explained(m, ask, rt2, i, x, y, rt2[i][x][y])
  <2>1. x \in Nodes(m)
    BY DEF Nodes
  <2>2. rt2[i][x][y] = IF i = rd /\ x = l /\ y = v THEN u ELSE rt[i][x][y]
    BY <1>1, <2>1 DEF IsSet
  <2>3. rt[i][x][y] \in Int /\ u \in Int
    BY <2>1, LabelFacts DEF LabelTimes
  <2>4. Explained(m, ask, rt, i, x, y, rt2[i][x][y]) /\ rt2[i][x][y] \in Int
    BY <2>2, <2>3 DEF LabelsExplained
  <2> QED
    BY <2>4, <1>2, ExplainedGrows
<1> QED
  BY <1>3 DEF LabelsExplained

\* What explains a label is in the rounds before.
LEMMA SameRounds ==
  ASSUME NEW m, NEW ask, NEW rt, NEW rt2, NEW rd \in Rounds \ {0},
         \A i \in 0..rd - 1 : rt[i] = rt2[i], NEW l, NEW v, NEW t,
         Explained(m, ask, rt, rd, l, v, t)
  PROVE  Explained(m, ask, rt2, rd, l, v, t)
<1>1. rd - 1 \in 0..rd - 1
  BY RoundFacts
<1>2. Arrivals(m, ask, rt, rd - 1) = Arrivals(m, ask, rt2, rd - 1)
  <2>1. PlacesOf(m, ask, rt, rd - 1) = PlacesOf(m, ask, rt2, rd - 1)
    BY <1>1 DEF PlacesOf
  <2> QED
    BY <2>1 DEF Arrivals
<1>3. Known(ask, rt, rd - 1, l, v, t) => Known(ask, rt2, rd - 1, l, v, t)
  BY DEF Known
<1> QED
  BY <1>2, <1>3 DEF Explained

-----------------------------------------------------------------------------
(***************************************************************************)
(* The states a walk of round rd comes to, from the state base.            *)
(***************************************************************************)
HeldBy(m, ask, labels) ==
  {<<x[1], x[2], labels[x[1]][x[2]]>> :
     x \in {x \in AllLocations(m) \X ViaCounts(ask) : labels[x[1]][x[2]] # kInvalid(ask)}}

\* What may become a label of the intermodal destination.
IsEnd(m, ask, base, t) == t = kInvalid(ask) \/ t \in AtEnd(m, ask, HeldBy(m, ask, base.tmp))
EndsAre(m, ask, rd, base, st) ==
  \A i \in Rounds, v \in ViaCounts(ask) :
    \/ st.round_times[i][kEnd][v] = base.round_times[i][kEnd][v]
    \/ i = rd /\ IsEnd(m, ask, base, st.round_times[i][kEnd][v])

WalkStates(m, ask, rd, base) ==
  {st \in States(m, ask) :
     /\ st.tmp = base.tmp /\ st.prev_station_mark = base.prev_station_mark
     /\ \A i \in 0..rd - 1 : st.round_times[i] = base.round_times[i]
     /\ LabelsExplained(m, ask, st.round_times)
     /\ BestKnown(m, ask, st, rd) /\ Pruned(m, ask, st, rd)
     /\ EndsAre(m, ask, rd, base, st)}

LEMMA HeldAt ==
  ASSUME NEW m, NEW ask, NEW labels, NEW l \in AllLocations(m), NEW v \in ViaCounts(ask),
         labels[l][v] # kInvalid(ask)
  PROVE  <<l, v, labels[l][v]>> \in HeldBy(m, ask, labels)
<1> DEFINE Valid == {x \in AllLocations(m) \X ViaCounts(ask) : labels[x[1]][x[2]] # kInvalid(ask)}
<1>1. <<l, v>> \in Valid
  OBVIOUS
<1>2. HeldBy(m, ask, labels) = {<<x[1], x[2], labels[x[1]][x[2]]>> : x \in Valid}
  BY DEF HeldBy
<1> HIDE DEF Valid
<1>3. <<<<l, v>>[1], <<l, v>>[2], labels[<<l, v>>[1]][<<l, v>>[2]]>> \in HeldBy(m, ask, labels)
  BY <1>1, <1>2
<1> QED
  BY <1>3

\* Labels of other places do not change those of the intermodal destination.
LEMMA EndsStay ==
  ASSUME NEW m, IsNetwork(m), NEW ask, NEW rd, NEW base, NEW st, EndsAre(m, ask, rd, base, st),
         NEW st2, NEW l \in AllLocations(m), NEW v, NEW u,
         IsSet(m, ask, st.round_times, st2.round_times, rd, l, v, u)
  PROVE  EndsAre(m, ask, rd, base, st2)
<1>1. kEnd \in Nodes(m) /\ kEnd # l
  BY DEF IsNetwork, kEnd, Nodes
<1>2. ASSUME NEW i \in Rounds, NEW y \in ViaCounts(ask)
      PROVE  st2.round_times[i][kEnd][y] = st.round_times[i][kEnd][y]
  BY <1>1 DEF IsSet
<1> QED
  BY <1>2 DEF EndsAre

LEMMA StateFacts ==
  ASSUME NEW m, NEW ask, NEW st \in States(m, ask)
  PROVE  /\ AreLabels(m, ask, st.round_times)
         /\ \A l \in Nodes(m), v \in ViaCounts(ask) :
              /\ st.best[l][v] \in LabelTimes(ask) /\ st.best[l][v] \in Int
              /\ st.tmp[l][v] \in LabelTimes(ask) /\ st.tmp[l][v] \in Int
         /\ \A i \in Rounds : st.time_at_dest[i] \in Int
         /\ AllLocations(m) \subseteq Nodes(m)
         /\ st.bounds.last = 0
         /\ st = [time_at_dest |-> st.time_at_dest, round_times |-> st.round_times, best |-> st.best,
                  tmp |-> st.tmp, station_mark |-> st.station_mark,
                  prev_station_mark |-> st.prev_station_mark, bounds |-> st.bounds]
<1>1. AreLabels(m, ask, st.round_times)
  BY DEF States, AreLabels
<1>2. ASSUME NEW l \in Nodes(m), NEW v \in ViaCounts(ask)
      PROVE  st.best[l][v] \in LabelTimes(ask) /\ st.tmp[l][v] \in LabelTimes(ask)
  BY DEF States, Labels
<1>3. \A t \in LabelTimes(ask) : t \in Int
  BY DEF LabelTimes
<1>4. /\ \A i \in Rounds : st.time_at_dest[i] \in Int
      /\ AllLocations(m) \subseteq Nodes(m)
      /\ st.bounds.last = 0
  BY DEF States, Nodes, NoBounds
<1>5. st = [time_at_dest |-> st.time_at_dest, round_times |-> st.round_times, best |-> st.best,
            tmp |-> st.tmp, station_mark |-> st.station_mark,
            prev_station_mark |-> st.prev_station_mark, bounds |-> st.bounds]
  BY DEF States
<1> QED
  BY <1>1, <1>2, <1>3, <1>4, <1>5

LEMMA LimitImproves ==
  ASSUME NEW m, NEW ask, ask.dir \in {1, -1}, NEW st \in States(m, ask), NEW rd \in Rounds,
         NEW t \in Int
  PROVE  /\ update_time_at_dest(ask, st, rd, t) \in States(m, ask)
         /\ \A f \in {"round_times", "best", "tmp", "station_mark", "prev_station_mark", "bounds"} :
              update_time_at_dest(ask, st, rd, t)[f] = st[f]
         /\ \A i \in Rounds : better_or_eq(ask, update_time_at_dest(ask, st, rd, t).time_at_dest[i],
                                                st.time_at_dest[i])
<1> DEFINE tad == [i \in Rounds |-> IF i >= rd THEN best_of(ask, st.time_at_dest[i], t)
                                    ELSE st.time_at_dest[i]]
<1>1. update_time_at_dest(ask, st, rd, t) = [st EXCEPT !.time_at_dest = tad]
  BY DEF update_time_at_dest
<1>2. ASSUME NEW i \in Rounds
      PROVE  tad[i] \in Int /\ better_or_eq(ask, tad[i], st.time_at_dest[i])
  <2>1. st.time_at_dest[i] \in Int
    BY StateFacts
  <2> QED
    BY <2>1, BestOf, Order
<1>3. tad \in [Rounds -> Int]
  BY <1>2
<1> HIDE DEF tad
<1>4. update_time_at_dest(ask, st, rd, t) \in States(m, ask)
  BY <1>1, <1>3 DEF States
<1>5. /\ \A f \in {"round_times", "best", "tmp", "station_mark", "prev_station_mark", "bounds"} :
            update_time_at_dest(ask, st, rd, t)[f] = st[f]
      /\ update_time_at_dest(ask, st, rd, t).time_at_dest = tad
  BY <1>1 DEF States
<1> QED
  BY <1>2, <1>4, <1>5

LEMMA AsPromising ==
  ASSUME NEW m, NEW ask, IsQuery(m, ask), NEW st \in States(m, ask), NEW st2 \in States(m, ask),
         NEW rd \in Rounds, NEW l \in AllLocations(m), NEW t \in Int, NEW u \in Int,
         better_or_eq(ask, u, t),
         better_or_eq(ask, st2.time_at_dest[rd], st.time_at_dest[rd]),
         Promising(ask, st2, rd, l, t)
  PROVE  Promising(ask, st, rd, l, u)
<1>1. ask.dir \in {1, -1} /\ ask.lb[l] \in Int
  BY DEF IsQuery, Nodes
<1>2. st.time_at_dest[rd] \in Int /\ st2.time_at_dest[rd] \in Int
  BY StateFacts
<1>3. CASE ask.dir = 1
  BY <1>1, <1>2, <1>3 DEF Promising, better_or_eq, is_better_or_eq
<1>4. CASE ask.dir = -1
  BY <1>1, <1>2, <1>4 DEF Promising, better_or_eq, is_better_or_eq
<1> QED
  BY <1>1, <1>3, <1>4

(***************************************************************************)
(* The three ways UpdateTarget goes: nothing, a label only, all of it.     *)
(***************************************************************************)
LEMMA TargetOutcomes ==
  ASSUME NEW m, NEW ask, IsQuery(m, ask), NEW st \in States(m, ask), NEW rd \in Rounds,
         NEW l \in AllLocations(m), NEW v \in ViaCounts(ask), NEW t \in LabelTimes(ask), NEW is_dest,
         better(ask, t, st.best[l][v]),
         NEW st2, st2 = UpdateTarget(m, ask, st, rd, l, v, t, is_dest),
         Promising(ask, st, rd, l, t)
  PROVE  /\ st2 \in States(m, ask)
         /\ IsSet(m, ask, st.round_times, st2.round_times, rd, l, v, t)
         /\ \A x \in Nodes(m), y \in ViaCounts(ask) :
              st2.best[x][y] = IF x = l /\ y = v THEN t ELSE st.best[x][y]
         /\ \A i \in Rounds : better_or_eq(ask, st2.time_at_dest[i], st.time_at_dest[i])
         /\ st2.tmp = st.tmp /\ st2.prev_station_mark = st.prev_station_mark
<1> DEFINE u == best_of(ask, t, st.round_times[rd][l][v])
           kept == [st EXCEPT !.round_times[rd][l][v] = best_of(ask, t, @)]
           rt2 == [kept.round_times EXCEPT ![rd][l][v] = t]
           best2 == [st.best EXCEPT ![l][v] = t]
           updated == [kept EXCEPT !.round_times[rd][l][v] = t, !.best[l][v] = t,
                                   !.station_mark = @ \cup {l}]
<1>1. st2 = IF is_dest THEN update_time_at_dest(ask, updated, rd, t) ELSE updated
  <2>1. st.bounds.last = 0
    BY StateFacts
  <2> QED
    BY <2>1 DEF UpdateTarget, within_bounds
<1>2. l \in Nodes(m) /\ ask.dir \in {1, -1} /\ t \in Int
  BY DEF Nodes, IsQuery, LabelTimes
<1>3. u \in LabelTimes(ask)
  <2>1. st.round_times[rd][l][v] \in LabelTimes(ask) /\ st.round_times[rd][l][v] \in Int
    BY <1>2, StateFacts, LabelFacts
  <2> QED
    BY <1>2, <2>1, BestOf
<1>4. kept = [st EXCEPT !.round_times = [st.round_times EXCEPT ![rd][l][v] = u]]
  BY DEF States, Labels
<1>5. kept.round_times = [st.round_times EXCEPT ![rd][l][v] = u]
  BY <1>4 DEF States
<1>7. AreLabels(m, ask, st.round_times)
  BY StateFacts
<1>8. IsSet(m, ask, st.round_times, kept.round_times, rd, l, v, u)
  <2> HIDE DEF u, kept
  <2> QED
    BY <1>2, <1>3, <1>5, <1>7 DEF AreLabels, Labels, IsSet
<1>9. IsSet(m, ask, kept.round_times, rt2, rd, l, v, t)
  <2>1. AreLabels(m, ask, kept.round_times)
    BY <1>8 DEF IsSet
  <2> DEFINE rt1 == kept.round_times
  <2>2. rt2 = [rt1 EXCEPT ![rd][l][v] = t]
    OBVIOUS
  <2> HIDE DEF u, kept, rt1, rt2
  <2> QED
    BY <1>2, <2>1, <2>2 DEF AreLabels, Labels, IsSet, rt1
<1>10. IsSet(m, ask, st.round_times, rt2, rd, l, v, t)
  <2> HIDE DEF u, kept, rt2
  <2> QED
    BY <1>8, <1>9 DEF IsSet
<1>11. /\ best2 \in Labels(m, ask)
       /\ \A x \in Nodes(m), y \in ViaCounts(ask) :
            best2[x][y] = IF x = l /\ y = v THEN t ELSE st.best[x][y]
  BY <1>2 DEF States, Labels
<1>12. rt2 \in [Rounds -> Labels(m, ask)] /\ kept.round_times \in [Rounds -> Labels(m, ask)]
  BY <1>8, <1>10 DEF IsSet, AreLabels
<1>13. /\ updated \in States(m, ask)
       /\ updated.round_times = rt2 /\ updated.best = best2 /\ updated.tmp = st.tmp
       /\ updated.prev_station_mark = st.prev_station_mark
       /\ updated.time_at_dest = st.time_at_dest
  <2>1. kept \in States(m, ask) /\ kept.best = st.best /\ kept.tmp = st.tmp
        /\ kept.prev_station_mark = st.prev_station_mark /\ kept.time_at_dest = st.time_at_dest
        /\ kept.station_mark = st.station_mark
    <3> HIDE DEF u
    <3>1. kept.round_times = [st.round_times EXCEPT ![rd][l][v] = u]
      BY <1>5
    <3> DEFINE rt1 == [st.round_times EXCEPT ![rd][l][v] = u]
    <3>2. rt1 \in [Rounds -> Labels(m, ask)] /\ kept = [st EXCEPT !.round_times = rt1]
      BY <1>4, <1>12, <3>1
    <3> HIDE DEF kept, rt1
    <3> QED
      BY <3>2 DEF States
  <2> HIDE DEF kept
  <2>2. updated = [kept EXCEPT !.round_times = rt2, !.best = best2,
                               !.station_mark = kept.station_mark \cup {l}]
    BY <2>1 DEF States, Labels, rt2, best2
  <2> HIDE DEF updated, rt2, best2
  <2>3. rt2 \in [Rounds -> Labels(m, ask)] /\ best2 \in Labels(m, ask)
        /\ kept.station_mark \cup {l} \in SUBSET AllLocations(m)
    BY <1>11, <1>12, <2>1 DEF States, rt2, best2
  <2> QED
    BY <2>1, <2>2, <2>3 DEF States
<1> HIDE DEF u, kept, rt2, best2, updated
<1>14. \A i \in Rounds : st.time_at_dest[i] \in Int
  BY StateFacts
<1>15. CASE is_dest
  <2>1. st2 = update_time_at_dest(ask, updated, rd, t)
    BY <1>1, <1>15
  <2>2. /\ st2 \in States(m, ask)
        /\ st2.round_times = updated.round_times /\ st2.best = updated.best
        /\ st2.tmp = updated.tmp /\ st2.prev_station_mark = updated.prev_station_mark
        /\ \A i \in Rounds : better_or_eq(ask, st2.time_at_dest[i], updated.time_at_dest[i])
    BY <1>2, <1>13, <2>1, LimitImproves
  <2> QED
    BY <1>10, <1>11, <1>13, <2>2
<1>16. CASE ~is_dest
  <2>1. st2 = updated
    BY <1>1, <1>16
  <2>2. \A i \in Rounds : better_or_eq(ask, st2.time_at_dest[i], st.time_at_dest[i])
    BY <1>2, <1>13, <1>14, <2>1, Order
  <2> QED
    BY <1>10, <1>11, <1>13, <2>1, <2>2
<1> QED
  BY <1>15, <1>16

LEMMA PrunedOutcome ==
  ASSUME NEW m, NEW ask, IsQuery(m, ask), NEW st \in States(m, ask), NEW rd \in Rounds,
         NEW l \in AllLocations(m), NEW v \in ViaCounts(ask), NEW t \in LabelTimes(ask), NEW is_dest,
         better(ask, t, st.best[l][v]),
         NEW st2, st2 = UpdateTarget(m, ask, st, rd, l, v, t, is_dest),
         ~Promising(ask, st, rd, l, t)
  PROVE  /\ st2 \in States(m, ask)
         /\ IsSet(m, ask, st.round_times, st2.round_times, rd, l, v,
                  best_of(ask, t, st.round_times[rd][l][v]))
         /\ best_of(ask, t, st.round_times[rd][l][v]) \in LabelTimes(ask)
         /\ st2.best = st.best /\ st2.time_at_dest = st.time_at_dest
         /\ st2.tmp = st.tmp /\ st2.prev_station_mark = st.prev_station_mark
<1> DEFINE u == best_of(ask, t, st.round_times[rd][l][v])
           kept == [st EXCEPT !.round_times[rd][l][v] = best_of(ask, t, @)]
           rt1 == [st.round_times EXCEPT ![rd][l][v] = u]
<1>1. st2 = kept
  <2>1. st.bounds.last = 0
    BY StateFacts
  <2> QED
    BY <2>1 DEF UpdateTarget
<1>2. l \in Nodes(m) /\ ask.dir \in {1, -1} /\ t \in Int
  BY DEF Nodes, IsQuery, LabelTimes
<1>3. u \in LabelTimes(ask)
  <2>1. st.round_times[rd][l][v] \in LabelTimes(ask) /\ st.round_times[rd][l][v] \in Int
    BY <1>2, StateFacts, LabelFacts
  <2> QED
    BY <1>2, <2>1, BestOf
<1>4. kept = [st EXCEPT !.round_times = rt1]
  BY DEF States, Labels
<1>5. AreLabels(m, ask, st.round_times)
  BY StateFacts
<1> HIDE DEF u
<1>6. IsSet(m, ask, st.round_times, rt1, rd, l, v, u)
  BY <1>2, <1>3, <1>5 DEF AreLabels, Labels, IsSet
<1> HIDE DEF kept, rt1
<1>7. rt1 \in [Rounds -> Labels(m, ask)]
  BY <1>6 DEF IsSet, AreLabels
<1>8. /\ kept \in States(m, ask) /\ kept.round_times = rt1
      /\ kept.best = st.best /\ kept.time_at_dest = st.time_at_dest
      /\ kept.tmp = st.tmp /\ kept.prev_station_mark = st.prev_station_mark
  BY <1>4, <1>7 DEF States
<1> QED
  BY <1>1, <1>3, <1>6, <1>8 DEF u

\* The label that is set is as good as the time, and not worse than before.
LEMMA TargetIsKnown ==
  ASSUME NEW m, NEW ask, ask.dir \in {1, -1}, NEW rt, NEW rt2, NEW rd \in Rounds,
         NEW l \in AllLocations(m), NEW v \in ViaCounts(ask), NEW u \in Int, NEW t \in Int,
         IsSet(m, ask, rt, rt2, rd, l, v, u), better_or_eq(ask, u, t)
  PROVE  Known(ask, rt2, rd, l, v, t)
<1>1. rt2[rd][l][v] = u
  BY DEF IsSet, Nodes
<1>2. rd \in 0..rd
  BY RoundFacts
<1> QED
  BY <1>1, <1>2 DEF Known

LEMMA BestStaysKnown ==
  ASSUME NEW m, NEW ask, ask.dir \in {1, -1}, NEW st \in States(m, ask), NEW st2 \in States(m, ask),
         NEW rd \in Rounds, BestKnown(m, ask, st, rd), Grown(m, ask, st.round_times, st2.round_times),
         \A x \in AllLocations(m), y \in ViaCounts(ask) :
           st2.best[x][y] = st.best[x][y] \/ Known(ask, st2.round_times, rd, x, y, st2.best[x][y])
  PROVE  BestKnown(m, ask, st2, rd)
<1>1. ASSUME NEW x \in AllLocations(m), NEW y \in ViaCounts(ask)
      PROVE  Known(ask, st2.round_times, rd, x, y, st2.best[x][y])
  <2>1. st.best[x][y] \in Int /\ AreLabels(m, ask, st.round_times) /\ AreLabels(m, ask, st2.round_times)
    BY StateFacts
  <2>2. Known(ask, st.round_times, rd, x, y, st.best[x][y])
    BY DEF BestKnown
  <2> QED
    BY <2>1, <2>2, KnownGrows
<1> QED
  BY <1>1 DEF BestKnown

(***************************************************************************)
(* UpdateTarget with a time that is explained: the states of the walk are  *)
(* not left, and the target has a label as good as the time.               *)
(***************************************************************************)
LEMMA TargetUpdated ==
  ASSUME NEW m, IsNetwork(m), NEW ask, IsQuery(m, ask), NEW rd \in Rounds \ {0}, NEW base,
         NEW st \in WalkStates(m, ask, rd, base),
         NEW l \in AllLocations(m), NEW v \in ViaCounts(ask), NEW t \in LabelTimes(ask), NEW is_dest,
         Explained(m, ask, base.round_times, rd, l, v, t),
         NEW st2, st2 = UpdateTarget(m, ask, st, rd, l, v, t, is_dest)
  PROVE  /\ st2 \in WalkStates(m, ask, rd, base)
         /\ Grown(m, ask, st.round_times, st2.round_times)
         /\ Known(ask, st2.round_times, rd, l, v, t)
<1> DEFINE rt == st.round_times
           rt2 == st2.round_times
           old == rt[rd][l][v]
<1>1. /\ st \in States(m, ask) /\ rd \in Rounds /\ rd \in Nat /\ ask.dir \in {1, -1}
      /\ st.tmp = base.tmp /\ st.prev_station_mark = base.prev_station_mark
      /\ \A i \in 0..rd - 1 : rt[i] = base.round_times[i]
      /\ LabelsExplained(m, ask, rt) /\ BestKnown(m, ask, st, rd) /\ Pruned(m, ask, st, rd)
  BY RoundFacts DEF WalkStates, IsQuery
<1>0. EndsAre(m, ask, rd, base, st) /\ st \in States(m, ask) /\ rd \in Rounds /\ ask.dir \in {1, -1}
  BY DEF WalkStates, IsQuery
<1>2. /\ AreLabels(m, ask, rt) /\ l \in Nodes(m)
      /\ st.best[l][v] \in LabelTimes(ask) /\ st.best[l][v] \in Int /\ t \in Int
  BY <1>1, StateFacts DEF LabelTimes
<1>3. old \in LabelTimes(ask) /\ old \in Int
  BY <1>1, <1>2, LabelFacts
<1>4. Explained(m, ask, rt, rd, l, v, t) /\ Explained(m, ask, rt, rd, l, v, old)
  <2>1. Explained(m, ask, rt, rd, l, v, old)
    BY <1>1 DEF LabelsExplained
  <2>2. \A i \in 0..rd - 1 : base.round_times[i] = rt[i]
    BY <1>1
  <2> HIDE DEF rt
  <2>3. Explained(m, ask, rt, rd, l, v, t)
    BY <2>2, SameRounds
  <2> QED
    BY <2>1, <2>3
<1>5. CASE ~better(ask, t, st.best[l][v])
  <2>1. st2 = st
    <3>1. st.bounds.last = 0
      BY <1>1, StateFacts
    <3> QED
      BY <1>5, <3>1 DEF UpdateTarget
  <2>2. Known(ask, rt, rd, l, v, t)
    <3>1. PICK i \in 0..rd : better_or_eq(ask, rt[i][l][v], st.best[l][v])
      BY <1>1 DEF BestKnown, Known
    <3>2. i \in Rounds
      BY <1>1, RoundFacts
    <3>3. rt[i][l][v] \in Int
      BY <1>2, <3>2, LabelFacts
    <3>4. better_or_eq(ask, st.best[l][v], t)
      BY <1>1, <1>2, <1>5, Order
    <3>5. better_or_eq(ask, rt[i][l][v], t)
      BY <1>1, <1>2, <3>1, <3>3, <3>4, Order
    <3> QED
      BY <3>5 DEF Known
  <2> QED
    BY <1>1, <1>2, <2>1, <2>2, GrownFacts
<1>6. \A i \in 0..rd - 1 : i \in Rounds \ {rd}
  BY <1>1, RoundFacts
<1>7. CASE better(ask, t, st.best[l][v]) /\ ~Promising(ask, st, rd, l, t)
  <2> DEFINE u == best_of(ask, t, old)
  <2>1. /\ st2 \in States(m, ask)
        /\ IsSet(m, ask, rt, rt2, rd, l, v, u) /\ u \in LabelTimes(ask)
        /\ st2.best = st.best /\ st2.time_at_dest = st.time_at_dest
        /\ st2.tmp = st.tmp /\ st2.prev_station_mark = st.prev_station_mark
    BY <1>1, <1>7, PrunedOutcome
  <2>2. u \in {t, old} /\ better_or_eq(ask, u, t) /\ better_or_eq(ask, u, old)
        /\ (better(ask, t, old) => u = t) /\ (better_or_eq(ask, old, t) => u = old)
    BY <1>1, <1>2, <1>3, BestOf
  <2>3. Explained(m, ask, rt, rd, l, v, u) /\ u \in Int
    BY <1>2, <1>3, <1>4, <2>2
  <2> HIDE DEF u, rt2, old
  <2>4. Grown(m, ask, rt, rt2)
    <3>1. rd \in Rounds /\ ask.dir \in {1, -1} /\ AreLabels(m, ask, rt) /\ l \in Nodes(m)
      BY <1>1, <1>2
    <3>2. /\ IsSet(m, ask, rt, rt2, rd, l, v, u) /\ u \in LabelTimes(ask)
          /\ better_or_eq(ask, u, rt[rd][l][v])
      BY <2>1, <2>2 DEF old
    <3> HIDE DEF rt
    <3> QED
      BY <3>1, <3>2, SetLabelGrows
  <2>5. LabelsExplained(m, ask, rt2)
    BY <1>1, <1>2, <2>1, <2>2, <2>3, SetLabelExplained DEF old
  <2>6. \A i \in 0..rd - 1 : rt2[i] = base.round_times[i]
    BY <1>1, <1>6, <2>1 DEF IsSet
  <2>7. BestKnown(m, ask, st2, rd)
    BY <1>1, <2>1, <2>4, BestStaysKnown DEF rt2
  <2>8. Known(ask, rt2, rd, l, v, t)
    BY <1>1, <1>2, <2>1, <2>2, <2>3, TargetIsKnown
  <2>9. Pruned(m, ask, st2, rd)
    <3>1. ASSUME NEW x \in AllLocations(m), NEW y \in ViaCounts(ask),
                 better(ask, rt2[rd][x][y], st2.best[x][y])
          PROVE  ~Promising(ask, st2, rd, x, rt2[rd][x][y])
      <4>1. rt2[rd][x][y] = IF x = l /\ y = v THEN u ELSE rt[rd][x][y]
        BY <1>1, <2>1 DEF IsSet, Nodes
      <4>2. \A z : Promising(ask, st2, rd, x, z) <=> Promising(ask, st, rd, x, z)
        BY <2>1 DEF Promising
      <4>3. better(ask, rt[rd][x][y], st.best[x][y]) => ~Promising(ask, st, rd, x, rt[rd][x][y])
        BY <1>1 DEF Pruned
      <4>4. CASE x = l /\ y = v
        BY <1>7, <2>1, <2>2, <3>1, <4>1, <4>2, <4>3, <4>4 DEF old
      <4>5. CASE ~(x = l /\ y = v)
        BY <2>1, <3>1, <4>1, <4>2, <4>3, <4>5
      <4> QED
        BY <4>4, <4>5
    <3> QED
      BY <3>1 DEF Pruned, rt2
  <2>10. EndsAre(m, ask, rd, base, st2)
    BY <1>0, <2>1, EndsStay DEF rt2
  <2> QED
    BY <1>1, <2>1, <2>4, <2>5, <2>6, <2>7, <2>8, <2>9, <2>10 DEF WalkStates, rt2
<1>8. CASE better(ask, t, st.best[l][v]) /\ Promising(ask, st, rd, l, t)
  <2>1. /\ st2 \in States(m, ask) /\ IsSet(m, ask, rt, rt2, rd, l, v, t)
        /\ \A x \in Nodes(m), y \in ViaCounts(ask) :
             st2.best[x][y] = IF x = l /\ y = v THEN t ELSE st.best[x][y]
        /\ \A i \in Rounds : better_or_eq(ask, st2.time_at_dest[i], st.time_at_dest[i])
        /\ st2.tmp = st.tmp /\ st2.prev_station_mark = st.prev_station_mark
    BY <1>0, <1>8, TargetOutcomes
  <2>2. better_or_eq(ask, t, old)
    <3> HIDE DEF old
    <3>0. st.time_at_dest[rd] \in Int
      BY <1>1, StateFacts
    <3>1. CASE better(ask, old, t)
      <4>1. better_or_eq(ask, t, st.best[l][v])
        BY <1>1, <1>2, <1>8, StrictOrder
      <4>2. better(ask, old, st.best[l][v]) /\ better_or_eq(ask, old, t)
        BY <1>1, <1>2, <1>3, <3>1, <4>1, StrictOrder
      <4>3. ~Promising(ask, st, rd, l, old)
        BY <1>1, <4>2 DEF Pruned, old
      <4>4. better_or_eq(ask, st.time_at_dest[rd], st.time_at_dest[rd])
        BY <1>1, <3>0, Order
      <4> QED
        BY <1>1, <1>2, <1>3, <1>8, <4>2, <4>3, <4>4, AsPromising
    <3> QED
      BY <1>1, <1>2, <1>3, <3>1, Order
  <2> HIDE DEF rt2, old
  <2>3. Grown(m, ask, rt, rt2)
    <3>1. rd \in Rounds /\ ask.dir \in {1, -1} /\ AreLabels(m, ask, rt) /\ l \in Nodes(m)
      BY <1>1, <1>2
    <3>2. IsSet(m, ask, rt, rt2, rd, l, v, t) /\ better_or_eq(ask, t, rt[rd][l][v])
      BY <2>1, <2>2 DEF old
    <3> HIDE DEF rt
    <3> QED
      BY <3>1, <3>2, SetLabelGrows
  <2>4. LabelsExplained(m, ask, rt2)
    BY <1>1, <1>2, <1>4, <2>1, <2>2, SetLabelExplained DEF old
  <2>5. \A i \in 0..rd - 1 : rt2[i] = base.round_times[i]
    BY <1>1, <1>6, <2>1 DEF IsSet
  <2>6. better_or_eq(ask, t, t)
    BY <1>1, <1>2, Order
  <2>7. Known(ask, rt2, rd, l, v, t)
    BY <1>1, <1>2, <2>1, <2>6, TargetIsKnown
  <2>8. BestKnown(m, ask, st2, rd)
    <3>1. ASSUME NEW x \in AllLocations(m), NEW y \in ViaCounts(ask)
          PROVE  st2.best[x][y] = st.best[x][y] \/ Known(ask, st2.round_times, rd, x, y, st2.best[x][y])
      <4>1. st2.best[x][y] = IF x = l /\ y = v THEN t ELSE st.best[x][y]
        BY <2>1 DEF Nodes
      <4> QED
        BY <2>7, <4>1 DEF rt2
    <3> QED
      BY <1>1, <2>1, <2>3, <3>1, BestStaysKnown DEF rt2
  <2>9. Pruned(m, ask, st2, rd)
    <3>1. ASSUME NEW x \in AllLocations(m), NEW y \in ViaCounts(ask),
                 better(ask, rt2[rd][x][y], st2.best[x][y])
          PROVE  ~Promising(ask, st2, rd, x, rt2[rd][x][y])
      <4>1. /\ rt2[rd][x][y] = IF x = l /\ y = v THEN t ELSE rt[rd][x][y]
            /\ st2.best[x][y] = IF x = l /\ y = v THEN t ELSE st.best[x][y]
        BY <1>1, <2>1 DEF IsSet, Nodes
      <4>2. CASE x = l /\ y = v
        BY <1>0, <1>2, <3>1, <4>1, <4>2, Order
      <4>3. CASE ~(x = l /\ y = v)
        <5>1. ~Promising(ask, st, rd, x, rt[rd][x][y])
          BY <1>1, <3>1, <4>1, <4>3 DEF Pruned
        <5>2. rt[rd][x][y] \in Int
          BY <1>1, <1>2, LabelFacts DEF Nodes
        <5>3. better_or_eq(ask, rt[rd][x][y], rt[rd][x][y])
              /\ better_or_eq(ask, st2.time_at_dest[rd], st.time_at_dest[rd])
          BY <1>1, <2>1, <5>2, Order
        <5>4. ~Promising(ask, st2, rd, x, rt[rd][x][y])
          <6> DEFINE z == rt[rd][x][y]
          <6> HIDE DEF z
          <6>1. z \in Int /\ better_or_eq(ask, z, z) /\ ~Promising(ask, st, rd, x, z)
            BY <5>1, <5>2, <5>3 DEF z
          <6>2. ~Promising(ask, st2, rd, x, z)
            BY <1>1, <2>1, <5>3, <6>1, AsPromising
          <6> QED
            BY <6>2 DEF z
        <5> QED
          BY <4>1, <4>3, <5>4
      <4> QED
        BY <4>2, <4>3
    <3> QED
      BY <3>1 DEF Pruned, rt2
  <2>10. EndsAre(m, ask, rd, base, st2)
    BY <1>0, <2>1, EndsStay DEF rt2
  <2> QED
    BY <1>1, <2>1, <2>3, <2>4, <2>5, <2>7, <2>8, <2>9, <2>10 DEF WalkStates, rt2
<1> QED
  BY <1>5, <1>7, <1>8

-----------------------------------------------------------------------------
(***************************************************************************)
(* Ways on foot lead to locations and take their time.                     *)
(***************************************************************************)
LEMMA FiniteImage ==
  ASSUME NEW S, IsFiniteSet(S), NEW f
  PROVE  IsFiniteSet({f[x] : x \in S})
<1> DEFINE g == [x \in S |-> f[x]]
           T == {f[x] : x \in S}
<1>1. g \in Surjection(S, T)
  BY DEF Surjection
<1> QED
  BY <1>1, FS_Surjection

LEMMA EarliestOf ==
  ASSUME NEW T \in SUBSET Nat, T # {}
  PROVE  Earliest(T) \in T
BY LeastNumber DEF Earliest

LEMMA LatestOf ==
  ASSUME NEW T \in SUBSET Int, IsFiniteSet(T), T # {}
  PROVE  Latest(T) \in T
BY HighestOfFinite DEF Latest

LEMMA TransferTimes ==
  ASSUME NEW m, NEW ask, IsQuery(m, ask), NEW d \in Nat
  PROVE  adjusted_transfer_time(ask, d) \in Nat
<1> DEFINE scaled == d * ask.transfer.factor
<1>1. /\ ask.transfer.factor \in Nat /\ ask.transfer.min \in Nat /\ ask.transfer.additional \in Nat
  BY DEF IsQuery
<1>2. scaled \in Int
  BY <1>1
<1>3. adjusted_transfer_time(ask, d) =
        IF ask.transfer.default THEN d
        ELSE ask.transfer.additional + (IF scaled > ask.transfer.min THEN scaled ELSE ask.transfer.min)
  BY DEF adjusted_transfer_time
<1> HIDE DEF scaled
<1> QED
  BY <1>1, <1>2, <1>3

\* A list of time-dependent footpaths.
IsPeriods(m, c) ==
  /\ Len(c) \in Nat /\ DOMAIN c = 1..Len(c)
  /\ \A i \in 1..Len(c) :
       c[i].target \in AllLocations(m) /\ c[i].valid_from \in Int /\ c[i].duration \in Nat

LEMMA TdDurations ==
  ASSUME NEW m, NEW dir, NEW c, IsPeriods(m, c), NEW t \in Int, Found(get_td_duration(dir, c, t))
  PROVE  get_td_duration(dir, c, t).duration \in Nat
<1> DEFINE fwd == {i \in DOMAIN c : /\ c[i].duration # kMaxDuration
                                    /\ ~(/\ c[i].valid_from < t /\ i # Len(c)
                                         /\ c[i + 1].valid_from <= t)}
           bwd == {i \in DOMAIN c : /\ c[i].duration # kMaxDuration
                                    /\ c[i].valid_from + c[i].duration <= t}
<1>1. IsFiniteSet(fwd) /\ IsFiniteSet(bwd) /\ fwd \in SUBSET Nat /\ bwd \in SUBSET Nat /\ bwd \in SUBSET Int
  <2>1. IsFiniteSet(1..Len(c)) /\ DOMAIN c = 1..Len(c)
    BY FS_Interval DEF IsPeriods
  <2> QED
    BY <2>1, FS_Subset
<1>2. CASE dir = kForward
  <2> DEFINE i == Earliest(fwd)
  <2>1. td_duration_fwd(c, t) =
          IF fwd = {} \/ c[i].valid_from - t > kMaxTravelTime THEN NoDuration
          ELSE [duration |-> Larger(c[i].valid_from, t) + c[i].duration - t, walk |-> c[i].duration]
    BY Zenon DEF td_duration_fwd
  <2>2. fwd # {} /\ get_td_duration(dir, c, t).duration = Larger(c[i].valid_from, t) + c[i].duration - t
    BY <1>2, <2>1 DEF get_td_duration, Found
  <2>3. i \in fwd
    BY <1>1, <2>2, EarliestOf
  <2>4. c[i].valid_from \in Int /\ c[i].duration \in Nat
    BY <2>3 DEF IsPeriods
  <2> HIDE DEF i, fwd
  <2> QED
    BY <2>2, <2>4 DEF Larger
<1>3. CASE dir # kForward
  <2> DEFINE i == Latest(bwd)
  <2>1. td_duration_bwd(c, t) =
          IF bwd = {} \/ t - latest_arr(c, i, t) > kMaxTravelTime THEN NoDuration
          ELSE [duration |-> t - (latest_arr(c, i, t) - c[i].duration), walk |-> c[i].duration]
    BY DEF td_duration_bwd
  <2>2. bwd # {} /\ get_td_duration(dir, c, t).duration = t - (latest_arr(c, i, t) - c[i].duration)
    BY <1>3, <2>1 DEF get_td_duration, Found
  <2>3. i \in bwd
    BY <1>1, <2>2, LatestOf
  <2>4. /\ i \in 1..Len(c) /\ c[i].duration \in Nat
        /\ i # Len(c) => c[i + 1].valid_from \in Int
    BY <2>3 DEF IsPeriods
  <2> HIDE DEF i, bwd
  <2>5. latest_arr(c, i, t) \in Int /\ latest_arr(c, i, t) <= t
    BY <2>4 DEF latest_arr, Smaller
  <2> QED
    BY <2>2, <2>4, <2>5
<1> QED
  BY <1>2, <1>3

LEMMA TdListFacts ==
  ASSUME NEW m, NEW c, IsTdList(m, c)
  PROVE  IsPeriods(m, c)
BY DEF IsTdList, IsList, IsPeriods

LEMMA TdFootpathFacts ==
  ASSUME NEW m, NEW dir, NEW c, IsTdList(m, c), NEW t \in Int
  PROVE  /\ IsFiniteSet(for_each_footpath(dir, c, t))
         /\ \A fp \in for_each_footpath(dir, c, t) :
              fp.target \in AllLocations(m) /\ fp.td.duration \in Nat
<1> DEFINE starts == {i \in DOMAIN c : i = 1 \/ c[i - 1].target # c[i].target}
           Same(i) == {j \in i..Len(c) : \A x \in i..j : c[x].target = c[i].target}
           RangeFrom(i) == SubSeq(c, i, Latest(Same(i)))
           found == {i \in starts : Found(get_td_duration(dir, RangeFrom(i), t))}
           Fp(i) == [target |-> c[i].target, td |-> get_td_duration(dir, RangeFrom(i), t)]
<1>1. IsPeriods(m, c)
  BY TdListFacts
<1>2. for_each_footpath(dir, c, t) = {Fp(i) : i \in found}
  BY DEF for_each_footpath
<1>3. ASSUME NEW i \in DOMAIN c PROVE IsPeriods(m, RangeFrom(i))
  <2>1. i \in 1..Len(c) /\ Len(c) \in Nat
    BY <1>1 DEF IsPeriods
  <2>2. Latest(Same(i)) \in i..Len(c)
    <3>1. i \in Same(i)
      BY <2>1
    <3>2. Same(i) \in SUBSET Int /\ Same(i) \in SUBSET (i..Len(c)) /\ IsFiniteSet(i..Len(c))
      BY <2>1, FS_Interval
    <3>. IsFiniteSet(Same(i))
      BY <3>2, FS_Subset
    <3> HIDE DEF Same
    <3>3. Latest(Same(i)) \in Same(i)
      BY <3>1, <3>2, LatestOf
    <3> QED
      BY <3>3 DEF Same
  <2> DEFINE j == Latest(Same(i))
  <2> HIDE DEF j, Same
  <2>3. j \in i..Len(c) /\ RangeFrom(i) = SubSeq(c, i, j)
    BY <2>2 DEF j
  <2>4. /\ Len(SubSeq(c, i, j)) = j - i + 1 /\ DOMAIN SubSeq(c, i, j) = 1..j - i + 1
        /\ \A x \in 1..j - i + 1 : SubSeq(c, i, j)[x] = c[i + x - 1]
    <3>1. c \in Seq({c[x] : x \in DOMAIN c})
      BY DEF IsTdList, IsList
    <3> QED
      BY <2>1, <2>3, <3>1
  <2>5. j - i + 1 \in Nat /\ \A x \in 1..j - i + 1 : i + x - 1 \in 1..Len(c)
    BY <2>1, <2>3
  <2> HIDE DEF RangeFrom
  <2> QED
    BY <1>1, <2>3, <2>4, <2>5 DEF IsPeriods
<1>4. IsFiniteSet({Fp(i) : i \in found})
  <2>1. IsFiniteSet(DOMAIN c)
    BY <1>1, FS_Interval DEF IsPeriods
  <2>2. IsFiniteSet(found)
    <3>1. found \in SUBSET (DOMAIN c)
      OBVIOUS
    <3> QED
      BY <2>1, <3>1, FS_Subset
  <2> DEFINE f == [i \in found |-> Fp(i)]
  <2>3. {Fp(i) : i \in found} = {f[i] : i \in found}
    <3> HIDE DEF found
    <3> QED
      OBVIOUS
  <2> HIDE DEF f, found, Fp
  <2> QED
    BY <2>2, <2>3, FiniteImage
<1>5. ASSUME NEW i \in found PROVE Fp(i).target \in AllLocations(m) /\ Fp(i).td.duration \in Nat
  <2>1. i \in DOMAIN c /\ c[i].target \in AllLocations(m)
    BY <1>1 DEF IsPeriods
  <2>2. Found(get_td_duration(dir, RangeFrom(i), t))
    OBVIOUS
  <2>3. IsPeriods(m, RangeFrom(i))
    BY <1>3, <2>1
  <2> HIDE DEF RangeFrom
  <2>4. get_td_duration(dir, RangeFrom(i), t).duration \in Nat
    BY <2>2, <2>3, TdDurations
  <2> QED
    BY <2>1, <2>4
<1> HIDE DEF Fp, found
<1> QED
  BY <1>2, <1>4, <1>5

LEMMA QueryFacts ==
  ASSUME NEW m, NEW ask, IsQuery(m, ask)
  PROVE  /\ ask.dir \in {1, -1} /\ Vias(ask) \in Nat /\ Vias(ask) <= 2
         /\ Vias(ask) \in ViaCounts(ask) /\ 0 \in ViaCounts(ask)
         /\ ViaCounts(ask) \subseteq Int /\ IsFiniteSet(ViaCounts(ask))
         /\ \A i \in 1..Vias(ask) : ask.vias[i].stay \in Nat
<1>1. /\ ask.dir \in {1, -1} /\ ask.vias \in Seq({ask.vias[i] : i \in DOMAIN ask.vias})
      /\ Len(ask.vias) <= 2 /\ \A i \in DOMAIN ask.vias : ask.vias[i].stay \in Nat
  BY DEF IsQuery, IsList, kMaxVias
<1>2. Len(ask.vias) \in Nat /\ DOMAIN ask.vias = 1..Len(ask.vias)
  BY <1>1
<1>3. IsFiniteSet(0..Len(ask.vias))
  BY <1>2, FS_Interval
<1> QED
  BY <1>1, <1>2, <1>3 DEF Vias, ViaCounts

LEMMA ViaFacts ==
  ASSUME NEW m, NEW ask, IsQuery(m, ask), NEW l, NEW v \in ViaCounts(ask)
  PROVE  /\ next_via_states(ask, l, v) \subseteq ViaCounts(ask)
         /\ next_via_states(ask, l, v) \subseteq Int /\ IsFiniteSet(next_via_states(ask, l, v))
         /\ \A w \in next_via_states(ask, l, v) :
              /\ via_stay(ask, v, w) \in Nat
              /\ <<w, via_stay(ask, v, w)>> \in Stays(ask, l, v)
<1>1. /\ Vias(ask) \in Nat /\ v \in 0..Vias(ask) /\ ViaCounts(ask) \subseteq Int
      /\ IsFiniteSet(ViaCounts(ask)) /\ \A i \in 1..Vias(ask) : ask.vias[i].stay \in Nat
  BY QueryFacts DEF ViaCounts
<1>2. next_via_states(ask, l, v) \subseteq ViaCounts(ask)
  BY <1>1 DEF next_via_states, IsNextVia, ViaCounts
<1>3. IsNextVia(ask, l, v) => v + 1 \in 1..Vias(ask)
  BY <1>1 DEF IsNextVia
<1>4. ASSUME NEW w \in next_via_states(ask, l, v)
      PROVE  via_stay(ask, v, w) \in Nat /\ <<w, via_stay(ask, v, w)>> \in Stays(ask, l, v)
  <2>1. CASE w = v
    BY <1>1, <2>1 DEF via_stay, Stays
  <2>2. CASE w # v
    <3>1. IsNextVia(ask, l, v) /\ w = v + 1
      BY <2>2 DEF next_via_states
    <3> QED
      BY <1>1, <1>3, <2>2, <3>1 DEF via_stay, Stays
  <2> QED
    BY <2>1, <2>2
<1>5. IsFiniteSet(next_via_states(ask, l, v))
  BY <1>1, <1>2, FS_Subset
<1> QED
  BY <1>1, <1>2, <1>4, <1>5

LEMMA ChangeTimes ==
  ASSUME NEW m, IsNetwork(m), NEW ask, IsQuery(m, ask), NEW l \in AllLocations(m),
         NEW v \in ViaCounts(ask), NEW w \in next_via_states(ask, l, v), NEW t \in LabelTimes(ask)
  PROVE  /\ ChangeTime(m, ask, l, v, w) \in Nat
         /\ Changed(m, ask, l, v, t, w) \in LabelTimes(ask)
         /\ \/ Changed(m, ask, l, v, t, w) = kInvalid(ask)
            \/ Changed(m, ask, l, v, t, w) = t + ask.dir * ChangeTime(m, ask, l, v, w)
<1>1. m.transfer_time[l] \in Nat /\ ask.dir \in {1, -1}
  BY QueryFacts DEF IsNetwork
<1>2. adjusted_transfer_time(ask, m.transfer_time[l]) \in Nat /\ via_stay(ask, v, w) \in Nat
  BY <1>1, TransferTimes, ViaFacts
<1>3. ChangeTime(m, ask, l, v, w) \in Nat
  BY <1>2 DEF ChangeTime
<1> QED
  BY <1>1, <1>3, ClampedWalk DEF Changed

LEMMA WalkTimes ==
  ASSUME NEW m, NEW ask, IsQuery(m, ask), NEW l, NEW target,
         NEW v \in ViaCounts(ask), NEW y \in next_via_states(ask, l, v),
         NEW z \in next_via_states(ask, target, y), NEW d \in Nat, NEW t \in LabelTimes(ask)
  PROVE  /\ y \in ViaCounts(ask) /\ z \in ViaCounts(ask)
         /\ Walked(ask, d, v, y, z, t) \in LabelTimes(ask)
         /\ \/ Walked(ask, d, v, y, z, t) = kInvalid(ask)
            \/ Walked(ask, d, v, y, z, t)
                 = t + ask.dir * (d + via_stay(ask, v, y) + via_stay(ask, y, z))
<1>1. ask.dir \in {1, -1}
  BY QueryFacts
<1>2. y \in ViaCounts(ask) /\ via_stay(ask, v, y) \in Nat
  BY ViaFacts
<1>3. z \in ViaCounts(ask) /\ via_stay(ask, y, z) \in Nat
  BY <1>2, ViaFacts
<1> DEFINE e == d + via_stay(ask, v, y) + via_stay(ask, y, z)
<1>4. e \in Nat
  BY <1>2, <1>3
<1>5. Walked(ask, d, v, y, z, t) = clamp(t + ask.dir * e)
  BY DEF Walked
<1> HIDE DEF e
<1>6. /\ clamp(t + ask.dir * e) \in LabelTimes(ask)
      /\ clamp(t + ask.dir * e) = kInvalid(ask) \/ clamp(t + ask.dir * e) = t + ask.dir * e
  BY <1>1, <1>4, ClampedWalk
<1> QED
  BY <1>2, <1>3, <1>5, <1>6 DEF e

(***************************************************************************)
(* What the walks from an arrival lead to is explained: it is onward from  *)
(* the arrival, or known because the arrival is one of an earlier start.   *)
(***************************************************************************)
LEMMA ChangeOnward ==
  ASSUME NEW m, IsNetwork(m), NEW ask, IsQuery(m, ask), NEW places, NEW l \in AllLocations(m), NEW v \in ViaCounts(ask),
         NEW t, <<l, v, t>> \in places, NEW w \in next_via_states(ask, l, v)
  PROVE  <<l, w, t + ask.dir * ChangeTime(m, ask, l, v, w)>> \in Onward(m, ask, places)
<1> DEFINE p == <<l, v, t>>
           x == <<w, via_stay(ask, v, w)>>
<1>1. p \in places /\ p[1] = l /\ p[2] = v /\ p[3] = t
  OBVIOUS
<1>2. x \in Stays(ask, l, v) /\ x[1] = w /\ x[2] = via_stay(ask, v, w) /\ x[2] \in Nat
  BY ViaFacts
<1> HIDE DEF p, x
<1>3. CASE ~ask.intermodal /\ w = Vias(ask) /\ l \in ask.is_dest
  <2>1. ChangeTime(m, ask, l, v, w) = x[2]
    BY <1>2, <1>3 DEF ChangeTime
  <2>2. <<p[1], Vias(ask), p[3] + ask.dir * x[2]>> \in AtDestination(ask, places)
    BY <1>1, <1>2, <1>3 DEF AtDestination
  <2> QED
    BY <1>1, <1>3, <2>1, <2>2 DEF Onward
<1>4. CASE ~(~ask.intermodal /\ w = Vias(ask) /\ l \in ask.is_dest)
  <2> DEFINE a == adjusted_transfer_time(ask, m.transfer_time[p[1]])
  <2>1. <<p[1], x[1], p[3] + ask.dir * (x[2] + a)>> \in Transfers(m, ask, places)
    BY <1>1, <1>2 DEF Transfers
  <2>2. ChangeTime(m, ask, l, v, w) = a + x[2]
    BY <1>1, <1>2, <1>4 DEF ChangeTime
  <2>3. a \in Nat
    BY <1>1, TransferTimes DEF IsNetwork
  <2> HIDE DEF a
  <2>4. x[2] + a = a + x[2]
    BY <1>2, <2>3
  <2> QED
    BY <1>1, <1>2, <2>1, <2>2, <2>4 DEF Onward
<1> QED
  BY <1>3, <1>4

LEMMA WalkOnward ==
  ASSUME NEW m, NEW ask, IsQuery(m, ask), NEW places, NEW l, NEW v \in ViaCounts(ask), NEW t,
         <<l, v, t>> \in places, NEW walk \in WalksFrom(m, ask, l, t), walk.duration \in Nat,
         NEW y \in next_via_states(ask, l, v), NEW z \in next_via_states(ask, walk.target, y)
  PROVE  <<walk.target, z,
           t + ask.dir * (walk.duration + via_stay(ask, v, y) + via_stay(ask, y, z))>>
           \in Onward(m, ask, places)
<1> DEFINE p == <<l, v, t>>
           x == <<y, via_stay(ask, v, y)>>
           x2 == <<z, via_stay(ask, y, z)>>
<1>1. p \in places /\ p[1] = l /\ p[2] = v /\ p[3] = t
  OBVIOUS
<1>2. x \in Stays(ask, l, v) /\ x[1] = y /\ x[2] = via_stay(ask, v, y) /\ x[2] \in Nat
      /\ y \in ViaCounts(ask)
  BY ViaFacts
<1>3. x2 \in Stays(ask, walk.target, y) /\ x2[1] = z /\ x2[2] = via_stay(ask, y, z) /\ x2[2] \in Nat
  BY <1>2, ViaFacts
<1> HIDE DEF p, x, x2
<1>4. <<walk.target, x2[1], p[3] + ask.dir * (x[2] + walk.duration + x2[2])>>
        \in WalkTo(m, ask, places)
  BY <1>1, <1>2, <1>3 DEF WalkTo
<1>5. x[2] + walk.duration + x2[2] = walk.duration + via_stay(ask, v, y) + via_stay(ask, y, z)
  BY <1>2, <1>3
<1> QED
  BY <1>1, <1>3, <1>4, <1>5 DEF Onward

LEMMA ChangesExplained ==
  ASSUME NEW m, IsNetwork(m), NEW ask, IsQuery(m, ask), NEW rd \in Rounds \ {0},
         NEW st \in States(m, ask), ArrivalsAre(m, ask, st, rd, st.prev_station_mark),
         NEW l \in AllLocations(m), NEW v \in ViaCounts(ask), st.tmp[l][v] # kInvalid(ask),
         NEW w \in next_via_states(ask, l, v)
  PROVE  Explained(m, ask, st.round_times, rd, l, w, Changed(m, ask, l, v, st.tmp[l][v], w))
<1> DEFINE t == st.tmp[l][v]
           u == Changed(m, ask, l, v, t, w)
           places == Arrivals(m, ask, st.round_times, rd - 1)
<1>1. t \in LabelTimes(ask)
  BY StateFacts
<1>2. u = kInvalid(ask) \/ u = t + ask.dir * ChangeTime(m, ask, l, v, w)
  BY <1>1, ChangeTimes
<1>3. Settled(m, ask, st.round_times, rd - 1, l, v, t) \/ <<l, v, t>> \in places
  BY DEF ArrivalsAre
<1> HIDE DEF t, u, places
<1>4. CASE Settled(m, ask, st.round_times, rd - 1, l, v, t)
  <2>1. Known(ask, st.round_times, rd - 1, l, w, u)
    BY <1>4 DEF Settled, ChangeKnown, u
  <2> QED
    BY <2>1 DEF Explained, u, t
<1>5. CASE <<l, v, t>> \in places
  <2>1. <<l, w, t + ask.dir * ChangeTime(m, ask, l, v, w)>> \in Onward(m, ask, places)
    BY <1>5, ChangeOnward
  <2> QED
    BY <1>2, <2>1 DEF Explained, u, t, places
<1> QED
  BY <1>3, <1>4, <1>5

LEMMA WalksExplained ==
  ASSUME NEW m, IsNetwork(m), NEW ask, IsQuery(m, ask), NEW rd \in Rounds \ {0},
         NEW st \in States(m, ask), ArrivalsAre(m, ask, st, rd, st.prev_station_mark),
         NEW l \in AllLocations(m), NEW v \in ViaCounts(ask), st.tmp[l][v] # kInvalid(ask),
         NEW walk \in WalksFrom(m, ask, l, st.tmp[l][v]), walk.duration \in Nat,
         NEW y \in next_via_states(ask, l, v), NEW z \in next_via_states(ask, walk.target, y)
  PROVE  Explained(m, ask, st.round_times, rd, walk.target, z,
                   Walked(ask, walk.duration, v, y, z, st.tmp[l][v]))
<1> DEFINE t == st.tmp[l][v]
           u == Walked(ask, walk.duration, v, y, z, t)
           places == Arrivals(m, ask, st.round_times, rd - 1)
           e == walk.duration + via_stay(ask, v, y) + via_stay(ask, y, z)
<1>1. t \in LabelTimes(ask)
  BY StateFacts
<1>2. u = kInvalid(ask) \/ u = t + ask.dir * e
  BY <1>1, WalkTimes
<1>3. Settled(m, ask, st.round_times, rd - 1, l, v, t) \/ <<l, v, t>> \in places
  BY DEF ArrivalsAre
<1>4. walk \in WalksFrom(m, ask, l, t)
  OBVIOUS
<1> HIDE DEF t, u, places, e
<1>5. CASE Settled(m, ask, st.round_times, rd - 1, l, v, t)
  <2>1. WalkKnown(ask, st.round_times, rd - 1, l, v, t, walk.target, walk.duration)
    BY <1>4, <1>5 DEF Settled
  <2>2. Known(ask, st.round_times, rd - 1, walk.target, z, u)
    BY <2>1 DEF WalkKnown, u
  <2> QED
    BY <2>2 DEF Explained, u, t
<1>6. CASE <<l, v, t>> \in places
  <2>1. <<walk.target, z, t + ask.dir * e>> \in Onward(m, ask, places)
    BY <1>4, <1>6, WalkOnward DEF e
  <2> QED
    BY <1>2, <2>1 DEF Explained, u, t, places
<1> QED
  BY <1>3, <1>5, <1>6

-----------------------------------------------------------------------------
(***************************************************************************)
(* The steps of a walk, and what stays known in them.                      *)
(***************************************************************************)
Steps(m, ask, rd, base) ==
  {x \in WalkStates(m, ask, rd, base) \X WalkStates(m, ask, rd, base) :
     Grown(m, ask, x[1].round_times, x[2].round_times)}

WalkOrder(m, ask, base, A, R) ==
  /\ \A a \in A : a \in States(m, ask) /\ AreLabels(m, ask, a.round_times) /\ a.tmp = base.tmp
  /\ \A a \in A, b \in A : <<a, b>> \in R <=> Grown(m, ask, a.round_times, b.round_times)
  /\ \A a \in A : <<a, a>> \in R
  /\ \A a \in A, b \in A, c \in A : <<a, b>> \in R /\ <<b, c>> \in R => <<a, c>> \in R

LEMMA StepFacts ==
  ASSUME NEW m, NEW ask, ask.dir \in {1, -1}, NEW rd, NEW base
  PROVE  WalkOrder(m, ask, base, WalkStates(m, ask, rd, base), Steps(m, ask, rd, base))
<1> DEFINE A == WalkStates(m, ask, rd, base)
           R == Steps(m, ask, rd, base)
<1>1. ASSUME NEW a \in A
      PROVE  a \in States(m, ask) /\ AreLabels(m, ask, a.round_times) /\ a.tmp = base.tmp
  <2>1. a \in States(m, ask) /\ a.tmp = base.tmp
    BY DEF WalkStates
  <2> QED
    BY <2>1, StateFacts
<1>2. ASSUME NEW a \in A, NEW b \in A
      PROVE  <<a, b>> \in R <=> Grown(m, ask, a.round_times, b.round_times)
  BY DEF Steps
<1> HIDE DEF A, R
<1>3. ASSUME NEW a \in A PROVE <<a, a>> \in R
  BY <1>1, <1>2, GrownFacts
<1>4. ASSUME NEW a \in A, NEW b \in A, NEW c \in A, <<a, b>> \in R, <<b, c>> \in R
      PROVE  <<a, c>> \in R
  <2>1. /\ AreLabels(m, ask, a.round_times) /\ AreLabels(m, ask, b.round_times)
        /\ AreLabels(m, ask, c.round_times)
    BY <1>1
  <2>2. Grown(m, ask, a.round_times, b.round_times) /\ Grown(m, ask, b.round_times, c.round_times)
    BY <1>2, <1>4
  <2> QED
    BY <1>2, <2>1, <2>2, GrownFacts
<1> QED
  <2>. WalkOrder(m, ask, base, A, R)
    BY <1>1, <1>2, <1>3, <1>4 DEF WalkOrder
  <2> QED
    BY DEF A, R

LEMMA ChangeStaysKnown ==
  ASSUME NEW m, IsNetwork(m), NEW ask, IsQuery(m, ask), NEW rt, NEW later,
         AreLabels(m, ask, rt), AreLabels(m, ask, later), Grown(m, ask, rt, later),
         NEW rd \in Rounds, NEW l \in AllLocations(m), NEW v \in ViaCounts(ask),
         NEW t \in LabelTimes(ask), ChangeKnown(m, ask, rt, rd, l, v, t)
  PROVE  ChangeKnown(m, ask, later, rd, l, v, t)
<1>1. ASSUME NEW w \in next_via_states(ask, l, v)
      PROVE  Known(ask, later, rd, l, w, Changed(m, ask, l, v, t, w))
  <2>1. Known(ask, rt, rd, l, w, Changed(m, ask, l, v, t, w))
    BY DEF ChangeKnown
  <2>2. w \in ViaCounts(ask) /\ ask.dir \in {1, -1}
    BY ViaFacts, QueryFacts
  <2>3. Changed(m, ask, l, v, t, w) \in Int
    BY ChangeTimes DEF LabelTimes
  <2> QED
    BY <2>1, <2>2, <2>3, KnownGrows
<1> QED
  BY <1>1 DEF ChangeKnown

LEMMA WalkStaysKnown ==
  ASSUME NEW m, NEW ask, IsQuery(m, ask), NEW rt, NEW later,
         AreLabels(m, ask, rt), AreLabels(m, ask, later), Grown(m, ask, rt, later),
         NEW rd \in Rounds, NEW l, NEW v \in ViaCounts(ask), NEW target \in AllLocations(m),
         NEW d \in Nat, NEW t \in LabelTimes(ask), WalkKnown(ask, rt, rd, l, v, t, target, d)
  PROVE  WalkKnown(ask, later, rd, l, v, t, target, d)
<1>1. ASSUME NEW y \in next_via_states(ask, l, v), NEW z \in next_via_states(ask, target, y)
      PROVE  Known(ask, later, rd, target, z, Walked(ask, d, v, y, z, t))
  <2>1. Known(ask, rt, rd, target, z, Walked(ask, d, v, y, z, t))
    BY DEF WalkKnown
  <2>2. z \in ViaCounts(ask) /\ Walked(ask, d, v, y, z, t) \in Int
    BY WalkTimes DEF LabelTimes
  <2>3. ask.dir \in {1, -1}
    BY QueryFacts
  <2> QED
    BY <2>1, <2>2, <2>3, KnownGrows
<1> QED
  BY <1>1 DEF WalkKnown

WalkBase(m, ask, rd, base) ==
  /\ IsNetwork(m) /\ IsQuery(m, ask) /\ rd \in Rounds \ {0} /\ base \in States(m, ask)
  /\ ArrivalsAre(m, ask, base, rd, base.prev_station_mark)

LEMMA WalkBaseFacts ==
  ASSUME NEW m, NEW ask, NEW rd, NEW base, WalkBase(m, ask, rd, base)
  PROVE  /\ IsNetwork(m) /\ IsQuery(m, ask) /\ rd \in Rounds \ {0} /\ rd \in Rounds /\ ask.dir \in {1, -1}
         /\ base \in States(m, ask) /\ ArrivalsAre(m, ask, base, rd, base.prev_station_mark)
         /\ \A l \in AllLocations(m), v \in ViaCounts(ask) : base.tmp[l][v] \in LabelTimes(ask)
BY QueryFacts, StateFacts DEF WalkBase

(***************************************************************************)
(* Transfers.                                                              *)
(***************************************************************************)
LEMMA TransferStep ==
  ASSUME NEW m, NEW ask, NEW rd, NEW base, WalkBase(m, ask, rd, base),
         NEW l \in AllLocations(m), NEW v \in ViaCounts(ask), base.tmp[l][v] # kInvalid(ask),
         NEW w \in next_via_states(ask, l, v), NEW a \in WalkStates(m, ask, rd, base),
         NEW b, b = Transfer(m, ask, rd, l, v, a, w)
  PROVE  /\ b \in WalkStates(m, ask, rd, base) /\ <<a, b>> \in Steps(m, ask, rd, base)
         /\ Known(ask, b.round_times, rd, l, w, Changed(m, ask, l, v, base.tmp[l][v], w))
<1> DEFINE t == Changed(m, ask, l, v, base.tmp[l][v], w)
           is_dest == w = Vias(ask) /\ l \in ask.is_dest
<1>1. /\ IsNetwork(m) /\ IsQuery(m, ask) /\ rd \in Rounds \ {0} /\ base \in States(m, ask)
      /\ ArrivalsAre(m, ask, base, rd, base.prev_station_mark) /\ ask.dir \in {1, -1}
      /\ base.tmp[l][v] \in LabelTimes(ask)
  BY WalkBaseFacts
<1>2. t \in LabelTimes(ask) /\ w \in ViaCounts(ask)
  BY <1>1, ChangeTimes, ViaFacts
<1>3. Explained(m, ask, base.round_times, rd, l, w, t)
  BY <1>1, ChangesExplained
<1>4. b = UpdateTarget(m, ask, a, rd, l, w, t, is_dest)
  <2>1. a.tmp = base.tmp
    BY <1>1, StepFacts DEF WalkOrder
  <2> QED
    BY <2>1 DEF Transfer, Changed, ChangeTime
<1> HIDE DEF t, is_dest
<1>5. /\ b \in WalkStates(m, ask, rd, base) /\ Grown(m, ask, a.round_times, b.round_times)
      /\ Known(ask, b.round_times, rd, l, w, t)
  BY <1>1, <1>2, <1>3, <1>4, TargetUpdated
<1> QED
  BY <1>1, <1>5, StepFacts DEF WalkOrder, t

LEMMA CountsAreNumbers ==
  ASSUME NEW m, NEW ask, IsQuery(m, ask)
  PROVE  Numbers(ViaCounts(ask))
BY QueryFacts DEF Numbers

LEMMA NextCountsAreNumbers ==
  ASSUME NEW m, NEW ask, IsQuery(m, ask), NEW l, NEW v \in ViaCounts(ask)
  PROVE  Numbers(next_via_states(ask, l, v))
BY ViaFacts DEF Numbers

LEMMA MarksAreNumbers ==
  ASSUME NEW m, NEW ask, NEW rd, NEW base, WalkBase(m, ask, rd, base)
  PROVE  Numbers(base.prev_station_mark) /\ base.prev_station_mark \subseteq AllLocations(m)
<1>1. base.prev_station_mark \subseteq AllLocations(m) /\ AllLocations(m) \subseteq Nat /\ IsFiniteSet(AllLocations(m))
  BY DEF WalkBase, States, IsNetwork
<1> QED
  BY <1>1, FS_Subset DEF Numbers

(***************************************************************************)
(* All transfers of a round.                                               *)
(***************************************************************************)
LEMMA TransferFromStep ==
  ASSUME NEW m, NEW ask, NEW rd, NEW base, WalkBase(m, ask, rd, base),
         NEW l \in AllLocations(m), NEW v \in ViaCounts(ask),
         NEW a \in WalkStates(m, ask, rd, base), NEW b, b = TransferFrom(m, ask, rd, l, a, v)
  PROVE  /\ b \in WalkStates(m, ask, rd, base) /\ <<a, b>> \in Steps(m, ask, rd, base)
         /\ base.tmp[l][v] = kInvalid(ask) \/ ChangeKnown(m, ask, b.round_times, rd, l, v, base.tmp[l][v])
<1> DEFINE A == WalkStates(m, ask, rd, base)
           R == Steps(m, ask, rd, base)
           S == next_via_states(ask, l, v)
           D == {p \in S \X A : Known(ask, p[2].round_times, rd, l, p[1], Changed(m, ask, l, v, base.tmp[l][v], p[1]))}
<1>1. /\ IsNetwork(m) /\ IsQuery(m, ask) /\ ask.dir \in {1, -1} /\ rd \in Rounds
      /\ \A x \in AllLocations(m), v1 \in ViaCounts(ask) : base.tmp[x][v1] \in LabelTimes(ask)
  BY WalkBaseFacts
<1>2. WalkOrder(m, ask, base, A, R)
  BY <1>1, StepFacts
<1>3. a \in A /\ a.tmp = base.tmp /\ a.prev_station_mark = base.prev_station_mark
  BY <1>2 DEF WalkOrder, WalkStates
<1>4. CASE base.tmp[l][v] = kInvalid(ask)
  BY <1>2, <1>3, <1>4 DEF WalkOrder, TransferFrom
<1>5. CASE ~(base.tmp[l][v] = kInvalid(ask))
  <2>1. Numbers(S) /\ b = EachTransfer(m, ask, rd, l, v, a, S)
    <3>1. Numbers(S)
      BY <1>1, NextCountsAreNumbers
    <3> QED
      BY <3>1, <1>3, <1>5 DEF TransferFrom, EachTransfer
  <2>2. ASSUME NEW x \in S, NEW y \in A
        PROVE  Goes(y, Transfer(m, ask, rd, l, v, y, x), x, A, R, D)
    <3> DEFINE y2 == Transfer(m, ask, rd, l, v, y, x)
    <3>1. y2 = Transfer(m, ask, rd, l, v, y, x)
      OBVIOUS
    <3> HIDE DEF y2
    <3>2. y2 \in A /\ <<y, y2>> \in R /\ (Known(ask, y2.round_times, rd, l, x, Changed(m, ask, l, v, base.tmp[l][v], x)))
      BY <1>5, <3>1, TransferStep
    <3> QED
      BY <3>2 DEF Goes, y2
  <2>3. ASSUME NEW x \in S, NEW a1 \in A, NEW a2 \in A, <<x, a1>> \in D, <<a1, a2>> \in R
        PROVE  <<x, a2>> \in D
    <3>1. Known(ask, a1.round_times, rd, l, x, Changed(m, ask, l, v, base.tmp[l][v], x))
      BY <2>3
    <3>2. /\ AreLabels(m, ask, a1.round_times) /\ AreLabels(m, ask, a2.round_times)
          /\ Grown(m, ask, a1.round_times, a2.round_times)
      BY <1>2, <2>3 DEF WalkOrder
    <3>3. Known(ask, a2.round_times, rd, l, x, Changed(m, ask, l, v, base.tmp[l][v], x))
      <4>1. x \in ViaCounts(ask) /\ Changed(m, ask, l, v, base.tmp[l][v], x) \in Int
        BY <1>1, ViaFacts, ChangeTimes DEF LabelTimes
      <4> QED
        BY <1>1, <3>1, <3>2, <4>1, KnownGrows
    <3> QED
      BY <3>3
  <2> HIDE DEF A, R, S, D
  <2>4. Forward(S, A, a, R, D)
    BY <1>2, <1>3, <2>3 DEF WalkOrder, Forward
  <2>5. Arrives(b, S, a, A, R, D)
    BY <2>1, <2>2, <2>4, TransferLoop
  <2>6. \A x \in S : Known(ask, b.round_times, rd, l, x, Changed(m, ask, l, v, base.tmp[l][v], x))
    BY <2>5 DEF D, Arrives
  <2> QED
    BY <2>5, <2>6 DEF A, R, S, Arrives, ChangeKnown
<1> QED
  BY <1>4, <1>5

LEMMA TransfersAtStep ==
  ASSUME NEW m, NEW ask, NEW rd, NEW base, WalkBase(m, ask, rd, base),
         NEW l \in AllLocations(m),
         NEW a \in WalkStates(m, ask, rd, base), NEW b, b = TransfersAt(m, ask, rd, a, l)
  PROVE  /\ b \in WalkStates(m, ask, rd, base) /\ <<a, b>> \in Steps(m, ask, rd, base)
         /\ \A x \in ViaCounts(ask) : base.tmp[l][x] = kInvalid(ask) \/ ChangeKnown(m, ask, b.round_times, rd, l, x, base.tmp[l][x])
<1> DEFINE A == WalkStates(m, ask, rd, base)
           R == Steps(m, ask, rd, base)
           S == ViaCounts(ask)
           D == {p \in S \X A : base.tmp[l][p[1]] = kInvalid(ask) \/ ChangeKnown(m, ask, p[2].round_times, rd, l, p[1], base.tmp[l][p[1]])}
<1>1. /\ IsNetwork(m) /\ IsQuery(m, ask) /\ ask.dir \in {1, -1} /\ rd \in Rounds
      /\ \A x \in AllLocations(m), v1 \in ViaCounts(ask) : base.tmp[x][v1] \in LabelTimes(ask)
  BY WalkBaseFacts
<1>2. WalkOrder(m, ask, base, A, R)
  BY <1>1, StepFacts
<1>3. a \in A /\ a.tmp = base.tmp /\ a.prev_station_mark = base.prev_station_mark
  BY <1>2 DEF WalkOrder, WalkStates
<1>4. Numbers(S) /\ b = EachTransferFrom(m, ask, rd, l, a, S)
  <2>1. Numbers(S)
    BY <1>1, CountsAreNumbers
  <2> QED
    BY <2>1, <1>3 DEF TransfersAt, EachTransferFrom
<1>5. ASSUME NEW x \in S, NEW y \in A
      PROVE  Goes(y, TransferFrom(m, ask, rd, l, y, x), x, A, R, D)
  <2> DEFINE y2 == TransferFrom(m, ask, rd, l, y, x)
  <2>1. y2 = TransferFrom(m, ask, rd, l, y, x)
    OBVIOUS
  <2> HIDE DEF y2
  <2>2. y2 \in A /\ <<y, y2>> \in R /\ (base.tmp[l][x] = kInvalid(ask) \/ ChangeKnown(m, ask, y2.round_times, rd, l, x, base.tmp[l][x]))
    BY <2>1, TransferFromStep
  <2> QED
    BY <2>2 DEF Goes, y2
<1>6. ASSUME NEW x \in S, NEW a1 \in A, NEW a2 \in A, <<x, a1>> \in D, <<a1, a2>> \in R
      PROVE  <<x, a2>> \in D
  <2>1. base.tmp[l][x] = kInvalid(ask) \/ ChangeKnown(m, ask, a1.round_times, rd, l, x, base.tmp[l][x])
    BY <1>6
  <2>2. /\ AreLabels(m, ask, a1.round_times) /\ AreLabels(m, ask, a2.round_times)
        /\ Grown(m, ask, a1.round_times, a2.round_times)
    BY <1>2, <1>6 DEF WalkOrder
  <2>3. base.tmp[l][x] = kInvalid(ask) \/ ChangeKnown(m, ask, a2.round_times, rd, l, x, base.tmp[l][x])
    BY <1>1, <2>1, <2>2, ChangeStaysKnown
  <2> QED
    BY <2>3
<1> HIDE DEF A, R, S, D
<1>7. Forward(S, A, a, R, D)
  BY <1>2, <1>3, <1>6 DEF WalkOrder, Forward
<1>8. Arrives(b, S, a, A, R, D)
  BY <1>4, <1>5, <1>7, TransferFromLoop
<1>9. \A x \in S : base.tmp[l][x] = kInvalid(ask) \/ ChangeKnown(m, ask, b.round_times, rd, l, x, base.tmp[l][x])
  BY <1>8 DEF D, Arrives
<1> QED
  BY <1>8, <1>9 DEF A, R, S, Arrives

LEMMA TransfersStep ==
  ASSUME NEW m, NEW ask, NEW rd, NEW base, WalkBase(m, ask, rd, base),
         NEW a \in WalkStates(m, ask, rd, base), NEW b, b = update_transfers(m, ask, rd, a)
  PROVE  /\ b \in WalkStates(m, ask, rd, base) /\ <<a, b>> \in Steps(m, ask, rd, base)
         /\ \A x \in base.prev_station_mark : \A v \in ViaCounts(ask) : base.tmp[x][v] = kInvalid(ask) \/ ChangeKnown(m, ask, b.round_times, rd, x, v, base.tmp[x][v])
<1> DEFINE A == WalkStates(m, ask, rd, base)
           R == Steps(m, ask, rd, base)
           S == base.prev_station_mark
           D == {p \in S \X A : \A v \in ViaCounts(ask) : base.tmp[p[1]][v] = kInvalid(ask) \/ ChangeKnown(m, ask, p[2].round_times, rd, p[1], v, base.tmp[p[1]][v])}
<1>1. /\ IsNetwork(m) /\ IsQuery(m, ask) /\ ask.dir \in {1, -1} /\ rd \in Rounds
      /\ \A x \in AllLocations(m), v1 \in ViaCounts(ask) : base.tmp[x][v1] \in LabelTimes(ask)
  BY WalkBaseFacts
<1>2. WalkOrder(m, ask, base, A, R)
  BY <1>1, StepFacts
<1>3. a \in A /\ a.tmp = base.tmp /\ a.prev_station_mark = base.prev_station_mark
  BY <1>2 DEF WalkOrder, WalkStates
<1>4. Numbers(S) /\ b = EachTransfersAt(m, ask, rd, a, S)
  <2>1. Numbers(S)
    BY MarksAreNumbers
  <2> QED
    BY <2>1, <1>3 DEF update_transfers, EachTransfersAt
<1>5. ASSUME NEW x \in S, NEW y \in A
      PROVE  Goes(y, TransfersAt(m, ask, rd, y, x), x, A, R, D)
  <2> DEFINE y2 == TransfersAt(m, ask, rd, y, x)
  <2>1. y2 = TransfersAt(m, ask, rd, y, x)
    OBVIOUS
  <2> HIDE DEF y2
  <2>2. y2 \in A /\ <<y, y2>> \in R /\ (\A v \in ViaCounts(ask) : base.tmp[x][v] = kInvalid(ask) \/ ChangeKnown(m, ask, y2.round_times, rd, x, v, base.tmp[x][v]))
    BY <2>1, MarksAreNumbers, TransfersAtStep
  <2> QED
    BY <2>2 DEF Goes, y2
<1>6. ASSUME NEW x \in S, NEW a1 \in A, NEW a2 \in A, <<x, a1>> \in D, <<a1, a2>> \in R
      PROVE  <<x, a2>> \in D
  <2>1. \A v \in ViaCounts(ask) : base.tmp[x][v] = kInvalid(ask) \/ ChangeKnown(m, ask, a1.round_times, rd, x, v, base.tmp[x][v])
    BY <1>6
  <2>2. /\ AreLabels(m, ask, a1.round_times) /\ AreLabels(m, ask, a2.round_times)
        /\ Grown(m, ask, a1.round_times, a2.round_times)
    BY <1>2, <1>6 DEF WalkOrder
  <2>3. \A v \in ViaCounts(ask) : base.tmp[x][v] = kInvalid(ask) \/ ChangeKnown(m, ask, a2.round_times, rd, x, v, base.tmp[x][v])
    BY <1>1, <2>1, <2>2, MarksAreNumbers, ChangeStaysKnown
  <2> QED
    BY <2>3
<1> HIDE DEF A, R, S, D
<1>7. Forward(S, A, a, R, D)
  BY <1>2, <1>3, <1>6 DEF WalkOrder, Forward
<1>8. Arrives(b, S, a, A, R, D)
  BY <1>4, <1>5, <1>7, TransfersAtLoop
<1>9. \A x \in S : \A v \in ViaCounts(ask) : base.tmp[x][v] = kInvalid(ask) \/ ChangeKnown(m, ask, b.round_times, rd, x, v, base.tmp[x][v])
  BY <1>8 DEF D, Arrives
<1> QED
  BY <1>8, <1>9 DEF A, R, S, Arrives

-----------------------------------------------------------------------------
(***************************************************************************)
(* Walks.                                                                  *)
(***************************************************************************)
IsWay(m, ask, base, l, v, target, d) ==
  /\ l \in AllLocations(m) /\ v \in ViaCounts(ask) /\ base.tmp[l][v] # kInvalid(ask)
  /\ target \in AllLocations(m) /\ d \in Nat
  /\ [target |-> target, duration |-> d] \in WalksFrom(m, ask, l, base.tmp[l][v])

LEMMA ArriveStep ==
  ASSUME NEW m, NEW ask, NEW rd, NEW base, WalkBase(m, ask, rd, base),
         NEW walk, IsWay(m, ask, base, walk.from, walk.v, walk.target, walk.duration),
         NEW sv \in next_via_states(ask, walk.from, walk.v),
         NEW z \in next_via_states(ask, walk.target, sv),
         NEW a \in WalkStates(m, ask, rd, base), NEW b, b = Arrive(m, ask, rd, walk, sv, a, z)
  PROVE  /\ b \in WalkStates(m, ask, rd, base) /\ <<a, b>> \in Steps(m, ask, rd, base)
         /\ Known(ask, b.round_times, rd, walk.target, z,
                  Walked(ask, walk.duration, walk.v, sv, z, base.tmp[walk.from][walk.v]))
<1> DEFINE l == walk.from
           v == walk.v
           target == walk.target
           d == walk.duration
           t == Walked(ask, d, v, sv, z, base.tmp[l][v])
           is_dest == z \in walk.dest_vias
           way == [target |-> target, duration |-> d]
<1>1. /\ IsNetwork(m) /\ IsQuery(m, ask) /\ rd \in Rounds \ {0} /\ base \in States(m, ask)
      /\ ArrivalsAre(m, ask, base, rd, base.prev_station_mark) /\ ask.dir \in {1, -1}
      /\ \A x \in AllLocations(m), y \in ViaCounts(ask) : base.tmp[x][y] \in LabelTimes(ask)
  BY WalkBaseFacts
<1>2. /\ l \in AllLocations(m) /\ v \in ViaCounts(ask) /\ base.tmp[l][v] # kInvalid(ask)
      /\ target \in AllLocations(m) /\ d \in Nat
      /\ way \in WalksFrom(m, ask, l, base.tmp[l][v])
  BY DEF IsWay
<1>3. way.target = target /\ way.duration = d
  OBVIOUS
<1>4. b = UpdateTarget(m, ask, a, rd, target, z, t, is_dest)
  <2>1. a.tmp = base.tmp
    BY <1>1, StepFacts DEF WalkOrder
  <2> QED
    BY <2>1 DEF Arrive, Walked
<1>5. sv \in next_via_states(ask, l, v) /\ z \in next_via_states(ask, target, sv)
  OBVIOUS
<1> HIDE DEF l, v, target, d, is_dest, way
<1>6. t \in LabelTimes(ask) /\ z \in ViaCounts(ask)
  BY <1>1, <1>2, <1>5, WalkTimes
<1>7. Explained(m, ask, base.round_times, rd, target, z, t)
  BY <1>1, <1>2, <1>3, <1>5, WalksExplained
<1> HIDE DEF t
<1>8. /\ b \in WalkStates(m, ask, rd, base) /\ Grown(m, ask, a.round_times, b.round_times)
      /\ Known(ask, b.round_times, rd, target, z, t)
  BY <1>1, <1>2, <1>4, <1>6, <1>7, TargetUpdated
<1> QED
  BY <1>1, <1>8, StepFacts DEF WalkOrder, t, l, v, target, d


LEMMA UpdateWalkIs ==
  ASSUME NEW m, NEW ask, NEW rd, NEW a, NEW l, NEW v, NEW target, NEW d, NEW dest_vias
  PROVE  UpdateWalk(m, ask, rd, a, l, v, target, d, dest_vias)
           = EachLeave(m, ask, rd,
               [from |-> l, v |-> v, target |-> target, duration |-> d, dest_vias |-> dest_vias],
               a, next_via_states(ask, l, v))
BY DEF UpdateWalk, EachLeave

LEMMA WayTimes ==
  ASSUME NEW m, NEW ask, NEW rd, NEW base, WalkBase(m, ask, rd, base),
         NEW l, NEW v, NEW target, NEW d, IsWay(m, ask, base, l, v, target, d),
         NEW y \in next_via_states(ask, l, v), NEW z \in next_via_states(ask, target, y)
  PROVE  /\ z \in ViaCounts(ask) /\ target \in AllLocations(m)
         /\ Walked(ask, d, v, y, z, base.tmp[l][v]) \in Int
<1>1. /\ l \in AllLocations(m) /\ v \in ViaCounts(ask) /\ target \in AllLocations(m) /\ d \in Nat
  BY DEF IsWay
<1> DEFINE t == base.tmp[l][v]
<1>2. t \in LabelTimes(ask) /\ IsQuery(m, ask)
  BY <1>1, WalkBaseFacts
<1> HIDE DEF t
<1>3. z \in ViaCounts(ask) /\ Walked(ask, d, v, y, z, t) \in LabelTimes(ask)
  BY <1>1, <1>2, WalkTimes
<1> QED
  BY <1>1, <1>3 DEF LabelTimes, t

LEMMA LeaveStep ==
  ASSUME NEW m, NEW ask, NEW rd, NEW base, WalkBase(m, ask, rd, base),
         NEW walk, IsWay(m, ask, base, walk.from, walk.v, walk.target, walk.duration),
         NEW sv \in next_via_states(ask, walk.from, walk.v),
         NEW a \in WalkStates(m, ask, rd, base), NEW b, b = Leave(m, ask, rd, walk, a, sv)
  PROVE  /\ b \in WalkStates(m, ask, rd, base) /\ <<a, b>> \in Steps(m, ask, rd, base)
         /\ \A x \in next_via_states(ask, walk.target, sv) : Known(ask, b.round_times, rd, walk.target, x, Walked(ask, walk.duration, walk.v, sv, x, base.tmp[walk.from][walk.v]))
<1> DEFINE A == WalkStates(m, ask, rd, base)
           R == Steps(m, ask, rd, base)
           S == next_via_states(ask, walk.target, sv)
           D == {p \in S \X A : Known(ask, p[2].round_times, rd, walk.target, p[1], Walked(ask, walk.duration, walk.v, sv, p[1], base.tmp[walk.from][walk.v]))}
<1>1. /\ IsNetwork(m) /\ IsQuery(m, ask) /\ ask.dir \in {1, -1} /\ rd \in Rounds
      /\ \A x \in AllLocations(m), v1 \in ViaCounts(ask) : base.tmp[x][v1] \in LabelTimes(ask)
  BY WalkBaseFacts
<1>2. WalkOrder(m, ask, base, A, R)
  BY <1>1, StepFacts
<1>3. a \in A /\ a.tmp = base.tmp /\ a.prev_station_mark = base.prev_station_mark
  BY <1>2 DEF WalkOrder, WalkStates
<1>4. Numbers(S) /\ b = EachArrive(m, ask, rd, walk, sv, a, S)
  <2>1. Numbers(S)
    <3>1. sv \in ViaCounts(ask)
      BY <1>1, ViaFacts DEF IsWay
    <3> QED
      BY <1>1, <3>1, NextCountsAreNumbers
  <2> QED
    BY <2>1, <1>3 DEF Leave, EachArrive
<1>5. ASSUME NEW x \in S, NEW y \in A
      PROVE  Goes(y, Arrive(m, ask, rd, walk, sv, y, x), x, A, R, D)
  <2> DEFINE y2 == Arrive(m, ask, rd, walk, sv, y, x)
  <2>1. y2 = Arrive(m, ask, rd, walk, sv, y, x)
    OBVIOUS
  <2> HIDE DEF y2
  <2>2. y2 \in A /\ <<y, y2>> \in R /\ (Known(ask, y2.round_times, rd, walk.target, x, Walked(ask, walk.duration, walk.v, sv, x, base.tmp[walk.from][walk.v])))
    BY <2>1, ArriveStep
  <2> QED
    BY <2>2 DEF Goes, y2
<1>6. ASSUME NEW x \in S, NEW a1 \in A, NEW a2 \in A, <<x, a1>> \in D, <<a1, a2>> \in R
      PROVE  <<x, a2>> \in D
  <2>1. Known(ask, a1.round_times, rd, walk.target, x, Walked(ask, walk.duration, walk.v, sv, x, base.tmp[walk.from][walk.v]))
    BY <1>6
  <2>2. /\ AreLabels(m, ask, a1.round_times) /\ AreLabels(m, ask, a2.round_times)
        /\ Grown(m, ask, a1.round_times, a2.round_times)
    BY <1>2, <1>6 DEF WalkOrder
  <2>3. Known(ask, a2.round_times, rd, walk.target, x, Walked(ask, walk.duration, walk.v, sv, x, base.tmp[walk.from][walk.v]))
    <3>1. /\ x \in ViaCounts(ask) /\ walk.target \in AllLocations(m)
            /\ Walked(ask, walk.duration, walk.v, sv, x, base.tmp[walk.from][walk.v]) \in Int
      BY WayTimes
    <3> QED
      BY <1>1, <2>1, <2>2, <3>1, KnownGrows
  <2> QED
    BY <2>3
<1> HIDE DEF A, R, S, D
<1>7. Forward(S, A, a, R, D)
  BY <1>2, <1>3, <1>6 DEF WalkOrder, Forward
<1>8. Arrives(b, S, a, A, R, D)
  BY <1>4, <1>5, <1>7, ArriveLoop
<1>9. \A x \in S : Known(ask, b.round_times, rd, walk.target, x, Walked(ask, walk.duration, walk.v, sv, x, base.tmp[walk.from][walk.v]))
  BY <1>8 DEF D, Arrives
<1> QED
  BY <1>8, <1>9 DEF A, R, S, Arrives

LEMMA UpdateWalkStep ==
  ASSUME NEW m, NEW ask, NEW rd, NEW base, WalkBase(m, ask, rd, base),
         NEW l, NEW v, NEW target, NEW d, NEW dest_vias, IsWay(m, ask, base, l, v, target, d),
         NEW walk, walk = [from |-> l, v |-> v, target |-> target, duration |-> d, dest_vias |-> dest_vias],
         NEW a \in WalkStates(m, ask, rd, base), NEW b, b = UpdateWalk(m, ask, rd, a, l, v, target, d, dest_vias)
  PROVE  /\ b \in WalkStates(m, ask, rd, base) /\ <<a, b>> \in Steps(m, ask, rd, base)
         /\ WalkKnown(ask, b.round_times, rd, l, v, base.tmp[l][v], target, d)
<1> DEFINE A == WalkStates(m, ask, rd, base)
           R == Steps(m, ask, rd, base)
           S == next_via_states(ask, l, v)
           D == {p \in S \X A : \A z \in next_via_states(ask, target, p[1]) : Known(ask, p[2].round_times, rd, target, z, Walked(ask, d, v, p[1], z, base.tmp[l][v]))}
<1>1. /\ IsNetwork(m) /\ IsQuery(m, ask) /\ ask.dir \in {1, -1} /\ rd \in Rounds
      /\ \A x \in AllLocations(m), v1 \in ViaCounts(ask) : base.tmp[x][v1] \in LabelTimes(ask)
  BY WalkBaseFacts
<1>2. WalkOrder(m, ask, base, A, R)
  BY <1>1, StepFacts
<1>3. a \in A /\ a.tmp = base.tmp /\ a.prev_station_mark = base.prev_station_mark
  BY <1>2 DEF WalkOrder, WalkStates
<1>4. Numbers(S) /\ b = EachLeave(m, ask, rd, walk, a, S)
  <2>1. Numbers(S)
    BY <1>1, NextCountsAreNumbers DEF IsWay
  <2> QED
    BY <2>1, UpdateWalkIs
<1>5. ASSUME NEW x \in S, NEW y \in A
      PROVE  Goes(y, Leave(m, ask, rd, walk, y, x), x, A, R, D)
  <2> DEFINE y2 == Leave(m, ask, rd, walk, y, x)
  <2>1. y2 = Leave(m, ask, rd, walk, y, x)
    OBVIOUS
  <2> HIDE DEF y2
  <2>2. y2 \in A /\ <<y, y2>> \in R /\ (\A z \in next_via_states(ask, target, x) : Known(ask, y2.round_times, rd, target, z, Walked(ask, d, v, x, z, base.tmp[l][v])))
    <3>1. walk.from = l /\ walk.v = v /\ walk.target = target /\ walk.duration = d
      OBVIOUS
    <3> QED
      BY <2>1, <3>1, LeaveStep
  <2> QED
    BY <2>2 DEF Goes, y2
<1>6. ASSUME NEW x \in S, NEW a1 \in A, NEW a2 \in A, <<x, a1>> \in D, <<a1, a2>> \in R
      PROVE  <<x, a2>> \in D
  <2>1. \A z \in next_via_states(ask, target, x) : Known(ask, a1.round_times, rd, target, z, Walked(ask, d, v, x, z, base.tmp[l][v]))
    BY <1>6
  <2>2. /\ AreLabels(m, ask, a1.round_times) /\ AreLabels(m, ask, a2.round_times)
        /\ Grown(m, ask, a1.round_times, a2.round_times)
    BY <1>2, <1>6 DEF WalkOrder
  <2>3. \A z \in next_via_states(ask, target, x) : Known(ask, a2.round_times, rd, target, z, Walked(ask, d, v, x, z, base.tmp[l][v]))
    <3>1. ASSUME NEW z \in next_via_states(ask, target, x)
          PROVE  Known(ask, a2.round_times, rd, target, z, Walked(ask, d, v, x, z, base.tmp[l][v]))
      <4>1. /\ z \in ViaCounts(ask) /\ target \in AllLocations(m)
            /\ Walked(ask, d, v, x, z, base.tmp[l][v]) \in Int
        BY WayTimes
      <4> QED
        BY <1>1, <2>1, <2>2, <4>1, KnownGrows
    <3> QED
      BY <3>1
  <2> QED
    BY <2>3
<1> HIDE DEF A, R, S, D
<1>7. Forward(S, A, a, R, D)
  BY <1>2, <1>3, <1>6 DEF WalkOrder, Forward
<1>8. Arrives(b, S, a, A, R, D)
  BY <1>4, <1>5, <1>7, LeaveLoop
<1>9. \A x \in S : \A z \in next_via_states(ask, target, x) : Known(ask, b.round_times, rd, target, z, Walked(ask, d, v, x, z, base.tmp[l][v]))
  BY <1>8 DEF D, Arrives
<1> QED
  BY <1>8, <1>9 DEF A, R, S, Arrives, WalkKnown

(***************************************************************************)
(* Footpaths.                                                              *)
(***************************************************************************)
WalkDone(ask, rt, rd, base, l, v, target, d) ==
  base.tmp[l][v] = kInvalid(ask) \/ WalkKnown(ask, rt, rd, l, v, base.tmp[l][v], target, d)

LEMMA WalkStaysDone ==
  ASSUME NEW m, NEW ask, NEW rd, NEW base, WalkBase(m, ask, rd, base), NEW rt, NEW later,
         AreLabels(m, ask, rt), AreLabels(m, ask, later), Grown(m, ask, rt, later),
         NEW l \in AllLocations(m), NEW v \in ViaCounts(ask), NEW target \in AllLocations(m),
         NEW d \in Nat, WalkDone(ask, rt, rd, base, l, v, target, d)
  PROVE  WalkDone(ask, later, rd, base, l, v, target, d)
<1> DEFINE t == base.tmp[l][v]
<1>1. t \in LabelTimes(ask) /\ IsQuery(m, ask) /\ rd \in Rounds
  BY WalkBaseFacts
<1>2. t = kInvalid(ask) \/ WalkKnown(ask, rt, rd, l, v, t, target, d)
  BY DEF WalkDone
<1> HIDE DEF t
<1>3. t = kInvalid(ask) \/ WalkKnown(ask, later, rd, l, v, t, target, d)
  BY <1>1, <1>2, WalkStaysKnown
<1> QED
  BY <1>3 DEF WalkDone, t

FootpathTime(ask, fp) == adjusted_transfer_time(ask, fp.duration)

LEMMA FootpathFacts ==
  ASSUME NEW m, IsNetwork(m), NEW ask, IsQuery(m, ask), NEW l \in AllLocations(m)
  PROVE  /\ IsFiniteSet(StaticFootpaths(m, ask, l))
         /\ \A fp \in StaticFootpaths(m, ask, l) :
              /\ FootpathFrom(ask, fp) = l /\ FootpathTo(ask, fp) \in AllLocations(m)
              /\ FootpathTime(ask, fp) \in Nat
              /\ \A t : [target |-> FootpathTo(ask, fp), duration |-> FootpathTime(ask, fp)]
                          \in WalksFrom(m, ask, l, t)
<1>1. /\ IsFiniteSet(m.footpaths)
      /\ \A fp \in m.footpaths :
           fp.from \in AllLocations(m) /\ fp.to \in AllLocations(m) /\ fp.duration \in Nat
  BY DEF IsNetwork
<1>2. StaticFootpaths(m, ask, l) \in SUBSET m.footpaths
  BY DEF StaticFootpaths
<1>3. IsFiniteSet(StaticFootpaths(m, ask, l))
  BY <1>1, <1>2, FS_Subset
<1>4. ASSUME NEW fp \in StaticFootpaths(m, ask, l)
      PROVE  /\ FootpathFrom(ask, fp) = l /\ FootpathTo(ask, fp) \in AllLocations(m)
             /\ FootpathTime(ask, fp) \in Nat
             /\ \A t : [target |-> FootpathTo(ask, fp), duration |-> FootpathTime(ask, fp)]
                         \in WalksFrom(m, ask, l, t)
  <2>1. fp \in m.footpaths
    BY <1>2
  <2>2. FootpathTo(ask, fp) \in AllLocations(m) /\ fp.duration \in Nat
    BY <1>1, <2>1 DEF FootpathTo
  <2>3. FootpathTime(ask, fp) \in Nat
    BY <2>2, TransferTimes DEF FootpathTime
  <2>4. FootpathFrom(ask, fp) = l
    BY DEF StaticFootpaths, FootpathFrom
  <2>5. ASSUME NEW t
        PROVE  [target |-> FootpathTo(ask, fp), duration |-> FootpathTime(ask, fp)]
                 \in WalksFrom(m, ask, l, t)
    BY DEF WalksFrom, FootpathTo, FootpathTime
  <2> QED
    BY <2>2, <2>3, <2>4, <2>5
<1> QED
  BY <1>3, <1>4

LEMMA FootpathWithStep ==
  ASSUME NEW m, NEW ask, NEW rd, NEW base, WalkBase(m, ask, rd, base),
         NEW l \in AllLocations(m), NEW fp \in StaticFootpaths(m, ask, l), NEW v \in ViaCounts(ask),
         NEW a \in WalkStates(m, ask, rd, base), NEW b, b = FootpathWith(m, ask, rd, fp, a, v)
  PROVE  /\ b \in WalkStates(m, ask, rd, base) /\ <<a, b>> \in Steps(m, ask, rd, base)
         /\ WalkDone(ask, b.round_times, rd, base, l, v, FootpathTo(ask, fp), FootpathTime(ask, fp))
<1> DEFINE target == FootpathTo(ask, fp)
           d == FootpathTime(ask, fp)
           dest_vias == IF target \in ask.is_dest THEN {Vias(ask)} ELSE {}
           walk == [from |-> l, v |-> v, target |-> target, duration |-> d, dest_vias |-> dest_vias]
           A == WalkStates(m, ask, rd, base)
           R == Steps(m, ask, rd, base)
<1>1. IsNetwork(m) /\ IsQuery(m, ask) /\ ask.dir \in {1, -1}
  BY WalkBaseFacts
<1>2. WalkOrder(m, ask, base, A, R)
  BY <1>1, StepFacts
<1>3. /\ FootpathFrom(ask, fp) = l /\ target \in AllLocations(m) /\ d \in Nat
      /\ [target |-> target, duration |-> d] \in WalksFrom(m, ask, l, base.tmp[l][v])
  BY <1>1, FootpathFacts
<1>4. a.tmp = base.tmp
  BY <1>2 DEF WalkOrder
<1>5. b = IF base.tmp[l][v] = kInvalid(ask) THEN a
          ELSE UpdateWalk(m, ask, rd, a, l, v, target, d, dest_vias)
  BY <1>3, <1>4 DEF FootpathWith, FootpathTime
<1>6. CASE base.tmp[l][v] = kInvalid(ask)
  <2>1. b = a /\ <<a, a>> \in R
    BY <1>2, <1>5, <1>6 DEF WalkOrder
  <2> QED
    BY <1>6, <2>1 DEF WalkDone
<1>7. CASE base.tmp[l][v] # kInvalid(ask)
  <2> HIDE DEF target, d, dest_vias, A, R
  <2>1. IsWay(m, ask, base, l, v, target, d)
    BY <1>3, <1>7 DEF IsWay
  <2>2. b = UpdateWalk(m, ask, rd, a, l, v, target, d, dest_vias)
    BY <1>5, <1>7
  <2>3. PICK way : way = walk
    OBVIOUS
  <2> HIDE DEF walk
  <2>4. /\ b \in WalkStates(m, ask, rd, base) /\ <<a, b>> \in Steps(m, ask, rd, base)
        /\ WalkKnown(ask, b.round_times, rd, l, v, base.tmp[l][v], target, d)
    BY <2>1, <2>2, <2>3, UpdateWalkStep DEF walk
  <2> QED
    BY <2>4 DEF WalkDone, target, d
<1> QED
  BY <1>6, <1>7

LEMMA FootpathStep ==
  ASSUME NEW m, NEW ask, NEW rd, NEW base, WalkBase(m, ask, rd, base),
         NEW l \in AllLocations(m), NEW fp \in StaticFootpaths(m, ask, l),
         NEW a \in WalkStates(m, ask, rd, base), NEW b, b = Footpath(m, ask, rd, a, fp)
  PROVE  /\ b \in WalkStates(m, ask, rd, base) /\ <<a, b>> \in Steps(m, ask, rd, base)
         /\ \A x \in ViaCounts(ask) : WalkDone(ask, b.round_times, rd, base, l, x, FootpathTo(ask, fp), FootpathTime(ask, fp))
<1> DEFINE A == WalkStates(m, ask, rd, base)
           R == Steps(m, ask, rd, base)
           S == ViaCounts(ask)
           D == {p \in S \X A : WalkDone(ask, p[2].round_times, rd, base, l, p[1], FootpathTo(ask, fp), FootpathTime(ask, fp))}
<1>1. /\ IsNetwork(m) /\ IsQuery(m, ask) /\ ask.dir \in {1, -1} /\ rd \in Rounds
      /\ \A x \in AllLocations(m), v1 \in ViaCounts(ask) : base.tmp[x][v1] \in LabelTimes(ask)
  BY WalkBaseFacts
<1>2. WalkOrder(m, ask, base, A, R)
  BY <1>1, StepFacts
<1>3. a \in A /\ a.tmp = base.tmp /\ a.prev_station_mark = base.prev_station_mark
  BY <1>2 DEF WalkOrder, WalkStates
<1>4. Numbers(S) /\ b = EachFootpathWith(m, ask, rd, fp, a, S)
  <2>1. Numbers(S)
    BY <1>1, CountsAreNumbers
  <2> QED
    BY <2>1, <1>3 DEF Footpath, EachFootpathWith
<1>5. ASSUME NEW x \in S, NEW y \in A
      PROVE  Goes(y, FootpathWith(m, ask, rd, fp, y, x), x, A, R, D)
  <2> DEFINE y2 == FootpathWith(m, ask, rd, fp, y, x)
  <2>1. y2 = FootpathWith(m, ask, rd, fp, y, x)
    OBVIOUS
  <2> HIDE DEF y2
  <2>2. y2 \in A /\ <<y, y2>> \in R /\ (WalkDone(ask, y2.round_times, rd, base, l, x, FootpathTo(ask, fp), FootpathTime(ask, fp)))
    BY <2>1, FootpathWithStep
  <2> QED
    BY <2>2 DEF Goes, y2
<1>6. ASSUME NEW x \in S, NEW a1 \in A, NEW a2 \in A, <<x, a1>> \in D, <<a1, a2>> \in R
      PROVE  <<x, a2>> \in D
  <2>1. WalkDone(ask, a1.round_times, rd, base, l, x, FootpathTo(ask, fp), FootpathTime(ask, fp))
    BY <1>6
  <2>2. /\ AreLabels(m, ask, a1.round_times) /\ AreLabels(m, ask, a2.round_times)
        /\ Grown(m, ask, a1.round_times, a2.round_times)
    BY <1>2, <1>6 DEF WalkOrder
  <2>3. WalkDone(ask, a2.round_times, rd, base, l, x, FootpathTo(ask, fp), FootpathTime(ask, fp))
    BY <1>1, <2>1, <2>2, FootpathFacts, WalkStaysDone
  <2> QED
    BY <2>3
<1> HIDE DEF A, R, S, D
<1>7. Forward(S, A, a, R, D)
  BY <1>2, <1>3, <1>6 DEF WalkOrder, Forward
<1>8. Arrives(b, S, a, A, R, D)
  BY <1>4, <1>5, <1>7, FootpathWithLoop
<1>9. \A x \in S : WalkDone(ask, b.round_times, rd, base, l, x, FootpathTo(ask, fp), FootpathTime(ask, fp))
  BY <1>8 DEF D, Arrives
<1> QED
  BY <1>8, <1>9 DEF A, R, S, Arrives

LEMMA FootpathsAtStep ==
  ASSUME NEW m, NEW ask, NEW rd, NEW base, WalkBase(m, ask, rd, base),
         NEW l \in AllLocations(m),
         NEW a \in WalkStates(m, ask, rd, base), NEW b, b = FootpathsAt(m, ask, rd, a, l)
  PROVE  /\ b \in WalkStates(m, ask, rd, base) /\ <<a, b>> \in Steps(m, ask, rd, base)
         /\ \A x \in StaticFootpaths(m, ask, l) : \A v \in ViaCounts(ask) : WalkDone(ask, b.round_times, rd, base, l, v, FootpathTo(ask, x), FootpathTime(ask, x))
<1> DEFINE A == WalkStates(m, ask, rd, base)
           R == Steps(m, ask, rd, base)
           S == StaticFootpaths(m, ask, l)
           D == {p \in S \X A : \A v \in ViaCounts(ask) : WalkDone(ask, p[2].round_times, rd, base, l, v, FootpathTo(ask, p[1]), FootpathTime(ask, p[1]))}
<1>1. /\ IsNetwork(m) /\ IsQuery(m, ask) /\ ask.dir \in {1, -1} /\ rd \in Rounds
      /\ \A x \in AllLocations(m), v1 \in ViaCounts(ask) : base.tmp[x][v1] \in LabelTimes(ask)
  BY WalkBaseFacts
<1>2. WalkOrder(m, ask, base, A, R)
  BY <1>1, StepFacts
<1>3. a \in A /\ a.tmp = base.tmp /\ a.prev_station_mark = base.prev_station_mark
  BY <1>2 DEF WalkOrder, WalkStates
<1>4. IsFiniteSet(S) /\ b = EachFootpath(m, ask, rd, a, S)
  <2>1. IsFiniteSet(S)
    BY <1>1, FootpathFacts
  <2> QED
    BY <2>1, <1>3 DEF FootpathsAt, EachFootpath
<1>5. ASSUME NEW x \in S, NEW y \in A
      PROVE  Goes(y, Footpath(m, ask, rd, y, x), x, A, R, D)
  <2> DEFINE y2 == Footpath(m, ask, rd, y, x)
  <2>1. y2 = Footpath(m, ask, rd, y, x)
    OBVIOUS
  <2> HIDE DEF y2
  <2>2. y2 \in A /\ <<y, y2>> \in R /\ (\A v \in ViaCounts(ask) : WalkDone(ask, y2.round_times, rd, base, l, v, FootpathTo(ask, x), FootpathTime(ask, x)))
    BY <2>1, FootpathStep
  <2> QED
    BY <2>2 DEF Goes, y2
<1>6. ASSUME NEW x \in S, NEW a1 \in A, NEW a2 \in A, <<x, a1>> \in D, <<a1, a2>> \in R
      PROVE  <<x, a2>> \in D
  <2>1. \A v \in ViaCounts(ask) : WalkDone(ask, a1.round_times, rd, base, l, v, FootpathTo(ask, x), FootpathTime(ask, x))
    BY <1>6
  <2>2. /\ AreLabels(m, ask, a1.round_times) /\ AreLabels(m, ask, a2.round_times)
        /\ Grown(m, ask, a1.round_times, a2.round_times)
    BY <1>2, <1>6 DEF WalkOrder
  <2>3. \A v \in ViaCounts(ask) : WalkDone(ask, a2.round_times, rd, base, l, v, FootpathTo(ask, x), FootpathTime(ask, x))
    BY <1>1, <2>1, <2>2, FootpathFacts, WalkStaysDone
  <2> QED
    BY <2>3
<1> HIDE DEF A, R, S, D
<1>7. Forward(S, A, a, R, D)
  BY <1>2, <1>3, <1>6 DEF WalkOrder, Forward
<1>8. Arrives(b, S, a, A, R, D)
  BY <1>4, <1>5, <1>7, FootpathLoop
<1>9. \A x \in S : \A v \in ViaCounts(ask) : WalkDone(ask, b.round_times, rd, base, l, v, FootpathTo(ask, x), FootpathTime(ask, x))
  BY <1>8 DEF D, Arrives
<1> QED
  BY <1>8, <1>9 DEF A, R, S, Arrives

LEMMA FootpathsStep ==
  ASSUME NEW m, NEW ask, NEW rd, NEW base, WalkBase(m, ask, rd, base),
         NEW a \in WalkStates(m, ask, rd, base), NEW b, b = update_footpaths(m, ask, rd, a)
  PROVE  /\ b \in WalkStates(m, ask, rd, base) /\ <<a, b>> \in Steps(m, ask, rd, base)
         /\ \A x \in base.prev_station_mark : \A fp \in StaticFootpaths(m, ask, x), v \in ViaCounts(ask) : WalkDone(ask, b.round_times, rd, base, x, v, FootpathTo(ask, fp), FootpathTime(ask, fp))
<1> DEFINE A == WalkStates(m, ask, rd, base)
           R == Steps(m, ask, rd, base)
           S == base.prev_station_mark
           D == {p \in S \X A : \A fp \in StaticFootpaths(m, ask, p[1]), v \in ViaCounts(ask) : WalkDone(ask, p[2].round_times, rd, base, p[1], v, FootpathTo(ask, fp), FootpathTime(ask, fp))}
<1>1. /\ IsNetwork(m) /\ IsQuery(m, ask) /\ ask.dir \in {1, -1} /\ rd \in Rounds
      /\ \A x \in AllLocations(m), v1 \in ViaCounts(ask) : base.tmp[x][v1] \in LabelTimes(ask)
  BY WalkBaseFacts
<1>2. WalkOrder(m, ask, base, A, R)
  BY <1>1, StepFacts
<1>3. a \in A /\ a.tmp = base.tmp /\ a.prev_station_mark = base.prev_station_mark
  BY <1>2 DEF WalkOrder, WalkStates
<1>4. Numbers(S) /\ b = EachFootpathsAt(m, ask, rd, a, S)
  <2>1. Numbers(S)
    BY MarksAreNumbers
  <2> QED
    BY <2>1, <1>3 DEF update_footpaths, EachFootpathsAt
<1>5. ASSUME NEW x \in S, NEW y \in A
      PROVE  Goes(y, FootpathsAt(m, ask, rd, y, x), x, A, R, D)
  <2> DEFINE y2 == FootpathsAt(m, ask, rd, y, x)
  <2>1. y2 = FootpathsAt(m, ask, rd, y, x)
    OBVIOUS
  <2> HIDE DEF y2
  <2>2. y2 \in A /\ <<y, y2>> \in R /\ (\A fp \in StaticFootpaths(m, ask, x), v \in ViaCounts(ask) : WalkDone(ask, y2.round_times, rd, base, x, v, FootpathTo(ask, fp), FootpathTime(ask, fp)))
    BY <2>1, MarksAreNumbers, FootpathsAtStep
  <2> QED
    BY <2>2 DEF Goes, y2
<1>6. ASSUME NEW x \in S, NEW a1 \in A, NEW a2 \in A, <<x, a1>> \in D, <<a1, a2>> \in R
      PROVE  <<x, a2>> \in D
  <2>1. \A fp \in StaticFootpaths(m, ask, x), v \in ViaCounts(ask) : WalkDone(ask, a1.round_times, rd, base, x, v, FootpathTo(ask, fp), FootpathTime(ask, fp))
    BY <1>6
  <2>2. /\ AreLabels(m, ask, a1.round_times) /\ AreLabels(m, ask, a2.round_times)
        /\ Grown(m, ask, a1.round_times, a2.round_times)
    BY <1>2, <1>6 DEF WalkOrder
  <2>3. \A fp \in StaticFootpaths(m, ask, x), v \in ViaCounts(ask) : WalkDone(ask, a2.round_times, rd, base, x, v, FootpathTo(ask, fp), FootpathTime(ask, fp))
    <3>1. x \in AllLocations(m)
      BY MarksAreNumbers
    <3> QED
      BY <1>1, <2>1, <2>2, <3>1, FootpathFacts, WalkStaysDone
  <2> QED
    BY <2>3
<1> HIDE DEF A, R, S, D
<1>7. Forward(S, A, a, R, D)
  BY <1>2, <1>3, <1>6 DEF WalkOrder, Forward
<1>8. Arrives(b, S, a, A, R, D)
  BY <1>4, <1>5, <1>7, FootpathsAtLoop
<1>9. \A x \in S : \A fp \in StaticFootpaths(m, ask, x), v \in ViaCounts(ask) : WalkDone(ask, b.round_times, rd, base, x, v, FootpathTo(ask, fp), FootpathTime(ask, fp))
  BY <1>8 DEF D, Arrives
<1> QED
  BY <1>8, <1>9 DEF A, R, S, Arrives

(***************************************************************************)
(* Time-dependent footpaths.                                               *)
(***************************************************************************)
TdWays(m, ask, base, l, v) == for_each_footpath(ask.dir, TdFootpaths(m, ask, l), base.tmp[l][v])

LEMMA NoPeriods ==
  ASSUME NEW dir, NEW t
  PROVE  for_each_footpath(dir, <<>>, t) = {}
<1>1. DOMAIN <<>> = {}
  OBVIOUS
<1> QED
  BY <1>1 DEF for_each_footpath

LEMMA TdWayFacts ==
  ASSUME NEW m, NEW ask, NEW rd, NEW base, WalkBase(m, ask, rd, base),
         NEW l \in AllLocations(m), NEW v \in ViaCounts(ask)
  PROVE  /\ IsFiniteSet(TdWays(m, ask, base, l, v))
         /\ TdFootpaths(m, ask, l) = <<>> => TdWays(m, ask, base, l, v) = {}
         /\ \A fp \in TdWays(m, ask, base, l, v) :
              /\ fp.target \in AllLocations(m) /\ fp.td.duration \in Nat
              /\ ask.td => [target |-> fp.target, duration |-> fp.td.duration]
                             \in WalksFrom(m, ask, l, base.tmp[l][v])
<1> DEFINE c == TdFootpaths(m, ask, l)
           t == base.tmp[l][v]
           ways == for_each_footpath(ask.dir, c, t)
<1>1. t \in Int /\ IsNetwork(m)
  BY WalkBaseFacts DEF LabelTimes
<1>2. IsTdList(m, c)
  BY <1>1 DEF IsNetwork, TdFootpaths
<1>3. TdWays(m, ask, base, l, v) = ways
  BY DEF TdWays
<1>4. c = IF ask.dir = 1 THEN m.td_out[l] ELSE m.td_in[l]
  BY DEF TdFootpaths
<1>5. (IF ask.dir = 1 THEN m.td_out ELSE m.td_in)[l] = c
  BY <1>4
<1> HIDE DEF c
<1>6. ASSUME NEW fp \in ways, ask.td
      PROVE  [target |-> fp.target, duration |-> fp.td.duration] \in WalksFrom(m, ask, l, t)
  <2> DEFINE all == {[target |-> x.target, duration |-> x.td.duration] :
                       x \in IF ask.td THEN for_each_footpath(ask.dir, c, t) ELSE {}}
  <2>1. [target |-> fp.target, duration |-> fp.td.duration] \in all
    BY <1>6
  <2>2. all \subseteq WalksFrom(m, ask, l, t)
    BY <1>5 DEF WalksFrom
  <2> QED
    BY <2>1, <2>2
<1> HIDE DEF t
<1>7. /\ IsFiniteSet(ways)
      /\ \A fp \in ways : fp.target \in AllLocations(m) /\ fp.td.duration \in Nat
  BY <1>1, <1>2, TdFootpathFacts
<1>8. c = <<>> => ways = {}
  BY NoPeriods
<1> QED
  BY <1>3, <1>6, <1>7, <1>8 DEF c, t

LEMMA TdFootpathStep ==
  ASSUME NEW m, NEW ask, NEW rd, NEW base, WalkBase(m, ask, rd, base), ask.td,
         NEW l \in AllLocations(m), NEW v \in ViaCounts(ask), base.tmp[l][v] # kInvalid(ask),
         NEW fp \in TdWays(m, ask, base, l, v),
         NEW a \in WalkStates(m, ask, rd, base), NEW b, b = TdFootpath(m, ask, rd, l, v, a, fp)
  PROVE  /\ b \in WalkStates(m, ask, rd, base) /\ <<a, b>> \in Steps(m, ask, rd, base)
         /\ WalkDone(ask, b.round_times, rd, base, l, v, fp.target, fp.td.duration)
<1> DEFINE target == fp.target
           d == fp.td.duration
           dest_vias == IF target \in ask.is_dest THEN ViaCounts(ask) ELSE {}
           walk == [from |-> l, v |-> v, target |-> target, duration |-> d, dest_vias |-> dest_vias]
<1>1. b = UpdateWalk(m, ask, rd, a, l, v, target, d, dest_vias)
  BY DEF TdFootpath
<1>2. /\ target \in AllLocations(m) /\ d \in Nat
      /\ [target |-> target, duration |-> d] \in WalksFrom(m, ask, l, base.tmp[l][v])
  BY TdWayFacts
<1> HIDE DEF target, d, dest_vias
<1>3. IsWay(m, ask, base, l, v, target, d)
  BY <1>2 DEF IsWay
<1>4. PICK way : way = walk
  OBVIOUS
<1> HIDE DEF walk
<1>5. /\ b \in WalkStates(m, ask, rd, base) /\ <<a, b>> \in Steps(m, ask, rd, base)
      /\ WalkKnown(ask, b.round_times, rd, l, v, base.tmp[l][v], target, d)
  BY <1>1, <1>3, <1>4, UpdateWalkStep DEF walk
<1> QED
  BY <1>5 DEF WalkDone, target, d

LEMMA TdWalkStaysDone ==
  ASSUME NEW m, NEW ask, NEW rd, NEW base, WalkBase(m, ask, rd, base), NEW rt, NEW later,
         AreLabels(m, ask, rt), AreLabels(m, ask, later), Grown(m, ask, rt, later),
         NEW l \in AllLocations(m), NEW v \in ViaCounts(ask), NEW fp \in TdWays(m, ask, base, l, v),
         WalkDone(ask, rt, rd, base, l, v, fp.target, fp.td.duration)
  PROVE  WalkDone(ask, later, rd, base, l, v, fp.target, fp.td.duration)
<1>1. fp.target \in AllLocations(m) /\ fp.td.duration \in Nat
  BY TdWayFacts
<1> QED
  BY <1>1, WalkStaysDone

LEMMA TdFootpathsWithStep ==
  ASSUME NEW m, NEW ask, NEW rd, NEW base, WalkBase(m, ask, rd, base),
         ask.td, NEW l \in AllLocations(m), NEW v \in ViaCounts(ask),
         NEW a \in WalkStates(m, ask, rd, base), NEW b, b = TdFootpathsWith(m, ask, rd, l, a, v)
  PROVE  /\ b \in WalkStates(m, ask, rd, base) /\ <<a, b>> \in Steps(m, ask, rd, base)
         /\ \A x \in TdWays(m, ask, base, l, v) : WalkDone(ask, b.round_times, rd, base, l, v, x.target, x.td.duration)
<1> DEFINE A == WalkStates(m, ask, rd, base)
           R == Steps(m, ask, rd, base)
           S == TdWays(m, ask, base, l, v)
           D == {p \in S \X A : WalkDone(ask, p[2].round_times, rd, base, l, v, p[1].target, p[1].td.duration)}
<1>1. /\ IsNetwork(m) /\ IsQuery(m, ask) /\ ask.dir \in {1, -1} /\ rd \in Rounds
      /\ \A x \in AllLocations(m), v1 \in ViaCounts(ask) : base.tmp[x][v1] \in LabelTimes(ask)
  BY WalkBaseFacts
<1>2. WalkOrder(m, ask, base, A, R)
  BY <1>1, StepFacts
<1>3. a \in A /\ a.tmp = base.tmp /\ a.prev_station_mark = base.prev_station_mark
  BY <1>2 DEF WalkOrder, WalkStates
<1>4. CASE base.tmp[l][v] = kInvalid(ask)
  BY <1>2, <1>3, <1>4 DEF WalkOrder, TdFootpathsWith, TdWays, WalkDone
<1>5. CASE ~(base.tmp[l][v] = kInvalid(ask))
  <2>1. IsFiniteSet(S) /\ b = EachTdFootpath(m, ask, rd, l, v, a, S)
    <3>1. IsFiniteSet(S)
      BY TdWayFacts
    <3> QED
      BY <3>1, <1>3, <1>5 DEF TdFootpathsWith, TdWays, EachTdFootpath
  <2>2. ASSUME NEW x \in S, NEW y \in A
        PROVE  Goes(y, TdFootpath(m, ask, rd, l, v, y, x), x, A, R, D)
    <3> DEFINE y2 == TdFootpath(m, ask, rd, l, v, y, x)
    <3>1. y2 = TdFootpath(m, ask, rd, l, v, y, x)
      OBVIOUS
    <3> HIDE DEF y2
    <3>2. y2 \in A /\ <<y, y2>> \in R /\ (WalkDone(ask, y2.round_times, rd, base, l, v, x.target, x.td.duration))
      BY <3>1, <1>5, TdFootpathStep
    <3> QED
      BY <3>2 DEF Goes, y2
  <2>3. ASSUME NEW x \in S, NEW a1 \in A, NEW a2 \in A, <<x, a1>> \in D, <<a1, a2>> \in R
        PROVE  <<x, a2>> \in D
    <3>1. WalkDone(ask, a1.round_times, rd, base, l, v, x.target, x.td.duration)
      BY <2>3
    <3>2. /\ AreLabels(m, ask, a1.round_times) /\ AreLabels(m, ask, a2.round_times)
          /\ Grown(m, ask, a1.round_times, a2.round_times)
      BY <1>2, <2>3 DEF WalkOrder
    <3>3. WalkDone(ask, a2.round_times, rd, base, l, v, x.target, x.td.duration)
      BY <1>1, <3>1, <3>2, TdWalkStaysDone
    <3> QED
      BY <3>3
  <2> HIDE DEF A, R, S, D
  <2>4. Forward(S, A, a, R, D)
    BY <1>2, <1>3, <2>3 DEF WalkOrder, Forward
  <2>5. Arrives(b, S, a, A, R, D)
    BY <2>1, <2>2, <2>4, TdFootpathLoop
  <2>6. \A x \in S : WalkDone(ask, b.round_times, rd, base, l, v, x.target, x.td.duration)
    BY <2>5 DEF D, Arrives
  <2> QED
    BY <2>5, <2>6 DEF A, R, S, Arrives
<1> QED
  BY <1>4, <1>5

LEMMA TdFootpathsAtStep ==
  ASSUME NEW m, NEW ask, NEW rd, NEW base, WalkBase(m, ask, rd, base),
         ask.td, NEW l \in AllLocations(m),
         NEW a \in WalkStates(m, ask, rd, base), NEW b, b = TdFootpathsAt(m, ask, rd, a, l)
  PROVE  /\ b \in WalkStates(m, ask, rd, base) /\ <<a, b>> \in Steps(m, ask, rd, base)
         /\ \A x \in ViaCounts(ask) : \A fp \in TdWays(m, ask, base, l, x) : WalkDone(ask, b.round_times, rd, base, l, x, fp.target, fp.td.duration)
<1> DEFINE A == WalkStates(m, ask, rd, base)
           R == Steps(m, ask, rd, base)
           S == ViaCounts(ask)
           D == {p \in S \X A : \A fp \in TdWays(m, ask, base, l, p[1]) : WalkDone(ask, p[2].round_times, rd, base, l, p[1], fp.target, fp.td.duration)}
<1>1. /\ IsNetwork(m) /\ IsQuery(m, ask) /\ ask.dir \in {1, -1} /\ rd \in Rounds
      /\ \A x \in AllLocations(m), v1 \in ViaCounts(ask) : base.tmp[x][v1] \in LabelTimes(ask)
  BY WalkBaseFacts
<1>2. WalkOrder(m, ask, base, A, R)
  BY <1>1, StepFacts
<1>3. a \in A /\ a.tmp = base.tmp /\ a.prev_station_mark = base.prev_station_mark
  BY <1>2 DEF WalkOrder, WalkStates
<1>4. CASE TdFootpaths(m, ask, l) = <<>>
  BY <1>2, <1>3, <1>4, TdWayFacts DEF WalkOrder, TdFootpathsAt
<1>5. CASE ~(TdFootpaths(m, ask, l) = <<>>)
  <2>1. Numbers(S) /\ b = EachTdFootpathsWith(m, ask, rd, l, a, S)
    <3>1. Numbers(S)
      BY <1>1, CountsAreNumbers
    <3> QED
      BY <3>1, <1>3, <1>5 DEF TdFootpathsAt, EachTdFootpathsWith
  <2>2. ASSUME NEW x \in S, NEW y \in A
        PROVE  Goes(y, TdFootpathsWith(m, ask, rd, l, y, x), x, A, R, D)
    <3> DEFINE y2 == TdFootpathsWith(m, ask, rd, l, y, x)
    <3>1. y2 = TdFootpathsWith(m, ask, rd, l, y, x)
      OBVIOUS
    <3> HIDE DEF y2
    <3>2. y2 \in A /\ <<y, y2>> \in R /\ (\A fp \in TdWays(m, ask, base, l, x) : WalkDone(ask, y2.round_times, rd, base, l, x, fp.target, fp.td.duration))
      BY <3>1, TdFootpathsWithStep
    <3> QED
      BY <3>2 DEF Goes, y2
  <2>3. ASSUME NEW x \in S, NEW a1 \in A, NEW a2 \in A, <<x, a1>> \in D, <<a1, a2>> \in R
        PROVE  <<x, a2>> \in D
    <3>1. \A fp \in TdWays(m, ask, base, l, x) : WalkDone(ask, a1.round_times, rd, base, l, x, fp.target, fp.td.duration)
      BY <2>3
    <3>2. /\ AreLabels(m, ask, a1.round_times) /\ AreLabels(m, ask, a2.round_times)
          /\ Grown(m, ask, a1.round_times, a2.round_times)
      BY <1>2, <2>3 DEF WalkOrder
    <3>3. \A fp \in TdWays(m, ask, base, l, x) : WalkDone(ask, a2.round_times, rd, base, l, x, fp.target, fp.td.duration)
      BY <1>1, <3>1, <3>2, TdWalkStaysDone
    <3> QED
      BY <3>3
  <2> HIDE DEF A, R, S, D
  <2>4. Forward(S, A, a, R, D)
    BY <1>2, <1>3, <2>3 DEF WalkOrder, Forward
  <2>5. Arrives(b, S, a, A, R, D)
    BY <2>1, <2>2, <2>4, TdFootpathsWithLoop
  <2>6. \A x \in S : \A fp \in TdWays(m, ask, base, l, x) : WalkDone(ask, b.round_times, rd, base, l, x, fp.target, fp.td.duration)
    BY <2>5 DEF D, Arrives
  <2> QED
    BY <2>5, <2>6 DEF A, R, S, Arrives
<1> QED
  BY <1>4, <1>5

LEMMA TdFootpathsStep ==
  ASSUME NEW m, NEW ask, NEW rd, NEW base, WalkBase(m, ask, rd, base),
         NEW a \in WalkStates(m, ask, rd, base), NEW b, b = update_td_offsets(m, ask, rd, a)
  PROVE  /\ b \in WalkStates(m, ask, rd, base) /\ <<a, b>> \in Steps(m, ask, rd, base)
         /\ \A x \in base.prev_station_mark : ask.td => \A v \in ViaCounts(ask) : \A fp \in TdWays(m, ask, base, x, v) : WalkDone(ask, b.round_times, rd, base, x, v, fp.target, fp.td.duration)
<1> DEFINE A == WalkStates(m, ask, rd, base)
           R == Steps(m, ask, rd, base)
           S == base.prev_station_mark
           D == {p \in S \X A : ask.td => \A v \in ViaCounts(ask) : \A fp \in TdWays(m, ask, base, p[1], v) : WalkDone(ask, p[2].round_times, rd, base, p[1], v, fp.target, fp.td.duration)}
<1>1. /\ IsNetwork(m) /\ IsQuery(m, ask) /\ ask.dir \in {1, -1} /\ rd \in Rounds
      /\ \A x \in AllLocations(m), v1 \in ViaCounts(ask) : base.tmp[x][v1] \in LabelTimes(ask)
  BY WalkBaseFacts
<1>2. WalkOrder(m, ask, base, A, R)
  BY <1>1, StepFacts
<1>3. a \in A /\ a.tmp = base.tmp /\ a.prev_station_mark = base.prev_station_mark
  BY <1>2 DEF WalkOrder, WalkStates
<1>4. CASE ~ask.td
  BY <1>2, <1>3, <1>4 DEF WalkOrder, update_td_offsets
<1>5. CASE ~(~ask.td)
  <2>1. Numbers(S) /\ b = EachTdFootpathsAt(m, ask, rd, a, S)
    <3>1. Numbers(S)
      BY MarksAreNumbers
    <3> QED
      BY <3>1, <1>3, <1>5 DEF update_td_offsets, EachTdFootpathsAt
  <2>2. ASSUME NEW x \in S, NEW y \in A
        PROVE  Goes(y, TdFootpathsAt(m, ask, rd, y, x), x, A, R, D)
    <3> DEFINE y2 == TdFootpathsAt(m, ask, rd, y, x)
    <3>1. y2 = TdFootpathsAt(m, ask, rd, y, x)
      OBVIOUS
    <3> HIDE DEF y2
    <3>2. y2 \in A /\ <<y, y2>> \in R /\ (ask.td => \A v \in ViaCounts(ask) : \A fp \in TdWays(m, ask, base, x, v) : WalkDone(ask, y2.round_times, rd, base, x, v, fp.target, fp.td.duration))
      BY <3>1, <1>5, MarksAreNumbers, TdFootpathsAtStep
    <3> QED
      BY <3>2 DEF Goes, y2
  <2>3. ASSUME NEW x \in S, NEW a1 \in A, NEW a2 \in A, <<x, a1>> \in D, <<a1, a2>> \in R
        PROVE  <<x, a2>> \in D
    <3>1. ask.td => \A v \in ViaCounts(ask) : \A fp \in TdWays(m, ask, base, x, v) : WalkDone(ask, a1.round_times, rd, base, x, v, fp.target, fp.td.duration)
      BY <2>3
    <3>2. /\ AreLabels(m, ask, a1.round_times) /\ AreLabels(m, ask, a2.round_times)
          /\ Grown(m, ask, a1.round_times, a2.round_times)
      BY <1>2, <2>3 DEF WalkOrder
    <3>3. ask.td => \A v \in ViaCounts(ask) : \A fp \in TdWays(m, ask, base, x, v) : WalkDone(ask, a2.round_times, rd, base, x, v, fp.target, fp.td.duration)
      <4>1. x \in AllLocations(m)
        BY MarksAreNumbers
      <4> QED
        BY <1>1, <3>1, <3>2, <4>1, TdWalkStaysDone
    <3> QED
      BY <3>3
  <2> HIDE DEF A, R, S, D
  <2>4. Forward(S, A, a, R, D)
    BY <1>2, <1>3, <2>3 DEF WalkOrder, Forward
  <2>5. Arrives(b, S, a, A, R, D)
    BY <2>1, <2>2, <2>4, TdFootpathsAtLoop
  <2>6. \A x \in S : ask.td => \A v \in ViaCounts(ask) : \A fp \in TdWays(m, ask, base, x, v) : WalkDone(ask, b.round_times, rd, base, x, v, fp.target, fp.td.duration)
    BY <2>5 DEF D, Arrives
  <2> QED
    BY <2>5, <2>6 DEF A, R, S, Arrives
<1> QED
  BY <1>4, <1>5

(***************************************************************************)
(* The ways to an intermodal destination: only its own labels are set.     *)
(***************************************************************************)
LEMMA OnlyTheEnd ==
  ASSUME NEW m, NEW ask, NEW rd, NEW base, WalkBase(m, ask, rd, base),
         NEW a \in WalkStates(m, ask, rd, base), NEW b \in States(m, ask), NEW v, NEW t,
         IsSet(m, ask, a.round_times, b.round_times, rd, kEnd, v, t), IsEnd(m, ask, base, t),
         \A x \in AllLocations(m), y \in ViaCounts(ask) : b.best[x][y] = a.best[x][y],
         \A i \in Rounds : better_or_eq(ask, b.time_at_dest[i], a.time_at_dest[i]),
         b.tmp = a.tmp, b.prev_station_mark = a.prev_station_mark
  PROVE  b \in WalkStates(m, ask, rd, base) /\ <<a, b>> \in Steps(m, ask, rd, base)
<1> DEFINE rt == a.round_times
           rt2 == b.round_times
<1>1. /\ IsNetwork(m) /\ IsQuery(m, ask) /\ ask.dir \in {1, -1} /\ rd \in Rounds /\ rd \in Nat
      /\ AllLocations(m) \subseteq Nat
  BY WalkBaseFacts, RoundFacts DEF IsNetwork
<1>2. /\ a \in States(m, ask) /\ a.tmp = base.tmp /\ a.prev_station_mark = base.prev_station_mark
      /\ \A i \in 0..rd - 1 : rt[i] = base.round_times[i]
      /\ LabelsExplained(m, ask, rt) /\ BestKnown(m, ask, a, rd) /\ Pruned(m, ask, a, rd)
      /\ EndsAre(m, ask, rd, base, a)
  BY DEF WalkStates
<1>3. AreLabels(m, ask, rt) /\ AreLabels(m, ask, rt2)
  BY <1>2, StateFacts
<1>4. ASSUME NEW i \in Rounds, NEW x \in AllLocations(m), NEW y \in ViaCounts(ask)
      PROVE  rt2[i][x][y] = rt[i][x][y] /\ rt[i][x][y] \in Int
  <2>1. x # kEnd /\ x \in Nodes(m)
    BY <1>1 DEF kEnd, Nodes
  <2>2. rt[i][x][y] \in Int
    BY <1>3, <2>1, LabelFacts
  <2> QED
    BY <2>1, <2>2 DEF IsSet
<1>5. \A i \in 0..rd - 1 : rt2[i] = base.round_times[i]
  <2>1. \A i \in 0..rd - 1 : i \in Rounds \ {rd}
    BY <1>1, RoundFacts
  <2> QED
    BY <1>2, <2>1 DEF IsSet
<1> HIDE DEF rt, rt2
<1>6. Grown(m, ask, rt, rt2)
  BY <1>1, <1>4, Order DEF Grown
<1>7. LabelsExplained(m, ask, rt2)
  <2>1. ASSUME NEW i \in Rounds \ {0}, NEW x \in AllLocations(m), NEW y \in ViaCounts(ask)
        PROVE  Explained(m, ask, rt2, i, x, y, rt2[i][x][y])
    <3>1. Explained(m, ask, rt, i, x, y, rt[i][x][y])
      BY <1>2 DEF LabelsExplained
    <3>2. rt2[i][x][y] = rt[i][x][y] /\ rt[i][x][y] \in Int
      BY <1>4
    <3> QED
      BY <1>1, <1>3, <1>6, <3>1, <3>2, ExplainedGrows
  <2> QED
    BY <2>1 DEF LabelsExplained
<1>8. BestKnown(m, ask, b, rd)
  BY <1>1, <1>2, <1>6, BestStaysKnown DEF rt, rt2
<1>9. Pruned(m, ask, b, rd)
  <2>1. ASSUME NEW x \in AllLocations(m), NEW y \in ViaCounts(ask),
               better(ask, rt2[rd][x][y], b.best[x][y])
        PROVE  ~Promising(ask, b, rd, x, rt2[rd][x][y])
    <3> DEFINE z == rt[rd][x][y]
    <3>1. rt2[rd][x][y] = z /\ z \in Int
      BY <1>1, <1>4
    <3>2. better(ask, z, a.best[x][y])
      BY <2>1, <3>1
    <3>3. ~Promising(ask, a, rd, x, z)
      BY <1>2, <3>2 DEF Pruned, rt
    <3>4. better_or_eq(ask, z, z) /\ better_or_eq(ask, b.time_at_dest[rd], a.time_at_dest[rd])
      BY <1>1, <3>1, Order
    <3> HIDE DEF z
    <3>5. ~Promising(ask, b, rd, x, z)
      BY <1>1, <1>2, <3>1, <3>3, <3>4, AsPromising
    <3> QED
      BY <3>1, <3>5
  <2> QED
    BY <2>1 DEF Pruned, rt2
<1>10. EndsAre(m, ask, rd, base, b)
  <2>1. kEnd \in Nodes(m)
    BY DEF Nodes
  <2>2. ASSUME NEW i \in Rounds, NEW y \in ViaCounts(ask)
        PROVE  \/ b.round_times[i][kEnd][y] = a.round_times[i][kEnd][y]
               \/ i = rd /\ b.round_times[i][kEnd][y] = t
    BY <2>1 DEF IsSet
  <2> QED
    BY <1>2, <2>2 DEF EndsAre
<1>11. b \in WalkStates(m, ask, rd, base)
  BY <1>2, <1>5, <1>7, <1>8, <1>9, <1>10 DEF WalkStates, rt2
<1> QED
  BY <1>6, <1>11 DEF Steps, rt, rt2

LEMMA EndReached ==
  ASSUME NEW m, NEW ask, NEW rd, NEW base, WalkBase(m, ask, rd, base),
         NEW a \in WalkStates(m, ask, rd, base), NEW t \in LabelTimes(ask),
         IsEnd(m, ask, base, t), NEW b, b = ReachEnd(ask, rd, a, t)
  PROVE  b \in WalkStates(m, ask, rd, base) /\ <<a, b>> \in Steps(m, ask, rd, base)
<1> DEFINE v == Vias(ask)
           rt2 == [a.round_times EXCEPT ![rd][kEnd][v] = t]
           best2 == [a.best EXCEPT ![kEnd][v] = t]
           reached == [a EXCEPT !.round_times[rd][kEnd][v] = t, !.best[kEnd][v] = t]
<1>1. /\ IsNetwork(m) /\ IsQuery(m, ask) /\ ask.dir \in {1, -1} /\ rd \in Rounds
      /\ AllLocations(m) \subseteq Nat
  BY WalkBaseFacts DEF IsNetwork
<1>2. kEnd \in Nodes(m) /\ kEnd \notin AllLocations(m) /\ v \in ViaCounts(ask) /\ t \in Int
  BY <1>1, QueryFacts DEF kEnd, Nodes, LabelTimes
<1>3. a \in States(m, ask) /\ AreLabels(m, ask, a.round_times)
  BY StateFacts DEF WalkStates
<1>4. b = update_time_at_dest(ask, reached, rd, t)
  BY DEF ReachEnd
<1> HIDE DEF v
<1>5. reached = [a EXCEPT !.round_times = rt2, !.best = best2]
  BY <1>3 DEF States
<1>6. IsSet(m, ask, a.round_times, rt2, rd, kEnd, v, t)
  BY <1>1, <1>2, <1>3 DEF IsSet, AreLabels, Labels
<1>7. /\ best2 \in Labels(m, ask)
      /\ \A x \in AllLocations(m), y \in ViaCounts(ask) : best2[x][y] = a.best[x][y]
  BY <1>2, <1>3 DEF States, Labels, Nodes
<1> HIDE DEF rt2, best2, reached
<1>8. rt2 \in [Rounds -> Labels(m, ask)]
  BY <1>6 DEF IsSet, AreLabels
<1>9. /\ reached \in States(m, ask) /\ reached.round_times = rt2 /\ reached.best = best2
      /\ reached.tmp = a.tmp /\ reached.prev_station_mark = a.prev_station_mark
      /\ reached.time_at_dest = a.time_at_dest
  BY <1>3, <1>5, <1>7, <1>8 DEF States
<1>10. /\ b \in States(m, ask) /\ b.round_times = rt2 /\ b.best = best2
       /\ b.tmp = a.tmp /\ b.prev_station_mark = a.prev_station_mark
       /\ \A i \in Rounds : better_or_eq(ask, b.time_at_dest[i], a.time_at_dest[i])
  BY <1>1, <1>2, <1>4, <1>9, LimitImproves
<1> QED
  BY <1>6, <1>7, <1>10, OnlyTheEnd

LEMMA EndReachedIfBetter ==
  ASSUME NEW m, NEW ask, NEW rd, NEW base, WalkBase(m, ask, rd, base),
         NEW a \in WalkStates(m, ask, rd, base), NEW t \in LabelTimes(ask),
         IsEnd(m, ask, base, t), NEW b, b \in {a, ReachEnd(ask, rd, a, t)}
  PROVE  b \in WalkStates(m, ask, rd, base) /\ <<a, b>> \in Steps(m, ask, rd, base)
<1>1. <<a, a>> \in Steps(m, ask, rd, base)
  BY WalkBaseFacts, StepFacts DEF WalkOrder
<1> QED
  BY <1>1, EndReached

LEMMA OffsetEnds ==
  ASSUME NEW m, NEW ask, ask.intermodal, NEW labels, NEW l \in AllLocations(m), NEW v \in ViaCounts(ask),
         labels[l][v] # kInvalid(ask), ask.dist_to_end[l] # kUnreachable,
         NEW stay, <<Vias(ask), stay>> \in Stays(ask, l, v)
  PROVE  labels[l][v] + ask.dir * (stay + ask.dist_to_end[l]) \in AtEnd(m, ask, HeldBy(m, ask, labels))
<1> DEFINE p == <<l, v, labels[l][v]>>
           y == <<Vias(ask), stay>>
           held == HeldBy(m, ask, labels)
<1>1. p \in held
  BY HeldAt
<1>2. p[1] = l /\ p[2] = v /\ p[3] = labels[l][v] /\ y[1] = Vias(ask) /\ y[2] = stay
  OBVIOUS
<1>3. y \in {y1 \in Stays(ask, p[1], p[2]) : y1[1] = Vias(ask)}
  OBVIOUS
<1> HIDE DEF p, y, held
<1>4. p[3] + ask.dir * (y[2] + ask.dist_to_end[p[1]]) \in AtEnd(m, ask, held)
  BY <1>1, <1>2, <1>3 DEF AtEnd
<1> QED
  BY <1>2, <1>4 DEF held

LEMMA TdOffsetEnds ==
  ASSUME NEW m, NEW ask, ask.intermodal, NEW labels, NEW l \in AllLocations(m),
         Vias(ask) \in ViaCounts(ask), labels[l][Vias(ask)] # kInvalid(ask), ask.td_dest[l] # <<>>,
         NEW td, td = get_td_duration(ask.dir, ask.td_dest[l], labels[l][Vias(ask)]), Found(td)
  PROVE  labels[l][Vias(ask)] + ask.dir * td.duration \in AtEnd(m, ask, HeldBy(m, ask, labels))
<1> DEFINE p == <<l, Vias(ask), labels[l][Vias(ask)]>>
           held == HeldBy(m, ask, labels)
<1>1. p \in held
  BY HeldAt
<1>2. p[1] = l /\ p[2] = Vias(ask) /\ p[3] = labels[l][Vias(ask)]
  OBVIOUS
<1> HIDE DEF p, held
<1>3. p[3] + ask.dir * get_td_duration(ask.dir, ask.td_dest[p[1]], p[3]).duration \in AtEnd(m, ask, held)
  BY <1>1, <1>2 DEF AtEnd
<1> QED
  BY <1>2, <1>3 DEF held

LEMMA ViaOffsetStep ==
  ASSUME NEW m, NEW ask, NEW rd, NEW base, WalkBase(m, ask, rd, base), NEW l \in AllLocations(m),
         NEW a \in WalkStates(m, ask, rd, base), NEW b, b = OffsetFromVia(ask, rd, a, l),
         ask.intermodal, ask.dist_to_end[l] # kUnreachable
  PROVE  b \in WalkStates(m, ask, rd, base) /\ <<a, b>> \in Steps(m, ask, rd, base)
<1> DEFINE v == Vias(ask) - 1
           d == ask.vias[v + 1].stay + ask.dist_to_end[l]
           t == clamp(a.tmp[l][v] + ask.dir * d)
<1>1. IsQuery(m, ask) /\ ask.dir \in {1, -1} /\ Vias(ask) \in Nat /\ ask.dist_to_end[l] \in Nat
  BY WalkBaseFacts, QueryFacts DEF IsQuery
<1>2. a \in States(m, ask) /\ a.tmp = base.tmp
  BY DEF WalkStates
<1>3. b = IF Vias(ask) = 0 \/ a.tmp[l][v] = kInvalid(ask) \/ l \notin ask.vias[v + 1].stops
          THEN a ELSE ReachEndIfBetter(ask, rd, a, t)
  BY DEF OffsetFromVia
<1>4. CASE b = a
  BY <1>4, WalkBaseFacts, StepFacts DEF WalkOrder
<1>5. CASE b # a
  <2>1. Vias(ask) # 0 /\ b \in {a, ReachEnd(ask, rd, a, t)}
    BY <1>3, <1>5 DEF ReachEndIfBetter
  <2>2. v \in ViaCounts(ask) /\ v + 1 \in 1..Vias(ask)
    BY <1>1, <2>1 DEF ViaCounts
  <2>3. d \in Nat
    BY <1>1, <2>2, QueryFacts
  <2>4. a.tmp[l][v] \in LabelTimes(ask)
    BY <1>2, <2>2, StateFacts DEF Nodes
  <2>5. a.tmp[l][v] # kInvalid(ask) /\ IsNextVia(ask, l, v) /\ v + 1 = Vias(ask)
    BY <1>1, <1>3, <1>5, <2>1, <2>2 DEF IsNextVia
  <2>6. ask.vias[v + 1].stay \in Nat
    BY <1>1, <2>2, QueryFacts
  <2> HIDE DEF v
  <2>7. a.tmp[l][v] + ask.dir * d \in AtEnd(m, ask, HeldBy(m, ask, base.tmp))
    BY <1>2, <2>2, <2>5, OffsetEnds DEF Stays
  <2> HIDE DEF d
  <2>8. t \in LabelTimes(ask) /\ IsEnd(m, ask, base, t)
    BY <1>1, <2>3, <2>4, <2>7, ClampedWalk DEF IsEnd
  <2> HIDE DEF t
  <2> QED
    BY <2>1, <2>8, EndReachedIfBetter
<1> QED
  BY <1>4, <1>5

LEMMA OffsetStep ==
  ASSUME NEW m, NEW ask, NEW rd, NEW base, WalkBase(m, ask, rd, base), NEW l \in AllLocations(m),
         NEW a \in WalkStates(m, ask, rd, base), NEW b, b = OffsetFrom(ask, rd, a, l),
         ask.intermodal
  PROVE  b \in WalkStates(m, ask, rd, base) /\ <<a, b>> \in Steps(m, ask, rd, base)
<1> DEFINE v == Vias(ask)
           a1 == OffsetFromVia(ask, rd, a, l)
           t == clamp(a1.tmp[l][v] + ask.dir * ask.dist_to_end[l])
           A == WalkStates(m, ask, rd, base)
           R == Steps(m, ask, rd, base)
<1>1. IsQuery(m, ask) /\ ask.dir \in {1, -1} /\ v \in ViaCounts(ask) /\ ask.dist_to_end[l] \in Nat
  BY WalkBaseFacts, QueryFacts DEF IsQuery
<1>2. WalkOrder(m, ask, base, A, R)
  BY <1>1, StepFacts
<1>3. ask.dist_to_end[l] # kUnreachable => a1 \in A /\ <<a, a1>> \in R
  BY ViaOffsetStep
<1>4. \/ b = a
      \/ ask.dist_to_end[l] # kUnreachable /\ b = a1
      \/ /\ ask.dist_to_end[l] # kUnreachable /\ a1.tmp[l][v] # kInvalid(ask)
         /\ b \in {a1, ReachEnd(ask, rd, a1, t)}
  BY DEF OffsetFrom, ReachEndIfBetter
<1> HIDE DEF a1
<1>5. ASSUME ask.dist_to_end[l] # kUnreachable, a1.tmp[l][v] # kInvalid(ask)
      PROVE  t \in LabelTimes(ask) /\ IsEnd(m, ask, base, t)
  <2>1. a1.tmp[l][v] \in LabelTimes(ask) /\ a1.tmp = base.tmp
    BY <1>1, <1>2, <1>3, <1>5, StateFacts DEF WalkOrder, Nodes
  <2>2. <<v, 0>> \in Stays(ask, l, v) /\ 0 + ask.dist_to_end[l] = ask.dist_to_end[l]
    BY <1>1 DEF Stays
  <2>3. v = Vias(ask)
    OBVIOUS
  <2> HIDE DEF v
  <2>4. a1.tmp[l][v] + ask.dir * (0 + ask.dist_to_end[l]) \in AtEnd(m, ask, HeldBy(m, ask, base.tmp))
    BY <1>1, <1>5, <2>1, <2>2, <2>3, OffsetEnds
  <2>5. a1.tmp[l][v] + ask.dir * ask.dist_to_end[l] \in AtEnd(m, ask, HeldBy(m, ask, base.tmp))
    BY <2>2, <2>4
  <2> QED
    BY <1>1, <2>1, <2>5, ClampedWalk DEF IsEnd
<1> HIDE DEF t, v
<1>6. CASE b = a
  BY <1>2, <1>6 DEF WalkOrder
<1>7. CASE b # a
  <2>1. /\ a1 \in A /\ <<a, a1>> \in R
        /\ \/ b = a1
           \/ a1.tmp[l][v] # kInvalid(ask) /\ b \in {a1, ReachEnd(ask, rd, a1, t)}
    BY <1>3, <1>4, <1>7
  <2>2. b \in A /\ <<a1, b>> \in R
    <3>1. CASE b = a1
      BY <1>2, <2>1, <3>1 DEF WalkOrder
    <3>2. CASE b # a1
      <4>1. /\ t \in LabelTimes(ask) /\ IsEnd(m, ask, base, t)
            /\ b \in {a1, ReachEnd(ask, rd, a1, t)}
        BY <1>4, <1>5, <1>7, <2>1, <3>2
      <4> QED
        BY <2>1, <4>1, EndReachedIfBetter
    <3> QED
      BY <3>1, <3>2
  <2> HIDE DEF A, R
  <2>3. <<a, b>> \in R
    BY <1>2, <2>1, <2>2 DEF WalkOrder, A
  <2> QED
    BY <2>2, <2>3 DEF A, R
<1> QED
  BY <1>6, <1>7

LEMMA TdOffsetStep ==
  ASSUME NEW m, NEW ask, NEW rd, NEW base, WalkBase(m, ask, rd, base), NEW l \in AllLocations(m),
         NEW a \in WalkStates(m, ask, rd, base), NEW b, b = TdOffsetFrom(ask, rd, a, l),
         ask.intermodal
  PROVE  b \in WalkStates(m, ask, rd, base) /\ <<a, b>> \in Steps(m, ask, rd, base)
<1> DEFINE v == Vias(ask)
           time == a.tmp[l][v]
           td == get_td_duration(ask.dir, ask.td_dest[l], time)
           t == clamp(time + ask.dir * td.duration)
<1>1. IsQuery(m, ask) /\ ask.dir \in {1, -1} /\ v \in ViaCounts(ask) /\ IsTdList(m, ask.td_dest[l])
  BY WalkBaseFacts, QueryFacts DEF IsQuery
<1>2. /\ b \in {a, ReachEnd(ask, rd, a, t)}
      /\ b # a => Found(td) /\ ask.td_dest[l] # <<>> /\ time # kInvalid(ask)
  BY DEF TdOffsetFrom
<1>3. time \in LabelTimes(ask) /\ time \in Int /\ a.tmp = base.tmp
  <2>1. a \in States(m, ask) /\ a.tmp = base.tmp
    BY DEF WalkStates
  <2> QED
    BY <1>1, <2>1, StateFacts DEF Nodes
<1>4. b # a => time + ask.dir * td.duration \in AtEnd(m, ask, HeldBy(m, ask, base.tmp))
  BY <1>1, <1>2, <1>3, TdOffsetEnds
<1> HIDE DEF v, time
<1>5. CASE b = a
  BY <1>5, WalkBaseFacts, StepFacts DEF WalkOrder
<1>6. CASE b # a
  <2>1. td.duration \in Nat
    BY <1>1, <1>2, <1>3, <1>6, TdListFacts, TdDurations
  <2> HIDE DEF td
  <2>2. t \in LabelTimes(ask) /\ IsEnd(m, ask, base, t)
    BY <1>1, <1>3, <1>4, <1>6, <2>1, ClampedWalk DEF IsEnd
  <2> HIDE DEF t
  <2> QED
    BY <1>2, <2>2, EndReachedIfBetter
<1> QED
  BY <1>5, <1>6

LEMMA ToEndStep ==
  ASSUME NEW m, NEW ask, NEW rd, NEW base, WalkBase(m, ask, rd, base), NEW l \in AllLocations(m),
         NEW a \in WalkStates(m, ask, rd, base),
         ask.intermodal, NEW b, b = TdOffsetFrom(ask, rd, OffsetFrom(ask, rd, a, l), l)
  PROVE  b \in WalkStates(m, ask, rd, base) /\ <<a, b>> \in Steps(m, ask, rd, base)
<1> DEFINE a1 == OffsetFrom(ask, rd, a, l)
           A == WalkStates(m, ask, rd, base)
           R == Steps(m, ask, rd, base)
<1>1. a1 \in A /\ <<a, a1>> \in R
  BY OffsetStep
<1>2. b = TdOffsetFrom(ask, rd, a1, l)
  OBVIOUS
<1> HIDE DEF a1
<1>3. b \in A /\ <<a1, b>> \in R
  BY <1>1, <1>2, TdOffsetStep
<1>4. WalkOrder(m, ask, base, A, R)
  BY WalkBaseFacts, StepFacts
<1> HIDE DEF A, R
<1>5. <<a, b>> \in R
  BY <1>1, <1>3, <1>4 DEF WalkOrder, A
<1> QED
  BY <1>3, <1>5 DEF A, R

LEMMA EndsStep ==
  ASSUME NEW m, NEW ask, NEW rd, NEW base, WalkBase(m, ask, rd, base),
         NEW a \in WalkStates(m, ask, rd, base), NEW b, b = update_intermodal_footpaths(m, ask, rd, a)
  PROVE  b \in WalkStates(m, ask, rd, base) /\ <<a, b>> \in Steps(m, ask, rd, base)
<1> DEFINE A == WalkStates(m, ask, rd, base)
           R == Steps(m, ask, rd, base)
           S == base.prev_station_mark
           D == S \X A
<1>1. IsNetwork(m) /\ IsQuery(m, ask) /\ ask.dir \in {1, -1} /\ rd \in Rounds
  BY WalkBaseFacts
<1>2. WalkOrder(m, ask, base, A, R)
  BY <1>1, StepFacts
<1>3. a \in A /\ a.prev_station_mark = base.prev_station_mark
  BY <1>2 DEF WalkOrder, WalkStates
<1>4. CASE ~ask.intermodal
  BY <1>2, <1>3, <1>4 DEF WalkOrder, update_intermodal_footpaths
<1>5. CASE ask.intermodal
  <2>1. Numbers(S) /\ b = EachToEnd(ask, rd, a, S)
    <3>1. Numbers(S)
      BY MarksAreNumbers
    <3> QED
      BY <3>1, <1>3, <1>5 DEF update_intermodal_footpaths, EachToEnd
  <2>2. ASSUME NEW x \in S, NEW y \in A
        PROVE  Goes(y, TdOffsetFrom(ask, rd, OffsetFrom(ask, rd, y, x), x), x, A, R, D)
    <3> DEFINE y2 == TdOffsetFrom(ask, rd, OffsetFrom(ask, rd, y, x), x)
    <3>1. y2 = TdOffsetFrom(ask, rd, OffsetFrom(ask, rd, y, x), x)
      OBVIOUS
    <3> HIDE DEF y2
    <3>2. y2 \in A /\ <<y, y2>> \in R
      BY <1>5, <3>1, MarksAreNumbers, ToEndStep
    <3> QED
      BY <3>2 DEF Goes, y2
  <2>3. \A x \in S : \A a1 \in A, a2 \in A : <<x, a1>> \in D /\ <<a1, a2>> \in R => <<x, a2>> \in D
    OBVIOUS
  <2> HIDE DEF A, R, S, D
  <2>4. Forward(S, A, a, R, D)
    BY <1>2, <1>3, <2>3 DEF WalkOrder, Forward
  <2>5. Arrives(b, S, a, A, R, D)
    BY <2>1, <2>2, <2>4, ToEndLoop
  <2> QED
    BY <2>5 DEF A, R, Arrives
<1> QED
  BY <1>4, <1>5

(***************************************************************************)
(* All walks of a round: after them, every arrival has been followed up.   *)
(***************************************************************************)
LEMMA WalksAre ==
  ASSUME NEW m, NEW ask, NEW l, NEW t, NEW walk \in WalksFrom(m, ask, l, t)
  PROVE  \/ \E fp \in StaticFootpaths(m, ask, l) :
              walk.target = FootpathTo(ask, fp) /\ walk.duration = FootpathTime(ask, fp)
         \/ ask.td /\ \E fp \in for_each_footpath(ask.dir, TdFootpaths(m, ask, l), t) :
                        walk.target = fp.target /\ walk.duration = fp.td.duration
<1> DEFINE c == (IF ask.dir = 1 THEN m.td_out ELSE m.td_in)[l]
<1>1. c = TdFootpaths(m, ask, l)
  BY DEF TdFootpaths
<1>2. WalksFrom(m, ask, l, t) =
        {[target |-> IF ask.dir = 1 THEN fp.to ELSE fp.from,
          duration |-> adjusted_transfer_time(ask, fp.duration)] : fp \in StaticFootpaths(m, ask, l)}
        \cup {[target |-> fp.target, duration |-> fp.td.duration] :
                fp \in IF ask.td THEN for_each_footpath(ask.dir, c, t) ELSE {}}
  BY DEF WalksFrom
<1> HIDE DEF c
<1>3. CASE walk \in {[target |-> IF ask.dir = 1 THEN fp.to ELSE fp.from,
                      duration |-> adjusted_transfer_time(ask, fp.duration)] :
                       fp \in StaticFootpaths(m, ask, l)}
  BY <1>3 DEF FootpathTo, FootpathTime
<1>4. CASE walk \in {[target |-> fp.target, duration |-> fp.td.duration] :
                       fp \in IF ask.td THEN for_each_footpath(ask.dir, c, t) ELSE {}}
  BY <1>1, <1>4
<1> QED
  BY <1>2, <1>3, <1>4

LEMMA WalksFromFacts ==
  ASSUME NEW m, NEW ask, IsNetwork(m), IsQuery(m, ask), NEW l \in AllLocations(m), NEW t \in Int,
         NEW walk \in WalksFrom(m, ask, l, t)
  PROVE  walk.target \in AllLocations(m) /\ walk.duration \in Nat
<1>1. IsTdList(m, TdFootpaths(m, ask, l))
  BY DEF IsNetwork, TdFootpaths
<1>2. \A fp \in for_each_footpath(ask.dir, TdFootpaths(m, ask, l), t) :
        fp.target \in AllLocations(m) /\ fp.td.duration \in Nat
  BY <1>1, TdFootpathFacts
<1>3. \A fp \in StaticFootpaths(m, ask, l) :
        FootpathTo(ask, fp) \in AllLocations(m) /\ FootpathTime(ask, fp) \in Nat
  BY FootpathFacts
<1>4. CASE \E fp \in StaticFootpaths(m, ask, l) :
             walk.target = FootpathTo(ask, fp) /\ walk.duration = FootpathTime(ask, fp)
  BY <1>3, <1>4
<1>5. CASE \E fp \in for_each_footpath(ask.dir, TdFootpaths(m, ask, l), t) :
             walk.target = fp.target /\ walk.duration = fp.td.duration
  BY <1>2, <1>5
<1> QED
  BY <1>4, <1>5, WalksAre

LEMMA SettledLater ==
  ASSUME NEW m, IsNetwork(m), NEW ask, IsQuery(m, ask), NEW rt, NEW later,
         AreLabels(m, ask, rt), AreLabels(m, ask, later), Grown(m, ask, rt, later),
         NEW i \in Rounds, NEW j \in Rounds, i <= j, NEW l \in AllLocations(m), NEW v \in ViaCounts(ask),
         NEW t \in LabelTimes(ask), Settled(m, ask, rt, i, l, v, t)
  PROVE  Settled(m, ask, later, j, l, v, t)
<1>1. i \in Int /\ j \in Int /\ t \in Int
  BY RoundFacts DEF LabelTimes
<1>2. ChangeKnown(m, ask, later, j, l, v, t)
  <2>1. ChangeKnown(m, ask, rt, j, l, v, t)
    BY <1>1, KnownLater DEF Settled, ChangeKnown
  <2> QED
    BY <2>1, ChangeStaysKnown
<1>3. ASSUME NEW walk \in WalksFrom(m, ask, l, t)
      PROVE  WalkKnown(ask, later, j, l, v, t, walk.target, walk.duration)
  <2>1. WalkKnown(ask, rt, i, l, v, t, walk.target, walk.duration)
    BY DEF Settled
  <2>2. WalkKnown(ask, rt, j, l, v, t, walk.target, walk.duration)
    BY <1>1, <2>1, KnownLater DEF WalkKnown
  <2>3. walk.target \in AllLocations(m) /\ walk.duration \in Nat
    BY <1>1, WalksFromFacts
  <2> QED
    BY <2>2, <2>3, WalkStaysKnown
<1> QED
  BY <1>2, <1>3 DEF Settled

LEMMA RoundWalked ==
  ASSUME NEW m, NEW ask, NEW rd, NEW base, WalkBase(m, ask, rd, base),
         base \in WalkStates(m, ask, rd, base), NEW b, b = walk_all(m, ask, rd, base)
  PROVE  /\ b \in States(m, ask) /\ LabelsExplained(m, ask, b.round_times)
         /\ BestKnown(m, ask, b, rd) /\ ArrivalsAre(m, ask, b, rd + 1, {})
         /\ b.tmp = base.tmp /\ \A i \in 0..rd - 1 : b.round_times[i] = base.round_times[i]
         /\ EndsAre(m, ask, rd, base, b)
<1> DEFINE A == WalkStates(m, ask, rd, base)
           R == Steps(m, ask, rd, base)
           marks == base.prev_station_mark
           changed == update_transfers(m, ask, rd, base)
           ended == update_intermodal_footpaths(m, ask, rd, changed)
           walked == update_footpaths(m, ask, rd, ended)
<1>1. /\ IsNetwork(m) /\ IsQuery(m, ask) /\ ask.dir \in {1, -1} /\ rd \in Rounds
      /\ rd - 1 \in Rounds /\ rd \in Nat /\ marks \subseteq AllLocations(m)
      /\ \A x \in AllLocations(m), y \in ViaCounts(ask) :
           base.tmp[x][y] \in LabelTimes(ask) /\ base.tmp[x][y] \in Int
  BY WalkBaseFacts, RoundFacts, MarksAreNumbers DEF LabelTimes
<1>2. /\ changed \in A
      /\ \A l \in marks : \A v \in ViaCounts(ask) :
           base.tmp[l][v] = kInvalid(ask)
             \/ ChangeKnown(m, ask, changed.round_times, rd, l, v, base.tmp[l][v])
  BY TransfersStep
<1>3. b = update_td_offsets(m, ask, rd, walked)
  BY DEF walk_all
<1> HIDE DEF changed
<1>4. ended \in A /\ <<changed, ended>> \in R
  BY <1>2, EndsStep
<1> HIDE DEF ended
<1>5. /\ walked \in A /\ <<ended, walked>> \in R
      /\ \A l \in marks : \A fp \in StaticFootpaths(m, ask, l), v \in ViaCounts(ask) :
           WalkDone(ask, walked.round_times, rd, base, l, v, FootpathTo(ask, fp), FootpathTime(ask, fp))
  BY <1>4, FootpathsStep
<1> HIDE DEF walked
<1>6. /\ b \in A /\ <<walked, b>> \in R
      /\ \A l \in marks : ask.td =>
           \A v \in ViaCounts(ask) : \A fp \in TdWays(m, ask, base, l, v) :
             WalkDone(ask, b.round_times, rd, base, l, v, fp.target, fp.td.duration)
  BY <1>3, <1>5, TdFootpathsStep
<1>7. WalkOrder(m, ask, base, A, R)
  BY <1>1, StepFacts
<1> HIDE DEF A, R
<1>8. <<changed, b>> \in R /\ <<walked, b>> \in R
  BY <1>2, <1>4, <1>5, <1>6, <1>7 DEF WalkOrder
<1>9. /\ AreLabels(m, ask, changed.round_times) /\ AreLabels(m, ask, walked.round_times)
      /\ AreLabels(m, ask, b.round_times) /\ AreLabels(m, ask, base.round_times) /\ b.tmp = base.tmp
      /\ Grown(m, ask, changed.round_times, b.round_times)
      /\ Grown(m, ask, walked.round_times, b.round_times)
      /\ Grown(m, ask, base.round_times, b.round_times)
  <2>1. base \in A /\ <<base, changed>> \in R
    BY TransfersStep DEF A, R, changed
  <2>2. <<base, b>> \in R
    BY <1>2, <1>6, <1>7, <1>8, <2>1 DEF WalkOrder
  <2> QED
    BY <1>2, <1>5, <1>6, <1>7, <1>8, <2>1, <2>2 DEF WalkOrder
<1>10. ASSUME NEW l \in AllLocations(m), NEW v \in ViaCounts(ask), base.tmp[l][v] # kInvalid(ask)
       PROVE  Settled(m, ask, b.round_times, rd, l, v, base.tmp[l][v])
  <2> DEFINE t == base.tmp[l][v]
  <2>0. t \in LabelTimes(ask) /\ t \in Int
    BY <1>1
  <2>1. CASE Settled(m, ask, base.round_times, rd - 1, l, v, t)
    <3> HIDE DEF t
    <3>1. rd - 1 <= rd
      BY <1>1
    <3> QED
      BY <1>1, <1>9, <2>0, <2>1, <3>1, SettledLater DEF t
  <2>2. CASE l \in marks
    <3>1. ChangeKnown(m, ask, b.round_times, rd, l, v, t)
      <4>1. ChangeKnown(m, ask, changed.round_times, rd, l, v, t)
        BY <1>2, <1>10, <2>2
      <4> HIDE DEF t
      <4> QED
        BY <1>1, <1>9, <2>0, <4>1, ChangeStaysKnown
    <3>2. ASSUME NEW walk \in WalksFrom(m, ask, l, t)
          PROVE  WalkKnown(ask, b.round_times, rd, l, v, t, walk.target, walk.duration)
      <4>1. WalkDone(ask, b.round_times, rd, base, l, v, walk.target, walk.duration)
        <5>1. CASE \E fp \in StaticFootpaths(m, ask, l) :
                     walk.target = FootpathTo(ask, fp) /\ walk.duration = FootpathTime(ask, fp)
          <6>1. WalkDone(ask, walked.round_times, rd, base, l, v, walk.target, walk.duration)
            BY <1>5, <2>2, <5>1
          <6>2. walk.target \in AllLocations(m) /\ walk.duration \in Nat
            BY <1>1, <2>0, WalksFromFacts
          <6> QED
            BY <1>9, <6>1, <6>2, WalkStaysDone
        <5>2. CASE ask.td /\ \E fp \in for_each_footpath(ask.dir, TdFootpaths(m, ask, l), t) :
                               walk.target = fp.target /\ walk.duration = fp.td.duration
          BY <1>6, <2>2, <5>2 DEF TdWays
        <5> QED
          BY <5>1, <5>2, WalksAre
      <4> QED
        BY <1>10, <4>1 DEF WalkDone
    <3> QED
      BY <3>1, <3>2 DEF Settled
  <2> QED
    BY <1>10, <2>1, <2>2, WalkBaseFacts DEF ArrivalsAre
<1>11. ArrivalsAre(m, ask, b, rd + 1, {})
  <2>1. (rd + 1) - 1 = rd
    BY <1>1
  <2>2. ASSUME NEW l \in AllLocations(m), NEW v \in ViaCounts(ask), b.tmp[l][v] # kInvalid(ask)
        PROVE  Settled(m, ask, b.round_times, (rd + 1) - 1, l, v, b.tmp[l][v])
    <3>1. b.tmp[l][v] = base.tmp[l][v]
      BY <1>9
    <3>2. Settled(m, ask, b.round_times, rd, l, v, base.tmp[l][v])
      BY <1>10, <2>2, <3>1
    <3> QED
      BY <2>1, <3>1, <3>2
  <2> QED
    BY <2>2 DEF ArrivalsAre
<1> QED
  BY <1>6, <1>11 DEF A, WalkStates

=============================================================================
