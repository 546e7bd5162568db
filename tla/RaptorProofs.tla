----------------------------- MODULE RaptorProofs -----------------------------
(***************************************************************************)
(* Raptor's labels can be travelled, and its results promise no more than  *)
(* there is: proofs of Reconstructible and NothingBetterPromised.          *)
(***************************************************************************)
EXTENDS RaptorWalkProofs

(***************************************************************************)
(* The loops of the rides. In those over stops and vias the order counts:  *)
(* what holds up to one is passed on to the next.                          *)
(***************************************************************************)
EachPassWith(ask, l, base, S) ==
  ForEach(LAMBDA a, x : PassWith(ask, l, a, x), base, S)

LEMMA PassWithUpTo ==
  ASSUME NEW ask, NEW l, NEW base, NEW lo \in Int, NEW hi \in Int, lo <= hi + 1,
         NEW J, <<lo - 1, base>> \in J,
         \A i \in lo..hi : \A a : <<i - 1, a>> \in J => <<i, PassWith(ask, l, a, i)>> \in J
  PROVE  <<hi, EachPassWith(ask, l, base, lo..hi)>> \in J
<1> DEFINE S == lo..hi
           F(f, T) == IF T = {} THEN base
                      ELSE PassWith(ask, l, f[T \ {last_of(T)}], last_of(T))
           After(f) == [T \in SUBSET S |-> F(f, T)]
           iter == CHOOSE f : f = After(f)
           Upto(f, d) == \A T \in SUBSET S : Cardinality(T) <= d => f[T] = F(f, T)
           N == {d \in Nat : \E f : Upto(f, d)}
<1>1. Numbers(S)
  BY FS_Interval DEF Numbers
<1>2. \A T \in SUBSET S : Cardinality(T) \in Nat
  BY <1>1, FS_Subset, FS_CardinalityType DEF Numbers
<1>3. ASSUME NEW T \in SUBSET S, T # {}
      PROVE  /\ T \ {last_of(T)} \in SUBSET S
             /\ Cardinality(T \ {last_of(T)}) = Cardinality(T) - 1
  <2>1. IsFiniteSet(S) /\ Chooses(Last(S), S) /\ Last(S)[T] = last_of(T)
    BY <1>1, LastChooses DEF Last
  <2> HIDE DEF S
  <2>2. /\ T \ {Last(S)[T]} \in SUBSET S
        /\ Cardinality(T \ {Last(S)[T]}) = Cardinality(T) - 1
    BY <1>3, <2>1, SmallerSubset
  <2> QED
    BY <2>1, <2>2
<1>4. 0 \in N
  <2> DEFINE f == [T \in SUBSET S |-> base]
  <2>1. ASSUME NEW T \in SUBSET S, Cardinality(T) <= 0 PROVE T = {}
    <3>1. Cardinality(T) = 0
      BY <1>2, <2>1
    <3>2. IsFiniteSet(T)
      BY <1>1, FS_Subset DEF Numbers
    <3> QED
      BY <3>1, <3>2, FS_EmptySet
  <2>2. Upto(f, 0)
    BY <2>1
  <2> QED
    BY <2>2
<1>5. ASSUME NEW d \in N PROVE d + 1 \in N
  <2>1. PICK f : Upto(f, d)
    OBVIOUS
  <2>2. d \in Nat
    OBVIOUS
  <2> DEFINE g == [T \in SUBSET S |-> F(f, T)]
  <2>3. ASSUME NEW T \in SUBSET S, Cardinality(T) <= d PROVE g[T] = f[T]
    BY <2>1, <2>3
  <2>4. ASSUME NEW T \in SUBSET S, Cardinality(T) <= d + 1 PROVE g[T] = F(g, T)
    <3>1. CASE T = {}
      BY <3>1
    <3>2. CASE T # {}
      <4> DEFINE T1 == T \ {last_of(T)}
      <4>1. T1 \in SUBSET S /\ Cardinality(T1) <= d
        BY <1>2, <1>3, <2>2, <2>4, <3>2
      <4>2. g[T1] = f[T1]
        BY <2>3, <4>1
      <4>3. g[T] = PassWith(ask, l, f[T1], last_of(T))
        BY <3>2
      <4>4. F(g, T) = PassWith(ask, l, g[T1], last_of(T))
        BY <3>2
      <4> HIDE DEF g, F, T1
      <4> QED
        BY <4>2, <4>3, <4>4
    <3> QED
      BY <3>1, <3>2
  <2> HIDE DEF g, F
  <2>5. Upto(g, d + 1)
    BY <2>4
  <2> QED
    BY <2>2, <2>5
<1>6. Cardinality(S) \in N
  <2>1. N \in SUBSET Nat
    OBVIOUS
  <2>2. Cardinality(S) \in Nat
    BY <1>2
  <2> HIDE DEF N
  <2> QED
    BY <1>4, <1>5, <2>1, <2>2, NumbersReached
<1>7. PICK f : Upto(f, Cardinality(S))
  BY <1>6
<1>8. \A T \in SUBSET S : Cardinality(T) <= Cardinality(S)
  BY <1>1, FS_Subset DEF Numbers
<1>9. \E h : h = After(h)
  <2> DEFINE h == After(f)
  <2>1. \A T \in SUBSET S : h[T] = f[T]
    BY <1>7, <1>8
  <2>2. ASSUME NEW T \in SUBSET S PROVE F(h, T) = F(f, T)
    <3>1. CASE T = {}
      BY <3>1
    <3>2. CASE T # {}
      <4>1. T \ {last_of(T)} \in SUBSET S
        BY <1>3, <3>2
      <4>2. h[T \ {last_of(T)}] = f[T \ {last_of(T)}]
        BY <2>1, <4>1
      <4> HIDE DEF h
      <4> QED
        BY <3>2, <4>2
    <3> QED
      BY <3>1, <3>2
  <2> HIDE DEF F
  <2>3. h = After(h)
    BY <2>2
  <2> QED
    BY <2>3
<1>10. iter = After(iter)
  BY <1>9
<1>11. EachPassWith(ask, l, base, lo..hi) = iter[S]
  BY DEF EachPassWith, ForEach, MapThenFoldSet
<1> HIDE DEF iter
<1>12. ASSUME NEW i \in lo..hi PROVE iter[lo..i] = PassWith(ask, l, iter[lo..i - 1], i)
  <2>0. i \in Int
    OBVIOUS
  <2>1. lo..i \in SUBSET S /\ lo..i # {} /\ lo..i \subseteq Int
    <3>1. lo <= i /\ i <= hi
      OBVIOUS
    <3>2. \A x \in lo..i : x \in lo..hi /\ x \in Int
      BY <2>0, <3>1
    <3>3. i \in lo..i
      BY <2>0, <3>1
    <3> HIDE DEF S
    <3>4. \A x \in lo..i : x \in S
      BY <3>2 DEF S
    <3> QED
      BY <3>2, <3>3, <3>4
  <2>5. IsFiniteSet(lo..i)
    BY <2>0, FS_Interval
  <2>2. last_of(lo..i) = i
    <3>1. last_of(lo..i) \in lo..i /\ \A x \in lo..i : last_of(lo..i) >= x
      BY <2>1, <2>5, LastOf
    <3> QED
      BY <3>1
  <2>3. (lo..i) \ {i} = lo..i - 1
    OBVIOUS
  <2>4. iter[lo..i] = F(iter, lo..i)
    BY <1>10, <2>1
  <2> QED
    BY <2>1, <2>2, <2>3, <2>4
<1>13. iter[{}] = base
  BY <1>10
<1> DEFINE Reached(d) == lo - 1 + d <= hi => <<lo - 1 + d, iter[lo..lo - 1 + d]>> \in J
           M == {d \in Nat : Reached(d)}
<1>14. 0 \in M
  <2>1. lo..lo - 1 + 0 = {} /\ lo - 1 + 0 = lo - 1
    OBVIOUS
  <2> QED
    BY <1>13, <2>1
<1>15. ASSUME NEW d \in M PROVE d + 1 \in M
  <2> DEFINE i == lo - 1 + (d + 1)
  <2>1. d \in Nat /\ i - 1 = lo - 1 + d
    OBVIOUS
  <2>2. ASSUME i <= hi PROVE <<i, iter[lo..i]>> \in J
    <3>1. i \in lo..hi /\ lo - 1 + d <= hi
      BY <2>1, <2>2
    <3>2. <<i - 1, iter[lo..i - 1]>> \in J
      BY <2>1, <3>1
    <3> HIDE DEF i
    <3>3. iter[lo..i] = PassWith(ask, l, iter[lo..i - 1], i)
      BY <1>12, <3>1
    <3> QED
      BY <3>1, <3>2, <3>3
  <2>3. d + 1 \in Nat /\ Reached(d + 1)
    BY <2>1, <2>2
  <2> HIDE DEF Reached
  <2> QED
    BY <2>3
<1>16. M = Nat
  <2>1. M \in SUBSET Nat
    OBVIOUS
  <2> HIDE DEF M
  <2> QED
    BY <1>14, <1>15, <2>1, NumbersReached
<1>17. <<hi, iter[lo..hi]>> \in J
  <2>1. hi - lo + 1 \in Nat /\ lo - 1 + (hi - lo + 1) = hi
    OBVIOUS
  <2>2. hi - lo + 1 \in M
    BY <1>16, <2>1
  <2> QED
    BY <2>1, <2>2
<1> QED
  BY <1>11, <1>17

EachPassVia(ask, r, l, event, e, base, S) ==
  ForEach(LAMBDA a, x : PassVia(ask, r, l, event, e, a, x), base, S)

LEMMA PassViaUpTo ==
  ASSUME NEW ask, NEW r, NEW l, NEW event, NEW e, NEW base, NEW lo \in Int, NEW hi \in Int, lo <= hi + 1,
         NEW J, <<lo - 1, base>> \in J,
         \A i \in lo..hi : \A a : <<i - 1, a>> \in J => <<i, PassVia(ask, r, l, event, e, a, i)>> \in J
  PROVE  <<hi, EachPassVia(ask, r, l, event, e, base, lo..hi)>> \in J
<1> DEFINE S == lo..hi
           F(f, T) == IF T = {} THEN base
                      ELSE PassVia(ask, r, l, event, e, f[T \ {last_of(T)}], last_of(T))
           After(f) == [T \in SUBSET S |-> F(f, T)]
           iter == CHOOSE f : f = After(f)
           Upto(f, d) == \A T \in SUBSET S : Cardinality(T) <= d => f[T] = F(f, T)
           N == {d \in Nat : \E f : Upto(f, d)}
<1>1. Numbers(S)
  BY FS_Interval DEF Numbers
<1>2. \A T \in SUBSET S : Cardinality(T) \in Nat
  BY <1>1, FS_Subset, FS_CardinalityType DEF Numbers
<1>3. ASSUME NEW T \in SUBSET S, T # {}
      PROVE  /\ T \ {last_of(T)} \in SUBSET S
             /\ Cardinality(T \ {last_of(T)}) = Cardinality(T) - 1
  <2>1. IsFiniteSet(S) /\ Chooses(Last(S), S) /\ Last(S)[T] = last_of(T)
    BY <1>1, LastChooses DEF Last
  <2> HIDE DEF S
  <2>2. /\ T \ {Last(S)[T]} \in SUBSET S
        /\ Cardinality(T \ {Last(S)[T]}) = Cardinality(T) - 1
    BY <1>3, <2>1, SmallerSubset
  <2> QED
    BY <2>1, <2>2
<1>4. 0 \in N
  <2> DEFINE f == [T \in SUBSET S |-> base]
  <2>1. ASSUME NEW T \in SUBSET S, Cardinality(T) <= 0 PROVE T = {}
    <3>1. Cardinality(T) = 0
      BY <1>2, <2>1
    <3>2. IsFiniteSet(T)
      BY <1>1, FS_Subset DEF Numbers
    <3> QED
      BY <3>1, <3>2, FS_EmptySet
  <2>2. Upto(f, 0)
    BY <2>1
  <2> QED
    BY <2>2
<1>5. ASSUME NEW d \in N PROVE d + 1 \in N
  <2>1. PICK f : Upto(f, d)
    OBVIOUS
  <2>2. d \in Nat
    OBVIOUS
  <2> DEFINE g == [T \in SUBSET S |-> F(f, T)]
  <2>3. ASSUME NEW T \in SUBSET S, Cardinality(T) <= d PROVE g[T] = f[T]
    BY <2>1, <2>3
  <2>4. ASSUME NEW T \in SUBSET S, Cardinality(T) <= d + 1 PROVE g[T] = F(g, T)
    <3>1. CASE T = {}
      BY <3>1
    <3>2. CASE T # {}
      <4> DEFINE T1 == T \ {last_of(T)}
      <4>1. T1 \in SUBSET S /\ Cardinality(T1) <= d
        BY <1>2, <1>3, <2>2, <2>4, <3>2
      <4>2. g[T1] = f[T1]
        BY <2>3, <4>1
      <4>3. g[T] = PassVia(ask, r, l, event, e, f[T1], last_of(T))
        BY <3>2
      <4>4. F(g, T) = PassVia(ask, r, l, event, e, g[T1], last_of(T))
        BY <3>2
      <4> HIDE DEF g, F, T1
      <4> QED
        BY <4>2, <4>3, <4>4
    <3> QED
      BY <3>1, <3>2
  <2> HIDE DEF g, F
  <2>5. Upto(g, d + 1)
    BY <2>4
  <2> QED
    BY <2>2, <2>5
<1>6. Cardinality(S) \in N
  <2>1. N \in SUBSET Nat
    OBVIOUS
  <2>2. Cardinality(S) \in Nat
    BY <1>2
  <2> HIDE DEF N
  <2> QED
    BY <1>4, <1>5, <2>1, <2>2, NumbersReached
<1>7. PICK f : Upto(f, Cardinality(S))
  BY <1>6
<1>8. \A T \in SUBSET S : Cardinality(T) <= Cardinality(S)
  BY <1>1, FS_Subset DEF Numbers
<1>9. \E h : h = After(h)
  <2> DEFINE h == After(f)
  <2>1. \A T \in SUBSET S : h[T] = f[T]
    BY <1>7, <1>8
  <2>2. ASSUME NEW T \in SUBSET S PROVE F(h, T) = F(f, T)
    <3>1. CASE T = {}
      BY <3>1
    <3>2. CASE T # {}
      <4>1. T \ {last_of(T)} \in SUBSET S
        BY <1>3, <3>2
      <4>2. h[T \ {last_of(T)}] = f[T \ {last_of(T)}]
        BY <2>1, <4>1
      <4> HIDE DEF h
      <4> QED
        BY <3>2, <4>2
    <3> QED
      BY <3>1, <3>2
  <2> HIDE DEF F
  <2>3. h = After(h)
    BY <2>2
  <2> QED
    BY <2>3
<1>10. iter = After(iter)
  BY <1>9
<1>11. EachPassVia(ask, r, l, event, e, base, lo..hi) = iter[S]
  BY DEF EachPassVia, ForEach, MapThenFoldSet
<1> HIDE DEF iter
<1>12. ASSUME NEW i \in lo..hi PROVE iter[lo..i] = PassVia(ask, r, l, event, e, iter[lo..i - 1], i)
  <2>0. i \in Int
    OBVIOUS
  <2>1. lo..i \in SUBSET S /\ lo..i # {} /\ lo..i \subseteq Int
    <3>1. lo <= i /\ i <= hi
      OBVIOUS
    <3>2. \A x \in lo..i : x \in lo..hi /\ x \in Int
      BY <2>0, <3>1
    <3>3. i \in lo..i
      BY <2>0, <3>1
    <3> HIDE DEF S
    <3>4. \A x \in lo..i : x \in S
      BY <3>2 DEF S
    <3> QED
      BY <3>2, <3>3, <3>4
  <2>5. IsFiniteSet(lo..i)
    BY <2>0, FS_Interval
  <2>2. last_of(lo..i) = i
    <3>1. last_of(lo..i) \in lo..i /\ \A x \in lo..i : last_of(lo..i) >= x
      BY <2>1, <2>5, LastOf
    <3> QED
      BY <3>1
  <2>3. (lo..i) \ {i} = lo..i - 1
    OBVIOUS
  <2>4. iter[lo..i] = F(iter, lo..i)
    BY <1>10, <2>1
  <2> QED
    BY <2>1, <2>2, <2>3, <2>4
<1>13. iter[{}] = base
  BY <1>10
<1> DEFINE Reached(d) == lo - 1 + d <= hi => <<lo - 1 + d, iter[lo..lo - 1 + d]>> \in J
           M == {d \in Nat : Reached(d)}
<1>14. 0 \in M
  <2>1. lo..lo - 1 + 0 = {} /\ lo - 1 + 0 = lo - 1
    OBVIOUS
  <2> QED
    BY <1>13, <2>1
<1>15. ASSUME NEW d \in M PROVE d + 1 \in M
  <2> DEFINE i == lo - 1 + (d + 1)
  <2>1. d \in Nat /\ i - 1 = lo - 1 + d
    OBVIOUS
  <2>2. ASSUME i <= hi PROVE <<i, iter[lo..i]>> \in J
    <3>1. i \in lo..hi /\ lo - 1 + d <= hi
      BY <2>1, <2>2
    <3>2. <<i - 1, iter[lo..i - 1]>> \in J
      BY <2>1, <3>1
    <3> HIDE DEF i
    <3>3. iter[lo..i] = PassVia(ask, r, l, event, e, iter[lo..i - 1], i)
      BY <1>12, <3>1
    <3> QED
      BY <3>1, <3>2, <3>3
  <2>3. d + 1 \in Nat /\ Reached(d + 1)
    BY <2>1, <2>2
  <2> HIDE DEF Reached
  <2> QED
    BY <2>3
<1>16. M = Nat
  <2>1. M \in SUBSET Nat
    OBVIOUS
  <2> HIDE DEF M
  <2> QED
    BY <1>14, <1>15, <2>1, NumbersReached
<1>17. <<hi, iter[lo..hi]>> \in J
  <2>1. hi - lo + 1 \in Nat /\ lo - 1 + (hi - lo + 1) = hi
    OBVIOUS
  <2>2. hi - lo + 1 \in M
    BY <1>16, <2>1
  <2> QED
    BY <2>1, <2>2
<1> QED
  BY <1>11, <1>17

EachPassViasFrom(ask, r, l, event, base, S) ==
  ForEach(LAMBDA a, x : PassViasFrom(ask, r, l, event, a, x), base, S)

LEMMA PassViasFromUpTo ==
  ASSUME NEW ask, NEW r, NEW l, NEW event, NEW base, NEW lo \in Int, NEW hi \in Int, lo <= hi + 1,
         NEW J, <<lo - 1, base>> \in J,
         \A i \in lo..hi : \A a : <<i - 1, a>> \in J => <<i, PassViasFrom(ask, r, l, event, a, i)>> \in J
  PROVE  <<hi, EachPassViasFrom(ask, r, l, event, base, lo..hi)>> \in J
<1> DEFINE S == lo..hi
           F(f, T) == IF T = {} THEN base
                      ELSE PassViasFrom(ask, r, l, event, f[T \ {last_of(T)}], last_of(T))
           After(f) == [T \in SUBSET S |-> F(f, T)]
           iter == CHOOSE f : f = After(f)
           Upto(f, d) == \A T \in SUBSET S : Cardinality(T) <= d => f[T] = F(f, T)
           N == {d \in Nat : \E f : Upto(f, d)}
<1>1. Numbers(S)
  BY FS_Interval DEF Numbers
<1>2. \A T \in SUBSET S : Cardinality(T) \in Nat
  BY <1>1, FS_Subset, FS_CardinalityType DEF Numbers
<1>3. ASSUME NEW T \in SUBSET S, T # {}
      PROVE  /\ T \ {last_of(T)} \in SUBSET S
             /\ Cardinality(T \ {last_of(T)}) = Cardinality(T) - 1
  <2>1. IsFiniteSet(S) /\ Chooses(Last(S), S) /\ Last(S)[T] = last_of(T)
    BY <1>1, LastChooses DEF Last
  <2> HIDE DEF S
  <2>2. /\ T \ {Last(S)[T]} \in SUBSET S
        /\ Cardinality(T \ {Last(S)[T]}) = Cardinality(T) - 1
    BY <1>3, <2>1, SmallerSubset
  <2> QED
    BY <2>1, <2>2
<1>4. 0 \in N
  <2> DEFINE f == [T \in SUBSET S |-> base]
  <2>1. ASSUME NEW T \in SUBSET S, Cardinality(T) <= 0 PROVE T = {}
    <3>1. Cardinality(T) = 0
      BY <1>2, <2>1
    <3>2. IsFiniteSet(T)
      BY <1>1, FS_Subset DEF Numbers
    <3> QED
      BY <3>1, <3>2, FS_EmptySet
  <2>2. Upto(f, 0)
    BY <2>1
  <2> QED
    BY <2>2
<1>5. ASSUME NEW d \in N PROVE d + 1 \in N
  <2>1. PICK f : Upto(f, d)
    OBVIOUS
  <2>2. d \in Nat
    OBVIOUS
  <2> DEFINE g == [T \in SUBSET S |-> F(f, T)]
  <2>3. ASSUME NEW T \in SUBSET S, Cardinality(T) <= d PROVE g[T] = f[T]
    BY <2>1, <2>3
  <2>4. ASSUME NEW T \in SUBSET S, Cardinality(T) <= d + 1 PROVE g[T] = F(g, T)
    <3>1. CASE T = {}
      BY <3>1
    <3>2. CASE T # {}
      <4> DEFINE T1 == T \ {last_of(T)}
      <4>1. T1 \in SUBSET S /\ Cardinality(T1) <= d
        BY <1>2, <1>3, <2>2, <2>4, <3>2
      <4>2. g[T1] = f[T1]
        BY <2>3, <4>1
      <4>3. g[T] = PassViasFrom(ask, r, l, event, f[T1], last_of(T))
        BY <3>2
      <4>4. F(g, T) = PassViasFrom(ask, r, l, event, g[T1], last_of(T))
        BY <3>2
      <4> HIDE DEF g, F, T1
      <4> QED
        BY <4>2, <4>3, <4>4
    <3> QED
      BY <3>1, <3>2
  <2> HIDE DEF g, F
  <2>5. Upto(g, d + 1)
    BY <2>4
  <2> QED
    BY <2>2, <2>5
<1>6. Cardinality(S) \in N
  <2>1. N \in SUBSET Nat
    OBVIOUS
  <2>2. Cardinality(S) \in Nat
    BY <1>2
  <2> HIDE DEF N
  <2> QED
    BY <1>4, <1>5, <2>1, <2>2, NumbersReached
<1>7. PICK f : Upto(f, Cardinality(S))
  BY <1>6
<1>8. \A T \in SUBSET S : Cardinality(T) <= Cardinality(S)
  BY <1>1, FS_Subset DEF Numbers
<1>9. \E h : h = After(h)
  <2> DEFINE h == After(f)
  <2>1. \A T \in SUBSET S : h[T] = f[T]
    BY <1>7, <1>8
  <2>2. ASSUME NEW T \in SUBSET S PROVE F(h, T) = F(f, T)
    <3>1. CASE T = {}
      BY <3>1
    <3>2. CASE T # {}
      <4>1. T \ {last_of(T)} \in SUBSET S
        BY <1>3, <3>2
      <4>2. h[T \ {last_of(T)}] = f[T \ {last_of(T)}]
        BY <2>1, <4>1
      <4> HIDE DEF h
      <4> QED
        BY <3>2, <4>2
    <3> QED
      BY <3>1, <3>2
  <2> HIDE DEF F
  <2>3. h = After(h)
    BY <2>2
  <2> QED
    BY <2>3
<1>10. iter = After(iter)
  BY <1>9
<1>11. EachPassViasFrom(ask, r, l, event, base, lo..hi) = iter[S]
  BY DEF EachPassViasFrom, ForEach, MapThenFoldSet
<1> HIDE DEF iter
<1>12. ASSUME NEW i \in lo..hi PROVE iter[lo..i] = PassViasFrom(ask, r, l, event, iter[lo..i - 1], i)
  <2>0. i \in Int
    OBVIOUS
  <2>1. lo..i \in SUBSET S /\ lo..i # {} /\ lo..i \subseteq Int
    <3>1. lo <= i /\ i <= hi
      OBVIOUS
    <3>2. \A x \in lo..i : x \in lo..hi /\ x \in Int
      BY <2>0, <3>1
    <3>3. i \in lo..i
      BY <2>0, <3>1
    <3> HIDE DEF S
    <3>4. \A x \in lo..i : x \in S
      BY <3>2 DEF S
    <3> QED
      BY <3>2, <3>3, <3>4
  <2>5. IsFiniteSet(lo..i)
    BY <2>0, FS_Interval
  <2>2. last_of(lo..i) = i
    <3>1. last_of(lo..i) \in lo..i /\ \A x \in lo..i : last_of(lo..i) >= x
      BY <2>1, <2>5, LastOf
    <3> QED
      BY <3>1
  <2>3. (lo..i) \ {i} = lo..i - 1
    OBVIOUS
  <2>4. iter[lo..i] = F(iter, lo..i)
    BY <1>10, <2>1
  <2> QED
    BY <2>1, <2>2, <2>3, <2>4
<1>13. iter[{}] = base
  BY <1>10
<1> DEFINE Reached(d) == lo - 1 + d <= hi => <<lo - 1 + d, iter[lo..lo - 1 + d]>> \in J
           M == {d \in Nat : Reached(d)}
<1>14. 0 \in M
  <2>1. lo..lo - 1 + 0 = {} /\ lo - 1 + 0 = lo - 1
    OBVIOUS
  <2> QED
    BY <1>13, <2>1
<1>15. ASSUME NEW d \in M PROVE d + 1 \in M
  <2> DEFINE i == lo - 1 + (d + 1)
  <2>1. d \in Nat /\ i - 1 = lo - 1 + d
    OBVIOUS
  <2>2. ASSUME i <= hi PROVE <<i, iter[lo..i]>> \in J
    <3>1. i \in lo..hi /\ lo - 1 + d <= hi
      BY <2>1, <2>2
    <3>2. <<i - 1, iter[lo..i - 1]>> \in J
      BY <2>1, <3>1
    <3> HIDE DEF i
    <3>3. iter[lo..i] = PassViasFrom(ask, r, l, event, iter[lo..i - 1], i)
      BY <1>12, <3>1
    <3> QED
      BY <3>1, <3>2, <3>3
  <2>3. d + 1 \in Nat /\ Reached(d + 1)
    BY <2>1, <2>2
  <2> HIDE DEF Reached
  <2> QED
    BY <2>3
<1>16. M = Nat
  <2>1. M \in SUBSET Nat
    OBVIOUS
  <2> HIDE DEF M
  <2> QED
    BY <1>14, <1>15, <2>1, NumbersReached
<1>17. <<hi, iter[lo..hi]>> \in J
  <2>1. hi - lo + 1 \in Nat /\ lo - 1 + (hi - lo + 1) = hi
    OBVIOUS
  <2>2. hi - lo + 1 \in M
    BY <1>16, <2>1
  <2> QED
    BY <2>1, <2>2
<1> QED
  BY <1>11, <1>17

EachRtStop(m, ask, rd, r, base, S) ==
  ForEach(LAMBDA a, x : RtStop(m, ask, rd, r, a, x), base, S)

LEMMA RtStopUpTo ==
  ASSUME NEW m, NEW ask, NEW rd, NEW r, NEW base, NEW lo \in Int, NEW hi \in Int, lo <= hi + 1,
         NEW J, <<lo - 1, base>> \in J,
         \A i \in lo..hi : \A a : <<i - 1, a>> \in J => <<i, RtStop(m, ask, rd, r, a, i)>> \in J
  PROVE  <<hi, EachRtStop(m, ask, rd, r, base, lo..hi)>> \in J
<1> DEFINE S == lo..hi
           F(f, T) == IF T = {} THEN base
                      ELSE RtStop(m, ask, rd, r, f[T \ {last_of(T)}], last_of(T))
           After(f) == [T \in SUBSET S |-> F(f, T)]
           iter == CHOOSE f : f = After(f)
           Upto(f, d) == \A T \in SUBSET S : Cardinality(T) <= d => f[T] = F(f, T)
           N == {d \in Nat : \E f : Upto(f, d)}
<1>1. Numbers(S)
  BY FS_Interval DEF Numbers
<1>2. \A T \in SUBSET S : Cardinality(T) \in Nat
  BY <1>1, FS_Subset, FS_CardinalityType DEF Numbers
<1>3. ASSUME NEW T \in SUBSET S, T # {}
      PROVE  /\ T \ {last_of(T)} \in SUBSET S
             /\ Cardinality(T \ {last_of(T)}) = Cardinality(T) - 1
  <2>1. IsFiniteSet(S) /\ Chooses(Last(S), S) /\ Last(S)[T] = last_of(T)
    BY <1>1, LastChooses DEF Last
  <2> HIDE DEF S
  <2>2. /\ T \ {Last(S)[T]} \in SUBSET S
        /\ Cardinality(T \ {Last(S)[T]}) = Cardinality(T) - 1
    BY <1>3, <2>1, SmallerSubset
  <2> QED
    BY <2>1, <2>2
<1>4. 0 \in N
  <2> DEFINE f == [T \in SUBSET S |-> base]
  <2>1. ASSUME NEW T \in SUBSET S, Cardinality(T) <= 0 PROVE T = {}
    <3>1. Cardinality(T) = 0
      BY <1>2, <2>1
    <3>2. IsFiniteSet(T)
      BY <1>1, FS_Subset DEF Numbers
    <3> QED
      BY <3>1, <3>2, FS_EmptySet
  <2>2. Upto(f, 0)
    BY <2>1
  <2> QED
    BY <2>2
<1>5. ASSUME NEW d \in N PROVE d + 1 \in N
  <2>1. PICK f : Upto(f, d)
    OBVIOUS
  <2>2. d \in Nat
    OBVIOUS
  <2> DEFINE g == [T \in SUBSET S |-> F(f, T)]
  <2>3. ASSUME NEW T \in SUBSET S, Cardinality(T) <= d PROVE g[T] = f[T]
    BY <2>1, <2>3
  <2>4. ASSUME NEW T \in SUBSET S, Cardinality(T) <= d + 1 PROVE g[T] = F(g, T)
    <3>1. CASE T = {}
      BY <3>1
    <3>2. CASE T # {}
      <4> DEFINE T1 == T \ {last_of(T)}
      <4>1. T1 \in SUBSET S /\ Cardinality(T1) <= d
        BY <1>2, <1>3, <2>2, <2>4, <3>2
      <4>2. g[T1] = f[T1]
        BY <2>3, <4>1
      <4>3. g[T] = RtStop(m, ask, rd, r, f[T1], last_of(T))
        BY <3>2
      <4>4. F(g, T) = RtStop(m, ask, rd, r, g[T1], last_of(T))
        BY <3>2
      <4> HIDE DEF g, F, T1
      <4> QED
        BY <4>2, <4>3, <4>4
    <3> QED
      BY <3>1, <3>2
  <2> HIDE DEF g, F
  <2>5. Upto(g, d + 1)
    BY <2>4
  <2> QED
    BY <2>2, <2>5
<1>6. Cardinality(S) \in N
  <2>1. N \in SUBSET Nat
    OBVIOUS
  <2>2. Cardinality(S) \in Nat
    BY <1>2
  <2> HIDE DEF N
  <2> QED
    BY <1>4, <1>5, <2>1, <2>2, NumbersReached
<1>7. PICK f : Upto(f, Cardinality(S))
  BY <1>6
<1>8. \A T \in SUBSET S : Cardinality(T) <= Cardinality(S)
  BY <1>1, FS_Subset DEF Numbers
<1>9. \E h : h = After(h)
  <2> DEFINE h == After(f)
  <2>1. \A T \in SUBSET S : h[T] = f[T]
    BY <1>7, <1>8
  <2>2. ASSUME NEW T \in SUBSET S PROVE F(h, T) = F(f, T)
    <3>1. CASE T = {}
      BY <3>1
    <3>2. CASE T # {}
      <4>1. T \ {last_of(T)} \in SUBSET S
        BY <1>3, <3>2
      <4>2. h[T \ {last_of(T)}] = f[T \ {last_of(T)}]
        BY <2>1, <4>1
      <4> HIDE DEF h
      <4> QED
        BY <3>2, <4>2
    <3> QED
      BY <3>1, <3>2
  <2> HIDE DEF F
  <2>3. h = After(h)
    BY <2>2
  <2> QED
    BY <2>3
<1>10. iter = After(iter)
  BY <1>9
<1>11. EachRtStop(m, ask, rd, r, base, lo..hi) = iter[S]
  BY DEF EachRtStop, ForEach, MapThenFoldSet
<1> HIDE DEF iter
<1>12. ASSUME NEW i \in lo..hi PROVE iter[lo..i] = RtStop(m, ask, rd, r, iter[lo..i - 1], i)
  <2>0. i \in Int
    OBVIOUS
  <2>1. lo..i \in SUBSET S /\ lo..i # {} /\ lo..i \subseteq Int
    <3>1. lo <= i /\ i <= hi
      OBVIOUS
    <3>2. \A x \in lo..i : x \in lo..hi /\ x \in Int
      BY <2>0, <3>1
    <3>3. i \in lo..i
      BY <2>0, <3>1
    <3> HIDE DEF S
    <3>4. \A x \in lo..i : x \in S
      BY <3>2 DEF S
    <3> QED
      BY <3>2, <3>3, <3>4
  <2>5. IsFiniteSet(lo..i)
    BY <2>0, FS_Interval
  <2>2. last_of(lo..i) = i
    <3>1. last_of(lo..i) \in lo..i /\ \A x \in lo..i : last_of(lo..i) >= x
      BY <2>1, <2>5, LastOf
    <3> QED
      BY <3>1
  <2>3. (lo..i) \ {i} = lo..i - 1
    OBVIOUS
  <2>4. iter[lo..i] = F(iter, lo..i)
    BY <1>10, <2>1
  <2> QED
    BY <2>1, <2>2, <2>3, <2>4
<1>13. iter[{}] = base
  BY <1>10
<1> DEFINE Reached(d) == lo - 1 + d <= hi => <<lo - 1 + d, iter[lo..lo - 1 + d]>> \in J
           M == {d \in Nat : Reached(d)}
<1>14. 0 \in M
  <2>1. lo..lo - 1 + 0 = {} /\ lo - 1 + 0 = lo - 1
    OBVIOUS
  <2> QED
    BY <1>13, <2>1
<1>15. ASSUME NEW d \in M PROVE d + 1 \in M
  <2> DEFINE i == lo - 1 + (d + 1)
  <2>1. d \in Nat /\ i - 1 = lo - 1 + d
    OBVIOUS
  <2>2. ASSUME i <= hi PROVE <<i, iter[lo..i]>> \in J
    <3>1. i \in lo..hi /\ lo - 1 + d <= hi
      BY <2>1, <2>2
    <3>2. <<i - 1, iter[lo..i - 1]>> \in J
      BY <2>1, <3>1
    <3> HIDE DEF i
    <3>3. iter[lo..i] = RtStop(m, ask, rd, r, iter[lo..i - 1], i)
      BY <1>12, <3>1
    <3> QED
      BY <3>1, <3>2, <3>3
  <2>3. d + 1 \in Nat /\ Reached(d + 1)
    BY <2>1, <2>2
  <2> HIDE DEF Reached
  <2> QED
    BY <2>3
<1>16. M = Nat
  <2>1. M \in SUBSET Nat
    OBVIOUS
  <2> HIDE DEF M
  <2> QED
    BY <1>14, <1>15, <2>1, NumbersReached
<1>17. <<hi, iter[lo..hi]>> \in J
  <2>1. hi - lo + 1 \in Nat /\ lo - 1 + (hi - lo + 1) = hi
    OBVIOUS
  <2>2. hi - lo + 1 \in M
    BY <1>16, <2>1
  <2> QED
    BY <2>1, <2>2
<1> QED
  BY <1>11, <1>17

EachRouteStop(m, ask, rd, r, base, S) ==
  ForEach(LAMBDA a, x : RouteStop(m, ask, rd, r, a, x), base, S)

LEMMA RouteStopUpTo ==
  ASSUME NEW m, NEW ask, NEW rd, NEW r, NEW base, NEW lo \in Int, NEW hi \in Int, lo <= hi + 1,
         NEW J, <<lo - 1, base>> \in J,
         \A i \in lo..hi : \A a : <<i - 1, a>> \in J => <<i, RouteStop(m, ask, rd, r, a, i)>> \in J
  PROVE  <<hi, EachRouteStop(m, ask, rd, r, base, lo..hi)>> \in J
<1> DEFINE S == lo..hi
           F(f, T) == IF T = {} THEN base
                      ELSE RouteStop(m, ask, rd, r, f[T \ {last_of(T)}], last_of(T))
           After(f) == [T \in SUBSET S |-> F(f, T)]
           iter == CHOOSE f : f = After(f)
           Upto(f, d) == \A T \in SUBSET S : Cardinality(T) <= d => f[T] = F(f, T)
           N == {d \in Nat : \E f : Upto(f, d)}
<1>1. Numbers(S)
  BY FS_Interval DEF Numbers
<1>2. \A T \in SUBSET S : Cardinality(T) \in Nat
  BY <1>1, FS_Subset, FS_CardinalityType DEF Numbers
<1>3. ASSUME NEW T \in SUBSET S, T # {}
      PROVE  /\ T \ {last_of(T)} \in SUBSET S
             /\ Cardinality(T \ {last_of(T)}) = Cardinality(T) - 1
  <2>1. IsFiniteSet(S) /\ Chooses(Last(S), S) /\ Last(S)[T] = last_of(T)
    BY <1>1, LastChooses DEF Last
  <2> HIDE DEF S
  <2>2. /\ T \ {Last(S)[T]} \in SUBSET S
        /\ Cardinality(T \ {Last(S)[T]}) = Cardinality(T) - 1
    BY <1>3, <2>1, SmallerSubset
  <2> QED
    BY <2>1, <2>2
<1>4. 0 \in N
  <2> DEFINE f == [T \in SUBSET S |-> base]
  <2>1. ASSUME NEW T \in SUBSET S, Cardinality(T) <= 0 PROVE T = {}
    <3>1. Cardinality(T) = 0
      BY <1>2, <2>1
    <3>2. IsFiniteSet(T)
      BY <1>1, FS_Subset DEF Numbers
    <3> QED
      BY <3>1, <3>2, FS_EmptySet
  <2>2. Upto(f, 0)
    BY <2>1
  <2> QED
    BY <2>2
<1>5. ASSUME NEW d \in N PROVE d + 1 \in N
  <2>1. PICK f : Upto(f, d)
    OBVIOUS
  <2>2. d \in Nat
    OBVIOUS
  <2> DEFINE g == [T \in SUBSET S |-> F(f, T)]
  <2>3. ASSUME NEW T \in SUBSET S, Cardinality(T) <= d PROVE g[T] = f[T]
    BY <2>1, <2>3
  <2>4. ASSUME NEW T \in SUBSET S, Cardinality(T) <= d + 1 PROVE g[T] = F(g, T)
    <3>1. CASE T = {}
      BY <3>1
    <3>2. CASE T # {}
      <4> DEFINE T1 == T \ {last_of(T)}
      <4>1. T1 \in SUBSET S /\ Cardinality(T1) <= d
        BY <1>2, <1>3, <2>2, <2>4, <3>2
      <4>2. g[T1] = f[T1]
        BY <2>3, <4>1
      <4>3. g[T] = RouteStop(m, ask, rd, r, f[T1], last_of(T))
        BY <3>2
      <4>4. F(g, T) = RouteStop(m, ask, rd, r, g[T1], last_of(T))
        BY <3>2
      <4> HIDE DEF g, F, T1
      <4> QED
        BY <4>2, <4>3, <4>4
    <3> QED
      BY <3>1, <3>2
  <2> HIDE DEF g, F
  <2>5. Upto(g, d + 1)
    BY <2>4
  <2> QED
    BY <2>2, <2>5
<1>6. Cardinality(S) \in N
  <2>1. N \in SUBSET Nat
    OBVIOUS
  <2>2. Cardinality(S) \in Nat
    BY <1>2
  <2> HIDE DEF N
  <2> QED
    BY <1>4, <1>5, <2>1, <2>2, NumbersReached
<1>7. PICK f : Upto(f, Cardinality(S))
  BY <1>6
<1>8. \A T \in SUBSET S : Cardinality(T) <= Cardinality(S)
  BY <1>1, FS_Subset DEF Numbers
<1>9. \E h : h = After(h)
  <2> DEFINE h == After(f)
  <2>1. \A T \in SUBSET S : h[T] = f[T]
    BY <1>7, <1>8
  <2>2. ASSUME NEW T \in SUBSET S PROVE F(h, T) = F(f, T)
    <3>1. CASE T = {}
      BY <3>1
    <3>2. CASE T # {}
      <4>1. T \ {last_of(T)} \in SUBSET S
        BY <1>3, <3>2
      <4>2. h[T \ {last_of(T)}] = f[T \ {last_of(T)}]
        BY <2>1, <4>1
      <4> HIDE DEF h
      <4> QED
        BY <3>2, <4>2
    <3> QED
      BY <3>1, <3>2
  <2> HIDE DEF F
  <2>3. h = After(h)
    BY <2>2
  <2> QED
    BY <2>3
<1>10. iter = After(iter)
  BY <1>9
<1>11. EachRouteStop(m, ask, rd, r, base, lo..hi) = iter[S]
  BY DEF EachRouteStop, ForEach, MapThenFoldSet
<1> HIDE DEF iter
<1>12. ASSUME NEW i \in lo..hi PROVE iter[lo..i] = RouteStop(m, ask, rd, r, iter[lo..i - 1], i)
  <2>0. i \in Int
    OBVIOUS
  <2>1. lo..i \in SUBSET S /\ lo..i # {} /\ lo..i \subseteq Int
    <3>1. lo <= i /\ i <= hi
      OBVIOUS
    <3>2. \A x \in lo..i : x \in lo..hi /\ x \in Int
      BY <2>0, <3>1
    <3>3. i \in lo..i
      BY <2>0, <3>1
    <3> HIDE DEF S
    <3>4. \A x \in lo..i : x \in S
      BY <3>2 DEF S
    <3> QED
      BY <3>2, <3>3, <3>4
  <2>5. IsFiniteSet(lo..i)
    BY <2>0, FS_Interval
  <2>2. last_of(lo..i) = i
    <3>1. last_of(lo..i) \in lo..i /\ \A x \in lo..i : last_of(lo..i) >= x
      BY <2>1, <2>5, LastOf
    <3> QED
      BY <3>1
  <2>3. (lo..i) \ {i} = lo..i - 1
    OBVIOUS
  <2>4. iter[lo..i] = F(iter, lo..i)
    BY <1>10, <2>1
  <2> QED
    BY <2>1, <2>2, <2>3, <2>4
<1>13. iter[{}] = base
  BY <1>10
<1> DEFINE Reached(d) == lo - 1 + d <= hi => <<lo - 1 + d, iter[lo..lo - 1 + d]>> \in J
           M == {d \in Nat : Reached(d)}
<1>14. 0 \in M
  <2>1. lo..lo - 1 + 0 = {} /\ lo - 1 + 0 = lo - 1
    OBVIOUS
  <2> QED
    BY <1>13, <2>1
<1>15. ASSUME NEW d \in M PROVE d + 1 \in M
  <2> DEFINE i == lo - 1 + (d + 1)
  <2>1. d \in Nat /\ i - 1 = lo - 1 + d
    OBVIOUS
  <2>2. ASSUME i <= hi PROVE <<i, iter[lo..i]>> \in J
    <3>1. i \in lo..hi /\ lo - 1 + d <= hi
      BY <2>1, <2>2
    <3>2. <<i - 1, iter[lo..i - 1]>> \in J
      BY <2>1, <3>1
    <3> HIDE DEF i
    <3>3. iter[lo..i] = RouteStop(m, ask, rd, r, iter[lo..i - 1], i)
      BY <1>12, <3>1
    <3> QED
      BY <3>1, <3>2, <3>3
  <2>3. d + 1 \in Nat /\ Reached(d + 1)
    BY <2>1, <2>2
  <2> HIDE DEF Reached
  <2> QED
    BY <2>3
<1>16. M = Nat
  <2>1. M \in SUBSET Nat
    OBVIOUS
  <2> HIDE DEF M
  <2> QED
    BY <1>14, <1>15, <2>1, NumbersReached
<1>17. <<hi, iter[lo..hi]>> \in J
  <2>1. hi - lo + 1 \in Nat /\ lo - 1 + (hi - lo + 1) = hi
    OBVIOUS
  <2>2. hi - lo + 1 \in M
    BY <1>16, <2>1
  <2> QED
    BY <2>1, <2>2
<1> QED
  BY <1>11, <1>17

EachAlightFromRt(m, ask, rd, r, i, base, S) ==
  ForEach(LAMBDA a, x : AlightFromRt(m, ask, rd, r, i, a, x), base, S)

LEMMA AlightFromRtLoop ==
  ASSUME NEW m, NEW ask, NEW rd, NEW r, NEW i, NEW base, NEW S, Numbers(S),
         NEW A, NEW R, NEW D, Forward(S, A, base, R, D),
         \A x \in S : \A a \in A : Goes(a, AlightFromRt(m, ask, rd, r, i, a, x), x, A, R, D)
  PROVE  Arrives(EachAlightFromRt(m, ask, rd, r, i, base, S), S, base, A, R, D)
<1> DEFINE F == [p \in A \X S |-> AlightFromRt(m, ask, rd, r, i, p[1], p[2])]
           After(f) == [T \in SUBSET S |->
                          IF T = {} THEN base
                          ELSE AlightFromRt(m, ask, rd, r, i, f[T \ {last_of(T)}], last_of(T))]
           iter == CHOOSE f : f = After(f)
<1>1. IsFiniteSet(S) /\ Chooses(Last(S), S)
  BY LastChooses
<1>2. base \in A /\ F \in [A \X S -> A]
  BY DEF Goes, Forward
<1>3. PICK f \in [SUBSET S -> A] : Follows(f, F, Last(S), base, S)
  <2> HIDE DEF F
  <2> QED
    BY <1>1, <1>2, StatesExist
<1>4. f = After(f)
  <2>1. ASSUME NEW T \in SUBSET S, T # {}
        PROVE  f[T] = AlightFromRt(m, ask, rd, r, i, f[T \ {last_of(T)}], last_of(T))
    <3>1. last_of(T) \in S /\ f[T \ {last_of(T)}] \in A
      BY <1>1, <2>1 DEF Chooses, Last
    <3>2. f[T] = F[<<f[T \ {last_of(T)}], last_of(T)>>]
      BY <1>3, <2>1 DEF Follows, Last
    <3> QED
      BY <3>1, <3>2
  <2>2. f[{}] = base
    BY <1>3 DEF Follows
  <2> QED
    BY <2>1, <2>2
<1>5. iter = After(iter)
  BY <1>4
<1>6. EachAlightFromRt(m, ask, rd, r, i, base, S) = iter[S]
  BY DEF EachAlightFromRt, ForEach, MapThenFoldSet
<1> HIDE DEF iter
<1>7. iter[{}] = base
  BY <1>5
<1>8. Passes(iter, Last(S), S, A, R, D)
  <2>1. ASSUME NEW T \in SUBSET S, T # {}, iter[T \ {last_of(T)}] \in A
        PROVE  Goes(iter[T \ {last_of(T)}], iter[T], last_of(T), A, R, D)
    <3>1. last_of(T) \in S
      BY <1>1, <2>1 DEF Chooses, Last
    <3>2. iter[T] = AlightFromRt(m, ask, rd, r, i, iter[T \ {last_of(T)}], last_of(T))
      BY <1>5, <2>1
    <3> QED
      BY <2>1, <3>1, <3>2
  <2> QED
    BY <2>1 DEF Passes, Last
<1> QED
  BY <1>1, <1>6, <1>7, <1>8, LoopAdvances

EachAlightFrom(m, ask, rd, r, i, et, base, S) ==
  ForAny(LAMBDA a, x : AlightFrom(m, ask, rd, r, i, et, a, x), base, S)

LEMMA AlightFromLoop ==
  ASSUME NEW m, NEW ask, NEW rd, NEW r, NEW i, NEW et, NEW base, NEW S, IsFiniteSet(S),
         NEW A, NEW R, NEW D, Forward(S, A, base, R, D),
         \A x \in S : \A a \in A : Goes(a, AlightFrom(m, ask, rd, r, i, et, a, x), x, A, R, D)
  PROVE  Arrives(EachAlightFrom(m, ask, rd, r, i, et, base, S), S, base, A, R, D)
<1> DEFINE F == [p \in A \X S |-> AlightFrom(m, ask, rd, r, i, et, p[1], p[2])]
           After(f) == [T \in SUBSET S |->
                          IF T = {} THEN base
                          ELSE AlightFrom(m, ask, rd, r, i, et, f[T \ {any_of(T)}], any_of(T))]
           iter == CHOOSE f : f = After(f)
<1>1. IsFiniteSet(S) /\ Chooses(Any(S), S)
  BY AnyChooses
<1>2. base \in A /\ F \in [A \X S -> A]
  BY DEF Goes, Forward
<1>3. PICK f \in [SUBSET S -> A] : Follows(f, F, Any(S), base, S)
  <2> HIDE DEF F
  <2> QED
    BY <1>1, <1>2, StatesExist
<1>4. f = After(f)
  <2>1. ASSUME NEW T \in SUBSET S, T # {}
        PROVE  f[T] = AlightFrom(m, ask, rd, r, i, et, f[T \ {any_of(T)}], any_of(T))
    <3>1. any_of(T) \in S /\ f[T \ {any_of(T)}] \in A
      BY <1>1, <2>1 DEF Chooses, Any
    <3>2. f[T] = F[<<f[T \ {any_of(T)}], any_of(T)>>]
      BY <1>3, <2>1 DEF Follows, Any
    <3> QED
      BY <3>1, <3>2
  <2>2. f[{}] = base
    BY <1>3 DEF Follows
  <2> QED
    BY <2>1, <2>2
<1>5. iter = After(iter)
  BY <1>4
<1>6. EachAlightFrom(m, ask, rd, r, i, et, base, S) = iter[S]
  BY DEF EachAlightFrom, ForAny, MapThenFoldSet
<1> HIDE DEF iter
<1>7. iter[{}] = base
  BY <1>5
<1>8. Passes(iter, Any(S), S, A, R, D)
  <2>1. ASSUME NEW T \in SUBSET S, T # {}, iter[T \ {any_of(T)}] \in A
        PROVE  Goes(iter[T \ {any_of(T)}], iter[T], any_of(T), A, R, D)
    <3>1. any_of(T) \in S
      BY <1>1, <2>1 DEF Chooses, Any
    <3>2. iter[T] = AlightFrom(m, ask, rd, r, i, et, iter[T \ {any_of(T)}], any_of(T))
      BY <1>5, <2>1
    <3> QED
      BY <2>1, <3>1, <3>2
  <2> QED
    BY <2>1 DEF Passes, Any
<1> QED
  BY <1>1, <1>6, <1>7, <1>8, LoopAdvances

EachRtTransport(m, ask, rd, base, S) ==
  ForEach(LAMBDA a, x : update_rt_transport(m, ask, rd, a, m.rt_transports[x]), base, S)

LEMMA RtTransportLoop ==
  ASSUME NEW m, NEW ask, NEW rd, NEW base, NEW S, Numbers(S),
         NEW A, NEW R, NEW D, Forward(S, A, base, R, D),
         \A x \in S : \A a \in A : Goes(a, update_rt_transport(m, ask, rd, a, m.rt_transports[x]), x, A, R, D)
  PROVE  Arrives(EachRtTransport(m, ask, rd, base, S), S, base, A, R, D)
<1> DEFINE F == [p \in A \X S |-> update_rt_transport(m, ask, rd, p[1], m.rt_transports[p[2]])]
           After(f) == [T \in SUBSET S |->
                          IF T = {} THEN base
                          ELSE update_rt_transport(m, ask, rd, f[T \ {last_of(T)}], m.rt_transports[last_of(T)])]
           iter == CHOOSE f : f = After(f)
<1>1. IsFiniteSet(S) /\ Chooses(Last(S), S)
  BY LastChooses
<1>2. base \in A /\ F \in [A \X S -> A]
  BY DEF Goes, Forward
<1>3. PICK f \in [SUBSET S -> A] : Follows(f, F, Last(S), base, S)
  <2> HIDE DEF F
  <2> QED
    BY <1>1, <1>2, StatesExist
<1>4. f = After(f)
  <2>1. ASSUME NEW T \in SUBSET S, T # {}
        PROVE  f[T] = update_rt_transport(m, ask, rd, f[T \ {last_of(T)}], m.rt_transports[last_of(T)])
    <3>1. last_of(T) \in S /\ f[T \ {last_of(T)}] \in A
      BY <1>1, <2>1 DEF Chooses, Last
    <3>2. f[T] = F[<<f[T \ {last_of(T)}], last_of(T)>>]
      BY <1>3, <2>1 DEF Follows, Last
    <3> QED
      BY <3>1, <3>2
  <2>2. f[{}] = base
    BY <1>3 DEF Follows
  <2> QED
    BY <2>1, <2>2
<1>5. iter = After(iter)
  BY <1>4
<1>6. EachRtTransport(m, ask, rd, base, S) = iter[S]
  BY DEF EachRtTransport, ForEach, MapThenFoldSet
<1> HIDE DEF iter
<1>7. iter[{}] = base
  BY <1>5
<1>8. Passes(iter, Last(S), S, A, R, D)
  <2>1. ASSUME NEW T \in SUBSET S, T # {}, iter[T \ {last_of(T)}] \in A
        PROVE  Goes(iter[T \ {last_of(T)}], iter[T], last_of(T), A, R, D)
    <3>1. last_of(T) \in S
      BY <1>1, <2>1 DEF Chooses, Last
    <3>2. iter[T] = update_rt_transport(m, ask, rd, iter[T \ {last_of(T)}], m.rt_transports[last_of(T)])
      BY <1>5, <2>1
    <3> QED
      BY <2>1, <3>1, <3>2
  <2> QED
    BY <2>1 DEF Passes, Last
<1> QED
  BY <1>1, <1>6, <1>7, <1>8, LoopAdvances

EachRoute(m, ask, rd, base, S) ==
  ForEach(LAMBDA a, x : update_route(m, ask, rd, a, m.routes[x]), base, S)

LEMMA RouteLoop ==
  ASSUME NEW m, NEW ask, NEW rd, NEW base, NEW S, Numbers(S),
         NEW A, NEW R, NEW D, Forward(S, A, base, R, D),
         \A x \in S : \A a \in A : Goes(a, update_route(m, ask, rd, a, m.routes[x]), x, A, R, D)
  PROVE  Arrives(EachRoute(m, ask, rd, base, S), S, base, A, R, D)
<1> DEFINE F == [p \in A \X S |-> update_route(m, ask, rd, p[1], m.routes[p[2]])]
           After(f) == [T \in SUBSET S |->
                          IF T = {} THEN base
                          ELSE update_route(m, ask, rd, f[T \ {last_of(T)}], m.routes[last_of(T)])]
           iter == CHOOSE f : f = After(f)
<1>1. IsFiniteSet(S) /\ Chooses(Last(S), S)
  BY LastChooses
<1>2. base \in A /\ F \in [A \X S -> A]
  BY DEF Goes, Forward
<1>3. PICK f \in [SUBSET S -> A] : Follows(f, F, Last(S), base, S)
  <2> HIDE DEF F
  <2> QED
    BY <1>1, <1>2, StatesExist
<1>4. f = After(f)
  <2>1. ASSUME NEW T \in SUBSET S, T # {}
        PROVE  f[T] = update_route(m, ask, rd, f[T \ {last_of(T)}], m.routes[last_of(T)])
    <3>1. last_of(T) \in S /\ f[T \ {last_of(T)}] \in A
      BY <1>1, <2>1 DEF Chooses, Last
    <3>2. f[T] = F[<<f[T \ {last_of(T)}], last_of(T)>>]
      BY <1>3, <2>1 DEF Follows, Last
    <3> QED
      BY <3>1, <3>2
  <2>2. f[{}] = base
    BY <1>3 DEF Follows
  <2> QED
    BY <2>1, <2>2
<1>5. iter = After(iter)
  BY <1>4
<1>6. EachRoute(m, ask, rd, base, S) = iter[S]
  BY DEF EachRoute, ForEach, MapThenFoldSet
<1> HIDE DEF iter
<1>7. iter[{}] = base
  BY <1>5
<1>8. Passes(iter, Last(S), S, A, R, D)
  <2>1. ASSUME NEW T \in SUBSET S, T # {}, iter[T \ {last_of(T)}] \in A
        PROVE  Goes(iter[T \ {last_of(T)}], iter[T], last_of(T), A, R, D)
    <3>1. last_of(T) \in S
      BY <1>1, <2>1 DEF Chooses, Last
    <3>2. iter[T] = update_route(m, ask, rd, iter[T \ {last_of(T)}], m.routes[last_of(T)])
      BY <1>5, <2>1
    <3> QED
      BY <2>1, <3>1, <3>2
  <2> QED
    BY <2>1 DEF Passes, Last
<1> QED
  BY <1>1, <1>6, <1>7, <1>8, LoopAdvances

EachAddStart(ask, base, S) ==
  ForAny(LAMBDA a, x : add_start(ask, a, x.stop, x.time, x.v), base, S)

LEMMA AddStartLoop ==
  ASSUME NEW ask, NEW base, NEW S, IsFiniteSet(S),
         NEW A, NEW R, NEW D, Forward(S, A, base, R, D),
         \A x \in S : \A a \in A : Goes(a, add_start(ask, a, x.stop, x.time, x.v), x, A, R, D)
  PROVE  Arrives(EachAddStart(ask, base, S), S, base, A, R, D)
<1> DEFINE F == [p \in A \X S |-> add_start(ask, p[1], p[2].stop, p[2].time, p[2].v)]
           After(f) == [T \in SUBSET S |->
                          IF T = {} THEN base
                          ELSE add_start(ask, f[T \ {any_of(T)}], any_of(T).stop, any_of(T).time, any_of(T).v)]
           iter == CHOOSE f : f = After(f)
<1>1. IsFiniteSet(S) /\ Chooses(Any(S), S)
  BY AnyChooses
<1>2. base \in A /\ F \in [A \X S -> A]
  BY DEF Goes, Forward
<1>3. PICK f \in [SUBSET S -> A] : Follows(f, F, Any(S), base, S)
  <2> HIDE DEF F
  <2> QED
    BY <1>1, <1>2, StatesExist
<1>4. f = After(f)
  <2>1. ASSUME NEW T \in SUBSET S, T # {}
        PROVE  f[T] = add_start(ask, f[T \ {any_of(T)}], any_of(T).stop, any_of(T).time, any_of(T).v)
    <3>1. any_of(T) \in S /\ f[T \ {any_of(T)}] \in A
      BY <1>1, <2>1 DEF Chooses, Any
    <3>2. f[T] = F[<<f[T \ {any_of(T)}], any_of(T)>>]
      BY <1>3, <2>1 DEF Follows, Any
    <3> QED
      BY <3>1, <3>2
  <2>2. f[{}] = base
    BY <1>3 DEF Follows
  <2> QED
    BY <2>1, <2>2
<1>5. iter = After(iter)
  BY <1>4
<1>6. EachAddStart(ask, base, S) = iter[S]
  BY DEF EachAddStart, ForAny, MapThenFoldSet
<1> HIDE DEF iter
<1>7. iter[{}] = base
  BY <1>5
<1>8. Passes(iter, Any(S), S, A, R, D)
  <2>1. ASSUME NEW T \in SUBSET S, T # {}, iter[T \ {any_of(T)}] \in A
        PROVE  Goes(iter[T \ {any_of(T)}], iter[T], any_of(T), A, R, D)
    <3>1. any_of(T) \in S
      BY <1>1, <2>1 DEF Chooses, Any
    <3>2. iter[T] = add_start(ask, iter[T \ {any_of(T)}], any_of(T).stop, any_of(T).time, any_of(T).v)
      BY <1>5, <2>1
    <3> QED
      BY <2>1, <3>1, <3>2
  <2> QED
    BY <2>1 DEF Passes, Any
<1> QED
  BY <1>1, <1>6, <1>7, <1>8, LoopAdvances

EachLimit(ask, rd, b, base, S) ==
  ForEach(LAMBDA a, x : update_time_at_dest(ask, a, rd, b[x][Vias(ask)]), base, S)

LEMMA LimitLoop ==
  ASSUME NEW ask, NEW rd, NEW b, NEW base, NEW S, Numbers(S),
         NEW A, NEW R, NEW D, Forward(S, A, base, R, D),
         \A x \in S : \A a \in A : Goes(a, update_time_at_dest(ask, a, rd, b[x][Vias(ask)]), x, A, R, D)
  PROVE  Arrives(EachLimit(ask, rd, b, base, S), S, base, A, R, D)
<1> DEFINE F == [p \in A \X S |-> update_time_at_dest(ask, p[1], rd, b[p[2]][Vias(ask)])]
           After(f) == [T \in SUBSET S |->
                          IF T = {} THEN base
                          ELSE update_time_at_dest(ask, f[T \ {last_of(T)}], rd, b[last_of(T)][Vias(ask)])]
           iter == CHOOSE f : f = After(f)
<1>1. IsFiniteSet(S) /\ Chooses(Last(S), S)
  BY LastChooses
<1>2. base \in A /\ F \in [A \X S -> A]
  BY DEF Goes, Forward
<1>3. PICK f \in [SUBSET S -> A] : Follows(f, F, Last(S), base, S)
  <2> HIDE DEF F
  <2> QED
    BY <1>1, <1>2, StatesExist
<1>4. f = After(f)
  <2>1. ASSUME NEW T \in SUBSET S, T # {}
        PROVE  f[T] = update_time_at_dest(ask, f[T \ {last_of(T)}], rd, b[last_of(T)][Vias(ask)])
    <3>1. last_of(T) \in S /\ f[T \ {last_of(T)}] \in A
      BY <1>1, <2>1 DEF Chooses, Last
    <3>2. f[T] = F[<<f[T \ {last_of(T)}], last_of(T)>>]
      BY <1>3, <2>1 DEF Follows, Last
    <3> QED
      BY <3>1, <3>2
  <2>2. f[{}] = base
    BY <1>3 DEF Follows
  <2> QED
    BY <2>1, <2>2
<1>5. iter = After(iter)
  BY <1>4
<1>6. EachLimit(ask, rd, b, base, S) = iter[S]
  BY DEF EachLimit, ForEach, MapThenFoldSet
<1> HIDE DEF iter
<1>7. iter[{}] = base
  BY <1>5
<1>8. Passes(iter, Last(S), S, A, R, D)
  <2>1. ASSUME NEW T \in SUBSET S, T # {}, iter[T \ {last_of(T)}] \in A
        PROVE  Goes(iter[T \ {last_of(T)}], iter[T], last_of(T), A, R, D)
    <3>1. last_of(T) \in S
      BY <1>1, <2>1 DEF Chooses, Last
    <3>2. iter[T] = update_time_at_dest(ask, iter[T \ {last_of(T)}], rd, b[last_of(T)][Vias(ask)])
      BY <1>5, <2>1
    <3> QED
      BY <2>1, <3>1, <3>2
  <2> QED
    BY <2>1 DEF Passes, Last
<1> QED
  BY <1>1, <1>6, <1>7, <1>8, LoopAdvances

-----------------------------------------------------------------------------
(***************************************************************************)
(* get_earliest_transport: the run it finds can be boarded.                *)
(***************************************************************************)
LEMMA DaysAndMinutes ==
  ASSUME NEW t \in Int
  PROVE  /\ days(t) \in Int /\ mam(t) \in Nat /\ mam(t) < DayLength
         /\ t = days(t) * DayLength + mam(t)
<1> DEFINE d == DayLength
<1>1. d \in Nat /\ d > 0
  BY DayAssumption
<1> HIDE DEF d
<1>2. /\ t \div d \in Int /\ t % d \in Nat /\ t % d < d
      /\ t = d * (t \div d) + (t % d)
  BY <1>1
<1>3. d * (t \div d) = (t \div d) * d
  BY <1>1, <1>2
<1> QED
  BY <1>2, <1>3 DEF d, days, mam

\* Some day later, or earlier, is so at any minute of the day.
LEMMA OtherDays ==
  ASSUME NEW d \in Int, NEW e \in Int, NEW x \in Nat, NEW y \in Nat, NEW len \in Nat,
         x < len, y < len, d < e
  PROVE  d * len + x <= e * len + y
<1>1. e = d + 1 + (e - d - 1) /\ e - d - 1 \in Nat
  OBVIOUS
<1> DEFINE g == e - d - 1
<1>2. g \in Nat /\ e = d + 1 + g
  BY <1>1
<1> HIDE DEF g
<1>3. e * len = d * len + len + g * len
  BY <1>2
<1>4. g * len \in Nat /\ d * len \in Int
  BY <1>2
<1> QED
  BY <1>3, <1>4

\* The first of the transports visited, day by day.
LEMMA FirstVisited ==
  ASSUME NEW T \in SUBSET (Nat \X Nat), T # {}
  PROVE  \E x \in T : \A y \in T : x[1] < y[1] \/ (x[1] = y[1] /\ x[2] <= y[2])
<1> DEFINE Days == {x[1] : x \in T}
<1>1. PICK d \in Days : \A e \in Days : d <= e
  <2>1. Days \in SUBSET Nat /\ Days # {}
    OBVIOUS
  <2> HIDE DEF Days
  <2> QED
    BY <2>1, LeastNumber
<1> DEFINE OnDay == {x \in T : x[1] = d}
           Positions == {x[2] : x \in OnDay}
<1>2. PICK i \in Positions : \A j \in Positions : i <= j
  <2>1. Positions \in SUBSET Nat /\ Positions # {}
    OBVIOUS
  <2> HIDE DEF Positions
  <2> QED
    BY <2>1, LeastNumber
<1>3. PICK x \in T : x[1] = d /\ x[2] = i
  BY <1>2
<1>4. ASSUME NEW y \in T PROVE x[1] < y[1] \/ (x[1] = y[1] /\ x[2] <= y[2])
  <2>1. y[1] \in Days /\ x[1] <= y[1] /\ x[1] \in Nat /\ y[1] \in Nat
    BY <1>1, <1>3
  <2>2. CASE y[1] = d
    <3>1. y[2] \in Positions
      BY <2>2
    <3> QED
      BY <1>2, <1>3, <2>2, <3>1
  <2>3. CASE y[1] # d
    BY <1>3, <2>1, <2>3
  <2> QED
    BY <2>2, <2>3
<1> QED
  BY <1>4

IsTimed(r, e) == Len(r.times) \in Nat /\ \A i \in 1..Len(r.times) : r.times[i][e] \in Int

IsEarliest(ask, r, e, time, ride) ==
  \E lb, limit : ride = get_earliest_transport(ask.dir, r, e, time, lb, limit)

IsBoarded(ask, r, e, time, ride) ==
  /\ ride.pos \in 1..Len(r.times) /\ ride.day \in r.days[ride.pos] /\ ride.day \in Int
  /\ ride = [pos |-> ride.pos, day |-> ride.day]
  /\ better_or_eq(ask, time, EventTime(r, ride.pos, ride.day, e))

LEMMA EarliestBoards ==
  ASSUME NEW ask, ask.dir \in {1, -1}, NEW r, NEW e, IsTimed(r, e), NEW time, time \in Int,
         NEW ride, IsEarliest(ask, r, e, time, ride), ride # NoTransport
  PROVE  IsBoarded(ask, r, e, time, ride)
<1>15. PICK lb, limit : ride = get_earliest_transport(ask.dir, r, e, time, lb, limit)
  BY DEF IsEarliest
<1> DEFINE dir == ask.dir
           Day(x) == days(time) + dir * x[1]
           Event(x) == r.times[VisitedAs(dir, r, x[2])][e]
           StartDay(x) == Day(x) - days(Event(x))
           first == seek_first_day(dir, r, e, time)
           All == (0..MaxTravelDays) \X (1..Len(r.times))
           Visited == {x \in (0..MaxTravelDays) \X (1..Len(r.times)) :
                         Day(x) \in r.route_days /\ (x[1] = 0 => x[2] >= first)}
           BeyondLimit(x) ==
             ~is_better_or_eq(dir, Day(x) * DayLength + mam(Event(x)) + dir * lb, limit)
           Boardable(x) ==
             /\ x[1] = 0 => is_better_or_eq(dir, mam(time), mam(Event(x)))
             /\ StartDay(x) \in r.days[VisitedAs(dir, r, x[2])]
           Stopping == {x \in Visited : BeyondLimit(x) \/ Boardable(x)}
           Before(x, y) == x[1] < y[1] \/ (x[1] = y[1] /\ x[2] <= y[2])
           end == CHOOSE x \in Stopping : \A y \in Stopping : Before(x, y)
<1>0. Len(r.times) \in Nat /\ \A j \in 1..Len(r.times) : r.times[j][e] \in Int
  BY DEF IsTimed
<1>1. ride = IF Stopping = {} \/ BeyondLimit(end) THEN NoTransport
             ELSE [pos |-> VisitedAs(dir, r, end[2]), day |-> StartDay(end)]
  BY <1>15, Zenon DEF get_earliest_transport
<1>2. Stopping # {} /\ ~BeyondLimit(end)
      /\ ride = [pos |-> VisitedAs(dir, r, end[2]), day |-> StartDay(end)]
  <2> HIDE DEF Stopping, BeyondLimit, end, StartDay
  <2> QED
    BY <1>1
<1>3. end \in Stopping
  <2>1. Stopping \in SUBSET (Nat \X Nat)
    <3>1. 0..MaxTravelDays \subseteq Nat /\ 1..Len(r.times) \subseteq Nat
      BY <1>0, DayAssumption
    <3>2. All \in SUBSET (Nat \X Nat)
      BY <3>1
    <3>3. Visited \subseteq All /\ Stopping \subseteq Visited
      BY Zenon
    <3> HIDE DEF Stopping, Visited, All
    <3> QED
      BY <3>2, <3>3
  <2> HIDE DEF Stopping
  <2>2. \E x \in Stopping : \A y \in Stopping : Before(x, y)
    BY <1>2, <2>1, FirstVisited, Zenon
  <2> QED
    BY <2>2
<1>4. Boardable(end) /\ end \in All
  <2>1. end \in Visited /\ (BeyondLimit(end) \/ Boardable(end))
    <3> HIDE DEF Visited, Boardable, BeyondLimit, end
    <3> QED
      BY <1>3
  <2>2. Visited \subseteq All
    OBVIOUS
  <2> HIDE DEF Visited, All, Boardable, BeyondLimit, end
  <2> QED
    BY <1>2, <2>1, <2>2
<1> DEFINE i == VisitedAs(dir, r, end[2])
           ev == r.times[i][e]
           x1 == end[1]
           d == days(time)
           len == DayLength
<1>5. x1 \in Nat /\ i \in 1..Len(r.times) /\ dir \in {1, -1}
  <2>1. end[1] \in Nat /\ end[2] \in 1..Len(r.times)
    <3> HIDE DEF end
    <3> QED
      BY <1>4, DayAssumption
  <2> HIDE DEF end
  <2> QED
    BY <1>0, <2>1 DEF VisitedAs
<1>6. /\ x1 = 0 => is_better_or_eq(dir, mam(time), mam(ev))
      /\ ride.pos = i /\ ride.day = (d + dir * x1) - days(ev) /\ ride.day \in r.days[i]
      /\ ride = [pos |-> ride.pos, day |-> ride.day]
  <2> DEFINE day == StartDay(end)
  <2>1. ride = [pos |-> i, day |-> day]
    BY <1>2, Zenon
  <2>2. day = (d + dir * x1) - days(ev)
    BY Zenon
  <2>3. (x1 = 0 => is_better_or_eq(dir, mam(time), mam(ev))) /\ day \in r.days[i]
    BY <1>4, Zenon
  <2> HIDE DEF day, i, ev, x1, d, end
  <2> QED
    BY <2>1, <2>2, <2>3, Zenon
<1>7. ev \in Int /\ time \in Int
  BY <1>5, <1>0
<1> HIDE DEF x1, i, ev, end, Stopping, BeyondLimit, Boardable, d, len, dir
<1>8. /\ len \in Nat /\ d \in Int /\ mam(time) \in Nat /\ mam(time) < len
      /\ days(ev) \in Int /\ mam(ev) \in Nat /\ mam(ev) < len
      /\ time = d * len + mam(time) /\ ev = days(ev) * len + mam(ev)
  BY <1>7, DaysAndMinutes, DayAssumption DEF d, len
<1> DEFINE D == d + dir * x1
<1>9. D \in Int /\ (x1 = 0 => D = d) /\ (x1 # 0 => (dir = 1 => d < D) /\ (dir = -1 => D < d))
  BY <1>5, <1>8
<1>10. EventTime(r, ride.pos, ride.day, e) = D * len + mam(ev)
  <2>1. ride.day = D - days(ev)
    BY <1>6
  <2>2. EventTime(r, ride.pos, ride.day, e) = (D - days(ev)) * len + ev
    BY <1>6, <2>1 DEF EventTime, ev, len
  <2> HIDE DEF D
  <2>3. (D - days(ev)) * len = D * len - days(ev) * len
    BY <1>8, <1>9
  <2> DEFINE a == D * len
             b == days(ev) * len
  <2>4. a \in Int /\ b \in Int /\ ev = b + mam(ev) /\ (D - days(ev)) * len = a - b
    BY <1>8, <1>9, <2>3
  <2> HIDE DEF a, b
  <2>5. EventTime(r, ride.pos, ride.day, e) = a + mam(ev)
    BY <1>7, <1>8, <2>2, <2>4
  <2> QED
    BY <2>5 DEF a
<1>11. ride.day \in Int
  <2>1. ride.day = D - days(ev)
    BY <1>6
  <2> QED
    BY <1>8, <1>9, <2>1
<1> HIDE DEF D
<1> DEFINE a == D * len
           b == d * len
<1>12. a \in Int /\ b \in Int
  BY <1>8, <1>9
<1>13. dir * time <= dir * (a + mam(ev))
  <2>1. CASE x1 = 0
    <3>1. a = b /\ time = b + mam(time) /\ dir * mam(time) <= dir * mam(ev)
      BY <1>6, <1>8, <1>9, <2>1 DEF is_better_or_eq
    <3> HIDE DEF a, b
    <3>2. CASE dir = 1
      BY <1>8, <1>12, <3>1, <3>2
    <3>3. CASE dir = -1
      BY <1>8, <1>12, <3>1, <3>3
    <3> QED
      BY <1>5, <3>2, <3>3
  <2>2. CASE x1 # 0 /\ dir = 1
    <3>1. b + mam(time) <= a + mam(ev)
      BY <1>8, <1>9, <2>2, OtherDays
    <3>2. time = b + mam(time)
      BY <1>8
    <3> HIDE DEF a, b
    <3> QED
      BY <1>7, <1>8, <1>12, <2>2, <3>1, <3>2
  <2>3. CASE x1 # 0 /\ dir = -1
    <3>1. a + mam(ev) <= b + mam(time)
      BY <1>8, <1>9, <2>3, OtherDays
    <3>2. time = b + mam(time)
      BY <1>8
    <3> HIDE DEF a, b
    <3> QED
      BY <1>7, <1>8, <1>12, <2>3, <3>1, <3>2
  <2> QED
    BY <1>5, <2>1, <2>2, <2>3
<1>14. better_or_eq(ask, time, EventTime(r, ride.pos, ride.day, e))
  BY <1>10, <1>13 DEF better_or_eq, is_better_or_eq, dir
<1> QED
  BY <1>5, <1>6, <1>11, <1>14 DEF IsBoarded


-----------------------------------------------------------------------------
(***************************************************************************)
(* The states the rides of round rd come to, from the state base: only     *)
(* arrivals are added, of rides from labels of the round before.           *)
(***************************************************************************)
RideBase(m, ask, rd, base) ==
  /\ IsNetwork(m) /\ IsQuery(m, ask) /\ rd \in Rounds \ {0} /\ base \in States(m, ask)

\* Each arrival is an earlier one, or that of a ride of this round.
HasLanded(m, ask, rd, base, st) ==
  \A l \in AllLocations(m), v \in ViaCounts(ask) :
    \/ st.tmp[l][v] \in {kInvalid(ask), base.tmp[l][v]}
    \/ <<l, v, st.tmp[l][v]>> \in Arrivals(m, ask, base.round_times, rd - 1)

RideStates(m, ask, rd, base) ==
  {st \in States(m, ask) :
     /\ st.round_times = base.round_times /\ st.best = base.best
     /\ st.time_at_dest = base.time_at_dest /\ st.prev_station_mark = base.prev_station_mark
     /\ ArrivalsAre(m, ask, st, rd, st.station_mark) /\ HasLanded(m, ask, rd, base, st)}

Lands(m, ask, rd, base, l, v, t) ==
  /\ l \in AllLocations(m) /\ v \in ViaCounts(ask) /\ t \in LabelTimes(ask)
  /\ t = kInvalid(ask) \/ <<l, v, t>> \in Arrivals(m, ask, base.round_times, rd - 1)

LEMMA AlightStep ==
  ASSUME NEW m, NEW ask, NEW rd, NEW base, RideBase(m, ask, rd, base),
         NEW a \in RideStates(m, ask, rd, base), NEW l, NEW v, NEW t,
         Lands(m, ask, rd, base, l, v, t), NEW b, b = Alight(m, ask, a, rd, l, v, t)
  PROVE  b \in RideStates(m, ask, rd, base)
<1> DEFINE u == best_of(ask, t, a.tmp[l][v])
           tmp2 == [a.tmp EXCEPT ![l][v] = u]
           marks2 == a.station_mark \cup {l}
           c == [a EXCEPT !.tmp = tmp2, !.station_mark = marks2]
<1>1. /\ a \in States(m, ask) /\ ask.dir \in {1, -1} /\ l \in Nodes(m) /\ l \in AllLocations(m)
      /\ v \in ViaCounts(ask) /\ t \in LabelTimes(ask) /\ t \in Int
  BY DEF RideBase, IsQuery, RideStates, Lands, Nodes, LabelTimes
<1>2. b \in {a, c}
  <2>1. b \in {a, [a EXCEPT !.tmp[l][v] = best_of(ask, t, @), !.station_mark = @ \cup {l}]}
    BY DEF Alight
  <2>2. [a EXCEPT !.tmp[l][v] = best_of(ask, t, @), !.station_mark = @ \cup {l}] = c
    BY <1>1 DEF States, Labels
  <2> QED
    BY <2>1, <2>2
<1>3. u \in LabelTimes(ask) /\ u \in {t, a.tmp[l][v]}
  <2>1. a.tmp[l][v] \in LabelTimes(ask) /\ a.tmp[l][v] \in Int
    BY <1>1, StateFacts
  <2> QED
    BY <1>1, <2>1, BestOf
<1>4. /\ tmp2 \in Labels(m, ask)
      /\ \A x \in Nodes(m), y \in ViaCounts(ask) :
           tmp2[x][y] = IF x = l /\ y = v THEN u ELSE a.tmp[x][y]
  <2>1. a.tmp \in Labels(m, ask)
    BY <1>1 DEF States
  <2> HIDE DEF u
  <2> QED
    BY <1>1, <1>3, <2>1 DEF Labels
<1>5. marks2 \in SUBSET AllLocations(m)
  BY <1>1 DEF States
<1> HIDE DEF u, tmp2, marks2
<1>6. /\ c \in States(m, ask) /\ c.tmp = tmp2 /\ c.station_mark = marks2
      /\ c.round_times = a.round_times /\ c.best = a.best /\ c.time_at_dest = a.time_at_dest
      /\ c.prev_station_mark = a.prev_station_mark
  BY <1>1, <1>4, <1>5 DEF States
<1> HIDE DEF c
<1>7. ArrivalsAre(m, ask, c, rd, c.station_mark)
  <2> SUFFICES ASSUME NEW x \in AllLocations(m), NEW y \in ViaCounts(ask)
               PROVE  \/ tmp2[x][y] = kInvalid(ask)
                      \/ Settled(m, ask, a.round_times, rd - 1, x, y, tmp2[x][y])
                      \/ /\ x \in marks2
                         /\ <<x, y, tmp2[x][y]>> \in Arrivals(m, ask, a.round_times, rd - 1)
    BY <1>6 DEF ArrivalsAre
  <2>1. x \in Nodes(m)
    BY DEF Nodes
  <2>2. CASE tmp2[x][y] = a.tmp[x][y]
    BY <2>2 DEF RideStates, ArrivalsAre, marks2
  <2>3. CASE tmp2[x][y] # a.tmp[x][y]
    <3>1. x = l /\ y = v /\ tmp2[x][y] = t
      BY <1>3, <1>4, <2>1, <2>3
    <3>2. a.round_times = base.round_times
      BY DEF RideStates
    <3> QED
      BY <3>1, <3>2 DEF Lands, marks2
  <2> QED
    BY <2>2, <2>3
<1>8. HasLanded(m, ask, rd, base, c)
  <2> SUFFICES ASSUME NEW x \in AllLocations(m), NEW y \in ViaCounts(ask)
               PROVE  \/ tmp2[x][y] \in {kInvalid(ask), base.tmp[x][y]}
                      \/ <<x, y, tmp2[x][y]>> \in Arrivals(m, ask, base.round_times, rd - 1)
    BY <1>6 DEF HasLanded
  <2>1. x \in Nodes(m)
    BY DEF Nodes
  <2>2. CASE tmp2[x][y] = a.tmp[x][y]
    BY <2>2 DEF RideStates, HasLanded
  <2>3. CASE tmp2[x][y] # a.tmp[x][y]
    <3>1. x = l /\ y = v /\ tmp2[x][y] = t
      BY <1>3, <1>4, <2>1, <2>3
    <3> QED
      BY <3>1 DEF Lands
  <2> QED
    BY <2>2, <2>3
<1>9. c \in RideStates(m, ask, rd, base)
  BY <1>6, <1>7, <1>8 DEF RideStates
<1> QED
  BY <1>2, <1>9

(***************************************************************************)
(* A loop that only keeps its state in A.                                  *)
(***************************************************************************)
LEMMA StaysIn ==
  ASSUME NEW S, NEW A, NEW base \in A
  PROVE  /\ Forward(S, A, base, A \X A, S \X A)
         /\ \A x \in S : \A a \in A, b \in A : Goes(a, b, x, A, A \X A, S \X A)
         /\ \A b : Arrives(b, S, base, A, A \X A, S \X A) => b \in A
BY DEF Forward, Goes, Arrives

LEMMA AlightFromAll ==
  ASSUME NEW m, NEW ask, NEW rd, NEW base, RideBase(m, ask, rd, base), NEW r, NEW i, NEW et,
         NEW a \in RideStates(m, ask, rd, base), NEW S, IsFiniteSet(S),
         \A x \in S : Lands(m, ask, rd, base, r.stops[StopIdx(ask, r, i)].loc, x[1] + x[2],
                            RideTime(r, et[x], AlightEvent(ask, r, i)))
  PROVE  EachAlightFrom(m, ask, rd, r, i, et, a, S) \in RideStates(m, ask, rd, base)
<1> DEFINE A == RideStates(m, ask, rd, base)
<1>1. \A x \in S : \A st \in A : AlightFrom(m, ask, rd, r, i, et, st, x) \in A
  BY AlightStep DEF AlightFrom
<1> HIDE DEF A
<1>2. /\ a \in A /\ Forward(S, A, a, A \X A, S \X A)
      /\ \A x \in S : \A b1 \in A, b2 \in A : Goes(b1, b2, x, A, A \X A, S \X A)
  BY StaysIn DEF A
<1>3. Arrives(EachAlightFrom(m, ask, rd, r, i, et, a, S), S, a, A, A \X A, S \X A)
  BY <1>1, <1>2, AlightFromLoop
<1> QED
  BY <1>2, <1>3, StaysIn DEF A

LEMMA AlightFromRtAll ==
  ASSUME NEW m, NEW ask, NEW rd, NEW base, RideBase(m, ask, rd, base), NEW r, NEW i,
         NEW a \in RideStates(m, ask, rd, base), NEW S, Numbers(S),
         \A v \in S : Lands(m, ask, rd, base, r.stops[StopIdx(ask, r, i)].loc, v,
                            clamp(r.times[AlightEvent(ask, r, i)]))
  PROVE  EachAlightFromRt(m, ask, rd, r, i, a, S) \in RideStates(m, ask, rd, base)
<1> DEFINE A == RideStates(m, ask, rd, base)
<1>1. \A x \in S : \A st \in A : AlightFromRt(m, ask, rd, r, i, st, x) \in A
  BY AlightStep DEF AlightFromRt
<1> HIDE DEF A
<1>2. /\ a \in A /\ Forward(S, A, a, A \X A, S \X A)
      /\ \A x \in S : \A b1 \in A, b2 \in A : Goes(b1, b2, x, A, A \X A, S \X A)
  BY StaysIn DEF A
<1>3. Arrives(EachAlightFromRt(m, ask, rd, r, i, a, S), S, a, A, A \X A, S \X A)
  BY <1>1, <1>2, AlightFromRtLoop
<1> QED
  BY <1>2, <1>3, StaysIn DEF A

-----------------------------------------------------------------------------
(***************************************************************************)
(* Vias that are passed: each stop moves a ride up by at most one.         *)
(***************************************************************************)
LEMMA MoreVias ==
  ASSUME NEW m, NEW ask, IsQuery(m, ask), NEW r, NEW j \in Nat, NEW i \in Nat, j < i,
         NEW v \in ViaCounts(ask), NEW w \in AfterRide(ask, r, j, i - 1, v)
  PROVE  /\ w \in ViaCounts(ask) /\ w \in AfterRide(ask, r, j, i, v)
         /\ IsPassedVia(ask, r.stops[StopIdx(ask, r, i)].loc, w)
              => w + 1 \in ViaCounts(ask) /\ w + 1 \in AfterRide(ask, r, j, i, v)
<1> DEFINE Here(x, y) == IsPassedVia(ask, r.stops[StopIdx(ask, r, x)].loc, y)
<1>1. Vias(ask) \in Nat /\ Vias(ask) <= 2 /\ v \in 0..Vias(ask)
  BY QueryFacts DEF ViaCounts
<1>2. \A x, y : Here(x, y) => y < Vias(ask)
  BY DEF IsPassedVia, IsNextVia
<1>3. \A h \in Nat : \A y :
        y \in AfterRide(ask, r, j, h, v) <=>
          \/ y = v
          \/ y = v + 1 /\ \E x \in j + 1..h : Here(x, v)
          \/ y = v + 2 /\ \E x1 \in j + 1..h : \E x2 \in j + 1..h :
                            x1 < x2 /\ Here(x1, v) /\ Here(x2, v + 1)
  <2> TAKE h \in Nat
  <2> TAKE y
  <2> DEFINE I == j + 1..h
             Once == {x \in I : Here(x, v)}
             Twice == {x \in I \X I : x[1] < x[2] /\ Here(x[1], v) /\ Here(x[2], v + 1)}
  <2>1. AfterRide(ask, r, j, h, v) = {v} \cup {v + 1 : x \in Once} \cup {v + 2 : x \in Twice}
    BY DEF AfterRide
  <2>2. y \in {v + 1 : x \in Once} <=> y = v + 1 /\ \E x \in I : Here(x, v)
    <3> HIDE DEF I, Here
    <3> QED
      OBVIOUS
  <2>3. y \in {v + 2 : x \in Twice}
          <=> y = v + 2 /\ \E x1 \in I : \E x2 \in I : x1 < x2 /\ Here(x1, v) /\ Here(x2, v + 1)
    <3> HIDE DEF I, Here
    <3>1. ASSUME NEW x1 \in I, NEW x2 \in I, x1 < x2, Here(x1, v), Here(x2, v + 1)
          PROVE  <<x1, x2>> \in Twice
      BY <3>1
    <3>2. ASSUME NEW x \in Twice
          PROVE  x[1] \in I /\ x[2] \in I /\ x[1] < x[2] /\ Here(x[1], v) /\ Here(x[2], v + 1)
      OBVIOUS
    <3> HIDE DEF Twice
    <3> QED
      BY <3>1, <3>2
  <2> HIDE DEF Once, Twice, Here
  <2> QED
    BY <2>1, <2>2, <2>3
<1> HIDE DEF Here
<1>4. /\ i - 1 \in Nat /\ i \in j + 1..i /\ \A x \in j + 1..i - 1 : x \in j + 1..i /\ x < i
  OBVIOUS
<1>5. CASE w = v
  BY <1>1, <1>2, <1>3, <1>4, <1>5 DEF Here, ViaCounts
<1>6. CASE w = v + 1 /\ \E x \in j + 1..i - 1 : Here(x, v)
  <2>1. PICK x \in j + 1..i - 1 : Here(x, v)
    BY <1>6
  <2>2. w \in ViaCounts(ask) /\ w \in AfterRide(ask, r, j, i, v)
    BY <1>1, <1>2, <1>3, <1>4, <1>6, <2>1 DEF ViaCounts
  <2>3. ASSUME Here(i, w)
        PROVE  w + 1 \in ViaCounts(ask) /\ w + 1 \in AfterRide(ask, r, j, i, v)
    <3>1. w + 1 = v + 2 /\ w + 1 \in 0..Vias(ask)
      BY <1>1, <1>2, <1>6, <2>3
    <3>2. x < i /\ x \in j + 1..i /\ Here(x, v) /\ Here(i, v + 1)
      BY <1>4, <1>6, <2>1, <2>3
    <3> QED
      BY <1>3, <1>4, <3>1, <3>2 DEF ViaCounts
  <2> QED
    BY <2>2, <2>3 DEF Here
<1>7. CASE w = v + 2 /\ \E x1 \in j + 1..i - 1 : \E x2 \in j + 1..i - 1 :
                            x1 < x2 /\ Here(x1, v) /\ Here(x2, v + 1)
  <2>1. w \in AfterRide(ask, r, j, i, v)
    BY <1>3, <1>4, <1>7
  <2>2. w \in 0..Vias(ask) /\ ~(w < Vias(ask))
    BY <1>1, <1>2, <1>7
  <2> QED
    BY <1>2, <2>1, <2>2 DEF Here, ViaCounts
<1> QED
  BY <1>3, <1>4, <1>5, <1>6, <1>7

LEMMA NoMoreVias ==
  ASSUME NEW ask, NEW r, NEW i, NEW v
  PROVE  v \in AfterRide(ask, r, i, i, v)
<1>1. \A B, C : v \in ({v} \cup B) \cup C
  OBVIOUS
<1> QED
  BY <1>1, Zenon DEF AfterRide

(***************************************************************************)
(* PassVias moves each ride up by at most one.                             *)
(***************************************************************************)
MovedUp(ask, l, rides, et, y) ==
  \/ et[y] \in {NoTransport, rides[y]}
  \/ /\ y[2] > 0 /\ IsPassedVia(ask, l, y[1] + (y[2] - 1))
     /\ et[y] = rides[<<y[1], y[2] - 1>>]

\* Only the ride with the key <<e, p>> has been moved.
MovedOne(ask, l, e, p, et, b) ==
  /\ \A y \in RideKeys(ask) : y # <<e, p>> /\ y # <<e, p + 1>> => b[y] = et[y]
  /\ b[<<e, p>>] \in {NoTransport, et[<<e, p>>]}
  /\ \/ b[<<e, p + 1>>] = et[<<e, p + 1>>]
     \/ b[<<e, p + 1>>] = et[<<e, p>>] /\ IsPassedVia(ask, l, e + p)

LEMMA RideKeyFacts ==
  ASSUME NEW m, NEW ask, IsQuery(m, ask)
  PROVE  /\ IsFiniteSet(RideKeys(ask))
         /\ \A y \in RideKeys(ask) :
              /\ y = <<y[1], y[2]>> /\ y[1] \in 0..Vias(ask) /\ y[2] \in 0..Vias(ask)
              /\ y[1] \in ViaCounts(ask) /\ y[1] + y[2] \in ViaCounts(ask)
<1>1. Vias(ask) \in Nat /\ IsFiniteSet(ViaCounts(ask))
  BY QueryFacts
<1>2. IsFiniteSet(RideKeys(ask))
  <2>1. IsFiniteSet(ViaCounts(ask) \X ViaCounts(ask))
    BY <1>1, FS_Product
  <2>2. RideKeys(ask) \subseteq ViaCounts(ask) \X ViaCounts(ask)
    BY DEF RideKeys
  <2> QED
    BY <2>1, <2>2, FS_Subset
<1>3. ASSUME NEW y \in RideKeys(ask)
      PROVE  /\ y = <<y[1], y[2]>> /\ y[1] \in 0..Vias(ask) /\ y[2] \in 0..Vias(ask)
             /\ y[1] \in ViaCounts(ask) /\ y[1] + y[2] \in ViaCounts(ask)
  <2>1. y \in ViaCounts(ask) \X ViaCounts(ask) /\ y[1] + y[2] <= Vias(ask)
    BY DEF RideKeys
  <2>2. y = <<y[1], y[2]>> /\ y[1] \in 0..Vias(ask) /\ y[2] \in 0..Vias(ask)
    BY <2>1 DEF ViaCounts
  <2> QED
    BY <1>1, <2>1, <2>2 DEF ViaCounts
<1> QED
  BY <1>2, <1>3

LEMMA RideKeyAt ==
  ASSUME NEW m, NEW ask, IsQuery(m, ask), NEW e \in Nat, NEW p \in Nat, e + p <= Vias(ask)
  PROVE  <<e, p>> \in RideKeys(ask)
<1>1. Vias(ask) \in Nat
  BY QueryFacts
<1> QED
  BY <1>1 DEF RideKeys, ViaCounts

\* One ride is moved, from a key to the next.
LEMMA PassViaStep ==
  ASSUME NEW m, NEW ask, IsQuery(m, ask), NEW r, NEW l, NEW event, NEW e \in 0..Vias(ask) - 1,
         NEW x \in 1..Vias(ask) - e, NEW T, NoTransport \in T, NEW et \in [RideKeys(ask) -> T],
         NEW p, p = Vias(ask) - e - x, NEW b, b = PassVia(ask, r, l, event, e, et, x)
  PROVE  b \in [RideKeys(ask) -> T] /\ MovedOne(ask, l, e, p, et, b)
<1>1. /\ Vias(ask) \in Nat /\ p \in Nat /\ e \in Nat /\ x \in Nat
      /\ e + p = Vias(ask) - x /\ e + p <= Vias(ask) - 1 /\ Vias(ask) - e - (x - 1) = p + 1
  BY QueryFacts
<1> DEFINE from == <<e, p>>
           to == <<e, p + 1>>
           put == IF \/ et[to] = NoTransport
                     \/ better(ask, RideTime(r, et[from], event), RideTime(r, et[to], event))
                  THEN et[from] ELSE et[to]
           c == [et EXCEPT ![from] = NoTransport, ![to] = put]
<1>2. from \in RideKeys(ask) /\ to \in RideKeys(ask) /\ from # to
  BY <1>1 DEF RideKeys, ViaCounts
<1>3. RideKey(ask, e, x) = from /\ RideKey(ask, e, x - 1) = to
  BY <1>1 DEF RideKey
<1>4. b = IF et[from] = NoTransport \/ ~IsPassedVia(ask, l, e + p) THEN et ELSE c
  BY <1>1, <1>3 DEF PassVia
<1>5. put \in {et[from], et[to]}
  OBVIOUS
<1> HIDE DEF put, from, to
<1>6. /\ c \in [RideKeys(ask) -> T]
      /\ \A y \in RideKeys(ask) : c[y] = IF y = to THEN put ELSE IF y = from THEN NoTransport ELSE et[y]
  BY <1>2, <1>5
<1> HIDE DEF c
<1>7. /\ b \in [RideKeys(ask) -> T]
      /\ \A y \in RideKeys(ask) : y # from /\ y # to => b[y] = et[y]
      /\ b[from] \in {NoTransport, et[from]}
      /\ b[to] = et[to] \/ (b[to] = et[from] /\ IsPassedVia(ask, l, e + p))
  BY <1>2, <1>4, <1>5, <1>6
<1> QED
  BY <1>1, <1>2, <1>7 DEF from, to, MovedOne

LEMMA PassViasFromStep ==
  ASSUME NEW m, NEW ask, IsQuery(m, ask), NEW r, NEW l, NEW event, NEW e \in 0..Vias(ask) - 1,
         NEW T, NoTransport \in T, NEW et \in [RideKeys(ask) -> T],
         NEW b, b = PassViasFrom(ask, r, l, event, et, e)
  PROVE  /\ b \in [RideKeys(ask) -> T]
         /\ \A y \in RideKeys(ask) :
              MovedUp(ask, l, et, b, y) /\ (y[1] # e => b[y] = et[y])
<1> DEFINE A == [RideKeys(ask) -> T]
           hi == Vias(ask) - e
           Good(i, a) ==
             \A y \in RideKeys(ask) :
               /\ MovedUp(ask, l, et, a, y)
               /\ y[1] # e \/ y[2] < hi - i => a[y] = et[y]
           J == {c \in Int \X A : Good(c[1], c[2])}
<1>1. Vias(ask) \in Nat /\ e \in Nat /\ hi \in Nat /\ 1 <= hi + 1
  BY QueryFacts
<1>2. \A i, a : <<i, a>> \in J <=> i \in Int /\ a \in A /\ Good(i, a)
  OBVIOUS
<1>3. <<1 - 1, et>> \in J
  <2>1. Good(0, et)
    BY DEF MovedUp
  <2> HIDE DEF Good, J, A
  <2> QED
    BY <1>2, <2>1 DEF A
<1>4. ASSUME NEW i \in 1..hi, NEW a, <<i - 1, a>> \in J
      PROVE  <<i, PassVia(ask, r, l, event, e, a, i)>> \in J
  <2> DEFINE p == hi - i
             b2 == PassVia(ask, r, l, event, e, a, i)
             from == <<e, p>>
             to == <<e, p + 1>>
  <2>1. a \in A /\ Good(i - 1, a)
    BY <1>2, <1>4
  <2>2. p = Vias(ask) - e - i /\ i \in 1..Vias(ask) - e /\ p \in Nat /\ i \in Int
    BY <1>1
  <2> HIDE DEF J, Good, b2, p, hi
  <2>3. /\ from \in RideKeys(ask) /\ to \in RideKeys(ask)
        /\ b2 \in A
        /\ \A y \in RideKeys(ask) : y # from /\ y # to => b2[y] = a[y]
        /\ b2[from] \in {NoTransport, a[from]}
        /\ b2[to] = a[to] \/ (b2[to] = a[from] /\ IsPassedVia(ask, l, e + p))
    <3>1. b2 \in [RideKeys(ask) -> T] /\ MovedOne(ask, l, e, p, a, b2)
      <4>1. b2 = PassVia(ask, r, l, event, e, a, i)
        BY DEF b2
      <4> QED
        BY <2>1, <2>2, <4>1, PassViaStep
    <3>2. e \in Nat /\ p \in Nat /\ p + 1 \in Nat /\ e + p <= Vias(ask) /\ e + (p + 1) <= Vias(ask)
      BY <1>1, <2>2
    <3>3. <<e, p>> \in RideKeys(ask)
      BY <3>2, RideKeyAt
    <3>4. <<e, p + 1>> \in RideKeys(ask)
      BY <3>2, RideKeyAt
    <3> QED
      BY <3>1, <3>3, <3>4 DEF MovedOne
  <2>4. a[from] = et[from]
    <3>1. from \in RideKeys(ask) /\ from[1] = e /\ from[2] = p
      BY <2>3
    <3>2. p < hi - (i - 1)
      BY <1>1, <2>2 DEF p
    <3> HIDE DEF from
    <3> QED
      BY <2>1, <3>1, <3>2 DEF Good
  <2>5. ASSUME NEW y \in RideKeys(ask)
        PROVE  /\ MovedUp(ask, l, et, b2, y)
               /\ y[1] # e \/ y[2] < hi - i => b2[y] = et[y]
    <3>1. /\ y = <<y[1], y[2]>> /\ y[1] \in Int /\ y[2] \in Int
          /\ MovedUp(ask, l, et, a, y)
          /\ (y[1] # e \/ y[2] < hi - (i - 1)) => a[y] = et[y]
      <4>1. y = <<y[1], y[2]>> /\ y[1] \in Int /\ y[2] \in Int
        BY <1>1, RideKeyFacts
      <4>2. /\ MovedUp(ask, l, et, a, y)
            /\ (y[1] # e \/ y[2] < hi - (i - 1)) => a[y] = et[y]
        BY <2>1 DEF Good
      <4> QED
        BY <4>1, <4>2
    <3>2. CASE y = from
      <4>1. b2[y] \in {NoTransport, et[y]} /\ ~(y[1] # e \/ y[2] < hi - i)
        BY <2>2, <2>3, <2>4, <3>2 DEF p
      <4> QED
        BY <4>1 DEF MovedUp
    <3>3. CASE y = to
      <4>1. ~(y[1] # e \/ y[2] < hi - i)
        BY <1>1, <2>2, <3>3 DEF p
      <4>2. CASE b2[y] = a[y]
        BY <3>1, <4>1, <4>2 DEF MovedUp
      <4>3. CASE b2[y] = a[from] /\ IsPassedVia(ask, l, e + p)
        <5>1. y[1] = e /\ y[2] = p + 1 /\ y[2] > 0 /\ y[2] - 1 = p
          BY <2>2, <3>3
        <5> QED
          BY <2>4, <4>1, <4>3, <5>1 DEF MovedUp
      <4> QED
        BY <2>3, <3>3, <4>2, <4>3
    <3>4. CASE y # from /\ y # to
      <4>1. b2[y] = a[y]
        BY <2>3, <3>4
      <4>2. y[1] # e \/ y[2] < hi - i => y[1] # e \/ y[2] < hi - (i - 1)
        BY <1>1, <3>1
      <4> QED
        BY <3>1, <4>1, <4>2 DEF MovedUp
    <3> QED
      BY <3>2, <3>3, <3>4
  <2>6. Good(i, b2)
    BY <2>5 DEF Good
  <2>7. <<i, b2>> \in J
    BY <1>2, <2>2, <2>3, <2>6
  <2> QED
    BY <2>7 DEF b2
<1> HIDE DEF J
<1>5. <<hi, EachPassVia(ask, r, l, event, e, et, 1..hi)>> \in J
  <2> HIDE DEF hi
  <2> QED
    BY <1>1, <1>3, <1>4, PassViaUpTo
<1>6. b = EachPassVia(ask, r, l, event, e, et, 1..hi)
  BY DEF PassViasFrom, EachPassVia
<1>7. b \in A /\ Good(hi, b)
  BY <1>2, <1>5, <1>6
<1> QED
  BY <1>7

LEMMA PassViasStep ==
  ASSUME NEW m, NEW ask, IsQuery(m, ask), NEW r, NEW l, NEW event,
         NEW T, NoTransport \in T, NEW et \in [RideKeys(ask) -> T],
         NEW b, b = PassVias(ask, r, l, et, event)
  PROVE  /\ b \in [RideKeys(ask) -> T]
         /\ \A y \in RideKeys(ask) : MovedUp(ask, l, et, b, y)
<1> DEFINE A == [RideKeys(ask) -> T]
           hi == Vias(ask) - 1
           Good(i, a) ==
             \A y \in RideKeys(ask) :
               MovedUp(ask, l, et, a, y) /\ (y[1] > i => a[y] = et[y])
           J == {c \in Int \X A : Good(c[1], c[2])}
<1>1. Vias(ask) \in Nat /\ hi \in Int /\ 0 <= hi + 1
  BY QueryFacts
<1>2. \A i, a : <<i, a>> \in J <=> i \in Int /\ a \in A /\ Good(i, a)
  OBVIOUS
<1>3. <<0 - 1, et>> \in J
  <2>1. Good(0 - 1, et)
    BY DEF MovedUp
  <2> HIDE DEF Good, J, A
  <2> QED
    BY <1>2, <2>1 DEF A
<1>4. ASSUME NEW i \in 0..hi, NEW a, <<i - 1, a>> \in J
      PROVE  <<i, PassViasFrom(ask, r, l, event, a, i)>> \in J
  <2> DEFINE b2 == PassViasFrom(ask, r, l, event, a, i)
  <2>1. a \in A /\ Good(i - 1, a) /\ i \in Int
    BY <1>2, <1>4
  <2> HIDE DEF J, Good, b2
  <2>2. /\ b2 \in A
        /\ \A y \in RideKeys(ask) : MovedUp(ask, l, a, b2, y) /\ (y[1] # i => b2[y] = a[y])
    BY <2>1, PassViasFromStep DEF b2
  <2>3. ASSUME NEW y \in RideKeys(ask)
        PROVE  MovedUp(ask, l, et, b2, y) /\ (y[1] > i => b2[y] = et[y])
    <3>1. /\ y = <<y[1], y[2]>> /\ y[1] \in Int /\ y[2] \in Int
          /\ MovedUp(ask, l, et, a, y) /\ (y[1] > i - 1 => a[y] = et[y])
          /\ y[2] > 0 => <<y[1], y[2] - 1>> \in RideKeys(ask)
      <4>1. /\ y = <<y[1], y[2]>> /\ y[1] \in 0..Vias(ask) /\ y[2] \in 0..Vias(ask)
            /\ y[1] + y[2] \in ViaCounts(ask)
        BY RideKeyFacts
      <4>2. MovedUp(ask, l, et, a, y) /\ (y[1] > i - 1 => a[y] = et[y])
        BY <2>1 DEF Good
      <4>3. y[2] > 0 => y[1] \in Nat /\ y[2] - 1 \in Nat /\ y[1] + (y[2] - 1) <= Vias(ask)
        BY <1>1, <4>1 DEF ViaCounts
      <4>4. y[2] > 0 => <<y[1], y[2] - 1>> \in RideKeys(ask)
        BY <4>3, RideKeyAt
      <4> QED
        BY <1>1, <4>1, <4>2, <4>4
    <3>2. CASE y[1] = i
      <4>1. a[y] = et[y]
        BY <3>1, <3>2
      <4>2. y[2] > 0 => a[<<y[1], y[2] - 1>>] = et[<<y[1], y[2] - 1>>]
        <5> DEFINE z == <<y[1], y[2] - 1>>
        <5>1. z[1] = i
          BY <3>2
        <5>2. ASSUME z \in RideKeys(ask) PROVE a[z] = et[z]
          BY <2>1, <5>1, <5>2 DEF Good
        <5> QED
          BY <3>1, <5>2
      <4>3. MovedUp(ask, l, a, b2, y)
        BY <2>2
      <4> QED
        BY <2>1, <3>2, <4>1, <4>2, <4>3 DEF MovedUp
    <3>3. CASE y[1] # i
      <4>1. b2[y] = a[y]
        BY <2>2, <3>3
      <4> QED
        BY <2>1, <3>1, <3>3, <4>1 DEF MovedUp
    <3> QED
      BY <3>2, <3>3
  <2>4. Good(i, b2)
    BY <2>3 DEF Good
  <2>5. <<i, b2>> \in J
    BY <1>2, <2>1, <2>2, <2>4
  <2> QED
    BY <2>5 DEF b2
<1> HIDE DEF J
<1>5. <<hi, EachPassViasFrom(ask, r, l, event, et, 0..hi)>> \in J
  <2> HIDE DEF hi
  <2> QED
    BY <1>1, <1>3, <1>4, PassViasFromUpTo
<1>6. b = EachPassViasFrom(ask, r, l, event, et, 0..hi)
  BY DEF PassVias, EachPassViasFrom
<1>7. b \in A /\ Good(hi, b)
  BY <1>2, <1>5, <1>6
<1> QED
  BY <1>7

-----------------------------------------------------------------------------
(***************************************************************************)
(* The rides on a route: each has been boarded with a label of the round   *)
(* before, at one of the stops 1..h, goes on in all sections up to g, and  *)
(* has passed the vias up to i.                                            *)
(***************************************************************************)
OnRoute(m, ask, r) == \E c \in Used(ask, m.routes) : r = m.routes[c]

LocOf(ask, r, i) == r.stops[StopIdx(ask, r, i)].loc

RideSet(r) == {NoTransport} \cup {[pos |-> x[1], day |-> x[2]] : x \in Runs(r)}

BoardedAt(m, ask, rd, base, r, j, e, ride) ==
  \E t \in LabelTimes(ask) :
    /\ <<LocOf(ask, r, j), e, t>> \in PlacesOf(m, ask, base.round_times, rd - 1)
    /\ CanBoard(ask, t, EventTime(r, ride.pos, ride.day, BoardEvent(ask, r, j)))

Riding(m, ask, rd, base, r, h, g, i, x, ride) ==
  \E j \in 1..h :
    /\ j < Len(r.stops) /\ can_start(ask, r.stops[StopIdx(ask, r, j)])
    /\ BoardedAt(m, ask, rd, base, r, j, x[1], ride)
    /\ \A y \in j + 1..g : ~EndsRides(ask, r, y)
    /\ x[1] + x[2] \in AfterRide(ask, r, j, i, x[1])

LEMMA OnRouteFacts ==
  ASSUME NEW m, IsNetwork(m), NEW ask, ask.dir \in {1, -1}, NEW r, OnRoute(m, ask, r)
  PROVE  /\ Len(r.stops) \in Nat /\ DOMAIN r.stops = 1..Len(r.stops)
         /\ \A i \in 1..Len(r.stops) : LocOf(ask, r, i) \in AllLocations(m)
         /\ Len(r.times) \in Nat /\ DOMAIN r.times = 1..Len(r.times)
         /\ \A j \in DOMAIN r.times : InOrder(r, r.times[j]) /\ r.days[j] \subseteq Int
<1>1. PICK c \in Used(ask, m.routes) : r = m.routes[c]
  BY DEF OnRoute
<1>2. c \in DOMAIN m.routes
  BY DEF Used
<1>3. /\ Len(r.stops) \in Nat /\ DOMAIN r.stops = 1..Len(r.stops)
      /\ \A i \in 1..Len(r.stops) : r.stops[i].loc \in AllLocations(m)
      /\ Len(r.times) \in Nat /\ DOMAIN r.times = 1..Len(r.times)
      /\ \A j \in DOMAIN r.times : InOrder(r, r.times[j]) /\ r.days[j] \subseteq Int
  BY <1>1, <1>2, RouteFacts
<1>4. \A i \in 1..Len(r.stops) : StopIdx(ask, r, i) \in 1..Len(r.stops)
  BY <1>3 DEF StopIdx
<1> QED
  BY <1>3, <1>4 DEF LocOf

LEMMA RunFacts ==
  ASSUME NEW m, IsNetwork(m), NEW ask, ask.dir \in {1, -1}, NEW r, OnRoute(m, ask, r),
         NEW ride \in RideSet(r), ride # NoTransport
  PROVE  /\ <<ride.pos, ride.day>> \in Runs(r) /\ ride.pos \in DOMAIN r.times /\ ride.day \in Int
         /\ InOrder(r, r.times[ride.pos])
<1>1. PICK x \in Runs(r) : ride = [pos |-> x[1], day |-> x[2]]
  BY DEF RideSet
<1>2. PICK i \in DOMAIN r.times : \E day \in r.days[i] : x = <<i, day>>
  BY DEF Runs
<1>3. ride.pos = i /\ ride.day \in r.days[i] /\ x = <<i, ride.day>>
  BY <1>1, <1>2
<1> QED
  BY <1>3, OnRouteFacts

LEMMA RideLands ==
  ASSUME NEW m, NEW ask, NEW rd, NEW base, RideBase(m, ask, rd, base), NEW r, OnRoute(m, ask, r),
         NEW i \in 1..Len(r.stops), can_finish(ask, r.stops[StopIdx(ask, r, i)]),
         NEW x \in RideKeys(ask), NEW ride \in RideSet(r), ride # NoTransport,
         Riding(m, ask, rd, base, r, i - 1, i, i, x, ride)
  PROVE  Lands(m, ask, rd, base, LocOf(ask, r, i), x[1] + x[2],
               RideTime(r, ride, AlightEvent(ask, r, i)))
<1>1. IsNetwork(m) /\ IsQuery(m, ask) /\ ask.dir \in {1, -1}
  BY DEF RideBase, IsQuery
<1>2. /\ Len(r.stops) \in Nat /\ DOMAIN r.stops = 1..Len(r.stops) /\ i \in Nat
      /\ LocOf(ask, r, i) \in AllLocations(m)
  BY <1>1, OnRouteFacts
<1>3. PICK j \in 1..i - 1 :
        /\ j < Len(r.stops) /\ can_start(ask, r.stops[StopIdx(ask, r, j)])
        /\ BoardedAt(m, ask, rd, base, r, j, x[1], ride)
        /\ \A y \in j + 1..i : ~EndsRides(ask, r, y)
        /\ x[1] + x[2] \in AfterRide(ask, r, j, i, x[1])
  BY DEF Riding
<1> DEFINE dep == EventTime(r, ride.pos, ride.day, BoardEvent(ask, r, j))
           arr == EventTime(r, ride.pos, ride.day, AlightEvent(ask, r, i))
           run == <<ride.pos, ride.day>>
           w == x[1] + x[2]
           places == PlacesOf(m, ask, base.round_times, rd - 1)
           p(t) == <<LocOf(ask, r, j), x[1], t>>
<1>4. PICK t \in LabelTimes(ask) : p(t) \in places /\ CanBoard(ask, t, dep)
  BY <1>3 DEF BoardedAt
<1>5. j \in 1..Len(r.stops) /\ j < i
  BY <1>2, <1>3
<1>6. <<ride.pos, ride.day>> \in Runs(r) /\ ride.day \in Int /\ InOrder(r, r.times[ride.pos])
  BY <1>1, RunFacts
<1>7. dep \in Int /\ arr \in Int /\ better_or_eq(ask, dep, arr)
  <2>1. /\ ask.dir \in {1, -1} /\ Len(r.stops) \in Nat /\ j \in 1..Len(r.stops) /\ j < i
        /\ ride.day \in Int /\ InOrder(r, r.times[ride.pos])
    BY <1>1, <1>2, <1>5, <1>6
  <2> QED
    BY <2>1, RunTimes
<1>8. t \in Int /\ better_or_eq(ask, t, dep)
  BY <1>4 DEF LabelTimes, CanBoard
<1> HIDE DEF dep, arr, places, w
<1>9. better_or_eq(ask, t, arr)
  BY <1>1, <1>7, <1>8, Order
<1>10. clamp(arr) \in LabelTimes(ask) /\ (clamp(arr) = kInvalid(ask) \/ clamp(arr) = arr)
  BY <1>1, <1>7, <1>9, ClampedAfter
<1>11. RideTime(r, ride, AlightEvent(ask, r, i)) = clamp(arr)
  BY DEF RideTime, arr
<1>12. w \in ViaCounts(ask)
  BY <1>1, RideKeyFacts DEF w
<1>13. <<LocOf(ask, r, i), w, arr>> \in Arrivals(m, ask, base.round_times, rd - 1)
  <2> DEFINE y == <<LocOf(ask, r, i), w, arr>>
             c == <<j, i>>
             q0 == p(t)
  <2>1. c \in Sections(ask, r)
    BY <1>2, <1>3, <1>5 DEF Sections
  <2>2. q0 \in places /\ w \in AfterRide(ask, r, c[1], c[2], q0[2])
    BY <1>3, <1>4 DEF w
  <2>3. RideBy(ask, r, run, c, q0, w, y)
    BY <1>4 DEF RideBy, LocOf, dep, arr
  <2>4. run \in Runs(r)
    BY <1>6
  <2>5. PICK g \in Used(ask, m.routes) : r = m.routes[g]
    BY DEF OnRoute
  <2> HIDE DEF y, c, q0, run
  <2>6. y \in Rides(m, ask, places)
    <3>1. \E x1 \in Runs(m.routes[g]) : \E c1 \in Sections(ask, m.routes[g]) : \E p1 \in places :
            \E w1 \in AfterRide(ask, m.routes[g], c1[1], c1[2], p1[2]) :
              RideBy(ask, m.routes[g], x1, c1, p1, w1, y)
      BY <2>1, <2>2, <2>3, <2>4, <2>5
    <3> QED
      BY <3>1, RidesAre
  <2> QED
    BY <2>6 DEF y, Arrivals, places
<1> QED
  BY <1>2, <1>10, <1>11, <1>12, <1>13 DEF Lands, w

(***************************************************************************)
(* A stop of a route: rides arrive, and labels board.                      *)
(***************************************************************************)
LEMMA RidingOn ==
  ASSUME NEW m, NEW ask, NEW rd, NEW base, NEW r, NEW i \in Nat, NEW x, NEW ride,
         Riding(m, ask, rd, base, r, i - 1, i, i, x, ride)
  PROVE  Riding(m, ask, rd, base, r, i, i, i, x, ride)
<1>1. \A j \in 1..i - 1 : j \in 1..i
  OBVIOUS
<1> QED
  BY <1>1 DEF Riding

LEMMA BoardStep ==
  ASSUME NEW m, NEW ask, NEW rd, NEW base, RideBase(m, ask, rd, base), NEW r, OnRoute(m, ask, r),
         NEW i \in 1..Len(r.stops), i # Len(r.stops), can_start(ask, r.stops[StopIdx(ask, r, i)]),
         NEW st \in RideStates(m, ask, rd, base), NEW x \in RideKeys(ask), x[2] = 0,
         NEW ride \in RideSet(r),
         ride # NoTransport => Riding(m, ask, rd, base, r, i, i, i, x, ride),
         NEW b, b = Boarded(ask, rd, st, r, LocOf(ask, r, i), i, x[1], ride)
  PROVE  b \in RideSet(r) /\ (b # NoTransport => Riding(m, ask, rd, base, r, i, i, i, x, b))
<1> DEFINE event == BoardEvent(ask, r, i)
           l == LocOf(ask, r, i)
           time == st.round_times[rd - 1][l][x[1]]
           lb == ask.lb[l]
           limit == st.time_at_dest[rd]
           new_et == get_earliest_transport(ask.dir, r, event, time, lb, limit)
           len == Len(r.stops)
<1>1. IsNetwork(m) /\ IsQuery(m, ask) /\ ask.dir \in {1, -1} /\ rd \in Rounds \ {0}
  BY DEF RideBase, IsQuery
<1>2. /\ len \in Nat /\ Len(r.times) \in Nat /\ DOMAIN r.times = 1..Len(r.times)
      /\ \A j \in 1..Len(r.times) : InOrder(r, r.times[j]) /\ r.days[j] \subseteq Int
      /\ l \in AllLocations(m)
  BY <1>1, OnRouteFacts
<1>3. b = ride \/ (b = new_et /\ new_et # NoTransport /\ time # kInvalid(ask))
  <2> HIDE DEF new_et, time
  <2> QED
    BY DEF Boarded, new_et, time, l, event, lb, limit
<1>4. CASE b = ride
  BY <1>4
<1>5. CASE b = new_et /\ new_et # NoTransport /\ time # kInvalid(ask)
  <2>1. x[1] \in ViaCounts(ask) /\ rd - 1 \in Rounds /\ l \in Nodes(m)
    BY <1>1, <1>2, RideKeyFacts, RoundFacts DEF Nodes
  <2>2. time \in LabelTimes(ask) /\ time \in Int /\ st.round_times = base.round_times
    <3>1. st \in States(m, ask) /\ st.round_times = base.round_times
      BY DEF RideStates
    <3> QED
      BY <2>1, <3>1, StateFacts, LabelFacts
  <2>3. \A j \in 1..Len(r.times) : r.times[j][event] \in Int
    <3>1. event \in EventsOf(r)
      <4>1. i < len /\ len \in 1..len
        BY <1>2
      <4> QED
        BY <1>1, <1>2, <4>1, EventsPassed
    <3> HIDE DEF event
    <3> QED
      BY <1>2, <3>1 DEF InOrder
  <2> DEFINE dep == EventTime(r, b.pos, b.day, event)
  <2>4. /\ b.pos \in 1..Len(r.times) /\ b.day \in r.days[b.pos] /\ b.day \in Int
        /\ b = [pos |-> b.pos, day |-> b.day] /\ better_or_eq(ask, time, dep)
    <3>1. IsEarliest(ask, r, event, time, b) /\ b # NoTransport
      BY <1>5 DEF IsEarliest
    <3>2. ask.dir \in {1, -1} /\ time \in Int /\ IsTimed(r, event)
      BY <1>1, <1>2, <2>2, <2>3 DEF IsTimed
    <3> HIDE DEF time, event, lb, limit, new_et
    <3>3. IsBoarded(ask, r, event, time, b)
      BY <3>1, <3>2, EarliestBoards
    <3> QED
      BY <3>3 DEF IsBoarded
  <2>5. b \in RideSet(r)
    <3>1. <<b.pos, b.day>> \in Runs(r)
      BY <1>2, <2>4 DEF Runs
    <3> DEFINE run == <<b.pos, b.day>>
    <3>2. b = [pos |-> run[1], day |-> run[2]] /\ run \in Runs(r)
      BY <2>4, <3>1
    <3> HIDE DEF run
    <3> QED
      BY <3>2 DEF RideSet
  <2>6. BoardedAt(m, ask, rd, base, r, i, x[1], b)
    <3>1. <<l, x[1], time>> \in PlacesOf(m, ask, base.round_times, rd - 1)
      BY <1>2, <1>5, <2>1, <2>2, PlaceOf, Zenon
    <3>2. CanBoard(ask, time, dep)
      BY <1>5, <2>4, Zenon DEF CanBoard
    <3> HIDE DEF time
    <3> QED
      BY <2>2, <3>1, <3>2 DEF BoardedAt
  <2>7. x[1] + x[2] \in AfterRide(ask, r, i, i, x[1])
    <3>1. x[1] + x[2] = x[1]
      BY <2>1, QueryFacts DEF ViaCounts
    <3> QED
      BY <3>1, NoMoreVias
  <2>8. i \in 1..i /\ i < Len(r.stops) /\ i + 1..i = {}
    BY <1>2
  <2>9. Riding(m, ask, rd, base, r, i, i, i, x, b)
    BY <2>6, <2>7, <2>8 DEF Riding
  <2> QED
    BY <2>5, <2>9
<1> QED
  BY <1>3, <1>4, <1>5

\* The rides that are left after the section to the i-th stop, and its via.
LEMMA PassStop ==
  ASSUME NEW m, NEW ask, NEW rd, NEW base, RideBase(m, ask, rd, base), NEW r, OnRoute(m, ask, r),
         NEW i \in 1..Len(r.stops), NEW et \in [RideKeys(ask) -> RideSet(r)],
         \A x \in RideKeys(ask) :
           et[x] # NoTransport => Riding(m, ask, rd, base, r, i - 1, i - 1, i - 1, x, et[x]),
         NEW kept, kept = IF EndsRides(ask, r, i) THEN NoRides(ask) ELSE et,
         NEW b, b = IF i = 1 THEN kept
                    ELSE PassVias(ask, r, LocOf(ask, r, i), kept, AlightEvent(ask, r, i))
  PROVE  /\ b \in [RideKeys(ask) -> RideSet(r)]
         /\ \A x \in RideKeys(ask) :
              b[x] # NoTransport => Riding(m, ask, rd, base, r, i - 1, i, i, x, b[x])
<1>1. IsNetwork(m) /\ IsQuery(m, ask) /\ ask.dir \in {1, -1}
  BY DEF RideBase, IsQuery
<1>2. Len(r.stops) \in Nat /\ i \in Nat /\ i - 1 \in Nat
  BY <1>1, OnRouteFacts
<1>3. NoTransport \in RideSet(r) /\ NoRides(ask) \in [RideKeys(ask) -> RideSet(r)]
  BY DEF NoRides, RideSet
<1>4. kept \in [RideKeys(ask) -> RideSet(r)]
  BY <1>3
<1>5. ASSUME NEW x \in RideKeys(ask), kept[x] # NoTransport
      PROVE  ~EndsRides(ask, r, i) /\ kept[x] = et[x]
  BY <1>5 DEF NoRides
<1>6. CASE i = 1
  <2>1. \A x \in RideKeys(ask) : kept[x] = NoTransport
    <3> SUFFICES ASSUME NEW x \in RideKeys(ask), kept[x] # NoTransport PROVE FALSE
      OBVIOUS
    <3>1. Riding(m, ask, rd, base, r, i - 1, i - 1, i - 1, x, et[x])
      BY <1>5
    <3>2. 1..i - 1 = {}
      BY <1>6
    <3> QED
      BY <3>1, <3>2 DEF Riding
  <2> QED
    BY <1>4, <1>6, <2>1
<1>7. CASE i # 1
  <2>1. b = PassVias(ask, r, LocOf(ask, r, i), kept, AlightEvent(ask, r, i))
    BY <1>7
  <2>2. /\ b \in [RideKeys(ask) -> RideSet(r)]
        /\ \A y \in RideKeys(ask) : MovedUp(ask, LocOf(ask, r, i), kept, b, y)
    BY <1>1, <1>3, <1>4, <2>1, PassViasStep
  <2>3. ASSUME NEW x \in RideKeys(ask), b[x] # NoTransport
        PROVE  Riding(m, ask, rd, base, r, i - 1, i, i, x, b[x])
    <3>1. /\ x = <<x[1], x[2]>> /\ x[1] \in Nat /\ x[2] \in Nat
          /\ x[1] \in ViaCounts(ask) /\ x[1] + x[2] \in ViaCounts(ask) /\ Vias(ask) \in Nat
      BY <1>1, RideKeyFacts, QueryFacts
    <3>2. CASE b[x] = kept[x]
      <4>1. PICK j \in 1..i - 1 :
              /\ j < Len(r.stops) /\ can_start(ask, r.stops[StopIdx(ask, r, j)])
              /\ BoardedAt(m, ask, rd, base, r, j, x[1], b[x])
              /\ \A y \in j + 1..i - 1 : ~EndsRides(ask, r, y)
              /\ x[1] + x[2] \in AfterRide(ask, r, j, i - 1, x[1])
        BY <1>5, <2>3, <3>2 DEF Riding
      <4>2. j \in Nat /\ j < i
        BY <1>2
      <4>3. x[1] + x[2] \in AfterRide(ask, r, j, i, x[1])
        BY <1>1, <1>2, <3>1, <4>1, <4>2, MoreVias
      <4>4. ~EndsRides(ask, r, i) /\ \A y \in j + 1..i : y \in j + 1..i - 1 \/ y = i
        BY <1>2, <1>5, <2>3, <3>2, <4>2
      <4> QED
        BY <4>1, <4>3, <4>4 DEF Riding
    <3>3. CASE b[x] # kept[x]
      <4> DEFINE z == <<x[1], x[2] - 1>>
      <4>1. /\ x[2] > 0 /\ IsPassedVia(ask, LocOf(ask, r, i), x[1] + (x[2] - 1))
            /\ b[x] = kept[z]
        BY <2>2, <2>3, <3>3 DEF MovedUp
      <4>2. z \in RideKeys(ask) /\ z[1] = x[1] /\ z[2] = x[2] - 1
        <5>1. x[2] - 1 \in Nat /\ x[1] + (x[2] - 1) <= Vias(ask)
          BY <3>1, <4>1 DEF ViaCounts
        <5> QED
          BY <1>1, <3>1, <5>1, RideKeyAt
      <4> HIDE DEF z
      <4>3. ~EndsRides(ask, r, i) /\ kept[z] = et[z] /\ et[z] # NoTransport
        BY <1>5, <2>3, <4>1, <4>2
      <4>4. PICK j \in 1..i - 1 :
              /\ j < Len(r.stops) /\ can_start(ask, r.stops[StopIdx(ask, r, j)])
              /\ BoardedAt(m, ask, rd, base, r, j, z[1], et[z])
              /\ \A y \in j + 1..i - 1 : ~EndsRides(ask, r, y)
              /\ z[1] + z[2] \in AfterRide(ask, r, j, i - 1, z[1])
        BY <4>2, <4>3 DEF Riding
      <4>5. j \in Nat /\ j < i
        BY <1>2
      <4> DEFINE w == x[1] + (x[2] - 1)
      <4>6. w \in AfterRide(ask, r, j, i - 1, x[1]) /\ w + 1 = x[1] + x[2]
        BY <3>1, <4>2, <4>4
      <4>7. w + 1 \in AfterRide(ask, r, j, i, x[1])
        <5>1. IsPassedVia(ask, r.stops[StopIdx(ask, r, i)].loc, w)
          BY <4>1 DEF LocOf
        <5> HIDE DEF w
        <5> QED
          BY <1>1, <1>2, <3>1, <4>5, <4>6, <5>1, MoreVias
      <4>8. \A y \in j + 1..i : y \in j + 1..i - 1 \/ y = i
        BY <1>2, <4>5
      <4>9. /\ j < Len(r.stops) /\ can_start(ask, r.stops[StopIdx(ask, r, j)])
            /\ BoardedAt(m, ask, rd, base, r, j, x[1], b[x])
            /\ \A y \in j + 1..i : ~EndsRides(ask, r, y)
            /\ x[1] + x[2] \in AfterRide(ask, r, j, i, x[1])
        BY <4>1, <4>2, <4>3, <4>4, <4>6, <4>7, <4>8
      <4> QED
        BY <4>9 DEF Riding
    <3> QED
      BY <3>2, <3>3
  <2> QED
    BY <2>2, <2>3
<1> QED
  BY <1>6, <1>7

(***************************************************************************)
(* The states on the way along a route.                                    *)
(***************************************************************************)
RouteStates(m, ask, rd, base, r) ==
  [s : RideStates(m, ask, rd, base), et : [RideKeys(ask) -> RideSet(r)], done : BOOLEAN]

Boarding(m, ask, rd, base, r, h, g, i, et) ==
  \A x \in RideKeys(ask) : et[x] # NoTransport => Riding(m, ask, rd, base, r, h, g, i, x, et[x])

OnWay(m, ask, rd, base, r, i, a) ==
  /\ a \in RouteStates(m, ask, rd, base, r)
  /\ a.done \/ Boarding(m, ask, rd, base, r, i, i, i, a.et)

LEMMA RouteStopStep ==
  ASSUME NEW m, NEW ask, NEW rd, NEW base, RideBase(m, ask, rd, base), NEW r, OnRoute(m, ask, r),
         NEW i \in 1..Len(r.stops), NEW a, OnWay(m, ask, rd, base, r, i - 1, a),
         NEW b, b = RouteStop(m, ask, rd, r, a, i)
  PROVE  OnWay(m, ask, rd, base, r, i, b)
<1> DEFINE stp == r.stops[StopIdx(ask, r, i)]
           l == LocOf(ask, r, i)
           kept == IF EndsRides(ask, r, i) THEN NoRides(ask) ELSE a.et
           et == IF i = 1 THEN kept ELSE PassVias(ask, r, l, kept, AlightEvent(ask, r, i))
           Keys == {x \in RideKeys(ask) : et[x] # NoTransport}
           sv == IF ~can_finish(ask, stp) THEN a.s
                 ELSE EachAlightFrom(m, ask, rd, r, i, et, a.s, Keys)
           Waiting == i # Len(r.stops) /\ can_start(ask, stp) /\ l \in sv.prev_station_mark
           et2 == [x \in RideKeys(ask) |->
                     IF x[2] = 0 THEN Boarded(ask, rd, sv, r, l, i, x[1], et[x]) ELSE et[x]]
           A == RouteStates(m, ask, rd, base, r)
<1>1. IsNetwork(m) /\ IsQuery(m, ask) /\ ask.dir \in {1, -1}
  BY DEF RideBase, IsQuery
<1>2. /\ a \in A /\ a.s \in RideStates(m, ask, rd, base) /\ a.et \in [RideKeys(ask) -> RideSet(r)]
      /\ a.done \in BOOLEAN
  <2>1. a \in A
    BY Zenon DEF OnWay
  <2> HIDE DEF stp, l, kept, et, Keys, sv, Waiting, et2
  <2> QED
    BY <2>1 DEF RouteStates
<1>3. b = IF a.done THEN a
          ELSE IF Waiting /\ ~lb_reachable(ask, l) THEN [a EXCEPT !.s = sv, !.done = TRUE]
          ELSE [a EXCEPT !.s = sv, !.et = IF ~Waiting THEN et ELSE et2]
  BY DEF RouteStop, EachAlightFrom, LocOf
<1>4. CASE a.done
  BY <1>2, <1>3, <1>4 DEF OnWay
<1>5. CASE ~a.done
  <2>1. Boarding(m, ask, rd, base, r, i - 1, i - 1, i - 1, a.et)
    BY <1>5 DEF OnWay
  <2>2. /\ et \in [RideKeys(ask) -> RideSet(r)]
        /\ \A x \in RideKeys(ask) :
             et[x] # NoTransport => Riding(m, ask, rd, base, r, i - 1, i, i, x, et[x])
    <3> HIDE DEF l
    <3>1. \A x \in RideKeys(ask) :
            a.et[x] # NoTransport => Riding(m, ask, rd, base, r, i - 1, i - 1, i - 1, x, a.et[x])
      BY <2>1 DEF Boarding
    <3> HIDE DEF kept, et
    <3> QED
      BY <1>2, <3>1, PassStop DEF kept, et, l
  <2> HIDE DEF et, kept
  <2>3. sv \in RideStates(m, ask, rd, base)
    <3>1. CASE can_finish(ask, stp)
      <4>1. IsFiniteSet(Keys)
        BY <1>1, RideKeyFacts, FS_Subset
      <4>2. ASSUME NEW x \in Keys
            PROVE  Lands(m, ask, rd, base, r.stops[StopIdx(ask, r, i)].loc, x[1] + x[2],
                         RideTime(r, et[x], AlightEvent(ask, r, i)))
        <5>1. /\ x \in RideKeys(ask) /\ et[x] \in RideSet(r) /\ et[x] # NoTransport
              /\ Riding(m, ask, rd, base, r, i - 1, i, i, x, et[x])
          BY <2>2
        <5>2. Lands(m, ask, rd, base, LocOf(ask, r, i), x[1] + x[2],
                    RideTime(r, et[x], AlightEvent(ask, r, i)))
          BY <3>1, <5>1, RideLands
        <5> QED
          BY <5>2 DEF LocOf
      <4> DEFINE c == EachAlightFrom(m, ask, rd, r, i, et, a.s, Keys)
      <4>3. c \in RideStates(m, ask, rd, base)
        <5> HIDE DEF Keys
        <5> QED
          BY <1>2, <4>1, <4>2, AlightFromAll
      <4> HIDE DEF c
      <4> QED
        BY <3>1, <4>3 DEF c
    <3>2. CASE ~can_finish(ask, stp)
      BY <1>2, <3>2
    <3> QED
      BY <3>1, <3>2
  <2> HIDE DEF sv
  <2>4. i \in Nat
    BY <1>1, OnRouteFacts
  <2>5. ASSUME NEW x \in RideKeys(ask)
        PROVE  et[x] # NoTransport => Riding(m, ask, rd, base, r, i, i, i, x, et[x])
    BY <2>2, <2>4, RidingOn
  <2>6. CASE Waiting /\ ~lb_reachable(ask, l)
    <3>1. b = [a EXCEPT !.s = sv, !.done = TRUE]
      BY <1>3, <1>5, <2>6
    <3>2. b \in A /\ b.done
      BY <1>2, <2>3, <3>1 DEF RouteStates
    <3> QED
      BY <3>2 DEF OnWay
  <2>7. CASE ~Waiting
    <3>1. b = [a EXCEPT !.s = sv, !.et = et]
      BY <1>3, <1>5, <2>7
    <3>2. b \in A /\ b.et = et
      BY <1>2, <2>2, <2>3, <3>1 DEF RouteStates
    <3> QED
      BY <2>5, <3>2 DEF OnWay, Boarding
  <2>8. CASE Waiting /\ lb_reachable(ask, l)
    <3>1. b = [a EXCEPT !.s = sv, !.et = et2]
      BY <1>3, <1>5, <2>8
    <3>2. ASSUME NEW x \in RideKeys(ask)
          PROVE  /\ et2[x] \in RideSet(r)
                 /\ et2[x] # NoTransport => Riding(m, ask, rd, base, r, i, i, i, x, et2[x])
      <4>1. et[x] \in RideSet(r) /\ i # Len(r.stops) /\ can_start(ask, r.stops[StopIdx(ask, r, i)])
        BY <2>2, <2>8
      <4>2. CASE x[2] = 0
        <5>1. et2[x] = Boarded(ask, rd, sv, r, LocOf(ask, r, i), i, x[1], et[x])
          BY <4>2
        <5> DEFINE bd == et2[x]
        <5> HIDE DEF et2, bd
        <5> QED
          BY <2>3, <2>5, <4>1, <4>2, <5>1, BoardStep
      <4>3. CASE x[2] # 0
        BY <2>5, <4>1, <4>3
      <4> QED
        BY <4>2, <4>3
    <3>3. et2 \in [RideKeys(ask) -> RideSet(r)]
      BY <3>2
    <3> HIDE DEF et2
    <3>4. b \in A /\ b.et = et2
      BY <1>2, <2>3, <3>1, <3>3 DEF RouteStates
    <3> QED
      BY <3>2, <3>4 DEF OnWay, Boarding
  <2> QED
    BY <2>6, <2>7, <2>8
<1> QED
  BY <1>2, <1>4, <1>5

LEMMA RouteStep ==
  ASSUME NEW m, NEW ask, NEW rd, NEW base, RideBase(m, ask, rd, base), NEW r, OnRoute(m, ask, r),
         NEW a \in RideStates(m, ask, rd, base), NEW b, b = update_route(m, ask, rd, a, r)
  PROVE  b \in RideStates(m, ask, rd, base)
<1> DEFINE len == Len(r.stops)
           first == [s |-> a, et |-> NoRides(ask), done |-> FALSE]
           J == {c \in Int \X RouteStates(m, ask, rd, base, r) : OnWay(m, ask, rd, base, r, c[1], c[2])}
<1>1. IsNetwork(m) /\ ask.dir \in {1, -1} /\ len \in Nat
  BY OnRouteFacts DEF RideBase, IsQuery
<1>2. \A i, c : <<i, c>> \in J <=> i \in Int /\ OnWay(m, ask, rd, base, r, i, c)
  BY DEF OnWay
<1>3. OnWay(m, ask, rd, base, r, 0, first)
  <2>1. first \in RouteStates(m, ask, rd, base, r)
    BY DEF RouteStates, NoRides, RideSet
  <2>2. first.et = NoRides(ask) /\ \A x \in RideKeys(ask) : NoRides(ask)[x] = NoTransport
    BY DEF NoRides
  <2> HIDE DEF first
  <2> QED
    BY <2>1, <2>2 DEF OnWay, Boarding
<1> HIDE DEF J, first
<1>4. <<1 - 1, first>> \in J
  <2>1. 1 - 1 = 0
    OBVIOUS
  <2> QED
    BY <1>2, <1>3, <2>1
<1>5. ASSUME NEW i \in 1..len, NEW c, <<i - 1, c>> \in J
      PROVE  <<i, RouteStop(m, ask, rd, r, c, i)>> \in J
  <2>1. OnWay(m, ask, rd, base, r, i - 1, c) /\ i \in Int
    BY <1>1, <1>2, <1>5
  <2> DEFINE d == RouteStop(m, ask, rd, r, c, i)
  <2>2. OnWay(m, ask, rd, base, r, i, d)
    BY <2>1, RouteStopStep
  <2> QED
    BY <1>2, <2>1, <2>2
<1> DEFINE last == EachRouteStop(m, ask, rd, r, first, 1..len)
<1>6. <<len, last>> \in J
  <2> HIDE DEF len
  <2>1. 1 <= len + 1 /\ len \in Int
    BY <1>1
  <2> QED
    BY <1>4, <1>5, <2>1, RouteStopUpTo
<1>7. b = last.s
  BY DEF update_route, EachRouteStop, first
<1> HIDE DEF last
<1>8. last \in RouteStates(m, ask, rd, base, r)
  BY <1>2, <1>6 DEF OnWay
<1> QED
  BY <1>7, <1>8 DEF RouteStates

-----------------------------------------------------------------------------
(***************************************************************************)
(* A real-time transport: v is kept if a label has boarded it at one of    *)
(* the stops 1..h, which may be one that is none, as times are clamped.    *)
(***************************************************************************)
LEMMA PassedStep ==
  ASSUME NEW m, NEW ask, IsQuery(m, ask), NEW l, NEW et \in SUBSET ViaCounts(ask),
         NEW b, b = Passed(ask, l, et)
  PROVE  /\ b \in SUBSET ViaCounts(ask)
         /\ \A w \in b : w \in et \/ (w - 1 \in et /\ IsPassedVia(ask, l, w - 1))
<1> DEFINE hi == Vias(ask)
           Good(i, a) ==
             \A w \in a :
               w \in et \/ (w - 1 \in et /\ IsPassedVia(ask, l, w - 1) /\ w > hi - i)
           J == {c \in Int \X SUBSET ViaCounts(ask) : Good(c[1], c[2])}
<1>1. hi \in Nat /\ 1 <= hi + 1
  BY QueryFacts
<1>2. \A i, a : <<i, a>> \in J <=> i \in Int /\ a \in SUBSET ViaCounts(ask) /\ Good(i, a)
  OBVIOUS
<1>3. <<1 - 1, et>> \in J
  <2>1. Good(0, et)
    OBVIOUS
  <2> HIDE DEF Good, J
  <2> QED
    BY <1>2, <2>1
<1>4. ASSUME NEW i \in 1..hi, NEW a, <<i - 1, a>> \in J
      PROVE  <<i, PassWith(ask, l, a, i)>> \in J
  <2> DEFINE v == hi - i
             b2 == PassWith(ask, l, a, i)
             a2 == (a \ {v}) \cup {v + 1}
  <2>1. a \in SUBSET ViaCounts(ask) /\ Good(i - 1, a) /\ i \in Int
    BY <1>2, <1>4
  <2>2. v \in Nat /\ v + 1 \in 0..hi /\ v + 1 > hi - i /\ hi - (i - 1) = v + 1
    BY <1>1
  <2>3. b2 = a \/ (b2 = a2 /\ v \in a /\ IsPassedVia(ask, l, v))
    BY DEF PassWith
  <2> HIDE DEF J
  <2>4. ASSUME NEW w \in a
        PROVE  w \in et \/ (w - 1 \in et /\ IsPassedVia(ask, l, w - 1) /\ w > hi - i)
    <3>1. w \in et \/ (w - 1 \in et /\ IsPassedVia(ask, l, w - 1) /\ w > hi - (i - 1))
      BY <2>1
    <3>2. w \in Int
      BY <2>1, QueryFacts
    <3> QED
      BY <1>1, <3>1, <3>2
  <2>5. v \in a => v \in et
    <3>1. v \in a => v \in et \/ v > hi - (i - 1)
      BY <2>1
    <3> QED
      BY <1>1, <2>2, <3>1
  <2> HIDE DEF v, b2, Good
  <2>6. Good(i, b2) /\ b2 \in SUBSET ViaCounts(ask)
    <3>1. CASE b2 = a
      BY <2>1, <2>4, <3>1 DEF Good
    <3>2. CASE b2 = a2 /\ v \in a /\ IsPassedVia(ask, l, v)
      <4>1. b2 \in SUBSET ViaCounts(ask)
        BY <2>1, <2>2, <3>2 DEF ViaCounts
      <4>2. ASSUME NEW w \in b2
            PROVE  w \in et \/ (w - 1 \in et /\ IsPassedVia(ask, l, w - 1) /\ w > hi - i)
        <5>1. w \in a \/ w = v + 1
          BY <3>2
        <5>2. CASE w \in a
          BY <2>4, <5>2
        <5>3. CASE w = v + 1
          <6>1. w - 1 = v /\ w > hi - i
            BY <2>2, <5>3
          <6> QED
            BY <2>5, <3>2, <6>1
        <5> QED
          BY <5>1, <5>2, <5>3
      <4> QED
        BY <4>1, <4>2 DEF Good
    <3> QED
      BY <2>3, <3>1, <3>2
  <2>7. <<i, b2>> \in J
    BY <1>2, <2>1, <2>6
  <2> QED
    BY <2>7 DEF b2
<1> HIDE DEF J
<1>5. <<hi, EachPassWith(ask, l, et, 1..hi)>> \in J
  <2> HIDE DEF hi
  <2> QED
    BY <1>1, <1>3, <1>4, PassWithUpTo
<1>6. b = EachPassWith(ask, l, et, 1..hi)
  BY DEF Passed, EachPassWith
<1>7. b \in SUBSET ViaCounts(ask) /\ Good(hi, b)
  BY <1>2, <1>5, <1>6
<1> QED
  BY <1>7

OnRt(m, ask, r) == \E c \in Used(ask, m.rt_transports) : r = m.rt_transports[c]

RtBoardedAt(ask, rd, base, r, j, v) ==
  better_or_eq(ask, base.round_times[rd - 1][LocOf(ask, r, j)][v],
                    clamp(r.times[BoardEvent(ask, r, j)]))

RtRiding(ask, rd, base, r, h, g, i, v) ==
  \E j \in 1..h : \E v0 \in ViaCounts(ask) :
    /\ j < Len(r.stops) /\ can_start(ask, r.stops[StopIdx(ask, r, j)])
    /\ RtBoardedAt(ask, rd, base, r, j, v0)
    /\ \A y \in j + 1..g : ~EndsRides(ask, r, y)
    /\ v \in AfterRide(ask, r, j, i, v0)

LEMMA OnRtFacts ==
  ASSUME NEW m, IsNetwork(m), NEW ask, ask.dir \in {1, -1}, NEW r, OnRt(m, ask, r)
  PROVE  /\ Len(r.stops) \in Nat /\ DOMAIN r.stops = 1..Len(r.stops)
         /\ \A i \in 1..Len(r.stops) : LocOf(ask, r, i) \in AllLocations(m)
         /\ InOrder(r, r.times)
<1>1. PICK c \in Used(ask, m.rt_transports) : r = m.rt_transports[c]
  BY DEF OnRt
<1>2. c \in DOMAIN m.rt_transports
  BY DEF Used
<1>3. /\ Len(r.stops) \in Nat /\ DOMAIN r.stops = 1..Len(r.stops)
      /\ \A i \in 1..Len(r.stops) : r.stops[i].loc \in AllLocations(m)
      /\ InOrder(r, r.times)
  BY <1>1, <1>2, RtTransportFacts
<1>4. \A i \in 1..Len(r.stops) : StopIdx(ask, r, i) \in 1..Len(r.stops)
  BY <1>3 DEF StopIdx
<1> QED
  BY <1>3, <1>4 DEF LocOf

LEMMA RtLands ==
  ASSUME NEW m, NEW ask, NEW rd, NEW base, RideBase(m, ask, rd, base), NEW r, OnRt(m, ask, r),
         NEW i \in 1..Len(r.stops), can_finish(ask, r.stops[StopIdx(ask, r, i)]),
         NEW v \in ViaCounts(ask), RtRiding(ask, rd, base, r, i - 1, i, i, v)
  PROVE  Lands(m, ask, rd, base, LocOf(ask, r, i), v, clamp(r.times[AlightEvent(ask, r, i)]))
<1>1. IsNetwork(m) /\ IsQuery(m, ask) /\ ask.dir \in {1, -1} /\ rd - 1 \in Rounds
      /\ base \in States(m, ask)
  BY RoundFacts DEF RideBase, IsQuery
<1>2. /\ Len(r.stops) \in Nat /\ DOMAIN r.stops = 1..Len(r.stops) /\ i \in Nat
      /\ LocOf(ask, r, i) \in AllLocations(m) /\ InOrder(r, r.times)
  BY <1>1, OnRtFacts
<1>3. PICK j \in 1..i - 1 : \E v0 \in ViaCounts(ask) :
        /\ j < Len(r.stops) /\ can_start(ask, r.stops[StopIdx(ask, r, j)])
        /\ RtBoardedAt(ask, rd, base, r, j, v0)
        /\ \A y \in j + 1..i : ~EndsRides(ask, r, y)
        /\ v \in AfterRide(ask, r, j, i, v0)
  BY DEF RtRiding
<1>4. PICK v0 \in ViaCounts(ask) :
        /\ j < Len(r.stops) /\ can_start(ask, r.stops[StopIdx(ask, r, j)])
        /\ RtBoardedAt(ask, rd, base, r, j, v0)
        /\ \A y \in j + 1..i : ~EndsRides(ask, r, y)
        /\ v \in AfterRide(ask, r, j, i, v0)
  BY <1>3
<1> DEFINE dep == r.times[BoardEvent(ask, r, j)]
           arr == r.times[AlightEvent(ask, r, i)]
           from == LocOf(ask, r, j)
           t == base.round_times[rd - 1][from][v0]
           places == PlacesOf(m, ask, base.round_times, rd - 1)
           p == <<from, v0, t>>
           y == <<LocOf(ask, r, i), v, arr>>
           c == <<j, i>>
<1>5. j \in 1..Len(r.stops) /\ j < i
  BY <1>2
<1>6. dep \in Int /\ arr \in Int /\ better_or_eq(ask, dep, arr)
  BY <1>1, <1>2, <1>5, TimesPassed
<1>7. from \in AllLocations(m) /\ from \in Nodes(m)
  BY <1>1, <1>5, OnRtFacts DEF Nodes
<1>8. t \in LabelTimes(ask)
  <2>1. AreLabels(m, ask, base.round_times)
    BY <1>1, StateFacts
  <2> HIDE DEF from
  <2> QED
    BY <1>1, <1>7, <2>1, LabelFacts
<1>9. better_or_eq(ask, t, clamp(dep))
  BY <1>4 DEF RtBoardedAt
<1> HIDE DEF dep, arr, t, from
<1>10. \/ t # kInvalid(ask) /\ better_or_eq(ask, t, dep) /\ better_or_eq(ask, t, arr)
       \/ clamp(arr) = kInvalid(ask)
  BY <1>1, <1>6, <1>8, <1>9, ClampedBoarding
<1>11. CASE clamp(arr) = kInvalid(ask)
  <2>1. clamp(arr) \in LabelTimes(ask)
    BY <1>1, <1>11, TimeFacts
  <2> QED
    BY <1>2, <1>11, <2>1 DEF Lands, arr
<1>12. CASE t # kInvalid(ask) /\ better_or_eq(ask, t, dep) /\ better_or_eq(ask, t, arr)
  <2>1. clamp(arr) \in LabelTimes(ask) /\ (clamp(arr) = kInvalid(ask) \/ clamp(arr) = arr)
    BY <1>1, <1>6, <1>8, <1>12, ClampedAfter
  <2>2. p \in places
    BY <1>7, <1>12, PlaceOf DEF t
  <2>3. CanBoard(ask, t, dep)
    BY <1>12 DEF CanBoard
  <2>4. c \in Sections(ask, r)
    BY <1>2, <1>4, <1>5 DEF Sections
  <2>5. v \in AfterRide(ask, r, c[1], c[2], p[2])
    BY <1>4
  <2>6. RtRideBy(ask, r, c, p, v, y)
    BY <2>3 DEF RtRideBy, LocOf, dep, arr, from
  <2>7. PICK g \in Used(ask, m.rt_transports) : r = m.rt_transports[g]
    BY DEF OnRt
  <2> HIDE DEF y, c, p, places
  <2>8. \E c1 \in Sections(ask, m.rt_transports[g]) : \E p1 \in places :
          \E w1 \in AfterRide(ask, m.rt_transports[g], c1[1], c1[2], p1[2]) :
            RtRideBy(ask, m.rt_transports[g], c1, p1, w1, y)
    BY <2>2, <2>4, <2>5, <2>6, <2>7
  <2>9. y \in Rides(m, ask, places)
    BY <2>8, RidesAre
  <2>10. <<LocOf(ask, r, i), v, arr>> \in Arrivals(m, ask, base.round_times, rd - 1)
    BY <2>9 DEF y, places, Arrivals
  <2> QED
    BY <1>2, <2>1, <2>10 DEF Lands, arr
<1> QED
  BY <1>10, <1>11, <1>12

LEMMA RtPassStop ==
  ASSUME NEW m, NEW ask, NEW rd, NEW base, RideBase(m, ask, rd, base), NEW r, OnRt(m, ask, r),
         NEW i \in 1..Len(r.stops), NEW et \in SUBSET ViaCounts(ask),
         \A v \in et : RtRiding(ask, rd, base, r, i - 1, i - 1, i - 1, v),
         NEW kept, kept = IF EndsRides(ask, r, i) THEN {} ELSE et,
         NEW b, b = IF i = 1 THEN kept ELSE Passed(ask, LocOf(ask, r, i), kept)
  PROVE  /\ b \in SUBSET ViaCounts(ask)
         /\ \A v \in b : RtRiding(ask, rd, base, r, i - 1, i, i, v)
<1>1. IsNetwork(m) /\ IsQuery(m, ask) /\ ask.dir \in {1, -1}
  BY DEF RideBase, IsQuery
<1>2. Len(r.stops) \in Nat /\ i \in Nat /\ i - 1 \in Nat
  BY <1>1, OnRtFacts
<1>3. kept \in SUBSET ViaCounts(ask)
  OBVIOUS
<1>4. \A v \in kept : ~EndsRides(ask, r, i) /\ v \in et
  OBVIOUS
<1>5. CASE i = 1
  <2>1. et = {}
    <3> SUFFICES ASSUME NEW v \in et PROVE FALSE
      OBVIOUS
    <3>1. RtRiding(ask, rd, base, r, i - 1, i - 1, i - 1, v)
      OBVIOUS
    <3>2. 1..i - 1 = {}
      BY <1>5
    <3> QED
      BY <3>1, <3>2 DEF RtRiding
  <2> QED
    BY <1>4, <1>5, <2>1
<1>6. CASE i # 1
  <2>1. /\ b \in SUBSET ViaCounts(ask)
        /\ \A w \in b : w \in kept \/ (w - 1 \in kept /\ IsPassedVia(ask, LocOf(ask, r, i), w - 1))
    BY <1>1, <1>3, <1>6, PassedStep
  <2>2. ASSUME NEW w \in b PROVE RtRiding(ask, rd, base, r, i - 1, i, i, w)
    <3>1. PICK v \in kept :
            v = w \/ (v = w - 1 /\ IsPassedVia(ask, LocOf(ask, r, i), v))
      BY <2>1
    <3>2. ~EndsRides(ask, r, i) /\ RtRiding(ask, rd, base, r, i - 1, i - 1, i - 1, v)
      BY <1>4
    <3>3. PICK j \in 1..i - 1 : \E v0 \in ViaCounts(ask) :
            /\ j < Len(r.stops) /\ can_start(ask, r.stops[StopIdx(ask, r, j)])
            /\ RtBoardedAt(ask, rd, base, r, j, v0)
            /\ \A y \in j + 1..i - 1 : ~EndsRides(ask, r, y)
            /\ v \in AfterRide(ask, r, j, i - 1, v0)
      BY <3>2 DEF RtRiding
    <3>4. PICK v0 \in ViaCounts(ask) :
            /\ j < Len(r.stops) /\ can_start(ask, r.stops[StopIdx(ask, r, j)])
            /\ RtBoardedAt(ask, rd, base, r, j, v0)
            /\ \A y \in j + 1..i - 1 : ~EndsRides(ask, r, y)
            /\ v \in AfterRide(ask, r, j, i - 1, v0)
      BY <3>3
    <3>5. j \in Nat /\ j < i /\ w \in Int
      BY <1>2, <2>1, QueryFacts, <1>1
    <3>6. /\ v \in AfterRide(ask, r, j, i, v0)
          /\ IsPassedVia(ask, r.stops[StopIdx(ask, r, i)].loc, v)
               => v + 1 \in AfterRide(ask, r, j, i, v0)
      BY <1>1, <1>2, <3>4, <3>5, MoreVias
    <3>7. w \in AfterRide(ask, r, j, i, v0)
      <4>1. CASE v = w
        BY <3>6, <4>1
      <4>2. CASE v = w - 1 /\ IsPassedVia(ask, LocOf(ask, r, i), v)
        <5>1. v + 1 = w
          BY <3>5, <4>2
        <5> QED
          BY <3>6, <4>2, <5>1 DEF LocOf
      <4> QED
        BY <3>1, <4>1, <4>2
    <3>8. \A y \in j + 1..i : y \in j + 1..i - 1 \/ y = i
      BY <1>2, <3>5
    <3> QED
      BY <3>2, <3>4, <3>7, <3>8 DEF RtRiding
  <2> QED
    BY <2>1, <2>2
<1> QED
  BY <1>5, <1>6

RtStates(m, ask, rd, base) ==
  [s : RideStates(m, ask, rd, base), et : SUBSET ViaCounts(ask), done : BOOLEAN]

OnRtWay(m, ask, rd, base, r, i, a) ==
  /\ a \in RtStates(m, ask, rd, base)
  /\ a.done \/ \A v \in a.et : RtRiding(ask, rd, base, r, i, i, i, v)

LEMMA RtStopStep ==
  ASSUME NEW m, NEW ask, NEW rd, NEW base, RideBase(m, ask, rd, base), NEW r, OnRt(m, ask, r),
         NEW i \in 1..Len(r.stops), NEW a, OnRtWay(m, ask, rd, base, r, i - 1, a),
         NEW b, b = RtStop(m, ask, rd, r, a, i)
  PROVE  OnRtWay(m, ask, rd, base, r, i, b)
<1> DEFINE stp == r.stops[StopIdx(ask, r, i)]
           l == LocOf(ask, r, i)
           kept == IF EndsRides(ask, r, i) THEN {} ELSE a.et
           et == IF i = 1 THEN kept ELSE Passed(ask, l, kept)
           sv == IF i = 1 \/ ~can_finish(ask, stp) THEN a.s
                 ELSE EachAlightFromRt(m, ask, rd, r, i, a.s, et)
           Boards ==
             IF i = Len(r.stops) \/ ~can_start(ask, stp) \/ l \notin sv.prev_station_mark THEN {}
             ELSE {v \in ViaCounts(ask) :
                     better_or_eq(ask, sv.round_times[rd - 1][l][v],
                                  clamp(r.times[BoardEvent(ask, r, i)]))}
           A == RtStates(m, ask, rd, base)
<1>1. IsNetwork(m) /\ IsQuery(m, ask) /\ ask.dir \in {1, -1}
  BY DEF RideBase, IsQuery
<1>2. /\ a \in A /\ a.s \in RideStates(m, ask, rd, base) /\ a.et \in SUBSET ViaCounts(ask)
      /\ a.done \in BOOLEAN
  <2>1. a \in A
    BY Zenon DEF OnRtWay
  <2> HIDE DEF stp, l, kept, et, sv, Boards
  <2> QED
    BY <2>1 DEF RtStates
<1>3. b = IF a.done THEN a
          ELSE IF ~lb_reachable(ask, l) THEN [a EXCEPT !.s = sv, !.done = TRUE]
          ELSE [a EXCEPT !.s = sv, !.et = et \cup Boards]
  BY Zenon DEF RtStop, EachAlightFromRt, LocOf
<1>4. CASE a.done
  BY <1>2, <1>3, <1>4 DEF OnRtWay
<1>5. CASE ~a.done
  <2>1. \A v \in a.et : RtRiding(ask, rd, base, r, i - 1, i - 1, i - 1, v)
    BY <1>5 DEF OnRtWay
  <2>2. /\ et \in SUBSET ViaCounts(ask)
        /\ \A v \in et : RtRiding(ask, rd, base, r, i - 1, i, i, v)
    <3>1. kept = IF EndsRides(ask, r, i) THEN {} ELSE a.et
      BY DEF kept
    <3>2. et = IF i = 1 THEN kept ELSE Passed(ask, LocOf(ask, r, i), kept)
      BY DEF et, l
    <3> DEFINE e0 == a.et
    <3>3. e0 \in SUBSET ViaCounts(ask) /\ kept = IF EndsRides(ask, r, i) THEN {} ELSE e0
      BY <1>2, <3>1
    <3>4. \A v \in e0 : RtRiding(ask, rd, base, r, i - 1, i - 1, i - 1, v)
      BY <2>1
    <3> HIDE DEF kept, et, e0
    <3> QED
      BY <3>2, <3>3, <3>4, RtPassStop
  <2> HIDE DEF et, kept
  <2>3. sv \in RideStates(m, ask, rd, base)
    <3>1. CASE i # 1 /\ can_finish(ask, stp)
      <4>1. Numbers(et)
        BY <1>1, <2>2, QueryFacts, FS_Subset DEF Numbers
      <4>2. ASSUME NEW v \in et
            PROVE  Lands(m, ask, rd, base, r.stops[StopIdx(ask, r, i)].loc, v,
                         clamp(r.times[AlightEvent(ask, r, i)]))
        <5>1. v \in ViaCounts(ask) /\ RtRiding(ask, rd, base, r, i - 1, i, i, v)
          BY <2>2
        <5>2. Lands(m, ask, rd, base, LocOf(ask, r, i), v, clamp(r.times[AlightEvent(ask, r, i)]))
          BY <3>1, <5>1, RtLands
        <5> QED
          BY <5>2 DEF LocOf
      <4> DEFINE c == EachAlightFromRt(m, ask, rd, r, i, a.s, et)
      <4>3. c \in RideStates(m, ask, rd, base)
        BY <1>2, <4>1, <4>2, AlightFromRtAll
      <4> HIDE DEF c
      <4> QED
        BY <3>1, <4>3 DEF c
    <3>2. CASE ~(i # 1 /\ can_finish(ask, stp))
      BY <1>2, <3>2
    <3> QED
      BY <3>1, <3>2
  <2> HIDE DEF sv
  <2>4. i \in Nat /\ \A j \in 1..i - 1 : j \in 1..i
    BY <1>1, OnRtFacts
  <2>5. \A v \in et : RtRiding(ask, rd, base, r, i, i, i, v)
    BY <2>2, <2>4 DEF RtRiding
  <2>6. CASE ~lb_reachable(ask, l)
    <3>1. b = [a EXCEPT !.s = sv, !.done = TRUE]
      BY <1>3, <1>5, <2>6
    <3>2. b \in A /\ b.done
      BY <1>2, <2>3, <3>1 DEF RtStates
    <3> QED
      BY <3>2 DEF OnRtWay
  <2>7. CASE lb_reachable(ask, l)
    <3>1. b = [a EXCEPT !.s = sv, !.et = et \cup Boards]
      BY <1>3, <1>5, <2>7
    <3>2. ASSUME NEW v \in Boards
          PROVE  v \in ViaCounts(ask) /\ RtRiding(ask, rd, base, r, i, i, i, v)
      <4>1. /\ i # Len(r.stops) /\ can_start(ask, stp) /\ v \in ViaCounts(ask)
            /\ better_or_eq(ask, sv.round_times[rd - 1][l][v], clamp(r.times[BoardEvent(ask, r, i)]))
        OBVIOUS
      <4>2. RtBoardedAt(ask, rd, base, r, i, v)
        BY <2>3, <4>1 DEF RtBoardedAt, RideStates
      <4>3. i \in 1..i /\ i < Len(r.stops) /\ i + 1..i = {}
        BY <1>1, <2>4, <4>1, OnRtFacts
      <4>4. v \in AfterRide(ask, r, i, i, v)
        BY NoMoreVias
      <4> HIDE DEF Boards
      <4> QED
        BY <4>1, <4>2, <4>3, <4>4 DEF RtRiding
    <3>3. et \cup Boards \in SUBSET ViaCounts(ask)
      BY <2>2, <3>2
    <3> HIDE DEF Boards
    <3>4. b \in A /\ b.et = et \cup Boards
      BY <1>2, <2>3, <3>1, <3>3 DEF RtStates
    <3> QED
      BY <2>5, <3>2, <3>4 DEF OnRtWay
  <2> QED
    BY <2>6, <2>7
<1> QED
  BY <1>2, <1>4, <1>5

LEMMA RtStep ==
  ASSUME NEW m, NEW ask, NEW rd, NEW base, RideBase(m, ask, rd, base), NEW r, OnRt(m, ask, r),
         NEW a \in RideStates(m, ask, rd, base), NEW b, b = update_rt_transport(m, ask, rd, a, r)
  PROVE  b \in RideStates(m, ask, rd, base)
<1> DEFINE len == Len(r.stops)
           first == [s |-> a, et |-> {}, done |-> FALSE]
           J == {c \in Int \X RtStates(m, ask, rd, base) : OnRtWay(m, ask, rd, base, r, c[1], c[2])}
<1>1. IsNetwork(m) /\ ask.dir \in {1, -1} /\ len \in Nat
  BY OnRtFacts DEF RideBase, IsQuery
<1>2. \A i, c : <<i, c>> \in J <=> i \in Int /\ OnRtWay(m, ask, rd, base, r, i, c)
  BY DEF OnRtWay
<1>3. OnRtWay(m, ask, rd, base, r, 0, first)
  BY DEF RtStates, OnRtWay
<1> HIDE DEF J, first
<1>4. <<1 - 1, first>> \in J
  <2>1. 1 - 1 = 0
    OBVIOUS
  <2> QED
    BY <1>2, <1>3, <2>1
<1>5. ASSUME NEW i \in 1..len, NEW c, <<i - 1, c>> \in J
      PROVE  <<i, RtStop(m, ask, rd, r, c, i)>> \in J
  <2>1. OnRtWay(m, ask, rd, base, r, i - 1, c) /\ i \in Int
    BY <1>1, <1>2, <1>5
  <2> DEFINE d == RtStop(m, ask, rd, r, c, i)
  <2>2. OnRtWay(m, ask, rd, base, r, i, d)
    BY <2>1, RtStopStep
  <2> QED
    BY <1>2, <2>1, <2>2
<1> DEFINE last == EachRtStop(m, ask, rd, r, first, 1..len)
<1>6. <<len, last>> \in J
  <2> HIDE DEF len
  <2>1. 1 <= len + 1 /\ len \in Int
    BY <1>1
  <2> QED
    BY <1>4, <1>5, <2>1, RtStopUpTo
<1>7. b = last.s
  BY DEF update_rt_transport, EachRtStop, first
<1> HIDE DEF last
<1>8. last \in RtStates(m, ask, rd, base)
  BY <1>2, <1>6 DEF OnRtWay
<1> QED
  BY <1>7, <1>8 DEF RtStates

-----------------------------------------------------------------------------
(***************************************************************************)
(* All rides of a round.                                                   *)
(***************************************************************************)
LEMMA RoutesStep ==
  ASSUME NEW m, NEW ask, NEW rd, NEW base, RideBase(m, ask, rd, base),
         NEW a \in RideStates(m, ask, rd, base), NEW picked \in SUBSET DOMAIN m.routes,
         NEW b, b = loop_routes(m, ask, rd, a, picked)
  PROVE  b \in RideStates(m, ask, rd, base)
<1> DEFINE A == RideStates(m, ask, rd, base)
           S == {i \in picked : is_used(ask, m.routes[i])}
<1>1. ASSUME NEW x \in S, NEW st \in A PROVE update_route(m, ask, rd, st, m.routes[x]) \in A
  <2>1. OnRoute(m, ask, m.routes[x])
    BY DEF OnRoute, Used
  <2> QED
    BY <2>1, RouteStep
<1>2. Numbers(S)
  <2>1. IsNetwork(m)
    BY DEF RideBase
  <2>2. Len(m.routes) \in Nat /\ DOMAIN m.routes = 1..Len(m.routes)
    BY <2>1 DEF IsNetwork, IsList
  <2>3. S \subseteq 1..Len(m.routes)
    BY <2>2
  <2>4. IsFiniteSet(1..Len(m.routes))
    BY <2>2, FS_Interval
  <2>5. IsFiniteSet(S)
    BY <2>3, <2>4, FS_Subset
  <2> QED
    BY <2>2, <2>3, <2>5 DEF Numbers
<1>3. b = EachRoute(m, ask, rd, a, S)
  BY DEF loop_routes, EachRoute
<1> HIDE DEF A, S
<1>4. /\ a \in A /\ Forward(S, A, a, A \X A, S \X A)
      /\ \A x \in S : \A b1 \in A, b2 \in A : Goes(b1, b2, x, A, A \X A, S \X A)
  BY StaysIn DEF A
<1>5. Arrives(EachRoute(m, ask, rd, a, S), S, a, A, A \X A, S \X A)
  BY <1>1, <1>2, <1>4, RouteLoop
<1> QED
  BY <1>3, <1>4, <1>5, StaysIn DEF A

LEMMA RtTransportsStep ==
  ASSUME NEW m, NEW ask, NEW rd, NEW base, RideBase(m, ask, rd, base),
         NEW a \in RideStates(m, ask, rd, base), NEW picked \in SUBSET DOMAIN m.rt_transports,
         NEW b, b = loop_rt_routes(m, ask, rd, a, picked)
  PROVE  b \in RideStates(m, ask, rd, base)
<1> DEFINE A == RideStates(m, ask, rd, base)
           S == {i \in picked : is_used(ask, m.rt_transports[i])}
<1>1. ASSUME NEW x \in S, NEW st \in A
      PROVE  update_rt_transport(m, ask, rd, st, m.rt_transports[x]) \in A
  <2>1. OnRt(m, ask, m.rt_transports[x])
    BY DEF OnRt, Used
  <2> QED
    BY <2>1, RtStep
<1>2. Numbers(S)
  <2>1. IsNetwork(m)
    BY DEF RideBase
  <2>2. Len(m.rt_transports) \in Nat /\ DOMAIN m.rt_transports = 1..Len(m.rt_transports)
    BY <2>1 DEF IsNetwork, IsList
  <2>3. S \subseteq 1..Len(m.rt_transports)
    BY <2>2
  <2>4. IsFiniteSet(1..Len(m.rt_transports))
    BY <2>2, FS_Interval
  <2>5. IsFiniteSet(S)
    BY <2>3, <2>4, FS_Subset
  <2> QED
    BY <2>2, <2>3, <2>5 DEF Numbers
<1>3. b = EachRtTransport(m, ask, rd, a, S)
  BY DEF loop_rt_routes, EachRtTransport
<1> HIDE DEF A, S
<1>4. /\ a \in A /\ Forward(S, A, a, A \X A, S \X A)
      /\ \A x \in S : \A b1 \in A, b2 \in A : Goes(b1, b2, x, A, A \X A, S \X A)
  BY StaysIn DEF A
<1>5. Arrives(EachRtTransport(m, ask, rd, a, S), S, a, A, A \X A, S \X A)
  BY <1>1, <1>2, <1>4, RtTransportLoop
<1> QED
  BY <1>3, <1>4, <1>5, StaysIn DEF A

\* The rides of a round, and the stops at which they arrive marked for the walks.
LEMMA RoundRidden ==
  ASSUME NEW m, NEW ask, NEW rd, NEW base, RideBase(m, ask, rd, base),
         LabelsExplained(m, ask, base.round_times), InRide(m, ask, base, rd, {}),
         NEW picked, picked.routes \subseteq DOMAIN m.routes,
         picked.rt_transports \subseteq DOMAIN m.rt_transports,
         NEW b, b = ride_all(m, ask, rd, base, picked)
  PROVE  /\ b \in States(m, ask) /\ LabelsExplained(m, ask, b.round_times)
         /\ InRide(m, ask, b, rd, b.prev_station_mark)
         /\ b.round_times = base.round_times /\ HasLanded(m, ask, rd, base, b)
<1> DEFINE a1 == loop_routes(m, ask, rd, base, picked.routes)
           a2 == loop_rt_routes(m, ask, rd, a1, picked.rt_transports)
<1>1. base \in RideStates(m, ask, rd, base)
  <2>1. base \in States(m, ask)
    BY DEF RideBase
  <2>2. ArrivalsAre(m, ask, base, rd, base.station_mark)
    BY DEF InRide, ArrivalsAre
  <2> QED
    BY <2>1, <2>2 DEF RideStates, HasLanded
<1>2. b = swap_marks(a2)
  BY DEF ride_all
<1>3. a1 \in RideStates(m, ask, rd, base)
  BY <1>1, RoutesStep
<1>4. a2 \in RideStates(m, ask, rd, base)
  <2> HIDE DEF a1
  <2> QED
    BY <1>3, RtTransportsStep
<1> HIDE DEF a1, a2
<1>5. /\ a2 \in States(m, ask) /\ a2.round_times = base.round_times /\ a2.best = base.best
      /\ a2.time_at_dest = base.time_at_dest /\ ArrivalsAre(m, ask, a2, rd, a2.station_mark)
      /\ HasLanded(m, ask, rd, base, a2)
  BY <1>4 DEF RideStates
<1>6. /\ b \in States(m, ask) /\ b.round_times = a2.round_times /\ b.best = a2.best
      /\ b.time_at_dest = a2.time_at_dest /\ b.tmp = a2.tmp /\ b.prev_station_mark = a2.station_mark
  BY <1>2, <1>5 DEF swap_marks, States
<1>7. ArrivalsAre(m, ask, b, rd, b.prev_station_mark)
  BY <1>5, <1>6 DEF ArrivalsAre
<1>8. BestKnown(m, ask, b, rd)
  BY <1>5, <1>6 DEF InRide, BestKnown
<1>9. Pruned(m, ask, b, rd)
  BY <1>5, <1>6 DEF InRide, Pruned, Promising
<1>10. HasLanded(m, ask, rd, base, b)
  BY <1>5, <1>6 DEF HasLanded
<1> QED
  BY <1>5, <1>6, <1>7, <1>8, <1>9, <1>10 DEF InRide

-----------------------------------------------------------------------------
(***************************************************************************)
(* The labels a start time begins with: those of round 0 get better, the   *)
(* best are theirs, there are no arrivals.                                 *)
(***************************************************************************)
\* The labels of round 0 are earlier ones or starts, those of the end are earlier ones.
BegunAt(m, ask, base, starts, st) ==
  /\ \A l \in AllLocations(m), v \in ViaCounts(ask) :
       \/ st.round_times[0][l][v] = base.round_times[0][l][v]
       \/ \E x \in starts : x.stop = l /\ x.v = v /\ st.round_times[0][l][v] = clamp(x.time)
  /\ \A i \in Rounds, v \in ViaCounts(ask) : st.round_times[i][kEnd][v] = base.round_times[i][kEnd][v]

BeginStates(m, ask, base, starts) ==
  {st \in States(m, ask) :
     /\ LabelsExplained(m, ask, st.round_times) /\ BestKnown(m, ask, st, 0)
     /\ \A l \in AllLocations(m), v \in ViaCounts(ask) : st.tmp[l][v] = kInvalid(ask)
     /\ BegunAt(m, ask, base, starts, st)}

LEMMA AddStartStep ==
  ASSUME NEW m, IsNetwork(m), NEW ask, IsQuery(m, ask), NEW base, NEW starts, NEW x \in starts,
         IsStart(m, ask, x), NEW a \in BeginStates(m, ask, base, starts),
         NEW b, b = add_start(ask, a, x.stop, x.time, x.v)
  PROVE  b \in BeginStates(m, ask, base, starts)
<1> DEFINE l == x.stop
           v == x.v
           t == clamp(x.time)
           u == best_of(ask, t, a.best[l][v])
           w == best_of(ask, t, a.round_times[0][l][v])
           best2 == [a.best EXCEPT ![l][v] = u]
           rt2 == [a.round_times EXCEPT ![0][l][v] = w]
           marks2 == a.station_mark \cup {l}
           c == [a EXCEPT !.best = best2, !.round_times = rt2, !.station_mark = marks2]
<1>1. /\ ask.dir \in {1, -1} /\ l \in AllLocations(m) /\ l \in Nodes(m) /\ v \in ViaCounts(ask)
      /\ 0 \in Rounds /\ a \in States(m, ask)
  BY RoundFacts DEF IsQuery, IsStart, Nodes, BeginStates
<1>2. t \in LabelTimes(ask) /\ t \in Int
  BY ClampedIsInt DEF IsStart, LabelTimes
<1>3. b = c
  <2>1. b = [a EXCEPT !.best[l][v] = u, !.round_times[0][l][v] = w, !.station_mark = marks2]
    BY <1>1 DEF add_start, States, Labels
  <2> HIDE DEF u, w, marks2
  <2> QED
    BY <1>1, <2>1 DEF States, Labels
<1>4. /\ a.best[l][v] \in LabelTimes(ask) /\ a.best[l][v] \in Int
      /\ a.round_times[0][l][v] \in LabelTimes(ask) /\ a.round_times[0][l][v] \in Int
  BY <1>1, StateFacts, LabelFacts
<1>5. /\ u \in LabelTimes(ask) /\ u \in {t, a.best[l][v]}
      /\ w \in LabelTimes(ask) /\ w \in Int /\ w \in {t, a.round_times[0][l][v]}
      /\ better_or_eq(ask, w, t) /\ better_or_eq(ask, w, a.round_times[0][l][v])
  BY <1>1, <1>2, <1>4, BestOf
<1>15. x \in starts /\ x.stop = l /\ x.v = v /\ clamp(x.time) = t /\ l # kEnd
  BY <1>1 DEF IsNetwork, kEnd
<1> HIDE DEF u, w, t, l, v
<1>6. AreLabels(m, ask, a.round_times) /\ a.best \in Labels(m, ask)
  BY <1>1, StateFacts DEF States
<1>7. IsSet(m, ask, a.round_times, rt2, 0, l, v, w)
  BY <1>1, <1>5, <1>6 DEF AreLabels, Labels, IsSet
<1>8. /\ best2 \in Labels(m, ask)
      /\ \A y \in Nodes(m), z \in ViaCounts(ask) :
           best2[y][z] = IF y = l /\ z = v THEN u ELSE a.best[y][z]
  BY <1>1, <1>5, <1>6 DEF Labels
<1>9. marks2 \in SUBSET AllLocations(m)
  BY <1>1 DEF States
<1> HIDE DEF best2, rt2, marks2
<1>10. rt2 \in [Rounds -> Labels(m, ask)] /\ AreLabels(m, ask, rt2)
  BY <1>7 DEF IsSet, AreLabels
<1>11. /\ c \in States(m, ask) /\ c.round_times = rt2 /\ c.best = best2 /\ c.tmp = a.tmp
  BY <1>1, <1>8, <1>9, <1>10 DEF States
<1> HIDE DEF c
<1>12. Grown(m, ask, a.round_times, rt2)
  BY <1>1, <1>5, <1>6, <1>7, SetLabelGrows
<1>13. LabelsExplained(m, ask, rt2)
  <2> SUFFICES ASSUME NEW i \in Rounds \ {0}, NEW y \in AllLocations(m), NEW z \in ViaCounts(ask)
               PROVE  Explained(m, ask, rt2, i, y, z, rt2[i][y][z])
    BY DEF LabelsExplained
  <2>1. y \in Nodes(m) /\ rt2[i] = a.round_times[i]
    BY <1>7 DEF IsSet, Nodes
  <2>2. a.round_times[i][y][z] \in Int
    BY <1>6, <2>1, LabelFacts
  <2>3. Explained(m, ask, a.round_times, i, y, z, a.round_times[i][y][z])
    BY DEF BeginStates, LabelsExplained
  <2> QED
    BY <1>1, <1>6, <1>10, <1>12, <2>1, <2>2, <2>3, ExplainedGrows
<1>14. BestKnown(m, ask, c, 0)
  <2>1. ASSUME NEW y \in AllLocations(m), NEW z \in ViaCounts(ask)
        PROVE  c.best[y][z] = a.best[y][z] \/ Known(ask, c.round_times, 0, y, z, c.best[y][z])
    <3>1. y \in Nodes(m)
      BY DEF Nodes
    <3>2. CASE y = l /\ z = v /\ u = t
      <4>1. Known(ask, rt2, 0, l, v, t)
        BY <1>1, <1>2, <1>5, <1>7, TargetIsKnown
      <4> QED
        BY <1>8, <1>11, <3>1, <3>2, <4>1
    <3>3. CASE ~(y = l /\ z = v /\ u = t)
      BY <1>5, <1>8, <1>11, <3>1, <3>3
    <3> QED
      BY <3>2, <3>3
  <2>2. BestKnown(m, ask, a, 0)
    BY DEF BeginStates
  <2> QED
    BY <1>1, <1>11, <1>12, <2>1, <2>2, BestStaysKnown
<1>16. BegunAt(m, ask, base, starts, c)
  <2>1. BegunAt(m, ask, base, starts, a)
    BY DEF BeginStates
  <2>2. ASSUME NEW y \in AllLocations(m), NEW z \in ViaCounts(ask)
        PROVE  \/ rt2[0][y][z] = base.round_times[0][y][z]
               \/ \E o \in starts : o.stop = y /\ o.v = z /\ rt2[0][y][z] = clamp(o.time)
    <3>1. y \in Nodes(m)
      BY DEF Nodes
    <3>2. rt2[0][y][z] = IF y = l /\ z = v THEN w ELSE a.round_times[0][y][z]
      BY <1>1, <1>7, <3>1 DEF IsSet
    <3>3. CASE y = l /\ z = v /\ w = t
      BY <1>15, <3>2, <3>3
    <3>4. CASE ~(y = l /\ z = v /\ w = t)
      <4>1. rt2[0][y][z] = a.round_times[0][y][z]
        BY <1>5, <3>2, <3>4
      <4> QED
        BY <2>1, <4>1 DEF BegunAt
    <3> QED
      BY <3>3, <3>4
  <2>3. ASSUME NEW i \in Rounds, NEW z \in ViaCounts(ask)
        PROVE  rt2[i][kEnd][z] = base.round_times[i][kEnd][z]
    <3>1. kEnd \in Nodes(m)
      BY DEF Nodes
    <3>2. rt2[i][kEnd][z] = a.round_times[i][kEnd][z]
      BY <1>7, <1>15, <3>1 DEF IsSet
    <3> QED
      BY <2>1, <3>2 DEF BegunAt
  <2> QED
    BY <1>11, <2>2, <2>3 DEF BegunAt
<1> QED
  BY <1>3, <1>11, <1>13, <1>14, <1>16 DEF BeginStates

LEMMA NextStartTime ==
  ASSUME NEW m, IsNetwork(m), NEW ask, IsQuery(m, ask), NEW a \in States(m, ask),
         LabelsExplained(m, ask, a.round_times), NEW starts, NEW b, b = next_start_time(m, ask, a)
  PROVE  b \in BeginStates(m, ask, a, starts)
<1>1. /\ ask.dir \in {1, -1} /\ 0 \in Rounds /\ AreLabels(m, ask, a.round_times)
      /\ AllLocations(m) \subseteq Nodes(m)
  BY RoundFacts, StateFacts DEF IsQuery
<1>2. /\ Invalid(m, ask) \in Labels(m, ask)
      /\ \A l \in Nodes(m), v \in ViaCounts(ask) : Invalid(m, ask)[l][v] = kInvalid(ask)
  BY <1>1, TimeFacts DEF Invalid, Labels
<1>3. /\ b \in States(m, ask) /\ b.round_times = a.round_times
      /\ b.best = Invalid(m, ask) /\ b.tmp = Invalid(m, ask)
  BY <1>2 DEF next_start_time, States
<1>4. BestKnown(m, ask, b, 0)
  <2> SUFFICES ASSUME NEW l \in AllLocations(m), NEW v \in ViaCounts(ask)
               PROVE  Known(ask, a.round_times, 0, l, v, kInvalid(ask))
    BY <1>1, <1>2, <1>3 DEF BestKnown
  <2>1. a.round_times[0][l][v] \in LabelTimes(ask)
    BY <1>1, LabelFacts
  <2>2. better_or_eq(ask, a.round_times[0][l][v], kInvalid(ask))
    BY <1>1, <2>1, TimeFacts
  <2> QED
    BY <2>2 DEF Known
<1>5. BegunAt(m, ask, a, starts, b)
  BY <1>3 DEF BegunAt
<1> QED
  BY <1>1, <1>2, <1>3, <1>4, <1>5 DEF BeginStates

LEMMA StartBegun ==
  ASSUME NEW m, IsNetwork(m), NEW ask, IsQuery(m, ask), NEW a \in States(m, ask),
         LabelsExplained(m, ask, a.round_times), NEW worst \in Int,
         NEW starts, IsFiniteSet(starts), \A x \in starts : IsStart(m, ask, x),
         NEW b, b = begin(m, ask, a, starts, worst)
  PROVE  /\ b \in States(m, ask) /\ LabelsExplained(m, ask, b.round_times)
         /\ InBegin(m, ask, b, 1) /\ BegunAt(m, ask, a, starts, b)
         /\ \A l \in AllLocations(m), v \in ViaCounts(ask) : b.tmp[l][v] = kInvalid(ask)
<1> DEFINE A == BeginStates(m, ask, a, starts)
           first == next_start_time(m, ask, a)
           c == EachAddStart(ask, first, starts)
<1>1. first \in A
  BY NextStartTime
<1>2. \A x \in starts : \A st \in A : add_start(ask, st, x.stop, x.time, x.v) \in A
  BY AddStartStep
<1>3. b = update_time_at_dest(ask, c, 0, clamp(worst))
  BY DEF begin, limit_time_at_dest, EachAddStart
<1>4. c \in A
  <2> HIDE DEF A, first
  <2>1. /\ first \in A /\ Forward(starts, A, first, A \X A, starts \X A)
        /\ \A x \in starts : \A b1 \in A, b2 \in A : Goes(b1, b2, x, A, A \X A, starts \X A)
    BY <1>1, StaysIn DEF A
  <2>2. Arrives(EachAddStart(ask, first, starts), starts, first, A, A \X A, starts \X A)
    BY <1>2, <2>1, AddStartLoop
  <2> QED
    BY <2>1, <2>2, StaysIn
<1> HIDE DEF c
<1>5. /\ c \in States(m, ask) /\ LabelsExplained(m, ask, c.round_times) /\ BestKnown(m, ask, c, 0)
      /\ \A l \in AllLocations(m), v \in ViaCounts(ask) : c.tmp[l][v] = kInvalid(ask)
      /\ BegunAt(m, ask, a, starts, c)
  BY <1>4 DEF BeginStates
<1> HIDE DEF A, first
<1>6. /\ b \in States(m, ask) /\ b.round_times = c.round_times
      /\ b.best = c.best /\ b.tmp = c.tmp
  <2>1. ask.dir \in {1, -1} /\ 0 \in Rounds /\ clamp(worst) \in Int
    BY RoundFacts, ClampedIsInt DEF IsQuery
  <2> DEFINE t == clamp(worst)
  <2>2. t \in Int
    BY <2>1
  <2> HIDE DEF t
  <2>3. /\ update_time_at_dest(ask, c, 0, t) \in States(m, ask)
        /\ \A f \in {"round_times", "best", "tmp", "station_mark", "prev_station_mark", "bounds"} :
             update_time_at_dest(ask, c, 0, t)[f] = c[f]
    BY <1>5, <2>1, <2>2, LimitImproves
  <2>4. b = update_time_at_dest(ask, c, 0, t)
    BY <1>3 DEF t
  <2> QED
    BY <2>3, <2>4
<1>7. BestKnown(m, ask, b, 1 - 1)
  <2>1. 1 - 1 = 0
    OBVIOUS
  <2>2. BestKnown(m, ask, b, 0)
    BY <1>5, <1>6 DEF BestKnown
  <2> QED
    BY <2>1, <2>2
<1>8. ArrivalsAre(m, ask, b, 1, {})
  BY <1>5, <1>6 DEF ArrivalsAre
<1>9. BegunAt(m, ask, a, starts, b)
  BY <1>5, <1>6 DEF BegunAt
<1> QED
  BY <1>5, <1>6, <1>7, <1>8, <1>9 DEF InBegin

(***************************************************************************)
(* A round takes the labels it has from earlier start times as the best.   *)
(***************************************************************************)
LEMMA RoundBegun ==
  ASSUME NEW m, NEW ask, NEW rd, NEW a, RideBase(m, ask, rd, a),
         LabelsExplained(m, ask, a.round_times), InBegin(m, ask, a, rd),
         NEW b, b = begin_round(m, ask, rd, a)
  PROVE  /\ b \in States(m, ask) /\ LabelsExplained(m, ask, b.round_times)
         /\ InRide(m, ask, b, rd, {}) /\ b.round_times = a.round_times /\ b.tmp = a.tmp
<1> DEFINE best2 == [l \in Nodes(m) |-> [v \in ViaCounts(ask) |->
                       best_of(ask, a.round_times[rd][l][v], a.best[l][v])]]
           c == [a EXCEPT !.best = best2]
           A == {st \in States(m, ask) : st.round_times = a.round_times /\ st.best = best2 /\ st.tmp = a.tmp}
<1>1. /\ IsNetwork(m) /\ IsQuery(m, ask) /\ ask.dir \in {1, -1} /\ rd \in Rounds /\ rd \in Rounds \ {0}
      /\ a \in States(m, ask)
  BY DEF RideBase, IsQuery
<1>2. ASSUME NEW l \in Nodes(m), NEW v \in ViaCounts(ask)
      PROVE  /\ best2[l][v] \in LabelTimes(ask) /\ best2[l][v] \in Int
             /\ best2[l][v] \in {a.round_times[rd][l][v], a.best[l][v]}
             /\ better_or_eq(ask, best2[l][v], a.round_times[rd][l][v])
  <2>1. /\ a.best[l][v] \in LabelTimes(ask) /\ a.best[l][v] \in Int
        /\ a.round_times[rd][l][v] \in LabelTimes(ask) /\ a.round_times[rd][l][v] \in Int
    BY <1>1, StateFacts, LabelFacts
  <2>2. best2[l][v] = best_of(ask, a.round_times[rd][l][v], a.best[l][v])
    OBVIOUS
  <2> HIDE DEF best2
  <2> QED
    BY <1>1, <2>1, <2>2, BestOf
<1>3. best2 \in Labels(m, ask)
  BY <1>2 DEF Labels
<1>4. b = EachLimit(ask, rd, best2, c, ask.is_dest)
  BY DEF begin_round, EachLimit
<1> HIDE DEF best2
<1>5. c \in A
  BY <1>1, <1>3 DEF States
<1> HIDE DEF c
<1>6. Numbers(ask.is_dest) /\ ask.is_dest \subseteq Nodes(m)
  <2>1. Nodes(m) \subseteq Int /\ IsFiniteSet(Nodes(m))
    <3>1. kEnd \in Int
      BY DEF kEnd
    <3>2. IsFiniteSet(AllLocations(m)) /\ AllLocations(m) \subseteq Int
      BY <1>1 DEF IsNetwork
    <3>3. IsFiniteSet(AllLocations(m) \cup {kEnd})
      BY <3>2, FS_AddElement
    <3> QED
      BY <3>1, <3>2, <3>3 DEF Nodes
  <2>2. ask.is_dest \subseteq Nodes(m)
    BY <1>1 DEF IsQuery
  <2>3. IsFiniteSet(ask.is_dest)
    BY <2>1, <2>2, FS_Subset
  <2> QED
    BY <2>1, <2>2, <2>3 DEF Numbers
<1> DEFINE S == ask.is_dest
<1>7. ASSUME NEW x \in S, NEW st \in A
      PROVE  update_time_at_dest(ask, st, rd, best2[x][Vias(ask)]) \in A
  <2> DEFINE t == best2[x][Vias(ask)]
  <2>1. t \in Int
    <3>1. Vias(ask) \in ViaCounts(ask) /\ x \in Nodes(m)
      BY <1>1, <1>6, QueryFacts
    <3> QED
      BY <1>2, <3>1
  <2> HIDE DEF t
  <2>2. /\ update_time_at_dest(ask, st, rd, t) \in States(m, ask)
        /\ \A f \in {"round_times", "best", "tmp", "station_mark", "prev_station_mark", "bounds"} :
             update_time_at_dest(ask, st, rd, t)[f] = st[f]
    BY <1>1, <2>1, LimitImproves
  <2>3. update_time_at_dest(ask, st, rd, t) \in A
    BY <2>2
  <2> QED
    BY <2>3 DEF t
<1>8. b \in A
  <2> HIDE DEF A, S
  <2>1. /\ c \in A /\ Forward(S, A, c, A \X A, S \X A)
        /\ \A x \in S : \A b1 \in A, b2 \in A : Goes(b1, b2, x, A, A \X A, S \X A)
    BY <1>5, StaysIn
  <2>2. Numbers(S)
    BY <1>6 DEF S
  <2>3. Arrives(EachLimit(ask, rd, best2, c, S), S, c, A, A \X A, S \X A)
    BY <1>7, <2>1, <2>2, LimitLoop
  <2>4. b = EachLimit(ask, rd, best2, c, S)
    BY <1>4 DEF S
  <2> QED
    BY <2>1, <2>3, <2>4, StaysIn
<1>9. /\ b \in States(m, ask) /\ b.round_times = a.round_times /\ b.best = best2 /\ b.tmp = a.tmp
  BY <1>8
<1> HIDE DEF A, S
<1>10. BestKnown(m, ask, b, rd)
  <2> SUFFICES ASSUME NEW l \in AllLocations(m), NEW v \in ViaCounts(ask)
               PROVE  Known(ask, a.round_times, rd, l, v, best2[l][v])
    BY <1>9 DEF BestKnown
  <2>1. l \in Nodes(m) /\ rd \in Nat
    BY <1>1, RoundFacts DEF Nodes
  <2>2. CASE best2[l][v] = a.round_times[rd][l][v]
    <3>1. a.round_times[rd][l][v] \in Int
      BY <1>1, <2>1, StateFacts, LabelFacts
    <3>2. better_or_eq(ask, a.round_times[rd][l][v], a.round_times[rd][l][v])
      BY <1>1, <3>1, Order
    <3>3. rd \in 0..rd
      BY <2>1
    <3> QED
      BY <2>2, <3>2, <3>3 DEF Known
  <2>3. CASE best2[l][v] = a.best[l][v]
    <3>1. Known(ask, a.round_times, rd - 1, l, v, a.best[l][v])
      BY DEF InBegin, BestKnown
    <3>2. rd - 1 \in Int /\ rd \in Int /\ rd - 1 <= rd
      BY <2>1
    <3> DEFINE t == a.best[l][v]
               i == rd - 1
    <3> HIDE DEF t, i
    <3>3. i \in Int /\ i <= rd /\ Known(ask, a.round_times, i, l, v, t)
      BY <3>1, <3>2 DEF t, i
    <3>4. Known(ask, a.round_times, rd, l, v, t)
      BY <3>2, <3>3, KnownLater
    <3> QED
      BY <2>3, <3>4 DEF t
  <2> QED
    BY <1>2, <2>1, <2>2, <2>3
<1>11. Pruned(m, ask, b, rd)
  <2> SUFFICES ASSUME NEW l \in AllLocations(m), NEW v \in ViaCounts(ask)
               PROVE  ~better(ask, a.round_times[rd][l][v], best2[l][v])
    BY <1>9 DEF Pruned
  <2>1. l \in Nodes(m)
    BY DEF Nodes
  <2>2. a.round_times[rd][l][v] \in Int
    BY <1>1, <2>1, StateFacts, LabelFacts
  <2>3. best2[l][v] \in Int /\ better_or_eq(ask, best2[l][v], a.round_times[rd][l][v])
    BY <1>2, <2>1
  <2> QED
    BY <1>1, <2>2, <2>3, Order
<1>12. ArrivalsAre(m, ask, b, rd, {})
  BY <1>9 DEF InBegin, ArrivalsAre
<1> QED
  BY <1>9, <1>10, <1>11, <1>12 DEF InRide

-----------------------------------------------------------------------------
(***************************************************************************)
(* The steps of the search.                                                *)
(***************************************************************************)
LEMMA SearchFacts ==
  ASSUME Control
  PROVE  /\ IsNetwork(n) /\ IsQuery(n, q) /\ end_k \in Nat /\ 1 <= end_k
         /\ \A i \in 1..end_k - 1 : i \in Rounds \ {0} /\ i + 1 \in 1..end_k
         /\ todo # <<>> =>
              /\ start_time \in Int /\ IsFiniteSet(Head(todo).starts)
              /\ \A x \in Head(todo).starts : IsStart(n, q, x)
              /\ Tail(todo) \in Seq({search.starts[i] : i \in DOMAIN search.starts})
<1>1. /\ IsNetwork(n) /\ IsQuery(n, q)
      /\ \A i \in DOMAIN search.starts :
           /\ search.starts[i].time_at_start \in Int /\ IsFiniteSet(search.starts[i].starts)
           /\ \A y \in search.starts[i].starts : IsStart(n, q, y)
  BY SearchesAssumption DEF Control, n, q
<1>2. q.max_transfers \in Nat
  BY <1>1 DEF IsQuery
<1>3. /\ end_k \in Nat /\ 1 <= end_k
      /\ \A i \in 1..end_k - 1 : i \in Rounds \ {0} /\ i + 1 \in 1..end_k
  BY <1>2, LabelAssumption DEF end_k, last_round, Rounds
<1>4. ASSUME todo # <<>>
      PROVE  /\ Head(todo) \in {search.starts[i] : i \in DOMAIN search.starts}
             /\ Tail(todo) \in Seq({search.starts[i] : i \in DOMAIN search.starts})
  BY <1>4 DEF Control
<1> QED
  BY <1>1, <1>3, <1>4 DEF start_time

LEMMA InvInit ==
  ASSUME Init
  PROVE  RaptorInv
<1>1. search \in Searches /\ IsQuery(n, q) /\ IsNetwork(n) /\ IsList(search.starts)
  BY SearchesAssumption DEF Init, n, q
<1>2. Control
  <2>1. todo \in Seq({search.starts[i] : i \in DOMAIN search.starts})
    BY <1>1 DEF Init, IsList
  <2> QED
    BY <1>1, <2>1 DEF Init, Control, NothingMarked
<1>3. q.dir \in {1, -1}
  BY <1>1 DEF IsQuery
<1>4. /\ Invalid(n, q) \in Labels(n, q)
      /\ \A l \in Nodes(n), v \in ViaCounts(q) : Invalid(n, q)[l][v] = kInvalid(q)
  BY <1>3, TimeFacts DEF Invalid, Labels
<1>5. s \in States(n, q) /\ \A i \in Rounds : s.round_times[i] = Invalid(n, q)
  BY <1>3, <1>4, TimeFacts DEF Init, InitialState, States
<1>6. LabelsExplained(n, q, s.round_times)
  BY <1>4, <1>5 DEF LabelsExplained, Explained, Nodes
<1> QED
  BY <1>2, <1>5, <1>6 DEF RaptorInv, Init

LEMMA InvStart ==
  ASSUME RaptorInv, Start
  PROVE  RaptorInv'
<1>1. /\ Control /\ pc = "start" /\ todo # <<>> /\ s \in States(n, q)
      /\ LabelsExplained(n, q, s.round_times)
      /\ n' = n /\ q' = q /\ end_k' = end_k /\ k' = 1 /\ pc' = "begin"
      /\ s' = begin(n, q, s, Head(todo).starts, worst_time_at_dest)
  BY DEF RaptorInv, Start, n, q, end_k
<1>2. worst_time_at_dest \in Int
  <2>1. start_time \in Int /\ q.dir \in {1, -1} /\ q.max_travel_time \in Int
    BY <1>1, SearchFacts DEF IsQuery
  <2> DEFINE d == IF IsOneToAll THEN q.max_travel_time ELSE q.max_travel_time + 1
  <2>2. d \in Int
    BY <2>1
  <2>3. worst_time_at_dest = start_time + q.dir * d
    BY DEF worst_time_at_dest
  <2> HIDE DEF d
  <2> QED
    BY <2>1, <2>2, <2>3
<1>3. /\ s' \in States(n, q) /\ LabelsExplained(n, q, s'.round_times) /\ InBegin(n, q, s', 1)
  BY <1>1, <1>2, SearchFacts, StartBegun
<1>4. Control'
  <2>1. k' \in (1..end_k)'
    BY <1>1, SearchFacts
  <2> QED
    BY <1>1, <2>1 DEF Control, Start, n, q
<1> QED
  BY <1>1, <1>3, <1>4 DEF RaptorInv

LEMMA InvBeginRound ==
  ASSUME RaptorInv, BeginRound
  PROVE  RaptorInv'
<1> DEFINE begun == begin_round(n, q, k, s)
           marks == Marks(n, s)
<1>1. /\ Control /\ pc = "begin" /\ k \in 1..end_k - 1 /\ s \in States(n, q)
      /\ LabelsExplained(n, q, s.round_times) /\ InBegin(n, q, s, k)
      /\ search' = search /\ todo' = todo /\ k' = k /\ n' = n /\ q' = q /\ end_k' = end_k
  <2>1. Control /\ pc = "begin" /\ k < end_k
    BY DEF RaptorInv, BeginRound
  <2>2. k \in 1..end_k - 1
    BY <2>1, SearchFacts DEF Control
  <2> QED
    BY <2>1, <2>2 DEF RaptorInv, BeginRound, n, q, end_k
<1>2. \/ s' = begun /\ pc' = "collect" /\ marked' = marked
      \/ s' = swap_marks(begun) /\ pc' = "ride" /\ marked' = marks
  BY DEF BeginRound
<1>3. RideBase(n, q, k, s)
  BY <1>1, SearchFacts DEF RideBase
<1>4. /\ begun \in States(n, q) /\ LabelsExplained(n, q, begun.round_times)
      /\ InRide(n, q, begun, k, {})
  BY <1>1, <1>3, RoundBegun
<1> HIDE DEF begun
<1>5. /\ swap_marks(begun) \in States(n, q)
      /\ swap_marks(begun).round_times = begun.round_times /\ swap_marks(begun).best = begun.best
      /\ swap_marks(begun).time_at_dest = begun.time_at_dest /\ swap_marks(begun).tmp = begun.tmp
  BY <1>4 DEF swap_marks, States
<1>6. InRide(n, q, swap_marks(begun), k, {})
  BY <1>4, <1>5 DEF InRide, BestKnown, Pruned, Promising, ArrivalsAre
<1>7. marks.routes \subseteq DOMAIN n.routes /\ marks.rt_transports \subseteq DOMAIN n.rt_transports
  BY DEF Marks, MarkedBy
<1> HIDE DEF marks
<1>8. Control'
  BY <1>1, <1>2, <1>7 DEF Control
<1> QED
  BY <1>1, <1>2, <1>4, <1>5, <1>6, <1>8 DEF RaptorInv

LEMMA InvRide ==
  ASSUME RaptorInv, Ride
  PROVE  RaptorInv'
<1>1. /\ Control /\ pc = "ride" /\ k \in 1..end_k - 1 /\ s \in States(n, q)
      /\ LabelsExplained(n, q, s.round_times) /\ InRide(n, q, s, k, {})
      /\ search' = search /\ todo' = todo /\ k' = k /\ n' = n /\ q' = q /\ end_k' = end_k
      /\ s' = ride_all(n, q, k, s, marked) /\ pc' = "walk" /\ marked' = NothingMarked
  BY DEF RaptorInv, Ride, Control, n, q, end_k
<1>2. RideBase(n, q, k, s)
  BY <1>1, SearchFacts DEF RideBase
<1>3. marked.routes \subseteq DOMAIN n.routes /\ marked.rt_transports \subseteq DOMAIN n.rt_transports
  BY <1>1 DEF Control
<1>4. /\ s' \in States(n, q) /\ LabelsExplained(n, q, s'.round_times)
      /\ InRide(n, q, s', k, s'.prev_station_mark)
  BY <1>1, <1>2, <1>3, RoundRidden
<1>5. Control'
  BY <1>1 DEF Control, NothingMarked
<1> QED
  BY <1>1, <1>4, <1>5 DEF RaptorInv

LEMMA InvWalk ==
  ASSUME RaptorInv, Walk
  PROVE  RaptorInv'
<1>1. /\ Control /\ pc = "walk" /\ k \in 1..end_k - 1 /\ s \in States(n, q)
      /\ LabelsExplained(n, q, s.round_times) /\ InRide(n, q, s, k, s.prev_station_mark)
      /\ search' = search /\ todo' = todo /\ marked' = marked /\ n' = n /\ q' = q /\ end_k' = end_k
      /\ s' = walk_all(n, q, k, s) /\ pc' = "begin" /\ k' = k + 1
  BY DEF RaptorInv, Walk, Control, n, q, end_k
<1>2. IsNetwork(n) /\ IsQuery(n, q) /\ k \in Rounds \ {0} /\ k + 1 \in 1..end_k
  BY <1>1, SearchFacts
<1>3. WalkBase(n, q, k, s)
  BY <1>1, <1>2 DEF WalkBase, InRide
<1>4. s \in WalkStates(n, q, k, s)
  BY <1>1 DEF WalkStates, InRide, EndsAre
<1>5. /\ s' \in States(n, q) /\ LabelsExplained(n, q, s'.round_times)
      /\ BestKnown(n, q, s', k) /\ ArrivalsAre(n, q, s', k + 1, {})
  BY <1>1, <1>3, <1>4, RoundWalked
<1>6. InBegin(n, q, s', k + 1)
  <2>1. (k + 1) - 1 = k
    BY <1>1, SearchFacts
  <2> QED
    BY <1>5, <2>1 DEF InBegin
<1>7. Control'
  BY <1>1, <1>2 DEF Control
<1> QED
  BY <1>1, <1>5, <1>6, <1>7 DEF RaptorInv

LEMMA InvCollect ==
  ASSUME RaptorInv, Collect
  PROVE  RaptorInv'
<1>1. /\ Control /\ todo # <<>> /\ s \in States(n, q) /\ LabelsExplained(n, q, s.round_times)
      /\ search' = search /\ todo' = Tail(todo) /\ marked' = marked /\ n' = n /\ q' = q
      /\ s' = s /\ pc' = "start"
  BY DEF RaptorInv, Collect, Control, n, q
<1>2. todo' \in Seq({search.starts[i] : i \in DOMAIN search.starts})
  BY <1>1, SearchFacts
<1>3. Control'
  BY <1>1, <1>2 DEF Control
<1> QED
  BY <1>1, <1>3 DEF RaptorInv

LEMMA InvStutter ==
  ASSUME RaptorInv, UNCHANGED vars
  PROVE  RaptorInv'
<1>1. /\ search' = search /\ s' = s /\ todo' = todo /\ k' = k /\ marked' = marked /\ pc' = pc
      /\ n' = n /\ q' = q /\ end_k' = end_k
  BY DEF vars, n, q, end_k
<1>2. Control'
  BY <1>1 DEF RaptorInv, Control
<1> QED
  BY <1>1, <1>2 DEF RaptorInv

(***************************************************************************)
(* RaptorInv is invariant. Between the steps of a round: every label of    *)
(* every round is explained by those of the round before; the best label   *)
(* of a place is as good as a label of this round or an earlier one allows;*)
(* a label of this round that is better than it is no use before the       *)
(* limit; every arrival either comes from a ride on the labels of the      *)
(* round before and is marked for the walks, or all its walks are known.   *)
(***************************************************************************)
THEOREM RaptorInvariant == Spec => []RaptorInv
<1>1. Init => RaptorInv
  BY InvInit
<1>2. RaptorInv /\ [Next]_vars => RaptorInv'
  <2> SUFFICES ASSUME RaptorInv, [Next]_vars PROVE RaptorInv'
    OBVIOUS
  <2>1. CASE Start
    BY <2>1, InvStart
  <2>2. CASE BeginRound
    BY <2>2, InvBeginRound
  <2>3. CASE Ride
    BY <2>3, InvRide
  <2>4. CASE Walk
    BY <2>4, InvWalk
  <2>5. CASE Collect
    BY <2>5, InvCollect
  <2>6. CASE Done \/ UNCHANGED vars
    BY <2>6, InvStutter DEF Done
  <2> QED
    BY <2>1, <2>2, <2>3, <2>4, <2>5, <2>6 DEF Next
<1> QED
  BY <1>1, <1>2, PTL DEF Spec

(***************************************************************************)
(* A label that is better than those of earlier rounds is a ride and a     *)
(* walk away from a label of the round before, in every network, for every *)
(* query and every sequence of start times.                                *)
(***************************************************************************)
THEOREM LabelsCanBeTravelled == Spec => []Reconstructible
<1>1. RaptorInv => Reconstructible
  <2> SUFFICES ASSUME RaptorInv, NEW i \in Rounds \ {0}, NEW p \in Improving(i)
               PROVE  p \in Onward(n, q, Arrivals(n, q, s.round_times, i - 1))
    BY DEF Reconstructible, LabelsOf, PlacesOf, Arrivals, Onward
  <2>1. /\ s \in States(n, q) /\ LabelsExplained(n, q, s.round_times) /\ q.dir \in {1, -1}
    BY SearchFacts DEF RaptorInv, IsQuery
  <2>2. /\ p \in LabelsOf(i)
        /\ \A j \in 0..i - 1 : better(q, p[3], s.round_times[j][p[1]][p[2]])
    BY DEF Improving
  <2>3. PICK x \in AllLocations(n) \X ViaCounts(q) :
          /\ p = <<x[1], x[2], s.round_times[i][x[1]][x[2]]>>
          /\ s.round_times[i][x[1]][x[2]] # kInvalid(q)
    BY <2>2 DEF LabelsOf
  <2> DEFINE l == x[1]
             v == x[2]
             t == s.round_times[i][l][v]
  <2>4. /\ l \in AllLocations(n) /\ l \in Nodes(n) /\ v \in ViaCounts(q)
        /\ p = <<l, v, t>> /\ t # kInvalid(q)
    BY <2>3 DEF Nodes
  <2>5. Explained(n, q, s.round_times, i, l, v, t)
    BY <2>1, <2>4 DEF LabelsExplained
  <2>6. AreLabels(n, q, s.round_times) /\ i \in Rounds /\ 0..i - 1 \subseteq Rounds
    BY <2>1, StateFacts, RoundFacts
  <2> HIDE DEF l, v
  <2>7. \A j \in Rounds : s.round_times[j][l][v] \in Int
    BY <2>4, <2>6, LabelFacts
  <2>8. t \in Int
    BY <2>6, <2>7
  <2>9. ~Known(q, s.round_times, i - 1, l, v, t)
    <3> SUFFICES ASSUME NEW j \in 0..i - 1, better_or_eq(q, s.round_times[j][l][v], t)
                 PROVE  FALSE
      BY DEF Known
    <3>1. better(q, t, s.round_times[j][l][v])
      BY <2>2, <2>4
    <3>2. s.round_times[j][l][v] \in Int
      BY <2>6, <2>7
    <3> QED
      BY <2>1, <2>8, <3>1, <3>2, Order
  <2> QED
    BY <2>4, <2>5, <2>9 DEF Explained
<1> QED
  BY <1>1, RaptorInvariant, PTL

-----------------------------------------------------------------------------
(***************************************************************************)
(* The itineraries behind the labels. A place is at a location, has a      *)
(* number of vias and a time; every ride and every walk leads from one of  *)
(* the places to others, and takes its time.                               *)
(***************************************************************************)
Places(m, ask) == AllLocations(m) \X ViaCounts(ask) \X Int

After(ask, p, y) == better_or_eq(ask, p[3], y[3])

LEMMA PlaceFacts ==
  ASSUME NEW m, NEW ask, NEW p \in Places(m, ask)
  PROVE  p = <<p[1], p[2], p[3]>> /\ p[1] \in AllLocations(m) /\ p[2] \in ViaCounts(ask) /\ p[3] \in Int
BY DEF Places

\* The time after a while.
Later(ask, t, d) == t + ask.dir * d

LEMMA LaterBy ==
  ASSUME NEW ask, ask.dir \in {1, -1}, NEW t \in Int, NEW d \in Nat
  PROVE  Later(ask, t, d) \in Int /\ better_or_eq(ask, t, Later(ask, t, d))
<1>1. CASE ask.dir = 1
  BY <1>1 DEF better_or_eq, is_better_or_eq, Later
<1>2. CASE ask.dir = -1
  BY <1>2 DEF better_or_eq, is_better_or_eq, Later
<1> QED
  BY <1>1, <1>2

LEMMA StayFacts ==
  ASSUME NEW m, NEW ask, IsQuery(m, ask), NEW l, NEW v \in ViaCounts(ask), NEW y \in Stays(ask, l, v)
  PROVE  y[1] \in ViaCounts(ask) /\ y[2] \in Nat
<1>1. /\ Vias(ask) \in Nat /\ v \in 0..Vias(ask) /\ ViaCounts(ask) = 0..Vias(ask)
      /\ \A i \in 1..Vias(ask) : ask.vias[i].stay \in Nat
  BY QueryFacts DEF ViaCounts
<1>2. CASE y = <<v, 0>>
  BY <1>1, <1>2
<1>3. CASE y # <<v, 0>>
  <2>1. v < Vias(ask) /\ y = <<v + 1, ask.vias[v + 1].stay>>
    BY <1>3 DEF Stays, IsNextVia
  <2>2. v + 1 \in 1..Vias(ask) /\ v + 1 \in 0..Vias(ask)
    BY <1>1, <2>1
  <2> QED
    BY <1>1, <2>1, <2>2
<1> QED
  BY <1>2, <1>3

LEMMA ViasOnRide ==
  ASSUME NEW m, NEW ask, IsQuery(m, ask), NEW r, NEW i, NEW j, NEW v \in ViaCounts(ask),
         NEW w \in AfterRide(ask, r, i, j, v)
  PROVE  w \in ViaCounts(ask)
<1>1. Vias(ask) \in Nat /\ v \in 0..Vias(ask) /\ ViaCounts(ask) = 0..Vias(ask)
  BY QueryFacts DEF ViaCounts
<1>2. \/ w = v
      \/ w = v + 1 /\ v < Vias(ask)
      \/ w = v + 2 /\ v + 1 < Vias(ask)
  BY DEF AfterRide, IsPassedVia, IsNextVia
<1> QED
  BY <1>1, <1>2

LEMMA RunOf ==
  ASSUME NEW m, IsNetwork(m), NEW ask, ask.dir \in {1, -1}, NEW r, OnRoute(m, ask, r),
         NEW x \in Runs(r), NEW a, NEW b, <<a, b>> \in Sections(ask, r)
  PROVE  /\ LocOf(ask, r, b) \in AllLocations(m)
         /\ EventTime(r, x[1], x[2], BoardEvent(ask, r, a)) \in Int
         /\ EventTime(r, x[1], x[2], AlightEvent(ask, r, b)) \in Int
         /\ better_or_eq(ask, EventTime(r, x[1], x[2], BoardEvent(ask, r, a)),
                              EventTime(r, x[1], x[2], AlightEvent(ask, r, b)))
<1>1. /\ Len(r.stops) \in Nat /\ DOMAIN r.stops = 1..Len(r.stops)
      /\ \A i \in 1..Len(r.stops) : LocOf(ask, r, i) \in AllLocations(m)
      /\ \A j \in DOMAIN r.times : InOrder(r, r.times[j]) /\ r.days[j] \subseteq Int
  BY OnRouteFacts
<1>2. x[1] \in DOMAIN r.times /\ x[2] \in r.days[x[1]]
  BY DEF Runs
<1>3. InOrder(r, r.times[x[1]]) /\ x[2] \in Int
  BY <1>1, <1>2
<1>4. a \in 1..Len(r.stops) /\ b \in 1..Len(r.stops) /\ a < b
  BY <1>1 DEF Sections
<1> QED
  BY <1>1, <1>3, <1>4, RunTimes

LEMMA RtRunOf ==
  ASSUME NEW m, IsNetwork(m), NEW ask, ask.dir \in {1, -1}, NEW r, OnRt(m, ask, r),
         NEW a, NEW b, <<a, b>> \in Sections(ask, r)
  PROVE  /\ LocOf(ask, r, b) \in AllLocations(m)
         /\ r.times[BoardEvent(ask, r, a)] \in Int /\ r.times[AlightEvent(ask, r, b)] \in Int
         /\ better_or_eq(ask, r.times[BoardEvent(ask, r, a)], r.times[AlightEvent(ask, r, b)])
<1>1. /\ Len(r.stops) \in Nat /\ DOMAIN r.stops = 1..Len(r.stops)
      /\ \A i \in 1..Len(r.stops) : LocOf(ask, r, i) \in AllLocations(m)
      /\ InOrder(r, r.times)
  BY OnRtFacts
<1>2. a \in 1..Len(r.stops) /\ b \in 1..Len(r.stops) /\ a < b
  BY <1>1 DEF Sections
<1> QED
  BY <1>1, <1>2, TimesPassed

LEMMA RideFrom ==
  ASSUME NEW m, IsNetwork(m), NEW ask, IsQuery(m, ask), NEW places, places \subseteq Places(m, ask),
         NEW y \in Rides(m, ask, places)
  PROVE  /\ y \in Places(m, ask)
         /\ \E p \in places : y \in Rides(m, ask, {p}) /\ After(ask, p, y)
<1>1. ask.dir \in {1, -1}
  BY DEF IsQuery
<1>2. ASSUME NEW p \in places, NEW l \in AllLocations(m), NEW dep \in Int, NEW arr \in Int,
             NEW r, NEW i, NEW j, NEW w \in AfterRide(ask, r, i, j, p[2]),
             CanBoard(ask, p[3], dep), better_or_eq(ask, dep, arr), y = <<l, w, arr>>
      PROVE  y \in Places(m, ask) /\ After(ask, p, y)
  <2>1. p[2] \in ViaCounts(ask) /\ p[3] \in Int
    BY PlaceFacts
  <2>2. w \in ViaCounts(ask)
    BY <2>1, ViasOnRide
  <2>3. better_or_eq(ask, p[3], arr)
    BY <1>1, <1>2, <2>1, Order DEF CanBoard
  <2> QED
    BY <1>2, <2>2, <2>3 DEF Places, After
<1>3. ASSUME NEW i \in Used(ask, m.routes), NEW x \in Runs(m.routes[i]),
             NEW c \in Sections(ask, m.routes[i]), NEW p \in places,
             NEW w \in AfterRide(ask, m.routes[i], c[1], c[2], p[2]),
             RideBy(ask, m.routes[i], x, c, p, w, y)
      PROVE  y \in Places(m, ask) /\ y \in Rides(m, ask, {p}) /\ After(ask, p, y)
  <2> DEFINE r == m.routes[i]
             dep == EventTime(r, x[1], x[2], BoardEvent(ask, r, c[1]))
             arr == EventTime(r, x[1], x[2], AlightEvent(ask, r, c[2]))
             l == LocOf(ask, r, c[2])
  <2>1. y \in Rides(m, ask, {p})
    BY <1>3, RidesAre
  <2>2. y = <<l, w, arr>> /\ CanBoard(ask, p[3], dep)
    BY <1>3 DEF RideBy, LocOf
  <2>3. OnRoute(m, ask, r) /\ <<c[1], c[2]>> \in Sections(ask, r)
    BY DEF OnRoute, Sections
  <2> HIDE DEF r
  <2>4. dep \in Int /\ arr \in Int /\ better_or_eq(ask, dep, arr) /\ l \in AllLocations(m)
    BY <1>1, <2>3, RunOf DEF r
  <2> HIDE DEF dep, arr, l
  <2> QED
    BY <1>2, <2>1, <2>2, <2>4 DEF r
<1>4. ASSUME NEW i \in Used(ask, m.rt_transports), NEW c \in Sections(ask, m.rt_transports[i]),
             NEW p \in places, NEW w \in AfterRide(ask, m.rt_transports[i], c[1], c[2], p[2]),
             RtRideBy(ask, m.rt_transports[i], c, p, w, y)
      PROVE  y \in Places(m, ask) /\ y \in Rides(m, ask, {p}) /\ After(ask, p, y)
  <2> DEFINE r == m.rt_transports[i]
             dep == r.times[BoardEvent(ask, r, c[1])]
             arr == r.times[AlightEvent(ask, r, c[2])]
             l == LocOf(ask, r, c[2])
  <2>1. y \in Rides(m, ask, {p})
    BY <1>4, RidesAre
  <2>2. y = <<l, w, arr>> /\ CanBoard(ask, p[3], dep)
    BY <1>4 DEF RtRideBy, LocOf
  <2>3. OnRt(m, ask, r) /\ <<c[1], c[2]>> \in Sections(ask, r)
    BY DEF OnRt, Sections
  <2> HIDE DEF r
  <2>4. dep \in Int /\ arr \in Int /\ better_or_eq(ask, dep, arr) /\ l \in AllLocations(m)
    BY <1>1, <2>3, RtRunOf
  <2> HIDE DEF dep, arr, l
  <2> QED
    BY <1>2, <2>1, <2>2, <2>4 DEF r
<1> QED
  BY <1>3, <1>4, RidesAre

LEMMA TransferFromPlace ==
  ASSUME NEW m, IsNetwork(m), NEW ask, IsQuery(m, ask), NEW places, places \subseteq Places(m, ask),
         NEW y \in Transfers(m, ask, places)
  PROVE  /\ y \in Places(m, ask)
         /\ \E p \in places : \E x \in Stays(ask, p[1], p[2]) : \E d \in Nat :
              /\ y = <<p[1], x[1], p[3] + ask.dir * (x[2] + d)>>
              /\ y \in Transfers(m, ask, {p}) /\ After(ask, p, y)
<1>0. PICK p \in places : \E x \in Stays(ask, p[1], p[2]) :
        y = <<p[1], x[1], p[3] + ask.dir * (x[2] + adjusted_transfer_time(ask, m.transfer_time[p[1]]))>>
  BY DEF Transfers
<1>1. PICK x \in Stays(ask, p[1], p[2]) :
        y = <<p[1], x[1], p[3] + ask.dir * (x[2] + adjusted_transfer_time(ask, m.transfer_time[p[1]]))>>
  BY <1>0
<1> DEFINE d == adjusted_transfer_time(ask, m.transfer_time[p[1]])
<1>2. /\ ask.dir \in {1, -1} /\ p[1] \in AllLocations(m) /\ p[2] \in ViaCounts(ask) /\ p[3] \in Int
  BY PlaceFacts DEF IsQuery
<1>3. x[1] \in ViaCounts(ask) /\ x[2] \in Nat
  BY <1>2, StayFacts
<1>4. d \in Nat
  BY <1>2, TransferTimes DEF IsNetwork
<1>5. y \in Transfers(m, ask, {p})
  BY <1>1 DEF Transfers
<1>6. y = <<p[1], x[1], p[3] + ask.dir * (x[2] + d)>>
  BY <1>1
<1> HIDE DEF d
<1>7. x[2] + d \in Nat
  BY <1>3, <1>4
<1> DEFINE u == Later(ask, p[3], x[2] + d)
<1>10. u \in Int /\ better_or_eq(ask, p[3], u)
  BY <1>2, <1>7, LaterBy
<1>8. y[3] \in Int /\ After(ask, p, y)
  <2>1. y = <<p[1], x[1], u>>
    BY <1>6 DEF Later
  <2> HIDE DEF u
  <2> QED
    BY <1>10, <2>1 DEF After
<1>9. y \in Places(m, ask)
  <2>1. y = <<p[1], x[1], u>>
    BY <1>6 DEF Later
  <2> HIDE DEF u
  <2> QED
    BY <1>2, <1>3, <1>10, <2>1 DEF Places
<1> QED
  BY <1>4, <1>5, <1>6, <1>8, <1>9

LEMMA WalkFromPlace ==
  ASSUME NEW m, IsNetwork(m), NEW ask, IsQuery(m, ask), NEW places, places \subseteq Places(m, ask),
         NEW y \in WalkTo(m, ask, places)
  PROVE  /\ y \in Places(m, ask)
         /\ \E p \in places : y \in WalkTo(m, ask, {p}) /\ After(ask, p, y)
<1>1. PICK p \in places : \E w \in WalksFrom(m, ask, p[1], p[3]) : \E x \in Stays(ask, p[1], p[2]) :
        \E z \in Stays(ask, w.target, x[1]) :
          y = <<w.target, z[1], p[3] + ask.dir * (x[2] + w.duration + z[2])>>
  BY DEF WalkTo
<1>2. PICK w \in WalksFrom(m, ask, p[1], p[3]) : \E x \in Stays(ask, p[1], p[2]) :
        \E z \in Stays(ask, w.target, x[1]) :
          y = <<w.target, z[1], p[3] + ask.dir * (x[2] + w.duration + z[2])>>
  BY <1>1
<1>12. PICK x \in Stays(ask, p[1], p[2]) : \E z \in Stays(ask, w.target, x[1]) :
         y = <<w.target, z[1], p[3] + ask.dir * (x[2] + w.duration + z[2])>>
  BY <1>2
<1>13. PICK z \in Stays(ask, w.target, x[1]) :
         y = <<w.target, z[1], p[3] + ask.dir * (x[2] + w.duration + z[2])>>
  BY <1>12
<1>3. /\ ask.dir \in {1, -1} /\ p[1] \in AllLocations(m) /\ p[2] \in ViaCounts(ask) /\ p[3] \in Int
  BY PlaceFacts DEF IsQuery
<1>4. x[1] \in ViaCounts(ask) /\ x[2] \in Nat
  BY <1>3, StayFacts
<1>5. z[1] \in ViaCounts(ask) /\ z[2] \in Nat
  BY <1>4, StayFacts
<1>6. w.target \in AllLocations(m) /\ w.duration \in Nat
  BY <1>3, WalksFromFacts
<1>7. y \in WalkTo(m, ask, {p})
  BY <1>1 DEF WalkTo
<1> DEFINE d == x[2] + w.duration + z[2]
<1>8. d \in Nat
  BY <1>4, <1>5, <1>6
<1>9. y = <<w.target, z[1], p[3] + ask.dir * d>>
  BY <1>13
<1> HIDE DEF d
<1> DEFINE u == Later(ask, p[3], d)
<1>10. u \in Int /\ better_or_eq(ask, p[3], u)
  BY <1>3, <1>8, LaterBy
<1>14. y = <<w.target, z[1], u>>
  BY <1>9 DEF Later
<1> HIDE DEF u
<1>11. y \in Places(m, ask) /\ After(ask, p, y)
  BY <1>5, <1>6, <1>10, <1>14 DEF Places, After
<1> QED
  BY <1>7, <1>11

LEMMA DestinationFromPlace ==
  ASSUME NEW m, NEW ask, IsQuery(m, ask), NEW places, places \subseteq Places(m, ask),
         NEW y \in AtDestination(ask, places)
  PROVE  /\ y \in Places(m, ask) /\ ~ask.intermodal
         /\ \E p \in places : y \in AtDestination(ask, {p}) /\ After(ask, p, y)
<1>1. PICK p \in places : p[1] \in ask.is_dest /\ \E z \in Stays(ask, p[1], p[2]) :
        z[1] = Vias(ask) /\ y = <<p[1], Vias(ask), p[3] + ask.dir * z[2]>>
  BY DEF AtDestination
<1>2. PICK z \in Stays(ask, p[1], p[2]) :
        z[1] = Vias(ask) /\ y = <<p[1], Vias(ask), p[3] + ask.dir * z[2]>>
  BY <1>1
<1>3. /\ ask.dir \in {1, -1} /\ p[1] \in AllLocations(m) /\ p[2] \in ViaCounts(ask) /\ p[3] \in Int
  BY PlaceFacts DEF IsQuery
<1>4. z[1] \in ViaCounts(ask) /\ z[2] \in Nat
  BY <1>3, StayFacts
<1> DEFINE u == Later(ask, p[3], z[2])
<1>5. u \in Int /\ better_or_eq(ask, p[3], u) /\ Vias(ask) \in ViaCounts(ask)
  BY <1>2, <1>3, <1>4, LaterBy
<1>8. y = <<p[1], Vias(ask), u>>
  BY <1>2 DEF Later
<1>6. ~ask.intermodal /\ y \in AtDestination(ask, {p})
  BY <1>1 DEF AtDestination
<1> HIDE DEF u
<1>7. y \in Places(m, ask) /\ After(ask, p, y)
  BY <1>3, <1>5, <1>8 DEF Places, After
<1> QED
  BY <1>6, <1>7

\* The end of an itinerary follows from one place.
ByOffset(ask, p, t) ==
  /\ ask.intermodal /\ ask.dist_to_end[p[1]] # kUnreachable
  /\ \E y \in Stays(ask, p[1], p[2]) :
       y[1] = Vias(ask) /\ t = p[3] + ask.dir * (y[2] + ask.dist_to_end[p[1]])

ByTdOffset(ask, p, t) ==
  /\ ask.intermodal /\ p[2] = Vias(ask) /\ ask.td_dest[p[1]] # <<>>
  /\ Found(get_td_duration(ask.dir, ask.td_dest[p[1]], p[3]))
  /\ t = p[3] + ask.dir * get_td_duration(ask.dir, ask.td_dest[p[1]], p[3]).duration

LEMMA AtEndIs ==
  ASSUME NEW m, NEW ask, NEW places, NEW t
  PROVE  t \in AtEnd(m, ask, places) <=>
           \/ \E p \in places : ByOffset(ask, p, t)
           \/ \E p \in places : ByTdOffset(ask, p, t)
           \/ ~ask.intermodal /\ \E y \in AtDestination(ask, places) : t = y[3]
           \/ /\ ~ask.intermodal
              /\ \E y \in WalkTo(m, ask, places) : y[1] \in ask.is_dest /\ y[2] = Vias(ask) /\ t = y[3]
BY DEF AtEnd, ByOffset, ByTdOffset

LEMMA AtEndGrows ==
  ASSUME NEW m, NEW ask, NEW more, NEW p \in more
  PROVE  AtEnd(m, ask, {p}) \subseteq AtEnd(m, ask, more)
<1> DEFINE one == {p}
<1>6. one \subseteq more
  OBVIOUS
<1> HIDE DEF one
<1>1. WalkTo(m, ask, one) \subseteq WalkTo(m, ask, more)
  BY <1>6 DEF WalkTo
<1>2. AtDestination(ask, one) \subseteq AtDestination(ask, more)
  BY <1>6 DEF AtDestination
<1>3. SUFFICES ASSUME NEW t \in AtEnd(m, ask, one) PROVE t \in AtEnd(m, ask, more)
  BY DEF one
<1>4. \/ \E o \in one : ByOffset(ask, o, t)
      \/ \E o \in one : ByTdOffset(ask, o, t)
      \/ ~ask.intermodal /\ \E y \in AtDestination(ask, one) : t = y[3]
      \/ /\ ~ask.intermodal
         /\ \E y \in WalkTo(m, ask, one) : y[1] \in ask.is_dest /\ y[2] = Vias(ask) /\ t = y[3]
  BY AtEndIs
<1>5. \/ \E o \in more : ByOffset(ask, o, t)
      \/ \E o \in more : ByTdOffset(ask, o, t)
      \/ ~ask.intermodal /\ \E y \in AtDestination(ask, more) : t = y[3]
      \/ /\ ~ask.intermodal
         /\ \E y \in WalkTo(m, ask, more) : y[1] \in ask.is_dest /\ y[2] = Vias(ask) /\ t = y[3]
  BY <1>1, <1>2, <1>4, <1>6
<1> QED
  BY <1>5, AtEndIs

LEMMA EndFromPlace ==
  ASSUME NEW m, IsNetwork(m), NEW ask, IsQuery(m, ask), NEW places, places \subseteq Places(m, ask),
         NEW t \in AtEnd(m, ask, places)
  PROVE  t \in Int /\ \E p \in places : t \in AtEnd(m, ask, {p}) /\ better_or_eq(ask, p[3], t)
<1>1. ask.dir \in {1, -1}
  BY DEF IsQuery
<1>2. CASE \E p \in places : ByOffset(ask, p, t)
  <2>1. PICK p \in places : ByOffset(ask, p, t)
    BY <1>2
  <2>2. PICK y \in Stays(ask, p[1], p[2]) : t = p[3] + ask.dir * (y[2] + ask.dist_to_end[p[1]])
    BY <2>1 DEF ByOffset
  <2>3. t \in AtEnd(m, ask, {p})
    BY <2>1, AtEndIs
  <2>4. p[1] \in AllLocations(m) /\ p[2] \in ViaCounts(ask) /\ p[3] \in Int
    BY PlaceFacts
  <2>5. y[2] \in Nat /\ ask.dist_to_end[p[1]] \in Nat
    BY <2>4, StayFacts DEF IsQuery
  <2> DEFINE d == y[2] + ask.dist_to_end[p[1]]
  <2>6. d \in Nat /\ t = Later(ask, p[3], d)
    BY <2>2, <2>5 DEF Later
  <2> HIDE DEF d
  <2>7. t \in Int /\ better_or_eq(ask, p[3], t)
    BY <1>1, <2>4, <2>6, LaterBy
  <2> QED
    BY <2>3, <2>7
<1>3. CASE \E p \in places : ByTdOffset(ask, p, t)
  <2>1. PICK p \in places : ByTdOffset(ask, p, t)
    BY <1>3
  <2>2. t \in AtEnd(m, ask, {p})
    BY <2>1, AtEndIs
  <2>3. p[1] \in AllLocations(m) /\ p[3] \in Int
    BY PlaceFacts
  <2>4. IsPeriods(m, ask.td_dest[p[1]])
    BY <2>3, TdListFacts DEF IsQuery
  <2> DEFINE d == get_td_duration(ask.dir, ask.td_dest[p[1]], p[3]).duration
  <2>5. d \in Nat
    BY <2>1, <2>3, <2>4, TdDurations DEF ByTdOffset
  <2>6. t = Later(ask, p[3], d)
    BY <2>1 DEF Later, ByTdOffset
  <2> HIDE DEF d
  <2>7. t \in Int /\ better_or_eq(ask, p[3], t)
    BY <1>1, <2>3, <2>5, <2>6, LaterBy
  <2> QED
    BY <2>2, <2>7
<1>4. CASE ~ask.intermodal /\ \E y \in AtDestination(ask, places) : t = y[3]
  <2>1. PICK y \in AtDestination(ask, places) : t = y[3]
    BY <1>4
  <2>2. PICK p \in places : y \in AtDestination(ask, {p}) /\ After(ask, p, y)
    BY DestinationFromPlace
  <2>3. y[3] \in Int
    BY DestinationFromPlace, PlaceFacts
  <2>4. t \in AtEnd(m, ask, {p})
    BY <1>4, <2>1, <2>2, AtEndIs
  <2> QED
    BY <2>1, <2>2, <2>3, <2>4 DEF After
<1>5. CASE ~ask.intermodal
           /\ \E y \in WalkTo(m, ask, places) : y[1] \in ask.is_dest /\ y[2] = Vias(ask) /\ t = y[3]
  <2>1. PICK y \in WalkTo(m, ask, places) : y[1] \in ask.is_dest /\ y[2] = Vias(ask) /\ t = y[3]
    BY <1>5
  <2>2. PICK p \in places : y \in WalkTo(m, ask, {p}) /\ After(ask, p, y)
    BY WalkFromPlace
  <2>3. y[3] \in Int
    BY WalkFromPlace, PlaceFacts
  <2>4. t \in AtEnd(m, ask, {p})
    BY <1>5, <2>1, <2>2, AtEndIs
  <2> QED
    BY <2>1, <2>2, <2>3, <2>4 DEF After
<1>6. \/ \E p \in places : ByOffset(ask, p, t)
      \/ \E p \in places : ByTdOffset(ask, p, t)
      \/ ~ask.intermodal /\ \E y \in AtDestination(ask, places) : t = y[3]
      \/ /\ ~ask.intermodal
         /\ \E y \in WalkTo(m, ask, places) : y[1] \in ask.is_dest /\ y[2] = Vias(ask) /\ t = y[3]
  BY AtEndIs
<1> QED
  BY <1>2, <1>3, <1>4, <1>5, <1>6

(***************************************************************************)
(* Where the transports are waited for, one transport after the other.     *)
(***************************************************************************)
NextWaits(m, ask, places) ==
  Transfers(m, ask, Rides(m, ask, places)) \cup WalkTo(m, ask, Rides(m, ask, places))
StartPlaces(starts) == {<<x.stop, x.v, x.time>> : x \in starts}

\* A function on the numbers up to a number, by recursion.
Iterated(f, c, b, F) == \A j \in 0..c : f[j] = IF j = 0 THEN b ELSE F[f[j - 1]]

LEMMA Iterates ==
  ASSUME NEW S, NEW b \in S, NEW F \in [S -> S], NEW i \in Nat
  PROVE  \E f \in [0..i -> S] : Iterated(f, i, b, F)
<1> DEFINE T == {c \in Nat : \E f \in [0..c -> S] : Iterated(f, c, b, F)}
<1>1. 0 \in T
  <2> DEFINE f == [j \in 0..0 |-> b]
  <2>1. f \in [0..0 -> S] /\ Iterated(f, 0, b, F)
    BY DEF Iterated
  <2> QED
    BY <2>1
<1>2. ASSUME NEW c \in T PROVE c + 1 \in T
  <2>1. PICK f \in [0..c -> S] : Iterated(f, c, b, F)
    OBVIOUS
  <2>2. c \in Nat
    OBVIOUS
  <2> DEFINE g == [j \in 0..c + 1 |-> IF j = c + 1 THEN F[f[c]] ELSE f[j]]
  <2>3. f[c] \in S /\ F[f[c]] \in S
    BY <2>1, <2>2
  <2>4. g \in [0..c + 1 -> S]
    BY <2>1, <2>2, <2>3
  <2>5. ASSUME NEW j \in 0..c + 1 PROVE g[j] = IF j = 0 THEN b ELSE F[g[j - 1]]
    <3>1. CASE j = c + 1
      <4>1. j # 0 /\ j - 1 = c /\ g[j] = F[f[c]] /\ g[c] = f[c]
        BY <2>2, <3>1
      <4> HIDE DEF g
      <4> QED
        BY <4>1
    <3>2. CASE j # c + 1
      <4>1. j \in 0..c /\ g[j] = f[j] /\ (j # 0 => j - 1 \in 0..c /\ g[j - 1] = f[j - 1])
        BY <2>2, <3>2
      <4> HIDE DEF g
      <4> QED
        BY <2>1, <4>1 DEF Iterated
    <3> QED
      BY <3>1, <3>2
  <2> HIDE DEF g
  <2>6. c + 1 \in Nat
    BY <2>2
  <2> QED
    BY <2>4, <2>5, <2>6 DEF Iterated
<1>3. T = Nat
  <2>1. T \in SUBSET Nat
    OBVIOUS
  <2> HIDE DEF T
  <2> QED
    BY <1>1, <1>2, <2>1, NumbersReached
<1> QED
  BY <1>3

LEMMA NextPlaced ==
  ASSUME NEW m, IsNetwork(m), NEW ask, IsQuery(m, ask), NEW places \in SUBSET Places(m, ask)
  PROVE  /\ Rides(m, ask, places) \in SUBSET Places(m, ask)
         /\ NextWaits(m, ask, places) \in SUBSET Places(m, ask)
<1>1. Rides(m, ask, places) \subseteq Places(m, ask)
  BY RideFrom
<1>2. Transfers(m, ask, Rides(m, ask, places)) \subseteq Places(m, ask)
  BY <1>1, TransferFromPlace
<1>3. WalkTo(m, ask, Rides(m, ask, places)) \subseteq Places(m, ask)
  BY <1>1, WalkFromPlace
<1> QED
  BY <1>1, <1>2, <1>3 DEF NextWaits

WaitsAlong(m, ask, starts, wait, i) ==
  \A j \in 0..i : wait[j] = IF j = 0 THEN StartPlaces(starts) ELSE NextWaits(m, ask, wait[j - 1])

LEMMA WaitsUpTo ==
  ASSUME NEW m, IsNetwork(m), NEW ask, IsQuery(m, ask),
         NEW starts, \A x \in starts : IsStart(m, ask, x), NEW i \in Nat
  PROVE  \E wait \in [0..i -> SUBSET Places(m, ask)] :
           Waits(m, ask, starts, i) = wait[i] /\ WaitsAlong(m, ask, starts, wait, i)
<1> DEFINE S == SUBSET Places(m, ask)
           b == StartPlaces(starts)
           F == [places \in S |-> NextWaits(m, ask, places)]
           Step(f) == [j \in 0..i |-> IF j = 0 THEN b ELSE NextWaits(m, ask, f[j - 1])]
           wait == CHOOSE f : f = Step(f)
<1>1. b \in S
  BY DEF StartPlaces, Places, IsStart
<1>2. F \in [S -> S]
  BY NextPlaced
<1>3. PICK f \in [0..i -> S] : Iterated(f, i, b, F)
  <2> HIDE DEF b, F, S
  <2> QED
    BY <1>1, <1>2, Iterates
<1>4. f = Step(f)
  <2>1. ASSUME NEW j \in 0..i
        PROVE  f[j] = IF j = 0 THEN b ELSE NextWaits(m, ask, f[j - 1])
    <3>1. CASE j # 0
      <4>1. j - 1 \in 0..i
        BY <3>1
      <4>2. f[j - 1] \in S
        BY <4>1
      <4> QED
        BY <1>3, <3>1, <4>2 DEF Iterated
    <3> QED
      BY <1>3, <3>1 DEF Iterated
  <2> QED
    BY <1>3, <2>1
<1>5. wait = Step(wait)
  BY <1>4
<1>6. Waits(m, ask, starts, i) = wait[i]
  BY DEF Waits, StartPlaces, NextWaits
<1> HIDE DEF wait, b, F
<1> DEFINE T == {j \in Nat : j <= i => wait[j] \in S}
<1>7. 0 \in T
  BY <1>1, <1>5
<1>8. ASSUME NEW j \in T PROVE j + 1 \in T
  <2>1. j \in Nat /\ (j <= i => wait[j] \in S)
    OBVIOUS
  <2>2. ASSUME j + 1 <= i PROVE wait[j + 1] \in S
    <3>1. j + 1 \in 0..i /\ j + 1 # 0 /\ (j + 1) - 1 = j /\ wait[j] \in S
      BY <2>1, <2>2
    <3>2. wait[j + 1] = NextWaits(m, ask, wait[j])
      BY <1>5, <3>1
    <3> QED
      BY <3>1, <3>2, NextPlaced
  <2> QED
    BY <2>1, <2>2
<1>9. T = Nat
  <2>1. T \in SUBSET Nat
    OBVIOUS
  <2> HIDE DEF T
  <2> QED
    BY <1>7, <1>8, <2>1, NumbersReached
<1>10. wait \in [0..i -> S]
  <2>1. \A j \in 0..i : wait[j] \in S
    BY <1>9
  <2>2. wait = [j \in 0..i |-> wait[j]]
    BY <1>5
  <2> HIDE DEF S
  <2> QED
    BY <2>1, <2>2
<1>11. \A j \in 0..i : wait[j] = IF j = 0 THEN b ELSE NextWaits(m, ask, wait[j - 1])
  BY <1>5
<1> QED
  BY <1>6, <1>10, <1>11 DEF b, WaitsAlong

LEMMA WaitsAre ==
  ASSUME NEW m, IsNetwork(m), NEW ask, IsQuery(m, ask),
         NEW starts, \A x \in starts : IsStart(m, ask, x)
  PROVE  /\ Waits(m, ask, starts, 0) = StartPlaces(starts)
         /\ \A i \in Nat :
              /\ Waits(m, ask, starts, i) \in SUBSET Places(m, ask)
              /\ Waits(m, ask, starts, i + 1) = NextWaits(m, ask, Waits(m, ask, starts, i))
<1> DEFINE W(i) == Waits(m, ask, starts, i)
           Next1(places) == NextWaits(m, ask, places)
           S == SUBSET Places(m, ask)
           b == StartPlaces(starts)
           Along(wait, i) == WaitsAlong(m, ask, starts, wait, i)
<1>1. \A i \in Nat : \E wait \in [0..i -> S] : W(i) = wait[i] /\ Along(wait, i)
  BY WaitsUpTo
<1>4. ASSUME NEW i \in Nat, NEW wait, Along(wait, i), NEW j \in 0..i
      PROVE  wait[j] = IF j = 0 THEN b ELSE Next1(wait[j - 1])
  BY <1>4 DEF WaitsAlong
<1> HIDE DEF W, Next1, S, b, Along
<1>2. W(0) = b
  <2>1. PICK wait \in [0..0 -> S] : W(0) = wait[0] /\ Along(wait, 0)
    BY <1>1
  <2> QED
    BY <1>4, <2>1
<1>3. ASSUME NEW i \in Nat PROVE W(i) \in S /\ W(i + 1) = Next1(W(i))
  <2>1. PICK f \in [0..i -> S] : W(i) = f[i] /\ Along(f, i)
    BY <1>1
  <2>2. i + 1 \in Nat
    OBVIOUS
  <2>3. PICK g \in [0..i + 1 -> S] : W(i + 1) = g[i + 1] /\ Along(g, i + 1)
    BY <1>1, <2>2
  <2> DEFINE T == {j \in Nat : j <= i => f[j] = g[j]}
  <2>4. 0 \in T
    BY <1>4, <2>1, <2>2, <2>3
  <2>5. ASSUME NEW j \in T PROVE j + 1 \in T
    <3>1. j \in Nat /\ (j <= i => f[j] = g[j])
      OBVIOUS
    <3>2. ASSUME j + 1 <= i PROVE f[j + 1] = g[j + 1]
      <4>1. /\ j + 1 \in 0..i /\ j + 1 \in 0..i + 1 /\ j + 1 # 0 /\ (j + 1) - 1 = j /\ f[j] = g[j]
        BY <3>1, <3>2
      <4>2. f[j + 1] = Next1(f[j])
        BY <1>4, <2>1, <4>1
      <4>3. g[j + 1] = Next1(g[j])
        BY <1>4, <2>2, <2>3, <4>1
      <4> QED
        BY <4>1, <4>2, <4>3
    <3> QED
      BY <3>1, <3>2
  <2>6. T = Nat
    <3>1. T \in SUBSET Nat
      OBVIOUS
    <3> HIDE DEF T
    <3> QED
      BY <2>4, <2>5, <3>1, NumbersReached
  <2>7. f[i] = g[i]
    BY <2>6
  <2>8. g[i + 1] = Next1(g[i])
    <3>1. i + 1 \in 0..i + 1 /\ i + 1 # 0 /\ (i + 1) - 1 = i
      OBVIOUS
    <3> QED
      BY <1>4, <2>2, <2>3, <3>1
  <2>9. f[i] \in S
    OBVIOUS
  <2> QED
    BY <2>1, <2>3, <2>7, <2>8, <2>9
<1> QED
  BY <1>2, <1>3 DEF W, Next1, S, b

(***************************************************************************)
(* What stands behind a label: an itinerary from one of the starts that    *)
(* were begun waits here no later after i transports or less, or has even  *)
(* ended. An arrival is that of an itinerary, or one has ended before.     *)
(***************************************************************************)
WaitBacked(m, ask, begun, i, l, v, t) ==
  \E starts \in begun : \E j \in 0..i : \E w \in Waits(m, ask, starts, j) :
    w[1] = l /\ w[2] = v /\ better_or_eq(ask, w[3], t)
EndBacked(m, ask, begun, i, t) ==
  \E starts \in begun : \E j \in 1..i : \E e \in Ends(m, ask, starts, j) : better_or_eq(ask, e, t)
Backed(m, ask, begun, i, l, v, t) ==
  WaitBacked(m, ask, begun, i, l, v, t) \/ EndBacked(m, ask, begun, i, t)

ArrivalBacked(m, ask, begun, i, y) ==
  \/ \E starts \in begun : \E j \in 0..i : y \in Rides(m, ask, Waits(m, ask, starts, j))
  \/ EndBacked(m, ask, begun, i, y[3])

AreStarts(m, ask, begun) == \A starts \in begun : \A x \in starts : IsStart(m, ask, x)

LEMMA EndsTyped ==
  ASSUME NEW m, IsNetwork(m), NEW ask, IsQuery(m, ask), NEW starts, \A x \in starts : IsStart(m, ask, x),
         NEW j \in Nat
  PROVE  /\ Waits(m, ask, starts, j) \subseteq Places(m, ask)
         /\ Rides(m, ask, Waits(m, ask, starts, j)) \subseteq Places(m, ask)
         /\ Ends(m, ask, starts, j + 1) = AtEnd(m, ask, Rides(m, ask, Waits(m, ask, starts, j)))
         /\ \A e \in Ends(m, ask, starts, j + 1) : e \in Int
<1> DEFINE held == Waits(m, ask, starts, j)
           arrived == Rides(m, ask, held)
<1>1. held \in SUBSET Places(m, ask)
  BY WaitsAre
<1>2. arrived \in SUBSET Places(m, ask)
  <2> HIDE DEF held
  <2> QED
    BY <1>1, NextPlaced
<1>3. Ends(m, ask, starts, j + 1) = AtEnd(m, ask, arrived)
  <2>1. (j + 1) - 1 = j
    OBVIOUS
  <2> QED
    BY <2>1 DEF Ends
<1> HIDE DEF arrived
<1>4. \A e \in AtEnd(m, ask, arrived) : e \in Int
  BY <1>2, EndFromPlace
<1> QED
  BY <1>1, <1>2, <1>3, <1>4 DEF arrived

LEMMA EndBackedLater ==
  ASSUME NEW m, IsNetwork(m), NEW ask, IsQuery(m, ask), NEW begun, AreStarts(m, ask, begun),
         NEW i \in Nat, NEW i2 \in Nat, i <= i2, NEW t \in Int, NEW u \in Int, better_or_eq(ask, t, u),
         EndBacked(m, ask, begun, i, t)
  PROVE  EndBacked(m, ask, begun, i2, u)
<1>1. PICK starts \in begun : \E j \in 1..i : \E e \in Ends(m, ask, starts, j) : better_or_eq(ask, e, t)
  BY DEF EndBacked
<1>2. PICK j \in 1..i : \E e \in Ends(m, ask, starts, j) : better_or_eq(ask, e, t)
  BY <1>1
<1>3. PICK e \in Ends(m, ask, starts, j) : better_or_eq(ask, e, t)
  BY <1>2
<1>4. j - 1 \in Nat /\ (j - 1) + 1 = j
  OBVIOUS
<1>5. \A x \in starts : IsStart(m, ask, x)
  BY DEF AreStarts
<1>6. e \in Int
  <2> DEFINE h == j - 1
  <2>1. h \in Nat /\ h + 1 = j
    BY <1>4
  <2> HIDE DEF h
  <2>2. \A e2 \in Ends(m, ask, starts, h + 1) : e2 \in Int
    BY <1>5, <2>1, EndsTyped
  <2> QED
    BY <2>1, <2>2
<1>7. better_or_eq(ask, e, u)
  <2>1. ask.dir \in {1, -1}
    BY DEF IsQuery
  <2> QED
    BY <1>3, <1>6, <2>1, Order
<1>8. j \in 1..i2
  OBVIOUS
<1> QED
  BY <1>7, <1>8 DEF EndBacked

LEMMA BackedLater ==
  ASSUME NEW m, IsNetwork(m), NEW ask, IsQuery(m, ask), NEW begun, AreStarts(m, ask, begun),
         NEW i \in Nat, NEW i2 \in Nat, i <= i2, NEW t \in Int, NEW u \in Int, better_or_eq(ask, t, u),
         NEW l, NEW v, Backed(m, ask, begun, i, l, v, t)
  PROVE  Backed(m, ask, begun, i2, l, v, u)
<1>1. CASE EndBacked(m, ask, begun, i, t)
  BY <1>1, EndBackedLater DEF Backed
<1>2. CASE WaitBacked(m, ask, begun, i, l, v, t)
  <2>1. PICK starts \in begun : \E j \in 0..i : \E w \in Waits(m, ask, starts, j) :
          w[1] = l /\ w[2] = v /\ better_or_eq(ask, w[3], t)
    BY <1>2 DEF WaitBacked
  <2>2. PICK j \in 0..i : \E w \in Waits(m, ask, starts, j) :
          w[1] = l /\ w[2] = v /\ better_or_eq(ask, w[3], t)
    BY <2>1
  <2>3. PICK w \in Waits(m, ask, starts, j) : w[1] = l /\ w[2] = v /\ better_or_eq(ask, w[3], t)
    BY <2>2
  <2>4. w[3] \in Int
    <3>1. j \in Nat /\ \A x \in starts : IsStart(m, ask, x)
      BY DEF AreStarts
    <3>2. w \in Places(m, ask)
      BY <3>1, EndsTyped
    <3> QED
      BY <3>2, PlaceFacts
  <2>5. better_or_eq(ask, w[3], u)
    <3>1. ask.dir \in {1, -1}
      BY DEF IsQuery
    <3> QED
      BY <2>3, <2>4, <3>1, Order
  <2>6. j \in 0..i2
    OBVIOUS
  <2> QED
    BY <2>3, <2>5, <2>6 DEF Backed, WaitBacked
<1> QED
  BY <1>1, <1>2 DEF Backed

LEMMA RidesBacked ==
  ASSUME NEW m, IsNetwork(m), NEW ask, IsQuery(m, ask), NEW begun, AreStarts(m, ask, begun),
         NEW i \in Nat, NEW p \in Places(m, ask), p[3] \in LabelTimes(ask), p[3] # kInvalid(ask),
         Backed(m, ask, begun, i, p[1], p[2], p[3]),
         NEW y \in Rides(m, ask, {p}), y[3] \in Int, After(ask, p, y)
  PROVE  ArrivalBacked(m, ask, begun, i, y)
<1>1. ask.dir \in {1, -1} /\ p[3] \in Int
  BY PlaceFacts DEF IsQuery
<1>2. CASE EndBacked(m, ask, begun, i, p[3])
  <2>1. better_or_eq(ask, p[3], y[3])
    BY DEF After
  <2> QED
    BY <1>1, <1>2, <2>1, EndBackedLater DEF ArrivalBacked
<1>3. CASE WaitBacked(m, ask, begun, i, p[1], p[2], p[3])
  <2>1. PICK starts \in begun : \E j \in 0..i : \E w \in Waits(m, ask, starts, j) :
          w[1] = p[1] /\ w[2] = p[2] /\ better_or_eq(ask, w[3], p[3])
    BY <1>3 DEF WaitBacked
  <2>2. PICK j \in 0..i : \E w \in Waits(m, ask, starts, j) :
          w[1] = p[1] /\ w[2] = p[2] /\ better_or_eq(ask, w[3], p[3])
    BY <2>1
  <2>3. PICK w \in Waits(m, ask, starts, j) :
          w[1] = p[1] /\ w[2] = p[2] /\ better_or_eq(ask, w[3], p[3])
    BY <2>2
  <2>4. w[3] \in Int
    <3>1. j \in Nat /\ \A x \in starts : IsStart(m, ask, x)
      BY DEF AreStarts
    <3>2. w \in Places(m, ask)
      BY <3>1, EndsTyped
    <3> QED
      BY <3>2, PlaceFacts
  <2>5. w[3] # kInvalid(ask)
    <3> SUFFICES ASSUME w[3] = kInvalid(ask) PROVE FALSE
      OBVIOUS
    <3>1. better_or_eq(ask, p[3], w[3])
      BY <1>1, TimeFacts
    <3> QED
      BY <1>1, <2>3, <2>4, <3>1, Order
  <2> DEFINE waits == Waits(m, ask, starts, j)
             one == {p}
  <2>6. Covers(ask, waits, one)
    BY <1>1, <2>3, <2>4, <2>5 DEF Covers
  <2>7. y \in Rides(m, ask, one) /\ w \in waits
    OBVIOUS
  <2> HIDE DEF waits, one
  <2>8. y \in Rides(m, ask, waits)
    BY <1>1, <2>6, <2>7, RidesGrow
  <2> QED
    BY <2>8 DEF ArrivalBacked, waits
<1> QED
  BY <1>2, <1>3 DEF Backed

LEMMA OnwardBacked ==
  ASSUME NEW m, IsNetwork(m), NEW ask, IsQuery(m, ask), NEW begun, AreStarts(m, ask, begun),
         NEW i \in Nat, NEW places, places \subseteq Places(m, ask),
         \A p \in places : ArrivalBacked(m, ask, begun, i, p), NEW y \in Onward(m, ask, places)
  PROVE  y \in Places(m, ask) /\ Backed(m, ask, begun, i + 1, y[1], y[2], y[3])
<1>0. ask.dir \in {1, -1}
  BY DEF IsQuery
<1>1. /\ y \in Places(m, ask)
      /\ \E p \in places :
           /\ After(ask, p, y)
           /\ \/ y \in Transfers(m, ask, {p}) \cup WalkTo(m, ask, {p})
              \/ ~ask.intermodal /\ y \in AtDestination(ask, {p})
  <2>1. CASE y \in Transfers(m, ask, places)
    BY <2>1, TransferFromPlace
  <2>2. CASE y \in WalkTo(m, ask, places)
    BY <2>2, WalkFromPlace
  <2>3. CASE y \in AtDestination(ask, places)
    BY <2>3, DestinationFromPlace
  <2> QED
    BY <2>1, <2>2, <2>3 DEF Onward
<1>2. PICK p \in places :
        /\ After(ask, p, y)
        /\ \/ y \in Transfers(m, ask, {p}) \cup WalkTo(m, ask, {p})
           \/ ~ask.intermodal /\ y \in AtDestination(ask, {p})
  BY <1>1
<1>3. y[3] \in Int /\ p[3] \in Int /\ better_or_eq(ask, p[3], y[3]) /\ better_or_eq(ask, y[3], y[3])
  BY <1>0, <1>1, <1>2, PlaceFacts, Order DEF After
<1>4. i + 1 \in Nat /\ i <= i + 1
  OBVIOUS
<1>5. CASE EndBacked(m, ask, begun, i, p[3])
  <2>1. EndBacked(m, ask, begun, i + 1, y[3])
    BY <1>3, <1>4, <1>5, EndBackedLater
  <2> QED
    BY <1>1, <2>1 DEF Backed
<1>6. CASE \E starts \in begun : \E j \in 0..i : p \in Rides(m, ask, Waits(m, ask, starts, j))
  <2>1. PICK starts \in begun : \E j \in 0..i : p \in Rides(m, ask, Waits(m, ask, starts, j))
    BY <1>6
  <2>2. PICK j \in 0..i : p \in Rides(m, ask, Waits(m, ask, starts, j))
    BY <2>1
  <2>3. j \in Nat /\ j + 1 \in 1..i + 1 /\ j + 1 \in 0..i + 1 /\ \A x \in starts : IsStart(m, ask, x)
    BY DEF AreStarts
  <2> DEFINE arrived == Rides(m, ask, Waits(m, ask, starts, j))
  <2>4. CASE y \in Transfers(m, ask, {p}) \cup WalkTo(m, ask, {p})
    <3>1. Transfers(m, ask, {p}) \subseteq Transfers(m, ask, arrived)
      BY <2>2 DEF Transfers
    <3>2. WalkTo(m, ask, {p}) \subseteq WalkTo(m, ask, arrived)
      BY <2>2 DEF WalkTo
    <3>3. y \in Transfers(m, ask, arrived) \cup WalkTo(m, ask, arrived)
      BY <2>4, <3>1, <3>2
    <3>4. y \in NextWaits(m, ask, Waits(m, ask, starts, j))
      BY <3>3 DEF NextWaits
    <3>5. y \in Waits(m, ask, starts, j + 1)
      BY <2>3, <3>4, WaitsAre
    <3>6. WaitBacked(m, ask, begun, i + 1, y[1], y[2], y[3])
      BY <1>3, <2>3, <3>5 DEF WaitBacked
    <3> QED
      BY <1>1, <3>6 DEF Backed
  <2>5. CASE ~ask.intermodal /\ y \in AtDestination(ask, {p})
    <3>1. y[3] \in AtEnd(m, ask, {p})
      BY <2>5, AtEndIs
    <3>2. y[3] \in AtEnd(m, ask, arrived)
      BY <2>2, <3>1, AtEndGrows
    <3>3. y[3] \in Ends(m, ask, starts, j + 1)
      BY <2>3, <3>2, EndsTyped
    <3>4. EndBacked(m, ask, begun, i + 1, y[3])
      BY <1>3, <2>3, <3>3 DEF EndBacked
    <3> QED
      BY <1>1, <3>4 DEF Backed
  <2> QED
    BY <1>2, <2>4, <2>5
<1> QED
  BY <1>5, <1>6 DEF ArrivalBacked

LEMMA EndOfArrival ==
  ASSUME NEW m, IsNetwork(m), NEW ask, IsQuery(m, ask), NEW begun, AreStarts(m, ask, begun),
         NEW i \in Nat, NEW places, places \subseteq Places(m, ask),
         \A p \in places : ArrivalBacked(m, ask, begun, i, p), NEW t \in AtEnd(m, ask, places)
  PROVE  t \in Int /\ EndBacked(m, ask, begun, i + 1, t)
<1>0. ask.dir \in {1, -1}
  BY DEF IsQuery
<1>1. t \in Int
  BY EndFromPlace
<1>2. PICK p \in places : t \in AtEnd(m, ask, {p}) /\ better_or_eq(ask, p[3], t)
  BY EndFromPlace
<1>3. p[3] \in Int /\ better_or_eq(ask, t, t)
  BY <1>0, <1>1, PlaceFacts, Order
<1>4. i + 1 \in Nat /\ i <= i + 1
  OBVIOUS
<1>5. CASE EndBacked(m, ask, begun, i, p[3])
  BY <1>1, <1>2, <1>3, <1>4, <1>5, EndBackedLater
<1>6. CASE \E starts \in begun : \E j \in 0..i : p \in Rides(m, ask, Waits(m, ask, starts, j))
  <2>1. PICK starts \in begun : \E j \in 0..i : p \in Rides(m, ask, Waits(m, ask, starts, j))
    BY <1>6
  <2>2. PICK j \in 0..i : p \in Rides(m, ask, Waits(m, ask, starts, j))
    BY <2>1
  <2>3. j \in Nat /\ j + 1 \in 1..i + 1 /\ \A x \in starts : IsStart(m, ask, x)
    BY DEF AreStarts
  <2> DEFINE arrived == Rides(m, ask, Waits(m, ask, starts, j))
  <2>4. t \in AtEnd(m, ask, arrived)
    BY <1>2, <2>2, AtEndGrows
  <2>5. t \in Ends(m, ask, starts, j + 1)
    BY <2>3, <2>4, EndsTyped
  <2> QED
    BY <1>1, <1>3, <2>3, <2>5 DEF EndBacked
<1> QED
  BY <1>1, <1>5, <1>6 DEF ArrivalBacked

-----------------------------------------------------------------------------
(***************************************************************************)
(* Every label has an itinerary behind it: those of round 0 are starts, an *)
(* explained label is an itinerary of the round before that goes on.       *)
(***************************************************************************)
RoundBacked(m, ask, begun, rt, i) ==
  \A l \in AllLocations(m), v \in ViaCounts(ask) :
    rt[i][l][v] # kInvalid(ask) => Backed(m, ask, begun, i, l, v, rt[i][l][v])

StartLabels(m, ask, begun, rt) ==
  \A l \in AllLocations(m), v \in ViaCounts(ask) :
    rt[0][l][v] # kInvalid(ask) =>
      \E starts \in begun : \E x \in starts : x.stop = l /\ x.v = v /\ x.time = rt[0][l][v]

LEMMA ArrivalsBacked ==
  ASSUME NEW m, IsNetwork(m), NEW ask, IsQuery(m, ask), NEW begun, AreStarts(m, ask, begun),
         NEW rt, AreLabels(m, ask, rt), NEW i \in Rounds, RoundBacked(m, ask, begun, rt, i)
  PROVE  /\ Arrivals(m, ask, rt, i) \subseteq Places(m, ask)
         /\ \A y \in Arrivals(m, ask, rt, i) : ArrivalBacked(m, ask, begun, i, y)
<1> DEFINE places == PlacesOf(m, ask, rt, i)
<1>1. i \in Nat
  BY RoundFacts
<1>2. ASSUME NEW p \in places
      PROVE  /\ p \in Places(m, ask) /\ p[3] \in LabelTimes(ask) /\ p[3] # kInvalid(ask)
             /\ Backed(m, ask, begun, i, p[1], p[2], p[3])
  <2>1. PICK x \in AllLocations(m) \X ViaCounts(ask) :
          rt[i][x[1]][x[2]] # kInvalid(ask) /\ p = <<x[1], x[2], rt[i][x[1]][x[2]]>>
    BY DEF PlacesOf
  <2> DEFINE l == x[1]
             v == x[2]
  <2>2. l \in AllLocations(m) /\ l \in Nodes(m) /\ v \in ViaCounts(ask)
    BY DEF Nodes
  <2>3. rt[i][l][v] # kInvalid(ask) /\ p = <<l, v, rt[i][l][v]>>
    BY <2>1
  <2> HIDE DEF l, v
  <2>4. rt[i][l][v] \in LabelTimes(ask) /\ rt[i][l][v] \in Int
    BY <2>2, LabelFacts
  <2>5. Backed(m, ask, begun, i, l, v, rt[i][l][v])
    BY <2>2, <2>3 DEF RoundBacked
  <2> DEFINE t == rt[i][l][v]
  <2> HIDE DEF t
  <2>6. p = <<l, v, t>> /\ t \in Int
    BY <2>3, <2>4 DEF t
  <2>7. p \in Places(m, ask) /\ p[1] = l /\ p[2] = v /\ p[3] = t
    BY <2>2, <2>6 DEF Places
  <2> QED
    BY <2>3, <2>4, <2>5, <2>7 DEF t
<1>3. Arrivals(m, ask, rt, i) = Rides(m, ask, places)
  BY DEF Arrivals
<1> HIDE DEF places
<1>4. ASSUME NEW y \in Rides(m, ask, places)
      PROVE  y \in Places(m, ask) /\ ArrivalBacked(m, ask, begun, i, y)
  <2>1. places \subseteq Places(m, ask)
    BY <1>2
  <2>2. y \in Places(m, ask) /\ \E p \in places : y \in Rides(m, ask, {p}) /\ After(ask, p, y)
    BY <2>1, RideFrom
  <2>3. PICK p \in places : y \in Rides(m, ask, {p}) /\ After(ask, p, y)
    BY <2>2
  <2>4. y[3] \in Int
    BY <2>2, PlaceFacts
  <2> QED
    BY <1>1, <1>2, <2>2, <2>3, <2>4, RidesBacked
<1> QED
  BY <1>3, <1>4

\* The labels of a round, from those of the rounds before.
LEMMA NextRoundBacked ==
  ASSUME NEW m, IsNetwork(m), NEW ask, IsQuery(m, ask), NEW begun, AreStarts(m, ask, begun),
         NEW rt, AreLabels(m, ask, rt), LabelsExplained(m, ask, rt), NEW i \in Rounds \ {0},
         \A j \in 0..i - 1 : RoundBacked(m, ask, begun, rt, j)
  PROVE  RoundBacked(m, ask, begun, rt, i)
<1>1. ask.dir \in {1, -1} /\ i \in Nat /\ i - 1 \in Rounds /\ i - 1 \in 0..i - 1 /\ (i - 1) + 1 = i
  BY RoundFacts DEF IsQuery
<1> SUFFICES ASSUME NEW l \in AllLocations(m), NEW v \in ViaCounts(ask), rt[i][l][v] # kInvalid(ask)
             PROVE  Backed(m, ask, begun, i, l, v, rt[i][l][v])
  BY DEF RoundBacked
<1> DEFINE t == rt[i][l][v]
<1>2. \A j \in Rounds : rt[j][l][v] \in LabelTimes(ask) /\ rt[j][l][v] \in Int
  BY LabelFacts DEF Nodes
<1>3. t \in LabelTimes(ask) /\ t \in Int
  BY <1>2
<1>4. \/ Known(ask, rt, i - 1, l, v, t)
      \/ <<l, v, t>> \in Onward(m, ask, Arrivals(m, ask, rt, i - 1))
  BY DEF LabelsExplained, Explained
<1>5. t # kInvalid(ask)
  OBVIOUS
<1> HIDE DEF t
<1>6. CASE Known(ask, rt, i - 1, l, v, t)
  <2>1. PICK j \in 0..i - 1 : better_or_eq(ask, rt[j][l][v], t)
    BY <1>6 DEF Known
  <2>2. j \in Nat /\ j <= i /\ j \in Rounds
    BY <1>1, RoundFacts
  <2>3. rt[j][l][v] # kInvalid(ask)
    <3> SUFFICES ASSUME rt[j][l][v] = kInvalid(ask) PROVE FALSE
      OBVIOUS
    <3>1. better_or_eq(ask, t, kInvalid(ask)) /\ kInvalid(ask) \in Int
      BY <1>1, <1>3, TimeFacts
    <3> QED
      BY <1>1, <1>3, <1>5, <2>1, <3>1, Order
  <2>4. Backed(m, ask, begun, j, l, v, rt[j][l][v])
    BY <2>3 DEF RoundBacked
  <2>5. rt[j][l][v] \in Int
    BY <1>2, <2>2
  <2>6. Backed(m, ask, begun, i, l, v, t)
    BY <1>1, <1>3, <2>1, <2>2, <2>4, <2>5, BackedLater
  <2> QED
    BY <2>6 DEF t
<1>7. CASE <<l, v, t>> \in Onward(m, ask, Arrivals(m, ask, rt, i - 1))
  <2> DEFINE h == i - 1
             y == <<l, v, t>>
             places == Arrivals(m, ask, rt, h)
  <2>1. h \in Rounds /\ h \in Nat /\ h + 1 = i /\ RoundBacked(m, ask, begun, rt, h)
    BY <1>1, RoundFacts
  <2>2. y \in Onward(m, ask, places) /\ y[1] = l /\ y[2] = v /\ y[3] = t
    BY <1>7
  <2> HIDE DEF h, y
  <2>3. places \subseteq Places(m, ask) /\ \A p \in places : ArrivalBacked(m, ask, begun, h, p)
    BY <2>1, ArrivalsBacked
  <2> HIDE DEF places
  <2>4. Backed(m, ask, begun, h + 1, y[1], y[2], y[3])
    BY <2>1, <2>2, <2>3, OnwardBacked
  <2> QED
    BY <2>1, <2>2, <2>4 DEF t
<1> QED
  BY <1>4, <1>6, <1>7

LEMMA LabelsBacked ==
  ASSUME NEW m, IsNetwork(m), NEW ask, IsQuery(m, ask), NEW begun, AreStarts(m, ask, begun),
         NEW rt, AreLabels(m, ask, rt), LabelsExplained(m, ask, rt), StartLabels(m, ask, begun, rt)
  PROVE  \A i \in Rounds : RoundBacked(m, ask, begun, rt, i)
<1>0. ask.dir \in {1, -1}
  BY DEF IsQuery
<1>1. RoundBacked(m, ask, begun, rt, 0)
  <2> SUFFICES ASSUME NEW l \in AllLocations(m), NEW v \in ViaCounts(ask), rt[0][l][v] # kInvalid(ask)
               PROVE  Backed(m, ask, begun, 0, l, v, rt[0][l][v])
    BY DEF RoundBacked
  <2>1. PICK starts \in begun : \E x \in starts : x.stop = l /\ x.v = v /\ x.time = rt[0][l][v]
    BY DEF StartLabels
  <2>2. PICK x \in starts : x.stop = l /\ x.v = v /\ x.time = rt[0][l][v]
    BY <2>1
  <2> DEFINE t == rt[0][l][v]
             w == <<l, v, t>>
  <2>3. t \in Int
    BY RoundFacts, LabelFacts DEF Nodes
  <2>4. w \in StartPlaces(starts)
    BY <2>2 DEF StartPlaces
  <2>5. w[1] = l /\ w[2] = v /\ w[3] = t
    OBVIOUS
  <2>6. x.time = t
    BY <2>2
  <2> HIDE DEF t, w
  <2>7. better_or_eq(ask, t, t)
    BY <1>0, <2>3, Order
  <2>8. w \in Waits(m, ask, starts, 0)
    BY <2>4, WaitsAre DEF AreStarts
  <2>9. WaitBacked(m, ask, begun, 0, l, v, t)
    <3>1. 0 \in 0..0
      OBVIOUS
    <3> QED
      BY <2>5, <2>7, <2>8, <3>1 DEF WaitBacked
  <2> QED
    BY <2>9 DEF Backed, t
<1> DEFINE T == {i \in Nat : \A j \in 0..i : j \in Rounds => RoundBacked(m, ask, begun, rt, j)}
<1>2. 0 \in T
  BY <1>1
<1>3. ASSUME NEW i \in T PROVE i + 1 \in T
  <2>1. i \in Nat /\ \A j \in 0..i : j \in Rounds => RoundBacked(m, ask, begun, rt, j)
    OBVIOUS
  <2> SUFFICES ASSUME NEW j \in 0..i + 1, j \in Rounds PROVE RoundBacked(m, ask, begun, rt, j)
    BY <2>1
  <2>2. CASE j \in 0..i
    BY <2>1, <2>2
  <2>3. CASE j = i + 1
    <3>1. j \in Rounds \ {0} /\ j - 1 = i
      BY <2>1, <2>3
    <3>2. \A h \in 0..j - 1 : h \in Rounds /\ h \in 0..i
      BY <3>1, RoundFacts
    <3>3. \A h \in 0..j - 1 : RoundBacked(m, ask, begun, rt, h)
      BY <2>1, <3>2
    <3> QED
      BY <3>1, <3>3, NextRoundBacked
  <2> QED
    BY <2>1, <2>2, <2>3
<1> HIDE DEF T
<1>4. T = Nat
  <2>1. T \in SUBSET Nat
    BY DEF T
  <2> QED
    BY <1>2, <1>3, <2>1, NumbersReached
<1> QED
  <2> SUFFICES ASSUME NEW i \in Rounds PROVE RoundBacked(m, ask, begun, rt, i)
    OBVIOUS
  <2>1. i \in Nat /\ i \in 0..i
    BY RoundFacts
  <2>2. i \in T
    BY <1>4, <2>1
  <2> QED
    BY <2>1, <2>2 DEF T

-----------------------------------------------------------------------------
(***************************************************************************)
(* What a label of the destination promises.                               *)
(***************************************************************************)
LEMMA StartLabel ==
  ASSUME NEW m, NEW ask, ask.dir \in {1, -1}, NEW x, IsStart(m, ask, x)
  PROVE  clamp(x.time) = kInvalid(ask) \/ clamp(x.time) = x.time
<1>1. x.time \in Int /\ clamp(x.time) # kFirst(ask)
  BY DEF IsStart
<1> DEFINE t == x.time
<1>2. t \in Int /\ clamp(t) # kFirst(ask)
  BY <1>1
<1> HIDE DEF t
<1>3. clamp(t) = kInvalid(ask) \/ clamp(t) = t
  <2>1. CASE ask.dir = 1
    BY <1>2, <2>1, LabelAssumption DEF clamp, kInvalid, kFirst
  <2>2. CASE ask.dir = -1
    BY <1>2, <2>2, LabelAssumption DEF clamp, kInvalid, kFirst
  <2> QED
    BY <2>1, <2>2
<1> QED
  BY <1>3 DEF t

\* Who starts at the destination is there already.
StayBacked(ask, begun, t) ==
  \E starts \in begun : \E x \in starts :
    x.stop \in ask.is_dest /\ x.v = Vias(ask) /\ better_or_eq(ask, x.time, t)

\* To be at the destination takes no time to change.
LEMMA NoChangeAtEnd ==
  ASSUME NEW m, IsNetwork(m), NEW ask, IsQuery(m, ask), ~ask.intermodal,
         NEW places, places \subseteq Places(m, ask), NEW w \in Transfers(m, ask, places),
         w[1] \in ask.is_dest, w[2] = Vias(ask)
  PROVE  \E e \in AtEnd(m, ask, places) : e \in Int /\ better_or_eq(ask, e, w[3])
<1>1. PICK p \in places : \E x \in Stays(ask, p[1], p[2]) : \E d \in Nat :
        /\ w = <<p[1], x[1], p[3] + ask.dir * (x[2] + d)>>
        /\ w \in Transfers(m, ask, {p}) /\ After(ask, p, w)
  BY TransferFromPlace
<1>2. PICK x \in Stays(ask, p[1], p[2]) : \E d \in Nat :
        w = <<p[1], x[1], p[3] + ask.dir * (x[2] + d)>>
  BY <1>1
<1>3. PICK d \in Nat : w = <<p[1], x[1], p[3] + ask.dir * (x[2] + d)>>
  BY <1>2
<1>4. p[2] \in ViaCounts(ask) /\ p[3] \in Int /\ ask.dir \in {1, -1}
  BY PlaceFacts DEF IsQuery
<1>5. x[2] \in Nat
  BY <1>4, StayFacts
<1>6. p[1] \in ask.is_dest /\ x[1] = Vias(ask) /\ w[3] = p[3] + ask.dir * (x[2] + d)
  BY <1>3
<1> DEFINE e == p[3] + ask.dir * x[2]
<1>7. <<p[1], Vias(ask), e>> \in AtDestination(ask, places)
  BY <1>6 DEF AtDestination
<1>8. e \in AtEnd(m, ask, places)
  <2> DEFINE y == <<p[1], Vias(ask), e>>
  <2>1. y \in AtDestination(ask, places) /\ y[3] = e
    BY <1>7
  <2> HIDE DEF y, e
  <2> QED
    BY <2>1, AtEndIs
<1>9. e \in Int /\ better_or_eq(ask, e, w[3])
  <2> DEFINE a == p[3]
             b == x[2]
  <2>1. a \in Int /\ b \in Nat /\ e = a + ask.dir * b /\ w[3] = a + ask.dir * (b + d)
    BY <1>4, <1>5, <1>6
  <2> HIDE DEF a, b, e
  <2>2. CASE ask.dir = 1
    BY <2>1, <2>2 DEF better_or_eq, is_better_or_eq
  <2>3. CASE ask.dir = -1
    BY <2>1, <2>3 DEF better_or_eq, is_better_or_eq
  <2> QED
    BY <1>4, <2>2, <2>3
<1> HIDE DEF e
<1> QED
  BY <1>8, <1>9

LEMMA DestinationBacked ==
  ASSUME NEW m, IsNetwork(m), NEW ask, IsQuery(m, ask), NEW begun, AreStarts(m, ask, begun),
         NEW i \in Nat, NEW l \in AllLocations(m), l \in ask.is_dest, NEW t \in Int,
         Backed(m, ask, begun, i, l, Vias(ask), t)
  PROVE  EndBacked(m, ask, begun, i, t) \/ StayBacked(ask, begun, t)
<1>1. ask.dir \in {1, -1} /\ ~ask.intermodal
  <2>1. l # kEnd
    BY DEF IsNetwork, kEnd
  <2> QED
    BY <2>1 DEF IsQuery
<1>2. CASE WaitBacked(m, ask, begun, i, l, Vias(ask), t)
  <2>1. PICK starts \in begun : \E j \in 0..i : \E w \in Waits(m, ask, starts, j) :
          w[1] = l /\ w[2] = Vias(ask) /\ better_or_eq(ask, w[3], t)
    BY <1>2 DEF WaitBacked
  <2>2. PICK j \in 0..i : \E w \in Waits(m, ask, starts, j) :
          w[1] = l /\ w[2] = Vias(ask) /\ better_or_eq(ask, w[3], t)
    BY <2>1
  <2>3. PICK w \in Waits(m, ask, starts, j) :
          w[1] = l /\ w[2] = Vias(ask) /\ better_or_eq(ask, w[3], t)
    BY <2>2
  <2>4. \A x \in starts : IsStart(m, ask, x)
    BY DEF AreStarts
  <2>5. CASE j = 0
    <3>1. w \in StartPlaces(starts)
      BY <2>4, <2>5, WaitsAre
    <3>2. PICK x \in starts : w = <<x.stop, x.v, x.time>>
      BY <3>1 DEF StartPlaces
    <3>3. x.stop = l /\ x.v = Vias(ask) /\ better_or_eq(ask, x.time, t)
      BY <2>3, <3>2
    <3> QED
      BY <3>3 DEF StayBacked
  <2>6. CASE j # 0
    <3> DEFINE h == j - 1
               held == Waits(m, ask, starts, h)
               arrived == Rides(m, ask, held)
    <3>1. h \in Nat /\ h + 1 = j /\ j \in 1..i
      BY <2>6
    <3> HIDE DEF h
    <3>2. /\ arrived \subseteq Places(m, ask) /\ Ends(m, ask, starts, j) = AtEnd(m, ask, arrived)
          /\ \A e \in Ends(m, ask, starts, j) : e \in Int
      <4>1. /\ Rides(m, ask, Waits(m, ask, starts, h)) \subseteq Places(m, ask)
            /\ Ends(m, ask, starts, h + 1) = AtEnd(m, ask, Rides(m, ask, Waits(m, ask, starts, h)))
            /\ \A e \in Ends(m, ask, starts, h + 1) : e \in Int
        BY <2>4, <3>1, EndsTyped
      <4> QED
        BY <3>1, <4>1
    <3>3. w \in Transfers(m, ask, arrived) \cup WalkTo(m, ask, arrived)
      BY <2>4, <3>1, WaitsAre DEF NextWaits
    <3>4. Waits(m, ask, starts, j) \subseteq Places(m, ask)
      <4>1. j \in Nat
        OBVIOUS
      <4> QED
        BY <2>4, <4>1, EndsTyped
    <3>5. w[3] \in Int
      BY <3>4, PlaceFacts
    <3> HIDE DEF arrived
    <3>6. \E e \in AtEnd(m, ask, arrived) : e \in Int /\ better_or_eq(ask, e, w[3])
      <4>1. CASE w \in Transfers(m, ask, arrived)
        BY <1>1, <2>3, <3>2, <4>1, NoChangeAtEnd
      <4>2. CASE w \in WalkTo(m, ask, arrived)
        <5>1. w[3] \in AtEnd(m, ask, arrived)
          BY <1>1, <2>3, <4>2, AtEndIs
        <5>2. better_or_eq(ask, w[3], w[3])
          BY <1>1, <3>5, Order
        <5> QED
          BY <3>5, <5>1, <5>2
      <4> QED
        BY <3>3, <4>1, <4>2
    <3>7. PICK e \in AtEnd(m, ask, arrived) : e \in Int /\ better_or_eq(ask, e, w[3])
      BY <3>6
    <3>8. better_or_eq(ask, e, t)
      BY <1>1, <2>3, <3>5, <3>7, Order
    <3>9. e \in Ends(m, ask, starts, j)
      BY <3>2
    <3>10. EndBacked(m, ask, begun, i, t)
      BY <3>1, <3>8, <3>9 DEF EndBacked
    <3> QED
      BY <3>10
  <2> QED
    BY <2>5, <2>6
<1> QED
  BY <1>2 DEF Backed

-----------------------------------------------------------------------------
(***************************************************************************)
(* What is behind the arrivals and behind the labels of the end, while     *)
(* rounds pass and further starts are begun.                               *)
(***************************************************************************)
LandedBacked(m, ask, begun, i, tmp) ==
  \A l \in AllLocations(m), v \in ViaCounts(ask) :
    tmp[l][v] # kInvalid(ask) => ArrivalBacked(m, ask, begun, i, <<l, v, tmp[l][v]>>)

EndLabels(m, ask, begun, rt) ==
  \A i \in Rounds, v \in ViaCounts(ask) :
    rt[i][kEnd][v] # kInvalid(ask) => EndBacked(m, ask, begun, i, rt[i][kEnd][v])

LEMMA LandedLater ==
  ASSUME NEW m, IsNetwork(m), NEW ask, IsQuery(m, ask), NEW begun, AreStarts(m, ask, begun),
         NEW i \in Nat, NEW i2 \in Nat, i <= i2, NEW tmp \in Labels(m, ask),
         LandedBacked(m, ask, begun, i, tmp)
  PROVE  LandedBacked(m, ask, begun, i2, tmp)
<1> SUFFICES ASSUME NEW l \in AllLocations(m), NEW v \in ViaCounts(ask), tmp[l][v] # kInvalid(ask)
             PROVE  ArrivalBacked(m, ask, begun, i2, <<l, v, tmp[l][v]>>)
  BY DEF LandedBacked
<1> DEFINE t == tmp[l][v]
           y == <<l, v, t>>
<1>1. ask.dir \in {1, -1} /\ t \in Int /\ y[3] = t
  BY DEF IsQuery, Labels, Nodes, LabelTimes
<1>2. ArrivalBacked(m, ask, begun, i, y)
  BY DEF LandedBacked
<1> HIDE DEF t, y
<1>3. CASE EndBacked(m, ask, begun, i, y[3])
  <2>1. better_or_eq(ask, t, t)
    BY <1>1, Order
  <2>2. EndBacked(m, ask, begun, i2, y[3])
    BY <1>1, <1>3, <2>1, EndBackedLater
  <2>3. ArrivalBacked(m, ask, begun, i2, y)
    BY <2>2 DEF ArrivalBacked
  <2> QED
    BY <2>3 DEF y, t
<1>4. CASE \E starts \in begun : \E j \in 0..i : y \in Rides(m, ask, Waits(m, ask, starts, j))
  <2>1. PICK starts \in begun : \E j \in 0..i : y \in Rides(m, ask, Waits(m, ask, starts, j))
    BY <1>4
  <2>2. PICK j \in 0..i : y \in Rides(m, ask, Waits(m, ask, starts, j))
    BY <2>1
  <2>3. j \in 0..i2
    OBVIOUS
  <2>4. ArrivalBacked(m, ask, begun, i2, y)
    BY <2>2, <2>3 DEF ArrivalBacked
  <2> QED
    BY <2>4 DEF y, t
<1> QED
  BY <1>2, <1>3, <1>4 DEF ArrivalBacked

\* After a ride: what arrived before, or comes from a label of the round before.
LEMMA RiddenBacked ==
  ASSUME NEW m, NEW ask, NEW rd, NEW base, RideBase(m, ask, rd, base),
         NEW begun, AreStarts(m, ask, begun), RoundBacked(m, ask, begun, base.round_times, rd - 1),
         LandedBacked(m, ask, begun, rd - 1, base.tmp),
         NEW b, HasLanded(m, ask, rd, base, b)
  PROVE  LandedBacked(m, ask, begun, rd - 1, b.tmp)
<1>1. /\ IsNetwork(m) /\ IsQuery(m, ask) /\ rd - 1 \in Rounds /\ AreLabels(m, ask, base.round_times)
  BY RoundFacts, StateFacts DEF RideBase
<1> DEFINE i == rd - 1
           places == Arrivals(m, ask, base.round_times, i)
<1>2. i \in Rounds /\ RoundBacked(m, ask, begun, base.round_times, i)
  BY <1>1
<1>3. HasLanded(m, ask, rd, base, b) /\ places = Arrivals(m, ask, base.round_times, rd - 1)
  OBVIOUS
<1> HIDE DEF i
<1>4. \A y \in places : ArrivalBacked(m, ask, begun, i, y)
  BY <1>1, <1>2, ArrivalsBacked
<1> HIDE DEF places
<1> SUFFICES ASSUME NEW l \in AllLocations(m), NEW v \in ViaCounts(ask), b.tmp[l][v] # kInvalid(ask)
             PROVE  ArrivalBacked(m, ask, begun, i, <<l, v, b.tmp[l][v]>>)
  BY DEF LandedBacked, i
<1>5. CASE b.tmp[l][v] = base.tmp[l][v]
  BY <1>5 DEF LandedBacked, i
<1>6. CASE <<l, v, b.tmp[l][v]>> \in places
  BY <1>4, <1>6
<1> QED
  BY <1>3, <1>5, <1>6 DEF HasLanded

\* After the walks: the labels of the end are the ends of what has arrived.
LEMMA WalkedBacked ==
  ASSUME NEW m, IsNetwork(m), NEW ask, IsQuery(m, ask), NEW rd \in Rounds \ {0},
         NEW base \in States(m, ask), NEW begun, AreStarts(m, ask, begun),
         LandedBacked(m, ask, begun, rd - 1, base.tmp), EndLabels(m, ask, begun, base.round_times),
         NEW b, EndsAre(m, ask, rd, base, b)
  PROVE  EndLabels(m, ask, begun, b.round_times)
<1> DEFINE h == rd - 1
           places == HeldBy(m, ask, base.tmp)
<1>1. h \in Nat /\ h + 1 = rd /\ LandedBacked(m, ask, begun, h, base.tmp)
  BY RoundFacts
<1> HIDE DEF h
<1>2. ASSUME NEW p \in places
      PROVE  p \in Places(m, ask) /\ ArrivalBacked(m, ask, begun, h, p)
  <2>1. PICK x \in AllLocations(m) \X ViaCounts(ask) :
          base.tmp[x[1]][x[2]] # kInvalid(ask) /\ p = <<x[1], x[2], base.tmp[x[1]][x[2]]>>
    BY DEF HeldBy
  <2> DEFINE l == x[1]
             v == x[2]
  <2>2. l \in AllLocations(m) /\ l \in Nodes(m) /\ v \in ViaCounts(ask)
    BY DEF Nodes
  <2>3. base.tmp[l][v] # kInvalid(ask) /\ p = <<l, v, base.tmp[l][v]>>
    BY <2>1
  <2> HIDE DEF l, v
  <2>4. base.tmp[l][v] \in Int
    BY <2>2, StateFacts
  <2>5. ArrivalBacked(m, ask, begun, h, p)
    BY <1>1, <2>2, <2>3 DEF LandedBacked
  <2> QED
    BY <2>2, <2>3, <2>4, <2>5 DEF Places
<1>3. places = HeldBy(m, ask, base.tmp)
  OBVIOUS
<1> HIDE DEF places
<1> SUFFICES ASSUME NEW i \in Rounds, NEW v \in ViaCounts(ask), b.round_times[i][kEnd][v] # kInvalid(ask)
             PROVE  EndBacked(m, ask, begun, i, b.round_times[i][kEnd][v])
  BY DEF EndLabels
<1>4. CASE b.round_times[i][kEnd][v] = base.round_times[i][kEnd][v]
  BY <1>4 DEF EndLabels
<1>5. CASE i = rd /\ b.round_times[i][kEnd][v] \in AtEnd(m, ask, places)
  <2>1. places \subseteq Places(m, ask) /\ \A p \in places : ArrivalBacked(m, ask, begun, h, p)
    BY <1>2
  <2>2. EndBacked(m, ask, begun, h + 1, b.round_times[i][kEnd][v])
    BY <1>1, <1>5, <2>1, EndOfArrival
  <2> QED
    BY <1>1, <1>5, <2>2
<1> QED
  BY <1>3, <1>4, <1>5 DEF EndsAre, IsEnd

-----------------------------------------------------------------------------
(***************************************************************************)
(* The labels of the destinations become journeys, the last of them first. *)
(***************************************************************************)
LEMMA HighestPair ==
  ASSUME NEW T \in SUBSET (Int \X Int), IsFiniteSet(T), T # {}
  PROVE  \E x \in T : \A y \in T : y[2] < x[2] \/ (y[2] = x[2] /\ y[1] <= x[1])
<1> DEFINE second == [x \in T |-> x[2]]
           seconds == {second[x] : x \in T}
<1>1. PICK b \in seconds : \A c \in seconds : b >= c
  <2>1. IsFiniteSet(seconds)
    <3> HIDE DEF second
    <3> QED
      BY FiniteImage
  <2>2. seconds \in SUBSET Int /\ seconds # {}
    OBVIOUS
  <2> HIDE DEF seconds
  <2> QED
    BY <2>1, <2>2, HighestOfFinite
<1> DEFINE U == {x \in T : x[2] = b}
           first == [x \in U |-> x[1]]
           firsts == {first[x] : x \in U}
<1>2. PICK a \in firsts : \A c \in firsts : a >= c
  <2>1. IsFiniteSet(U)
    BY FS_Subset
  <2>2. IsFiniteSet(firsts)
    <3> HIDE DEF first, U
    <3> QED
      BY <2>1, FiniteImage
  <2>3. firsts \in SUBSET Int /\ firsts # {}
    OBVIOUS
  <2> HIDE DEF firsts
  <2> QED
    BY <2>2, <2>3, HighestOfFinite
<1>3. PICK x \in T : x[2] = b /\ x[1] = a
  BY <1>2
<1>4. ASSUME NEW y \in T
      PROVE  y[2] < x[2] \/ (y[2] = x[2] /\ y[1] <= x[1])
  <2>1. y[2] \in Int /\ y[1] \in Int /\ x[2] \in Int /\ x[1] \in Int
    OBVIOUS
  <2>2. b >= y[2]
    <3>1. y[2] \in seconds
      OBVIOUS
    <3> QED
      BY <1>1, <3>1
  <2>3. y[2] = b => a >= y[1]
    <3>1. y[2] = b => y[1] \in firsts
      OBVIOUS
    <3> QED
      BY <1>2, <3>1
  <2> QED
    BY <1>3, <2>1, <2>2, <2>3
<1> QED
  BY <1>4

\* The labels that become journeys, and their journeys.
DestLabels(ask, st, last) ==
  {x \in (1..last - 1) \X ask.is_dest : st.round_times[x[1]][x[2]][Vias(ask)] # kInvalid(ask)}
JourneyOf(ask, st, start, x) ==
  [start |-> start, dest |-> st.round_times[x[1]][x[2]][Vias(ask)], transfers |-> x[1] - 1]
Foremost(T) == CHOOSE x \in T : \A y \in T : y[2] < x[2] \/ (y[2] = x[2] /\ y[1] <= x[1])

LEMMA Collected ==
  ASSUME NEW ask, NEW st, NEW start, NEW last \in Nat, NEW found, Numbers(ask.is_dest),
         NEW b, b = collect(ask, st, start, last, found)
  PROVE  \A j \in b : j \in found \/ \E x \in DestLabels(ask, st, last) : j = JourneyOf(ask, st, start, x)
<1> DEFINE S == DestLabels(ask, st, last)
           Journey(x) == JourneyOf(ask, st, start, x)
           A == SUBSET (found \cup {Journey(x) : x \in S})
           R == A \X A
           D == S \X A
           P == [T \in SUBSET S |-> Foremost(T)]
           F == [p \in A \X S |-> add(p[1], Journey(p[2]))]
           Steps1(f) == [T \in SUBSET S |->
                           IF T = {} THEN found
                           ELSE add(f[T \ {Foremost(T)}], Journey(Foremost(T)))]
           iter == CHOOSE f : f = Steps1(f)
<1>1. S \subseteq Int \X Int /\ IsFiniteSet(S)
  <2>1. ask.is_dest \subseteq Int /\ IsFiniteSet(ask.is_dest)
    BY DEF Numbers
  <2>2. IsFiniteSet(1..last - 1)
    BY FS_Interval
  <2>3. IsFiniteSet((1..last - 1) \X ask.is_dest)
    BY <2>1, <2>2, FS_Product
  <2>4. S \subseteq (1..last - 1) \X ask.is_dest
    BY DEF DestLabels
  <2>5. IsFiniteSet(S)
    BY <2>3, <2>4, FS_Subset
  <2> QED
    BY <2>1, <2>4, <2>5
<1>2. Chooses(P, S)
  <2> SUFFICES ASSUME NEW T \in SUBSET S, T # {} PROVE Foremost(T) \in T
    BY DEF Chooses
  <2>1. T \in SUBSET (Int \X Int) /\ IsFiniteSet(T)
    BY <1>1, FS_Subset
  <2>2. \E x \in T : \A y \in T : y[2] < x[2] \/ (y[2] = x[2] /\ y[1] <= x[1])
    BY <2>1, HighestPair
  <2> QED
    BY <2>2 DEF Foremost
<1>3. ASSUME NEW a \in A, NEW x \in S PROVE add(a, Journey(x)) \in A
  BY DEF add
<1>4. /\ Forward(S, A, found, R, D) /\ F \in [A \X S -> A] /\ found \in A
      /\ \A x \in S : \A a \in A : Goes(a, add(a, Journey(x)), x, A, R, D)
  <2>1. found \in A
    OBVIOUS
  <2>2. F \in [A \X S -> A]
    BY <1>3
  <2> HIDE DEF A, S, Journey
  <2> QED
    BY <1>3, <2>1, <2>2 DEF Forward, Goes
<1> HIDE DEF S, A
<1>5. PICK f \in [SUBSET S -> A] : Follows(f, F, P, found, S)
  <2> HIDE DEF F, P
  <2> QED
    BY <1>1, <1>2, <1>4, StatesExist
<1>6. f = Steps1(f)
  <2>1. ASSUME NEW T \in SUBSET S, T # {}
        PROVE  f[T] = add(f[T \ {Foremost(T)}], Journey(Foremost(T)))
    <3>1. Foremost(T) \in S /\ f[T \ {Foremost(T)}] \in A
      BY <1>2, <2>1 DEF Chooses
    <3>2. f[T] = F[<<f[T \ {Foremost(T)}], Foremost(T)>>]
      BY <1>5, <2>1 DEF Follows
    <3> HIDE DEF Journey
    <3> QED
      BY <3>1, <3>2
  <2>2. f[{}] = found
    BY <1>5 DEF Follows
  <2> HIDE DEF Journey
  <2> QED
    BY <2>1, <2>2
<1>7. iter = Steps1(iter)
  BY <1>6, Zenon
<1>8. collect(ask, st, start, last, found) = iter[S]
  BY Zenon DEF collect, MapThenFoldSet, S, DestLabels, JourneyOf, Foremost
<1> HIDE DEF iter, Journey
<1>9. iter[{}] = found
  BY <1>7
<1>10. Passes(iter, P, S, A, R, D)
  <2>1. ASSUME NEW T \in SUBSET S, T # {}, iter[T \ {Foremost(T)}] \in A
        PROVE  Goes(iter[T \ {Foremost(T)}], iter[T], Foremost(T), A, R, D)
    <3>1. Foremost(T) \in S
      BY <1>2, <2>1 DEF Chooses
    <3>2. iter[T] = add(iter[T \ {Foremost(T)}], Journey(Foremost(T)))
      BY <1>7, <2>1
    <3> QED
      BY <1>4, <2>1, <3>1, <3>2
  <2> QED
    BY <2>1 DEF Passes
<1>11. iter[S] \in A
  <2> HIDE DEF P, F, R, D
  <2>1. Arrives(iter[S], S, found, A, R, D)
    BY <1>1, <1>2, <1>4, <1>9, <1>10, LoopAdvances
  <2> QED
    BY <2>1 DEF Arrives
<1> QED
  BY <1>8, <1>11 DEF A, S, Journey

-----------------------------------------------------------------------------
(***************************************************************************)
(* The steps of the search once more, with what is behind the labels.      *)
(***************************************************************************)
SearchedCount == Len(search.starts) - Len(todo)
BegunCount == IF pc = "start" THEN SearchedCount ELSE SearchedCount + 1
Begun == {search.starts[g].starts : g \in 1..BegunCount}

\* What is to do are the last of the starts.
LastToDo ==
  /\ Len(todo) <= Len(search.starts)
  /\ \A i \in 1..Len(todo) : todo[i] = search.starts[SearchedCount + i]

IsPromised(m, ask, list, c, j) ==
  \E g \in 1..c :
    /\ better_or_eq(ask, j.start, list[g].time_at_start)
    /\ \/ \E x \in list[g].starts :
            x.stop \in ask.is_dest /\ x.v = Vias(ask) /\ better_or_eq(ask, x.time, j.dest)
       \/ \E i \in 1..j.transfers + 1 : \E e \in Ends(m, ask, list[g].starts, i) :
            better_or_eq(ask, e, j.dest)

JourneyInv ==
  /\ RaptorInv /\ LastToDo
  /\ StartLabels(n, q, Begun, s.round_times) /\ EndLabels(n, q, Begun, s.round_times)
  /\ pc \in {"begin", "ride", "walk"} => LandedBacked(n, q, Begun, k - 1, s.tmp)
  /\ \A j \in results : IsPromised(n, q, search.starts, SearchedCount, j)

LEMMA StartsFacts ==
  ASSUME Control, LastToDo
  PROVE  /\ Len(search.starts) \in Nat /\ DOMAIN search.starts = 1..Len(search.starts)
         /\ Len(todo) \in Nat /\ SearchedCount \in 0..Len(search.starts)
         /\ BegunCount \in 0..Len(search.starts)
         /\ \A g \in 1..Len(search.starts) :
              /\ search.starts[g].time_at_start \in Int
              /\ \A x \in search.starts[g].starts : IsStart(n, q, x)
              /\ \A h \in 1..Len(search.starts) : g <= h =>
                   better_or_eq(q, search.starts[h].time_at_start, search.starts[g].time_at_start)
         /\ AreStarts(n, q, Begun)
         /\ todo # <<>> =>
              /\ SearchedCount + 1 \in 1..Len(search.starts)
              /\ Head(todo) = search.starts[SearchedCount + 1]
              /\ Len(Tail(todo)) = Len(todo) - 1
              /\ \A i \in 1..Len(todo) - 1 : Tail(todo)[i] = todo[i + 1]
<1>1. /\ search \in Searches /\ todo \in Seq({search.starts[i] : i \in DOMAIN search.starts})
      /\ pc # "start" => todo # <<>>
  BY DEF Control
<1>2. /\ IsList(search.starts)
      /\ \A i \in DOMAIN search.starts :
           /\ search.starts[i].time_at_start \in Int
           /\ \A x \in search.starts[i].starts : IsStart(n, q, x)
           /\ \A j \in DOMAIN search.starts : i <= j =>
                better_or_eq(q, search.starts[j].time_at_start, search.starts[i].time_at_start)
  BY <1>1, SearchesAssumption DEF n, q
<1>3. Len(search.starts) \in Nat /\ DOMAIN search.starts = 1..Len(search.starts)
  BY <1>2 DEF IsList
<1> DEFINE c == Len(search.starts)
           d == Len(todo)
           S == {search.starts[i] : i \in DOMAIN search.starts}
<1>4. d \in Nat /\ (todo # <<>> => d >= 1 /\ Head(todo) = todo[1] /\ Len(Tail(todo)) = d - 1
                       /\ \A i \in 1..d - 1 : Tail(todo)[i] = todo[i + 1])
  <2>1. todo \in Seq(S)
    BY <1>1
  <2> HIDE DEF S
  <2> QED
    BY <2>1
<1>5. d <= c /\ SearchedCount = c - d /\ \A i \in 1..d : todo[i] = search.starts[SearchedCount + i]
  BY DEF LastToDo, SearchedCount
<1>6. c \in Nat
  BY <1>3
<1> HIDE DEF c, d
<1>7. SearchedCount \in 0..c /\ BegunCount \in 0..c
  BY <1>1, <1>4, <1>5, <1>6 DEF BegunCount
<1>8. AreStarts(n, q, Begun)
  <2> SUFFICES ASSUME NEW g \in 1..BegunCount, NEW x \in search.starts[g].starts
               PROVE  IsStart(n, q, x)
    BY DEF AreStarts, Begun
  <2>1. g \in 1..c
    BY <1>6, <1>7
  <2> QED
    BY <1>2, <1>3, <2>1 DEF c
<1>9. todo # <<>> => SearchedCount + 1 \in 1..c /\ Head(todo) = search.starts[SearchedCount + 1]
  BY <1>4, <1>5, <1>6
<1> QED
  BY <1>2, <1>3, <1>4, <1>7, <1>8, <1>9 DEF c, d

LEMMA JourneyInit ==
  ASSUME Init
  PROVE  JourneyInv
<1>1. RaptorInv
  BY InvInit
<1>2. /\ s = InitialState(n, q) /\ todo = search.starts /\ results = {} /\ pc = "start"
  BY DEF Init
<1>3. Control
  BY <1>1 DEF RaptorInv
<1>4. Len(search.starts) \in Nat /\ IsQuery(n, q) /\ IsNetwork(n)
  <2>1. IsList(search.starts) /\ IsQuery(n, q) /\ IsNetwork(n)
    BY <1>3, SearchesAssumption DEF Control, n, q
  <2> QED
    BY <2>1 DEF IsList
<1>5. LastToDo
  BY <1>2, <1>4 DEF LastToDo, SearchedCount
<1>6. \A i \in Rounds, l \in Nodes(n), v \in ViaCounts(q) : s.round_times[i][l][v] = kInvalid(q)
  BY <1>2 DEF InitialState, Invalid
<1>7. StartLabels(n, q, Begun, s.round_times)
  BY <1>6, RoundFacts DEF StartLabels, Nodes
<1>8. EndLabels(n, q, Begun, s.round_times)
  BY <1>6 DEF EndLabels, Nodes
<1> QED
  BY <1>1, <1>2, <1>5, <1>7, <1>8 DEF JourneyInv

LEMMA JourneyStart ==
  ASSUME JourneyInv, Start
  PROVE  JourneyInv'
<1>1. /\ Control /\ LastToDo /\ pc = "start" /\ todo # <<>> /\ s \in States(n, q)
      /\ LabelsExplained(n, q, s.round_times)
      /\ search' = search /\ todo' = todo /\ results' = results /\ n' = n /\ q' = q
      /\ k' = 1 /\ pc' = "begin"
      /\ s' = begin(n, q, s, Head(todo).starts, worst_time_at_dest)
  BY DEF JourneyInv, RaptorInv, Start, n, q
<1>2. worst_time_at_dest \in Int
  <2>1. start_time \in Int /\ q.dir \in {1, -1} /\ q.max_travel_time \in Int
    BY <1>1, SearchFacts DEF IsQuery
  <2> DEFINE d == IF IsOneToAll THEN q.max_travel_time ELSE q.max_travel_time + 1
  <2>2. d \in Int
    BY <2>1
  <2>3. worst_time_at_dest = start_time + q.dir * d
    BY DEF worst_time_at_dest
  <2> HIDE DEF d
  <2> QED
    BY <2>1, <2>2, <2>3
<1>3. /\ BegunAt(n, q, s, Head(todo).starts, s')
      /\ \A l \in AllLocations(n), v \in ViaCounts(q) : s'.tmp[l][v] = kInvalid(q)
  BY <1>1, <1>2, SearchFacts, StartBegun
<1>4. RaptorInv'
  BY InvStart DEF JourneyInv
<1>5. LastToDo' /\ SearchedCount' = SearchedCount
  BY <1>1 DEF LastToDo, SearchedCount
<1>6. /\ Begun \subseteq Begun' /\ Head(todo).starts \in Begun'
      /\ q.dir \in {1, -1} /\ \A x \in Head(todo).starts : IsStart(n, q, x)
  <2>1. /\ SearchedCount \in Nat /\ Head(todo) = search.starts[SearchedCount + 1]
        /\ IsQuery(n, q) /\ \A x \in Head(todo).starts : IsStart(n, q, x)
    BY <1>1, StartsFacts, SearchFacts
  <2>2. BegunCount = SearchedCount /\ BegunCount' = SearchedCount + 1
    BY <1>1, <1>5 DEF BegunCount
  <2>3. 1..SearchedCount \subseteq 1..SearchedCount + 1 /\ SearchedCount + 1 \in 1..SearchedCount + 1
    BY <2>1
  <2> QED
    BY <1>1, <2>1, <2>2, <2>3 DEF Begun, IsQuery
<1> DEFINE more == Begun'
<1>7. Begun \subseteq more /\ Head(todo).starts \in more
  BY <1>6
<1> HIDE DEF more
<1>8. StartLabels(n, q, more, s'.round_times)
  <2> SUFFICES ASSUME NEW l \in AllLocations(n), NEW v \in ViaCounts(q),
                      s'.round_times[0][l][v] # kInvalid(q)
               PROVE  \E starts \in more : \E x \in starts :
                        x.stop = l /\ x.v = v /\ x.time = s'.round_times[0][l][v]
    BY DEF StartLabels
  <2>1. CASE s'.round_times[0][l][v] = s.round_times[0][l][v]
    BY <1>7, <2>1 DEF JourneyInv, StartLabels
  <2>2. CASE \E x \in Head(todo).starts :
               x.stop = l /\ x.v = v /\ s'.round_times[0][l][v] = clamp(x.time)
    <3>1. PICK x \in Head(todo).starts :
            x.stop = l /\ x.v = v /\ s'.round_times[0][l][v] = clamp(x.time)
      BY <2>2
    <3>2. clamp(x.time) = x.time
      BY <1>6, <3>1, StartLabel
    <3> QED
      BY <1>7, <3>1, <3>2
  <2> QED
    BY <1>3, <2>1, <2>2 DEF BegunAt
<1>9. EndLabels(n, q, more, s'.round_times)
  <2> SUFFICES ASSUME NEW i \in Rounds, NEW v \in ViaCounts(q), s'.round_times[i][kEnd][v] # kInvalid(q)
               PROVE  EndBacked(n, q, more, i, s'.round_times[i][kEnd][v])
    BY DEF EndLabels
  <2>1. s'.round_times[i][kEnd][v] = s.round_times[i][kEnd][v]
    BY <1>3 DEF BegunAt
  <2>2. EndBacked(n, q, Begun, i, s.round_times[i][kEnd][v])
    BY <2>1 DEF JourneyInv, EndLabels
  <2> QED
    BY <1>7, <2>1, <2>2 DEF EndBacked
<1>10. LandedBacked(n, q, more, k' - 1, s'.tmp)
  BY <1>3 DEF LandedBacked
<1>11. \A j \in results' : IsPromised(n, q, search.starts, SearchedCount, j)
  BY <1>1 DEF JourneyInv
<1> QED
  BY <1>1, <1>4, <1>5, <1>8, <1>9, <1>10, <1>11 DEF JourneyInv, more

\* Within a round, nothing but the labels and the arrivals changes.
SameSearch ==
  /\ search' = search /\ todo' = todo /\ results' = results /\ n' = n /\ q' = q
  /\ pc # "start" /\ pc' # "start"

LEMMA SameBegun ==
  ASSUME JourneyInv, SameSearch
  PROVE  /\ LastToDo' /\ Begun' = Begun
         /\ \A j \in results' : IsPromised(n', q', search'.starts, SearchedCount', j)
<1>1. LastToDo' /\ SearchedCount' = SearchedCount
  BY DEF LastToDo, SearchedCount, JourneyInv, SameSearch
<1>2. BegunCount' = BegunCount
  BY <1>1 DEF BegunCount, SameSearch
<1> QED
  BY <1>1, <1>2 DEF Begun, JourneyInv, SameSearch

LEMMA JourneyBeginRound ==
  ASSUME JourneyInv, BeginRound
  PROVE  JourneyInv'
<1> DEFINE begun == begin_round(n, q, k, s)
<1>1. /\ Control /\ pc = "begin" /\ k \in 1..end_k - 1 /\ s \in States(n, q)
      /\ LabelsExplained(n, q, s.round_times) /\ InBegin(n, q, s, k) /\ k' = k
      /\ s' \in {begun, swap_marks(begun)} /\ pc' \in {"collect", "ride"}
  <2>1. Control /\ pc = "begin" /\ k < end_k
    BY DEF JourneyInv, RaptorInv, BeginRound
  <2>2. k \in 1..end_k - 1
    BY <2>1, SearchFacts DEF Control
  <2>3. s' \in {begun, swap_marks(begun)} /\ pc' \in {"collect", "ride"} /\ k' = k
    BY DEF BeginRound
  <2> HIDE DEF begun
  <2> QED
    BY <2>1, <2>2, <2>3 DEF JourneyInv, RaptorInv
<1>2. SameSearch
  BY <1>1 DEF SameSearch, BeginRound, n, q
<1>3. RideBase(n, q, k, s)
  BY <1>1, SearchFacts DEF RideBase
<1>4. begun \in States(n, q) /\ begun.round_times = s.round_times /\ begun.tmp = s.tmp
  BY <1>1, <1>3, RoundBegun
<1> HIDE DEF begun
<1>5. s'.round_times = s.round_times /\ s'.tmp = s.tmp
  <2>1. swap_marks(begun).round_times = begun.round_times /\ swap_marks(begun).tmp = begun.tmp
    BY <1>4 DEF swap_marks, States
  <2> QED
    BY <1>1, <1>4, <2>1
<1>6. RaptorInv'
  BY InvBeginRound DEF JourneyInv
<1>7. StartLabels(n, q, Begun, s'.round_times) /\ EndLabels(n, q, Begun, s'.round_times)
  BY <1>5 DEF JourneyInv
<1>8. LandedBacked(n, q, Begun, k' - 1, s'.tmp)
  BY <1>1, <1>5 DEF JourneyInv
<1> QED
  BY <1>2, <1>6, <1>7, <1>8, SameBegun DEF JourneyInv, SameSearch

LEMMA JourneyRide ==
  ASSUME JourneyInv, Ride
  PROVE  JourneyInv'
<1>1. /\ Control /\ LastToDo /\ pc = "ride" /\ k \in 1..end_k - 1 /\ s \in States(n, q)
      /\ LabelsExplained(n, q, s.round_times) /\ InRide(n, q, s, k, {})
      /\ k' = k /\ s' = ride_all(n, q, k, s, marked) /\ pc' = "walk"
  BY DEF JourneyInv, RaptorInv, Ride, Control
<1>2. SameSearch
  BY <1>1 DEF SameSearch, Ride, n, q
<1>3. RideBase(n, q, k, s) /\ IsNetwork(n) /\ IsQuery(n, q) /\ k \in Rounds \ {0}
  BY <1>1, SearchFacts DEF RideBase
<1>4. marked.routes \subseteq DOMAIN n.routes /\ marked.rt_transports \subseteq DOMAIN n.rt_transports
  BY <1>1 DEF Control
<1>5. s'.round_times = s.round_times /\ HasLanded(n, q, k, s, s')
  BY <1>1, <1>3, <1>4, RoundRidden
<1>6. AreStarts(n, q, Begun)
  BY <1>1, StartsFacts
<1>7. RoundBacked(n, q, Begun, s.round_times, k - 1)
  <2>1. k - 1 \in Rounds /\ AreLabels(n, q, s.round_times)
    BY <1>1, <1>3, RoundFacts, StateFacts
  <2>2. StartLabels(n, q, Begun, s.round_times)
    BY DEF JourneyInv
  <2> QED
    BY <1>1, <1>3, <1>6, <2>1, <2>2, LabelsBacked
<1>8. LandedBacked(n, q, Begun, k - 1, s'.tmp)
  <2>1. LandedBacked(n, q, Begun, k - 1, s.tmp)
    BY <1>1 DEF JourneyInv
  <2> QED
    BY <1>3, <1>5, <1>6, <1>7, <2>1, RiddenBacked
<1>9. RaptorInv'
  BY InvRide DEF JourneyInv
<1>10. StartLabels(n, q, Begun, s'.round_times) /\ EndLabels(n, q, Begun, s'.round_times)
  BY <1>5 DEF JourneyInv
<1> QED
  BY <1>1, <1>2, <1>8, <1>9, <1>10, SameBegun DEF JourneyInv, SameSearch

LEMMA JourneyWalk ==
  ASSUME JourneyInv, Walk
  PROVE  JourneyInv'
<1>1. /\ Control /\ LastToDo /\ pc = "walk" /\ k \in 1..end_k - 1 /\ s \in States(n, q)
      /\ LabelsExplained(n, q, s.round_times) /\ InRide(n, q, s, k, s.prev_station_mark)
      /\ s' = walk_all(n, q, k, s) /\ pc' = "begin" /\ k' = k + 1
  BY DEF JourneyInv, RaptorInv, Walk, Control
<1>2. SameSearch
  BY <1>1 DEF SameSearch, Walk, n, q
<1>3. IsNetwork(n) /\ IsQuery(n, q) /\ k \in Rounds \ {0} /\ AreStarts(n, q, Begun)
  BY <1>1, SearchFacts, StartsFacts
<1>4. WalkBase(n, q, k, s)
  BY <1>1, <1>3 DEF WalkBase, InRide
<1>5. s \in WalkStates(n, q, k, s)
  BY <1>1 DEF WalkStates, InRide, EndsAre
<1>6. /\ s'.tmp = s.tmp /\ \A i \in 0..k - 1 : s'.round_times[i] = s.round_times[i]
      /\ EndsAre(n, q, k, s, s')
  BY <1>1, <1>4, <1>5, RoundWalked
<1>7. /\ k \in Nat /\ k - 1 \in Nat /\ k - 1 <= k /\ 0 \in 0..k - 1 /\ k' - 1 = k
  BY <1>1, <1>3, RoundFacts
<1>8. LandedBacked(n, q, Begun, k - 1, s.tmp)
  BY <1>1 DEF JourneyInv
<1>9. LandedBacked(n, q, Begun, k' - 1, s'.tmp)
  <2>1. s.tmp \in Labels(n, q)
    BY <1>1 DEF States
  <2>2. LandedBacked(n, q, Begun, k, s.tmp)
    BY <1>3, <1>7, <1>8, <2>1, LandedLater
  <2> QED
    BY <1>6, <1>7, <2>2
<1>10. EndLabels(n, q, Begun, s'.round_times)
  <2>1. EndLabels(n, q, Begun, s.round_times)
    BY DEF JourneyInv
  <2> QED
    BY <1>1, <1>3, <1>6, <1>8, <2>1, WalkedBacked
<1>11. StartLabels(n, q, Begun, s'.round_times)
  BY <1>6, <1>7 DEF JourneyInv, StartLabels
<1>12. RaptorInv'
  BY InvWalk DEF JourneyInv
<1> QED
  BY <1>2, <1>9, <1>10, <1>11, <1>12, SameBegun DEF JourneyInv, SameSearch

LEMMA DestinationsAreNumbers ==
  ASSUME NEW m, IsNetwork(m), NEW ask, IsQuery(m, ask)
  PROVE  Numbers(ask.is_dest)
<1>1. kEnd \in Int /\ IsFiniteSet(AllLocations(m)) /\ AllLocations(m) \subseteq Int
  BY DEF IsNetwork, kEnd
<1>2. IsFiniteSet(AllLocations(m) \cup {kEnd})
  BY <1>1, FS_AddElement
<1>3. ask.is_dest \subseteq AllLocations(m) \cup {kEnd}
  BY DEF IsQuery, Nodes
<1>4. IsFiniteSet(ask.is_dest)
  BY <1>2, <1>3, FS_Subset
<1> QED
  BY <1>1, <1>3, <1>4 DEF Numbers

\* A label of a destination promises nothing that does not exist.
LEMMA JourneyIsPromised ==
  ASSUME JourneyInv, todo # <<>>, pc # "start", NEW x \in DestLabels(q, s, end_k)
  PROVE  IsPromised(n, q, search.starts, SearchedCount + 1, JourneyOf(q, s, start_time, x))
<1> DEFINE i == x[1]
           l == x[2]
           t == s.round_times[i][l][Vias(q)]
           j == JourneyOf(q, s, start_time, x)
           c == SearchedCount + 1
<1>1. /\ Control /\ LastToDo /\ s \in States(n, q) /\ LabelsExplained(n, q, s.round_times)
      /\ StartLabels(n, q, Begun, s.round_times) /\ EndLabels(n, q, Begun, s.round_times)
  BY DEF JourneyInv, RaptorInv
<1>2. /\ IsNetwork(n) /\ IsQuery(n, q) /\ AreStarts(n, q, Begun)
      /\ AreLabels(n, q, s.round_times) /\ Vias(q) \in ViaCounts(q)
  BY <1>1, SearchFacts, StartsFacts, StateFacts, QueryFacts
<1>3. /\ i \in 1..end_k - 1 /\ l \in q.is_dest /\ t # kInvalid(q)
  BY DEF DestLabels
<1>4. i \in Rounds /\ i \in Nat /\ l \in Nodes(n)
  BY <1>1, <1>2, <1>3, SearchFacts, RoundFacts DEF IsQuery
<1>5. j.start = start_time /\ j.dest = t /\ j.transfers + 1 = i
  <2>1. j.start = start_time /\ j.dest = t /\ j.transfers = i - 1
    BY DEF JourneyOf
  <2> HIDE DEF j, i
  <2> QED
    BY <1>4, <2>1
<1> HIDE DEF i, l, j
<1>6. t \in Int
  BY <1>2, <1>4, LabelFacts
<1>7. EndBacked(n, q, Begun, i, t) \/ StayBacked(q, Begun, t)
  <2>1. CASE l = kEnd
    BY <1>1, <1>2, <1>3, <1>4, <2>1 DEF EndLabels
  <2>2. CASE l \in AllLocations(n)
    <3>1. RoundBacked(n, q, Begun, s.round_times, i)
      BY <1>1, <1>2, <1>4, LabelsBacked
    <3>2. Backed(n, q, Begun, i, l, Vias(q), t)
      BY <1>2, <1>3, <2>2, <3>1 DEF RoundBacked
    <3> HIDE DEF t
    <3> QED
      BY <1>2, <1>3, <1>4, <1>6, <2>2, <3>2, DestinationBacked
  <2> QED
    BY <1>4, <2>1, <2>2 DEF Nodes
<1> HIDE DEF t
<1>8. BegunCount = c
  BY DEF BegunCount
<1>9. ASSUME NEW starts \in Begun
      PROVE  \E g \in 1..c : search.starts[g].starts = starts
                             /\ better_or_eq(q, start_time, search.starts[g].time_at_start)
  <2>1. PICK g \in 1..c : search.starts[g].starts = starts
    BY <1>8 DEF Begun
  <2>2. /\ SearchedCount \in Nat /\ c \in 1..Len(search.starts) /\ Len(search.starts) \in Nat
        /\ Head(todo) = search.starts[c]
    BY <1>1, StartsFacts
  <2>3. start_time = search.starts[c].time_at_start
    BY <2>2 DEF start_time
  <2>4. g \in 1..Len(search.starts) /\ g <= c
    BY <2>2
  <2> HIDE DEF c
  <2>5. better_or_eq(q, search.starts[c].time_at_start, search.starts[g].time_at_start)
    BY <1>1, <2>2, <2>4, StartsFacts
  <2> QED
    BY <2>1, <2>3, <2>5
<1> HIDE DEF c
<1>10. IsPromised(n, q, search.starts, c, j)
  <2>1. CASE StayBacked(q, Begun, t)
    <3>1. PICK starts \in Begun : \E y \in starts :
            y.stop \in q.is_dest /\ y.v = Vias(q) /\ better_or_eq(q, y.time, t)
      BY <2>1 DEF StayBacked
    <3>2. PICK g \in 1..c : search.starts[g].starts = starts
                            /\ better_or_eq(q, start_time, search.starts[g].time_at_start)
      BY <1>9
    <3> QED
      BY <1>5, <3>1, <3>2 DEF IsPromised
  <2>2. CASE EndBacked(n, q, Begun, i, t)
    <3>1. PICK starts \in Begun : \E r \in 1..i : \E e \in Ends(n, q, starts, r) : better_or_eq(q, e, t)
      BY <2>2 DEF EndBacked
    <3>2. PICK g \in 1..c : search.starts[g].starts = starts
                            /\ better_or_eq(q, start_time, search.starts[g].time_at_start)
      BY <1>9
    <3> QED
      BY <1>5, <3>1, <3>2 DEF IsPromised
  <2> QED
    BY <1>7, <2>1, <2>2
<1> QED
  BY <1>10 DEF c, j

LEMMA JourneyCollect ==
  ASSUME JourneyInv, Collect
  PROVE  JourneyInv'
<1>1. /\ Control /\ LastToDo /\ todo # <<>> /\ pc # "start"
      /\ search' = search /\ todo' = Tail(todo) /\ n' = n /\ q' = q
      /\ s' = s /\ pc' = "start" /\ results' = collect(q, s, start_time, end_k, results)
  BY DEF JourneyInv, RaptorInv, Control, Collect, n, q
<1>2. /\ Len(search.starts) \in Nat /\ Len(todo) \in Nat /\ Len(todo') = Len(todo) - 1
      /\ SearchedCount \in Nat /\ \A i \in 1..Len(todo) - 1 : todo'[i] = todo[i + 1]
  BY <1>1, StartsFacts
<1>3. SearchedCount' = SearchedCount + 1
  BY <1>1, <1>2 DEF SearchedCount
<1>4. LastToDo'
  <2>1. Len(todo) <= Len(search.starts) /\ \A i \in 1..Len(todo) : todo[i] = search.starts[SearchedCount + i]
    BY <1>1 DEF LastToDo
  <2> SUFFICES ASSUME NEW i \in 1..Len(todo) - 1
               PROVE  todo'[i] = search.starts[(SearchedCount + 1) + i]
    BY <1>1, <1>2, <1>3, <2>1 DEF LastToDo
  <2>2. i + 1 \in 1..Len(todo) /\ SearchedCount + (i + 1) = (SearchedCount + 1) + i
    BY <1>2
  <2> QED
    BY <1>2, <2>1, <2>2
<1>5. Begun' = Begun
  BY <1>1, <1>3 DEF Begun, BegunCount
<1>6. ASSUME NEW j \in results' PROVE IsPromised(n, q, search.starts, SearchedCount + 1, j)
  <2>1. end_k \in Nat /\ Numbers(q.is_dest)
    BY <1>1, SearchFacts, DestinationsAreNumbers
  <2>2. j \in results \/ \E x \in DestLabels(q, s, end_k) : j = JourneyOf(q, s, start_time, x)
    BY <1>1, <2>1, Collected
  <2>3. CASE j \in results
    <3>1. IsPromised(n, q, search.starts, SearchedCount, j)
      BY <2>3 DEF JourneyInv
    <3>2. 1..SearchedCount \subseteq 1..SearchedCount + 1
      BY <1>2
    <3> QED
      BY <3>1, <3>2 DEF IsPromised
  <2>4. CASE \E x \in DestLabels(q, s, end_k) : j = JourneyOf(q, s, start_time, x)
    BY <1>1, <2>4, JourneyIsPromised
  <2> QED
    BY <2>2, <2>3, <2>4
<1>7. RaptorInv'
  BY InvCollect DEF JourneyInv
<1>8. StartLabels(n, q, Begun, s.round_times) /\ EndLabels(n, q, Begun, s.round_times)
  BY DEF JourneyInv
<1> QED
  BY <1>1, <1>3, <1>4, <1>5, <1>6, <1>7, <1>8 DEF JourneyInv

LEMMA JourneyStutter ==
  ASSUME JourneyInv, UNCHANGED vars
  PROVE  JourneyInv'
<1>1. /\ search' = search /\ s' = s /\ todo' = todo /\ k' = k /\ results' = results /\ pc' = pc
      /\ n' = n /\ q' = q
  BY DEF vars, n, q
<1>2. RaptorInv'
  BY InvStutter DEF JourneyInv
<1>3. LastToDo' /\ SearchedCount' = SearchedCount /\ Begun' = Begun
  BY <1>1 DEF JourneyInv, LastToDo, SearchedCount, Begun, BegunCount
<1> QED
  BY <1>1, <1>2, <1>3 DEF JourneyInv

(***************************************************************************)
(* No result promises more than there is, in every network, for every      *)
(* query and every sequence of start times: some itinerary with a start    *)
(* time searched so far leaves no earlier than it says, arrives no later   *)
(* and has no more transfers. What raptor::execute keeps from other start  *)
(* times and rounds, overwrites and prunes never makes up a journey.       *)
(***************************************************************************)
THEOREM NoResultIsTooGood == Spec => []NothingBetterPromised
<1>1. Init => JourneyInv
  BY JourneyInit
<1>2. JourneyInv /\ [Next]_vars => JourneyInv'
  <2> SUFFICES ASSUME JourneyInv, [Next]_vars PROVE JourneyInv'
    OBVIOUS
  <2>1. CASE Start
    BY <2>1, JourneyStart
  <2>2. CASE BeginRound
    BY <2>2, JourneyBeginRound
  <2>3. CASE Ride
    BY <2>3, JourneyRide
  <2>4. CASE Walk
    BY <2>4, JourneyWalk
  <2>5. CASE Collect
    BY <2>5, JourneyCollect
  <2>6. CASE Done \/ UNCHANGED vars
    BY <2>6, JourneyStutter DEF Done
  <2> QED
    BY <2>1, <2>2, <2>3, <2>4, <2>5, <2>6 DEF Next
<1>3. JourneyInv => NothingBetterPromised
  <2> SUFFICES ASSUME JourneyInv, NEW j \in results
               PROVE  \E g \in DOMAIN Processed :
                        /\ better_or_eq(q, j.start, Processed[g].time_at_start)
                        /\ \E t \in Staying(Processed[g].starts)
                                  \cup UNION {Ends(n, q, Processed[g].starts, m) :
                                                m \in 1..j.transfers + 1} :
                             better_or_eq(q, t, j.dest)
    BY DEF NothingBetterPromised
  <2>1. Control /\ LastToDo /\ IsPromised(n, q, search.starts, SearchedCount, j)
    BY DEF JourneyInv, RaptorInv
  <2>2. PICK g \in 1..SearchedCount :
          /\ better_or_eq(q, j.start, search.starts[g].time_at_start)
          /\ \/ \E x \in search.starts[g].starts :
                  x.stop \in q.is_dest /\ x.v = Vias(q) /\ better_or_eq(q, x.time, j.dest)
             \/ \E i \in 1..j.transfers + 1 : \E e \in Ends(n, q, search.starts[g].starts, i) :
                  better_or_eq(q, e, j.dest)
    BY <2>1 DEF IsPromised
  <2>3. DOMAIN Processed = 1..SearchedCount /\ Processed[g] = search.starts[g]
    <3> DEFINE c == SearchedCount
               list == search.starts
               S == {list[i] : i \in DOMAIN list}
    <3>1. c \in 0..Len(list) /\ Len(list) \in Nat /\ list \in Seq(S)
      <4>1. search \in Searches
        BY <2>1 DEF Control
      <4> QED
        BY <2>1, <4>1, StartsFacts, SearchesAssumption DEF IsList
    <3>2. Processed = SubSeq(list, 1, c) /\ g \in 1..c
      BY DEF Processed, SearchedCount
    <3> HIDE DEF c, list, S
    <3>3. DOMAIN Processed = 1..c /\ Processed[g] = list[g]
      BY <3>1, <3>2
    <3> QED
      BY <3>3 DEF c, list
  <2> DEFINE starts == Processed[g].starts
             staying == Staying(starts)
             ends == UNION {Ends(n, q, starts, m) : m \in 1..j.transfers + 1}
  <2>4. \E t \in staying \cup ends : better_or_eq(q, t, j.dest)
    <3>1. ASSUME NEW x \in starts, x.stop \in q.is_dest, x.v = Vias(q)
          PROVE  x.time \in staying
      BY <3>1 DEF Staying
    <3>2. ASSUME NEW i \in 1..j.transfers + 1, NEW e \in Ends(n, q, starts, i)
          PROVE  e \in ends
      OBVIOUS
    <3>3. \/ \E x \in starts : x.stop \in q.is_dest /\ x.v = Vias(q) /\ better_or_eq(q, x.time, j.dest)
          \/ \E i \in 1..j.transfers + 1 : \E e \in Ends(n, q, starts, i) : better_or_eq(q, e, j.dest)
      BY <2>2, <2>3
    <3> HIDE DEF starts, staying, ends
    <3> QED
      BY <3>1, <3>2, <3>3
  <2> QED
    BY <2>2, <2>3, <2>4
<1> QED
  BY <1>1, <1>2, <1>3, PTL DEF Spec
=============================================================================
