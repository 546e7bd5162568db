------------------------- MODULE RouteServicesProofs -------------------------
(***************************************************************************)
(* The transports of a route stay ordered, whatever the order the trips    *)
(* are loaded in; hence none overtakes another, and the search finds the   *)
(* earliest one that can be boarded.                                       *)
(***************************************************************************)
EXTENDS RouteServices, FiniteSetTheorems, WellFoundedInduction, TLAPS

\* One service after another one, at every event of the stop sequence.
Follows(s, u) ==
  \A e \in Events : /\ mam(s.times[e]) <= mam(u.times[e])
                    /\ s.times[e] <= u.times[e]
                    /\ u.times[e] - s.times[e] < DayLength

RowOrdered(r) == \A k, l \in DOMAIN r : k < l => Follows(r[k], r[l])

LEMMA ServiceTimes ==
  ASSUME NEW s \in Service, NEW e \in Events
  PROVE  s.times[e] \in Nat
  BY EventsAssumption DEF Service

LEMMA MamInt ==
  ASSUME NEW t \in Nat
  PROVE  mam(t) \in Int
  BY DayAssumption DEF mam

LEMMA IndexInRange ==
  ASSUME NEW r \in Seq(Service), NEW s \in Service
  PROVE  LowerBound(r, s) \in 1..Len(r) + 1
<1> DEFINE before == {k \in DOMAIN r : mam(r[k].times[0]) < mam(s.times[0])}
<1>0. Len(r) \in Nat
  OBVIOUS
<1>1. IsFiniteSet(1..Len(r)) /\ Cardinality(1..Len(r)) = Len(r)
  <2>1. \A n \in Int : IsFiniteSet(1..n) /\ (n >= 1 => Cardinality(1..n) = n)
    BY FS_Interval
  <2>2. Cardinality({}) = 0
    BY FS_EmptySet
  <2>3. Len(r) = 0 => 1..Len(r) = {}
    BY <1>0
  <2> QED
    BY <1>0, <2>1, <2>2, <2>3
<1>2. before \subseteq 1..Len(r)
  OBVIOUS
<1>3. IsFiniteSet(before) /\ Cardinality(before) <= Len(r)
  BY <1>1, <1>2, FS_Subset
<1>4. Cardinality(before) \in Nat
  BY <1>3, FS_CardinalityType
<1>5. LowerBound(r, s) = 1 + Cardinality(before)
  BY DEF LowerBound
<1> QED
  BY <1>3, <1>4, <1>5

LEMMA InsertKeepsType ==
  ASSUME NEW r \in Seq(Service), NEW s \in Service, NEW i \in 1..Len(r) + 1
  PROVE  /\ Insert(r, i, s) \in Seq(Service)
         /\ Insert(r, i, s) # <<>>
<1>1. /\ Len(r) \in Nat
      /\ \A k \in 1..Len(r) + 1 :
           (IF k < i THEN r[k] ELSE IF k = i THEN s ELSE r[k - 1]) \in Service
  OBVIOUS
<1>2. Insert(r, i, s) \in [1..Len(r) + 1 -> Service]
  BY <1>1 DEF Insert
<1>3. Len(r) + 1 \in Nat
  BY <1>1
<1>4. Insert(r, i, s) \in Seq(Service)
  BY <1>2, <1>3
<1>5. Len(Insert(r, i, s)) = Len(r) + 1
  BY <1>2, <1>3
<1> QED
  BY <1>1, <1>4, <1>5

\* Between two neighbours that it fits to, a service fits to all others.
LEMMA InsertKeepsOrder ==
  ASSUME NEW r \in Seq(Service), NEW s \in Service, NEW i \in 1..Len(r) + 1,
         RowOrdered(r), Fits(r, i, s)
  PROVE  RowOrdered(Insert(r, i, s))
<1> DEFINE q == Insert(r, i, s)
<1>0. /\ Len(r) \in Nat /\ DOMAIN r = 1..Len(r) /\ DOMAIN q = 1..Len(r) + 1
      /\ \A k \in DOMAIN r : r[k] \in Service
      /\ \A k \in DOMAIN q :
           q[k] = IF k < i THEN r[k] ELSE IF k = i THEN s ELSE r[k - 1]
  BY DEF Insert
<1>1. ASSUME NEW k \in DOMAIN r, k < i
      PROVE  Follows(r[k], s)
  <2>1. /\ i - 1 \in DOMAIN r /\ 1 \in DOMAIN r /\ i > 1 /\ r # <<>>
        /\ k = i - 1 \/ k < i - 1
        /\ k = 1 \/ 1 < k
    BY <1>0, <1>1
  <2>2. ASSUME NEW e \in Events
        PROVE  /\ mam(r[k].times[e]) <= mam(s.times[e])
               /\ r[k].times[e] <= s.times[e]
               /\ s.times[e] - r[k].times[e] < DayLength
    <3>1. /\ mam(r[i - 1].times[e]) <= mam(s.times[e])
          /\ r[i - 1].times[e] <= s.times[e]
          /\ s.times[e] - r[1].times[e] < DayLength
      BY <2>1 DEF Fits
    <3>2. /\ mam(r[k].times[e]) <= mam(r[i - 1].times[e])
          /\ r[k].times[e] <= r[i - 1].times[e]
      <4>1. CASE k < i - 1
        BY <4>1, <2>1 DEF RowOrdered, Follows
      <4>2. CASE k = i - 1
        BY <4>2, <1>0, ServiceTimes, MamInt
      <4> QED
        BY <4>1, <4>2, <2>1
    <3>3. r[1].times[e] <= r[k].times[e]
      <4>1. CASE 1 < k
        BY <4>1, <2>1 DEF RowOrdered, Follows
      <4>2. CASE k = 1
        BY <4>2, <1>0, ServiceTimes
      <4> QED
        BY <4>1, <4>2, <2>1
    <3>4. /\ r[k].times[e] \in Nat /\ r[i - 1].times[e] \in Nat
          /\ r[1].times[e] \in Nat /\ s.times[e] \in Nat
      BY <1>0, <2>1, ServiceTimes
    <3>5. /\ mam(r[k].times[e]) \in Int /\ mam(r[i - 1].times[e]) \in Int
          /\ mam(s.times[e]) \in Int
      BY <3>4, MamInt
    <3>6. mam(r[k].times[e]) <= mam(s.times[e])
      BY <3>1, <3>2, <3>5
    <3> QED
      BY <3>1, <3>2, <3>3, <3>4, <3>6, DayAssumption
  <2> QED
    BY <2>2 DEF Follows
<1>2. ASSUME NEW k \in DOMAIN r, i <= k
      PROVE  Follows(s, r[k])
  <2>1. /\ i \in DOMAIN r /\ Len(r) \in DOMAIN r /\ i <= Len(r) /\ r # <<>>
        /\ k = i \/ i < k
        /\ k = Len(r) \/ k < Len(r)
    BY <1>0, <1>2
  <2>2. ASSUME NEW e \in Events
        PROVE  /\ mam(s.times[e]) <= mam(r[k].times[e])
               /\ s.times[e] <= r[k].times[e]
               /\ r[k].times[e] - s.times[e] < DayLength
    <3>1. /\ mam(s.times[e]) <= mam(r[i].times[e])
          /\ s.times[e] <= r[i].times[e]
          /\ r[Len(r)].times[e] - s.times[e] < DayLength
      BY <2>1 DEF Fits
    <3>2. /\ mam(r[i].times[e]) <= mam(r[k].times[e])
          /\ r[i].times[e] <= r[k].times[e]
      <4>1. CASE i < k
        BY <4>1, <2>1 DEF RowOrdered, Follows
      <4>2. CASE k = i
        BY <4>2, <1>0, ServiceTimes, MamInt
      <4> QED
        BY <4>1, <4>2, <2>1
    <3>3. r[k].times[e] <= r[Len(r)].times[e]
      <4>1. CASE k < Len(r)
        BY <4>1, <2>1 DEF RowOrdered, Follows
      <4>2. CASE k = Len(r)
        BY <4>2, <1>0, ServiceTimes
      <4> QED
        BY <4>1, <4>2, <2>1
    <3>4. /\ r[k].times[e] \in Nat /\ r[i].times[e] \in Nat
          /\ r[Len(r)].times[e] \in Nat /\ s.times[e] \in Nat
      BY <1>0, <2>1, ServiceTimes
    <3>5. /\ mam(r[k].times[e]) \in Int /\ mam(r[i].times[e]) \in Int
          /\ mam(s.times[e]) \in Int
      BY <3>4, MamInt
    <3>6. mam(s.times[e]) <= mam(r[k].times[e])
      BY <3>1, <3>2, <3>5
    <3> QED
      BY <3>1, <3>2, <3>3, <3>4, <3>6, DayAssumption
  <2> QED
    BY <2>2 DEF Follows
<1>3. ASSUME NEW k \in DOMAIN q, NEW l \in DOMAIN q, k < l
      PROVE  Follows(q[k], q[l])
  <2>1. CASE l < i
    <3>1. q[k] = r[k] /\ q[l] = r[l] /\ k \in DOMAIN r /\ l \in DOMAIN r
      BY <1>0, <1>3, <2>1
    <3> QED
      BY <3>1, <1>3 DEF RowOrdered
  <2>2. CASE l = i
    <3>1. q[k] = r[k] /\ q[l] = s /\ k \in DOMAIN r /\ k < i
      BY <1>0, <1>3, <2>2
    <3> QED
      BY <3>1, <1>1
  <2>3. CASE l > i /\ k = i
    <3>1. q[k] = s /\ q[l] = r[l - 1] /\ l - 1 \in DOMAIN r /\ i <= l - 1
      BY <1>0, <1>3, <2>3
    <3> QED
      BY <3>1, <1>2
  <2>4. CASE l > i /\ k < i
    <3>1. /\ q[k] = r[k] /\ q[l] = r[l - 1]
          /\ k \in DOMAIN r /\ l - 1 \in DOMAIN r /\ k < l - 1
      BY <1>0, <1>3, <2>4
    <3> QED
      BY <3>1 DEF RowOrdered
  <2>5. CASE k > i
    <3>1. /\ q[k] = r[k - 1] /\ q[l] = r[l - 1]
          /\ k - 1 \in DOMAIN r /\ l - 1 \in DOMAIN r /\ k - 1 < l - 1
      BY <1>0, <1>3, <2>5
    <3> QED
      BY <3>1 DEF RowOrdered
  <2> QED
    BY <1>0, <1>3, <2>1, <2>2, <2>3, <2>4, <2>5
<1> QED
  BY <1>3 DEF RowOrdered

-----------------------------------------------------------------------------
IInv ==
  /\ TypeOK
  /\ \A i \in DOMAIN routes : RowOrdered(routes[i])

LEMMA InitIInv == Init => IInv
  BY DEF Init, IInv, TypeOK

LEMMA StepIInv == IInv /\ [Next]_vars => IInv'
<1> SUFFICES ASSUME IInv, [Next]_vars
             PROVE  IInv'
  OBVIOUS
<1>0. /\ routes \in Seq(Seq(Service)) /\ pending \subseteq Service
      /\ \A i \in DOMAIN routes : routes[i] # <<>> /\ RowOrdered(routes[i])
      /\ \A i \in DOMAIN routes : routes[i] \in Seq(Service)
  BY DEF IInv, TypeOK
<1>1. CASE UNCHANGED <<routes, pending>>
  BY <1>1 DEF IInv, TypeOK
<1>2. ASSUME NEW s \in Service, AddExpandedTrip(s)
      PROVE  IInv'
  <2>1. pending' \subseteq Service
    BY <1>0, <1>2 DEF AddExpandedTrip
  <2>2. ASSUME NEW i \in DOMAIN routes, Accepts(routes[i], s),
               routes' = [routes EXCEPT ![i] = Insert(@, LowerBound(@, s), s)]
        PROVE  IInv'
    <3> DEFINE index == LowerBound(routes[i], s)
    <3>1. index \in 1..Len(routes[i]) + 1
      BY <1>0, IndexInRange
    <3>2. /\ Insert(routes[i], index, s) \in Seq(Service)
          /\ Insert(routes[i], index, s) # <<>>
      BY <1>0, <3>1, InsertKeepsType
    <3>3. RowOrdered(Insert(routes[i], index, s))
      BY <1>0, <3>1, <2>2, InsertKeepsOrder DEF Accepts
    <3> HIDE DEF index
    <3>4. routes' = [routes EXCEPT ![i] = Insert(routes[i], index, s)]
      BY <2>2 DEF index
    <3>5. routes' \in Seq(Seq(Service)) /\ DOMAIN routes' = DOMAIN routes
      BY <1>0, <3>2, <3>4
    <3>6. \A j \in DOMAIN routes' : routes'[j] # <<>> /\ RowOrdered(routes'[j])
      BY <1>0, <3>2, <3>3, <3>4, <3>5
    <3> QED
      BY <2>1, <3>5, <3>6 DEF IInv, TypeOK, RowOrdered
  <2>3. ASSUME routes' = Append(routes, <<s>>)
        PROVE  IInv'
    <3>1. <<s>> \in Seq(Service) /\ <<s>> # <<>> /\ RowOrdered(<<s>>)
      BY DEF RowOrdered
    <3>2. /\ routes' \in Seq(Seq(Service))
          /\ DOMAIN routes' = 1..Len(routes) + 1
          /\ \A j \in DOMAIN routes' : j \in DOMAIN routes \/ routes'[j] = <<s>>
          /\ \A j \in DOMAIN routes : routes'[j] = routes[j]
      BY <1>0, <2>3, <3>1
    <3>3. \A j \in DOMAIN routes' : routes'[j] # <<>> /\ RowOrdered(routes'[j])
      BY <1>0, <3>1, <3>2
    <3> QED
      BY <2>1, <3>2, <3>3 DEF IInv, TypeOK, RowOrdered
  <2> QED
    BY <1>2, <2>2, <2>3 DEF AddExpandedTrip
<1>3. CASE Expand
  BY <1>0, <1>3 DEF Expand, IInv, TypeOK, RowOrdered, Follows
<1>4. CASE Finalize
  BY <1>1, <1>4 DEF Finalize
<1>5. ASSUME NEW s \in pending, AddExpandedTrip(s)
      PROVE  IInv'
  BY <1>0, <1>2, <1>5
<1> QED
  BY <1>1, <1>3, <1>4, <1>5 DEF Next, vars

LEMMA Inductive == Spec => []IInv
  BY InitIInv, StepIInv, PTL DEF Spec

-----------------------------------------------------------------------------
\* Trips of any times, loaded in any order, give routes without empty rows.
THEOREM TypeCorrect == Spec => []TypeOK
<1>1. IInv => TypeOK
  BY DEF IInv
<1> QED
  BY Inductive, <1>1, PTL

\* At every stop the transports of a route are ordered by the time of the
\* day and by time, within less than a day: get_index checks the neighbours
\* and the ends only.
THEOREM RowsStayOrdered == Spec => []RowsOrdered
<1>1. IInv => RowsOrdered
  <2> SUFFICES ASSUME IInv, NEW i \in DOMAIN routes,
                      NEW k \in DOMAIN routes[i], NEW l \in DOMAIN routes[i],
                      k < l, NEW e \in Events
               PROVE  LET t == routes[i][k].times[e]
                          u == routes[i][l].times[e]
                      IN  mam(t) <= mam(u) /\ t <= u /\ u - t < DayLength
    BY DEF RowsOrdered
  <2> QED
    BY DEF IInv, RowOrdered, Follows
<1> QED
  BY Inductive, <1>1, PTL

LEMMA LaterDay ==
  ASSUME NEW c \in Int, NEW d \in Int, c < d, NEW n \in Nat
  PROVE  c * n + n <= d * n
<1>1. (d - c - 1) * n >= 0
  <2>1. d - c - 1 \in Nat
    OBVIOUS
  <2> QED
    BY <2>1
<1>2. d * n = c * n + n + (d - c - 1) * n
  OBVIOUS
<1>3. c * n \in Int /\ d * n \in Int /\ (d - c - 1) * n \in Int
  OBVIOUS
<1> QED
  BY <1>1, <1>2, <1>3

\* "(traffic day, transport offset) lexicographic order == absolute event
\* time order" (get_index.h), at every event, for all days they run on.
THEOREM NeverOvertaken == Spec => []NoOvertaking
<1>1. IInv => NoOvertaking
  <2> SUFFICES ASSUME IInv, NEW i \in DOMAIN routes,
                      NEW k \in DOMAIN routes[i], NEW l \in DOMAIN routes[i],
                      NEW c \in routes[i][k].days, NEW d \in routes[i][l].days,
                      c < d \/ (c = d /\ k <= l), NEW e \in Events
               PROVE  c * DayLength + routes[i][k].times[e]
                        <= d * DayLength + routes[i][l].times[e]
    BY DEF NoOvertaking
  <2>1. /\ routes[i] \in Seq(Service)
        /\ routes[i][k] \in Service /\ routes[i][l] \in Service
    BY DEF IInv, TypeOK
  <2>2. routes[i][k].times[e] \in Nat /\ routes[i][l].times[e] \in Nat
    BY <2>1, ServiceTimes
  <2>3. routes[i][k].days \subseteq DayIndices /\ routes[i][l].days \subseteq DayIndices
    BY <2>1, EventsAssumption DEF Service
  <2>4. c \in Nat /\ d \in Nat
    BY <2>3, DayAssumption DEF DayIndices
  <2>5. k \in Nat /\ l \in Nat
    BY <2>1
  <2>6. /\ k < l => routes[i][k].times[e] <= routes[i][l].times[e]
        /\ l < k => routes[i][k].times[e] - routes[i][l].times[e] < DayLength
        /\ k < l => routes[i][k].times[e] < DayLength + routes[i][l].times[e]
    BY <2>2, DayAssumption DEF IInv, RowOrdered, Follows
  <2>7. c * DayLength \in Int /\ d * DayLength \in Int
    BY <2>4, DayAssumption
  <2>8. CASE c < d
    <3>1. c * DayLength + DayLength <= d * DayLength
      BY <2>4, <2>8, LaterDay, DayAssumption
    <3>2. routes[i][k].times[e] < DayLength + routes[i][l].times[e]
      BY <2>2, <2>5, <2>6, DayAssumption
    <3> QED
      BY <2>2, <2>7, <3>1, <3>2, DayAssumption
  <2>9. CASE c = d /\ k <= l
    <3>1. routes[i][k].times[e] <= routes[i][l].times[e]
      BY <2>2, <2>5, <2>6, <2>9
    <3> QED
      BY <2>2, <2>7, <2>9, <3>1
  <2> QED
    BY <2>8, <2>9
<1> QED
  BY Inductive, <1>1, PTL

-----------------------------------------------------------------------------
(***************************************************************************)
(* The search. Induction: a set of numbers has a least one, and one that   *)
(* has 0 and with each number the next one has all.                        *)
(***************************************************************************)
LEMMA LeastNumber ==
  ASSUME NEW T \in SUBSET Nat, T # {}
  PROVE  \E x \in T : \A y \in T : x <= y
<1> DEFINE R == {ss \in Nat \X Nat : ss[1] < ss[2]}
<1>1. IsWellFoundedOn(R, Nat)
  BY NatLessThanWellFounded DEF OpToRel
<1>2. \E x \in T : \A y \in T : ~(<<y, x>> \in R)
  <2> HIDE DEF R
  <2> QED
    BY <1>1, WFMin
<1>3. PICK x \in T : \A y \in T : ~(<<y, x>> \in R)
  BY <1>2
<1>4. ASSUME NEW y \in T PROVE x <= y
  <2>1. <<y, x>> \notin R
    BY <1>3
  <2> QED
    BY <2>1
<1> QED
  BY <1>4

LEMMA NumbersReached ==
  ASSUME NEW T \in SUBSET Nat, 0 \in T, \A n \in T : n + 1 \in T
  PROVE  T = Nat
<1>1. SUFFICES ASSUME T # Nat PROVE FALSE
  OBVIOUS
<1>2. PICK x \in Nat \ T : \A y \in Nat \ T : x <= y
  BY <1>1, LeastNumber
<1>3. x # 0
  BY <1>2
<1>4. x - 1 \in Nat /\ x - 1 \in T
  BY <1>2, <1>3
<1> QED
  BY <1>4, <1>2

\* Day by day, and on a day position by position.
LEMMA FirstVisited ==
  ASSUME NEW S \in SUBSET (Nat \X Nat), S # {}
  PROVE  \E x \in S : \A y \in S : x[1] < y[1] \/ (x[1] = y[1] /\ x[2] <= y[2])
<1> DEFINE A == {y[1] : y \in S}
<1>1. PICK a \in A : \A b \in A : a <= b
  <2>1. A \in SUBSET Nat /\ A # {}
    OBVIOUS
  <2> HIDE DEF A
  <2> QED
    BY <2>1, LeastNumber
<1> DEFINE B == {y[2] : y \in {y \in S : y[1] = a}}
<1>2. PICK b \in B : \A c \in B : b <= c
  <2>1. B \in SUBSET Nat /\ B # {}
    OBVIOUS
  <2> HIDE DEF B
  <2> QED
    BY <2>1, LeastNumber
<1>3. PICK x \in S : x[1] = a /\ x[2] = b
  OBVIOUS
<1>4. ASSUME NEW y \in S PROVE x[1] < y[1] \/ (x[1] = y[1] /\ x[2] <= y[2])
  <2>1. y[1] \in Nat /\ x[1] \in Nat /\ x[1] <= y[1]
    BY <1>1, <1>3
  <2>2. CASE y[1] = x[1]
    <3>1. y[2] \in B
      BY <1>3, <2>2
    <3> QED
      BY <1>2, <1>3, <2>2, <3>1
  <2> QED
    BY <2>1, <2>2
<1> QED
  BY <1>4

\* A time is a day and a time of the day, and times are compared so.
LEMMA DayAndMam ==
  ASSUME NEW t \in Int
  PROVE  days(t) \in Int /\ mam(t) \in 0..DayLength - 1 /\ t = days(t) * DayLength + mam(t)
BY DayAssumption DEF days, mam

LEMMA Signed ==
  ASSUME NEW dir \in {1, -1}, NEW a \in Int, NEW b \in Int, NEW t \in Int
  PROVE  /\ dir * a \in Int /\ dir * (dir * a) = a
         /\ dir * ((t + dir * b) - (t + dir * a)) = b - a
         /\ dir * ((t + dir * a) - t) = a
<1>1. CASE dir = 1
  BY <1>1
<1>2. CASE dir = -1
  BY <1>2
<1> QED
  BY <1>1, <1>2

LEMMA SplitTime ==
  ASSUME NEW d \in Int, NEW m \in 0..DayLength - 1
  PROVE  days(d * DayLength + m) = d /\ mam(d * DayLength + m) = m
<1> DEFINE t == d * DayLength + m
           c == days(t)
           k == mam(t)
<1>1. t \in Int /\ d * DayLength \in Int /\ DayLength \in Nat \ {0}
  BY DayAssumption
<1>2. c \in Int /\ k \in 0..DayLength - 1 /\ t = c * DayLength + k /\ c * DayLength \in Int
  <2> HIDE DEF t
  <2> QED
    BY <1>1, DayAndMam
<1>3. t = d * DayLength + m
  OBVIOUS
<1> HIDE DEF t, c, k
<1>4. ~(c < d)
  <2>1. SUFFICES ASSUME c < d PROVE FALSE
    OBVIOUS
  <2>2. c * DayLength + DayLength <= d * DayLength
    BY <1>1, <1>2, <2>1, LaterDay
  <2> QED
    BY <1>1, <1>2, <1>3, <2>2
<1>5. ~(d < c)
  <2>1. SUFFICES ASSUME d < c PROVE FALSE
    OBVIOUS
  <2>2. d * DayLength + DayLength <= c * DayLength
    BY <1>1, <1>2, <2>1, LaterDay
  <2> QED
    BY <1>1, <1>2, <1>3, <2>2
<1>6. c = d
  BY <1>2, <1>4, <1>5
<1>7. k = m
  BY <1>1, <1>2, <1>3, <1>6
<1> QED
  BY <1>6, <1>7 DEF t, c, k

LEMMA TimesCompared ==
  ASSUME NEW c \in Int, NEW m \in 0..DayLength - 1, NEW d \in Int, NEW k \in 0..DayLength - 1, NEW dir \in {1, -1}
  PROVE  is_better_or_eq(dir, c * DayLength + m, d * DayLength + k)
           <=> dir * (d - c) > 0 \/ (c = d /\ dir * m <= dir * k)
<1>1. c * DayLength \in Int /\ d * DayLength \in Int /\ DayLength \in Nat \ {0} /\ m \in Int /\ k \in Int
  BY DayAssumption
<1>2. c < d => c * DayLength + DayLength <= d * DayLength
  BY <1>1, LaterDay
<1>3. d < c => d * DayLength + DayLength <= c * DayLength
  BY <1>1, LaterDay
<1>4. CASE dir = 1
  <2>1. is_better_or_eq(dir, c * DayLength + m, d * DayLength + k)
          <=> c * DayLength + m <= d * DayLength + k
    BY <1>1, <1>4 DEF is_better_or_eq
  <2> QED
    BY <1>1, <1>2, <1>3, <1>4, <2>1
<1>5. CASE dir = -1
  <2>1. is_better_or_eq(dir, c * DayLength + m, d * DayLength + k)
          <=> d * DayLength + k <= c * DayLength + m
    BY <1>1, <1>5 DEF is_better_or_eq
  <2> QED
    BY <1>1, <1>2, <1>3, <1>5, <2>1
<1> QED
  BY <1>4, <1>5

(***************************************************************************)
(* What the search relies on: the transports are ordered by the time of    *)
(* the day at each stop, and the route has the days of all their events.   *)
(***************************************************************************)
IsRow(r) ==
  /\ r.times \in Seq([Events -> Nat])
  /\ r.days \in [DOMAIN r.times -> SUBSET DayIndices]
  /\ r.route_days \subseteq DayIndices
  /\ \A k, l \in DOMAIN r.times : k < l => \A e \in Events : mam(r.times[k][e]) <= mam(r.times[l][e])
  /\ \A k \in DOMAIN r.times : \A e \in Events : \A d \in r.days[k] :
       d + days(r.times[k][e]) \in DayIndices => d + days(r.times[k][e]) \in r.route_days

LEMMA RowFacts ==
  ASSUME NEW r, IsRow(r), NEW e \in Events
  PROVE  /\ Len(r.times) \in Nat /\ DOMAIN r.times = 1..Len(r.times)
         /\ \A k \in DOMAIN r.times : r.times[k][e] \in Nat
<1>1. r.times \in Seq([Events -> Nat])
  BY DEF IsRow
<1> DEFINE ts == r.times
           Rows == [Events -> Nat]
<1>2. ASSUME NEW k \in DOMAIN ts PROVE ts[k][e] \in Nat
  <2>1. ts[k] \in Rows
    <3> HIDE DEF ts, Rows
    <3> QED
      BY <1>1 DEF ts, Rows
  <2> QED
    BY <2>1
<1> QED
  BY <1>1, <1>2

LEMMA VisitedPositions ==
  ASSUME NEW r, IsRow(r), NEW e \in Events, NEW dir \in {1, -1}, NEW p \in 1..Len(r.times)
  PROVE  /\ VisitedAs(dir, r, p) \in DOMAIN r.times
         /\ VisitedAs(dir, r, VisitedAs(dir, r, p)) = p
         /\ MamOf(dir, r, e, p) \in 0..DayLength - 1
<1>1. Len(r.times) \in Nat /\ DOMAIN r.times = 1..Len(r.times)
  BY RowFacts
<1>2. VisitedAs(dir, r, p) \in DOMAIN r.times /\ VisitedAs(dir, r, VisitedAs(dir, r, p)) = p
  BY <1>1 DEF VisitedAs
<1>3. r.times[VisitedAs(dir, r, p)][e] \in Int
  BY <1>2, RowFacts
<1> QED
  BY <1>2, <1>3, DayAndMam DEF MamOf

LEMMA VisitedInOrder ==
  ASSUME NEW r, IsRow(r), NEW e \in Events, NEW dir \in {1, -1},
         NEW p \in 1..Len(r.times), NEW q \in 1..Len(r.times), p <= q
  PROVE  dir * MamOf(dir, r, e, p) <= dir * MamOf(dir, r, e, q)
<1>1. Len(r.times) \in Nat /\ DOMAIN r.times = 1..Len(r.times)
  BY RowFacts
<1>2. /\ VisitedAs(dir, r, p) \in DOMAIN r.times /\ VisitedAs(dir, r, q) \in DOMAIN r.times
      /\ MamOf(dir, r, e, p) \in Int /\ MamOf(dir, r, e, q) \in Int
  <2>1. ASSUME NEW x \in 1..Len(r.times)
        PROVE  VisitedAs(dir, r, x) \in DOMAIN r.times /\ MamOf(dir, r, e, x) \in 0..DayLength - 1
    BY VisitedPositions
  <2> QED
    BY <2>1
<1>3. CASE p = q
  BY <1>2, <1>3
<1>4. CASE p < q /\ dir = 1
  <2>1. VisitedAs(dir, r, p) < VisitedAs(dir, r, q)
    BY <1>4 DEF VisitedAs
  <2>2. MamOf(dir, r, e, p) <= MamOf(dir, r, e, q)
    BY <1>2, <2>1 DEF IsRow, MamOf
  <2> QED
    BY <1>2, <1>4, <2>2
<1>5. CASE p < q /\ dir = -1
  <2>1. VisitedAs(dir, r, q) < VisitedAs(dir, r, p)
    BY <1>1, <1>5 DEF VisitedAs
  <2>2. MamOf(dir, r, e, q) <= MamOf(dir, r, e, p)
    BY <1>2, <2>1 DEF IsRow, MamOf
  <2> QED
    BY <1>2, <1>5, <2>2
<1> QED
  BY <1>3, <1>4, <1>5

-----------------------------------------------------------------------------
(***************************************************************************)
(* The bisection leaves out only positions that are before the time.       *)
(***************************************************************************)
IsBisection(dir, r, e, time, n, f) ==
  f = [x \in 0..n |-> IF x = 0 THEN [lo |-> 1, hi |-> n + 1] ELSE Bisected(dir, r, e, time, f[x - 1])]

LEMMA BisectionExists ==
  ASSUME NEW dir, NEW r, NEW e, NEW time, NEW n \in Nat
  PROVE  \E f : IsBisection(dir, r, e, time, n, f)
<1> DEFINE start == [lo |-> 1, hi |-> n + 1]
           Round(f, x) == IF x = 0 THEN start ELSE Bisected(dir, r, e, time, f[x - 1])
           T == {m \in Nat : \E f : f = [x \in 0..m |-> Round(f, x)]}
<1>1. 0 \in T
  <2> DEFINE f == [x \in 0..0 |-> start]
  <2>1. f = [x \in 0..0 |-> Round(f, x)]
    OBVIOUS
  <2> QED
    BY <2>1
<1>2. ASSUME NEW m \in T PROVE m + 1 \in T
  <2>1. PICK f : f = [x \in 0..m |-> Round(f, x)]
    OBVIOUS
  <2> DEFINE g == [x \in 0..m + 1 |-> IF x = m + 1 THEN Round(f, x) ELSE f[x]]
  <2>2. ASSUME NEW x \in 0..m + 1 PROVE g[x] = Round(g, x)
    <3>1. CASE x = 0
      BY <3>1, <2>1
    <3>2. CASE x # 0 /\ x # m + 1
      <4>1. x \in 0..m /\ x - 1 \in 0..m
        BY <3>2
      <4>2. g[x] = f[x] /\ g[x - 1] = f[x - 1]
        BY <4>1
      <4>3. f[x] = Round(f, x)
        BY <4>1, <2>1
      <4> HIDE DEF g
      <4> QED
        BY <4>2, <4>3
    <3>3. CASE x = m + 1
      <4>1. x # 0 /\ x - 1 = m /\ m \in 0..m + 1
        BY <3>3
      <4>2. g[x - 1] = f[x - 1]
        BY <4>1
      <4>3. g[x] = Round(f, x)
        BY <3>3
      <4> HIDE DEF g
      <4> QED
        BY <4>1, <4>2, <4>3
    <3> QED
      BY <3>1, <3>2, <3>3
  <2>3. g = [x \in 0..m + 1 |-> Round(g, x)]
    <3> HIDE DEF Round
    <3> QED
      BY <2>2
  <2> HIDE DEF g
  <2> QED
    BY <2>3
<1>3. T = Nat
  <2> HIDE DEF T
  <2>1. T \in SUBSET Nat
    BY DEF T
  <2> QED
    BY <1>1, <1>2, <2>1, NumbersReached
<1> QED
  BY <1>3 DEF IsBisection

\* A round leaves only positions, and drops none that is not before the time.
IsLeft(dir, r, e, time, w) ==
  /\ w \in [lo : 1..Len(r.times) + 1, hi : 1..Len(r.times) + 1]
  /\ \A p \in 1..Len(r.times) : p < w.lo => is_better(dir, MamOf(dir, r, e, p), mam(time))

LEMMA RoundKeepsRest ==
  ASSUME NEW r, IsRow(r), NEW e \in Events, NEW dir \in {1, -1}, NEW time \in Int,
         NEW w, IsLeft(dir, r, e, time, w)
  PROVE  IsLeft(dir, r, e, time, Bisected(dir, r, e, time, w))
<1> DEFINE n == Len(r.times)
           mid == w.lo + (w.hi - w.lo) \div 2
           u == Bisected(dir, r, e, time, w)
<1>1. n \in Nat
  BY RowFacts
<1>2. w \in [lo : 1..n + 1, hi : 1..n + 1]
      /\ \A p \in 1..n : p < w.lo => is_better(dir, MamOf(dir, r, e, p), mam(time))
  BY DEF IsLeft
<1>3. CASE w.lo >= w.hi
  BY <1>3 DEF Bisected
<1>4. CASE w.lo < w.hi
  <2>1. mid \in w.lo..w.hi - 1 /\ mid \in 1..n /\ mid + 1 \in 1..n + 1
    <3>1. w.lo \in 1..n + 1 /\ w.hi \in 1..n + 1
      BY <1>2
    <3>2. w.hi - w.lo \in Nat \ {0}
      BY <1>1, <1>4, <3>1
    <3>3. \A h \in Nat \ {0} : h \div 2 \in 0..h - 1
      OBVIOUS
    <3>4. (w.hi - w.lo) \div 2 \in 0..(w.hi - w.lo) - 1
      BY <3>2, <3>3
    <3> DEFINE half == (w.hi - w.lo) \div 2
    <3>5. half \in 0..(w.hi - w.lo) - 1 /\ mid = w.lo + half
      BY <3>4
    <3> HIDE DEF half, mid
    <3>6. half \in Int /\ 0 <= half /\ half <= (w.hi - w.lo) - 1 /\ w.lo \in Int /\ w.hi \in Int
          /\ 1 <= w.lo /\ w.hi <= n + 1
      BY <1>1, <3>1, <3>5
    <3>7. mid \in Int /\ w.lo <= mid /\ mid <= w.hi - 1
      BY <3>5, <3>6
    <3> QED
      BY <1>1, <3>6, <3>7
  <2>2. CASE is_better(dir, MamOf(dir, r, e, mid), mam(time))
    <3>1. u = [w EXCEPT !.lo = mid + 1]
      BY <1>2, <1>4, <2>2 DEF Bisected
    <3>2. u \in [lo : 1..n + 1, hi : 1..n + 1] /\ u.lo = mid + 1
      BY <1>2, <2>1, <3>1
    <3>3. ASSUME NEW p \in 1..n, p < u.lo PROVE is_better(dir, MamOf(dir, r, e, p), mam(time))
      <4>1. p <= mid
        BY <2>1, <3>2, <3>3
      <4>2. dir * MamOf(dir, r, e, p) <= dir * MamOf(dir, r, e, mid)
        BY <2>1, <4>1, VisitedInOrder
      <4>3. dir * MamOf(dir, r, e, mid) < dir * mam(time)
        BY <2>2 DEF is_better
      <4>4. /\ MamOf(dir, r, e, p) \in 0..DayLength - 1 /\ MamOf(dir, r, e, mid) \in 0..DayLength - 1
            /\ mam(time) \in 0..DayLength - 1
        BY <2>1, VisitedPositions, DayAndMam
      <4>5. /\ dir * MamOf(dir, r, e, p) \in Int /\ dir * MamOf(dir, r, e, mid) \in Int
            /\ dir * mam(time) \in Int
        BY <4>4
      <4> QED
        BY <4>2, <4>3, <4>5 DEF is_better
    <3> QED
      BY <3>2, <3>3 DEF IsLeft
  <2>3. CASE ~is_better(dir, MamOf(dir, r, e, mid), mam(time))
    <3>1. u = [w EXCEPT !.hi = mid]
      BY <1>2, <1>4, <2>3 DEF Bisected
    <3>2. u \in [lo : 1..n + 1, hi : 1..n + 1] /\ u.lo = w.lo
      BY <1>1, <1>2, <2>1, <3>1
    <3> QED
      BY <1>2, <3>2 DEF IsLeft
  <2> QED
    BY <2>2, <2>3
<1> QED
  BY <1>2, <1>3, <1>4

LEMMA BisectionFinds ==
  ASSUME NEW r, IsRow(r), NEW e \in Events, NEW dir \in {1, -1}, NEW time \in Int
  PROVE  /\ seek_first_day(dir, r, e, time) \in Nat
         /\ \A p \in 1..Len(r.times) :
              p < seek_first_day(dir, r, e, time) => is_better(dir, MamOf(dir, r, e, p), mam(time))
<1> DEFINE n == Len(r.times)
           left == CHOOSE f : IsBisection(dir, r, e, time, n, f)
           T == {m \in Nat : m <= n => IsLeft(dir, r, e, time, left[m])}
<1>1. n \in Nat
  BY RowFacts
<1>2. seek_first_day(dir, r, e, time) = left[n].lo
  BY DEF seek_first_day, IsBisection
<1>3. IsBisection(dir, r, e, time, n, left)
  BY <1>1, BisectionExists
<1> HIDE DEF left
<1>4. left[0] = [lo |-> 1, hi |-> n + 1]
  BY <1>1, <1>3 DEF IsBisection
<1>5. ASSUME NEW x \in 1..n PROVE left[x] = Bisected(dir, r, e, time, left[x - 1])
  <2>1. x \in 0..n /\ x # 0
    BY <1>1
  <2> QED
    BY <1>3, <2>1 DEF IsBisection
<1>6. 0 \in T
  <2>1. IsLeft(dir, r, e, time, left[0])
    BY <1>1, <1>4 DEF IsLeft
  <2> QED
    BY <2>1
<1>7. ASSUME NEW m \in T PROVE m + 1 \in T
  <2>1. SUFFICES ASSUME m + 1 <= n PROVE IsLeft(dir, r, e, time, left[m + 1])
    OBVIOUS
  <2>2. m \in Nat /\ IsLeft(dir, r, e, time, left[m])
    BY <1>1, <2>1
  <2>3. m + 1 \in 1..n /\ m + 1 - 1 = m
    BY <1>1, <2>1, <2>2
  <2>4. left[m + 1] = Bisected(dir, r, e, time, left[m])
    BY <1>5, <2>3
  <2> QED
    BY <2>2, <2>4, RoundKeepsRest
<1>8. T = Nat
  <2>1. T \in SUBSET Nat
    OBVIOUS
  <2> HIDE DEF T
  <2> QED
    BY <1>6, <1>7, <2>1, NumbersReached
<1>9. IsLeft(dir, r, e, time, left[n])
  BY <1>1, <1>8
<1>10. left[n].lo \in 1..n + 1
  BY <1>9 DEF IsLeft
<1> QED
  BY <1>1, <1>2, <1>9, <1>10 DEF IsLeft

-----------------------------------------------------------------------------
(***************************************************************************)
(* Of the visited positions the first that can be boarded is the earliest. *)
(***************************************************************************)
LEMMA EarliestInRow ==
  ASSUME NEW r, IsRow(r), NEW e \in Events, NEW time \in Queries, NEW dir \in {1, -1}
  PROVE  IsEarliest(r, e, time, dir, get_earliest_transport(dir, r, e, time, 0, NoLimit(dir)))
<1> DEFINE n == Len(r.times)
           Positions == (0..MaxTravelDays) \X (1..n)
           V(p) == VisitedAs(dir, r, p)
           Day(x) == days(time) + dir * x[1]
           Event(x) == r.times[V(x[2])][e]
           StartDay(x) == Day(x) - days(Event(x))
           first == seek_first_day(dir, r, e, time)
           Visited == {x \in Positions : Day(x) \in r.route_days /\ (x[1] = 0 => x[2] >= first)}
           BeyondLimit(x) ==
             ~is_better_or_eq(dir, Day(x) * DayLength + mam(Event(x)) + dir * 0, NoLimit(dir))
           Boardable(x) ==
             /\ x[1] = 0 => is_better_or_eq(dir, mam(time), mam(Event(x)))
             /\ StartDay(x) \in r.days[V(x[2])]
           Ends == {x \in Visited : BeyondLimit(x) \/ Boardable(x)}
           Before(x, y) == x[1] < y[1] \/ (x[1] = y[1] /\ x[2] <= y[2])
           end == CHOOSE x \in Ends : \A y \in Ends : Before(x, y)
           found == get_earliest_transport(dir, r, e, time, 0, NoLimit(dir))
           At(y) == EventTime(r, y[1], y[2], e)
           Run(x) == <<V(x[2]), StartDay(x)>>
           reachable == Reachable(r, e, time, dir)
<1>1. found = IF Ends = {} \/ BeyondLimit(end) THEN NoTransport
              ELSE [pos |-> V(end[2]), day |-> StartDay(end)]
  BY DEF get_earliest_transport
<1>2. IsEarliest(r, e, time, dir, found) <=>
        IF reachable = {} THEN found = NoTransport
        ELSE /\ <<found.pos, found.day>> \in reachable
             /\ \A y \in reachable : is_better_or_eq(dir, At(<<found.pos, found.day>>), At(y))
  BY DEF IsEarliest
<1>3. n \in Nat /\ DOMAIN r.times = 1..n /\ MaxTravelDays \in Nat /\ DayLength \in Nat \ {0}
  BY RowFacts, DayAssumption
<1>4. time \in Int /\ days(time) \in 0..MaxTravelDays /\ mam(time) \in 0..DayLength - 1
      /\ time = days(time) * DayLength + mam(time)
  <2>1. time \in Nat /\ time <= MaxTravelDays * DayLength
    BY <1>3 DEF Queries
  <2>2. days(time) \in Int /\ mam(time) \in 0..DayLength - 1 /\ time = days(time) * DayLength + mam(time)
    BY <2>1, DayAndMam
  <2>3. ~(days(time) < 0)
    <3>1. SUFFICES ASSUME days(time) < 0 PROVE FALSE
      OBVIOUS
    <3>2. days(time) * DayLength + DayLength <= 0 * DayLength
      BY <1>3, <2>2, <3>1, LaterDay
    <3> QED
      BY <1>3, <2>1, <2>2, <3>2
  <2>4. ~(MaxTravelDays < days(time))
    <3>1. SUFFICES ASSUME MaxTravelDays < days(time) PROVE FALSE
      OBVIOUS
    <3>2. MaxTravelDays * DayLength + DayLength <= days(time) * DayLength
      BY <1>3, <2>2, <3>1, LaterDay
    <3>3. MaxTravelDays * DayLength \in Int /\ days(time) * DayLength \in Int
      BY <1>3, <2>2
    <3> QED
      BY <1>3, <2>1, <2>2, <3>2, <3>3
  <2> QED
    BY <1>3, <2>1, <2>2, <2>3, <2>4
<1>5. ASSUME NEW x \in Positions
      PROVE  /\ x[1] \in 0..MaxTravelDays /\ x[2] \in 1..n /\ x = <<x[1], x[2]>>
             /\ V(x[2]) \in DOMAIN r.times /\ V(V(x[2])) = x[2]
             /\ Event(x) \in Nat /\ Day(x) \in Int /\ StartDay(x) \in Int
             /\ mam(Event(x)) \in 0..DayLength - 1 /\ mam(Event(x)) = MamOf(dir, r, e, x[2])
             /\ At(Run(x)) = Day(x) * DayLength + mam(Event(x))
             /\ days(At(Run(x))) = Day(x)
  <2>1. x[1] \in 0..MaxTravelDays /\ x[2] \in 1..n /\ x = <<x[1], x[2]>>
    OBVIOUS
  <2>2. V(x[2]) \in DOMAIN r.times /\ V(V(x[2])) = x[2]
    BY <2>1, VisitedPositions
  <2>3. Event(x) \in Nat
    BY <2>2, RowFacts
  <2>4. days(Event(x)) \in Int /\ mam(Event(x)) \in 0..DayLength - 1
        /\ Event(x) = days(Event(x)) * DayLength + mam(Event(x))
    <3> HIDE DEF Event
    <3> QED
      BY <2>3, DayAndMam
  <2>5. Day(x) \in Int
    BY <1>4, <2>1
  <2>6. At(Run(x)) = StartDay(x) * DayLength + Event(x)
    BY DEF EventTime
  <2>7. mam(Event(x)) = MamOf(dir, r, e, x[2])
    BY DEF MamOf
  <2> HIDE DEF Day, Event, At, Run
  <2>8. StartDay(x) * DayLength = Day(x) * DayLength - days(Event(x)) * DayLength
    BY <1>3, <2>4, <2>5
  <2>9. Day(x) * DayLength \in Int /\ days(Event(x)) * DayLength \in Int /\ StartDay(x) \in Int
    BY <1>3, <2>4, <2>5
  <2>10. At(Run(x)) = Day(x) * DayLength + mam(Event(x))
    BY <1>3, <2>4, <2>6, <2>8, <2>9
  <2>11. days(At(Run(x))) = Day(x)
    BY <2>4, <2>5, <2>10, SplitTime
  <2> QED
    BY <2>1, <2>2, <2>3, <2>4, <2>5, <2>7, <2>9, <2>10, <2>11
<1> HIDE DEF found, end
<1>6. ASSUME NEW x \in Visited
      PROVE  Day(x) \in DayIndices /\ ~BeyondLimit(x)
  <2>1. x \in Positions /\ Day(x) \in DayIndices
    BY DEF IsRow
  <2> DEFINE d == Day(x)
             m == mam(Event(x))
  <2>2. m \in 0..DayLength - 1 /\ d \in Int
    BY <1>5, <2>1
  <2>3. d \in 0..2 * MaxTravelDays
    BY <2>1 DEF DayIndices
  <2>4. is_better_or_eq(dir, d * DayLength + m + dir * 0, NoLimit(dir))
    <3> HIDE DEF d, m
    <3> DEFINE c == 2 * MaxTravelDays + 1
    <3>1. d < c /\ c \in Int
      BY <1>3, <2>3
    <3>2. d * DayLength + DayLength <= c * DayLength
      BY <1>3, <2>2, <3>1, LaterDay
    <3>3. d * DayLength \in Nat /\ c * DayLength \in Nat
      BY <1>3, <2>3
    <3> HIDE DEF c
    <3>4. NoLimit(dir) = dir * (c * DayLength)
      BY DEF NoLimit, c
    <3>5. CASE dir = 1
      BY <1>3, <2>2, <3>2, <3>3, <3>4, <3>5 DEF is_better_or_eq
    <3>6. CASE dir = -1
      BY <1>3, <2>2, <3>2, <3>3, <3>4, <3>6 DEF is_better_or_eq
    <3> QED
      BY <3>5, <3>6
  <2> QED
    BY <2>1, <2>4
<1>7. ASSUME NEW x \in Visited, Boardable(x)
      PROVE  Run(x) \in reachable
  <2>1. x \in Positions /\ Day(x) \in DayIndices
    BY DEF IsRow
  <2>2. Run(x) \in (DOMAIN r.times) \X DayIndices
    <3>1. V(x[2]) \in DOMAIN r.times /\ StartDay(x) \in r.days[V(x[2])]
      BY <1>5, <1>7, <2>1
    <3>2. r.days[V(x[2])] \subseteq DayIndices
      BY <3>1 DEF IsRow
    <3> HIDE DEF V, StartDay
    <3> QED
      BY <3>1, <3>2
  <2>3. Run(x)[1] = V(x[2]) /\ Run(x)[2] = StartDay(x)
    OBVIOUS
  <2>4. Run(x) \in Running(r)
    BY <1>7, <2>2, <2>3 DEF Running
  <2> DEFINE c == days(time)
             m == mam(time)
             d == Day(x)
             k == mam(Event(x))
  <2>5. /\ c \in Int /\ m \in 0..DayLength - 1 /\ d \in Int /\ k \in 0..DayLength - 1
        /\ time = c * DayLength + m /\ At(Run(x)) = d * DayLength + k /\ days(At(Run(x))) = d
    BY <1>4, <1>5, <2>1
  <2>6. d = c + dir * x[1] /\ x[1] \in 0..MaxTravelDays
    BY <1>5, <2>1
  <2>7. x[1] = 0 => dir * m <= dir * k
    BY <1>7 DEF is_better_or_eq
  <2> HIDE DEF c, m, d, k, At, Run
  <2>8. dir * (d - c) = x[1]
    <3>1. x[1] \in Int
      BY <1>3, <2>6
    <3>2. dir * ((c + dir * x[1]) - c) = x[1]
      BY <2>5, <3>1, Signed
    <3> QED
      BY <2>6, <3>2
  <2>9. x[1] = 0 => c = d
    <3>1. CASE dir = 1
      BY <2>5, <2>6, <3>1
    <3>2. CASE dir = -1
      BY <2>5, <2>6, <3>2
    <3> QED
      BY <3>1, <3>2
  <2>10. dir * (d - c) > 0 \/ (c = d /\ dir * m <= dir * k)
    BY <1>3, <2>6, <2>7, <2>8, <2>9
  <2>11. is_better_or_eq(dir, time, At(Run(x)))
    BY <2>5, <2>10, TimesCompared
  <2>12. dir * (days(At(Run(x))) - days(time)) <= MaxTravelDays
    BY <1>3, <2>5, <2>6, <2>8 DEF c
  <2> QED
    BY <2>4, <2>11, <2>12 DEF Reachable, At
<1>8. ASSUME NEW y \in reachable
      PROVE  \E x \in Ends : Run(x) = y
  <2>1. /\ y \in (DOMAIN r.times) \X DayIndices /\ y[2] \in r.days[y[1]]
        /\ is_better_or_eq(dir, time, At(y)) /\ dir * (days(At(y)) - days(time)) <= MaxTravelDays
    BY DEF Reachable, Running
  <2>2. y = <<y[1], y[2]>> /\ y[1] \in 1..n /\ y[2] \in Int /\ y[2] >= 0
    BY <1>3, <2>1 DEF DayIndices
  <2> DEFINE p == V(y[1])
             t == r.times[y[1]][e]
             d == y[2] + days(t)
             x == <<dir * (d - days(time)), p>>
  <2>3. p \in 1..n /\ V(p) = y[1]
    BY <1>3, <2>2, VisitedPositions
  <2>4. t \in Nat /\ days(t) \in Int /\ mam(t) \in 0..DayLength - 1 /\ t = days(t) * DayLength + mam(t)
    <3>1. t \in Nat
      BY <1>3, <2>2, RowFacts
    <3> QED
      BY <3>1, DayAndMam
  <2>5. d \in Int /\ At(y) = d * DayLength + mam(t) /\ At(y) >= 0
    <3>1. At(y) = y[2] * DayLength + t
      BY DEF EventTime
    <3> HIDE DEF t, At
    <3>2. d * DayLength = y[2] * DayLength + days(t) * DayLength /\ d \in Int
      BY <1>3, <2>2, <2>4
    <3>3. y[2] * DayLength \in Nat /\ days(t) * DayLength \in Int
      BY <1>3, <2>2, <2>4
    <3> HIDE DEF d
    <3>4. At(y) = d * DayLength + mam(t)
      BY <2>4, <3>1, <3>2, <3>3
    <3>5. At(y) >= 0
      BY <2>4, <3>1, <3>3
    <3> QED
      BY <3>2, <3>4, <3>5
  <2>6. days(At(y)) = d
    <3> HIDE DEF t, At, d
    <3> QED
      BY <2>4, <2>5, SplitTime
  <2>7. d >= 0
    <3> HIDE DEF t, At, d
    <3>1. SUFFICES ASSUME d < 0 PROVE FALSE
      BY <2>5
    <3>2. d * DayLength + DayLength <= 0 * DayLength
      BY <1>3, <2>5, <3>1, LaterDay
    <3>3. d * DayLength \in Int
      BY <1>3, <2>5
    <3>4. mam(t) \in Int /\ mam(t) < DayLength
      BY <1>3, <2>4
    <3> QED
      BY <1>3, <2>5, <3>2, <3>3, <3>4
  <2>8. dir * (d - days(time)) > 0 \/ (days(time) = d /\ dir * mam(time) <= dir * mam(t))
    <3> HIDE DEF t, At, d
    <3> DEFINE c == days(time)
               m == mam(time)
    <3>1. c \in Int /\ m \in 0..DayLength - 1 /\ time = c * DayLength + m
      BY <1>4
    <3> HIDE DEF c, m
    <3>2. dir * (d - c) > 0 \/ (c = d /\ dir * m <= dir * mam(t))
      BY <2>1, <2>4, <2>5, <3>1, TimesCompared
    <3> QED
      BY <3>2 DEF c, m
  <2>9. dir * (d - days(time)) \in 0..MaxTravelDays /\ dir * (dir * (d - days(time))) = d - days(time)
    <3>1. dir * (d - days(time)) <= MaxTravelDays
      BY <2>1, <2>6
    <3> HIDE DEF t, At, d
    <3>2. d - days(time) \in Int
      BY <1>4, <2>5
    <3>3. /\ dir * (d - days(time)) \in Int
          /\ dir * (dir * (d - days(time))) = d - days(time)
      BY <3>2, Signed
    <3>4. dir * (d - days(time)) >= 0
      <4>1. CASE dir * (d - days(time)) > 0
        BY <3>3, <4>1
      <4>2. CASE days(time) = d
        <5>1. d - days(time) = 0
          BY <2>5, <4>2
        <5>2. dir * 0 = 0
          OBVIOUS
        <5> QED
          BY <5>1, <5>2
      <4> QED
        BY <2>8, <4>1, <4>2
    <3> QED
      BY <1>3, <3>1, <3>3, <3>4
  <2>10. x \in Positions /\ x[1] = dir * (d - days(time)) /\ x[2] = p
    BY <1>3, <2>3, <2>9
  <2>11. Event(x) = t /\ Day(x) = d /\ StartDay(x) = y[2]
    <3>1. Event(x) = t
      BY <2>3, <2>10
    <3>2. Day(x) = d
      <4>1. Day(x) = days(time) + dir * (dir * (d - days(time)))
        BY <2>10
      <4> HIDE DEF Day, x, d, t
      <4> QED
        BY <1>4, <2>5, <2>9, <4>1
    <3>3. StartDay(x) = d - days(t)
      BY <3>1, <3>2
    <3> QED
      BY <2>2, <2>4, <3>1, <3>2, <3>3
  <2>12. d \in DayIndices
    <3>1. d <= 2 * MaxTravelDays
      <4> HIDE DEF d
      <4>1. CASE dir = 1
        BY <1>3, <1>4, <2>5, <2>9, <4>1
      <4>2. CASE dir = -1
        BY <1>3, <1>4, <2>5, <2>9, <4>2
      <4> QED
        BY <4>1, <4>2
    <3> QED
      BY <1>3, <2>5, <2>7, <3>1 DEF DayIndices
  <2>13. d \in r.route_days
    BY <1>3, <2>1, <2>2, <2>12 DEF IsRow
  <2>14. x[1] = 0 => x[2] >= first
    <3>1. SUFFICES ASSUME x[1] = 0, ~(p >= first) PROVE FALSE
      BY <2>10
    <3>2. days(time) = d /\ dir * mam(time) <= dir * mam(t)
      <4> HIDE DEF t, d
      <4> QED
        BY <2>8, <2>10, <3>1
    <3>3. mam(t) = MamOf(dir, r, e, p)
      BY <2>3 DEF MamOf
    <3>4. /\ first \in Int
          /\ \A q \in 1..n : q < first => is_better(dir, MamOf(dir, r, e, q), mam(time))
      <4>1. /\ seek_first_day(dir, r, e, time) \in Nat
            /\ \A q \in 1..n :
                 q < seek_first_day(dir, r, e, time) => is_better(dir, MamOf(dir, r, e, q), mam(time))
        BY <1>4, BisectionFinds
      <4> QED
        BY <4>1
    <3> HIDE DEF first
    <3>5. p < first
      BY <1>3, <2>3, <3>1, <3>4
    <3>6. dir * mam(t) < dir * mam(time)
      BY <2>3, <3>3, <3>4, <3>5 DEF is_better
    <3>7. dir * mam(t) \in Int /\ dir * mam(time) \in Int
      BY <1>4, <2>4
    <3> HIDE DEF t
    <3> QED
      BY <3>2, <3>6, <3>7
  <2> HIDE DEF x
  <2>15. x \in Visited
    BY <2>10, <2>11, <2>13, <2>14
  <2>16. Boardable(x)
    <3>1. x[1] = 0 => is_better_or_eq(dir, mam(time), mam(Event(x)))
      <4>1. x[1] = 0 => dir * mam(time) <= dir * mam(t)
        BY <2>8, <2>10
      <4> QED
        BY <2>11, <4>1 DEF is_better_or_eq
    <3>2. StartDay(x) \in r.days[V(x[2])]
      BY <2>1, <2>3, <2>10, <2>11
    <3> QED
      BY <3>1, <3>2
  <2>17. Run(x) = y
    BY <2>2, <2>3, <2>10, <2>11
  <2> QED
    BY <2>15, <2>16, <2>17
<1>9. ASSUME NEW x \in Positions, NEW z \in Positions, Before(x, z)
      PROVE  is_better_or_eq(dir, At(Run(x)), At(Run(z)))
  <2> DEFINE c == Day(x)
             m == mam(Event(x))
             d == Day(z)
             k == mam(Event(z))
  <2>1. /\ c \in Int /\ m \in 0..DayLength - 1 /\ d \in Int /\ k \in 0..DayLength - 1
        /\ At(Run(x)) = c * DayLength + m /\ At(Run(z)) = d * DayLength + k
        /\ m = MamOf(dir, r, e, x[2]) /\ k = MamOf(dir, r, e, z[2])
        /\ x[1] \in Int /\ z[1] \in Int /\ x[2] \in 1..n /\ z[2] \in 1..n
    <3>1. ASSUME NEW v \in Positions
          PROVE  /\ Day(v) \in Int /\ mam(Event(v)) \in 0..DayLength - 1
                 /\ At(Run(v)) = Day(v) * DayLength + mam(Event(v))
                 /\ mam(Event(v)) = MamOf(dir, r, e, v[2])
                 /\ v[1] \in Int /\ v[2] \in 1..n
      <4>1. v[1] \in Int /\ v[2] \in 1..n
        BY <1>3, <1>5
      <4>2. Day(v) \in Int
        <5> HIDE DEF Day
        <5> QED
          BY <1>5
      <4>3. /\ mam(Event(v)) \in 0..DayLength - 1 /\ mam(Event(v)) = MamOf(dir, r, e, v[2])
            /\ At(Run(v)) = Day(v) * DayLength + mam(Event(v))
        <5> HIDE DEF Day, Event, At, Run
        <5> QED
          BY <1>5
      <4> QED
        BY <4>1, <4>2, <4>3
    <3> HIDE DEF Positions, Day, Event, At, Run
    <3> QED
      BY <3>1
  <2>2. c = days(time) + dir * x[1] /\ d = days(time) + dir * z[1]
    OBVIOUS
  <2> HIDE DEF c, m, d, k, At, Run
  <2>3. dir * (d - c) = z[1] - x[1] /\ (x[1] = z[1] => c = d)
    <3>1. days(time) \in Int
      BY <1>3, <1>4
    <3> DEFINE u == x[1]
               w == z[1]
               t == days(time)
    <3>2. u \in Int /\ w \in Int /\ t \in Int /\ c = t + dir * u /\ d = t + dir * w
      BY <2>1, <2>2, <3>1
    <3> HIDE DEF u, w, t
    <3>3. dir * ((t + dir * w) - (t + dir * u)) = w - u
      BY <3>2, Signed
    <3>4. dir * (d - c) = w - u /\ (u = w => c = d)
      BY <3>2, <3>3
    <3> QED
      BY <3>4 DEF u, w
  <2>4. x[2] <= z[2] => dir * m <= dir * k
    BY <2>1, VisitedInOrder
  <2>5. dir * (d - c) > 0 \/ (c = d /\ dir * m <= dir * k)
    BY <1>9, <2>1, <2>3, <2>4
  <2> QED
    BY <2>1, <2>5, TimesCompared
<1>10. Ends \subseteq Positions
  OBVIOUS
<1>11. CASE Ends = {}
  <2>1. reachable = {}
    BY <1>8, <1>11
  <2> QED
    BY <1>1, <1>2, <1>11, <2>1 DEF found
<1>12. CASE Ends # {}
  <2>1. end \in Ends /\ \A z \in Ends : Before(end, z)
    <3>1. Ends \in SUBSET (Nat \X Nat)
      BY <1>3
    <3>2. \E x \in Ends : \A z \in Ends : Before(x, z)
      <4> HIDE DEF Ends
      <4> QED
        BY <1>12, <3>1, FirstVisited
    <3> HIDE DEF Ends, Before
    <3> QED
      BY <3>2 DEF end
  <2>2. end \in Visited /\ ~BeyondLimit(end) /\ Boardable(end)
    BY <1>6, <2>1
  <2>3. Run(end) \in reachable
    BY <1>7, <2>2
  <2>4. found = [pos |-> V(end[2]), day |-> StartDay(end)]
    BY <1>1, <1>12, <2>2
  <2>5. <<found.pos, found.day>> = Run(end)
    BY <2>4
  <2>6. ASSUME NEW y \in reachable PROVE is_better_or_eq(dir, At(Run(end)), At(y))
    <3>1. PICK z \in Ends : Run(z) = y
      BY <1>8
    <3> HIDE DEF Ends, Before, At, Run, reachable
    <3> QED
      BY <1>9, <1>10, <2>1, <3>1
  <2> HIDE DEF reachable, At, Run
  <2> QED
    BY <1>2, <2>3, <2>5, <2>6 DEF found
<1> QED
  BY <1>11, <1>12

-----------------------------------------------------------------------------
(***************************************************************************)
(* The finished timetable: the patterns lose nothing, and a route has the  *)
(* days of all events of its transports.                                   *)
(***************************************************************************)
LEMMA LastEventIsLatest ==
  ASSUME NEW t \in [Events -> Nat], \A e \in Events \ {0} : t[e - 1] <= t[e]
  PROVE  \A e \in Events : t[e] <= t[NEvents - 1]
<1> DEFINE z == NEvents - 1
           T == {n \in Nat : z - n \in Events => t[z - n] <= t[z]}
<1>1. z \in Nat /\ Events = 0..z /\ t[z] \in Nat
  BY EventsAssumption DEF Events
<1>2. T \in SUBSET Nat
  OBVIOUS
<1>3. 0 \in T
  BY <1>1
<1>4. ASSUME NEW n \in T PROVE n + 1 \in T
  <2>1. n \in Nat
    OBVIOUS
  <2>2. SUFFICES ASSUME z - (n + 1) \in Events PROVE t[z - (n + 1)] <= t[z]
    BY <2>1
  <2>3. z - n \in Events \ {0} /\ (z - n) - 1 = z - (n + 1)
    BY <1>1, <2>1, <2>2
  <2>4. t[(z - n) - 1] <= t[z - n]
    BY <2>3
  <2>5. t[z - n] <= t[z]
    BY <2>3
  <2>6. t[z - n] \in Nat /\ t[z - (n + 1)] \in Nat
    BY <2>2, <2>3
  <2> QED
    BY <1>1, <2>3, <2>4, <2>5, <2>6
<1>5. T = Nat
  <2> HIDE DEF T
  <2> QED
    BY <1>2, <1>3, <1>4, NumbersReached
<1>6. ASSUME NEW e \in Events PROVE t[e] <= t[z]
  <2>1. z - e \in T /\ z - (z - e) = e
    BY <1>1, <1>5
  <2> QED
    BY <2>1
<1> QED
  BY <1>6

LEMMA MaxDeltaFacts ==
  ASSUME NEW t \in [Events -> Nat], \A e \in Events \ {0} : t[e - 1] <= t[e], NEW e \in Events
  PROVE  days(t[e]) \in 0..MaxDelta(t)
<1> DEFINE z == NEvents - 1
           D == {days(t[f]) : f \in Events}
<1>1. z \in Events /\ t[z] \in Nat /\ t[e] \in Nat
  BY EventsAssumption DEF Events
<1>2. ASSUME NEW a \in Nat, NEW b \in Nat, a <= b
      PROVE  days(a) \in Int /\ days(b) \in Int /\ days(a) <= days(b)
  <2> DEFINE c == days(a)
             d == days(b)
  <2>1. /\ c \in Int /\ mam(a) \in 0..DayLength - 1 /\ a = c * DayLength + mam(a)
        /\ d \in Int /\ mam(b) \in 0..DayLength - 1 /\ b = d * DayLength + mam(b)
    BY DayAndMam
  <2> HIDE DEF c, d
  <2>2. ~(d < c)
    <3>1. SUFFICES ASSUME d < c PROVE FALSE
      OBVIOUS
    <3>2. d * DayLength + DayLength <= c * DayLength
      BY <2>1, <3>1, DayAssumption, LaterDay
    <3>3. c * DayLength \in Int /\ d * DayLength \in Int
      BY <2>1, DayAssumption
    <3> QED
      BY <1>2, <2>1, <3>2, <3>3, DayAssumption
  <2> QED
    BY <2>1, <2>2 DEF c, d
<1>3. \A f \in Events : t[f] \in Nat /\ t[f] <= t[z]
  BY LastEventIsLatest
<1>4. \A f \in Events : days(t[f]) \in Nat /\ days(t[f]) <= days(t[z])
  <2>1. 0 \in Nat /\ days(0) = 0
    BY DayAssumption DEF days
  <2> QED
    BY <1>1, <1>2, <1>3, <2>1
<1>5. \E d \in D : \A f \in Events : days(t[f]) <= d
  BY <1>1, <1>4
<1>6. MaxDelta(t) \in D /\ \A f \in Events : days(t[f]) <= MaxDelta(t)
  BY <1>5 DEF MaxDelta
<1> QED
  BY <1>4, <1>6

LEMMA FirstOfPattern ==
  ASSUME NEW r \in Seq(Service), NEW k \in DOMAIN r
  PROVE  \E j \in 1..k : SamePattern(r[j], r[k]) /\ IsNewPattern(r, j)
<1> DEFINE S == {j \in 1..k : SamePattern(r[j], r[k])}
<1>1. k \in Nat \ {0} /\ DOMAIN r = 1..Len(r)
  OBVIOUS
<1>2. k \in S /\ S \in SUBSET Nat
  BY <1>1 DEF SamePattern
<1>3. PICK j \in S : \A i \in S : j <= i
  <2> HIDE DEF S
  <2> QED
    BY <1>2, LeastNumber
<1>4. j \in 1..k /\ SamePattern(r[j], r[k])
  BY <1>3
<1>5. ASSUME NEW i \in 1..j - 1 PROVE ~SamePattern(r[i], r[j])
  <2>1. i \in 1..k /\ i < j
    BY <1>1, <1>4
  <2>2. i \notin S
    <3> HIDE DEF S
    <3> QED
      BY <1>1, <1>3, <1>4, <2>1
  <2> QED
    BY <1>4, <2>1, <2>2 DEF SamePattern
<1> QED
  BY <1>4, <1>5 DEF IsNewPattern

\* The number of a pattern that begins with the transport j.
Number(r, j) == Cardinality({i \in 1..j : IsNewPattern(r, i)})

\* Two different transports that begin a pattern have different numbers.
LEMMA NewPatterns ==
  ASSUME NEW r \in Seq(Service), NEW j \in DOMAIN r, NEW k \in DOMAIN r, j < k,
         IsNewPattern(r, j), IsNewPattern(r, k)
  PROVE  Number(r, j) \in Nat \ {0} /\ Number(r, j) < Number(r, k)
<1> DEFINE A == {i \in 1..j : IsNewPattern(r, i)}
           B == {i \in 1..k : IsNewPattern(r, i)}
<1>1. j \in Nat \ {0} /\ k \in Nat \ {0}
  OBVIOUS
<1>2. IsFiniteSet(1..k)
  BY <1>1, FS_Interval
<1>3. A \subseteq B /\ B \subseteq 1..k /\ j \in A /\ k \in B /\ k \notin A
  BY <1>1
<1> HIDE DEF A, B
<1>4. IsFiniteSet(B)
  BY <1>2, <1>3, FS_Subset
<1>5. IsFiniteSet(A) /\ Cardinality(A) < Cardinality(B)
  <2>1. IsFiniteSet(A) /\ Cardinality(A) <= Cardinality(B) /\ Cardinality(A) # Cardinality(B)
    BY <1>3, <1>4, FS_Subset
  <2>2. Cardinality(A) \in Nat /\ Cardinality(B) \in Nat
    BY <1>4, <2>1, FS_CardinalityType
  <2> QED
    BY <2>1, <2>2
<1>6. Cardinality(A) \in Nat /\ Cardinality(A) # 0
  BY <1>3, <1>5, FS_CardinalityType, FS_EmptySet
<1> QED
  BY <1>5, <1>6 DEF A, B, Number


LEMMA PatternFacts ==
  ASSUME NEW r \in Seq(Service), NEW k \in DOMAIN r
  PROVE  \E j \in DOMAIN r : /\ SamePattern(r[j], r[k]) /\ IsNewPattern(r, j)
                             /\ PatternOf(r, k) = Number(r, j)
                             /\ IsNewPattern(r, k) => j = k
<1> DEFINE j == CHOOSE i \in 1..k : SamePattern(r[i], r[k]) /\ IsNewPattern(r, i)
<1>1. k \in Nat \ {0} /\ DOMAIN r = 1..Len(r) /\ Len(r) \in Nat
  OBVIOUS
<1>2. j \in 1..k /\ SamePattern(r[j], r[k]) /\ IsNewPattern(r, j)
  BY FirstOfPattern
<1>3. PatternOf(r, k) = Number(r, j)
  BY DEF PatternOf, Number
<1> HIDE DEF j
<1>4. ASSUME IsNewPattern(r, k) PROVE j = k
  <2>1. j \notin 1..k - 1
    BY <1>2, <1>4 DEF IsNewPattern
  <2> QED
    BY <1>1, <1>2, <2>1
<1>5. j \in DOMAIN r
  BY <1>1, <1>2
<1> QED
  BY <1>2, <1>3, <1>4, <1>5

\* What a first departure and a pattern give is the time of the service.
LEMMA NothingCompressedAway ==
  ASSUME NEW r \in Seq(Service), NEW k \in DOMAIN r, NEW e \in Events
  PROVE  event_mam(compress_stop_times(r), k, e) = r[k].times[e]
<1> DEFINE news == {i \in DOMAIN r : IsNewPattern(r, i)}
           c == compress_stop_times(r)
           Begin(p) == CHOOSE i \in news : PatternOf(r, i) = p
<1>1. DOMAIN r = 1..Len(r) /\ Len(r) \in Nat
  OBVIOUS
<1>2. /\ c.first_dep[k] = r[k].times[0] /\ c.pattern[k] = PatternOf(r, k)
      /\ \A p \in 1..Cardinality(news) : c.offsets[p] = Offsets(r[Begin(p)])
  BY DEF compress_stop_times
<1>3. PICK j \in DOMAIN r : /\ SamePattern(r[j], r[k]) /\ IsNewPattern(r, j)
                            /\ PatternOf(r, k) = Number(r, j)
  BY PatternFacts
<1>4. \A i \in news : PatternOf(r, i) = Number(r, i)
  BY PatternFacts
<1> HIDE DEF c
<1>5. j \in news
  BY <1>3
<1>6. ASSUME NEW i \in news, Number(r, i) = Number(r, j) PROVE i = j
  <2>1. i \in Int /\ j \in Int /\ i \in DOMAIN r /\ IsNewPattern(r, i)
    BY <1>1
  <2>2. ~(i < j)
    <3>1. SUFFICES ASSUME i < j PROVE FALSE
      OBVIOUS
    <3>2. Number(r, i) < Number(r, j) /\ Number(r, i) \in Nat
      BY <1>3, <2>1, <3>1, NewPatterns
    <3> QED
      BY <1>6, <3>2
  <2>3. ~(j < i)
    <3>1. SUFFICES ASSUME j < i PROVE FALSE
      OBVIOUS
    <3>2. Number(r, j) < Number(r, i) /\ Number(r, j) \in Nat
      BY <1>3, <2>1, <3>1, NewPatterns
    <3> QED
      BY <1>6, <3>2
  <2> QED
    BY <2>1, <2>2, <2>3
<1>7. Number(r, j) \in 1..Cardinality(news)
  <2> DEFINE A == {x \in 1..j : IsNewPattern(r, x)}
  <2>1. A \subseteq news /\ news \subseteq 1..Len(r) /\ j \in A
    BY <1>1, <1>3
  <2>2. IsFiniteSet(1..Len(r))
    BY <1>1, FS_Interval
  <2> HIDE DEF A, news
  <2>3. IsFiniteSet(news)
    BY <2>1, <2>2, FS_Subset
  <2>4. IsFiniteSet(A) /\ Cardinality(A) <= Cardinality(news)
    BY <2>1, <2>3, FS_Subset
  <2>5. Cardinality(A) \in Nat /\ Cardinality(news) \in Nat /\ Cardinality(A) # 0
    BY <2>1, <2>3, <2>4, FS_CardinalityType, FS_EmptySet
  <2>6. Cardinality(A) \in 1..Cardinality(news)
    BY <2>4, <2>5
  <2> QED
    BY <2>6 DEF A, Number
<1> HIDE DEF news
<1>8. Begin(Number(r, j)) = j
  <2>1. \A i \in news : PatternOf(r, i) = Number(r, j) <=> i = j
    BY <1>4, <1>5, <1>6
  <2> QED
    BY <1>5, <2>1
<1>9. c.offsets[c.pattern[k]] = Offsets(r[k])
  BY <1>2, <1>3, <1>7, <1>8 DEF SamePattern
<1>10. event_mam(c, k, e) = r[k].times[0] + (r[k].times[e] - r[k].times[0])
  BY <1>2, <1>9 DEF event_mam, Offsets
<1>11. r[k].times[e] \in Nat /\ r[k].times[0] \in Nat
  <2>1. r[k] \in Service /\ 0 \in Events
    BY EventsAssumption DEF Events
  <2> QED
    BY <2>1, ServiceTimes
<1> QED
  BY <1>10, <1>11 DEF c

LEMMA FinishedIsRow ==
  ASSUME NEW r \in Seq(Service), RowOrdered(r)
  PROVE  IsRow(Finished(r))
<1> DEFINE f == Finished(r)
           ts == [k \in DOMAIN r |-> [e \in Events |-> event_mam(compress_stop_times(r), k, e)]]
           runs == [k \in DOMAIN r |-> r[k].days]
<1>1. f = [times |-> ts, days |-> runs, route_days |-> rebuild_route_traffic_days(ts, runs)]
  BY DEF Finished
<1>2. f.times = ts /\ f.days = runs /\ f.route_days = rebuild_route_traffic_days(ts, runs)
  BY <1>1
<1>3. DOMAIN r = 1..Len(r) /\ Len(r) \in Nat /\ \A k \in DOMAIN r : r[k] \in Service
  OBVIOUS
<1>4. ASSUME NEW k \in DOMAIN r
      PROVE  /\ ts[k] = r[k].times /\ ts[k] \in [Events -> Nat]
             /\ \A e \in Events \ {0} : ts[k][e - 1] <= ts[k][e]
             /\ runs[k] \in SUBSET DayIndices
  <2>1. /\ r[k].times \in [Events -> Nat] /\ r[k].days \in SUBSET DayIndices
        /\ \A e \in Events \ {0} : r[k].times[e - 1] <= r[k].times[e]
    BY <1>3 DEF Service
  <2>2. \A e \in Events : event_mam(compress_stop_times(r), k, e) = r[k].times[e]
    BY NothingCompressedAway
  <2>3. ts[k] = [e \in Events |-> r[k].times[e]]
    BY <2>2
  <2>4. ts[k] = r[k].times
    BY <2>1, <2>3
  <2> QED
    BY <2>1, <2>4
<1>5. DOMAIN ts = DOMAIN r /\ DOMAIN runs = DOMAIN r
  OBVIOUS
<1>6. ts \in Seq([Events -> Nat])
  <2> DEFINE Rows == [Events -> Nat]
  <2>1. ts \in [1..Len(r) -> Rows]
    <3>1. \A k \in DOMAIN r : [e \in Events |-> event_mam(compress_stop_times(r), k, e)] \in Rows
      BY <1>4
    <3> HIDE DEF Rows
    <3> QED
      BY <1>3, <3>1
  <2> HIDE DEF ts, Rows
  <2>2. ts \in Seq(Rows)
    BY <1>3, <2>1
  <2> QED
    BY <2>2 DEF Rows
<1>7. runs \in [DOMAIN ts -> SUBSET DayIndices]
  BY <1>4
<1> HIDE DEF ts, runs, f
<1>8. f.route_days \subseteq DayIndices
  BY <1>2 DEF rebuild_route_traffic_days
<1>9. ASSUME NEW k \in DOMAIN ts, NEW l \in DOMAIN ts, k < l, NEW e \in Events
      PROVE  mam(ts[k][e]) <= mam(ts[l][e])
  BY <1>4, <1>5, <1>9 DEF RowOrdered, Follows
<1>10. ASSUME NEW k \in DOMAIN ts, NEW e \in Events, NEW d \in runs[k], d + days(ts[k][e]) \in DayIndices
       PROVE  d + days(ts[k][e]) \in f.route_days
  <2>1. days(ts[k][e]) \in 0..MaxDelta(ts[k])
    BY <1>4, <1>5, MaxDeltaFacts
  <2>2. d \in Int
    BY <1>4, <1>5, DayAssumption DEF DayIndices
  <2> DEFINE i == days(ts[k][e])
  <2>3. i \in 0..MaxDelta(ts[k]) /\ i \in Int
    BY <2>1
  <2> HIDE DEF i
  <2>4. (d + i) - i = d
    BY <2>2, <2>3
  <2>5. (d + i) - i \in runs[k]
    BY <2>4
  <2>6. d + i \in DayIndices
    BY <1>10 DEF i
  <2>7. d + i \in rebuild_route_traffic_days(ts, runs)
    BY <2>3, <2>5, <2>6 DEF rebuild_route_traffic_days
  <2> QED
    BY <1>2, <2>7 DEF i
<1> QED
  BY <1>2, <1>6, <1>7, <1>8, <1>9, <1>10 DEF IsRow, f

-----------------------------------------------------------------------------
\* The timetable holds the routes as they are finished.
FinishedOnce == tt # <<>> => tt = [i \in DOMAIN routes |-> Finished(routes[i])]

\* Whatever the order of loading was, the search finds the first event of a
\* transport of the route that can be boarded at the stop, or that there is
\* none: the bisection of the first day and the scan that stops at the first
\* transport that runs (get_earliest_transport) miss none.
THEOREM EarliestIsFound == Spec => []EarliestFound
<1>1. Init => FinishedOnce
  BY DEF Init, FinishedOnce
<1>2. FinishedOnce /\ [Next]_vars => FinishedOnce'
  <2> SUFFICES ASSUME FinishedOnce, [Next]_vars PROVE FinishedOnce'
    OBVIOUS
  <2>1. CASE Expand
    BY <2>1 DEF Expand, FinishedOnce
  <2>2. CASE Finalize
    BY <2>2 DEF Finalize, FinishedOnce
  <2>3. ASSUME NEW s \in pending, AddExpandedTrip(s) PROVE FinishedOnce'
    BY <2>3 DEF AddExpandedTrip, FinishedOnce
  <2>4. CASE UNCHANGED vars
    BY <2>4 DEF vars, FinishedOnce
  <2> QED
    BY <2>1, <2>2, <2>3, <2>4 DEF Next
<1>3. IInv /\ FinishedOnce => EarliestFound
  <2> SUFFICES ASSUME IInv, FinishedOnce, NEW i \in DOMAIN tt, NEW e \in Events,
                      NEW time \in Queries, NEW dir \in {1, -1}
               PROVE  IsEarliest(tt[i], e, time, dir,
                                 get_earliest_transport(dir, tt[i], e, time, 0, NoLimit(dir)))
    BY DEF EarliestFound
  <2>1. i \in DOMAIN routes /\ tt[i] = Finished(routes[i])
    BY DEF FinishedOnce
  <2>2. routes[i] \in Seq(Service) /\ RowOrdered(routes[i])
    BY <2>1 DEF IInv, TypeOK
  <2>3. IsRow(tt[i])
    BY <2>1, <2>2, FinishedIsRow
  <2> QED
    BY <2>3, EarliestInRow
<1> QED
  BY Inductive, <1>1, <1>2, <1>3, PTL DEF Spec

=============================================================================
