------------------------------ MODULE Transports ------------------------------
(***************************************************************************)
(* Routes and their transports, and the search of the first transport that *)
(* can be boarded at a stop (raptor::get_earliest_transport).              *)
(*                                                                         *)
(* A route has an event list 0..n of each transport (departure, arrival,   *)
(* departure, ..., see UpdateRun) as times relative to the day the         *)
(* transport starts at, and the days each transport runs:                  *)
(*   [times |-> Seq([Events -> Nat]), days |-> Seq(SUBSET Nat),            *)
(*    route_days |-> SUBSET Nat]                                           *)
(* Forward searches have dir = 1, backward searches dir = -1.              *)
(***************************************************************************)
EXTENDS Integers, Sequences, FiniteSets

CONSTANTS
  DayLength,     \* minutes of a day
  MaxTravelDays  \* kMaxTravelTime in days

ASSUME DayAssumption ==
  DayLength \in Nat \ {0} /\ MaxTravelDays \in Nat

is_better(dir, a, b) == dir * a < dir * b
is_better_or_eq(dir, a, b) == dir * a <= dir * b
get_best(dir, a, b) == IF is_better(dir, a, b) THEN a ELSE b

days(t) == t \div DayLength
mam(t) == t % DayLength

EventTime(r, i, day, e) == day * DayLength + r.times[i][e]

(***************************************************************************)
(* The transports are visited in the order of their departure times of the *)
(* day, backwards in a backward search; the first one not before the time  *)
(* at the stop is searched by bisection.                                   *)
(***************************************************************************)
VisitedAs(dir, r, pos) == IF dir = 1 THEN pos ELSE Len(r.times) + 1 - pos
MamOf(dir, r, e, pos) == mam(r.times[VisitedAs(dir, r, pos)][e])

\* A round of the bisection: positions w.lo..w.hi - 1 are left.
Bisected(dir, r, e, time, w) ==
  LET mid == w.lo + (w.hi - w.lo) \div 2
  IN  IF w.lo >= w.hi THEN w
      ELSE IF is_better(dir, MamOf(dir, r, e, mid), mam(time)) THEN [w EXCEPT !.lo = mid + 1]
      ELSE [w EXCEPT !.hi = mid]

\* No more rounds than transports are needed.
seek_first_day(dir, r, e, time) ==
  LET n == Len(r.times)
      left[x \in 0..n] == IF x = 0 THEN [lo |-> 1, hi |-> n + 1] ELSE Bisected(dir, r, e, time, left[x - 1])
  IN  left[n].lo

NoTransport == [pos |-> 0, day |-> 0]

(***************************************************************************)
(* Day by day, transport by transport, up to the first one that runs or    *)
(* whose event, with the lower bound lb to the destination, lies beyond    *)
(* the limit.                                                              *)
(***************************************************************************)
get_earliest_transport(dir, r, e, time, lb, limit) ==
  LET Day(x) == days(time) + dir * x[1]
      Event(x) == r.times[VisitedAs(dir, r, x[2])][e]
      StartDay(x) == Day(x) - days(Event(x))
      first == seek_first_day(dir, r, e, time)
      Visited == {x \in (0..MaxTravelDays) \X (1..Len(r.times)) :
                    Day(x) \in r.route_days /\ (x[1] = 0 => x[2] >= first)}
      BeyondLimit(x) ==
        ~is_better_or_eq(dir, Day(x) * DayLength + mam(Event(x)) + dir * lb, limit)
      Boardable(x) ==
        /\ x[1] = 0 => is_better_or_eq(dir, mam(time), mam(Event(x)))
        /\ StartDay(x) \in r.days[VisitedAs(dir, r, x[2])]
      Ends == {x \in Visited : BeyondLimit(x) \/ Boardable(x)}
      Before(x, y) == x[1] < y[1] \/ (x[1] = y[1] /\ x[2] <= y[2])
      end == CHOOSE x \in Ends : \A y \in Ends : Before(x, y)
  IN  IF Ends = {} \/ BeyondLimit(end) THEN NoTransport
      ELSE [pos |-> VisitedAs(dir, r, end[2]), day |-> StartDay(end)]

=============================================================================
