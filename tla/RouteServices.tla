---------------------------- MODULE RouteServices ----------------------------
(***************************************************************************)
(* The transports of a route, from the loader to the search.               *)
(*                                                                         *)
(* The GTFS loader (gtfs/load_timetable.cc) sorts every expanded trip of a *)
(* stop sequence into the first route that can take it, else into a new    *)
(* one: get_index keeps the transports of a route ordered at every stop.   *)
(* finalize then stores the times as a first departure and a shared        *)
(* pattern (compress_stop_times.cc) and combines the traffic days of the   *)
(* transports into those of the route (init_finish.cc).  The search relies *)
(* on the order: it takes the first transport it finds.                    *)
(***************************************************************************)
EXTENDS Transports

CONSTANTS
  ServiceId,  \* what an expanded trip is known by
  NEvents     \* events of a service (2 * stops - 2)

Events == 0..NEvents - 1
DayIndices == 0..2 * MaxTravelDays  \* the days of a bitfield

\* An expanded trip: its times rise from stop to stop.
Service ==
  [id : ServiceId,
   times : {t \in [Events -> Nat] : \A e \in Events \ {0} : t[e - 1] <= t[e]},
   days : SUBSET DayIndices]

ASSUME EventsAssumption == NEvents \in Nat \ {0}

VARIABLES
  routes,   \* route_services of one route key
  pending,  \* expanded trips that are not in a route yet
  tt        \* the routes of the finished timetable

vars == <<routes, pending, tt>>

-----------------------------------------------------------------------------
(***************************************************************************)
(* get_index: the position of a service in a route, 0 if it does not fit.  *)
(***************************************************************************)

\* The services before the position have an earlier first departure of the day.
LowerBound(r, s) ==
  1 + Cardinality({k \in DOMAIN r : mam(r[k].times[0]) < mam(s.times[0])})

\* Mutant: only the times of the day are compared.
Fits_ByTimeOfDay(r, index, s) ==
  \A e \in Events :
    /\ index > 1 => mam(r[index - 1].times[e]) <= mam(s.times[e])
    /\ index <= Len(r) => mam(s.times[e]) <= mam(r[index].times[e])

\* At every event not before the service in front and not after the one
\* behind, by time of the day and by time, and all within less than a day.
Fits(r, index, s) ==
  \A e \in Events :
    /\ index > 1 => /\ mam(r[index - 1].times[e]) <= mam(s.times[e])
                    /\ r[index - 1].times[e] <= s.times[e]
    /\ index <= Len(r) => /\ mam(s.times[e]) <= mam(r[index].times[e])
                          /\ s.times[e] <= r[index].times[e]
    /\ r # <<>> => /\ s.times[e] - r[1].times[e] < DayLength
                   /\ r[Len(r)].times[e] - s.times[e] < DayLength

Insert(r, index, s) ==
  [k \in 1..Len(r) + 1 |-> IF k < index THEN r[k]
                           ELSE IF k = index THEN s ELSE r[k - 1]]

-----------------------------------------------------------------------------
Init == routes = <<>> /\ pending = {} /\ tt = <<>>

\* The loader of a feed hands over expanded trips.
Expand ==
  /\ tt = <<>>
  /\ pending \subseteq pending' /\ pending' \subseteq Service
  /\ UNCHANGED <<routes, tt>>

Accepts(r, s) == Fits(r, LowerBound(r, s), s)

\* add_expanded_trip
AddExpandedTrip(s) ==
  /\ tt = <<>>
  /\ pending' = pending \ {s}
  /\ \/ \E i \in DOMAIN routes :
          /\ Accepts(routes[i], s)
          /\ \A j \in 1..i - 1 : ~Accepts(routes[j], s)
          /\ routes' = [routes EXCEPT ![i] = Insert(@, LowerBound(@, s), s)]
     \/ /\ \A i \in DOMAIN routes : ~Accepts(routes[i], s)
        /\ routes' = Append(routes, <<s>>)
  /\ UNCHANGED tt

(***************************************************************************)
(* finalize: compress_stop_times numbers the patterns of a route in the    *)
(* order of their first transports.                                        *)
(***************************************************************************)
Offsets(s) == [e \in Events |-> s.times[e] - s.times[0]]

SamePattern(s, u) == Offsets(s) = Offsets(u)

IsNewPattern(r, k) == \A j \in 1..k - 1 : ~SamePattern(r[j], r[k])
PatternOf(r, k) ==
  LET first == CHOOSE j \in 1..k : SamePattern(r[j], r[k]) /\ IsNewPattern(r, j)
  IN  Cardinality({j \in 1..first : IsNewPattern(r, j)})

compress_stop_times(r) ==
  LET news == {k \in DOMAIN r : IsNewPattern(r, k)}
  IN  [first_dep |-> [k \in DOMAIN r |-> r[k].times[0]],
       pattern |-> [k \in DOMAIN r |-> PatternOf(r, k)],
       offsets |-> [p \in 1..Cardinality(news) |->
                      Offsets(r[CHOOSE k \in news : PatternOf(r, k) = p])]]

event_mam(c, k, e) == c.first_dep[k] + c.offsets[c.pattern[k]][e]

\* Mutant: only the first departure is looked at.
MaxDelta_First(times) == days(times[0])

MaxDelta(times) ==
  CHOOSE d \in {days(times[e]) : e \in Events} :
    \A e \in Events : days(times[e]) <= d

\* A route runs on every day one of its transports is under way.
rebuild_route_traffic_days(times, runs) ==
  {d \in DayIndices :
     \E k \in DOMAIN times : \E i \in 0..MaxDelta(times[k]) : d - i \in runs[k]}

Finished(r) ==
  LET c == compress_stop_times(r)
      times == [k \in DOMAIN r |-> [e \in Events |-> event_mam(c, k, e)]]
      runs == [k \in DOMAIN r |-> r[k].days]
  IN  [times |-> times, days |-> runs,
       route_days |-> rebuild_route_traffic_days(times, runs)]

Finalize ==
  /\ tt = <<>> /\ routes # <<>> /\ pending = {}
  /\ tt' = [i \in DOMAIN routes |-> Finished(routes[i])]
  /\ UNCHANGED <<routes, pending>>

Next == Expand \/ Finalize \/ \E s \in pending : AddExpandedTrip(s)

Spec == Init /\ [][Next]_vars

-----------------------------------------------------------------------------
(***************************************************************************)
(* Properties.                                                             *)
(***************************************************************************)
TypeOK ==
  /\ routes \in Seq(Seq(Service)) /\ pending \subseteq Service
  /\ \A i \in DOMAIN routes : routes[i] # <<>>

\* At every stop the services of a route are ordered, by the time of the day
\* (the search bisects and stops at the first transport that runs) and by
\* time, within less than one day.
RowsOrdered ==
  \A i \in DOMAIN routes : \A k, l \in DOMAIN routes[i] : k < l =>
    \A e \in Events :
      LET t == routes[i][k].times[e]
          u == routes[i][l].times[e]
      IN  mam(t) <= mam(u) /\ t <= u /\ u - t < DayLength

\* "(traffic day, transport offset) lexicographic order == absolute event
\* time order" (get_index.h): whoever departs first is never overtaken.
NoOvertaking ==
  \A i \in DOMAIN routes : \A k, l \in DOMAIN routes[i] :
    \A c \in routes[i][k].days, d \in routes[i][l].days :
      c < d \/ (c = d /\ k <= l) =>
        \A e \in Events : c * DayLength + routes[i][k].times[e]
                          <= d * DayLength + routes[i][l].times[e]

Queries == 0..(MaxTravelDays * DayLength)

\* The limit of a search that has no journey yet: no event is beyond it.
NoLimit(dir) == dir * ((2 * MaxTravelDays + 1) * DayLength)

\* The transports of a route on their days, and those a query may board: not
\* before the time (not after it in a backward search), in the days it looks at.
Running(r) == {x \in (DOMAIN r.times) \X DayIndices : x[2] \in r.days[x[1]]}
Reachable(r, e, time, dir) ==
  {x \in Running(r) : LET t == EventTime(r, x[1], x[2], e)
                      IN  /\ is_better_or_eq(dir, time, t)
                          /\ dir * (days(t) - days(time)) <= MaxTravelDays}

\* One that can be boarded and none that can be boarded earlier; none if
\* there is none.
IsEarliest(r, e, time, dir, found) ==
  LET reachable == Reachable(r, e, time, dir)
      x == <<found.pos, found.day>>
  IN  IF reachable = {} THEN found = NoTransport
      ELSE /\ x \in reachable
           /\ \A y \in reachable :
                is_better_or_eq(dir, EventTime(r, x[1], x[2], e), EventTime(r, y[1], y[2], e))

\* What the scan promises, whatever the order of loading was: the first event
\* of a transport of the route that can be boarded at the stop.
EarliestFound ==
  \A i \in DOMAIN tt : \A e \in Events, time \in Queries, dir \in {1, -1} :
    IsEarliest(tt[i], e, time, dir, get_earliest_transport(dir, tt[i], e, time, 0, NoLimit(dir)))

=============================================================================
