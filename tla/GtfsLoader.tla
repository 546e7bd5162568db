----------------------------- MODULE GtfsLoader -----------------------------
(***************************************************************************)
(* The GTFS loader from the files of a feed to the transports of a route   *)
(* (gtfs/load_timetable.cc): the days of services, missing times, trips by *)
(* frequency, local times to UTC, trips of a block and trips with          *)
(* stay-seated transfers as one transport, and the route of each.          *)
(*                                                                         *)
(* A feed is [calendar, dates, feed_end, trips, seated]. Trips are known   *)
(* by their position; a trip is                                            *)
(*   [service, block, clasz, own_clasz, bikes, stops, times, frequency]    *)
(* with stops [l, in, out, win, wout], times [arr, dep] in local minutes   *)
(* and frequencies [start, end, headway]. A stay-seated transfer is a pair *)
(* of trips, where 0 is a trip that is not in the feed.                    *)
(***************************************************************************)
EXTENDS RouteServices, SequencesExt

CONSTANTS
  Feeds,           \* feeds that are loaded
  FirstDay,        \* kTimetableOffset, the first day of tt.date_range_
  LastDay,         \* the last day of tt.date_range_
  WeekLength,      \* days of a week
  NoonOffset,      \* precompute_noon_offsets: of UTC at noon of each day
  MaxDwell,        \* minutes between trips that are linked, at most
  MaxSteps,        \* kMaxSeatedCombinationSteps
  Assisted,        \* <<stop, day, minute>> with assistance
  AssistedClasses  \* classes with assistance times

TtDays == 0..LastDay + 1  \* internal_interval_days()

ASSUME GtfsAssumption ==
  /\ FirstDay \in Nat /\ LastDay \in Nat /\ TtDays \subseteq DayIndices
  /\ NoonOffset \in [TtDays -> Int]

Missing == -1  \* kInterpolate, and what a feed does not say
None == "none"

VARIABLES
  feed,
  stage,           \* "read", "seated" or "routes"
  utc,             \* utc trips handed over by the expansion of trips
  remaining,       \* expanded trips with seated transfers: days not built yet
  component,       \* the component being built: day offset of each trip
  component_days,
  queue,           \* neighbours to visit, with their day offsets
  route_key        \* the key whose transports are sorted into routes

loader_vars ==
  <<feed, stage, utc, remaining, component, component_days, queue, route_key>>

-----------------------------------------------------------------------------
(***************************************************************************)
(* Services: the days of the calendar and its exceptions.                  *)
(***************************************************************************)
calendar_to_bitfield(c, feed_end) ==
  LET extend == feed_end # Missing /\ feed_end = c.to - 1
  IN  {d \in TtDays : /\ c.from <= d /\ (d < c.to \/ extend)
                      /\ d % WeekLength \in c.week_days}

add_exception(b, x) ==
  IF x.day \notin DayIndices THEN b
  ELSE IF x.add THEN b \union {x.day} ELSE b \ {x.day}

merge_traffic_days(f) ==
  [s \in (DOMAIN f.calendar) \union DOMAIN f.dates |->
     FoldLeft(add_exception,
              IF s \in DOMAIN f.calendar
                THEN calendar_to_bitfield(f.calendar[s], f.feed_end) ELSE {},
              IF s \in DOMAIN f.dates THEN f.dates[s] ELSE <<>>)]

ServiceDays(f, i) == merge_traffic_days(f)[f.trips[i].service]

(***************************************************************************)
(* interpolate: a missing time lies between the known ones around it, by   *)
(* the number of stops. Without a first departure or a last arrival the    *)
(* trip stays without times.                                               *)
(***************************************************************************)
Flat(times) == [k \in 1..2 * Len(times) |->
                  IF k % 2 = 1 THEN times[(k + 1) \div 2].arr ELSE times[k \div 2].dep]
StopIndex(k) == (k - 1) \div 2

Interpolated(x, k) ==
  LET known == {j \in DOMAIN x : x[j] # Missing}
      after == {j \in known : j > k}
      before == {j \in known : j < k}
      max == IF after = {} THEN [t |-> 0, at |-> 0]
             ELSE [t |-> x[Min(after)], at |-> StopIndex(Min(after))]
      min == IF before = {} THEN [t |-> 0, at |-> StopIndex(Len(x))]
             ELSE [t |-> x[Max(before)], at |-> StopIndex(Max(before))]
      n == max.at - min.at
      share == 2 * (max.t - min.t) * (StopIndex(k) - min.at)
  IN  IF x[k] # Missing THEN x[k]
      ELSE IF n > 0 THEN min.t + (share + n) \div (2 * n) ELSE min.t

\* The first departure and the last arrival can be found.
HasEnds(x) ==
  /\ x # <<>>
  /\ \E k \in {1, 2} : x[k] # Missing
  /\ \E k \in {Len(x) - 1, Len(x)} : x[k] # Missing

interpolate(times) ==
  LET x == Flat(times)
  IN  IF ~HasEnds(x) THEN times
      ELSE [i \in DOMAIN times |-> [arr |-> Interpolated(x, 2 * i - 1),
                                    dep |-> Interpolated(x, 2 * i)]]

requires_interpolation(t) ==
  \E i \in DOMAIN t.times : Missing \in {t.times[i].arr, t.times[i].dep}

WithTimes(f) ==
  [f EXCEPT !.trips = [i \in DOMAIN f.trips |->
     IF requires_interpolation(f.trips[i])
       THEN [f.trips[i] EXCEPT !.times = interpolate(@)] ELSE f.trips[i]]]

seated_out(f, i) == {b \in DOMAIN f.trips : <<i, b>> \in f.seated}
seated_in(f, i) == {a \in DOMAIN f.trips : <<a, i>> \in f.seated}
has_seated_transfers(f, i) ==
  i \in DOMAIN f.trips /\ seated_in(f, i) \union seated_out(f, i) # {}

(***************************************************************************)
(* Trips by frequency. Several trips are one transport with the same       *)
(* frequencies if their headways match, which headways_match denies as the *)
(* first trip is compared with itself: they are expanded one by one.       *)
(***************************************************************************)
number_of_iterations(q) == (q.end - q.start) \div q.headway
get_iteration_start_time(q, it) == q.start + it * q.headway
FirstDep(f, i) == f.trips[i].times[1].dep

headways_match(f, trips) ==
  LET first == f.trips[trips[1]].frequency
  IN  \A k \in DOMAIN trips :
        LET q == f.trips[trips[k]].frequency
        IN  Len(q) = Len(first) /\ first[1].headway # q[1].headway

stays_sorted(f, trips) ==
  \A j \in DOMAIN f.trips[trips[1]].frequency : \A k \in 2..Len(trips) :
    f.trips[trips[k - 1]].frequency[j].start <= f.trips[trips[k]].frequency[j].start

RECURSIVE expand_frequencies(_, _)
expand_frequencies(f, trips) ==
  LET has_frequency(i) == f.trips[i].times # <<>> /\ f.trips[i].frequency # <<>>
      among == {k \in DOMAIN trips : has_frequency(trips[k])}
      first == f.trips[trips[1]].frequency
      Offset(i, j, it) == FirstDep(f, i)
                          - get_iteration_start_time(f.trips[i].frequency[j], it)
  IN  IF among = {}
        THEN {[trips |-> trips, offsets |-> [k \in DOMAIN trips |-> 0]]}
      ELSE IF \/ Len(trips) = 1
              \/ /\ among = DOMAIN trips
                 /\ headways_match(f, trips) /\ stays_sorted(f, trips)
        THEN UNION {{[trips |-> trips,
                      offsets |-> [k \in DOMAIN trips |-> Offset(trips[k], j, it)]] :
                       it \in 0..number_of_iterations(first[j]) - 1} :
                      j \in DOMAIN first}
      ELSE UNION {expand_frequencies(f, <<trips[k]>>) : k \in DOMAIN trips}

(***************************************************************************)
(* Local times to UTC: the offset at noon of the service day. The days are *)
(* grouped by this offset and by the day in UTC of the first departure.    *)
(***************************************************************************)

FirstDepOffset(first_dep_time, tz_offset) == (first_dep_time - tz_offset) \div DayLength

\* Departures and arrivals along a trip.
StopTimes(times) ==
  [k \in 1..2 * (Len(times) - 1) |->
     IF k % 2 = 1 THEN times[(k + 1) \div 2].dep ELSE times[k \div 2 + 1].arr]

\* Times never go back.
Monotone(x) == [k \in DOMAIN x |-> Max({0} \union {x[j] : j \in 1..k})]

build_time_string(f, fet, key) ==
  Monotone(FlattenSeq([j \in DOMAIN fet.trips |->
    LET x == StopTimes(f.trips[fet.trips[j]].times)
    IN  [k \in DOMAIN x |-> x[k] - fet.offsets[j] - key.tz_offset
                            - key.first_dep_offset * DayLength]]))

IsComplete(t) == Len(t.times) > 1 /\ ~requires_interpolation(t)

expand_local_to_utc(f, expanded, traffic_days) ==
  LET ok == SelectSeq([k \in DOMAIN expanded.trips |-> k],
                      LAMBDA k : IsComplete(f.trips[expanded.trips[k]]))
      fet == [trips |-> [k \in DOMAIN ok |-> expanded.trips[ok[k]]],
              offsets |-> [k \in DOMAIN ok |-> expanded.offsets[ok[k]]]]
      first_dep_time == FirstDep(f, fet.trips[1]) - Last(fet.offsets)
      last_arr_time == Last(f.trips[Last(fet.trips)].times).arr - Last(fet.offsets)
      Key(d) == [first_dep_offset |-> FirstDepOffset(first_dep_time, NoonOffset[d]),
                 tz_offset |-> NoonOffset[d]]
      UtcDay(d) == d + Key(d).first_dep_offset
      selected == {d \in TtDays \intersect traffic_days :
                     /\ d + first_dep_time \div DayLength <= LastDay
                     /\ d + last_arr_time \div DayLength >= FirstDay
                     /\ UtcDay(d) \in DayIndices}
  IN  IF ok = <<>> THEN {}
      ELSE {[trips |-> fet.trips, first_dep_offset |-> key.first_dep_offset,
             tz_offset |-> key.tz_offset, times |-> build_time_string(f, fet, key),
             days |-> {UtcDay(d) : d \in {c \in selected : Key(c) = key}},
             stops |-> <<>>] : key \in {Key(d) : d \in selected}}

\* The stops of the trips, each joined to the next one where it ends.
get_stop_seq(f, u) ==
  IF u.stops # <<>> THEN u.stops
  ELSE FoldLeft(LAMBDA seq, i :
         LET stops == f.trips[i].stops
         IN  IF seq = <<>> THEN stops
             ELSE Front(seq)
                  \o <<[Last(seq) EXCEPT !.in = stops[1].in, !.win = stops[1].win]>>
                  \o Tail(stops), <<>>, u.trips)

\* A stop can be used with a wheelchair on the days it has assistance.
expand_assistance(f, u) ==
  LET stops == get_stop_seq(f, u)
      Available(l, day, t) ==
        LET local == t + u.first_dep_offset * DayLength + u.tz_offset
        IN  <<l, day + days(local), mam(local)>> \in Assisted
      On(day) == [k \in DOMAIN stops |-> [stops[k] EXCEPT
        !.win = @ /\ (k < Len(stops) =>
                        Available(stops[k].l, day, u.times[2 * k - 1])),
        !.wout = @ /\ (k > 1 => Available(stops[k].l, day, u.times[2 * k - 2]))]]
  IN  {[u EXCEPT !.days = {d \in @ : On(d) = seq}, !.stops = seq] :
         seq \in {On(d) : d \in u.days}}

expand_trip(f, trips, traffic_days) ==
  LET expanded == UNION {expand_local_to_utc(f, fet, traffic_days) :
                           fet \in expand_frequencies(f, trips)}
      WithAssistance(u) ==
        Assisted # {} /\ f.trips[u.trips[1]].clasz \in AssistedClasses
  IN  UNION {IF WithAssistance(u) THEN expand_assistance(f, u) ELSE {u} : u \in expanded}

(***************************************************************************)
(* Trips of a block (block::rule_services), in the order of their first    *)
(* departures: each day of a trip goes on to the first later trip from its *)
(* last stop that runs on this day and is not part of a combination yet.   *)
(***************************************************************************)
Continues(f, a, b) == Last(f.trips[a].stops).l = f.trips[b].stops[1].l

Emit(st, trips, ds) ==
  [left |-> [k \in DOMAIN st.left |->
               IF k \in Range(trips) THEN st.left[k] \ ds ELSE st.left[k]],
   out |-> st.out \union {[at |-> trips, days |-> ds]}]

\* The successors of an entry of the stack take their days from it.
Successors(f, order, left, entry) ==
  FoldLeft(LAMBDA acc, k :
    LET common == acc.days \intersect left[k]
    IN  IF ~Continues(f, order[Last(entry.at)], order[k]) THEN acc
        ELSE [days |-> acc.days \ left[k],
              pushed |-> IF common = {} THEN acc.pushed
                         ELSE Append(acc.pushed,
                                     [at |-> Append(entry.at, k), days |-> common])],
    [days |-> entry.days, pushed |-> <<>>],
    [j \in 1..Len(order) - Last(entry.at) |-> Last(entry.at) + j])

RECURSIVE Collect(_, _, _, _)
Collect(f, order, stack, st) ==
  IF stack = <<>> THEN st
  ELSE LET s == Successors(f, order, st.left, Last(stack))
       IN  Collect(f, order, Front(stack) \o s.pushed,
                   IF s.days = {} THEN st ELSE Emit(st, Last(stack).at, s.days))

rule_services(f, order) ==
  LET start == [left |-> [k \in DOMAIN order |-> ServiceDays(f, order[k])], out |-> {}]
      st == FoldLeft(LAMBDA acc, k :
              Collect(f, order, <<[at |-> <<k>>, days |-> acc.left[k]]>>, acc),
              start, [k \in DOMAIN order |-> k])
  IN  {[trips |-> [j \in DOMAIN c.at |-> order[c.at[j]]], days |-> c.days] : c \in st.out}

BlockTrips(f, b) == {i \in DOMAIN f.trips : f.trips[i].block = b}
Blocks(f) == {f.trips[i].block : i \in DOMAIN f.trips} \ {None}

\* std::sort leaves trips with the same departure in any order.
Orders(f, b) ==
  {o \in SetToSeqs({i \in BlockTrips(f, b) : f.trips[i].stops # <<>>}) :
     \A k \in 2..Len(o) : FirstDep(f, o[k - 1]) <= FirstDep(f, o[k])}

ExpandBlock(f, b, order) ==
  IF \E i \in BlockTrips(f, b) : has_seated_transfers(f, i)
    THEN UNION {expand_trip(f, <<i>>, ServiceDays(f, i)) :
                  i \in {j \in BlockTrips(f, b) : ~has_seated_transfers(f, j)}}
    ELSE UNION {expand_trip(f, c.trips, c.days) : c \in rule_services(f, order)}

ExpandSingles(f) ==
  UNION {expand_trip(f, <<i>>, ServiceDays(f, i)) :
           i \in {j \in DOMAIN f.trips :
                    f.trips[j].block = None /\ ~has_seated_transfers(f, j)}}

expand_seated_trips(f) ==
  UNION {{[u EXCEPT !.stops = f.trips[i].stops] :
            u \in expand_trip(f, <<i>>, ServiceDays(f, i))} :
           i \in {j \in DOMAIN f.trips : has_seated_transfers(f, j)}}

(***************************************************************************)
(* Stay-seated transfers (build_seated_trips). Expanded trips that are     *)
(* linked are collected to a component as long as they have common days,   *)
(* then every chain of them becomes a transport on these days, until no    *)
(* trip has a day left.                                                    *)
(***************************************************************************)
Shift(ds, n) == {d + n : d \in ds} \intersect DayIndices
TripOf(r) == r.trips[1]
first_dep(r) == r.times[1]
last_arr(r) == Last(r.times)

\* Mutant: the midnights on the way of the first trip are not counted.
get_day_change_offset_NoSpan(a, b) == IF mam(last_arr(a)) > first_dep(b) THEN 1 ELSE 0

get_day_change_offset(a, b) ==
  days(last_arr(a)) - days(first_dep(a))
  + (IF mam(last_arr(a)) > first_dep(b) THEN 1 ELSE 0)

is_valid_dwell_time(a, b) == (first_dep(b) - mam(last_arr(a))) % DayLength < MaxDwell

\* Found before or queued already, a trip keeps its offset.
Neighbours(r, offset) ==
  LET outs == {b \in DOMAIN remaining : /\ TripOf(b) \in seated_out(feed, TripOf(r))
                                        /\ is_valid_dwell_time(r, b)}
      ins == {a \in DOMAIN remaining : /\ TripOf(a) \in seated_in(feed, TripOf(r))
                                       /\ is_valid_dwell_time(a, r)}
  IN  [b \in outs |-> offset + get_day_change_offset(r, b)]
      @@ [a \in ins |-> offset - get_day_change_offset(a, r)]

Without(g, S) == [x \in (DOMAIN g) \ S |-> g[x]]

\* A transport is continued with a trip of the component.
Appended(c, r) ==
  LET move == (c.transport_offset + component[r]) * DayLength
  IN  [c EXCEPT !.u.trips = Append(@, TripOf(r)),
                !.u.times = @ \o [k \in DOMAIN r.times |-> r.times[k] + move],
                !.u.stops = @ \o Tail(r.stops), !.last = TripOf(r)]

Separate == {[r EXCEPT !.days = Shift(component_days, component[r])] : r \in DOMAIN component}

\* All chains in turn, or none if there are too many.
RECURSIVE Chains(_, _, _, _)
Chains(rep, q, n_steps, transports) ==
  IF q = {} THEN transports
  ELSE IF n_steps = MaxSteps THEN Separate
  ELSE LET c == CHOOSE x \in q : TRUE
           nexts == seated_out(feed, c.last) \intersect DOMAIN rep
       IN  Chains(rep, (q \ {c}) \union {Appended(c, rep[t]) : t \in nexts}, n_steps + 1,
                  IF nexts = {} THEN transports \union {c.u} ELSE transports)

\* get_representative: one expanded trip of the component for each trip.
Representatives ==
  LET trips == {TripOf(r) : r \in DOMAIN component}
  IN  {rep \in [trips -> DOMAIN component] : \A t \in trips : TripOf(rep[t]) = t}

Entries(rep) ==
  {[u |-> [r EXCEPT !.days = Shift(component_days, component[r])], last |-> TripOf(r),
    transport_offset |-> -component[r]] :
     r \in {x \in DOMAIN component :
              seated_in(feed, TripOf(x)) \intersect DOMAIN rep = {}}}

-----------------------------------------------------------------------------
(***************************************************************************)
(* load_timetable.                                                         *)
(***************************************************************************)
LoaderInit ==
  /\ Init
  /\ feed \in Feeds /\ stage = "read" /\ utc = {}
  /\ remaining = <<>> /\ component = <<>> /\ component_days = {} /\ queue = <<>>
  /\ route_key = <<>>

\* Trips on their own and in blocks.
ExpandTrips ==
  /\ stage = "read"
  /\ LET f == WithTimes(feed)
         R == expand_seated_trips(f)
     IN  /\ feed' = f
         /\ \E order \in {o \in [Blocks(f) -> UNION {Orders(f, b) : b \in Blocks(f)}] :
                            \A b \in Blocks(f) : o[b] \in Orders(f, b)} :
              utc' = ExpandSingles(f)
                     \union UNION {ExpandBlock(f, b, order[b]) : b \in Blocks(f)}
         /\ remaining' = [r \in R |-> r.days]
  /\ stage' = "seated"
  /\ UNCHANGED <<component, component_days, queue, route_key, routes, pending, tt>>

\* Part 1: the component of the first trip that has days left, ...
StartComponent ==
  /\ stage = "seated" /\ component = <<>> /\ queue = <<>>
  /\ \E r \in DOMAIN remaining :
       /\ remaining[r] # {}
       /\ \A x \in DOMAIN remaining : remaining[x] # {} => TripOf(r) <= TripOf(x)
       /\ queue' = (r :> 0)
       /\ component_days' = remaining[r]
  /\ UNCHANGED <<feed, stage, utc, remaining, component, route_key, routes, pending, tt>>

\* ... neighbour after neighbour, in the order of a hash map.
VisitTrip ==
  /\ stage = "seated"
  /\ \E r \in DOMAIN queue :
       LET next == Shift(remaining[r], -queue[r]) \intersect component_days
           rest == Without(queue, {r})
       IN  IF next = {}
             THEN queue' = rest /\ UNCHANGED <<component, component_days>>
             ELSE /\ component_days' = next
                  /\ component' = component @@ (r :> queue[r])
                  /\ queue' = rest @@ Without(Neighbours(r, queue[r]), DOMAIN component')
  /\ UNCHANGED <<feed, stage, utc, remaining, route_key, routes, pending, tt>>

\* Parts 2 to 4: its chains, and the days that are left.
BuildTransports ==
  /\ stage = "seated" /\ queue = <<>> /\ component # <<>>
  /\ \E rep \in Representatives : utc' = utc \union Chains(rep, Entries(rep), 0, {})
  /\ remaining' = [r \in DOMAIN remaining |->
       IF r \in DOMAIN component
         THEN remaining[r] \ Shift(component_days, component[r]) ELSE remaining[r]]
  /\ component' = <<>>
  /\ UNCHANGED <<feed, stage, component_days, queue, route_key, routes, pending, tt>>

\* The route key: transports of another one do not meet.
RouteKey(u) ==
  LET front == feed.trips[u.trips[1]]
      Sections(i) == [k \in 1..Len(feed.trips[i].stops) - 1 |-> feed.trips[i].bikes]
  IN  [clasz |-> IF front.own_clasz = None THEN front.clasz ELSE front.own_clasz,
       stops |-> get_stop_seq(feed, u),
       flags |-> IF Len(u.trips) = 1 THEN <<front.bikes>>
                 ELSE FlattenSeq([k \in DOMAIN u.trips |-> Sections(u.trips[k])])]

AsService(u) ==
  [id |-> [trips |-> u.trips, tz_offset |-> u.tz_offset],
   times |-> [e \in Events |-> u.times[e + 1]], days |-> u.days]

OfRoute(key) == {u \in utc : RouteKey(u) = key}

AllExpanded ==
  /\ stage = "seated" /\ component = <<>> /\ queue = <<>>
  /\ \A r \in DOMAIN remaining : remaining[r] = {}

AddRoute ==
  /\ AllExpanded
  /\ \E key \in {RouteKey(u) : u \in {x \in utc : Len(x.times) = NEvents}} :
       route_key' = key /\ pending' = {AsService(u) : u \in OfRoute(key)}
  /\ stage' = "routes"
  /\ UNCHANGED <<feed, utc, remaining, component, component_days, queue, routes, tt>>

Route == /\ stage = "routes"
         /\ Finalize \/ \E s \in pending : AddExpandedTrip(s)
         /\ UNCHANGED loader_vars

LoaderNext ==
  ExpandTrips \/ StartComponent \/ VisitTrip \/ BuildTransports \/ AddRoute \/ Route

LoaderSpec == LoaderInit /\ [][LoaderNext]_<<vars, loader_vars>>

-----------------------------------------------------------------------------
(***************************************************************************)
(* Properties.                                                             *)
(***************************************************************************)

\* The last exception for a day decides, without one the calendar.
ServesOn(s, d) ==
  LET exceptions == IF s \notin DOMAIN feed.dates THEN <<>>
                    ELSE SelectSeq(feed.dates[s], LAMBDA x : x.day = d)
      c == feed.calendar[s]
  IN  IF exceptions # <<>> THEN Last(exceptions).add
      ELSE /\ s \in DOMAIN feed.calendar
           /\ c.from <= d /\ (d < c.to \/ c.to = feed.feed_end + 1)
           /\ d % WeekLength \in c.week_days

\* A trip that starts `early` minutes before its first departure in the feed.
Runs(i) ==
  {[trip |-> i, day |-> d, early |-> e] :
     d \in {x \in TtDays : ServesOn(feed.trips[i].service, x)},
     e \in IF feed.trips[i].frequency = <<>> THEN {0}
           ELSE UNION {{FirstDep(feed, i) - t :
                          t \in {get_iteration_start_time(q, n) :
                                   n \in 0..number_of_iterations(q) - 1}} :
                         q \in Range(feed.trips[i].frequency)}}

\* In minutes since the first day of the timetable in UTC.
TimesOf(x) ==
  LET times == StopTimes(feed.trips[x.trip].times)
  IN  [k \in DOMAIN times |-> x.day * DayLength + times[k] - x.early - NoonOffset[x.day]]

\* On a day of the period the timetable is loaded for.
InDateRange(x) ==
  LET times == StopTimes(feed.trips[x.trip].times)
  IN  /\ x.day + (times[1] - x.early) \div DayLength <= LastDay
      /\ x.day + (Last(times) - x.early) \div DayLength >= FirstDay

\* A trip of a transport as it runs on a day.
Parts(u) == {[u |-> u, at |-> j, day |-> d] : j \in DOMAIN u.trips, d \in u.days}
PartTrip(p) == p.u.trips[p.at]
PartTimes(p) ==
  LET Events2(i) == 2 * (Len(feed.trips[i].stops) - 1)
      before == FoldLeft(LAMBDA n, i : n + Events2(i), 0, SubSeq(p.u.trips, 1, p.at - 1))
  IN  [k \in 1..Events2(PartTrip(p)) |-> p.day * DayLength + p.u.times[before + k]]

AllParts == UNION {Parts(u) : u \in utc}
AllRuns == UNION {Runs(i) : i \in {j \in DOMAIN feed.trips : IsComplete(feed.trips[j])}}
Is(p, x) == PartTrip(p) = x.trip /\ PartTimes(p) = TimesOf(x)

\* Trips of a block that belong together on a day whatever their order.
OnlySuccessor(x, y) ==
  LET a == feed.trips[x.trip]
      b == feed.trips[y.trip]
      Rival(i) == /\ i \in BlockTrips(feed, a.block) \ {x.trip, y.trip}
                  /\ \/ Continues(feed, x.trip, i) \/ Continues(feed, i, y.trip)
  IN  /\ a.block # None /\ a.block = b.block /\ x.day = y.day
      /\ ~\E i \in BlockTrips(feed, a.block) :
           has_seated_transfers(feed, i) \/ Rival(i) \/ feed.trips[i].frequency # <<>>
      /\ Continues(feed, x.trip, y.trip)
      /\ a.times[1].dep < b.times[1].dep

Linked(x, y) ==
  LET wait == TimesOf(y)[1] - Last(TimesOf(x))
  IN  <<x.trip, y.trip>> \in feed.seated /\ wait \in 0..MaxDwell - 1

\* Every run of a trip of the feed on a service day is in the expanded trips
\* with its times in UTC, once or, where transports fork or join, at least
\* once; and there are no other runs.
EveryRunExpanded ==
  /\ \A x \in AllRuns : InDateRange(x) =>
       LET parts == {p \in AllParts : Is(p, x)}
       IN  IF has_seated_transfers(feed, x.trip) THEN parts # {} ELSE Cardinality(parts) = 1
  /\ \A p \in AllParts : \E x \in AllRuns : Is(p, x)

\* Ways along stay-seated transfers from trips without one to them.
Ways ==
  LET seated == {i \in DOMAIN feed.trips : has_seated_transfers(feed, i)}
  IN  {w \in UNION {[1..n -> seated] : n \in 1..3} :
         /\ seated_in(feed, w[1]) = {}
         /\ \A k \in 2..Len(w) : <<w[k - 1], w[k]>> \in feed.seated}

\* Whoever may stay seated from one run to another one does in a transport,
\* unless there are too many ways.
SeatsKept ==
  \A x, y \in AllRuns :
    InDateRange(x) /\ InDateRange(y)
    /\ (OnlySuccessor(x, y) \/ (Linked(x, y) /\ Cardinality(Ways) <= MaxSteps)) =>
      \E p \in AllParts : Is(p, x) /\ p.at < Len(p.u.trips) /\ Is([p EXCEPT !.at = @ + 1], y)

\* The transports of the timetable are the expanded trips, each once and with
\* its times, although patterns are shared and the order is another one.
EveryTripInRoute ==
  LET loaded == UNION {{<<i, k>> : k \in DOMAIN routes[i]} : i \in DOMAIN routes}
      At(x) == routes[x[1]][x[2]]
  IN  /\ {At(x) : x \in loaded} = {AsService(u) : u \in OfRoute(route_key)}
      /\ \A x, y \in loaded : At(x) = At(y) => x = y
      /\ \A x \in loaded : /\ tt[x[1]].times[x[2]] = At(x).times
                           /\ tt[x[1]].days[x[2]] = At(x).days

\* From the feed to the finished timetable no run is lost, moved to another
\* time or day, or separated from the one its passengers stay seated for.
NothingLost ==
  /\ AllExpanded => EveryRunExpanded /\ SeatsKept
  /\ tt # <<>> => EveryTripInRoute

=============================================================================
