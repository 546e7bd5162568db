# A TLA+ verification project for nigiri

nigiri is the routing core of a public transport planner: loaders read static timetables (GTFS, HRD, NeTEx)
into one compressed `timetable`, real-time feeds (GTFS-RT, VDV AUS / SIRI) update an `rt_timetable` on top of it,
and searches (RAPTOR on the CPU and on the GPU, trip-based routing) answer queries on both. This directory models the
parts in which the program's own logic lies, checks them with TLC on small instances, and proves some of the most
important properties with TLAPS for every instance.

## 1. The system

| component | state | operations | talks to |
| --- | --- | --- | --- |
| real-time timetable (`rt/rt_timetable.*`, `create_rt_timetable.cc`) | traffic days per transport, RT transports (stops, times, data states, cancelled flag), lookups by run and trip id, index by location, covered interval, lower bound graph | add an RT transport, cancel a run, update a time, set a track, update lower bounds, resolve | update handlers write, searches read |
| GTFS-RT handler (`rt/gtfsrt_update.cc`, `gtfsrt_resolve_run.*`) | none of its own; local state of the walk over a run | trip update (SCHEDULED, CANCELED, ADDED/NEW), vehicle position, alert | resolves runs in the static timetable, writes the real-time timetable |
| VDV AUS / SIRI ET handler (`rt/vdv_aus.cc`) | matched runs by vehicle journey id, time of the last clean-up | match, update, cancel, clean up, alert | as above |
| alerts (`rt/gtfsrt_alert.cc`, `service_alert.*`) | lists of alerts by entity | register, look up | read by `frun` |
| full run (`rt/frun.*`) | none | read a run from both timetables | everything that displays journeys |
| search driver (`routing/search.h`, `interval_estimate.h`, `raptor_search.cc`) | search interval, journeys, starts | execute: extend the interval, start, route, reconstruct, filter | algorithm, start times, Pareto set |
| RAPTOR (`routing/raptor/*`) | best labels, labels per round, marked stations and routes | rounds: routes, RT transports, transfers, footpaths, intermodal | reads both timetables, lower bounds |
| pong, reconstruct, optimize_footpaths, leg alternatives | journeys | search back from the arrival, rebuild legs, move and exchange walks and rides | RAPTOR's labels |
| GPU RAPTOR (`routing/gpu/*`) | labels and breadcrumbs in device memory | kernels of a round, reconstruction from breadcrumbs, bounds for pong | uploads of the timetable |
| trip-based routing (`routing/tb/*`) | transfers between trip segments, queue, reached stops | preprocess, enqueue, relax, reconstruct | static timetable |
| start times, td_footpath, dijkstra, direct, one_to_all | none (functions) | compute starts, offsets, lower bounds, direct connections | the search driver |
| loader (`loader/*`, `gtfs/*`, `hrd/*`, `netex/*`) | the timetable under construction | read files, expand services to UTC, build routes, footpaths, merge duplicates, finish | produces the timetable |
| fares, flex, shapes, C interface, tools | derived data | read only | outside of the core |

Nothing in the library locks: an update handler works on its own copy of the real-time timetable, and a search sees
an immutable one. The hard behaviours are therefore mostly *histories*: any sequence of messages, repeated,
partial, contradictory, about runs that share data (bitfields, transports shared by several trips), has to leave
a real-time timetable that routing can trust. The searches add labels that are reused between start times, intervals
that are extended, limits taken from earlier results; the loaders add day and time zone arithmetic, hash maps whose
order must not matter, and data that one step reads while another one empties it. Threads share memory in one place,
the kernels of the GPU search. `PROJECT.json` lists each such hazard at its line, with the properties that would catch
it.

What makes each component correct:

- real-time timetable: every run is offered exactly once; lookups are inverse; every location lists the RT transports
  that stop there; the covered interval contains every changed time; times stay in 16 bits.
- GTFS-RT handler: a step changes what is offered of one run only; event times are ordered; a repeated message changes
  nothing, if its absolute times were taken as told; a complete message decides everything; additional trips are found again.
- VDV handler: the same for its messages, plus the matching of messages to runs.
- alerts: an alert is found for a call exactly if one of its entities selects it.
- search: terminates, finds every Pareto-optimal journey of the interval, and each journey can be travelled.
- RAPTOR, GPU RAPTOR, trip-based: the results are the best of all itineraries that exist, and can be reconstructed.
- loader: every run of the input is in the timetable once, on the right UTC day; footpaths are transitively closed;
  merging duplicates leaves every trip served.

## 2. Modules

### Real-time

| module | models | code |
| --- | --- | --- |
| `RtTimetable` | the static timetable as the real-time subsystem reads it (constants with their assumptions, resolution of a trip on a day); `struct rt_timetable` without times: the record `rtt`, one operator per method, the invariants of the data structure | `timetable.h`, `gtfsrt_resolve_run.h`, `rt_timetable.h/.cc`, `create_rt_timetable.cc` |
| `GtfsRtUpdate` | `gtfsrt_update_msg`: entities, the callbacks per resolved run, additional trips, vehicle positions | `gtfsrt_update.cc` |
| `DayService` | abstract specification: what is offered of each run | - |
| `UpdateRun` | the event times, data states and coverage of one run: the walk of `update_run`, the final pass, `handle_vehicle_position` | `gtfsrt_update.cc`, `rt_timetable.h`, `interval.h` |
| `VdvAus` | the updater of VDV AUS and SIRI ET: matching of runs, updates, cancellation, clean-up, SIRI SX alerts; the store of alerts with registration and lookup | `vdv_aus.cc`, `gtfsrt_alert.cc`, `service_alert.h` |

### Searches

| module | models | code |
| --- | --- | --- |
| `Transports` | comparison by direction, event times of a transport on a day, `get_earliest_transport` | `routing/raptor/raptor.h`, `timetable.h` |
| `Locations` | parents, equivalences, match modes (`for_each_meta`, `matches`) | `for_each_meta.h`, `timetable.h` |
| `Journeys`, `ParetoSet` | `journey::dominates`; `pareto_set::add` element by element | `journey.h`, `pareto_set.h` |
| `LowerBounds`, `LowerBoundsProofs` | the lower bound graphs, their real-time updates (`update_lbs`), the bucket queue and `dijkstra` | `loader/build_lb_graph.h`, `rt_timetable.cc`, `dijkstra.h/.cc`, `common/dial.h` |
| `RaptorRounds` | time-dependent footpaths; the state of RAPTOR and all steps of a round as operators on a record `s`; `execute` | `raptor/raptor.h`, `td_footpath.h` |
| `Itineraries` | reference: what a traveller can do, without labels, rounds or pruning | - |
| `Raptor` | `execute` for one start time after the other, each phase of a round a step; the search to all stops | `raptor/raptor.h`, `search.h`, `one_to_all.cc` |
| `RaptorWalkProofs`, `RaptorProofs` | theorems about `Raptor`: the walks of a round; the rides, the steps and what follows | - |
| `StartTimes` | starts of an interval or a time, destinations and vias of a query, `query::sanitize`, `flip_dir` | `start_times.cc`, `query.cc`, `search.h` |
| `Search` | the estimate of intervals, the times a query can reach, the search driver: start times, early termination, extension, the journeys returned; the query of somebody on a train | `search.h`, `interval_estimate.h`, `search_interval.cc`, `raptor_search.cc`, `ontrip_train.cc` |
| `Pong` | the loop of pings and pongs | `raptor/pong.cc` |
| `Reconstruct` | the legs of a journey, found again from the labels; what happens to them afterwards: walks moved to where they are walked, exchanged for shorter ones, better transfers | `raptor/reconstruct.cc`, `optimize_footpaths.cc`, `specify_td_offsets.cc` |
| `Direct` | journeys of one ride, the alternatives of a ride, the exchange of rides | `direct.cc`, `leg_alternatives.cc`, `pong.cc` |
| `Routing` | a query answered by the one or the other driver; the journeys it has found, reconstructed one after the other before the labels are overwritten; what both drivers promise | `raptor/reconstruct.cc`, `search.h`, `pong.cc` |
| `TripBased` | trip-based routing: neighborhood, line-based transfers, reduction; the queue and the reached segments, reconstruction; a query over several start times, a step per phase of a round | `tb/preprocess.cc`, `tb/query/*`, `tb/query_engine.cc` |
| `GpuRounds` | words of labels and breadcrumbs, the kernels of a round, chains of breadcrumbs, bounds for pong | `gpu/*` |
| `GpuRaptor` | the GPU search over several start times; in the two racing kernels the threads' reads and writes are single steps | `gpu/raptor.cu`, `raptor_impl.cuh` |
| `Networks` | small networks and queries of four locations for the MC modules | - |

### Loader

| module | models | code |
| --- | --- | --- |
| `RouteServices` | sorting of trips into routes of which the transports do not overtake, stop times of a route, traffic days | `loader/gtfs/load_timetable.cc`, `get_index.h`, `compress_stop_times.cc`, `init_finish.cc` |
| `GtfsLoader` | the way there: calendars and their exceptions, missing times, frequencies, local times to UTC, blocks, stay-seated transfers, assistance; the key of a route | `loader/gtfs/*.cc`, `local_to_utc.h` |
| `Footpaths` | transfers of the formats, links of tracks and between sources, components, shortest ways | `build_footpaths.cc`, `gtfs/stop.cc`, `hrd/stamm/station.cc`, `netex/load_timetable.cc`, `link_nearby_stations.cc` |
| `Import` | the steps of `build_footpaths`: links, duplicates of one pair of routes after the other, footpaths | `build_footpaths.cc`, `merge_duplicates.cc` |

`*Proofs` are theorems about the module they are named after; `MC*` are instances for TLC.

### How state and actions correspond to the code

**Real-time.** `rtt` is a record with the members of `struct rt_timetable` under their names. Vectors with one entry per
RT transport are sequences; `rt_transport_is_cancelled_` is the set of the bits that are set; RT transports count from 1
and 0 is the invalid index. A `stop` keeps its location and its two flags. Operators named as the methods (`cancel_run`,
`traffic_days`, ...) take a value `r` of the record and return the new one; `add_rt_transport` has two branches, which
are `AddScheduled` and `AddAdditional` over `AppendTransport`.

In `GtfsRtUpdate` an entity that names a static trip is first resolved (`TripUpdate` puts all runs of the trip on that
day into `pending`, in no particular order) and each callback is a step: `UpdateRun`, `RefuseRun`, `CancelRun`.
Between two callbacks the run of the next one is looked up again, as the code does. `AddedTrip` and `VehiclePosition`
concern one run and are one step. A stop time update is abstracted to what it does to a stop: nothing, scheduled,
skipped, or a new location; the code's matching of updates to stops (by sequence number or stop id) is the function
from stops to effects in `StopUpdates`.

`UpdateRun` opens one run up: every event the walk visits is a step. A message is a function from stops to what matches
the stop. Times are minutes relative to the base day, the limits of `delta_t` are `MinDelta` and `MaxDelta`. A stop
time event that is present has a delay or a time; an event present without either counts as absent. `last` is a history
variable: the update before and the times it led to, for `ResendChangesNothing`. The two models meet
in the RT transport: `GtfsRtUpdate` has its stops and flags, `UpdateRun` its times. No decision of one reads the other's
data, except for the refusal of a run outside of the real-time interval (`InRtInterval`).

**VDV AUS, SIRI and alerts.** A step of `VdvAus` is a message, an alert or the passing of time. `rt` maps runs to
their times, states, stops and the cancelled flag, `matches` is `matches_`. A message on an id that is not matched, or
that is complete after incomplete ones, is matched first: candidate stops by location, the day inferred from two times
of the day, the score by the error of each stop. `handle_alert` registers the entities of an alert in the
six lists of `alerts<>`, `get_alerts` looks a trip's stop up.

**RAPTOR.** `s` is a record with `round_times`, `best`, `tmp`, `station_mark`, `prev_station_mark`, `time_at_dest` and
`bounds`; labels are minutes relative to the base day, saturated at +/- `MaxDelta`, and `kInvalid` is the worst label of
the direction. A label has an index for the number of vias visited. `Raptor` has an action per phase: `Start`
(`next_start_time`, `add_start`, the limits), `BeginRound` (the part of `best` the round starts from, the marks, lower
bounds), `Ride` (routes and RT transports), `Walk` (transfers, footpaths, time-dependent footpaths, intermodal offsets)
and `Collect` (the journeys). Within a phase, the code goes over bit sets in order; the operators do so in the order of
`ForEach`, and the body of each loop is an operator of its own (`TransfersAt`, `TransferFrom`, `Transfer`; `RouteStop`,
`PassViasFrom`, `PassVia`; ...), so that it can be reasoned about. In `Search` and `Pong` a whole `execute` is one step: nothing else runs on that state.
`Itineraries` is deliberately of a different kind: it grows the set of (place, vias visited, time) that a traveller can
reach with i rides, by quantifying over rides and walks. It knows labels only as times.

**GPU.** A label is a word of a time and a breadcrumb, lowered by atomic minima. Kernels are launched in order, and most of
them write what no other thread of the kernel reads: they are one step. In `reuse_previous_arrivals` and
`transfers_footpaths` the threads read limits that others lower: `ReadLimit`, `Check` and `Store` are steps of single
threads (`lanes`), in any order.

**Trip-based routing.** The preprocessing of a network is computed once (`preprocess`: for each line and stop the neighborhood, the
transfers that earlier or same-time connections do not dominate, and the reduction of what is left); `Start`,
`SegDest`, `SegPrune`, `SegTransfers` and `Collect` are the loops of a round of `query_engine::execute`.

**Drivers.** `results` is a set of journeys [start, dest, transfers], as `pareto_set` compares them; `reconstructed` are
those with `is_reconstructed_`. `SearchStarts` is one group of `equal_ranges_linear` in `search_interval`; `Extend` is the
loop's way back; `Finish` its exit with the filters behind it. The order in which hash maps hand out stops decides which
starts are left out, hence `AllOffsets` is a set of orders and `SearchInit` and `Extend` choose one. In `Pong`, `Ping`
runs up to `fill_bounds`, `Known` and `PongFound` are the two ways through the body of the inner loop, `Progress` is the
choice of the next start time. An exception of `pong.cc` is the state `failed`.

**Reconstruction.** In `Routing`, `queue` holds the journeys of the last `execute` and `rec` the one in work. `BeginJourney`,
`GetLegs` (a round: walk and ride), `FindStart`, `Adjust` (walks in the order of travel), `Optimize` and `Replace`
(pong's exchange of rides) are its steps; the driver waits until the queue is empty, as in the code, and its next step
overwrites the labels.

**Lower bounds.** `LowerBounds` builds the graph, applies `MaxUpdates` real-time updates and answers a query with one
step per entry taken from the queue. The dial pops the entry that was pushed last into a bucket; the model takes any
of the bucket, so that what is shown does not depend on it. `Inherited` hands the bounds to the children location by
location, in the order of their indices, as the code does.

**Loader.** `GtfsLoader` reads a feed (`Init`), expands trips without stay-seated transfers (`ExpandTrips`), and then
takes the components of those with such transfers one by one: `StartComponent` picks any trip, `VisitTrip` any next one of the
stack, `BuildTransports` any representative, which is what the hash maps leave open. What comes out is added to routes
by `RouteServices` (`AddRoute`, `Route`), which is an open system: its own `Expand` hands over any trips, and the
theorems are about that. `Import` works on feeds that are loaded: `AddLinks`, `MergeRoutePair` for one pair of routes after
the other, `ConnectComponents`, `WriteFootpaths`.

## 3. What is checked

| run | instance | shows |
| --- | --- | --- |
| `gtfsrt` | two transports that share a bitfield, three trips (one of them part of both transports), three days, stop updates, added trips with one or two ids, up to four bitfield copies | no run offered twice; location index complete; additional trips in step and found, unless the second id field renames one; refinement of `DayService` |
| `update_run` | three stops, messages with delays and absolute times, the whole trip or a part, positions, an interval of 20 minutes with events beyond it, given as delays and as times | order of events, coverage, data states; a complete message decides, a repeated one changes nothing if its absolute times were taken as told |
| `vdv` | any three of twelve messages in any order and number on three lines over midnight, clean-ups between them; GTFS-RT alerts with 18 kinds of entities and a SIRI alert | events in order whatever comes; matches fit; repeated and complete messages; alerts are found exactly where an entity selects |
| `lower_bounds` | networks of six locations, tracks below a station or below a platform, with and without footpaths, up to two real-time updates, both directions, three match modes | no bound exceeds what a journey takes; the search ends |
| `pareto_set` | all histories of additions of eleven journeys, with ties, forwards and backwards | an antichain; nothing better is lost; the early return |
| `raptor` | some 2000 networks and queries on four locations, among them searches to all stops | the results are the Pareto set of all itineraries; labels can be reconstructed |
| `gpu` | the searches of `raptor` without vias, and networks on which threads compete | the results are the Pareto set under every interleaving; breadcrumbs lead back; a pong finds the journey of its ping within the bounds |
| `trip_based` | networks of lines that meet again, turn back, and run over midnight | the results are the Pareto set; each can be followed back to its start |
| `routing` | some 900 queries for both drivers on the networks of `raptor` | complete for the interval reported; pongs answer pings; real-time data reaches far enough; every leg is found again; journeys can be travelled and stay at their vias; the loops end |
| `route_services` | feeds of up to four trips out of six, and feeds of blocks, frequencies, stay-seated transfers, missing times and classes | no run is lost, moved or torn from the one its passengers stay seated for; no overtaking; the earliest transport is found |
| `import` | feeds of one and two sources with lines that may be the same, stations, tracks, formats | every trip still runs; no duplicate is left; the footpaths are the shortest ways |
| `merged_away` | three identical transports | **violated**, the finding below |

**Bounds.** Two transports are what sharing a bitfield takes, and a trip over both transports is what makes an entity
call back twice. Three stops have a first, a last and a middle stop, which are the cases the walk over a run
distinguishes. Three messages are one that is matched, one that contradicts it and one that comes again; the clean-up
interval is one step. RAPTOR's networks have four locations, four lines, one or two real-time transports, up to three
rides: enough for a transfer that a faster line overtakes, a line that is boarded earlier than it is used, a via at
every position of a journey, and a day that begins within a trip (`DayLength` is 20 minutes, trips cross midnight).
`kMaxTransfers = 2` makes three rounds, so that limits of one round meet labels of the next (3 in `trip_based`, where
lines return to where others came from); `kMaxTravelTime = 30`
is a day and a half as the code's five days are a few days; `MaxDelta = 90` is reached by the searches of `FarSearches`.
`Hour = 2`, `kMaxSearchIntervalSize = 100`, `kMinLookAhead = 20` and `kMaxLookAhead = 45` keep the ratios that matter:
an extension is shorter than a day, a look-ahead longer than one.
`route_services` has days of six minutes in a week of three and an offset to UTC that changes from one to two minutes, so that
departures before the offset fall on the day before; `MaxDwell = 2` and `MaxSteps = 5` stand for `kMaxDwellTime` and
`kMaxSeatedCombinationSteps`, and feeds on both sides of them are there.

**Fairness.** The real-time models assume none: a handler is a loop over a finite message that a single thread runs to
its end, and all properties are about what it has written. `LowerBounds` assumes weak fairness of the steps of a query (`Pop`, `Finish`).
`Routing` assumes `RunsOn`: a search that has not ended goes on (the same as weak fairness of `Next`, as every state that
has not ended has a successor, which TLC's deadlock check shows). A search is a loop in one thread; nothing preempts it
for good. `Terminates` therefore says that no loop comes back to where it was. The timeout of a query is not needed for
it.

Deadlock is checked except where a model ends when its input is used up (`route_services`, `lower_bounds`).

### Finding

**Transports merged away** (`merge_duplicates.cc:57`). Merging points the trips of a transport's own sections to the
transport that replaces it. A trip that an earlier merge pointed to it is not among them: with three copies of a
transport, the first trip ends up on a transport that never runs. The comment says that "B now represents A for common
days" (`merge_duplicates.cc:95`).

### Known limits of the code

Seen while modelling, outside of what the runs check; where the instance of a run avoids the case, it is said.

Real-time:

- *Renamed additional trips* (`gtfsrt_update.cc:895`, `303-306`): looked up by `trip_properties.trip_id`, stored by
  `trip.trip_id`; a repeated message adds another transport under the same id, so that later ids are off by one and the
  assertion `rt_timetable.cc:158` fails. `gtfsrt` has both id fields; `OnlyRenamedTripsBreakStep` says that nothing else does this.
- *Repeated messages with absolute times* (`gtfsrt_update.cc:158-166`, `570-587`): the delay carried on from an absolute
  time is read off the time that is stored. If that one was dropped or raised, the message sent again may change the
  times: with the schedule 0, 2, 3, 5, a delay of 6 at the first arrival, a departure given beyond the interval and no
  update for the last stop, the run arrives at 8, and at 10 when the message is repeated. `ResendChangesNothing` asks for
  absolute times that were taken as told; `update_run` has this message too.
- *Skipped stops of additional trips* (`gtfsrt_update.cc:496`) are never served again: the stop that should reset them is
  compared with itself. A CANCELED entity of an additional trip is ignored (`:877`).
- *Placeholder times* (`gtfsrt_update.cc:233`): with both times given only the departure is checked against the
  real-time interval; an arrival beyond it is dropped and its placeholder stays.
- *Vehicle positions* have no final pass (`gtfsrt_update.cc:690`): a delay that pushes an event out of the interval may
  leave events out of order.
- *Cancelled runs with an RT transport* (`rt_timetable.cc:371`): only the flag is set, and `rt_transport_is_cancelled_` is read by
  `frun` alone (`frun.cc:787`): a search still uses the RT transport, unless its stops are skipped. The models
  say of such a run "rt_cancelled", which is what the flag says.
- *Alerts revive* (`vdv_aus.cc:838`): a SIRI SX alert on a run that was cancelled adds an RT transport with the planned times,
  and routing serves the run again; the comment above and `vdv_aus_test.cc:1538-1551` expect it to stay cancelled. It is also
  done outside of the real-time interval.
- *SIRI SX periods*: `communication_period_` gets ValidityPeriod and `impact_period_` PublicationWindow, the other way
  round than GTFS-RT alerts.
- *Re-matching* (`vdv_aus.cc:792`) keeps the real-time data of runs matched before.
- *Alerts on a stop only* are looked up at the stop and its parent, not at the grandparent (`service_alert.h:192`), and an
  entity is registered under its first selector only.
- *Bitfields* are appended for every cancellation without bound (`rt_timetable.cc:378`).

Searches:

- *Lower bounds of other profiles* (`rt_timetable.cc:296`, `search.h:120`): real-time edges are left out if the graph of the default
  profile has them; a query of another profile uses them with its own graph. A station that only a real-time
  transport connects may have no bound and is then pruned. `lower_bounds` asks queries of the default profile.
- *Bounds below a platform* (`dijkstra.cc:61-66`): children get the bounds of their parents in the order of the indices. A
  location below a platform (a GTFS boarding area) gets none if its station has a higher index than the platform: the
  platform has handed down its own bound before it gets that of the station. GTFS numbers stops in the order of a hash
  map. The networks of `lower_bounds` have their stations first, and the theorem assumes it (`StationsFirst`).
- *Time-dependent footpaths and vias* (`raptor.h:975`): `update_td_offsets` limits the time at the destination
  although not all vias are visited.
- *Starts that are left out* (`start_times.cc:97`): a start is compared with the last one of the list, which may be
  of another stop. A journey can then be missing from a range query. The queries of `routing` have two stops around the start
  only as far as the extension does not need them.
- *Upper bound* (`search.h:445`): journeys as slow as or slower than `worst_time_at_dest` are found when their first
  label is written before it is compared; they count as results until the end of the search.
- *Search to all stops* (`one_to_all.cc:42`): labels with a walk after the last ride may exceed `max_travel_time`; the
  properties speak of labels within it. Durations of a backward search are negative in one accessor and positive in the other.
- *Pong from a station without start footpaths*: a pong walks to the stop it ends at, its ping does not walk from it;
  the query may fail (`pong.cc:358`). `MCRouting` uses start footpaths for stations.
- *Time-dependent footpaths that overtake* make pong throw: a later start arrives earlier. `MCRouting` asks such queries
  of the search driver only.
- *The interval of a pong* may end after the interval asked for although `extend_later` is not set, while journeys after
  it are removed; `CompleteForInterval` compares the journeys inside.
- *Ontrip searches* do not filter by `max_travel_time` (`search.h:319`).
- *Time-dependent starts at a via* count it as visited without its stay (`start_times.cc:329`), `count_vias` at a direct start, too.
- *Start walks* use static footpaths of stops that have time-dependent ones, which `optimize_footpaths.cc:362` takes to be
  not valid there; `specify_td_offsets` overwrites the duration of a leg that uses a fixed offset of a stop with both.
- *`optimize_initial_departure`* may move the boarding of the first ride before the first via when the via itself is where
  it was boarded; the queries with vias at the first stop are from door to door over two stops.
- *Walks are optimised* without the wheelchair flags of stops (`in_allowed()`, `out_allowed()`).
- *Direct connections* take the first stop of a side only (`for_each_pair`), and ignore vias and the maximum travel
  time; slow direct journeys are erased again in the search driver (`search.h:326`, `335`) and kept by pong. The loop that
  adds them ends early (`direct.cc:639-641`). Alternatives of a ride ignore the stay at vias.
- *`run::operator==`* (`run.h:38-40`) makes all additional RT transports of equal length the same.
- *Trip-based*: the reduction ignores where a ride may be left (`preprocess.cc:453-480`), walks footpaths of profile 0
  only (`:474`), and may remove a transfer that intermodal destinations need.
- *GPU*: `update_time_at_dest` counts with `!=` (`raptor_impl.cuh:1233`), the key of a task packs the traffic day
  (`:1060`).

Loader:

- *Frequencies and blocks*: `headways_match` (`local_to_utc.h:45-55`) compares the first trip with itself and returns at the
  first pair; trips of a block with frequencies never become one transport and are expanded one by one.
  `number_of_iterations` rounds down.
- *Stay-seated transfers*: trips of a cycle have no first one and vanish; of a trip by frequency that others stay seated for, only one iteration
  survives, as one representative is looked for; with more than `kMaxSeatedCombinationSteps` trips run separately;
  the joint stop has the flags of the trip that ends there (`seated.cc:242`); wheelchair assistance is lost. `NothingLost`
  speaks of trips that have none of this (`Ways`, `SeatsKept`), and the feeds have no cycles.
- *Assistance* (`expand_assistance`) adds the local time to a UTC day that contains the offset of the first departure: a day
  off for departures before it.
- *Trips of a block that overlap* get their times moved by the running maximum.
- *Merging*: duplicates across midnight are not recognised; a trip resolves on days on which only the other
  transport ran.
- *Footpaths of 256 minutes and more* (`build_footpaths.cc:175`, `212`, `328`) are converted to eight bits, which drops what is
  beyond; the feeds of `import` have none.
- *HRD footpaths* that are given one way only can leave a component of one stop, which `utl::verify(size > 2)` refuses.

### Assumptions of the models

- A search has at most `kMaxVias` vias (`search.h:96` verifies it), the events of a transport are in order, and no search
  starts at the lower end of `delta_t`; start times are sorted (`search.h:408`), and an intermodal query has the special station
  `kEnd` as its only destination (`start_times.cc:361`) (`SearchesAssumption` of `Raptor`).
- Routes are ordered as `RouteServicesProofs` proves of the loader.
- Time-dependent tables are sorted and their periods do not begin at the same time.
- Lower bounds are admissible (`lower_bounds`), here from a graph that ignores who may board where.
- In `lower_bounds`, destinations have fixed durations (no time-dependent ones, `dijkstra.cc:40-47`), and the times of a real-time transport are in
  order (proved of `UpdateRun` and `VdvAus`, under what they assume), so no segment takes negative time.
- Time-dependent ways from a stop to the destination are combined with vias only if all vias are visited.
- Reconstructions do not fail for want of memory or time; the base day is given. Starts are matched exactly or intermodal: the
  special case of the first round of `kEquivalent` (`reconstruct.cc:332-336`) is left out.
- Whether a stop has an arrival at all, `Boarded` asks of `best_` and `tmp_`; `current_best` may have one of the same stop's ride too
  (`raptor.h:1330`, `1395`). It makes no difference for what is found.
- The timetable of `vdv` has no additional trips: an alert whose trip is not in the static timetable is not found there, while the code
  goes on to the RT transport of an additional trip (`gtfsrt_alert.cc:145-152`). Route types are valid (`:187`), and a trip has one
  range of transports.
- A tie between equal elements in a hash map is broken in any way; a tie in a sorted list as the code's comparison and the order
  of insertion do.

## 4. What is proved

For every timetable, every set of messages, trips or journeys and every bound (the constants' assumptions only, where
nothing else is said):

- `GtfsRtUpdateProofs`: `TypeCorrect`, `ServedOnce`, `LookupsAreInverse`, `LocationsIndexed`, `FewStopsAreCancelled`,
  `AdditionalTripsStayInStep`, `AdditionalTripsAreFound`, and `ServiceImplemented`, the refinement
  `Spec => DayService!Spec`. The argument: `RttInv` holds of every value of the
  record and each operator preserves it. None of the invariants is inductive alone. `Single` (no double service) needs
  `Looked`: a run whose lookup is empty is the only one for which a transport is added. `Listed` (the index) needs
  `Routed`: a later update may move a stop back to its planned location *without* adding an index entry, so the planned
  locations must stay listed while the transport is elsewhere. `Flagged(r, k)` is the flag property for all transports
  but `k`, as `update_run` first revokes the cancellation and only its last line sets it again. `Added` leads from an
  id to an additional transport and never to one of a static run. `Fitting` makes the planned stops as long as
  the transport's. The pending runs are active in the static timetable, which is why a callback never offers a run
  that the timetable does not have. Two theorems are about additional trips, for feeds that use either id field or
  both. `AdditionalTripsStayInStep`: only a message about a trip that is stored, with another id in its
  properties, brings ids and transports out of step (known limits, below section 3). `AdditionalTripsAreFound`: the transport
  an additional trip is numbered by is the one it was added as, and its id leads to it while the source is in step.
  Both rest on `Numbered`: a source never has more ids than transports, no id twice, and the number of a transport leads back to it.
- `UpdateRunProofs`: `TypeCorrect`, `ScheduledRunCovered`, `CancelledRunCovered`, `MarkedEventsAtSchedule`, `TimesHeld`,
  `EventsInOrder`, `CompleteUpdatesDecide`, `RepeatedUpdatesChangeNothing`. `DataInv` ties times, states and coverage; `OrderInv` follows the final
  pass: the events before the current one are in order. `CompleteUpdatesDecide` compares two walks step by step: what
  a message with a time for each event has written so far is the same whatever was there before, and the final pass
  reads nothing else. `EventsInOrder` assumes `DelaysFit`: the delay of a vehicle position does not push an event
  out of the real-time interval. The code does not guarantee it (it has a margin `kRtIntervalBuffer` and drops what is
  beyond); without it a position may leave events out of order, since it has no final pass.
  `RepeatedUpdatesChangeNothing` does not compare two walks: what a walk aims at for an event is a matter of the message
  alone (`Source`, `Aim`). Each event it writes ends at this time, or later and then no later than an event before it (`Reached`);
  the final pass keeps this. So of the times that the first update has led to, an event later than all before it is where
  the walk aims (`Settled`). The second walk writes the same time there and nothing later elsewhere
  (`Follows`), and the final pass raises the others to where they were (`Restored`). Nothing is asked of delays: they
  are carried on as given, whether they were dropped or raised. Of absolute times it is asked that they stand, as the
  property says.
- `VdvAusProofs`: `TypesHold`, `EventsStayInOrder`, `ResentMessagesChangeNothing`, `CompleteMessagesDecide`, `MatchedRunsFit`,
  `AlertsAreFound`, from `FeedsAssumption`: what a timetable, a message and an alert are, and that the planned times of a transport are in order. The
  walk over the stops of a run and the pass of `monotonize` are recursive functions; that they exist is proved by
  induction over their domain. `EventsStayInOrder` rests on `Ordered` and `Inside`: `monotonize` leaves the running
  maximum behind, and the runs it is used on lie inside of the real-time interval, where no time is clamped. It assumes
  `AlertsInside`: a SIRI SX alert adds an RT transport without a look at the interval, as messages do
  (`is_in_rt_interval`); for a run that is partly outside, the clamped planned times stand until a message comes.
  `ResentMessagesChangeNothing` follows the second walk beside the first one: it finds the same stops of the message
  with the same delays, writes what is there, and the running maximum of times in order changes none. `MatchedRunsFit` is about `match_run`:
  `DistanceOfTimes` (the day that follows from two times of the day and the shift over midnight is the one on which the
  two are as near as their times of the day), `HitIsAt` and `AtIsHit` (a hit is a stop of the run at about the time, and an
  exact one has full score), and two inductions over the stops of the message: a candidate has at most a full score
  for each stop it meets (`ScoreIsMet`), and a run that is exactly as told has all of it (`ExactScore`). The proof showed what
  `MatchesFit` has to say: a candidate begins where it is found first, so a run with a second call near the time of the
  first told stop may lose the earlier one; and as a run is taken from 97.5 % of the best score on, the half of the
  stops it meets is one up to that factor. `AlertsAreFound` needs one more invariant, `IsStore`: the numbers in the lists
  of alerts are those of alerts that are stored, so that the next number is a new one. Then what `get_alerts` finds of the new alert
  is what it would find of each entity alone (`LookedUpByEntity`); a case for each list says that this is what the entity selects
  (`EntityLookedUp`); and `get_alerts` compares the period with the first and the last time of the call only, which
  tells all as the times of a run are in order (`PeriodFits`, from `EventsStayInOrder`). The theorem is about runs that are not cancelled,
  since the times of the others need not be in order. Besides `AlertsInside` it assumes `EntitiesAgree`: what an
  entity names besides its first selector is true of it (a trip id with the route of that trip), because the code does
  not read it; see the known limits. The feeds of the run `vdv` fulfil both assumptions.
- `LowerBoundsProofs`: `InvariantHolds`, `BoundsAreAdmissible`, from `NetworksAssumption` (what a timetable, an update and a
  query are). What a traveller can do is stated without a graph (`Moves`, `Remaining`), so the proof has two halves. The
  first one is about the graphs: for each segment of each run there is a *way* (`HasWay`), an edge of the static or the
  real-time graph to the same station that takes no longer, or it is the same station. `build_lb_graph` has one for each
  footpath and static segment; `AddEdge` replaces an edge by a shorter one only, so that no way is lost again while the
  following edges are added (`KeepsWays`); and the segments that `update_lbs` skips have the way of their own static
  run (`UpdateSegmentFacts`), which needs both stops to be compared. Waiting only adds to the
  segments of a ride (`RideTimes`), so a ride is a chain of ways (`RideTaken`). The second half is the search: a location is in
  the bucket of its distance, or all its edges are relaxed (`Relaxed`). `Admissible` is about the distances after they
  were handed down and cannot be inductive: `DoneInv` says that there were distances with nothing left to relax from
  which they came. Assumed are `DefaultProfileAsked` and `StationsFirst`, both known limits of the code: the
  second one is what the step `Finish` needs, and how that limit was found. That the search ends is model-checked.
- `ParetoSetProofs`: `TypeCorrect`, `ResultIsAntichain`, `NothingBetterLost`, `RefusalIsEarly`. The vector during
  `add()` is a compacted prefix and a rest not looked at yet; the invariant says of which journeys each part consists.
  The lemmas are that `dominates` is reflexive and transitive.
- `RouteServicesProofs`: `TypeCorrect`, `RowsStayOrdered`, `NeverOvertaken`, `EarliestIsFound`, of whatever trips are
  handed over in whatever order. A trip is inserted where it fits between its neighbours at every stop, and that orders
  all of them by transitivity. `EarliestIsFound` goes from there to the search: `NothingCompressedAway` (a first
  departure and a shared pattern give the times that were loaded), `MaxDeltaFacts` (the last event is on the last day, so
  the route has the days of all events), `BisectionFinds` (invariant `IsLeft`: no position before `lo` is late enough,
  each one from `hi` on is; a round halves what is left), and `EarliestInRow`: the positions the scan visits, in its order,
  have rising times, and every transport that can be boarded is at one of them.

- `RaptorWalkProofs` and `RaptorProofs`: `LabelsCanBeTravelled` (`Spec => []Reconstructible`), the invariant it rests on,
  `RaptorInvariant`, and what follows from both for the results, `NoResultIsTooGood`
  (`Spec => []NothingBetterPromised`). Next below.

**Labels can be travelled.** `Reconstructible` relates the labels of two rounds, with a reference (`Rides`, `Transfers`,
`WalkTo`, `AtDestination` of `Itineraries`) that has neither marks nor limits, and which the algorithm does not
compute. It is what `reconstruct` relies on when it looks for the leg before a label. The difficulty is that labels
are left over: of the start times before, of other parts of the same round, of `tmp` two rounds ago. `RaptorInv` says
what each of them still is:

- `LabelsExplained`: a label of round `i` is invalid, or *known* (some earlier round has one as good), or one ride and one
  walk away from a label of round `i - 1`. Labels only get better, so what explains a label stays, or becomes better, and then
  a transport that waited for the old label waits for the new one (`CanBoard`).
- `BestKnown`: `best_` is as good as no label, or a label of a round up to now. This is what lets a target be refused
  for `best_`: somebody has been there.
- `Pruned`: a label of this round that is better than `best_` has been refused for the limit at the destination or
  the lower bound, and would be again, as limits only get tighter. `begin_round` takes it over into `best`.
- `ArrivalsAre`: an entry of `tmp_` is a ride from a label of the round before and its stop is marked; or it is an older one
  and everything one can walk to from it is known (`Settled`). `tmp_` is never reset between rounds and
  holds the best of all of them: without the second case a walk of this round from an arrival of an earlier
  one could not be explained.

Each phase establishes what the next one needs. `Ride` boards a transport from labels of the round before (not from
`best_`; the mutant `Boarded_Best` does, and there the invariant fails), keeps for each rider slot a run that was boarded with that number
of vias and has passed the rest (`RouteStop`), and arrives from it. That a via passed on the way is counted once, and at
most `kMaxVias` of them, is where the bound on vias is used: `AfterRide` of the reference knows up to two.
`get_earliest_transport` is opened up no further than needed: what it returns is a run of the route that leaves at or
after the label (`EarliestBoards`), through the day's arithmetic of its candidates. That events of a transport are in order is used
where a clamped time has to be boarded: a label that fits before the clamped departure fits before the real one.
`Walk` is the longer half: each of its four steps keeps the four parts, and after all of them every marked arrival is
settled, which is `ArrivalsAre` for the next round.

The proof is for every network, query, sequence of starts, `kMaxTransfers` and `MaxDelta`, in both directions, with
static and time-dependent footpaths, intermodal destinations and section filters. It assumes `SearchesAssumption` and
`LabelAssumption` (TLC evaluates both in `raptor`). That events are in order is what the loaders sort for
(`local_to_utc.h:67`), and what `EventsInOrder` and `EventsStayInOrder` say of real-time updates, under their own assumptions.
It covers `execute` with no bounds of a pong (`bounds.last = 0`), as `search.h` calls it.

**No result is too good.** `NothingBetterPromised` is the half of `FindsTheBest` that says the results are sound: behind each
result is an itinerary of the reference with a start time that has been searched, which leaves no earlier, arrives no later
and has no more transfers. It is not the itinerary of the labels, which may mix start times: a label kept from a later start is
ridden by an earlier one. `JourneyInv` says what stands behind the state while the search runs, with the set `Begun` of the starts
begun so far:

- `StartLabels`: a label of round 0 is one of these starts, at its own time (a start that the clamp moves would be invalid).
- `RoundBacked` follows for every round from `LabelsExplained`, by induction over rounds (`LabelsBacked`): some itinerary waits at the
  label's stop with its vias no later after as many transports or fewer (`WaitBacked`), or has ended by then
  (`EndBacked`, for labels of a destination from which a journey goes on: the search keeps no time to change there, so the label
  is earlier than any wait of the reference).
- `LandedBacked`: the same of the entries of `tmp_`, from whichever round they are; `EndLabels`: labels of the intermodal
  destination, which are not explained by labels but by arrivals, are ends of itineraries.
- Every result is promised by one of the starts searched so far (`IsPromised`); `collect` adds a journey for a label of the
  destination, in a fold of which only the elements matter here (`Collected`).

It needs the order of the starts: the label that becomes a result with this start time may come from an earlier one in the
sequence, and the itinerary behind it then leaves later than the result says, never earlier. Who starts at a destination is there already, which the
reference does not count as an itinerary: `Staying` allows for it. The theorem says nothing about completeness, which stays
with TLC (`FindsTheBest`; it implies the soundness of the results within the time to travel, so the run `raptor` checks that
on its instance).

**Loops.** The rounds are loops over bit sets, sets and ranges, in the model folds (`ForEach`, `ForAny`). An operator cannot be
the parameter of a lemma, so each loop has two lemmas of the same form: the fold exists and goes step by step, hence what
every step keeps, all of them keep (`...Forward`), and each element's turn comes, so what a step reaches and later ones
keep holds at the end (`...Arrives`); where the order counts, `...UpTo` carries along how far the loop is. The sets
of states that a lemma is about (`J`) stand for a predicate. This is the repetition that makes the two modules long.

Some of these properties are not checked by a run any more because the theorem says it all (`LookupInverse`,
`FewStopsCancelled`, `CoverageOfCancelled`, `RowsOrdered`, the type invariants of these modules).

**Induction.** The library's induction theorems have an operator as a parameter and cannot be used. Two lemmas about
sets take their place: a set of numbers that is not empty has a least one (`LeastNumber`, from the well-foundedness of `<`), and
one that has 0 and with each number the next has all (`NumbersReached`). They are enough for recursive *functions* over
intervals. They are not for `RECURSIVE` operators, and for folds over sets only with the repetition described under *Loops*.

**Syntax.** tlapm 1.4.5 reads `UNION A \cup B` as `UNION (A \cup B)`, SANY and TLC as `(UNION A) \cup B`: modules that proofs reach
write the parentheses (`Moves` of `LowerBounds`).

Only model-checked: liveness; that the searches find the best of all itineraries (`FindsTheBest` of RAPTOR, the GPU search and trip-based
routing; of RAPTOR, the soundness is proved), which is a statement about all histories against a reference that iterates; what `Routing` promises;
footpaths and the merging of duplicates (a finding shows that it is not
right in general); the loader before the sorting into routes. `GtfsLoader` has
recursive operators (the walks over frequencies and stay-seated transfers), what they compute is out of the
prover's reach.

## 5. What is not modelled

`PROJECT.json` lists every component with the reason. Display data (lines, tracks, headsigns, translations), tracing and
statistics are left out of all modules. Of the larger files without a model:

- `netex/load_timetable.cc`, the readers of `gtfs`, `hrd` and their `parser_config.h`: conversion of input, line by line,
  without state that outlives a record. What they lead to (trips, stops, footpaths) is where `GtfsLoader` and
  `Footpaths` begin.
- `hrd/service/*`: the expansion of HRD services to UTC; the same task as `local_to_utc.h`, on another format.
- `rt/frun.cc`: a read-only view; what routing, alerts and VDV AUS take from it is in their modules.
- `loader/register.cc`, `lua` scripts: user code that renames and filters; `shapes`, `flex`, booking, fares: data
  that no search reads; C interface and tools: wrappers.
- The first walk of a trip-based journey, the legs that the host adds to a GPU journey, uploads to the device.

## 6. Plan

Theorems that would come next: labels of RAPTOR do not lie before the start (`EventsInReach`); then the other half of
`FindsTheBest`, completeness, by the argument that what `Pruned` refuses cannot lead to a better journey.

Models that would add to it: HRD services to UTC against the same abstract service days as `GtfsLoader`; fares; a
timetable as a set of dated trips as the abstract specification of all loaders.
