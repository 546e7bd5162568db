----------------------------- MODULE Itineraries -----------------------------
(***************************************************************************)
(* The itineraries that exist in a network for a query, by definition:     *)
(* what a search promises to find the best of. A place is <<l, v, t>>, to  *)
(* be at location l at time t having visited v vias. Nothing is pruned, no *)
(* label is kept, every transport on every day can be taken.               *)
(***************************************************************************)
EXTENDS RaptorRounds

\* To wait costs nothing, so a transport can be boarded whenever it leaves.
CanBoard(q, t, dep) == t # kInvalid(q) /\ better_or_eq(q, t, dep)

(***************************************************************************)
(* The numbers of vias visited after a ride from the i-th to the j-th stop *)
(* (in search direction), at most one at each stop on the way.             *)
(***************************************************************************)
AfterRide(q, r, i, j, v) ==
  LET Loc(x) == r.stops[StopIdx(q, r, x)].loc
  IN  {v} \cup {v + 1 : x \in {x \in i + 1..j : IsPassedVia(q, Loc(x), v)}}
          \cup {v + 2 : x \in {x \in (i + 1..j) \X (i + 1..j) :
                          x[1] < x[2] /\ IsPassedVia(q, Loc(x[1]), v)
                                      /\ IsPassedVia(q, Loc(x[2]), v + 1)}}

Sections(q, r) ==
  {x \in (DOMAIN r.stops) \X (DOMAIN r.stops) :
     /\ x[1] < x[2]
     /\ can_start(q, r.stops[StopIdx(q, r, x[1])])
     /\ can_finish(q, r.stops[StopIdx(q, r, x[2])])
     /\ \A y \in x[1] + 1..x[2] : ~EndsRides(q, r, y)}

\* The places that a ride on r leads to; Time(e) is the time of its event e.
RideOn(q, r, Time(_), places) ==
  UNION {UNION {{<<r.stops[StopIdx(q, r, x[2])].loc, w, Time(AlightEvent(q, r, x[2]))>> :
                  w \in AfterRide(q, r, x[1], x[2], p[2])} :
           p \in {p \in places : /\ p[1] = r.stops[StopIdx(q, r, x[1])].loc
                                 /\ CanBoard(q, p[3], Time(BoardEvent(q, r, x[1])))}} :
         x \in Sections(q, r)}

Runs(r) == UNION {{<<i, day>> : day \in r.days[i]} : i \in DOMAIN r.times}

Used(q, transports) == {i \in DOMAIN transports : is_used(q, transports[i])}

RunTo(q, r, x, places) == RideOn(q, r, LAMBDA e : EventTime(r, x[1], x[2], e), places)
RtRunTo(q, r, places) == RideOn(q, r, LAMBDA e : r.times[e], places)

Rides(n, q, places) ==
  (UNION {UNION {RunTo(q, n.routes[i], x, places) : x \in Runs(n.routes[i])} :
            i \in Used(q, n.routes)})
  \cup (UNION {RtRunTo(q, n.rt_transports[i], places) : i \in Used(q, n.rt_transports)})

\* Either the next via is not visited, or its stay is spent.
Stays(q, l, v) == {<<v, 0>>} \cup IF IsNextVia(q, l, v) THEN {<<v + 1, q.vias[v + 1].stay>>} ELSE {}

Transfers(n, q, places) ==
  UNION {{<<p[1], x[1], p[3] + q.dir * (x[2] + adjusted_transfer_time(q, n.transfer_time[p[1]]))>> :
            x \in Stays(q, p[1], p[2])} : p \in places}

\* All walks: [target, duration] from a location at a time.
WalksFrom(n, q, l, t) ==
  {[target |-> IF q.dir = 1 THEN fp.to ELSE fp.from,
    duration |-> adjusted_transfer_time(q, fp.duration)] : fp \in StaticFootpaths(n, q, l)}
  \cup
  {[target |-> fp.target, duration |-> fp.td.duration] :
     fp \in IF q.td THEN for_each_footpath(q.dir, (IF q.dir = 1 THEN n.td_out ELSE n.td_in)[l], t)
            ELSE {}}

WalkTo(n, q, places) ==
  UNION {UNION {UNION {{<<w.target, y[1], p[3] + q.dir * (x[2] + w.duration + y[2])>> :
                          y \in Stays(q, w.target, x[1])} :
                  x \in Stays(q, p[1], p[2])} :
           w \in WalksFrom(n, q, p[1], p[3])} : p \in places}

\* The places at which the next transport is waited for, after m of them.
Waits(n, q, starts, m) ==
  LET wait[i \in 0..m] ==
        IF i = 0 THEN {<<x.stop, x.v, x.time>> : x \in starts}
        ELSE LET arrived == Rides(n, q, wait[i - 1])
             IN  Transfers(n, q, arrived) \cup WalkTo(n, q, arrived)
  IN  wait[m]

\* At a stop that is the destination, no transfer time is needed.
AtDestination(q, places) ==
  IF q.intermodal THEN {}
  ELSE UNION {{<<p[1], Vias(q), p[3] + q.dir * y[2]>> :
                 y \in {y \in Stays(q, p[1], p[2]) : y[1] = Vias(q)}} :
               p \in {p \in places : p[1] \in q.is_dest}}

(***************************************************************************)
(* The times at which one is at the destination after the last transport.  *)
(***************************************************************************)
AtEnd(n, q, arrived) ==
  LET AtStation ==
        AtDestination(q, arrived)
          \cup {p \in WalkTo(n, q, arrived) : p[1] \in q.is_dest /\ p[2] = Vias(q)}
      ByOffset ==
        UNION {{p[3] + q.dir * (y[2] + q.dist_to_end[p[1]]) :
                  y \in {y \in Stays(q, p[1], p[2]) : y[1] = Vias(q)}} :
               p \in {p \in arrived : q.dist_to_end[p[1]] # kUnreachable}}
      ByTdOffset ==
        {p[3] + q.dir * get_td_duration(q.dir, q.td_dest[p[1]], p[3]).duration :
           p \in {p \in arrived : /\ p[2] = Vias(q) /\ q.td_dest[p[1]] # <<>>
                                  /\ Found(get_td_duration(q.dir, q.td_dest[p[1]], p[3]))}}
  IN  IF q.intermodal THEN ByOffset \cup ByTdOffset ELSE {p[3] : p \in AtStation}

(***************************************************************************)
(* The times at which an itinerary with m transports ends.                 *)
(***************************************************************************)
Ends(n, q, starts, m) == AtEnd(n, q, Rides(n, q, Waits(n, q, starts, m - 1)))

=============================================================================
