------------------------------- MODULE MCVdvAus -------------------------------
(***************************************************************************)
(* Days of 60 minutes. Line 1 runs twice, ten minutes apart and over       *)
(* midnight; line 2 is nearly at the same times at equivalent stops; line  *)
(* 3 starts at a track of a platform of a station.                         *)
(***************************************************************************)
EXTENDS VdvAus

Stop(l) == [loc |-> l, in |-> TRUE, out |-> TRUE, in_wheelchair |-> TRUE, out_wheelchair |-> FALSE]
Stops(ls) == [i \in DOMAIN ls |-> Stop(ls[i])]
Events(ts) == [e \in 0..Len(ts) - 1 |-> ts[e + 1]]
Line(ls, times, days_) ==
  [stops |-> Stops(ls), times |-> [x \in DOMAIN times |-> Events(times[x])], days |-> days_]

\* 4 is the station of platform 2, which has track 6; 5 is equivalent to 2.
Timetable ==
  [parents |-> <<0, 4, 0, 0, 0, 2>>,
   generated_tracks |-> {6},
   equivalences |-> <<{1}, {2, 5}, {3}, {4}, {2, 5}, {6}>>,
   eq_order |-> <<<<1>>, <<2, 5>>, <<3>>, <<4>>, <<5, 2>>, <<6>>>>,
   routes |-> <<Line(<<1, 2, 3>>, << <<50, 58, 59, 64>>, <<60, 68, 69, 74>> >>, <<{1, 3}, {1}>>),
                Line(<<1, 5, 3>>, << <<50, 58, 60, 66>> >>, <<{1}>>),
                Line(<<6, 3>>, << <<20, 30>> >>, <<{1, 2}>>)>>,
   trips |-> [t1 |-> [route |-> 1, pos |-> 1, day |-> 0, from |-> 1, to |-> 2],
              t2 |-> [route |-> 1, pos |-> 1, day |-> 0, from |-> 2, to |-> 3],
              t3 |-> [route |-> 2, pos |-> 1, day |-> 0, from |-> 1, to |-> 3],
              t4 |-> [route |-> 3, pos |-> 1, day |-> 0, from |-> 1, to |-> 2]],
   info |-> [t1 |-> [route_id |-> "A", direction |-> 0, agency |-> "X", route_type |-> 3],
             t2 |-> [route_id |-> "A", direction |-> 1, agency |-> "X", route_type |-> 3],
             t3 |-> [route_id |-> "B", direction |-> 0, agency |-> "X", route_type |-> 2],
             t4 |-> [route_id |-> "C", direction |-> 1, agency |-> "Y", route_type |-> 3]]]

At(l, arr, dep, rt_arr, rt_dep) ==
  [l |-> l, arr |-> arr, dep |-> dep, rt_arr |-> rt_arr, rt_dep |-> rt_dep,
   in_forbidden |-> FALSE, out_forbidden |-> FALSE, passing |-> FALSE,
   arr_canceled |-> FALSE, dep_canceled |-> FALSE, recorded |-> FALSE]

First == At(1, NoTime, 110, NoTime, 110)
Middle == At(2, 118, 119, 118, 119)
End == At(3, 124, NoTime, 124, NoTime)

Message(id, complete, stops) ==
  [id |-> id, trip |-> NoId, date |-> NoTime, complete |-> complete, cancelled |-> FALSE, stops |-> stops]

Late == Message("a", TRUE,
  <<[First EXCEPT !.rt_dep = 115], [Middle EXCEPT !.rt_arr = 123, !.rt_dep = 124, !.recorded = TRUE],
    [End EXCEPT !.rt_arr = 129]>>)
\* The second departure is later than the last arrival.
Disordered == Message("a", TRUE,
  <<[First EXCEPT !.rt_dep = 121], [Middle EXCEPT !.rt_arr = 119, !.rt_dep = 130], [End EXCEPT !.rt_arr = 125]>>)
\* A time for the first stop only, and a stop that is not known.
Begin == Message("a", FALSE, <<[First EXCEPT !.rt_dep = 120], At(0, 118, 119, 118, 119)>>)
\* Only arrivals.
Rest == Message("a", FALSE,
  <<[Middle EXCEPT !.dep = NoTime, !.rt_arr = 116], [End EXCEPT !.rt_arr = NoTime]>>)
Cancelled == [Message("a", TRUE, <<First, Middle, End>>) EXCEPT !.cancelled = TRUE]
\* Passes the middle and drops nobody at the end.
Passing == Message("a", TRUE,
  <<First, [Middle EXCEPT !.passing = TRUE], [End EXCEPT !.out_forbidden = TRUE]>>)
NoDeparture == Message("a", FALSE, <<[First EXCEPT !.dep_canceled = TRUE, !.rt_dep = NoTime]>>)
\* A stop that the run does not have, between those it has.
Skipping == Message("a", TRUE,
  <<[First EXCEPT !.rt_dep = 112], At(6, 114, 115, 114, 115), [End EXCEPT !.rt_arr = 126]>>)
\* The second transport; the first one on another day, outside of the interval; and
\* one with a planned time that is on the other side of midnight.
Next10 == Message("b", FALSE, <<At(1, NoTime, 121, NoTime, 125), At(2, 129, 130, NoTime, 131)>>)
Later == Message("c", TRUE, <<At(1, NoTime, 230, NoTime, 235), At(3, 244, NoTime, 249, NoTime)>>)
Midnight == Message("e", FALSE, <<At(2, 121, 122, 121, 125)>>)
\* A trip id and a date; the trip is a part of the run.
Named == [Message("d", FALSE, <<[Middle EXCEPT !.rt_dep = 122], [End EXCEPT !.rt_arr = 300]>>)
            EXCEPT !.trip = "t2", !.date = 1]
Silent == Message("a", TRUE, <<>>)
Anonymous == Message(NoId, TRUE, <<First>>)

Messages ==
  {Late, Disordered, Begin, Rest, Cancelled, Passing, NoDeparture, Skipping, Next10, Later, Midnight, Named}

Entity == [stop |-> NoLocation, trip |-> NoId, date |-> NoTime, route |-> NoId,
           direction |-> NoDirection, agency |-> NoId, type |-> 0]
Entities ==
  {[Entity EXCEPT !.trip = "t1", !.date = 1], [Entity EXCEPT !.trip = "t2", !.stop = 4],
   [Entity EXCEPT !.trip = "t4", !.date = 2],
   [Entity EXCEPT !.route = "A"], [Entity EXCEPT !.route = "A", !.direction = 1, !.stop = 3],
   [Entity EXCEPT !.route = "C", !.stop = 4], [Entity EXCEPT !.agency = "X"],
   [Entity EXCEPT !.agency = "X", !.type = 2, !.stop = 5], [Entity EXCEPT !.type = 3],
   [Entity EXCEPT !.type = 3, !.stop = 1], [Entity EXCEPT !.stop = 2], [Entity EXCEPT !.stop = 4],
   [Entity EXCEPT !.stop = Unknown], [Entity EXCEPT !.direction = 0], [Entity EXCEPT !.trip = "t9"],
   [Entity EXCEPT !.route = "Z"], [Entity EXCEPT !.agency = "Z"], Entity}
Gtfs(entities, impact, active) ==
  [kind |-> "gtfs", entities |-> entities, impact |-> impact, active |-> active]
Siri == [kind |-> "siri", ids |-> {"a", "z"}, lines |-> {"B", "Z"}, stop_places |-> {2},
         publication |-> [from |-> 0, to |-> 240]]

Period(from, to) == [from |-> from, to |-> to]
Alerts1 ==
  {Gtfs({e}, {}, {Period(112, 119)}) : e \in Entities}
    \cup {Gtfs({[Entity EXCEPT !.route = "A", !.direction = 1]}, {}, {}),
          Gtfs({[Entity EXCEPT !.trip = "t2"], [Entity EXCEPT !.stop = 1]}, {Period(120, 124)}, {Period(0, 240)}),
          Gtfs({[Entity EXCEPT !.route = "A", !.stop = 2]}, {}, {}), Siri}

MCFeeds ==
  {[tt |-> Timetable, messages |-> ms, alerts |-> {}] : ms \in kSubset(3, Messages)}
    \cup {[tt |-> Timetable, messages |-> {Late, m}, alerts |-> {Siri}] : m \in {Cancelled, Silent, Anonymous}}
    \cup {[tt |-> Timetable, messages |-> {Late, Begin}, alerts |-> Alerts1]}
==============================================================================
