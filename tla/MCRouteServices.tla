--------------------------- MODULE MCRouteServices ---------------------------
(***************************************************************************)
(* Days of six minutes in a week of three days; UTC is one minute behind   *)
(* at first and two minutes later on.                                      *)
(***************************************************************************)
EXTENDS GtfsLoader

MCNoonOffset == [d \in 0..5 |-> IF d < 3 THEN 1 ELSE 2]
MCServiceId == [trips : Seq(1..9), tz_offset : Int]
MCAssisted == {<<"B", d, t>> : d \in {1, 2}, t \in 0..5}

Daily == [from |-> 0, to |-> 6, week_days |-> {0, 1, 2}]
Calendar == [daily |-> Daily,
             some |-> [Daily EXCEPT !.week_days = {1}],
             early |-> [Daily EXCEPT !.to = 3],
             later |-> [Daily EXCEPT !.from = 2, !.to = 4, !.week_days = {0, 2}]]
Dates == [some |-> <<[day |-> 2, add |-> TRUE], [day |-> 4, add |-> FALSE]>>,
          once |-> <<[day |-> 3, add |-> TRUE], [day |-> 9, add |-> TRUE]>>]

At(l) == [l |-> l, in |-> TRUE, out |-> TRUE, win |-> TRUE, wout |-> TRUE]
Along(x) == [k \in DOMAIN x |-> At(x[k])]
Stop(t) == [arr |-> t[1], dep |-> t[2]]

Trip(service, stops, times) ==
  [service |-> service, block |-> None, clasz |-> "bus", own_clasz |-> None,
   bikes |-> FALSE, stops |-> Along(stops), times |-> [k \in DOMAIN times |-> Stop(times[k])],
   frequency |-> <<>>]
InBlock(b, t) == [t EXCEPT !.block = b]
Every(q, t) == [t EXCEPT !.frequency = q]

Feed(trips, seated) ==
  [calendar |-> Calendar, dates |-> Dates, feed_end |-> 2, trips |-> trips, seated |-> seated]

ABC == <<"A", "B", "C">>

\* Trips that wrap around midnight, overtake each other or share a pattern.
Single == <<
  Trip("daily", ABC, <<<<1, 1>>, <<2, 2>>, <<4, 4>>>>),
  Trip("some", ABC, <<<<2, 2>>, <<3, 3>>, <<5, 5>>>>),
  Trip("early", ABC, <<<<4, 4>>, <<5, 5>>, <<7, 7>>>>),
  Trip("later", ABC, <<<<2, 2>>, <<3, 4>>, <<5, 5>>>>),
  Trip("once", ABC, <<<<3, 3>>, <<9, 9>>, <<10, 10>>>>),
  Trip("daily", ABC, <<<<5, 5>>, <<13, 13>>, <<14, 14>>>>)>>

Singles == {Feed([k \in 1..4 |-> Single[q[k]]], {}) :
              q \in {x \in [1..4 -> 1..6] : \A k \in 1..3 : x[k] < x[k + 1]}}

AB == <<"A", "B">>
BC == <<"B", "C">>
BA == <<"B", "A">>

\* Blocks: another successor on other days, two at the same time, trips that
\* go back and forth, and one that starts on the day before in UTC.
Blocks1 == Feed(<<
  InBlock("b", Trip("daily", AB, <<<<1, 1>>, <<2, 2>>>>)),
  InBlock("b", Trip("some", BC, <<<<3, 3>>, <<4, 4>>>>)),
  InBlock("b", Trip("later", BC, <<<<3, 3>>, <<5, 5>>>>)),
  InBlock("b", Trip("early", BC, <<<<4, 4>>, <<5, 5>>>>)),
  Trip("daily", ABC, <<<<1, 1>>, <<2, 3>>, <<4, 4>>>>)>>, {})
Blocks2 == Feed(<<
  InBlock("b", Trip("daily", AB, <<<<0, 0>>, <<1, 1>>>>)),
  InBlock("b", Trip("some", BA, <<<<2, 2>>, <<6, 6>>>>)),
  InBlock("b", Trip("daily", AB, <<<<6, 6>>, <<8, 8>>>>)),
  InBlock("c", Trip("daily", BC, <<<<3, 3>>, <<5, 5>>>>)),
  InBlock("c", Trip("later", AB, <<<<1, 1>>, <<3, 3>>>>))>>, {})

\* Frequencies: of a trip, and of one trip of a block.
Frequent == Feed(<<
  Every(<<[start |-> 1, end |-> 5, headway |-> 2], [start |-> 5, end |-> 8, headway |-> 2]>>,
        Trip("some", ABC, <<<<1, 1>>, <<2, 2>>, <<3, 3>>>>)),
  InBlock("b", Trip("daily", AB, <<<<1, 1>>, <<2, 2>>>>)),
  InBlock("b", Every(<<[start |-> 3, end |-> 5, headway |-> 1]>>,
                     Trip("once", BC, <<<<3, 3>>, <<4, 4>>>>)))>>, {})

\* Missing times; without a first departure or last arrival a trip is left out.
Untimed == Feed(<<
  Trip("daily", ABC, <<<<Missing, 1>>, <<Missing, Missing>>, <<6, Missing>>>>),
  Trip("some", ABC, <<<<1, 1>>, <<2, Missing>>, <<Missing, Missing>>>>),
  Trip("some", ABC, <<<<Missing, Missing>>, <<2, Missing>>, <<4, 4>>>>),
  Trip("later", <<"A">>, <<<<1, 1>>>>),
  InBlock("b", Trip("later", AB, <<<<1, 1>>, <<Missing, 2>>>>)),
  InBlock("b", Trip("daily", BC, <<<<Missing, 3>>, <<4, Missing>>>>))>>, {})

\* Routes of their own: another class, with bicycles, and days with assistance.
Classes == Feed(<<
  [Trip("daily", ABC, <<<<1, 1>>, <<2, 2>>, <<4, 4>>>>) EXCEPT !.clasz = "rail"],
  [Trip("some", ABC, <<<<2, 2>>, <<3, 3>>, <<5, 5>>>>) EXCEPT !.own_clasz = "rail"],
  InBlock("b", [Trip("later", AB, <<<<2, 2>>, <<3, 3>>>>) EXCEPT !.bikes = TRUE]),
  InBlock("b", Trip("later", BC, <<<<3, 3>>, <<4, 4>>>>)),
  InBlock("c", Trip("once", AB, <<<<2, 2>>, <<3, 3>>>>)),
  InBlock("c", Trip("once", BC, <<<<3, 3>>, <<5, 5>>>>))>>, {})

\* Stay-seated transfers: a chain over midnight, a fork, a join, and one that
\* has more chains than are tried; <<1, 0>> names a trip that is not there.
Chain == Feed(<<
  Trip("daily", AB, <<<<4, 4>>, <<6, 6>>>>),
  Trip("some", BC, <<<<7, 7>>, <<8, 8>>>>),
  Trip("later", BC, <<<<1, 1>>, <<3, 3>>>>),
  InBlock("b", Trip("daily", ABC, <<<<1, 1>>, <<2, 2>>, <<3, 3>>>>)),
  InBlock("b", Trip("some", AB, <<<<5, 5>>, <<7, 7>>>>))>>,
  {<<1, 2>>, <<1, 3>>, <<1, 0>>, <<5, 3>>})
Long == Feed(<<
  Trip("some", AB, <<<<5, 5>>, <<12, 12>>>>),
  Trip("daily", BC, <<<<1, 1>>, <<6, 6>>>>),
  Trip("daily", <<"C", "A">>, <<<<1, 1>>, <<2, 2>>>>)>>, {<<1, 2>>, <<2, 3>>})
Many == Feed(<<
  Trip("daily", AB, <<<<1, 1>>, <<2, 2>>>>),
  Trip("once", AB, <<<<1, 1>>, <<2, 2>>>>),
  Trip("daily", BC, <<<<3, 3>>, <<4, 4>>>>),
  Trip("daily", BC, <<<<2, 2>>, <<4, 4>>>>)>>, {<<1, 3>>, <<1, 4>>, <<2, 3>>, <<2, 4>>})

MCFeeds == Singles \union
  {Blocks1, Blocks2, Frequent, Untimed, Classes, Chain, Long, Many}

=============================================================================
