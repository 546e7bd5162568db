------------------------------ MODULE MCTripBased ------------------------------
EXTENDS TripBased, Networks

(***************************************************************************)
(* Lines that meet again, go back where another came from, end there, run  *)
(* over midnight or on the next day only.                                  *)
(***************************************************************************)
Meeting(fast, tr, back, night, night_days, fps) ==
  [Basic(fast, <<<<3, 6>>, <<6, 9>>>>, <<>>, tr, fps) EXCEPT
     !.routes = <<@[1], @[2], @[3],
                  Route(<<3, 2, 4>>, <<<<back, back + 1, back + 1, 12>>>>, <<{0, 1}>>),
                  Route(<<1, 3, 4>>, <<<<night, night + 2, night + 4, night + 6>>>>, <<night_days>>),
                  Route(<<3, 2>>, <<<<5, 6>>, <<8, 9>>>>, <<{0}, {0, 1}>>)>>]

Walks == {[from |-> 2, to |-> 3, duration |-> 1], [from |-> 3, to |-> 2, duration |-> 2],
          [from |-> 3, to |-> 4, duration |-> 3]}

MeetingNetworks ==
  {Meeting(fast, tr, back, night, nd, fps) :
     fast \in {4, 5}, tr \in {0, 2}, back \in {6, 8}, night \in {9, 17}, nd \in {{0}, {1}}, fps \in SUBSET Walks}

\* A second line over midnight, met before or after midnight.
Night(dep, first, second, dayss, tr, fps) ==
  [Basic(4, <<<<3, 6>>>>, <<>>, tr, fps) EXCEPT
     !.routes = <<Route(<<1, 2, 3>>, <<<<dep, dep + 2, dep + 2, dep + 4>>>>, <<{0, 1}>>),
                  Route(<<2, 3, 4>>, <<<<first, first + 1, first + 2, first + 3>>, <<second, second + 1, second + 3, second + 4>>>>, dayss),
                  Route(<<3, 4>>, <<<<2, 3>>, <<8, 10>>>>, <<{1}, {0, 1, 2}>>)>>]

NightNetworks ==
  {Night(dep, x[1], x[2], x[3], tr, fps) :
     dep \in {15, 17, 19}, tr \in {0, 2}, fps \in SUBSET Walks,
     x \in {<<17, 18, <<{0}, {1}>>>>, <<18, 19, <<{1}, {0, 1}>>>>, <<1, 2, <<{1}, {1, 2}>>>>, <<1, 22, <<{1}, {0}>>>>}}

\* Going one stop further and back is quicker than to change, or to walk.
Turning(tr, back, last, fps) ==
  [Basic(4, <<>>, <<>>, tr, fps) EXCEPT
     !.routes = <<Route(<<1, 2, 3>>, <<<<1, 2, 2, 4>>>>, <<{0}>>),
                  Route(<<3, 2, 4>>, <<<<back, back + 1, back + 1, 12>>>>, <<{0}>>),
                  Route(<<3, 2>>, <<<<back, back + 1>>, <<back + 1, back + 2>>>>, <<{0}, {0}>>),
                  Route(<<2, 4>>, <<<<last, last + 1>>, <<last + 4, last + 5>>>>, <<{0}, {0}>>)>>]

TurningNetworks ==
  {Turning(tr, back, last, fps) : tr \in {0, 3, 6}, back \in {5, 6}, last \in {8, 14}, fps \in SUBSET Walks}

\* Two stops to start at, and ways from two stops to an intermodal destination.
Doors(m) ==
  {[n |-> m, q |-> Query(m, 1, 4), starts |-> <<BothFrom(4, far), BothFrom(1, far)>>] : far \in {1, 4}}
  \cup
  {[n |-> m, q |-> IntermodalQuery(m, 1, Partial([l \in L |-> 8 - 2 * l], D), <<>>),
    starts |-> <<From(1, 4), From(1, 1)>>] : D \in {{3}, {2, 4}, {3, 4}}}

MCSearches ==
  {[n |-> m, q |-> Query(m, 1, 4), starts |-> <<From(1, 9), From(1, 4), From(1, 1)>>] : m \in MeetingNetworks}
  \cup UNION {Doors(m) : m \in {m \in MeetingNetworks : m.transfer_time[2] = 2}}
  \cup
  {[n |-> m, q |-> Query(m, 1, dest), starts |-> <<From(1, 1)>>] : m \in TurningNetworks, dest \in {2, 4}}
  \cup
  {[n |-> m, q |-> Query(m, 1, 4), starts |-> <<From(1, 37), From(1, 18), From(1, 14)>>] : m \in NightNetworks}

===============================================================================
