------------------------------- MODULE MCImport -------------------------------
(***************************************************************************)
(* Feeds of two lines that may be the same, and feeds of stops only.       *)
(***************************************************************************)
EXTENDS Import

\* Six stops in pairs that are near each other, the first three of source 1.
NoRoutes(parents, src, format, pos) ==
  [parents |-> parents, generated_tracks |-> {}, src |-> src, format |-> format, pos |-> pos,
   names |-> [l \in DOMAIN parents |-> ""], transfer_time |-> [l \in DOMAIN parents |-> 2],
   transfers |-> <<>>, hrd_footpaths |-> <<>>, hrd_equivalent |-> {},
   link_stop_distance |-> 0, default_transfer_time |-> 2, max_footpath_length |-> 20,
   adjust_footpaths |-> TRUE, routes |-> <<>>, trips |-> <<>>,
   intra_src |-> TRUE, inter_src |-> TRUE, merge_threshold |-> [bus |-> 1, tram |-> 2]]

TwoFeeds ==
  NoRoutes(<<0, 0, 0, 0, 0, 0, 1>>, <<1, 1, 1, 2, 2, 2, 1>>, <<"gtfs", "gtfs">>,
           <<1000, 9000, 17000, 1100, 9200, 17500, 1050>>)

At(l) == [loc |-> l, in |-> TRUE, out |-> TRUE]
Times(e) == [i \in 0..Len(e) - 1 |-> e[i + 1]]
Line(stops, times, dayss) ==
  [stops |-> [i \in DOMAIN stops |-> At(stops[i])], times |-> [i \in DOMAIN times |-> Times(times[i])],
   days |-> dayss, clasz |-> "bus", flags |-> {}]

Whole(t) == {[t |-> t, from |-> 1, to |-> 3]}
Half(t, i) == {[t |-> t, from |-> i, to |-> i + 1]}

\* A block of two trips on the first transport, one trip on each other one.
WithLines(feed, lines) ==
  LET others == SetToSortSeq(UNION {{<<r, pos>> : pos \in DOMAIN lines[r].times} : r \in DOMAIN lines}
                               \ {<<1, 1>>},
                             LAMBDA a, b : a[1] < b[1] \/ (a[1] = b[1] /\ a[2] < b[2]))
  IN  [feed EXCEPT !.routes = lines,
         !.trips = <<Half(<<1, 1>>, 1), Half(<<1, 1>>, 2)>>
                     \o [i \in DOMAIN others |-> Whole(others[i])]]

First == <<10, 14, 15, 19>>
Later(e, d) == [i \in DOMAIN e |-> e[i] + d]

\* Two lines; the second one is late, has other stops or other days.
MergeFeeds ==
  {[WithLines(TwoFeeds, <<Line(<<1, 2, 3>>, <<First, Later(First, 3)>>, <<{1, 2}, {2}>>),
                          Line(stops, <<Later(First, late)>>, <<dayss>>)>>)
      EXCEPT !.intra_src = intra, !.inter_src = inter] :
     stops \in {<<1, 2, 3>>, <<7, 2, 3>>, <<4, 5, 6>>, <<2, 3, 1>>}, late \in {-1, 0, 1, 2, 4},
     dayss \in {{1}, {1, 2}, {2, 3}, {3}}, intra \in BOOLEAN, inter \in BOOLEAN}

\* Two lines of one source that do not take the same passengers, or may
\* differ more than others.
AttributeFeeds ==
  {WithLines(TwoFeeds, <<Line(<<1, 2, 3>>, <<First>>, <<{1, 2}>>),
                         [Line(<<1, 2, 3>>, <<Later(First, late)>>, <<{1}>>)
                            EXCEPT !.clasz = clasz, !.flags = flags, !.stops[2].out = out]>>) :
     late \in {0, 1, 2}, clasz \in {"bus", "tram"}, flags \in {{}, {"bike"}}, out \in BOOLEAN}

\* The same transport twice in a line, and in a line that runs elsewhere.
ReflexiveFeeds ==
  {WithLines(TwoFeeds, <<Line(<<1, 2, 3>>, <<First, Later(First, late), Later(First, 5)>>, dayss),
                         Line(<<3, 2, 1>>, <<First>>, <<{1}>>)>>) :
     late \in {0, 1, 2},
     dayss \in {<<{1}, {1, 2}, {3}>>, <<{1, 2}, {2}, {2}>>, <<{1, 2}, {2, 3}, {1}>>, <<{1}, {2}, {3}>>}}

\* The same transport three times.
ThreeFeeds ==
  {WithLines(TwoFeeds, <<Line(<<1, 2, 3>>, <<First, First>>, <<a, b>>),
                         Line(<<4, 5, 6>>, <<First>>, <<c>>)>>) :
     a \in {{1}, {1, 2}}, b \in {{1}, {1, 2}, {1, 3}}, c \in {{1}, {1, 2}, {1, 3}}}

-----------------------------------------------------------------------------
Transfer(type, a, b, t) == [type |-> type, from |-> a, to |-> b, time |-> t]

\* GTFS: a station with a platform and its part, and stations around.
Hierarchy ==
  {[NoRoutes(<<0, 1, 2, 0, 0>>, <<1, 1, 1, 1, 1>>, <<"gtfs">>, <<1000, 1400, 1450, 600, far>>)
      EXCEPT !.names[5] = name, !.names[1] = "a", !.link_stop_distance = within,
             !.transfers = rows, !.adjust_footpaths = adjust] :
     far \in {0, 700, 1900}, name \in {"a", "b"}, within \in {0, 500},
     rows \in {<<>>, <<Transfer("minimum", 4, 1, 3), Transfer("minimum", 1, 4, 6)>>,
               <<Transfer("timed", 5, 4, 4), Transfer("timed", 5, 4, 1), Transfer("minimum", 4, 4, 5),
                 Transfer("not_possible", 5, 5, 9), Transfer("minimum", 1, 5, 18)>>},
     adjust \in BOOLEAN}

\* HRD: stations with tracks, and walks that are given both ways.
Row(a, b, d, equal) == [from |-> a, to |-> b, duration |-> d, f_equal |-> equal]
BothWays(a, b, d) == <<Row(a, b, d, FALSE), Row(b, a, d, TRUE)>>

TrackFeeds ==
  {[NoRoutes(<<0, 0, 0, 1, 1, 2>>, <<1, 1, 1, 1, 1, 1>>, <<"hrd">>, <<1000, 1600, x, 1000, 1000, 1600>>)
      EXCEPT !.generated_tracks = tracks, !.hrd_footpaths = rows, !.hrd_equivalent = {<<1, 2>>, <<2, 1>>},
             !.transfer_time = <<t, 2, 2, t, t, 2>>] :
     x \in {2000, 30000}, tracks \in {{4, 5, 6}, {4, 5}, {}},
     rows \in {<<>>, BothWays(1, 2, 4), BothWays(1, 2, 4) \o BothWays(2, 3, 7),
               BothWays(1, 2, 4) \o BothWays(1, 2, 6) \o BothWays(2, 3, 16),
               BothWays(1, 3, 8) \o BothWays(2, 1, 1)},
     t \in {1, 5}}

\* Two sources next to each other, a dummy and a stop without a place.
MixedFeeds ==
  {[NoRoutes(<<0, 0, 0, 0, 4>>, <<0, 1, 1, 2, 2>>, <<"netex", other[1]>>, <<1000, 1010, x, 1200, other[2]>>)
      EXCEPT !.link_stop_distance = within, !.transfers = other[4], !.generated_tracks = other[3],
             !.adjust_footpaths = adjust] :
     other \in {<<"gtfs", 1260, {}, <<>>>>, <<"gtfs", 1260, {}, <<Transfer("minimum", 5, 4, 6)>>>>,
                <<"hrd", 1200, {5}, <<>>>>},
     x \in {0, 1050, 1450, 1600},
     within \in {0, 450}, adjust \in BOOLEAN}

MCFeeds == MergeFeeds \cup AttributeFeeds \cup ReflexiveFeeds \cup Hierarchy \cup TrackFeeds \cup MixedFeeds
=============================================================================
