------------------------------- MODULE MCRaptor -------------------------------
EXTENDS Raptor, Networks

\* To all stops, from one of them or from two that are not at the same place.
ToAll(m, d, starts, t, duration) ==
  one_to_all(m, d, [start |-> starts, start_match_mode |-> "exact", start_time |-> t, td_dest |-> [l \in L |-> <<>>],
                    claszes |-> {"bus"}, flags |-> {}, wheelchair |-> FALSE, td |-> TRUE, transfer |-> Default,
                    max_transfers |-> 2, max_travel_time |-> duration])
OneToAllSearches ==
  {ToAll(m, d, {[target |-> 1, duration |-> 0], [target |-> l, duration |-> 2]}, t, duration) :
     m \in BasicNetworks \cup TdNetworks, d \in {1, -1}, l \in {1, 3}, t \in {1, 6, 26}, duration \in {4, 7, 24}}

MCSearches ==
  BasicSearches \cup ViaSearches \cup IntermodalSearches \cup TdSearches \cup FilterSearches
    \cup OffsetSearches \cup FarSearches \cup OneToAllSearches
===============================================================================
