---------------------------- MODULE MCParetoSet ----------------------------
(***************************************************************************)
(* Journeys that differ in each criterion, found forwards and backwards,   *)
(* and one that takes no time.                                             *)
(***************************************************************************)
EXTENDS ParetoSet

MCJourneys ==
  [start : {0, 1}, dest : {3, 4}, transfers : {0, 1}]
    \cup [start : {4}, dest : {1, 2}, transfers : {1}]
    \cup {[start |-> 2, dest |-> 2, transfers |-> 0]}
=============================================================================
