----------------------------- MODULE DayService -----------------------------
(***************************************************************************)
(* What the real-time timetable promises of each run, a transport on a     *)
(* day, whatever the feeds send:                                           *)
(*   "none"         the static timetable does not have the run;            *)
(*   "static"       it runs as planned;                                    *)
(*   "cancelled"    a feed cancelled it, it has no real-time data;         *)
(*   "realtime"     an RT transport serves it instead of the static one;   *)
(*   "rt_cancelled" its RT transport is flagged cancelled.                 *)
(* A step concerns a single run: updating a run leaves the other days of   *)
(* its transport and the transports that share its bitfield as they are.   *)
(* Once real-time data has touched a run, it never goes back to the plan.  *)
(***************************************************************************)
CONSTANTS Runs, Scheduled   \* Scheduled: the runs of the static timetable

VARIABLE service

Init == service = [x \in Runs |-> IF x \in Scheduled THEN "static" ELSE "none"]

\* An update or a position: the run gets its RT transport.
TakeOver(x) ==
  /\ service[x] \in {"static", "cancelled"}
  /\ \E s \in {"realtime", "rt_cancelled"} : service' = [service EXCEPT ![x] = s]

\* A later update or cancellation of a run that has an RT transport.
SetCancelled(x) ==
  /\ service[x] \in {"realtime", "rt_cancelled"}
  /\ \E s \in {"realtime", "rt_cancelled"} : service' = [service EXCEPT ![x] = s]

\* A cancellation of a run without an RT transport.
Cancel(x) ==
  /\ service[x] = "static"
  /\ service' = [service EXCEPT ![x] = "cancelled"]

Next == \E x \in Runs : TakeOver(x) \/ SetCancelled(x) \/ Cancel(x)

Spec == Init /\ [][Next]_service

=============================================================================
