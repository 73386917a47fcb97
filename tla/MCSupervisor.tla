---------------------------- MODULE MCSupervisor ----------------------------
(* The engine supervisor with a few identifiers and faults, for TLC. *)
EXTENDS Supervisor

\* On each side one identifier for requests, used again once it is free, and one
\* for operations on a task that the first has opened.
MCHostMethod == [i \in HostReq |-> IF i = "a" THEN {"task", "ping", "listen"} ELSE {"tasks/get"}]
MCChildMethod == [i \in ChildReq |-> IF i = "c" THEN {"task"} ELSE {"tasks/get"}]
=============================================================================
