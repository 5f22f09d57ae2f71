---------------------------- MODULE MCDispatcher ----------------------------
(* Small instances of Dispatcher for TLC: replies in the owner's DM scope    *)
(* and in the dashboard chat, briefings that speak in both, and a routine.   *)
EXTENDS Dispatcher, TLC

CONSTANTS dm1, chat, briefing1, briefing2, routine

\* Key 1 is the dashboard chat, key 2 the owner's DMs: every event that speaks
\* in two conversations (scheduled.dm, task.delivery) speaks in these.
Speaks ==
  dm1 :> {2} @@ chat :> {1} @@ briefing1 :> {1, 2} @@ briefing2 :> {1, 2}
    @@ routine :> {}
MCWanted == [t \in Task |-> Speaks[t]]

TightPermits == [reactive |-> 1, autonomous |-> 2]
=============================================================================
