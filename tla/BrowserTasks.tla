---------------------------- MODULE BrowserTasks ----------------------------
(***************************************************************************)
(* The browser-task runner (services/browser-task/browser-task-runner.ts),  *)
(* the driver legs it runs, the tools of a leg that write the row, the      *)
(* routes and the 30-second tick that call it, and the boot sweep.          *)
(*                                                                          *)
(* An action is what runs between two awaits.  The driver promise of a task *)
(* is its `leg`; the tail of a cancel() or an expireForDeadline() that      *)
(* waits for a parked Chromium to close is its `closer`.                    *)
(*                                                                          *)
(* Left out: spend, notifications, telemetry, a database write that throws, *)
(* a daemon without a driver, the follow-up message of a cancelled token.   *)
(***************************************************************************)
EXTENDS TaskSlots

CONSTANTS
  May,          \* bound: which of Events can happen to each task
  MaxAsks,      \* bound: clarifications a task asks for
  MaxRestarts   \* bound: restarts of the daemon

Events == {"ask", "confirm", "cancel", "timeout", "prepare_fails", "throw"}

ASSUME BrowserAssumption ==
  /\ May \in [Tasks -> SUBSET Events]
  /\ MaxAsks \in Nat /\ MaxRestarts \in Nat

VARIABLES
  row,            \* browser_task.state, "none" before the insert
  asks,           \* clarifications asked, per task
  clarification,  \* the last one: "none", "open", "resolved", "expired"
  slots,          \* slotStateRef.state
  live,           \* liveHandles
  parked,         \* parkedHandles
  pendingAborts,
  aborted,        \* the handle's AbortSignal: "no", "cancel", "timeout"
  leg,            \* the driver promise: "none", "preparing", "streaming",
                  \* "closing", or "threw" when the preparation threw
  closer,         \* "none", "cancel", "expire"
  swept,          \* taken off the queues by a tick that has yet to fail them
  gate,           \* tasks whose final-confirm gate waits for its token
  chromium,       \* tasks whose Chromium runs
  cancelled,      \* history: tasks whose run an accepted cancel has to end
  restarts

rowVars == <<row, asks, clarification>>
handleVars == <<live, parked, pendingAborts, aborted>>
browserVars == <<rowVars, slots, handleVars, leg, closer, swept, gate,
                 chromium, cancelled, restarts>>

Terminal == {"completed", "failed", "timeout", "cancelled", "abandoned"}
NonTerminal == {"pending", "running", "awaiting_user", "final_confirm"}

BrowserTypeOK ==
  /\ row \in [Tasks -> Terminal \cup NonTerminal \cup {"none"}]
  /\ asks \in [Tasks -> 0..MaxAsks]
  /\ clarification \in [Tasks -> {"none", "open", "resolved", "expired"}]
  /\ slots \in SlotState
  /\ live \subseteq Tasks /\ parked \subseteq Tasks
  /\ pendingAborts \subseteq Tasks
  /\ aborted \in [Tasks -> {"no", "cancel", "timeout"}]
  /\ leg \in [Tasks -> {"none", "preparing", "streaming", "closing", "threw"}]
  /\ closer \in [Tasks -> {"none", "cancel", "expire"}]
  /\ swept \subseteq Tasks /\ gate \subseteq Tasks /\ chromium \subseteq Tasks
  /\ cancelled \subseteq Tasks
  /\ restarts \in 0..MaxRestarts

BrowserInit ==
  /\ row = [t \in Tasks |-> "none"]
  /\ asks = [t \in Tasks |-> 0]
  /\ clarification = [t \in Tasks |-> "none"]
  /\ slots = createInitialSlotState
  /\ live = {} /\ parked = {} /\ pendingAborts = {}
  /\ aborted = [t \in Tasks |-> "no"]
  /\ leg = [t \in Tasks |-> "none"]
  /\ closer = [t \in Tasks |-> "none"]
  /\ swept = {} /\ gate = {} /\ chromium = {}
  /\ cancelled = {}
  /\ restarts = 0

-----------------------------------------------------------------------------
\* markTerminal: a compare-and-set that misses a terminal row.
\* Mutation: no look at the state it replaces.
MarkAnyway(t, state) == [row EXCEPT ![t] = state]

MarkTerminal(t, state) ==
  IF row[t] \in NonTerminal THEN [row EXCEPT ![t] = state] ELSE row

\* releaseAndPromote and emitReleaseEffects after the rows became `rows`: the
\* promoted row is CASed to running and its driver started, in the same step.
\* The miss of that CAS is not modelled: QueuedIsPending excludes it.
\* Mutation: the promoted task is not driven.
ReleaseOnly(t, rows, legs) ==
  /\ slots' = decideRelease(slots, t)
  /\ row' = rows
  /\ leg' = legs

ReleaseAndPromote(t, rows, legs) ==
  LET p == Promoted(slots, t) IN
  /\ slots' = decideRelease(slots, t)
  /\ row' = [u \in Tasks |-> IF u = p /\ rows[u] = "pending"
                             THEN "running" ELSE rows[u]]
  /\ leg' = [u \in Tasks |-> IF u = p THEN "preparing" ELSE legs[u]]

\* POST /browser-task, or scheduled.browser_task whose row does not exist yet:
\* the insert, then runOnce.
Submit(t) ==
  /\ row[t] = "none"
  /\ slots' = decideAcquire(slots, t)
  /\ row' = [row EXCEPT ![t] =
               IF Promotes(slots, t) THEN "running" ELSE "pending"]
  /\ leg' = [leg EXCEPT ![t] =
               IF Promotes(slots, t) THEN "preparing" ELSE "none"]
  /\ UNCHANGED <<asks, clarification, handleVars, closer, swept, gate,
                 chromium, cancelled, restarts>>

\* runDriverFromPending when prepareDriverHandle returns a handle: an abort
\* left by a cancel during the preparation is forwarded to it.
\* Mutation: the abort is not forwarded.
PreparedDeaf(t) ==
  /\ leg[t] = "preparing"
  /\ leg' = [leg EXCEPT ![t] = "streaming"]
  /\ live' = live \cup {t}
  /\ chromium' = chromium \cup {t}
  /\ UNCHANGED <<rowVars, slots, parked, pendingAborts, aborted, closer, swept,
                 gate, cancelled, restarts>>

Prepared(t) ==
  /\ leg[t] = "preparing"
  /\ leg' = [leg EXCEPT ![t] = "streaming"]
  /\ live' = live \cup {t}
  /\ chromium' = chromium \cup {t}
  /\ pendingAborts' = pendingAborts \ {t}
  /\ aborted' = [aborted EXCEPT ![t] =
                   IF t \in pendingAborts THEN "cancel" ELSE "no"]
  /\ UNCHANGED <<rowVars, slots, parked, closer, swept, gate, cancelled,
                 restarts>>

\* ... when it returns { ok: false } ...
PrepareFails(t) ==
  /\ "prepare_fails" \in May[t]
  /\ leg[t] = "preparing"
  /\ pendingAborts' = pendingAborts \ {t}
  /\ cancelled' = cancelled \ {t}
  /\ ReleaseAndPromote(t, MarkTerminal(t, "failed"), [leg EXCEPT ![t] = "none"])
  /\ UNCHANGED <<asks, clarification, live, parked, aborted, closer, swept,
                 gate, chromium, restarts>>

\* ... and when it throws, before or after Chromium was acquired (newPage,
\* mkdir): the rejection is logged by whoever started the run.
PrepareThrows(t) ==
  /\ "throw" \in May[t]
  /\ leg[t] = "preparing"
  /\ leg' = [leg EXCEPT ![t] = "threw"]
  /\ \E opened \in BOOLEAN :
       chromium' = IF opened THEN chromium \cup {t} ELSE chromium
  /\ UNCHANGED <<rowVars, slots, handleVars, closer, swept, gate, cancelled,
                 restarts>>

-----------------------------------------------------------------------------
\* The ask_user tool: the running -> awaiting_user CAS, then the insert.
AskUser(t) ==
  /\ "ask" \in May[t]
  /\ leg[t] = "streaming"
  /\ row[t] = "running"
  /\ asks[t] < MaxAsks
  /\ row' = [row EXCEPT ![t] = "awaiting_user"]
  /\ asks' = [asks EXCEPT ![t] = @ + 1]
  /\ clarification' = [clarification EXCEPT ![t] = "open"]
  /\ UNCHANGED <<slots, handleVars, leg, closer, swept, gate, chromium,
                 cancelled, restarts>>

\* The finish tool.
Finish(t) ==
  /\ leg[t] = "streaming"
  /\ row[t] \in NonTerminal
  /\ row' = MarkTerminal(t, "completed")
  /\ UNCHANGED <<asks, clarification, slots, handleVars, leg, closer, swept,
                 gate, chromium, cancelled, restarts>>

\* tripFinalConfirmGate: the running -> final_confirm CAS, then the wait for
\* the token (a reply, its expiry, the abort of the leg), then resumeRunning.
\* The wait outlives the leg.
OpenGate(t) ==
  /\ "confirm" \in May[t]
  /\ leg[t] = "streaming"
  /\ row[t] = "running"
  /\ row' = [row EXCEPT ![t] = "final_confirm"]
  /\ gate' = gate \cup {t}
  /\ UNCHANGED <<asks, clarification, slots, handleVars, leg, closer, swept,
                 chromium, cancelled, restarts>>

GateReturns(t) ==
  /\ t \in gate
  /\ gate' = gate \ {t}
  /\ row' = IF row[t] \in {"awaiting_user", "final_confirm"}
            THEN [row EXCEPT ![t] = "running"] ELSE row
  /\ UNCHANGED <<asks, clarification, slots, handleVars, leg, closer, swept,
                 chromium, cancelled, restarts>>

\* The five-minute timer of runQuery.
ExecuteTimeout(t) ==
  /\ "timeout" \in May[t]
  /\ leg[t] = "streaming"
  /\ aborted[t] = "no"
  /\ aborted' = [aborted EXCEPT ![t] = "timeout"]
  /\ UNCHANGED <<rowVars, slots, live, parked, pendingAborts, leg, closer,
                 swept, gate, chromium, cancelled, restarts>>

\* The stream of a leg ends and runQuery names a terminal outcome: an abort
\* first (a query that throws on it is a cancel), otherwise a limit, an error,
\* or neither a finish nor a yield.  reconcileDriverOutcome writes the row and
\* drops the handle, then waits for Chromium to close with the slot held.
Outcomes(t) ==
  CASE aborted[t] = "no" -> {"failed"}
    [] aborted[t] = "cancel" -> {"cancelled"}
    [] aborted[t] = "timeout" -> {"timeout", "cancelled"}

LegEnds(t) ==
  /\ leg[t] = "streaming"
  /\ \E outcome \in Outcomes(t) : row' = MarkTerminal(t, outcome)
  /\ leg' = [leg EXCEPT ![t] = "closing"]
  /\ live' = live \ {t}
  /\ parked' = parked \ {t}
  /\ pendingAborts' = pendingAborts \ {t}
  /\ UNCHANGED <<asks, clarification, slots, aborted, closer, swept, gate,
                 chromium, cancelled, restarts>>

\* The handle is garbage: its signal, and the history of its cancel, go with it.
DropHandle(t) ==
  /\ aborted' = [aborted EXCEPT ![t] = "no"]
  /\ cancelled' = cancelled \ {t}

LegClosed(t) ==
  /\ leg[t] = "closing"
  /\ chromium' = chromium \ {t}
  /\ DropHandle(t)
  /\ ReleaseAndPromote(t, row, [leg EXCEPT ![t] = "none"])
  /\ UNCHANGED <<asks, clarification, live, parked, pendingAborts, closer,
                 swept, gate, restarts>>

\* The stream ends without an abort while the row waits for the user: after
\* ask_user and a yield, or with the gate open.  Chromium and the slot are kept.
LegParks(t) ==
  /\ leg[t] = "streaming"
  /\ aborted[t] = "no"
  /\ row[t] \in {"awaiting_user", "final_confirm"}
  /\ leg' = [leg EXCEPT ![t] = "none"]
  /\ parked' = parked \cup {t}
  /\ live' = live \ {t}
  /\ UNCHANGED <<rowVars, slots, pendingAborts, aborted, closer, swept, gate,
                 chromium, cancelled, restarts>>

-----------------------------------------------------------------------------
\* POST /:id/clarify and resumeAfterClarification, with a parked handle ...
Resume(t) ==
  /\ row[t] = "awaiting_user" /\ clarification[t] = "open"
  /\ t \in parked
  /\ clarification' = [clarification EXCEPT ![t] = "resolved"]
  /\ row' = [row EXCEPT ![t] = "running"]
  /\ parked' = parked \ {t}
  /\ live' = live \cup {t}
  /\ leg' = [leg EXCEPT ![t] = "streaming"]
  /\ UNCHANGED <<asks, slots, pendingAborts, aborted, closer, swept, gate,
                 chromium, cancelled, restarts>>

\* ... and without one: before the leg that asked has parked, or while the
\* parked Chromium is being closed.
ResumeUnparked(t) ==
  /\ row[t] = "awaiting_user" /\ clarification[t] = "open"
  /\ t \notin parked
  /\ clarification' = [clarification EXCEPT ![t] = "resolved"]
  /\ ReleaseAndPromote(t, MarkTerminal(t, "failed"), leg)
  /\ UNCHANGED <<asks, handleVars, closer, swept, gate, chromium, cancelled,
                 restarts>>

\* cancel(), from POST /:id/cancel or from !stop.  A queued task ...
CancelQueued(t) ==
  /\ "cancel" \in May[t]
  /\ row[t] = "pending" /\ ~HasActive(slots, t)
  /\ slots' = decideCancel(slots, t)
  /\ row' = MarkTerminal(t, "cancelled")
  /\ UNCHANGED <<asks, clarification, handleVars, leg, closer, swept, gate,
                 chromium, cancelled, restarts>>

\* ... one whose leg runs (the first abort of a signal is the one it keeps) ...
CancelLive(t) ==
  /\ "cancel" \in May[t]
  /\ row[t] \in NonTerminal
  /\ t \in live
  /\ aborted' = [aborted EXCEPT ![t] = IF @ = "no" THEN "cancel" ELSE @]
  /\ cancelled' = cancelled \cup {t}
  /\ UNCHANGED <<rowVars, slots, live, parked, pendingAborts, leg, closer,
                 swept, gate, chromium, restarts>>

\* ... one in preparation (or whose preparation threw) ...
CancelPreparing(t) ==
  /\ "cancel" \in May[t]
  /\ row[t] = "running"
  /\ t \notin live \cup parked
  /\ pendingAborts' = pendingAborts \cup {t}
  /\ cancelled' = cancelled \cup {t}
  /\ UNCHANGED <<rowVars, slots, live, parked, aborted, leg, closer, swept,
                 gate, chromium, restarts>>

\* ... and a parked one, whose Chromium closes before the row is written.  The
\* await of cancelPendingForTask before it is left out, here and in
\* ExpireParked: a task parked on a question has no token to cancel, so only
\* microtasks pass.  With a gate left open, all that could find the handle still
\* parked meanwhile is a second cancel, which would do the same once more.
CancelParked(t) ==
  /\ "cancel" \in May[t]
  /\ row[t] \in NonTerminal
  /\ t \in parked
  /\ aborted' = [aborted EXCEPT ![t] = "cancel"]
  /\ parked' = parked \ {t}
  /\ closer' = [closer EXCEPT ![t] = "cancel"]
  /\ cancelled' = cancelled \cup {t}
  /\ UNCHANGED <<rowVars, slots, live, pendingAborts, leg, swept, gate,
                 chromium, restarts>>

-----------------------------------------------------------------------------
\* The tick finds the clarification overdue: expireClarification, then
\* expireForDeadline with a parked handle, with a live one, with none.
Overdue(t) == clarification[t] = "open" /\ row[t] \in NonTerminal

\* Mutation: the row is abandoned and its Chromium forgotten.
ExpireRowOnly(t) ==
  /\ Overdue(t) /\ t \in parked
  /\ clarification' = [clarification EXCEPT ![t] = "expired"]
  /\ parked' = parked \ {t}
  /\ ReleaseAndPromote(t, MarkTerminal(t, "abandoned"), leg)
  /\ UNCHANGED <<asks, live, pendingAborts, aborted, closer, swept, gate,
                 chromium, cancelled, restarts>>

ExpireParked(t) ==
  /\ Overdue(t) /\ t \in parked
  /\ clarification' = [clarification EXCEPT ![t] = "expired"]
  /\ aborted' = [aborted EXCEPT ![t] = "cancel"]
  /\ parked' = parked \ {t}
  /\ closer' = [closer EXCEPT ![t] = "expire"]
  /\ UNCHANGED <<row, asks, slots, live, pendingAborts, leg, swept, gate,
                 chromium, cancelled, restarts>>

ExpireLive(t) ==
  /\ Overdue(t) /\ t \in live
  /\ clarification' = [clarification EXCEPT ![t] = "expired"]
  /\ aborted' = [aborted EXCEPT ![t] = IF @ = "no" THEN "cancel" ELSE @]
  /\ row' = MarkTerminal(t, "abandoned")
  /\ pendingAborts' = pendingAborts \ {t}
  /\ UNCHANGED <<asks, slots, live, parked, leg, closer, swept, gate, chromium,
                 cancelled, restarts>>

ExpireUntracked(t) ==
  /\ Overdue(t) /\ t \notin live \cup parked
  /\ clarification' = [clarification EXCEPT ![t] = "expired"]
  /\ pendingAborts' = pendingAborts \ {t}
  /\ ReleaseAndPromote(t, MarkTerminal(t, "abandoned"), leg)
  /\ UNCHANGED <<asks, live, parked, aborted, closer, swept, gate, chromium,
                 cancelled, restarts>>

\* The parked Chromium has closed: the tail of cancel() or expireForDeadline().
CloserEnds(t) ==
  /\ closer[t] # "none"
  /\ closer' = [closer EXCEPT ![t] = "none"]
  /\ chromium' = chromium \ {t}
  /\ pendingAborts' = pendingAborts \ {t}
  /\ ReleaseAndPromote(
       t, MarkTerminal(t, IF closer[t] = "cancel" THEN "cancelled"
                                                  ELSE "abandoned"), leg)
  /\ DropHandle(t)
  /\ UNCHANGED <<asks, clarification, live, parked, swept, gate, restarts>>

\* sweepPendingTimeouts takes an entry off both queues; the tick then awaits
\* the delivery sweep and the actions before it, and fails the row.
SweepQueued(t) ==
  /\ t \in Elements(slots.globalQueue)
  /\ slots' = decideCancel(slots, t)
  /\ swept' = swept \cup {t}
  /\ UNCHANGED <<rowVars, handleVars, leg, closer, gate, chromium, cancelled,
                 restarts>>

FailSwept(t) ==
  /\ t \in swept
  /\ swept' = swept \ {t}
  /\ row' = MarkTerminal(t, "failed")
  /\ slots' = decideRelease(slots, t)
  /\ UNCHANGED <<asks, clarification, handleVars, leg, closer, gate, chromium,
                 cancelled, restarts>>

\* The daemon dies and boots: sweepNonTerminalRowsForBootRecovery.
Restart ==
  /\ restarts < MaxRestarts
  /\ restarts' = restarts + 1
  /\ row' = [t \in Tasks |-> IF row[t] \in NonTerminal THEN "failed" ELSE row[t]]
  /\ slots' = createInitialSlotState
  /\ live' = {} /\ parked' = {} /\ pendingAborts' = {}
  /\ aborted' = [t \in Tasks |-> "no"]
  /\ leg' = [t \in Tasks |-> "none"]
  /\ closer' = [t \in Tasks |-> "none"]
  /\ swept' = {} /\ gate' = {} /\ chromium' = {}
  /\ cancelled' = {}
  /\ UNCHANGED <<asks, clarification>>

-----------------------------------------------------------------------------
\* What the driver promise of a task does by itself.
LegStep(t) == \/ Prepared(t) \/ PrepareFails(t) \/ PrepareThrows(t)
              \/ LegEnds(t) \/ LegParks(t) \/ LegClosed(t)
ToolStep(t) == AskUser(t) \/ Finish(t) \/ OpenGate(t) \/ ExecuteTimeout(t)
UserStep(t) == \/ Submit(t) \/ Resume(t) \/ ResumeUnparked(t)
               \/ CancelQueued(t) \/ CancelLive(t) \/ CancelPreparing(t)
               \/ CancelParked(t)
ExpireStep(t) == ExpireParked(t) \/ ExpireLive(t) \/ ExpireUntracked(t)

TaskStep(t) == \/ LegStep(t) \/ ToolStep(t) \/ UserStep(t) \/ ExpireStep(t)
               \/ GateReturns(t) \/ CloserEnds(t)
               \/ SweepQueued(t) \/ FailSwept(t)

BrowserNext == (\E t \in Tasks : TaskStep(t)) \/ Restart

\* What happens to a task without anybody asking: a leg ends (its timer aborts
\* it), a closing Chromium closes, and the tick comes back every 30 seconds.
Progress(t) == \/ LegStep(t) \/ CloserEnds(t) \/ ExpireStep(t)
               \/ SweepQueued(t) \/ FailSwept(t)

BrowserFairness == \A t \in Tasks : WF_browserVars(Progress(t))

BrowserSpec == BrowserInit /\ [][BrowserNext]_browserVars /\ BrowserFairness
-----------------------------------------------------------------------------
\* What waits in the queues is pending, so that a promotion is always driven
\* (the CAS of emitReleaseEffects hits); and what is pending waits there, or
\* is about to be failed by the tick that took it off.
QueuedIsPending ==
  \A t \in Tasks :
    /\ t \in Elements(slots.globalQueue) => row[t] = "pending"
    /\ row[t] = "pending" => t \in Elements(slots.globalQueue) \cup swept

\* The slot manager under every order of submissions, closes, cancels, sweeps
\* and promotions: the cap holds though a promotion never looks at it, no task
\* waits while its site is free and the cap has room, and the queues agree with
\* each other and with the table.
SlotsRespected ==
  /\ CapRespected(slots) /\ QueuesAgree(slots) /\ WorkConserving(slots)
  /\ QueuedIsPending

\* A slot is held by something that will give it back: a driver promise, a
\* parked Chromium or the tail of the call that closes one.  The preparation
\* that threw is the exception.
SlotHasOwner ==
  \A t \in Tasks :
    HasActive(slots, t) =>
      leg[t] # "none" \/ t \in parked \/ closer[t] # "none"

\* No Chromium is left behind: whatever ended its task, it is streamed to,
\* parked, or being closed.
ChromiumHasOwner ==
  \A t \in chromium :
    leg[t] \in {"streaming", "closing", "threw"} \/ t \in parked
      \/ closer[t] # "none"

\* A task parked for an answer can still get one, or be expired: its
\* clarification is open.  Otherwise nothing but a cancel would end it.
ParkedIsAnswerable ==
  \A t \in parked : row[t] = "awaiting_user" => clarification[t] = "open"

\* Whatever ends a leg, a preparation, a question or a gate: no slot and no
\* Chromium stays held by nobody, no parked task waits for a closed question.
NothingLeftBehind == SlotHasOwner /\ ChromiumHasOwner /\ ParkedIsAnswerable

\* A cancel that was accepted reaches the run, wherever the run was: the leg
\* is aborted, and one still in preparation is aborted as soon as it starts.
CancelReachesRun ==
  \A t \in cancelled :
    /\ leg[t] = "streaming" => aborted[t] # "no"
    /\ leg[t] = "preparing" => t \in pendingAborts

\* finish, cancel, the deadline, the end of the leg and the boot sweep all
\* write terminal states: the first one stays.
FirstEndStays ==
  [][\A t \in Tasks : row[t] \in Terminal => row'[t] = row[t]]_browserVars

\* The handle parked while its gate still waited: nothing resumes it and no
\* deadline covers it, it ends by a cancel only.
Stranded(t) == t \in parked /\ row[t] \in {"final_confirm", "running"}

\* A submitted task ends, unless its preparation threw or its gate stranded it.
TaskEnds ==
  \A t \in Tasks :
    row[t] \in NonTerminal
      ~> (row[t] \in Terminal \/ Stranded(t) \/ leg[t] = "threw")
=============================================================================
