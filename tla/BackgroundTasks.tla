--------------------------- MODULE BackgroundTasks ---------------------------
(***************************************************************************)
(* The background-task runner (services/background-task/                    *)
(* background-task-runner.ts) with its driver legs, the tools of a leg, the *)
(* routes and the 30-second tick that call it, and the recovery at boot.    *)
(* TaskDelivery brings the results to the owner.                            *)
(*                                                                          *)
(* An action is what runs between two awaits.  `leg` is the driver promise  *)
(* of a task, `closer` the tail of a cancel() or expireForDeadline() that   *)
(* waits for the working directory of a parked task to be removed.          *)
(*                                                                          *)
(* Left out: spend, telemetry, a database write that throws, a daemon       *)
(* without a driver, and the deletion of rows.                              *)
(***************************************************************************)
EXTENDS TaskSlots, TaskDelivery

CONSTANTS
  May,                  \* bound: which of Events can happen to each task
  MaxAsks,              \* bound: clarifications a task asks for
  MaxRestarts,          \* bound: restarts of the daemon
  ResumeAcrossRestart   \* what config.backgroundTaskResumeAcrossRestart may
                        \* be at a boot

Events == {"ask", "cancel", "timeout", "prepare_fails", "throw", "no_init",
           "lose_event"}

ASSUME BackgroundAssumption ==
  /\ May \in [Tasks -> SUBSET Events]
  /\ MaxAsks \in Nat /\ MaxRestarts \in Nat
  /\ Channelless \subseteq Tasks
  /\ Timeline \in SUBSET BOOLEAN \ {{}}
  /\ ResumeAcrossRestart \subseteq BOOLEAN

VARIABLES
  row,            \* background_task.state, "none" before the insert
  session,        \* tasks with a backend_session_id
  asks,           \* clarifications asked, per task
  clarification,  \* the last one: "none", "open", "resolved"
  wanted,         \* tasks whose row has notify = 1
  slots,          \* slotStateRef.state
  live,           \* liveHandles
  parked,         \* parkedHandles
  pendingAborts,
  aborted,        \* the handle's AbortSignal: "no", "cancel", "timeout"
  leg,            \* see Legs
  closer,         \* "none", "cancel", "expire"
  swept,          \* taken off the queues by a tick that has yet to fail them
  booting,        \* what the recovery at boot has yet to do with a task
  cancelled,      \* history: tasks whose run an accepted cancel has to end
  restarts

questionVars == <<session, asks, clarification>>
handleVars == <<live, parked, pendingAborts, aborted>>
tickVars == <<closer, swept, booting, restarts>>
runnerVars == <<row, questionVars, wanted, slots, handleVars, leg, tickVars,
                cancelled>>
backgroundVars == <<runnerVars, deliveryVars>>

Terminal == {"completed", "failed", "timeout", "cancelled"}
NonTerminal == {"pending", "running", "awaiting_user"}

Preparing == {"fresh", "boot", "rebuild"}    \* started by runDriverFromPending,
                                             \* resumeFromBoot, an answer
Streaming == {"start", "resume", "stream"}   \* a query before its init message,
                                             \* a resuming one, either after it
Closing == {"closing", "reporting", "fallback"}  \* and then nothing, the
                                             \* delivery, a new dispatch
Legs == {"none", "threw"} \cup Preparing \cup Streaming \cup Closing

RunnerTypeOK ==
  /\ row \in [Tasks -> Terminal \cup NonTerminal \cup {"none"}]
  /\ asks \in [Tasks -> 0..MaxAsks]
  /\ clarification \in [Tasks -> {"none", "open", "resolved"}]
  /\ session \subseteq Tasks /\ wanted \subseteq Tasks
  /\ slots \in SlotState
  /\ live \subseteq Tasks /\ parked \subseteq Tasks /\ pendingAborts \subseteq Tasks
  /\ aborted \in [Tasks -> {"no", "cancel", "timeout"}]
  /\ leg \in [Tasks -> Legs]
  /\ closer \in [Tasks -> {"none", "cancel", "expire"}]
  /\ booting \in [Tasks -> {"no", "resume", "redispatch"}]
  /\ swept \subseteq Tasks /\ cancelled \subseteq Tasks
  /\ restarts \in 0..MaxRestarts

BackgroundTypeOK == RunnerTypeOK /\ DeliveryTypeOK(Tasks)

BackgroundInit ==
  /\ row = [t \in Tasks |-> "none"]
  /\ asks = [t \in Tasks |-> 0]
  /\ clarification = [t \in Tasks |-> "none"]
  /\ session = {} /\ wanted = {}
  /\ slots = createInitialSlotState
  /\ live = {} /\ parked = {} /\ pendingAborts = {}
  /\ aborted = [t \in Tasks |-> "no"]
  /\ leg = [t \in Tasks |-> "none"]
  /\ closer = [t \in Tasks |-> "none"]
  /\ booting = [t \in Tasks |-> "no"]
  /\ swept = {} /\ cancelled = {}
  /\ restarts = 0
  /\ DeliveryInit(Tasks)

-----------------------------------------------------------------------------
\* markTerminal: a compare-and-set that misses a terminal row.
\* Mutation: no look at the state it replaces.
MarkAnyway(t, state) == [row EXCEPT ![t] = state]

MarkTerminal(t, state) ==
  IF row[t] \in NonTerminal THEN [row EXCEPT ![t] = state] ELSE row

\* The fail-loud ends write notify = 1 with the state, and enqueue the delivery
\* when the compare-and-set hit.
FailLoud(t) == IF row[t] \in NonTerminal THEN wanted \cup {t} ELSE wanted

\* releaseAndPromote and emitReleaseEffects: the promoted row is CASed to
\* running and its driver started, in the same step.  The miss of that CAS is
\* not modelled: SlotsRespected excludes it.
PromotedRows(t, rows) ==
  [u \in Tasks |-> IF u = Promoted(slots, t) /\ rows[u] = "pending"
                   THEN "running" ELSE rows[u]]
PromotedLegs(t, legs) ==
  [u \in Tasks |-> IF u = Promoted(slots, t) THEN "fresh" ELSE legs[u]]

\* Mutation: the slot is freed and nobody promoted.
ReleaseOnly(t, rows, legs) ==
  /\ slots' = Freed(slots, t)
  /\ row' = rows
  /\ leg' = legs

ReleaseAndPromote(t, rows, legs) ==
  /\ slots' = decideRelease(slots, t)
  /\ row' = PromotedRows(t, rows)
  /\ leg' = PromotedLegs(t, legs)

\* resetSingleForBootRedispatch: pending, with the session and the question of
\* the lost run forgotten.
\* Mutation: the question stays open.
StillAsking(t) == clarification

QuestionDropped(t) ==
  IF clarification[t] = "open" THEN [clarification EXCEPT ![t] = "resolved"]
  ELSE clarification

\* redispatchFromBrief on the slots s: the reset, then runOnce acquires a slot,
\* queues the task, or does nothing when the slot manager knows it already.
Redispatch(t, s, rows, legs) ==
  IF rows[t] \in Terminal
  THEN /\ slots' = s /\ row' = rows /\ leg' = legs
       /\ UNCHANGED <<session, clarification>>
  ELSE LET starts == ~knowsTask(s, t) /\ Promotes(s, t) IN
       /\ session' = session \ {t}
       /\ clarification' = QuestionDropped(t)
       /\ slots' = IF knowsTask(s, t) THEN s ELSE decideAcquire(s, t)
       /\ row' = [rows EXCEPT ![t] = IF starts THEN "running" ELSE "pending"]
       /\ leg' = IF starts THEN [legs EXCEPT ![t] = "fresh"] ELSE legs

\* ... after a release.
ReleaseAndRedispatch(t) ==
  Redispatch(t, decideRelease(slots, t), PromotedRows(t, row),
             PromotedLegs(t, [leg EXCEPT ![t] = "none"]))

-----------------------------------------------------------------------------
\* POST /background-task, or scheduled.background_task whose row does not exist
\* yet: the insert, then runOnce.
Submit(t) ==
  /\ row[t] = "none"
  /\ slots' = decideAcquire(slots, t)
  /\ row' = [row EXCEPT ![t] =
               IF Promotes(slots, t) THEN "running" ELSE "pending"]
  /\ leg' = [leg EXCEPT ![t] = IF Promotes(slots, t) THEN "fresh" ELSE "none"]
  /\ UNCHANGED <<questionVars, wanted, handleVars, tickVars, cancelled>>

\* prepareDriverHandle returned a handle to runDriverFromPending or to
\* resumeFromBoot: an abort left by a cancel meanwhile is forwarded to it.
\* Mutation: the abort is not forwarded.
PreparedDeaf(t) ==
  /\ leg[t] \in {"fresh", "boot"}
  /\ leg' = [leg EXCEPT ![t] = IF @ = "fresh" THEN "start" ELSE "resume"]
  /\ live' = live \cup {t}
  /\ UNCHANGED <<row, questionVars, wanted, slots, parked, pendingAborts,
                 aborted, tickVars, cancelled>>

Prepared(t) ==
  /\ leg[t] \in {"fresh", "boot"}
  /\ leg' = [leg EXCEPT ![t] = IF @ = "fresh" THEN "start" ELSE "resume"]
  /\ live' = live \cup {t}
  /\ pendingAborts' = pendingAborts \ {t}
  /\ aborted' = [aborted EXCEPT ![t] =
                   IF t \in pendingAborts THEN "cancel" ELSE "no"]
  /\ UNCHANGED <<row, questionVars, wanted, slots, parked, tickVars,
                 cancelled>>

\* ... returned { ok: false }.  resumeFromBoot leaves the stashed abort behind.
PrepareFails(t) ==
  /\ "prepare_fails" \in May[t]
  /\ leg[t] \in {"fresh", "boot"}
  /\ pendingAborts' = IF leg[t] = "fresh" THEN pendingAborts \ {t}
                                          ELSE pendingAborts
  /\ wanted' = FailLoud(t)
  /\ EnqueueIf(row[t] \in NonTerminal, t)
  /\ cancelled' = cancelled \ {t}
  /\ ReleaseAndPromote(t, MarkTerminal(t, "failed"), [leg EXCEPT ![t] = "none"])
  /\ UNCHANGED <<questionVars, live, parked, aborted, tickVars>>

\* ... or threw (mkdir, writeFile): whoever started the run logs it.
PrepareThrows(t) ==
  /\ "throw" \in May[t]
  /\ leg[t] \in Preparing
  /\ leg' = [leg EXCEPT ![t] = "threw"]
  /\ UNCHANGED <<row, questionVars, wanted, slots, handleVars, tickVars,
                 cancelled>>

-----------------------------------------------------------------------------
\* The init message of a query: setBackendSessionId.
SessionOpens(t) ==
  /\ leg[t] \in {"start", "resume"}
  /\ leg' = [leg EXCEPT ![t] = "stream"]
  /\ session' = session \cup {t}
  /\ UNCHANGED <<row, asks, clarification, wanted, slots, handleVars,
                 tickVars, cancelled>>

\* The ask_user tool: the running -> awaiting_user CAS, then the insert.
AskUser(t) ==
  /\ "ask" \in May[t]
  /\ leg[t] = "stream"
  /\ row[t] = "running"
  /\ asks[t] < MaxAsks
  /\ row' = [row EXCEPT ![t] = "awaiting_user"]
  /\ asks' = [asks EXCEPT ![t] = @ + 1]
  /\ clarification' = [clarification EXCEPT ![t] = "open"]
  /\ UNCHANGED <<session, wanted, slots, handleVars, leg, tickVars, cancelled>>

\* The finish tool, with the worker's word on whether the owner is told.
Finish(t) ==
  /\ leg[t] = "stream"
  /\ row[t] \in NonTerminal
  /\ row' = MarkTerminal(t, "completed")
  /\ \E notify \in BOOLEAN :
       wanted' = IF notify THEN wanted \cup {t} ELSE wanted \ {t}
  /\ UNCHANGED <<questionVars, slots, handleVars, leg, tickVars, cancelled>>

\* The timer of runQuery.
ExecuteTimeout(t) ==
  /\ "timeout" \in May[t]
  /\ leg[t] \in Streaming
  /\ aborted[t] = "no"
  /\ aborted' = [aborted EXCEPT ![t] = "timeout"]
  /\ UNCHANGED <<row, questionVars, wanted, slots, live, parked,
                 pendingAborts, leg, tickVars, cancelled>>

\* What runQuery makes of the end of a stream: an abort first (a query that
\* throws on it is a cancel), then a limit, the finished row, an error, or
\* neither a finish nor a question.
Outcomes(t) ==
  CASE aborted[t] = "cancel" -> {"cancelled"}
    [] aborted[t] = "timeout" -> {"timeout", "cancelled"}
    [] aborted[t] = "no" -> IF row[t] = "completed" THEN {"completed", "failed"}
                                                    ELSE {"failed"}

\* reconcileDriverOutcome up to the await of releaseDriverHandle: the row, and
\* with a fail-loud end its artifact; the handle is dropped, the slot held.
LegEnds(t) ==
  /\ leg[t] \in Streaming
  /\ leg[t] = "resume" => aborted[t] # "no"
  /\ \E outcome \in Outcomes(t) :
       LET loud == outcome \in {"failed", "timeout"}
           told == \/ loud /\ row[t] \in NonTerminal
                   \/ outcome = "completed" /\ t \in wanted
       IN
       /\ row' = MarkTerminal(t, outcome)
       /\ wanted' = IF loud THEN FailLoud(t) ELSE wanted
       /\ leg' = [leg EXCEPT ![t] = IF told THEN "reporting" ELSE "closing"]
  /\ live' = live \ {t}
  /\ parked' = parked \ {t}
  /\ pendingAborts' = pendingAborts \ {t}
  /\ UNCHANGED <<questionVars, slots, aborted, tickVars, cancelled>>

\* The handle is garbage: its signal, and the history of its cancel, go with it.
DropHandle(t) ==
  /\ aborted' = [aborted EXCEPT ![t] = "no"]
  /\ cancelled' = cancelled \ {t}

LegClosed(t) ==
  /\ leg[t] \in {"closing", "reporting"}
  /\ DropHandle(t)
  /\ EnqueueIf(leg[t] = "reporting", t)
  /\ ReleaseAndPromote(t, row, [leg EXCEPT ![t] = "none"])
  /\ UNCHANGED <<questionVars, wanted, live, parked, pendingAborts, tickVars>>

\* A resuming query that ends without its init message: resume_unavailable.
\* Mutation: it is resumed again, as often as it takes.
ResumeAgain(t) ==
  /\ "no_init" \in May[t]
  /\ leg[t] = "resume" /\ aborted[t] = "no"
  /\ leg' = [leg EXCEPT ![t] = "boot"]
  /\ live' = live \ {t}
  /\ UNCHANGED <<row, questionVars, wanted, slots, parked, pendingAborts,
                 aborted, tickVars, cancelled>>

ResumeUnavailable(t) ==
  /\ "no_init" \in May[t]
  /\ leg[t] = "resume" /\ aborted[t] = "no"
  /\ leg' = [leg EXCEPT ![t] = "fallback"]
  /\ live' = live \ {t}
  /\ parked' = parked \ {t}
  /\ pendingAborts' = pendingAborts \ {t}
  /\ UNCHANGED <<row, questionVars, wanted, slots, aborted, tickVars,
                 cancelled>>

\* ... and from there to a cold run.
FallbackClosed(t) ==
  /\ leg[t] = "fallback"
  /\ ReleaseAndRedispatch(t)
  /\ UNCHANGED <<asks, wanted, handleVars, tickVars, cancelled>>

\* The stream ends while the row waits for the owner: slot and handle are kept.
LegParks(t) ==
  /\ leg[t] = "stream"
  /\ aborted[t] = "no"
  /\ row[t] = "awaiting_user"
  /\ leg' = [leg EXCEPT ![t] = "none"]
  /\ parked' = parked \cup {t}
  /\ live' = live \ {t}
  /\ UNCHANGED <<row, questionVars, wanted, slots, pendingAborts, aborted,
                 tickVars, cancelled>>

-----------------------------------------------------------------------------
Answerable(t) == row[t] = "awaiting_user" /\ clarification[t] = "open"

\* POST /:id/clarify and resumeAfterClarification, with a parked handle ...
ClarifyParked(t) ==
  /\ Answerable(t) /\ t \in parked
  /\ clarification' = [clarification EXCEPT ![t] = "resolved"]
  /\ row' = [row EXCEPT ![t] = "running"]
  /\ parked' = parked \ {t}
  /\ live' = live \cup {t}
  /\ leg' = [leg EXCEPT ![t] = "resume"]
  /\ UNCHANGED <<session, asks, wanted, slots, pendingAborts, aborted,
                 tickVars, cancelled>>

Rebuildable(t) == t \in session /\ ~knowsTask(slots, t) /\ Promotes(slots, t)

\* ... after a restart, with a session and a slot: the handle is rebuilt while
\* the row still waits for the owner ...
ClarifyRebuild(t) ==
  /\ Answerable(t) /\ t \notin parked
  /\ Rebuildable(t)
  /\ clarification' = [clarification EXCEPT ![t] = "resolved"]
  /\ slots' = decideAcquire(slots, t)
  /\ leg' = [leg EXCEPT ![t] = "rebuild"]
  /\ UNCHANGED <<row, session, asks, wanted, handleVars, tickVars, cancelled>>

Rebuilt(t) ==
  /\ leg[t] = "rebuild"
  /\ leg' = [leg EXCEPT ![t] = "resume"]
  /\ live' = live \cup {t}
  /\ row' = IF row[t] = "awaiting_user" THEN [row EXCEPT ![t] = "running"] ELSE row
  /\ aborted' = [aborted EXCEPT ![t] = "no"]
  /\ UNCHANGED <<questionVars, wanted, slots, parked, pendingAborts, tickVars,
                 cancelled>>

RebuildFails(t) ==
  /\ "prepare_fails" \in May[t]
  /\ leg[t] = "rebuild"
  /\ ReleaseAndRedispatch(t)
  /\ UNCHANGED <<asks, wanted, handleVars, tickVars, cancelled>>

\* ... and otherwise: after a restart without a free slot, before the leg that
\* asked has parked, or while the parked handle is being dropped.
ClarifyRedispatch(t) ==
  /\ Answerable(t) /\ t \notin parked
  /\ ~Rebuildable(t)
  /\ Redispatch(t, slots, row, leg)
  /\ UNCHANGED <<asks, wanted, handleVars, tickVars, cancelled>>

\* cancel(), of a queued task ...
CancelQueued(t) ==
  /\ "cancel" \in May[t]
  /\ row[t] = "pending" /\ t \notin live \cup parked
  /\ slots' = decideCancel(slots, t)
  /\ row' = MarkTerminal(t, "cancelled")
  /\ UNCHANGED <<questionVars, wanted, handleVars, leg, tickVars, cancelled>>

\* ... of one whose leg runs (the first abort of a signal is the one it keeps) ...
CancelLive(t) ==
  /\ "cancel" \in May[t]
  /\ row[t] \in NonTerminal
  /\ t \in live
  /\ aborted' = [aborted EXCEPT ![t] = IF @ = "no" THEN "cancel" ELSE @]
  /\ cancelled' = cancelled \cup {t}
  /\ UNCHANGED <<row, questionVars, wanted, slots, live, parked,
                 pendingAborts, leg, tickVars>>

\* ... of one in preparation, or between two runs ...
CancelPreparing(t) ==
  /\ "cancel" \in May[t]
  /\ row[t] = "running"
  /\ t \notin live \cup parked
  /\ pendingAborts' = pendingAborts \cup {t}
  /\ cancelled' = cancelled \cup {t}
  /\ UNCHANGED <<row, questionVars, wanted, slots, live, parked, aborted, leg,
                 tickVars>>

\* ... and of a parked one.  (A row that waits for the owner without a handle is
\* answered `true` and left as it is.)
CancelParked(t) ==
  /\ "cancel" \in May[t]
  /\ row[t] \in NonTerminal
  /\ t \in parked
  /\ aborted' = [aborted EXCEPT ![t] = "cancel"]
  /\ parked' = parked \ {t}
  /\ closer' = [closer EXCEPT ![t] = "cancel"]
  /\ cancelled' = cancelled \cup {t}
  /\ UNCHANGED <<row, questionVars, wanted, slots, live, pendingAborts, leg,
                 swept, booting, restarts>>

-----------------------------------------------------------------------------
\* The tick finds the clarification overdue: expireClarification, then
\* expireForDeadline with a parked handle, with a live one, with none.
Overdue(t) == clarification[t] = "open" /\ row[t] \in NonTerminal

\* Mutation: the clarification is closed and its task left to another tick.
ExpireQuestionOnly(t) ==
  /\ Overdue(t) /\ t \in parked
  /\ clarification' = [clarification EXCEPT ![t] = "resolved"]
  /\ UNCHANGED <<row, session, asks, wanted, slots, handleVars, leg, tickVars,
                 cancelled>>

ExpireParked(t) ==
  /\ Overdue(t) /\ t \in parked
  /\ clarification' = [clarification EXCEPT ![t] = "resolved"]
  /\ aborted' = [aborted EXCEPT ![t] = "cancel"]
  /\ parked' = parked \ {t}
  /\ closer' = [closer EXCEPT ![t] = "expire"]
  /\ UNCHANGED <<row, session, asks, wanted, slots, live, pendingAborts, leg,
                 swept, booting, cancelled, restarts>>

ExpireLive(t) ==
  /\ Overdue(t) /\ t \in live
  /\ clarification' = [clarification EXCEPT ![t] = "resolved"]
  /\ aborted' = [aborted EXCEPT ![t] = IF @ = "no" THEN "cancel" ELSE @]
  /\ row' = MarkTerminal(t, "timeout")
  /\ wanted' = FailLoud(t)
  /\ EnqueueIf(row[t] \in NonTerminal, t)
  /\ pendingAborts' = pendingAborts \ {t}
  /\ UNCHANGED <<session, asks, slots, live, parked, leg, tickVars, cancelled>>

ExpireUntracked(t) ==
  /\ Overdue(t) /\ t \notin live \cup parked
  /\ clarification' = [clarification EXCEPT ![t] = "resolved"]
  /\ wanted' = FailLoud(t)
  /\ EnqueueIf(row[t] \in NonTerminal, t)
  /\ pendingAborts' = pendingAborts \ {t}
  /\ ReleaseAndPromote(t, MarkTerminal(t, "timeout"), leg)
  /\ UNCHANGED <<session, asks, live, parked, aborted, tickVars, cancelled>>

\* The directory is gone: the tail of cancel() or of expireForDeadline().
CloserEnds(t) ==
  /\ closer[t] # "none"
  /\ closer' = [closer EXCEPT ![t] = "none"]
  /\ pendingAborts' = pendingAborts \ {t}
  /\ wanted' = IF closer[t] = "expire" THEN FailLoud(t) ELSE wanted
  /\ EnqueueIf(closer[t] = "expire" /\ row[t] \in NonTerminal, t)
  /\ ReleaseAndPromote(
       t, MarkTerminal(t, IF closer[t] = "cancel" THEN "cancelled"
                                                  ELSE "timeout"), leg)
  /\ DropHandle(t)
  /\ UNCHANGED <<questionVars, live, parked, swept, booting, restarts>>

\* sweepPendingTimeouts takes the overdue entries off both queues; the tick then
\* fails their rows one after the other, awaiting each.
SweepQueued(t) ==
  /\ t \in Elements(slots.globalQueue)
  /\ slots' = decideCancel(slots, t)
  /\ swept' = swept \cup {t}
  /\ UNCHANGED <<row, questionVars, wanted, handleVars, leg, closer, booting,
                 cancelled, restarts>>

FailSwept(t) ==
  /\ t \in swept
  /\ swept' = swept \ {t}
  /\ wanted' = FailLoud(t)
  /\ EnqueueIf(row[t] \in NonTerminal, t)
  /\ IF row[t] \in NonTerminal
     THEN /\ pendingAborts' = pendingAborts \ {t}
          /\ ReleaseAndPromote(t, MarkTerminal(t, "timeout"), leg)
     ELSE UNCHANGED <<row, slots, leg, pendingAborts>>
  /\ UNCHANGED <<questionVars, live, parked, aborted, closer, booting,
                 cancelled, restarts>>

-----------------------------------------------------------------------------
\* The daemon dies and boots.  With the setting on, running rows with a session
\* are resumed, rows that wait for the owner are left, the others dispatched
\* again; with the setting off, every one of them.
Restart ==
  /\ restarts < MaxRestarts
  /\ restarts' = restarts + 1
  /\ \E resume \in ResumeAcrossRestart :
       booting' = [t \in Tasks |->
         CASE row[t] \notin NonTerminal -> "no"
           [] row[t] = "running" /\ resume /\ t \in session -> "resume"
           [] row[t] = "awaiting_user" /\ resume /\ t \in session -> "no"
           [] OTHER -> "redispatch"]
  /\ slots' = createInitialSlotState
  /\ live' = {} /\ parked' = {} /\ pendingAborts' = {}
  /\ aborted' = [t \in Tasks |-> "no"]
  /\ leg' = [t \in Tasks |-> "none"]
  /\ closer' = [t \in Tasks |-> "none"]
  /\ swept' = {} /\ cancelled' = {}
  /\ UNCHANGED <<row, questionVars, wanted>>
  /\ DeliveryLost

\* resumeFromBoot, called for one row after the other in a loop without awaits.
BootResume(t) ==
  /\ booting[t] = "resume"
  /\ booting' = [booting EXCEPT ![t] = "no"]
  /\ IF Promotes(slots, t)
     THEN /\ slots' = decideAcquire(slots, t)
          /\ leg' = [leg EXCEPT ![t] = "boot"]
          /\ UNCHANGED <<row, session, clarification>>
     ELSE Redispatch(t, slots, row, leg)
  /\ UNCHANGED <<asks, wanted, handleVars, closer, swept, cancelled, restarts>>

BootRedispatch(t) ==
  /\ booting[t] = "redispatch"
  /\ \A u \in Tasks : booting[u] # "resume"
  /\ booting' = [booting EXCEPT ![t] = "no"]
  /\ Redispatch(t, slots, row, leg)
  /\ UNCHANGED <<asks, wanted, handleVars, closer, swept, cancelled, restarts>>

Booted == \A t \in Tasks : booting[t] = "no"

-----------------------------------------------------------------------------
\* enqueueUndeliveredBackgroundTaskDeliveries, at boot and every 30 seconds.
RecoverDelivery(t) ==
  /\ row[t] = "completed" /\ t \in wanted /\ t \notin delivered
  /\ t \notin queued
  /\ queued' = queued \cup {t}
  /\ UNCHANGED outVars

\* The steps that leave the bus alone, and the ones that may put an event.
SilentLegStep(t) ==
  \/ Prepared(t) \/ PrepareThrows(t) \/ SessionOpens(t)
  \/ LegEnds(t) \/ LegParks(t) \/ ResumeUnavailable(t) \/ FallbackClosed(t)
  \/ Rebuilt(t) \/ RebuildFails(t)
ToolStep(t) == AskUser(t) \/ Finish(t) \/ ExecuteTimeout(t)
UserStep(t) == \/ Submit(t) \/ ClarifyParked(t) \/ ClarifyRebuild(t)
               \/ ClarifyRedispatch(t) \/ CancelQueued(t) \/ CancelLive(t)
               \/ CancelPreparing(t) \/ CancelParked(t)
BootStep(t) == BootResume(t) \/ BootRedispatch(t)
TellingStep(t) ==
  \/ PrepareFails(t) \/ LegClosed(t) \/ CloserEnds(t)
  \/ ExpireLive(t) \/ ExpireUntracked(t) \/ FailSwept(t)

\* What goes on in the runner without anybody asking.
RunnerProgress(t) ==
  \/ /\ SilentLegStep(t) \/ ExpireParked(t) \/ SweepQueued(t) \/ BootStep(t)
     /\ UNCHANGED deliveryVars
  \/ TellingStep(t) /\ UNCHANGED outVars

\* What the handler does once it has begun, turn and draft.
Delivers(t) == \/ TurnSends(t) \/ TurnTags(t) \/ TurnDelivers(t) \/ TurnFails(t)
               \/ DraftSends(t) \/ DraftDelivers(t)

DeliveryStep(t) ==
  /\ \/ RecoverDelivery(t) \/ SkipDelivery(t) \/ DeferDelivery(t) \/ Deliver(t)
     \/ Delivers(t)
     \/ "lose_event" \in May[t] /\ LoseEvent(t)
  /\ UNCHANGED runnerVars

\* The loop of the recovery at boot has no await in it.
BackgroundNext ==
  \/ \E t \in Tasks :
       \/ BootStep(t) /\ UNCHANGED deliveryVars
       \/ Booted /\ (RunnerProgress(t) \/ DeliveryStep(t))
       \/ Booted /\ (ToolStep(t) \/ UserStep(t)) /\ UNCHANGED deliveryVars
  \/ Restart

\* Legs end (their timer aborts them), directories are removed, the tick comes
\* back every 30 seconds, quiet hours end, and turns and sends come to an end.
BackgroundFairness ==
  \A t \in Tasks :
    /\ WF_backgroundVars(RunnerProgress(t))
    /\ WF_backgroundVars(RecoverDelivery(t) /\ UNCHANGED runnerVars)
    /\ WF_backgroundVars(Delivers(t) /\ UNCHANGED runnerVars)
    /\ SF_backgroundVars((SkipDelivery(t) \/ Deliver(t)) /\ UNCHANGED runnerVars)

BackgroundSpec ==
  BackgroundInit /\ [][BackgroundNext]_backgroundVars /\ BackgroundFairness
-----------------------------------------------------------------------------
\* The slot manager, with a site of its own per task, under every order of
\* submissions, ends, answers, sweeps and recoveries; and what waits in its
\* queues is pending, so that a promotion is always driven.
SlotsRespected ==
  /\ CapRespected(slots) /\ QueuesAgree(slots) /\ WorkConserving(slots)
  /\ \A t \in Elements(slots.globalQueue) : row[t] = "pending"

\* The row a crash in the middle of a rebuild leaves behind: the question is
\* answered, the answer was in the memory of the dead daemon only, and boot
\* leaves the row to an owner who cannot answer, or cancel, any more.
Stranded(t) ==
  /\ row[t] = "awaiting_user" /\ clarification[t] # "open"
  /\ leg[t] = "none" /\ closer[t] = "none" /\ t \notin parked

\* A slot is held by something that will give it back.
SlotHasOwner(t) ==
  HasActive(slots, t) => leg[t] # "none" \/ t \in parked \/ closer[t] # "none"

\* Every row that has not ended has somebody to move it, whatever stage an
\* answer, a cancel, a deadline, a failure or a restart hit: a pending one its
\* place in the queue, the tick that took it off, or (answered before its leg
\* had parked, or during the close of its handle) the end of that leg or close;
\* a running one its driver; one that waits for the owner an open question.  And
\* no slot stays behind.
NobodyForgotten ==
  \A t \in Tasks :
    /\ row[t] = "pending" =>
         \/ t \in Elements(slots.globalQueue) \cup swept \cup live
         \/ closer[t] # "none" \/ booting[t] # "no"
    /\ row[t] = "running" => leg[t] # "none" \/ booting[t] # "no"
    /\ row[t] = "awaiting_user" =>
         \/ clarification[t] = "open" \/ leg[t] # "none" \/ closer[t] # "none"
         \/ booting[t] # "no" \/ (Stranded(t) /\ restarts > 0)
    /\ SlotHasOwner(t)

\* An open question belongs to a run that waits for its answer.  Left open by a
\* reset it would make the tick expire the next run of the task.
QuestionsBelong ==
  \A t \in Tasks :
    clarification[t] = "open" => row[t] \notin {"none", "pending", "running"}

\* A cancel that was accepted for a run reaches it, also when the run is being
\* prepared, resumed at boot, or about to be dispatched again.
CancelReachesRun ==
  \A t \in cancelled :
    /\ leg[t] \in Streaming => aborted[t] # "no"
    /\ leg[t] \in {"fresh", "boot"} => t \in pendingAborts

\* finish, cancel, the deadlines, the end of a leg and the recovery at boot all
\* write the row: the first end stays.
FirstEndStays ==
  [][\A t \in Tasks : row[t] \in Terminal => row'[t] = row[t]]_backgroundVars

\* A submitted task ends, unless its preparation threw or a crash stranded it.
TaskEnds ==
  \A t \in Tasks :
    row[t] \in NonTerminal
      ~> (row[t] \in Terminal \/ Stranded(t) \/ leg[t] = "threw")

\* A finished result the worker wants the owner to have is sent: lost events,
\* turns that fail, quiet hours, a cancel on top of it and a crash at any point
\* are made up for by the recovery sweep.  (That the message then arrives is not
\* the handler's to know.)
ResultsAreSent ==
  \A t \in Tasks :
    (row[t] = "completed" /\ t \in wanted) ~> Told(t)

\* "Leaving `delivered_at` NULL lets the boot/periodic recovery sweep re-deliver
\* once the window lifts" (dispatcher-task-delivery.ts:407-409), for whatever the
\* owner is to be told, the fail-loud ends included.
OwnerHears == \A t \in Tasks : t \in wanted ~> Told(t)
=============================================================================
