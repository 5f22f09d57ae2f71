--------------------------- MODULE ScheduleWatcher ---------------------------
(***************************************************************************)
(* The life of the rows of the agent_schedule table: inserted by users,     *)
(* agents and recurring schedules, claimed by the ScheduleWatcher loop      *)
(* (core/scheduler.ts), carried as events to the dispatcher, where a gate   *)
(* releases them or a session runs and settles them, and recovered at boot  *)
(* after a crash lost everything that was in memory.                        *)
(*                                                                          *)
(* SQLite calls are synchronous, so a stretch of code between two awaits is *)
(* one step.  Time is a counter; a day has DayLength instants.              *)
(***************************************************************************)
EXTENDS Integers, FiniteSets, FiniteSetsExt

CONSTANTS
  Row,          \* ids of the table
  Recurring,    \* recurring schedules, each of daily or finer cadence
  None,         \* no recurring schedule
  Kind,         \* kinds of one-shot rows this instance inserts
  Batch,        \* LIMIT of the watcher's SELECT
  DayLength,    \* instants of an agent day
  Cadence,      \* distance between the occurrences of a recurrence rule
  Quiet,        \* instants of the day inside quiet hours
  MaxDelay,     \* maxBriefingDelayMinutes
  Disturbance,  \* what the environment of this instance may do
  MaxTime, MaxText, MaxCrashes \* bounds: clock, edits of one text, crashes

AllKinds == {"dm", "dm_session", "task", "deferrable", "approval"}

Disturbances ==
  {"gate",       \* setup, !stop or a degraded vault close the autonomous gate
   "cap",        \* the daily cost cap, or no viable backend, skips an event
   "overflow",   \* the event bus evicts or drops a scheduled event
   "gatedBoot",  \* the daemon may boot while the autonomous gate is closed
   "patch",      \* PATCH /schedule/:id
   "rule",       \* edits of recurring schedules
   "throw"}      \* the handling of a claimed row throws before its hand-over

ASSUME ScheduleAssumption ==
  /\ None \notin Recurring
  /\ IsFiniteSet(Row) /\ IsFiniteSet(Recurring)
  /\ Kind \subseteq AllKinds
  /\ Batch \in Nat \ {0} /\ DayLength \in Nat \ {0} /\ Cadence \in Nat \ {0}
  /\ MaxDelay \in Nat /\ MaxTime \in Nat /\ MaxText \in Nat /\ MaxCrashes \in Nat
  /\ Quiet \subseteq 0..(DayLength - 1) /\ Quiet # 0..(DayLength - 1)
  /\ Disturbance \subseteq Disturbances

VARIABLES
  row,      \* the table: [status, kind, at, text, rule]
  on,       \* recurring_schedules.enabled
  text,     \* version of the rule and prompt of each recurring schedule
  now,      \* the clock
  open,     \* autonomousGate() returns null
  up,       \* the daemon runs
  todo,     \* snapshots of the SELECT the watcher has still to handle
  sending,  \* the snapshot whose direct DM is awaited, if any
  events,   \* events minted from claimed rows: [id, kind, text, copy, stage]
  begun,    \* history: how often each row's DM or session was begun
  crashes   \* history: number of crashes

table == <<row, on, text>>
memory == <<todo, sending, events>>
vars == <<row, on, text, now, open, up, todo, sending, events, begun, crashes>>

Status == {"absent", "pending", "running", "completed", "failed", "skipped"}
Settled == {"completed", "failed", "skipped"}
Time == 0..(MaxTime + DayLength + Cadence)
RowRecord == [status : Status, kind : AllKinds \cup {"approved_task"}, at : Time,
              text : 0..MaxText, rule : Recurring \cup {None}]
Snapshot == [id : Row, kind : AllKinds \cup {"approved_task"}, at : Time, text : 0..MaxText]

\* "queued": on the bus or waiting for an autonomous permit; "probing":
\* awaiting the spawn gate; "gated": a dm_session waiting for the owner's
\* conversation; "session": the agent runs.
Stage == {"queued", "probing", "gated", "session"}
Event == [id : Row, kind : AllKinds \cup {"approved_task"}, text : 0..MaxText,
          copy : Nat, stage : Stage]

WatcherTypeOK ==
  /\ row \in [Row -> RowRecord]
  /\ on \in [Recurring -> BOOLEAN]
  /\ text \in [Recurring -> 0..MaxText]
  /\ now \in 0..MaxTime
  /\ open \in BOOLEAN
  /\ up \in BOOLEAN
  /\ todo \in SUBSET Snapshot
  /\ sending \in SUBSET Snapshot
  /\ events \in SUBSET Event
  /\ begun \in [Row -> Nat]
  /\ crashes \in 0..MaxCrashes

Init ==
  /\ row = [r \in Row |-> [status |-> "absent", kind |-> "task", at |-> 0,
                           text |-> 0, rule |-> None]]
  /\ on = [q \in Recurring |-> TRUE]
  /\ text = [q \in Recurring |-> 0]
  /\ now = 0
  /\ open = TRUE
  /\ up = TRUE
  /\ todo = {} /\ sending = {} /\ events = {}
  /\ begun = [r \in Row |-> 0]
  /\ crashes = 0

-----------------------------------------------------------------------------
(* The table.                                                               *)

Absent == {r \in Row : row[r].status = "absent"}
Pending(r) == row[r].status = "pending"
Running(r) == row[r].status = "running"
Active(r) == Pending(r) \/ Running(r)

NewRow(kind, at, version, rule) ==
  [status |-> "pending", kind |-> kind, at |-> at, text |-> version, rule |-> rule]

\* UPDATE agent_schedule SET status = s WHERE id IN R
Marked(table0, R, s) ==
  [r \in Row |-> IF r \in R THEN [table0[r] EXCEPT !.status = s] ELSE table0[r]]

\* UPDATE ... SET status = s WHERE id = r AND status = 'running'
SettleIfRunning(r, s) ==
  row' = IF Running(r) THEN [row EXCEPT ![r].status = s] ELSE row

DayStart == (now \div DayLength) * DayLength
Stale == {r \in Row : Pending(r) /\ row[r].at < DayStart}
Due(table0) == {r \in Row : table0[r].status = "pending" /\ table0[r].at <= now}

\* Mutation: occurrences counted in days instead of instants.
NextOccurrenceInDays == (now + 1) * Cadence * DayLength * DayLength

\* computeNextOccurrence: strictly after now.
NextOccurrence == (now \div Cadence + 1) * Cadence

InQuietHours == now % DayLength \in Quiet
\* Mutation: the deferred row is due again at once.
QuietEndNow == now

QuietEnd == Min({t \in Time : t > now /\ t % DayLength \notin Quiet})

\* POST /schedule*, approvals of the wiki: DMs and approvals are never past.
Insert(r, kind, at) ==
  /\ r \in Absent
  /\ kind \in Kind
  /\ at \in now..MaxTime
  /\ kind = "approval" => at = now
  /\ row' = [row EXCEPT ![r] = NewRow(kind, at, 0, None)]
  /\ UNCHANGED <<on, text, now, open, up, memory, begun, crashes>>

\* PATCH /schedule/:id: pending rows only; the text, the time, or both.
Patch(r, at) ==
  /\ "patch" \in Disturbance
  /\ Pending(r) /\ row[r].rule = None
  /\ row[r].text < MaxText
  /\ at \in now..MaxTime
  /\ row' = [row EXCEPT ![r].text = @ + 1, ![r].at = at]
  /\ UNCHANGED <<on, text, now, open, up, memory, begun, crashes>>

\* DELETE /schedule/:id, and POST /approvals/:id/deny for an approval.
Cancel(r) ==
  /\ Pending(r)
  /\ row' = [row EXCEPT ![r].status = "skipped"]
  /\ UNCHANGED <<on, text, now, open, up, memory, begun, crashes>>

\* POST /approvals/:id/approve
Approve(r) ==
  /\ Pending(r) /\ row[r].kind = "approval"
  /\ row' = [row EXCEPT ![r].kind = "approved_task"]
  /\ UNCHANGED <<on, text, now, open, up, memory, begun, crashes>>

\* Mutation: the cancellation of a superseded row reaches running ones.
ActiveOf(q) == {r \in Row : Active(r) /\ row[r].rule = q}

PendingOf(q) == {r \in Row : Pending(r) /\ row[r].rule = q}

\* updateRecurringSchedule with a new rule or a new `enabled`: the pending
\* materialisation is cancelled and, if the schedule is on, made anew.
UpdateRule(q, enabled) ==
  /\ "rule" \in Disturbance
  /\ text[q] < MaxText
  /\ text' = [text EXCEPT ![q] = @ + 1]
  /\ on' = [on EXCEPT ![q] = enabled]
  /\ LET cancelled == Marked(row, PendingOf(q), "skipped")
     IN IF enabled
        THEN \E r \in Absent :
               row' = [cancelled EXCEPT ![r] = NewRow("task", NextOccurrence, text[q] + 1, q)]
        ELSE row' = cancelled
  /\ UNCHANGED <<now, open, up, memory, begun, crashes>>

\* updateRecurringSchedule with a new prompt only: patched in place.
UpdatePrompt(q) ==
  /\ "rule" \in Disturbance
  /\ text[q] < MaxText
  /\ text' = [text EXCEPT ![q] = @ + 1]
  /\ row' = [r \in Row |-> IF r \in PendingOf(q)
                           THEN [row[r] EXCEPT !.text = text[q] + 1] ELSE row[r]]
  /\ UNCHANGED <<on, now, open, up, memory, begun, crashes>>

-----------------------------------------------------------------------------
(* The watcher.                                                             *)

SnapshotOf(table0, r) ==
  [id |-> r, kind |-> table0[r].kind, at |-> table0[r].at, text |-> table0[r].text]

\* Mutations: only pending rows count as active; any row, also a settled one.
IdleIgnoringRunning(table0) ==
  {q \in Recurring : on[q] /\ \A r \in Row :
                       table0[r].rule = q => table0[r].status # "pending"}
IdleOnce(table0) ==
  {q \in Recurring : on[q] /\ \A r \in Row : table0[r].rule # q}

\* Enabled recurring schedules without an active row.
Idle(table0) ==
  {q \in Recurring : on[q] /\ \A r \in Row :
                       table0[r].rule = q => table0[r].status \notin {"pending", "running"}}

\* Fresh ids for the schedules of Q, as far as this instance has ids left.
FreshIds(Q) ==
  {f \in UNION {[P -> Absent] : P \in SUBSET Q} :
     /\ \A q1, q2 \in DOMAIN f : f[q1] = f[q2] => q1 = q2
     /\ DOMAIN f = Q \/ \A r \in Absent : \E q \in DOMAIN f : f[q] = r}

\* reconcileRecurringSchedules, with the ids the new rows get.

Reconciled(table0, f) ==
  [r \in Row |-> IF \E q \in DOMAIN f : f[q] = r
                 THEN LET q == CHOOSE q \in DOMAIN f : f[q] = r
                      IN NewRow("task", NextOccurrence, text[q], q)
                 ELSE table0[r]]

\* ORDER BY scheduled_for ASC LIMIT Batch
IsOldest(R, table0) ==
  /\ R \subseteq Due(table0)
  /\ Cardinality(R) = Min({Batch, Cardinality(Due(table0))})
  /\ \A r \in R, s \in Due(table0) \ R : table0[r].at <= table0[s].at

\* The top of the loop, up to the first claim.
Poll ==
  /\ up /\ todo = {} /\ sending = {}
  /\ LET kept == Marked(row, Stale, "skipped") IN
       IF ~open
       THEN row' = kept /\ UNCHANGED todo
       ELSE /\ \E f \in FreshIds(Idle(kept)) : row' = Reconciled(kept, f)
            /\ \E R \in SUBSET Due(row') :
                 IsOldest(R, row') /\ todo' = {SnapshotOf(row', r) : r \in R}
  /\ UNCHANGED <<on, text, now, open, up, sending, events, begun, crashes>>

\* The for loop takes the snapshots in the order of the SELECT, one at a time.
Handles(s) ==
  /\ up /\ sending = {}
  /\ s \in todo /\ \A other \in todo : s.at <= other.at
  /\ todo' = todo \ {s}

\* result.changes === 0
ClaimLost(s) ==
  /\ Handles(s)
  /\ ~Pending(s.id)
  /\ UNCHANGED <<table, now, open, up, sending, events, begun, crashes>>

\* Mutation: the claim is not conditional on the row being pending still.
ClaimsUnlocked(s) == Handles(s)

Claims(s) == Handles(s) /\ Pending(s.id)

ClaimDm(s) ==
  /\ Claims(s) /\ s.kind = "dm"
  /\ row' = [row EXCEPT ![s.id].status = "running"]
  /\ sending' = {s}
  /\ begun' = [begun EXCEPT ![s.id] = @ + 1]
  /\ UNCHANGED <<on, text, now, open, up, events, crashes>>

\* deferClaimedRowForQuietHours: claimed and put back in the same stretch.
ClaimDeferred(s) ==
  /\ Claims(s) /\ s.kind = "deferrable" /\ InQuietHours
  /\ row' = [row EXCEPT ![s.id].at = QuietEnd]
  /\ UNCHANGED <<on, text, now, open, up, sending, events, begun, crashes>>

NextCopy(r) == 1 + Cardinality({e \in events : e.id = r})

ClaimForSession(s) ==
  /\ Claims(s) /\ s.kind # "dm"
  /\ ~(s.kind = "deferrable" /\ InQuietHours)
  /\ row' = [row EXCEPT ![s.id].status = "running"]
  /\ events' = events \cup {[id |-> s.id, kind |-> s.kind, text |-> s.text,
                             copy |-> NextCopy(s.id), stage |-> "queued"]}
  /\ UNCHANGED <<on, text, now, open, up, sending, begun, crashes>>

\* The catch of the per-row try.
ClaimThrows(s) ==
  /\ "throw" \in Disturbance
  /\ Claims(s) /\ s.kind # "dm"
  /\ row' = [row EXCEPT ![s.id].status = "failed"]
  /\ UNCHANGED <<on, text, now, open, up, sending, events, begun, crashes>>

\* The end of handleDirectDm: the UPDATE is by id alone.
DmDone(s, outcome) ==
  /\ up /\ s \in sending
  /\ outcome \in {"completed", "failed"}
  /\ sending' = {}
  /\ row' = [row EXCEPT ![s.id].status = outcome]
  /\ UNCHANGED <<on, text, now, open, up, todo, events, begun, crashes>>

Watcher ==
  \/ Poll
  \/ \E s \in todo : \/ ClaimLost(s) \/ ClaimDm(s) \/ ClaimDeferred(s)
                     \/ ClaimForSession(s) \/ ClaimThrows(s)
  \/ \E s \in sending, o \in {"completed", "failed"} : DmDone(s, o)

-----------------------------------------------------------------------------
(* The dispatcher.                                                          *)

Enter(e, stage) == events' = (events \ {e}) \cup {[e EXCEPT !.stage = stage]}

\* Mutation: a gate skips the event without giving the row back.
ReleaseSilently(e) ==
  /\ events' = events \ {e}
  /\ UNCHANGED <<row, begun>>

\* releaseClaimedSchedule
Release(e) ==
  /\ events' = events \ {e}
  /\ SettleIfRunning(e.id, "pending")
  /\ UNCHANGED begun

BeginSession(e) ==
  /\ Enter(e, "session")
  /\ begun' = [begun EXCEPT ![e.id] = @ + 1]
  /\ UNCHANGED row

\* EventBus.put on a full heap: the event is lost, its row stays claimed.
BusLoses(e) ==
  /\ "overflow" \in Disturbance
  /\ e \in events /\ e.stage = "queued"
  /\ events' = events \ {e}
  /\ UNCHANGED <<table, now, open, up, todo, sending, begun, crashes>>

\* dispatchSafe up to the await of the spawn gate.
CheckGates(e) ==
  /\ e \in events /\ e.stage = "queued"
  /\ \/ ~open /\ Release(e)
     \/ open /\ "cap" \in Disturbance /\ Release(e)
     \/ open /\ Enter(e, "probing") /\ UNCHANGED <<row, begun>>
  /\ UNCHANGED <<on, text, now, open, up, todo, sending, crashes>>

\* The spawn gate has answered: no viable backend, or go ahead.
CheckSpawn(e) ==
  /\ e \in events /\ e.stage = "probing"
  /\ \/ "cap" \in Disturbance /\ Release(e)
     \/ e.kind = "dm_session" /\ Enter(e, "gated") /\ UNCHANGED <<row, begun>>
     \/ e.kind # "dm_session" /\ BeginSession(e)
  /\ UNCHANGED <<on, text, now, open, up, todo, sending, crashes>>

\* Inside the session gates: the max-wait check, then the session.
PassSessionGates(e) ==
  /\ e \in events /\ e.stage = "gated"
  /\ IF now - row[e.id].at > MaxDelay
     THEN /\ SettleIfRunning(e.id, "skipped")
          /\ events' = events \ {e}
          /\ UNCHANGED begun
     ELSE BeginSession(e)
  /\ UNCHANGED <<on, text, now, open, up, todo, sending, crashes>>

\* processResult, or handleError when the session threw.
SessionDone(e, outcome) ==
  /\ e \in events /\ e.stage = "session"
  /\ outcome \in {"completed", "failed"}
  /\ SettleIfRunning(e.id, outcome)
  /\ events' = events \ {e}
  /\ UNCHANGED <<on, text, now, open, up, todo, sending, begun, crashes>>

DispatchStep ==
  \E e \in events : \/ CheckGates(e) \/ CheckSpawn(e) \/ PassSessionGates(e)
                    \/ SessionDone(e, "completed") \/ SessionDone(e, "failed")

-----------------------------------------------------------------------------
(* The environment.                                                         *)

Tick ==
  /\ now < MaxTime
  /\ now' = now + 1
  /\ UNCHANGED <<table, open, up, memory, begun, crashes>>

SetGate ==
  /\ "gate" \in Disturbance
  /\ open' = ~open
  /\ UNCHANGED <<table, now, up, memory, begun, crashes>>

\* The process ends, whether it was killed or stopped: only the table is left.
Crash ==
  /\ up /\ crashes < MaxCrashes
  /\ up' = FALSE
  /\ crashes' = crashes + 1
  /\ todo' = {} /\ sending' = {} /\ events' = {}
  /\ UNCHANGED <<table, now, open, begun>>

\* Mutations: orphans are queued again; orphans are not looked at.
BootReplaying ==
  /\ ~up /\ open
  /\ up' = TRUE
  /\ row' = Marked(row, {r \in Row : Running(r)}, "pending")
  /\ UNCHANGED <<on, text, now, open, memory, begun, crashes>>
BootOnly ==
  /\ ~up /\ open
  /\ up' = TRUE
  /\ UNCHANGED <<table, now, open, memory, begun, crashes>>

\* runCatchup, then scheduler.start(): orphans are recovered unless the
\* autonomous gate is closed at that moment.
Boot ==
  /\ ~up
  /\ open \/ "gatedBoot" \in Disturbance
  /\ up' = TRUE
  /\ row' = IF ~open THEN row
            ELSE [r \in Row |->
                   IF r \in Stale \/ (Running(r) /\ row[r].at < DayStart)
                   THEN [row[r] EXCEPT !.status = "skipped"]
                   ELSE IF Running(r) THEN [row[r] EXCEPT !.status = "failed"]
                   ELSE row[r]]
  /\ UNCHANGED <<on, text, now, open, memory, begun, crashes>>

\* HTTP handlers start from the event loop: they find the watcher asleep or
\* awaiting the delivery of a DM, never between two claims of a batch.
EventLoopFree == todo = {} \/ sending # {}

UserStep ==
  /\ up /\ EventLoopFree
  /\ \/ \E r \in Row, at \in Time : Patch(r, at) \/ \E k \in Kind : Insert(r, k, at)
     \/ \E r \in Row : Cancel(r) \/ Approve(r)
     \/ \E q \in Recurring : UpdatePrompt(q) \/ \E b \in BOOLEAN : UpdateRule(q, b)

Next ==
  \/ Watcher
  \/ DispatchStep
  \/ \E e \in events : BusLoses(e)
  \/ UserStep
  \/ Tick \/ SetGate \/ Crash \/ Boot

Spec == Init /\ [][Next]_vars

\* The loops of the watcher and the dispatcher go on, DMs and sessions end
\* (both have timeouts), and the supervisor restarts the daemon.
Fairness ==
  /\ WF_vars(Watcher)
  /\ \A r \in Row : WF_vars(\E e \in events : e.id = r /\
       (\/ CheckGates(e) \/ CheckSpawn(e) \/ PassSessionGates(e)
        \/ SessionDone(e, "completed") \/ SessionDone(e, "failed")))
  /\ WF_vars(Boot)

FairSpec == Spec /\ Fairness
-----------------------------------------------------------------------------
\* A claimed row is in one pair of hands: at most one DM or event was minted
\* from it, and while one is around the row is still `running`, whatever was
\* released, deferred, cancelled or re-materialised meanwhile.
OneHolderPerRow ==
  /\ \A e \in events : Running(e.id) /\ \A f \in events : e.id = f.id => e = f
  /\ \A s \in sending :
       /\ Running(s.id)
       /\ \A e \in events : e.id # s.id
       /\ sending = {s}

Held(r) == (\E e \in events : e.id = r) \/ \E s \in sending : s.id = r

\* No row is left `running` with nobody to settle it: neither a skip by a
\* gate, nor an error on the way, nor a crash followed by a boot strands it.
NoOrphans == up => \A r \in Row : Running(r) => Held(r)

\* Side effects are not replayed: a row's DM or session is begun at most once
\* in its life, also when it was released, re-claimed, or cut by a crash.
NotReplayed == \A r \in Row : begun[r] <= 1

\* A row that was settled stays as it was settled: no late result, recovery,
\* edit or cancellation brings it back or rewrites its outcome.
SettledStays ==
  [][\A r \in Row : row[r].status \in Settled => row'[r] = row[r]]_vars

\* A recurring schedule never has two firings in flight: the reconciliation
\* sees a released, deferred or claimed row as the one it already has.
OneActivePerRecurring ==
  \A q \in Recurring : Cardinality({r \in Row : Active(r) /\ row[r].rule = q}) <= 1

\* Every claim comes to an end, unless the daemon is down and the gate closed:
\* it has then to wait for an ungated boot.
ClaimsSettle == \A r \in Row : Running(r) ~> ~Running(r) \/ ~(up \/ open)

\* A row that is due is taken up, deferred or cancelled, or the gate closes: with
\* the gate open it does not sit there.
DueTakenUp ==
  LET Waits(r) == Pending(r) /\ row[r].at <= now
  IN \A r \in Row : Waits(r) ~> ~Waits(r) \/ ~open

\* An enabled recurring schedule always gets its next row, whatever became of
\* the last one: completion, failure, discard or downtime (as long as the
\* instance has ids left and the gate stays open).
RecurringAlive ==
  \A q \in Recurring :
    on[q] ~> \/ ~on[q] \/ ~open \/ Absent = {}
             \/ \E r \in Row : Active(r) /\ row[r].rule = q

\* Documentation of the wiki's cost gate: a compile above the threshold waits
\* for Approve, and only then starts.
ApprovalRequired ==
  \A e \in events : row[e.id].kind = "approval" => e.stage # "session"
=============================================================================
