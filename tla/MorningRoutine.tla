---------------------------- MODULE MorningRoutine ----------------------------
(***************************************************************************)
(* How an agent day is opened: the wake rows of the morning routine         *)
(* (core/scheduler.ts), the runs the dispatcher makes of them               *)
(* (core/dispatcher-morning-routine.ts, core/dispatcher-scheduled-tasks.ts),*)
(* the write lock on today.md that expires (core/today-write-lock.ts), the  *)
(* retries, and the self-heal that takes a stuck row away from its run.     *)
(*                                                                         *)
(* A stretch of code between two awaits is one step.  Instants are kept as  *)
(* countdowns and ages, so that time can pass without a bound; any time may *)
(* pass between two steps of a run, since sessions are slow and the machine *)
(* sleeps.  A day is named by what it is to the current one, which is all   *)
(* the code compares: a row is stale or of this day, today.md is of this    *)
(* day or of an earlier one.                                                *)
(***************************************************************************)
EXTENDS Integers

CONSTANTS
  Row,         \* ids of wake rows, used again once nobody refers to them
  Run,         \* runs of the routine that may exist at once
  None,        \* no run holds the lock; no row
  MaxRetries,  \* MAX_RETRIES
  MaxRequeues, \* MAX_SELFHEAL_REQUEUES_PER_AGENT_DAY
  Threshold,   \* age of a claim at which the self-heal takes the row back
  TTL,         \* time to live of the write lock
  Backoff,     \* unit of the back-off between retries
  Disturbance, \* what may come in between: "boundary", "lose", "release", "hang"
  MaxDisturbed \* bound: how often

ASSUME MorningAssumption ==
  /\ None \notin Row \cup Run
  /\ MaxRetries \in Nat /\ MaxRequeues \in Nat /\ MaxDisturbed \in Nat
  /\ Threshold \in Nat \ {0} /\ TTL \in Nat \ {0} /\ Backoff \in Nat \ {0}
  /\ Disturbance \subseteq {"boundary", "lose", "release", "hang"}

VARIABLES
  row,       \* wake rows: [status, due, stale, age, retry]
  run,       \* runs: [stage, row, retry, crossed, verdict]
  flag,      \* morningRoutineInProgress
  holder,    \* the run that holds the lock on today.md
  left,      \* time the lock has left
  today,     \* today.md: missing, of an earlier day, of the current day
  ranToday,  \* the routine has a success row of this day
  rang,      \* the 04:00 cron of this day, or its replay, has fired
  requeues,  \* self-heal requeues of this day
  disturbed  \* history: disturbances so far

lock == <<holder, left>>
day == <<today, ranToday, rang, requeues>>
vars == <<row, run, flag, lock, day, disturbed>>

Unstamped == -1  \* task_context has no claimedAt

NoRow == [status |-> "absent", due |-> 0, stale |-> FALSE, age |-> Unstamped,
          retry |-> 0]
Idle == [stage |-> "idle", row |-> None, retry |-> 0,
         crossed |-> FALSE, verdict |-> "none"]

\* "queued": the claimed row's event waits for its turn; "prepass" and
\* "pipeline": under the lock; "closing": the journal entry is awaited;
\* "hung": the agent's stream died and nothing will ever settle it.
Stage == {"idle", "queued", "prepass", "pipeline", "closing", "hung"}

\* What the end of the pipeline found: today.md is not of the day; it is, but
\* the first stage reported an error; it is, and the stage succeeded.
Verdict == {"none", "stale", "fresh", "success"}

MorningTypeOK ==
  /\ row \in [Row -> [status : {"absent", "pending", "running"},
                      due : 0..(MaxRetries * Backoff), stale : BOOLEAN,
                      age : Unstamped..Threshold, retry : 0..MaxRetries]]
  /\ run \in [Run -> [stage : Stage, row : Row \cup {None}, retry : 0..MaxRetries,
                      crossed : BOOLEAN, verdict : Verdict]]
  /\ flag \in BOOLEAN
  /\ holder \in Run \cup {None} /\ left \in 0..TTL
  /\ today \in {"missing", "earlier", "current"}
  /\ ranToday \in BOOLEAN /\ rang \in BOOLEAN
  /\ requeues \in 0..MaxRequeues
  /\ disturbed \in 0..MaxDisturbed

Init ==
  /\ row = [r \in Row |-> NoRow]
  /\ run = [u \in Run |-> Idle]
  /\ flag = FALSE
  /\ holder = None /\ left = 0
  /\ today = "earlier"
  /\ ranToday = FALSE /\ rang = FALSE /\ requeues = 0
  /\ disturbed = 0

-----------------------------------------------------------------------------
(* The wake rows.                                                           *)

Pending(table) == {r \in Row : table[r].status = "pending"}
Running(table) == {r \in Row : table[r].status = "running"}
ActiveRows(table) == Pending(table) \cup Running(table)

\* isMorningRoutineActive
Active == flag \/ ActiveRows(row) # {}

\* hasCurrentAgentDayTodayMd
TodayFresh == today = "current"

\* An INSERT; the id is one that no row and no run refers to.
Inserted(table, wake) ==
  LET Free == {r \in Row : table[r].status = "absent" /\ \A u \in Run : run[u].row # r}
  IN [table EXCEPT ![CHOOSE r \in Free : TRUE] = wake]

\* UPDATE ... SET status = 'completed' WHERE id = r AND status = 'running'
Settled(table, r) == IF r \in Running(table) THEN [table EXCEPT ![r] = NoRow] ELSE table

\* discardStalePendingSchedules
Discarded(table) ==
  [r \in Row |-> IF r \in Pending(table) /\ table[r].due = 0 /\ table[r].stale
                 THEN NoRow ELSE table[r]]

\* Mutation: the merged context is rebuilt without the stamp of the claim.
MergedUnstamped(wake) == [wake EXCEPT !.stale = FALSE, !.age = Unstamped]

\* The merge into an active row: scheduled_for = MAX(scheduled_for, now).
Merged(wake) == [wake EXCEPT !.stale = FALSE]

\* queueMorningRoutineWake
QueueWake(table) ==
  IF ActiveRows(table) = {}
  THEN row' = Inserted(table, [NoRow EXCEPT !.status = "pending"])
  ELSE \E r \in ActiveRows(table) : row' = [table EXCEPT ![r] = Merged(@)]

RetryRow(u) ==
  [NoRow EXCEPT !.status = "pending", !.due = (run[u].retry + 1) * Backoff,
                !.retry = run[u].retry + 1]

\* scheduleMorningRetry, for the run u: at most MaxRetries in a chain, and
\* none while another row is pending.
ScheduleRetry(table, u) ==
  IF run[u].retry + 1 > MaxRetries \/ Pending(table) # {} THEN table
  ELSE Inserted(table, RetryRow(u))

-----------------------------------------------------------------------------
(* Who asks for the routine.                                                *)

\* The 04:00 cron, the replay after a machine sleep that swallowed its tick, or
\* the missed-fire layer of the self-heal.  (What else was due, and rides along in the
\* row's context, is not modelled.)
OpenDay ==
  /\ QueueWake(Discarded(row))
  /\ rang' = TRUE
  /\ UNCHANGED <<run, flag, lock, today, ranToday, requeues, disturbed>>

\* The end of the setup and the gate of the review routines.
Ask ==
  /\ QueueWake(row)
  /\ UNCHANGED <<run, flag, lock, day, disturbed>>

\* The activity scan's own gate: it keeps out while the routine is active.
ScanGate ==
  /\ ~Active /\ ~ranToday
  /\ QueueWake(row)
  /\ UNCHANGED <<run, flag, lock, day, disturbed>>

-----------------------------------------------------------------------------
(* The watcher and the way to the dispatcher.                               *)

DiscardStale ==
  /\ row' = Discarded(row)
  /\ UNCHANGED <<run, flag, lock, day, disturbed>>

Spare == {u \in Run : run[u].stage = "idle"}

\* Claim, stamp, and the event with the context that the SELECT had read.
Claim(r) ==
  /\ r \in Pending(Discarded(row)) /\ row[r].due = 0
  /\ Spare # {}
  /\ row' = [Discarded(row) EXCEPT ![r].status = "running", ![r].age = 0]
  /\ run' = [run EXCEPT ![CHOOSE u \in Spare : TRUE] = [Idle EXCEPT !.stage = "queued",
                                         !.row = r, !.retry = row[r].retry]]
  /\ UNCHANGED <<flag, lock, day, disturbed>>

Disturbed(kind) ==
  /\ kind \in Disturbance
  /\ disturbed < MaxDisturbed /\ disturbed' = disturbed + 1

\* The event bus was full.
Lose(u) ==
  /\ Disturbed("lose")
  /\ run[u].stage = "queued"
  /\ run' = [run EXCEPT ![u] = Idle]
  /\ UNCHANGED <<row, flag, lock, day>>

\* releaseClaimedSchedule: the cost cap, or no viable backend.
Release(u) ==
  /\ Disturbed("release")
  /\ run[u].stage = "queued"
  /\ row' = IF run[u].row \in Running(row)
            THEN [row EXCEPT ![run[u].row].status = "pending", ![run[u].row].age = Unstamped]
            ELSE row
  /\ run' = [run EXCEPT ![u] = Idle]
  /\ UNCHANGED <<flag, lock, day>>

-----------------------------------------------------------------------------
(* A run.                                                                   *)

\* Mutation: a today.md of the day is taken for an opened day.
AlreadyOpenedByFile == TodayFresh

\* handleMorningRoutineRetry skips only if both signals agree.
AlreadyOpened == TodayFresh /\ ranToday

Skip(u) ==
  /\ run[u].stage = "queued" /\ AlreadyOpened
  /\ row' = Settled(row, run[u].row)
  /\ run' = [run EXCEPT ![u] = Idle]
  /\ UNCHANGED <<flag, lock, day, disturbed>>

\* acquire() fails: a retry is scheduled and the row is settled.
Denied(u) ==
  /\ run[u].stage = "queued" /\ ~AlreadyOpened
  /\ holder # None
  /\ row' = Settled(ScheduleRetry(row, u), run[u].row)
  /\ run' = [run EXCEPT ![u] = Idle]
  /\ UNCHANGED <<flag, lock, day, disturbed>>

\* acquire() and rotateDayFiles; a retry goes on without the pre-pass.
Start(u) ==
  /\ run[u].stage = "queued" /\ ~AlreadyOpened
  /\ holder = None
  /\ holder' = u /\ left' = TTL
  /\ today' = IF TodayFresh THEN today ELSE "missing"
  /\ flag' = TRUE
  /\ run' = [run EXCEPT ![u].stage = IF run[u].retry = 0 THEN "prepass" ELSE "pipeline"]
  /\ UNCHANGED <<row, ranToday, rang, requeues, disturbed>>

StartPipeline(u) ==
  /\ run[u].stage = "prepass"
  /\ run' = [run EXCEPT ![u].stage = "pipeline"]
  /\ UNCHANGED <<row, flag, lock, day, disturbed>>

\* PUT /api/context/state/today by the agent, with the lock's id: refused if
\* another run has the lock, and if the heading is not of the current day.
WriteToday(u) ==
  /\ run[u].stage = "pipeline"
  /\ holder \in {None, u}
  /\ today' = "current"
  /\ UNCHANGED <<row, run, flag, lock, ranToday, rang, requeues, disturbed>>

\* Mutation: whoever has the lock loses it.
ReleaseAny(u) == holder' = None /\ left' = 0

\* TodayWriteLockManager.release
ReleaseLock(u) ==
  IF holder = u THEN holder' = None /\ left' = 0 ELSE UNCHANGED lock

\* From the verdict on today.md to the end of handleMorningRoutineRetry: the
\* retry, the flag, the row.
Finish(u, fresh) ==
  /\ row' = Settled(IF fresh THEN row ELSE ScheduleRetry(row, u), run[u].row)
  /\ flag' = FALSE
  /\ run' = [run EXCEPT ![u] = Idle]

\* The orchestrator threw: no journal entry, no success row.
PipelineThrows(u) ==
  /\ run[u].stage = "pipeline"
  /\ ReleaseLock(u)
  /\ Finish(u, TodayFresh)
  /\ UNCHANGED <<day, disturbed>>

PipelineEnds(u, ok) ==
  /\ run[u].stage = "pipeline"
  /\ ReleaseLock(u)
  /\ run' = [run EXCEPT ![u].stage = "closing",
                        ![u].verdict = IF ~TodayFresh THEN "stale"
                                       ELSE IF ok THEN "success" ELSE "fresh"]
  /\ UNCHANGED <<row, flag, day, disturbed>>

\* Mutation: the success row is stamped with the time of its insertion.
StampNow(u) ==
  ranToday \/ run[u].verdict = "success"

\* emitParentAuditRow: the success row is stamped with the time at which the
\* pipeline began.
ParentAuditRow(u) ==
  ranToday \/ (run[u].verdict = "success" /\ ~run[u].crossed)

\* The journal entry was written: the rest of executeMorningRoutine.
Close(u) ==
  /\ run[u].stage = "closing"
  /\ ranToday' = ParentAuditRow(u)
  /\ Finish(u, run[u].verdict # "stale")
  /\ UNCHANGED <<lock, today, rang, requeues, disturbed>>

\* The stream of the agent dies and its promise never settles.
Hang(u) ==
  /\ Disturbed("hang")
  /\ run[u].stage \in {"prepass", "pipeline"}
  /\ run' = [run EXCEPT ![u] = [Idle EXCEPT !.stage = "hung"]]
  /\ UNCHANGED <<row, flag, lock, day>>

RunStep(u) ==
  \/ Skip(u) \/ Denied(u) \/ Start(u) \/ StartPipeline(u)
  \/ PipelineThrows(u) \/ Close(u)
  \/ \E ok \in BOOLEAN : PipelineEnds(u, ok)

-----------------------------------------------------------------------------
(* Time, self-heal and other writers.                                       *)

Less(t) == IF t > 0 THEN t - 1 ELSE 0

Tick ==
  /\ row' = [r \in Row |-> [row[r] EXCEPT
       !.due = Less(@),
       !.age = IF row[r].status = "running" /\ @ \in 0..(Threshold - 1) THEN @ + 1 ELSE @]]
  /\ left' = Less(left)
  /\ holder' = IF left = 1 THEN None ELSE holder
  /\ UNCHANGED <<run, flag, day, disturbed>>

\* A row that is not due yet is due in the new day.  A pipeline that is under
\* way began in the old one.
DayBoundary ==
  /\ Disturbed("boundary")
  /\ today' = IF today = "missing" THEN today ELSE "earlier"
  /\ ranToday' = FALSE /\ rang' = FALSE /\ requeues' = 0
  /\ row' = [r \in Row |-> IF r \in ActiveRows(row) /\ row[r].due = 0
                            THEN [row[r] EXCEPT !.stale = TRUE] ELSE row[r]]
  /\ run' = [u \in Run |-> IF run[u].stage \in {"pipeline", "closing"}
                            THEN [run[u] EXCEPT !.crossed = TRUE] ELSE run[u]]
  /\ UNCHANGED <<flag, lock>>

\* Layer 1 of runMorningSelfHeal; the next claim stamps the row anew.
SelfHeal ==
  /\ ~ranToday
  /\ requeues < MaxRequeues
  /\ \E r \in Running(row) :
       /\ row[r].age = Threshold
       /\ row' = [row EXCEPT ![r] = [@ EXCEPT !.status = "pending", !.due = 0,
                                              !.stale = FALSE, !.age = Unstamped]]
  /\ requeues' = requeues + 1
  /\ UNCHANGED <<run, flag, lock, today, ranToday, rang, disturbed>>

\* Another session, or the dashboard, writes today.md through the API.
OthersWrite ==
  /\ holder = None
  /\ today' = "current"
  /\ UNCHANGED <<row, run, flag, lock, ranToday, rang, requeues, disturbed>>

Next ==
  \/ OpenDay
  \/ Ask \/ ScanGate
  \/ DiscardStale
  \/ \E r \in Row : Claim(r)
  \/ \E u \in Run : \/ Lose(u) \/ Release(u) \/ Hang(u)
                    \/ RunStep(u) \/ WriteToday(u)
  \/ Tick \/ DayBoundary \/ SelfHeal \/ OthersWrite

Spec == Init /\ [][Next]_vars

\* The watcher polls, the activity scan's cron and the self-heal's timer
\* fire, runs that did not hang end, and time goes by.
Fairness ==
  /\ \A u \in Run : WF_vars(RunStep(u))
  /\ WF_vars(\E r \in Row : Claim(r))
  /\ WF_vars(DiscardStale) /\ WF_vars(~rang /\ OpenDay)
  /\ WF_vars(ScanGate) /\ WF_vars(SelfHeal) /\ WF_vars(Tick)

FairSpec == Spec /\ Fairness
-----------------------------------------------------------------------------
\* The lock is a lease: while it lasts, only the end of its own run gives it
\* up, whatever runs overlap it after an earlier lease expired under them.
LeaseRespected ==
  [][\A u \in Run : holder = u /\ holder' # u =>
       (left = 1 /\ UNCHANGED run) \/ run'[u].stage \in {"idle", "closing"}]_vars

\* A day counts as opened only with a today.md of that day, also when a run
\* crossed the day boundary while its journal entry was written.
OpenedHonestly == ranToday => TodayFresh

\* Nothing will ever settle one of the runs.
Wedged == \E u \in Run : run[u].stage = "hung"

\* A claimed row that nobody works on, and the self-heal may not take it back
\* any more: the owner is alerted.
GivenUp ==
  /\ requeues = MaxRequeues
  /\ \E r \in Running(row) : \A u \in Run : run[u].row # r

\* Activity scans are not kept out for ever: whatever was lost, put back or
\* taken back, the routine comes to an end.
MorningEnds == []<>(~Active \/ ranToday \/ GivenUp \/ Wedged)

\* If agents do not fail for ever, the day gets opened, also when today.md
\* was written and the success row was not.
AgentDelivers ==
  /\ SF_vars(\E u \in Run : WriteToday(u))
  /\ SF_vars(\E u \in Run : PipelineEnds(u, TRUE))
DayOpens == AgentDelivers => []<>(ranToday \/ GivenUp \/ Wedged)
=============================================================================
