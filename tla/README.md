# Verification of Aitne's daemon

TLA+ models of the concurrent core of Aitne's daemon (`src/packages/daemon`), the TLC instances that check
them, and TLAPS proofs of their main invariants for every value of the constants.

Aitne is a personal agent that runs as one Node.js process. Messages, cron ticks and observed changes become
events on a priority bus; a dispatcher turns each event into a session of a coding agent; a schedule table in
SQLite carries work to later days. Everything shares one event loop, so a stretch of code between two `await`s
is atomic and every `await` is a place where anything else may run. The models follow that rule: one action
per such stretch.

## 1. Inventory

Paths are relative to `src/packages/daemon/src/`.

| Part | Code | State | Operations | Talks to | Hard behaviour | Correct when |
|---|---|---|---|---|---|---|
| EventBus | `core/event-bus.ts` | binary heap, sequence counter, wait queue of resolvers, `closed`, `dispatchPaused` | `put`, `get`, `close`, `pauseDispatch`, `resumeDispatch` | every producer puts; the dispatcher's run loop gets; setup migration pauses | a consumer woken and overtaken, paused or closed before it resumes; overflow | it is a priority queue with a defined victim, loses no wake-up, ends everybody on close |
| SessionGateRegistry | `core/session-gate.ts` | Map key -> tail of a promise chain | `runWithSessionGate`, `runWithSessionGates` | dispatcher, message handler, task delivery | several keys per call, bodies that throw, chains forgotten while someone joins | exclusive, first come first served, no leak, no circular wait |
| EventDispatcher: permits and gates | `core/dispatcher.ts`, `core/semaphore.ts` | two semaphores; autonomous gate (setup, `!stop`, degraded vault); flags | `handleEvent`, `dispatchSafe`, `dispatch`, `releaseClaimedSchedule` | bus, gates, schedule table, sessions | two lock layers and two classes over shared conversations | permits conserved, one lock order, every event ends |
| ScheduleWatcher and `agent_schedule` | `core/scheduler.ts`, `db/recurring-schedules.ts`, `db/automation-triggers.ts`, `api/routes/agent-schedule.ts`, `bootstrap/catchup.ts`, `core/schedule-maintenance.ts` | rows `pending / running / completed / failed / skipped`; recurring rules; snapshots of a poll | poll, claim, defer, release, settle, recover, reconcile; insert, patch, cancel, approve | bus, dispatcher, DM delivery, HTTP API | rows are snapshots across an await; releases and re-claims; crash between claim and settlement | one holder per row, side effects at most once, outcomes final, no row stranded |
| Morning routine, lock on today.md, self-heal | `core/dispatcher-morning-routine.ts`, `core/dispatcher-scheduled-tasks.ts`, `core/today-write-lock.ts`, `core/scheduler.ts`, `bootstrap/schedule-helpers.ts` | in-progress flag, wake rows with retry count and time of the claim, lock holder and expiry, today.md, success row, requeues of the day | queue or merge a wake, claim, run, retry, release, expire, self-heal, day boundary | schedule table, dispatcher, API, activity scan | a lease that expires under a live run, a re-run beside its original, a hung run, a run that crosses the day boundary | a day is opened honestly, the lock stays with its run, the routine ends and scans are not kept out for ever |
| Activity scan | `core/dispatcher-activity-scan.ts`, `scheduler/activity-scan-gate.ts`, `db/observations.ts` | in-progress flag with its time, observations with their scores, gate rows | trigger, harvest, decide, silence, triage, enqueue; record, summarise, consume | bus, dispatcher, pollers and the summarizer, roadmap refresh | the flag is set where the event is put and cleared by other functions; the gate consumes rows that nobody has read | no two scans at once, never stuck, no urgent row silenced |
| Other vault write locks | `core/roadmap-write-lock.ts`, `overview-write-lock.ts`, `management-md-write-lock.ts` | holder and expiry | acquire, release, query, lazy expiry | roadmap refresh, HTTP lock routes | a holder that outlives its lease | a lock id releases its own lease only |
| Slot manager of the task runners | `services/browser-task/browser-task-slots.ts` | slots per site, a queue per site, a global queue | acquire, release and promote, cancel, sweep of overdue entries | called by both runners, between their awaits | a release promotes without a look at the cap; a head that cannot start must be skipped | cap held, nobody waits for a slot that is free, the two queues agree |
| Browser task runner | `services/browser-task/browser-task-runner.ts`, `services/browser-history/automation/`, `core/dispatcher-scheduled-browser-task.ts` | rows of `browser_task`, questions, live and parked handles, stashed aborts, open Chromiums | run, ask, finish, confirm, answer, cancel, expire, tick, boot sweep | slot manager, driver, HTTP API | answer, cancel, deadline and end of the leg race for one task | one end per row, slot and Chromium given back, cancels land |
| Background task runner | `services/background-task/background-task-runner.ts`, `core/dispatcher-scheduled-background-task.ts` | rows of `background_task`, questions, sessions, handles | as above, and resume after a restart, fall back to a cold run | slot manager, driver, HTTP API, task delivery | a new dispatch of a lost run meets an answer, a cancel or a deadline | nobody forgotten, a question belongs to its run |
| Task delivery | `core/dispatcher-task-delivery.ts`, `adapters/notification-manager.ts`, `core/dispatcher-result-processor.ts` | `delivered_at`, tagged messages | enqueue, send in a turn or as a draft, defer, record, recover | bus, gates, messaging, quiet hours | several events per result, a turn that fails after it sent, a crash between send and record, a send that fails without a word | sent at last, sent again only after a miss |
| Deferred DMs, quiet hours | `db/deferred-dm.ts`, `core/quiet-hours-sync.ts`, `core/notification-gate.ts` | deferred rows, window | defer, retime, flush | adapters | the window moves while rows wait | every DM is flushed or dropped once |
| SessionManager, message handling | `core/session-manager.ts`, `core/dispatcher-message-handler.ts` | sessions, pending supersessions | resume, supersede, stop | backends | a message that arrives during a session | order of a conversation kept |
| Backend router, spawn gates | `core/backends/`, `core/spawn-gates.ts` | health, failover state | pick, fail over | agent CLIs | verdict stale when used | no spawn without a viable backend |
| Setup, migration, reset | `api/routes/setup-migrate.ts`, `core/system-reset.ts` | migration lock, paused bus | migrate, reset | bus, vault | failure in the middle | resume in every path |
| Adapters, observers, integrations, context, prompts, HTTP API, dashboard, CLI, assets | see `PROJECT.json` | mostly external | I/O | | | |

The hazards, each at the line where it bites, are listed in `PROJECT.json`; five of them no property can catch going
wrong, because the code does go wrong there, and the properties except the case: rows that starve the poll, a hung
run of the morning routine, a verdict of the triage that is stale, a task stranded by a thrown preparation or by its
gate, and a result whose send failed without a word. They are described in section 4.

## 2. Modules

| Module | Models | Composition |
|---|---|---|
| `EventQueue` | what the bus promises: a bounded pool that gives up its most expendable member and hands out its most urgent one | abstract specification |
| `EventBus` | `core/event-bus.ts` | implements `EventQueue` (`ImplementsEventQueue`) |
| `SessionGate` | `core/session-gate.ts` | |
| `Dispatcher` | `core/semaphore.ts` and the path of an event through `dispatcher.ts` | extends `SessionGate`: the same gates under two semaphores |
| `ScheduleWatcher` | the life of an `agent_schedule` row in all the code that moves it | |
| `MorningRoutine` | how an agent day is opened: wake rows, runs, the lease on today.md, retries, self-heal | stands beside `ScheduleWatcher`, of whose rows it sees only the wakes, with more detail |
| `TaskSlots` | the slot manager of both runners, as operators on its state | pure; extended by the runners |
| `BrowserTasks` | the browser-task runner, its legs, tools, tick and boot sweep | extends `TaskSlots` |
| `TaskDelivery` | how a task's result reaches the owner | variables and actions, extended by `BackgroundTasks` |
| `BackgroundTasks` | the background-task runner with both recoveries at boot, and the delivery of its results | extends `TaskSlots` and `TaskDelivery`: one next-state relation over both |
| `ActivityScan` | the gated scan: flag, gate, triage, event, and the observations it consumes | stands alone: of the bus and of `dispatchSafe` it sees what happens to its one event |
| `MC*` | constants of the TLC instances | extend their component |
| `*_proofs` | theorems | extend their component and TLAPS; `Dispatcher_proofs` proves `SessionGate` in its first part |

### EventBus

`heap`, `counter`, `waitQueue`, `closed` and `dispatchPaused` are the fields of the class. `get()` is an async
loop: `consumer[c]` says where a caller stands in it. Between the resolver's call and the continuation that
reads the loop condition again (`"woken"`) other code runs; `"wokenClosed"` is the `false` that `close()`
passes to a resolver. `put()` never awaits and is one step in three cases: `PutAccept`, `PutEvict`, `PutDrop`.
`GetPop`, `GetPark` and `GetNull` are the three ways out of one turn of the loop. `fate` is a history variable.

The heap is a set of entries: its order is the comparator's (`Before`), and `findWorst` is `IsWorst`.

### SessionGate

`chains` is the Map. `previous[t][k]` is the promise call `t` found at the tail of chain `k`; `released` are the
`current` promises it has resolved. `Call` is everything up to the first await, `AcquireNext` the continuation
that joins the next key, `Enter` the start of the body, `Leave` one `finally` block. A body that throws leaves
through the same blocks, so one action stands for both. `order` is a history variable that gives "who came first"
a meaning.

### Dispatcher

`free` and `queue` are the two semaphores. `Handle` is the run loop starting `handleEventInner` without waiting
for it; `Skip` is a gate of `dispatchSafe` that says no (free choice: the verdicts depend on data outside);
`EnterGates` and `InGates` use the gates inside `dispatch`; `Finish` is the `finally` that releases the permit.

### ScheduleWatcher

`row` is the table, `todo` the snapshots of one SELECT, `sending` the direct DM that is awaited, `events` the
events minted from claimed rows with the place they have reached. `up` and `Crash` model the end of the process:
only the table (`row`, `on`, `text`) survives. `Boot` is `runCatchup` followed by `scheduler.start()`. Texts and
rules are version numbers, time is a counter with `DayLength` instants per agent day, quiet hours a set of
instants. Handlers of the HTTP API run only when the watcher is not in a synchronous stretch (`EventLoopFree`).

What the environment may do in an instance is its constant `Disturbance`: the autonomous gate flips, the cost
cap releases, the bus loses an event, the daemon boots while the gate is closed, rows are patched, rules are
edited, the handling of a claimed row throws.

### MorningRoutine

`row` holds the wake rows of `agent_schedule`; `run` the executions that exist, each with the stage it has reached
(`"queued"` for a permit, `"prepass"`, `"pipeline"`, `"closing"` while the journal entry is awaited, `"hung"`).
`flag` is `morningRoutineInProgress`, `holder` and `left` the lock of `core/today-write-lock.ts`, `today` the
heading of today.md, `ranToday` the success row that every gate reads. `OpenDay` is the 04:00 cron, its replay
after a sleep and the third layer of the self-heal; `Ask` the end of the setup and the gate of the reviews;
`ScanGate` the gate of the activity scan. All of them end in `QueueWake`, which inserts a row or merges into an
active one. `Start` is everything from `handleMorningRoutineRetry` to the pre-pass: acquire, rotate, set the flag.
`Denied` is the same path when the lock is held. `PipelineEnds` and `PipelineThrows` release the lock and read
today.md; `Finish` is the rest of `executeMorningRoutine` and of its caller: retry, flag, row.

Time is relative. A row knows how long until it is due and how long ago it was claimed, the lock how long it
lasts, and days are told apart only as "this one" and "earlier", which is what the code compares; so time can
go on for ever in a finite state space. `Tick` expires the lock when its time is over: the code does it lazily,
at the next access, which nobody can tell apart. Ids of rows are used again, as nothing remembers a settled row.
The self-heal takes any row that is old enough; the code looks at the oldest one only, which differs when two
rows are running. The check of the lock and the write of today.md are one step.

### TaskSlots

The two queues and the `active` map of the slot manager, one operator per function and under its name:
`decideAcquire`, `decideRelease`, `decideCancel`, with `Promotes` and `Promoted` for what they tell their caller.
The functions are pure in the code too: the runners call them between two awaits and assign the result.

### BrowserTasks

An action is the code between two awaits of the runner. A task in flight is described by up to two promises:
`leg` is the driver's (preparing, streaming, closing), `closer` the tail of a `cancel()` or an
`expireForDeadline()` that waits for the Chromium of a parked task to close. `live`, `parked` and `pendingAborts`
are the three maps of the runner, `aborted` the signal of a handle. The tick removes overdue entries from the
queues in one go and fails their rows one by one (`SweepQueued`, `FailSwept`): `swept` is the list it has in hand.
A final-confirm gate lives in the tool server (`gate`); the reply that resolves it is `GateReturns`.

### BackgroundTasks and TaskDelivery

The same shape, with what this runner adds: a backend session that survives a restart. `leg` distinguishes the
three preparations (`"fresh"`, `"boot"`, `"rebuild"`: a first start, `resumeFromBoot`, an answer after a restart)
and the ways a leg closes: `"closing"`, `"reporting"` (an artifact goes out) and `"fallback"` (the session did not load,
so the task is dispatched again from its brief). `Redispatch` is that reset, and what boot does to a row without a
session. `Restart` asks the setting `backgroundTaskResumeAcrossRestart` afresh, since it may be changed in
between; the loop of the recovery has no await, so nothing else runs before it is over (`Booted`).

`TaskDelivery` sees a result as a member of `queued` (an event for it is in the bus), then in the hands of the one
handler. `delivering` says how far it is: an active owner gets a turn of the agent, which sends (`TurnSends`), records
the tagged message after the await of that send (`TurnTags`, in `processResult`) and returns (`TurnDelivers`); an idle
one gets the draft, which is sent (`DraftSends`), then recorded and marked (`DraftDelivers`). A turn that throws at any
of these points, or returns without a tagged message, falls back to the draft (`TurnFails`). `Send` is
`NotificationManager.send`: it never throws, so that a message that failed on every path, was suppressed or
waits in a batch looks to the caller like one that arrived, and "sent" means no more than handed over. `sends` and
`misses` are history variables: the messages handed over, and those of them that no handler knows of, because it died or
its turn failed after the send. Whether the owner is active or idle, whether it is quiet hours, and whether the timeline
that records messages is on, is a free choice each time.

### ActivityScan

`flag` and `age` are `activityScanInProgress` and the time since it was set, `scan[s]` a call of `trigger()` with
the stage it has reached: `"harvest"` and `"triage"` are its two awaits, `"queued"` and `"running"` the life of
the event it has put, which outlives the call. `Trigger` is the synchronous check-and-set with all its gates, `Decide`
everything after the harvest in one stretch (the gate's `decideStage`, the floor, and the path taken), `Verdict`
what follows the triage, `SkipDispatch`, `Finish` and `Fail` the three ways through `dispatchSafe`, whose `finally`
clears the flag. `Refuse` is a trigger that a gate turns down after it has found a flag too old to be believed.

`obs[o]` is a row of `observations`: absent, pending without a score (`"new"`), pending with its score, or
consumed by somebody. `knows` is what a triage was told, or what a session will read. Mail, calendar conflicts, plan,
schedule and failing agents are a free choice (`Distraction`: one that escalates past everything, one that
comes after the heartbeat). Time is a tick, for the 30 minutes of the flag and the hours of the heartbeat alike,
and neither clock is kept past its limit. `Fault` bounds what may go wrong: the bus loses the event, a gate skips
it, the session fails, the daemon restarts, the set-up gate closes.

## 3. Runs

| Run | Bounds | Shows |
|---|---|---|
| `bus_queue` | 4 events, 2 consumers, 2 priorities, heap of 2 | the waiters are exact, no wake-up is lost, close releases everybody, and the bus implements the abstract queue including its liveness: that a pause holds and that the right victim is given up are part of this refinement. Four events fill the heap twice over, so that eviction and drop happen while consumers are parked, woken or gone |
| `dispatch_events` | 2 reactive and 3 autonomous events over 2 conversations, 1 and 2 permits | permits, lock order, no deadlock, every event ends; order of arrival and an exact Map of the gates under that use. Two briefings hold both autonomous permits and want both conversations (the owner's DMs and the dashboard chat: the only pair that any caller takes), replies queue for the one reactive permit |
| `watcher_storm` | 2 rows, 1 recurring schedule, batch 2, every disturbance, 1 crash, clock 0..2 | one holder per row, at most one begin, final outcomes |
| `watcher_live` | 2 rows, 1 schedule, batch 2, gate flips, releases, throws, deferrals, 1 crash with an ungated boot, clock 0..2, fairness | no claimed row stranded, one active row per schedule, claims settle, due rows are taken up, schedules get their next row; the last three as long as the gate does not close |
| `watcher_gated_boot` | 2 rows, boot with a closed gate | **violated**: see finding 1 |
| `watcher_approval` | 1 approval row | **violated**: finding 2 |
| `morning_opens` | 4 rows, 2 runs, 1 retry, 1 requeue, threshold and time to live of one tick, one disturbance (a day boundary, a lost event, a released row or a hung run), fairness | a day is opened honestly, the lease is respected, the routine ends, the day gets opened |
| `browser_ends` | 3 tasks: two of one site, one without a site; cap 2; 1 question per task; 1 restart; the first task meets every event, the second is cancelled or fails to prepare, the third confirms or times out | no slot, row or Chromium is left behind, the queues agree, a cancel reaches its run, the first end stays, a submitted task ends |
| `background_runs` | 2 tasks with sites of their own and one slot; 1 question; 1 restart, the setting on or off; timeline on or off; the second task has no channel | the same for this runner, questions belong to their run, a result is sent at last, and again only after a send its handler does not know of |
| `background_quiet` | 2 tasks, no disturbance | **violated**: finding 3 |
| `scan_funnel` | 2 triggers, 2 observations of which one is about the calendar, 1 candidate, 2 scores, ceiling 1, floor 1, maximal age and heartbeat of one tick, triage on or off, 1 fault of any kind | one scan at a time, nothing known as urgent is silenced, every observation is taken up |
| `scan_candidates` | 2 triggers, 1 observation, 1 candidate, default settings, no fault | **violated**: finding 4 |

Two rows and one crash are enough for the watcher's properties because each of them is about one row, or about
one row and the schedule it came from; the second row provides the batch in which a DM is awaited while another
snapshot waits, and the re-materialised row of a schedule. The clock reaches the second agent day, so that
rows become stale and occurrences pass.

In the morning routine, two runs and a threshold no longer than a run's wait are what it takes for a re-run to
overlap its original, for a lease to expire under its holder and for two retries to meet; four rows are what two
runs and the rows they leave behind can refer to. One retry is the first and the last of its chain. The one
disturbance can fall anywhere, on the way of the re-run too; a second one multiplies the states by six and meets
the same cases in the other run or on the next day.

Three browser tasks bring about a queue at a busy site beside a site that is free; every release there promotes or
finds nobody. That a promotion skips a head of the queue that cannot start, with a cap that binds, is what
the proofs show for any number of tasks (`CapKept`); a run of that size adds nothing to them. Two tasks on one slot are enough for the
background runner, which gives each task a site of its own: one disturbed in every way the code provides for, one
that waits, gets promoted by each of its ends, and can be cancelled. One question is the first and, when it is
answered early, the one that is still open for the next run; one restart can fall between any two steps of either, and
between the send of a result and its record. A restart, and each turn that fails, may add a send of its own.

Two scans are what a flag that is too old lets in, the second of which ends first or last; two observations
tell the ceiling from the floor and the calendar from the rest. One fault can fall at any step of either scan.

`CHECK_DEADLOCK FALSE` is set where the system really comes to rest: every call has been served, every event has
ended, or the bounded clock and the ids of an instance are used up. In `bus_queue` deadlock is checked: pause and
resume are always possible.

### Fairness

* `EventBus`: each consumer's continuation runs (the event loop runs every ready continuation and the
  dispatcher's loop calls `get()` again), and a pause ends (the migration resumes dispatch in its `finally`).
  Nothing obliges a producer to put or anyone to close.
* `SessionGate`, `Dispatcher`: resolved continuations run and bodies end, because every session has an execution
  timeout.
* `ScheduleWatcher`: the poll loop goes on, each event advances, and a supervisor restarts a dead daemon. The
  clock and all disturbances are unfair.
* `MorningRoutine`: the watcher polls, the timers of the scan and of the self-heal fire, time goes on, the cron
  rings once a day, and every run that did not hang ends, because its session has a timeout. `DayOpens` assumes
  in addition that agents who are asked again and again write today.md at some point (`AgentDelivers`); without
  it nothing could open the day. Disturbances are unfair.
* `BrowserTasks`: a leg ends, because its timer aborts it; a close ends; the 30-second tick comes back. What the
  agent calls, what the owner does, and every failure is unfair. `TaskEnds` excepts a task whose preparation threw
  and one whose gate stranded it (see below).
* `BackgroundTasks`: as above, and the loop of the recovery at boot goes on. A delivery that has begun goes on, since
  turns have timeouts and a send comes back. Its begin is strongly fair: the handler is kept from a result by other
  results again and again, quiet hours end, the bus does not drop the event of one task every time. That a message
  reaches the owner is never assumed. `TaskEnds` excepts a thrown preparation and a row that a crash
  stranded in the middle of a rebuild.
* `ActivityScan`: the cron triggers again and again, time passes, and every await comes back, because harvest,
  triage and session have timeouts and the bus hands out what it holds. `SignalsTakenUp` asks for nothing while a
  gate is closed, and is run with the default floor of one observation: under a larger one a lone observation waits
  for others. Faults are unfair, and so are pollers and the summarizer.

## 4. Findings

1. **Boot with the gate closed** (`watcher_gated_boot`). `runCatchup` returns before the recovery of orphaned
   rows if the autonomous gate is closed, and nothing catches up when it opens: rows stay `running`, and a
   recurring schedule whose row is among them never fires again.
2. **Approval rows are fired** (`watcher_approval`). The row that waits for the owner's Approve is pending and
   due at once, and the watcher's SELECT does not exclude its type.
3. **A failure in quiet hours is never told** (`background_quiet`). `core/dispatcher-task-delivery.ts:407-409`
   leaves `delivered_at` NULL "so the boot/periodic recovery sweep re-deliver[s] once the window lifts", but the
   sweep selects `completed` rows only: the notice of a task that failed or timed out stays unsent.
4. **A quiet tick takes the roadmap's candidates** (`scan_candidates`). `runSilentActivityScanPath`
   (`core/dispatcher-activity-scan.ts:758`) consumes whatever is pending, while the gate looks at rows of its five
   kinds only. A `roadmap_candidate:*` row thus never keeps a tick from being silent, and the next silent one
   consumes it; `agent-assets/skills/observations/SKILL.md:103` says the next roadmap refresh does.

Met on the way and not run, in the schedule table and the morning routine:

* a gate that releases a running row makes it pending although its rule was edited or disabled in the meantime
  (`core/dispatcher.ts:1613`);
* an edit of a due row is saved and not fired when the row sits in a batch behind a DM that is awaited
  (`core/scheduler.ts:1771`);
* `emitPostMorningCatchups` triggers the activity scan that a wake handed over while `morningRoutineInProgress` is
  set and the wake row is running, so the scan's own gate refuses it as `morning_routine_active` and the owed slot
  is lost (`core/dispatcher-morning-routine.ts:530`);
* the age of a claim includes the wait for a permit, the lease starts with the run: after a long wait the self-heal
  (`bootstrap/schedule-helpers.ts:519`) re-queues the row of a hung run while the lease still has time, the re-run
  and its retries are denied, and the flag keeps the scans out. With the default settings this takes a wait of a
  little over 20 minutes;
* two runs of the morning routine can be in their pipelines at once: after a sleep longer than the time to live
  the re-run gets the lock although the original goes on, where the comment at `core/scheduler.ts:745` calls
  the duplicate serialized by the lock;
* a wake row whose event is lost after the day was opened keeps the scans out for the rest of the day, since the
  self-heal looks only at days that are not open (hence `ranToday` in `MorningEnds`);
* a row that the self-heal flips just before the day boundary is discarded as stale, and only the 04:00 cron
  asks for the routine again;
* what a wake merges into a row that is running is not in the event that runs, and is dropped with the row;
* rows that the cost cap keeps releasing are the oldest of every poll and keep a due DM out of the batch while
  the cap holds (`core/scheduler.ts:1764`);
* the comment near `core/dispatcher.ts:1605` says there is no recovery of running rows, and
  `bootstrap/schedule-helpers.ts` relies on there being one.

In the activity scan:

* the skip under the floor writes a gate row of stage 3, and `computeHoursSinceLastStage3` does not look at the
  result of the row (`db/activity-scan-signals.ts:506`): on a quiet vault, with the default floor of one
  observation, the heartbeat comes due, is skipped and starts anew, although `scheduler/activity-scan-gate.ts:27`
  promises a forced run. The chronic escalation likewise arms its throttle with the gate row, before the event
  is put, and the event may be lost or skipped (`SkipUnderFloor`, `Enqueue`);
* an observation that becomes urgent while the triage runs is silenced by the verdict about the others
  (`core/dispatcher-activity-scan.ts:452`; the case that `UrgentIsRead` excepts);
* with a ceiling above zero, a few observations without a summary are silenced, where the comment of `numericNovelty`
  says that such a backlog is not (`scheduler/activity-scan-gate.ts:280`);
* a row that is recorded again keeps its id, so a session that has read the old payload consumes the new one
  (`db/observations.ts:106`);
* the floor counts rows of every kind, candidates included, the gate those of its five kinds;
* after an auto-clear under a scan that is alive, the late end of that scan clears the flag of its successor
  (`core/dispatcher.ts:1803`): `outlived` in `OneScan`.

In the task runners (`leg = "threw"`, `Stranded` and the guards of the liveness properties name these cases):

* a `prepareDriverHandle` that throws instead of returning a failure leaves the row running and the slot taken
  until the next boot, in both runners;
* browser: a leg that ends while its final-confirm gate is open is parked, the reply turns the row to running, and
  no driver runs it (`automation/browser-task-tools/server.ts:1280`);
* browser: an answer that comes before the leg parks gives the slot back while the Chromium is open
  (`services/browser-task/browser-task-runner.ts:895`, `:1078`); so does a deadline or an answer during the close of
  a cancel;
* browser: the tick takes all overdue entries off the queues first, so a sweep that throws on one of them loses the
  others; `withMaxConcurrent` is called by tests only;
* background: a clarification answered after a restart lives in memory while the handle is rebuilt. A crash then
  leaves a row that waits for the owner without a question: no boot, deadline or cancel moves it;
* background: an answer that comes before the leg parks puts the row back to pending under the leg that is alive;
  the leg ends without a finish and fails the row, and the answer is lost
  (`services/background-task/background-task-runner.ts:630`);
* background: a cancel of a row that waits for the owner without a handle is acknowledged and does nothing; a failed
  preparation of `resumeFromBoot` leaves the stashed abort for a later run;
* background: a fail-loud notice is lost if the bus drops its event or the daemon dies before it is delivered, as no
  sweep covers it (the same cause as finding 3);
* delivery: a daemon that dies between the send of a result and its record leaves no trace of the send, and the recovery
  sweep has the result sent again, where `core/dispatcher-task-delivery.ts:761` says that "a re-enqueue after a successful
  send only back-fills `delivered_at`, never double-sends" (`misses` in `ToldOnce`);
* delivery: `NotificationManager.send` returns normally when the direct message and the proactive path have failed, when
  the message is suppressed and when it waits in a batch (`adapters/notification-manager.ts:435-448`, `516-566`,
  `630-642`); `deliverIdle` (`core/dispatcher-task-delivery.ts:485-516`) then records the message and sets `delivered_at`,
  which `db/schema.ts:1985` calls "NULL until delivered; the recovery-sweep key", and no sweep takes the result up again.
  `ResultsAreSent` is therefore about sending: results do not always arrive;
* delivery: a turn that throws after it has sent falls back to the draft, and so does every turn when the timeline is
  off (`proactiveForwardChannelTimelineEnabled`), as no tagged message is written then: an active owner gets
  each result twice (`core/dispatcher-task-delivery.ts:464`; `misses` in `ToldOnce`).

## 5. Proofs

All proofs hold for any values of the constants that satisfy the modules' named assumptions.

| Theorem | Invariant used |
|---|---|
| `BusTypeCorrect`, `WaitersStayExact`, `NoWakeupLost` | `BusInv`: types, exact waiters, the wake-up count, a finite heap. The count needs exactness: a wake-up spent on a resolver that already ran would not raise it |
| `CapacityKept`, `QueuedExactlyOnce`, `BusImplementsPool` | `PoolInv` adds `HeapOk`: the heap is within its capacity, sequence numbers are below the counter and differ, and the events in it are those whose fate is open, one entry each. Without it a put could not be told from a second put of the same event, and `Before` would not be a strict order, so that the bus's victim might not be the queue's |
| `GateTypeCorrect`, `ChainsStayExact`, `ScopesAreExclusive`, `ScopesAreFair` | `GateInv` adds that a call's predecessor is the one before it in the order of its chain (`Linked`), that the predecessors of whoever is inside have settled (`HoldersSettled`), that a call has joined an initial segment of its keys (`Sorted`), and that `order` lists exactly the calls in the chain |
| `ConversationsAreExclusive` | that of the gates: every dispatcher step is written as a step of the gates or leaves them alone (`DispatcherImplementsGates`, a lemma), so what is proved of them holds in it |
| `DispatcherTypeCorrect`, `PermitsStayConserved`, `LockOrder` | `PermitInv`: types, queues that list only acquiring events, conservation, lock order |
| `GatesNeverDeadlock` | `GateInv` and `StageExact`, what a call's stage says about the keys it has joined. Of all the keys somebody awaits take the greatest: the call at the head of its chain has no predecessor left, and it can await no key but this one, since it joined its keys in ascending order |
| `DispatchNeverDeadlocks` | `PermitInv`, `WaitersQueued` (who waits for a permit is in the queue, so his semaphore has none free) and the theorem before: as there is at least one permit there is a holder, and a holder waits only inside the gates |
| `OneHolder`, `AtMostOnce`, `OutcomesAreFinal` | `HoldInv`: shape of the tables, one holder per running row, empty memory while the process is down, and that a row that can still be claimed has not been begun |
| `WatcherTypeCorrect` | `TypedInv`: `HoldInv` and the types. What it takes is arithmetic: that the search for the next occurrence and for the end of the quiet hours finds an instant, and within what bound |
| `NothingStranded` | `HoldInv` and the property itself, **if the bus loses no event and the daemon does not boot behind a closed gate**. With either it is false: the event that a full bus gives up never reaches whoever would settle its row, and the gated boot is finding 1 |
| `OnlyEditsDouble`, `OneFiringAtATime` | `TypedInv`. An edit of a rule cancels the pending row and inserts the next one while the old firing may still run: that is two active rows. `OnlyEditsDouble` says that nothing else does it, under every disturbance; `OneFiringAtATime` is the invariant **if no rule is edited** |
| `MorningTypeCorrect`, `OpenedHonestlyCorrect`, `LeaseCorrect` | `Honest`: `OpenedHonestly` says nothing of the moment before the success row is written, so the invariant adds that a run about to write one found a today.md of the day it began in (`Promising`), and that no step but a day boundary makes it older. The lease needs types only: each step that takes the lock away is a tick or the end of its own run |
| `WhatIsActiveCanEnd` | `NothingLeftActive` is inductive with the types. It is the safety half of `MorningEnds`: the flag is that of a run under way or hung, the lock has time left and belongs to such a run, and a claimed row carries its stamp |
| `CapKept`, `NothingLost`, `CancelsLand`, `FirstEndWins`, `BrowserTypes` | `BrowserSound`: types, `SlotsSound` and, for every task, `TaskSound`, which ties its row to its place in the queue, its slot, its handles and its promises |
| `SlotsStayRespected`, `NobodyIsForgotten`, `QuestionsStay`, `CancelsLand`, `FirstEndWins`, `BackgroundTypes` | `RunnerSound`: the same shape. A step is local to its task: `FrameSound` shows that the others keep their part whether the step leaves them alone or promotes them, and `OwnStep` that it is then enough to look at the one |
| `ToldAtMostOnce`, `MarkedOnlyIfSent` | `ToldSound`: of the sends of a result all but one are misses, and all of them unless the last is recorded, marked or in the hands of the handler that made it (`Accounted`): a handler thus starts only with misses behind it. What is marked or recorded was sent, or has no channel; this is the safety half of `ResultsAreSent`, as the recovery sweep passes over what is marked |
| `ScanTypeCorrect`, `OneScanAtATime`, `UrgentObservationsAreRead` | `ScanInv`: types; as long as no scan has outlived its flag, a scan in flight implies the flag (`FlagCovers`), so that the next trigger is turned down; and what a triage under way knew of urgent observations is nothing (`TriageKnowsNone`), because a gate that meets one chooses neither silence nor triage |

`SlotsSound` (`TaskSlots_proofs`) is the invariant of the slot manager for any tasks, sites and cap: the cap and the
queues alone are not inductive. A release promotes without looking at the cap and is right only because it has
just emptied a slot; that this leaves nobody waiting next to a free slot needs `WorkConserving` before the step,
and that the promoted task was not active needs the queues to be free of duplicates and of occupants.

"No deadlock" is stated with the guards of the actions written out (`CanGoOn`, `CanProgress`), since ENABLED is
beyond the provers. That every key set has a least and a greatest member is proved by a least counterexample
(`HasLeast`, `HasGreatest`): the induction theorems of the library cannot be used.

The two theorems with an assumption on `Disturbance` assume nothing else. The passing run that checks their
properties is an instance of both (`watcher_live`), and `watcher_gated_boot` is a counterexample outside the first.

Every invariant that a passing run checks is proved. Only model-checked: the liveness properties (`CloseReleasesAll`,
`EveryEventEnds`, `ClaimsSettle`, `DueTakenUp`, `RecurringAlive`, `MorningEnds`, `DayOpens`, `TaskEnds` of both
runners, `ResultsAreSent`, `SignalsTakenUp`) and the liveness half of `ImplementsEventQueue`: the provers know nothing of
fairness. Proved and not run, as a run would add nothing: `ScopesAreExclusive`, `ConversationsAreExclusive`,
`CapacityKept`, `QueuedExactlyOnce`, `OnlyEditsDouble`, `WhatIsActiveCanEnd`, `MarkedOnlyIfSent`, `GatesNeverDeadlock`, and the
type invariants of gates, dispatcher, morning routine, activity scan and both runners.

## 6. Not modelled

What a session does; the content of prompts, messages and files; weekly and monthly cadences; malformed
recurrence rules, which disable their schedule; deletion of a recurring schedule; migrations of the database.
Of the task runners: spend, telemetry, notifications of the browser runner, database writes that throw, a daemon
without a driver, deletion of rows, the follow-up message of a cancelled confirmation token. Of the delivery:
questions, browser tasks and forwarded messages on the same path, attachments, what the agent sends by itself in a
turn, the later flush of a batch, and how often an event of one task is in the bus. The browser runner's
`cancelPendingForTask` is awaited between the abort of a parked task and the removal of its handle; `CancelParked` and
`ExpireParked` have both in one step (a task parked on a question has no token to wait for). In `BootResume` the branch that finds no slot can only be taken when the cap was lowered across the
restart.

Of the activity scan: what the harvest fetches, how the signals outside the observations are computed, the limit of
100 rows of a silent consume, the 24 hours between two chronic escalations, the counts and labels of gate rows.

Adapters, observers and backends are I/O; their effect on the modelled parts is the arrival of events and the
end of sessions.

## 7. Plan

What is on disk is the path of an event (bus, permits, gates), the schedule table, the routine that opens the
day, the gated activity scan, and the two task runners with the delivery of results. In order of importance, next:

1. **Boot and crash of the morning routine.** The inline run of `bootstrap/catchup.ts`, recovery of wake rows,
   and a crash between any two stages; the list of owed reviews beside the owed scan. Then `MorningRoutine` over
   the rows of `ScheduleWatcher`, so that one table serves both.
2. **Lease.** An abstract lease (holder, time left, released by its holder or by time) that the locks of
   today.md, roadmap, overview and management files implement; `MorningRoutine`'s lock as the first instance.
3. **DeferredDm.** Deferred messages, the window of quiet hours that moves while rows wait, the flush.
4. **Conversation.** SessionManager and message handler over `SessionGate`: resume, supersede, stop, order of a
   conversation.
5. **Failover.** Health and choice of a backend, with the verdict of the spawn gate that is stale when used.

Abstract specifications worth stating besides `EventQueue`: the lease; "once per agent day" for the morning
routine; "sent at least once, and again only after a miss" for results and DMs.

Runs: one passing run per module and one per disagreement with a comment.

Proofs, in this order: that the runners of `BrowserTasks` and `BackgroundTasks` can always move a row that is not
finished, with the guards written out as for the gates; that `MorningRoutine` has a spare row for every wake when
there are enough of them, and how many that is; then the type invariant and the main invariant of each new module.
