---------------------------- MODULE ActivityScan ----------------------------
(***************************************************************************)
(* core/dispatcher-activity-scan.ts with scheduler/activity-scan-gate.ts    *)
(* and the `activityScanInProgress` flag of core/dispatcher.ts.  A trigger  *)
(* sets the flag, harvests, lets the gate decide from the observations that *)
(* are pending then, and silences them, asks a triage, or puts an event     *)
(* whose dispatch clears the flag at its end, unless the event is lost.     *)
(*                                                                          *)
(* Abstractions: an observation is a row, known by its kind and by the      *)
(* score of its summary; what else the gate reads (mail index, calendar     *)
(* conflicts, plan, schedule, failing agents) is chosen freely from         *)
(* Distraction; time passes in ticks, one for the maximal age of the flag   *)
(* and for the heartbeat alike; the silent path takes every pending row,    *)
(* where the code takes the 100 oldest.                                     *)
(***************************************************************************)
EXTENDS Naturals, FiniteSets

CONSTANTS
  Scan,            \* calls of trigger() that may be in flight together
  Signal,          \* observations of the five kinds the gate looks at
  Calendar,        \* those of them that are about the calendar
  Candidate,       \* `roadmap_candidate:*` observations, of no such kind
  Level,           \* scores the summaries get: subset of {"low", "mid", "high"}
  Stage2,          \* settings of activityScanStage2Enabled to consider
  Ceiling,         \* activityScanLowSignalPendingCeiling
  MinObservations, \* minObservations of the cadence
  Heartbeat,       \* activityScanHeartbeatHours, in ticks
  MaxAge,          \* ACTIVITY_SCAN_FLAG_MAX_AGE_MS, in ticks
  Distraction,     \* subset of {"chronic", "hard"}
  Fault,           \* subset of {"lose", "skip", "fail", "restart", "close"}
  MaxFaults        \* bound on the number of faults

ASSUME ScanAssumption ==
  /\ IsFiniteSet(Signal) /\ IsFiniteSet(Candidate)
  /\ Signal \cap Candidate = {} /\ Calendar \subseteq Signal
  /\ Level \subseteq {"low", "mid", "high"}
  /\ Stage2 \subseteq BOOLEAN /\ Stage2 # {}
  /\ {Ceiling, MinObservations, Heartbeat, MaxAge, MaxFaults} \subseteq Nat
  /\ Distraction \subseteq {"chronic", "hard"}
  /\ Fault \subseteq {"lose", "skip", "fail", "restart", "close"}

VARIABLES
  flag,         \* activityScanInProgress
  age,          \* ticks since activityScanInProgressAt
  scan,         \* scan[s]: "idle", "harvest", "triage", "queued" or "running",
                \* with `force` and the observations the call knows of
  obs,          \* obs[o]: absent, pending with its score, or how consumed
  sinceStage3,  \* ticks since the last gate row of stage 3
  open,         \* the set-up and morning gates let autonomous work pass
  stage2,       \* activityScanStage2Enabled
  faults,       \* faults so far
  outlived      \* history: of the scans in flight, one outlived its flag

scanVars == <<flag, age, scan, obs, sinceStage3, open, stage2, faults, outlived>>

Obs == Signal \cup Candidate
Score == [low |-> 1, mid |-> 2, high |-> 3]   \* novelty_score
Unconsumed == {"new"} \cup DOMAIN Score       \* "new": no summary yet
Idle == [stage |-> "idle", forced |-> FALSE, knows |-> {}]

Pending == {o \in Obs : obs[o] \in Unconsumed}
InFlight == {s \in Scan : scan[s].stage # "idle"}

ScanInit ==
  /\ flag = FALSE /\ age = 0
  /\ scan = [s \in Scan |-> Idle]
  /\ obs = [o \in Obs |-> "absent"]
  /\ sinceStage3 = Heartbeat
  /\ open = TRUE
  /\ stage2 \in Stage2
  /\ faults = 0 /\ outlived = FALSE

-----------------------------------------------------------------------------
\* The flag.

\* Mutation: the flag is believed whatever its age.
BelievedForEver == flag

\* isActivityScanInProgress: a flag that is too old is not believed.
InProgress == flag /\ age <= MaxAge

\* The auto-clear of a flag whose scan is still alive.
Outlives == outlived \/ (flag /\ age > MaxAge /\ InFlight # {})

SetFlag == flag' = TRUE /\ age' = 0
ClearFlag == flag' = FALSE /\ age' = 0

Leave(s) ==
  /\ scan' = [scan EXCEPT ![s] = Idle]
  /\ outlived' = (outlived /\ InFlight # {s})

\* Every end clears the flag, whichever scan has set it.
End(s) == ClearFlag /\ Leave(s)

Fails(f) == f \in Fault /\ faults < MaxFaults /\ faults' = faults + 1

-----------------------------------------------------------------------------
\* The observations, written by pollers, sessions and the summarizer.

\* recordObservation: a new row, or the pending row of the same reference with
\* another payload, whose summary is started again.
Record(o) ==
  /\ obs[o] \in {"absent"} \cup Unconsumed
  /\ obs' = [obs EXCEPT ![o] = "new"]
  /\ UNCHANGED <<flag, age, scan, sinceStage3, open, stage2, faults, outlived>>

\* The worker scores every row; the gate never reads the score of a candidate.
Summarise(o) ==
  /\ obs[o] = "new"
  /\ \E n \in Level : obs' = [obs EXCEPT ![o] = n]
  /\ UNCHANGED <<flag, age, scan, sinceStage3, open, stage2, faults, outlived>>

\* consumeObservations: only what is still pending.
Consume(O, by) ==
  obs' = [o \in Obs |-> IF o \in O \cap Pending THEN by ELSE obs[o]]

\* The roadmap refresh takes the candidates that wait for it.
RefreshRoadmap ==
  /\ Candidate \cap Pending # {}
  /\ Consume(Candidate, "handled")
  /\ UNCHANGED <<flag, age, scan, sinceStage3, open, stage2, faults, outlived>>

-----------------------------------------------------------------------------
\* The gate.

PendingSignals == Pending \cap Signal
Scores == {Score[obs[o]] : o \in {p \in PendingSignals : obs[p] # "new"}}

\* maxNoveltyScore, with the default of numericNovelty when nothing has one.
Novelty == IF Scores = {} THEN 2
           ELSE CHOOSE n \in Scores : \A k \in Scores : k <= n

FewSignals ==
  /\ Cardinality(PendingSignals) <= Ceiling
  /\ PendingSignals \cap Calendar = {}

Cautious == IF stage2 THEN "stage2" ELSE "stage3"

\* Mutation: the ceiling is looked at before the urgent signals.
decideStageCeilingFirst(other) ==
  CASE "chronic" \in other -> "stage3"
    [] "chronic" \notin other /\ sinceStage3 >= Heartbeat ->
         IF Novelty >= 2 THEN "stage3" ELSE Cautious
    [] OTHER ->
         IF FewSignals THEN "stage0_silent"
         ELSE IF Novelty >= 3 \/ "hard" \in other THEN "stage3" ELSE Cautious

\* decideStage, in the order of its clauses.
decideStage(other) ==
  CASE "chronic" \in other -> "stage3"
    [] "chronic" \notin other /\ sinceStage3 >= Heartbeat ->
         IF Novelty >= 2 THEN "stage3" ELSE Cautious
    [] OTHER ->
         IF Novelty >= 3 \/ "hard" \in other THEN "stage3"
         ELSE IF FewSignals THEN "stage0_silent" ELSE Cautious

\* The pending rows are counted whatever their kind.
UnderFloor(s, other, failed) ==
  /\ ~scan[s].forced /\ ~failed /\ "chronic" \notin other
  /\ Cardinality(Pending) < MinObservations

-----------------------------------------------------------------------------
\* trigger(), from the flag to its end.

Trigger(s, forced) ==
  /\ scan[s] = Idle
  /\ ~InProgress /\ open
  /\ SetFlag
  /\ scan' = [scan EXCEPT ![s] = [Idle EXCEPT !.stage = "harvest",
                                              !.forced = forced]]
  /\ outlived' = Outlives
  /\ UNCHANGED <<obs, sinceStage3, open, stage2, faults>>

\* The synchronous gates refuse and take the flag back, a stale one with it.
Refuse ==
  /\ flag /\ ~InProgress /\ ~open
  /\ ClearFlag
  /\ outlived' = Outlives
  /\ UNCHANGED <<scan, obs, sinceStage3, open, stage2, faults>>

\* runSilentActivityScanPath
Silence(s) == Consume(Obs, "silenced") /\ End(s) /\ UNCHANGED sinceStage3

\* Mutation: the finally of trigger() forgets that an event was put.
EnqueueClearing(s) ==
  /\ scan' = [scan EXCEPT ![s] = [Idle EXCEPT !.stage = "queued"]]
  /\ sinceStage3' = 0
  /\ ClearFlag
  /\ UNCHANGED <<obs, outlived>>

\* enqueueStage3ActivityScan: the gate row comes first, the flag stays.
Enqueue(s) ==
  /\ scan' = [scan EXCEPT ![s] = [Idle EXCEPT !.stage = "queued"]]
  /\ sinceStage3' = 0
  /\ UNCHANGED <<flag, age, obs, outlived>>

\* The skip under the floor writes a gate row of stage 3, too.
SkipUnderFloor(s) == End(s) /\ sinceStage3' = 0 /\ UNCHANGED obs

\* runStage2Triage starts; the verdict will be about what is known now.
AskTriage(s) ==
  /\ scan' = [scan EXCEPT ![s] = [Idle EXCEPT !.stage = "triage",
                !.knows = {o \in Signal : obs[o] = "high"}]]
  /\ UNCHANGED <<flag, age, obs, sinceStage3, outlived>>

\* The harvest is back, failed or not: gate, floor and path in one step.
Decide(s) ==
  /\ scan[s].stage = "harvest"
  /\ \E failed \in BOOLEAN, other \in SUBSET Distraction :
       LET stage == IF failed THEN "stage3" ELSE decideStage(other) IN
       \/ stage = "stage0_silent" /\ Silence(s)
       \/ stage = "stage2" /\ AskTriage(s)
       \/ stage = "stage3" /\ UnderFloor(s, other, failed) /\ SkipUnderFloor(s)
       \/ stage = "stage3" /\ ~UnderFloor(s, other, failed) /\ Enqueue(s)
  /\ UNCHANGED <<open, stage2, faults>>

\* The verdict of the triage; one that cannot be read escalates.
Verdict(s) ==
  /\ scan[s].stage = "triage"
  /\ Silence(s) \/ Enqueue(s)
  /\ UNCHANGED <<open, stage2, faults>>

-----------------------------------------------------------------------------
\* The event on the bus and in dispatchSafe.

\* The gate may be closed by now: dispatchSafe looks at the set-up alone, not at
\* the morning routine.
Dispatch(s) ==
  /\ scan[s].stage = "queued"
  /\ scan' = [scan EXCEPT ![s] = [@ EXCEPT !.stage = "running",
                                           !.knows = PendingSignals]]
  /\ UNCHANGED <<flag, age, obs, sinceStage3, open, stage2, faults, outlived>>

\* Set-up, the cost cap or the spawn gate skips the event: the finally block
\* clears the flag all the same.
SkipDispatch(s) ==
  /\ scan[s].stage = "queued"
  /\ (~open /\ UNCHANGED faults) \/ Fails("skip")
  /\ End(s)
  /\ UNCHANGED <<obs, sinceStage3, open, stage2>>

\* The session is over and has consumed what it read, or has failed.
Finish(s) ==
  /\ scan[s].stage = "running"
  /\ Consume(scan[s].knows, "handled") /\ End(s)
  /\ UNCHANGED <<sinceStage3, open, stage2, faults>>

Fail(s) ==
  /\ scan[s].stage = "running"
  /\ Fails("fail") /\ End(s)
  /\ UNCHANGED <<obs, sinceStage3, open, stage2>>

\* The bus drops or evicts the event: nobody clears the flag.
Lose(s) ==
  /\ scan[s].stage = "queued"
  /\ Fails("lose") /\ Leave(s)
  /\ UNCHANGED <<flag, age, obs, sinceStage3, open, stage2>>

-----------------------------------------------------------------------------
\* A crash takes the flag and the scans; rows and gate rows stay.
Restart ==
  /\ Fails("restart")
  /\ ClearFlag
  /\ scan' = [s \in Scan |-> Idle] /\ outlived' = FALSE
  /\ UNCHANGED <<obs, sinceStage3, open, stage2>>

Close == /\ open /\ Fails("close") /\ open' = FALSE
         /\ UNCHANGED <<flag, age, scan, obs, sinceStage3, stage2, outlived>>

Reopen == /\ ~open /\ open' = TRUE
          /\ UNCHANGED <<flag, age, scan, obs, sinceStage3, stage2, faults, outlived>>

Older(n, limit) == IF n < limit THEN n + 1 ELSE n

\* Time passes; neither clock is read beyond its limit.
Tick ==
  /\ age' = IF flag THEN Older(age, MaxAge + 1) ELSE 0
  /\ sinceStage3' = Older(sinceStage3, Heartbeat)
  /\ UNCHANGED <<flag, scan, obs, open, stage2, faults, outlived>>

ScanStep(s) ==
  \/ Decide(s) \/ Verdict(s)
  \/ Dispatch(s) \/ SkipDispatch(s) \/ Finish(s) \/ Fail(s) \/ Lose(s)

ScanNext ==
  \/ \E s \in Scan : ScanStep(s) \/ \E forced \in BOOLEAN : Trigger(s, forced)
  \/ \E o \in Obs : Record(o)
  \/ \E o \in Signal : Summarise(o)
  \/ Refuse \/ RefreshRoadmap \/ Restart \/ Close \/ Reopen \/ Tick

\* The cron triggers a scan again and again, time passes, and every await of
\* a scan comes back: the harvest, the triage and the session have timeouts,
\* and a queued event is taken up.
ScanFairness ==
  /\ WF_scanVars(\E s \in Scan : Trigger(s, FALSE))
  /\ WF_scanVars(Tick)
  /\ \A s \in Scan : /\ WF_scanVars(Decide(s) \/ Verdict(s))
                     /\ WF_scanVars(Dispatch(s) \/ SkipDispatch(s))
                     /\ WF_scanVars(Finish(s))

ScanSpec == ScanInit /\ [][ScanNext]_scanVars /\ ScanFairness

-----------------------------------------------------------------------------
\* One scan at a time, though the flag is cleared by another function than the
\* one that set it, rolled back by refusals and forgotten by restarts: two are
\* in flight only after one of them outlived the maximal age of its flag.
OneScan == Cardinality(InFlight) > 1 => outlived

\* The gate silences no observation it knew, or could have known, as urgent:
\* what is consumed unread scored below "high" when the path was chosen, by
\* the gate in the same step, or by the triage at its start.
UrgentIsRead ==
  [][\A o \in Signal : obs[o] = "high" /\ obs'[o] = "silenced" =>
       \E s \in Scan : /\ scan[s].stage = "triage" /\ scan'[s] = Idle
                       /\ o \notin scan[s].knows]_scanVars

\* An observation is taken up, read or silenced, as long as the gates are open:
\* no lost event, skip, failed session, late end or restart keeps the scans
\* away for ever.
SignalsTakenUp ==
  \A o \in Signal : o \in Pending ~> o \notin Pending \/ ~open

\* A candidate that was queued for the roadmap refresh waits for it.
CandidatesWait == \A o \in Candidate : obs[o] # "silenced"
=============================================================================
