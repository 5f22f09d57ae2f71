------------------------ MODULE ActivityScan_proofs ------------------------
(***************************************************************************)
(* Proofs about ActivityScan, for any number of triggers and observations,  *)
(* any gate settings and every fault: two scans are in flight together only *)
(* after one of them outlived its flag, and no observation the gate knew as *)
(* urgent is consumed unread.                                               *)
(*                                                                          *)
(* The argument for the first: while no scan has outlived its flag, a scan  *)
(* in flight implies the flag (FlagCovers), so the next trigger either sees *)
(* a flag to believe, or one too old, and then records that it outlived.    *)
(* For the second: a gate that meets an urgent signal computes a novelty of *)
(* 3 and never chooses silence or a triage, so whatever a triage knew of    *)
(* the urgent signals when it was asked is nothing (TriageKnowsNone).       *)
(***************************************************************************)
EXTENDS ActivityScan, FiniteSetTheorems, TLAPS

ScanStage == {"idle", "harvest", "triage", "queued", "running"}
Observed == {"absent", "new", "low", "mid", "high", "silenced", "handled"}

ScanTypeOK ==
  /\ flag \in BOOLEAN
  /\ age \in Nat /\ age <= MaxAge + 1
  /\ scan \in [Scan -> [stage : ScanStage, forced : BOOLEAN, knows : SUBSET Signal]]
  /\ obs \in [Obs -> Observed]
  /\ sinceStage3 \in Nat /\ sinceStage3 <= Heartbeat
  /\ open \in BOOLEAN
  /\ stage2 \in Stage2
  /\ faults \in Nat /\ faults <= MaxFaults
  /\ outlived \in BOOLEAN

FlagCovers ==
  ~outlived => /\ \A s, t \in InFlight : s = t
               /\ InFlight # {} => flag

TriageKnowsNone == \A s \in Scan : scan[s].stage = "triage" => scan[s].knows = {}

ScanInv == ScanTypeOK /\ FlagCovers /\ TriageKnowsNone

-----------------------------------------------------------------------------
LEMMA Bounds ==
  /\ MaxAge \in Nat /\ Heartbeat \in Nat /\ MaxFaults \in Nat
  /\ Level \subseteq {"low", "mid", "high"}
  BY ScanAssumption

\* A step of scan s to a record with another stage.
LEMMA MoveScan ==
  ASSUME ScanTypeOK, NEW s \in Scan, NEW r,
         r \in [stage : ScanStage, forced : BOOLEAN, knows : SUBSET Signal],
         scan' = [scan EXCEPT ![s] = r]
  PROVE  /\ scan' \in [Scan -> [stage : ScanStage, forced : BOOLEAN, knows : SUBSET Signal]]
         /\ InFlight' = IF r.stage = "idle" THEN InFlight \ {s} ELSE InFlight \cup {s}
         /\ (r.stage = "triage" => r.knows = {}) /\ TriageKnowsNone => TriageKnowsNone'
  BY DEF ScanTypeOK, InFlight, TriageKnowsNone

LEMMA IdleTyped ==
  /\ Idle \in [stage : ScanStage, forced : BOOLEAN, knows : SUBSET Signal]
  /\ Idle.stage = "idle" /\ Idle.forced = FALSE /\ Idle.knows = {}
  BY DEF Idle, ScanStage

\* An end of scan s, with or without the flag, leaves nobody in flight unless
\* some scan has outlived its flag.
LEMMA LeaveKeeps ==
  ASSUME ScanInv, NEW s \in Scan, scan[s].stage # "idle", Leave(s)
  PROVE  /\ scan' \in [Scan -> [stage : ScanStage, forced : BOOLEAN, knows : SUBSET Signal]]
         /\ outlived' \in BOOLEAN /\ FlagCovers' /\ TriageKnowsNone'
<1>1. scan' = [scan EXCEPT ![s] = Idle]
  BY DEF Leave
<1>2. /\ scan' \in [Scan -> [stage : ScanStage, forced : BOOLEAN, knows : SUBSET Signal]]
      /\ InFlight' = InFlight \ {s} /\ TriageKnowsNone'
  BY <1>1, IdleTyped, MoveScan DEF ScanInv
<1>3. outlived' = (outlived /\ InFlight # {s})
  BY DEF Leave
<1>4. ASSUME ~outlived' PROVE InFlight' = {}
  <2>1. CASE InFlight = {s}
    BY <1>2, <2>1
  <2>2. CASE ~outlived
    <3>1. s \in InFlight
      BY DEF InFlight
    <3>2. \A t \in InFlight : t = s
      BY <2>2, <3>1 DEF ScanInv, FlagCovers
    <3> QED
      BY <1>2, <3>2
  <2> QED
    BY <1>3, <1>4, <2>1, <2>2
<1>5. FlagCovers'
  BY <1>4 DEF FlagCovers
<1>6. outlived' \in BOOLEAN
  BY <1>3, Zenon
<1> QED
  BY <1>2, <1>5, <1>6

LEMMA EndKeeps ==
  ASSUME ScanInv, NEW s \in Scan, scan[s].stage # "idle", Leave(s),
         (flag' = FALSE /\ age' = 0) \/ UNCHANGED <<flag, age>>,
         obs' \in [Obs -> Observed], sinceStage3' \in {0, sinceStage3},
         faults' \in Nat, faults' <= MaxFaults, UNCHANGED <<open, stage2>>
  PROVE  ScanInv'
<1>1. /\ scan' \in [Scan -> [stage : ScanStage, forced : BOOLEAN, knows : SUBSET Signal]]
      /\ outlived' \in BOOLEAN /\ FlagCovers' /\ TriageKnowsNone'
  BY LeaveKeeps
<1>2. sinceStage3' \in Nat /\ sinceStage3' <= Heartbeat
  BY Bounds DEF ScanInv, ScanTypeOK
<1>3. open' \in BOOLEAN /\ stage2' \in Stage2
  BY DEF ScanInv, ScanTypeOK
<1>4. flag' \in BOOLEAN /\ age' \in Nat /\ age' <= MaxAge + 1
  <2>1. CASE flag' = FALSE /\ age' = 0
    <3>1. age' = 0 /\ MaxAge \in Nat
      BY <2>1, Bounds
    <3>2. age' \in Nat /\ age' <= MaxAge + 1
      BY <3>1
    <3>3. flag' \in BOOLEAN
      BY <2>1
    <3> QED
      BY <3>2, <3>3
  <2>2. CASE UNCHANGED <<flag, age>>
    BY <2>2 DEF ScanInv, ScanTypeOK
  <2> QED
    BY <2>1, <2>2
<1> QED
  BY <1>1, <1>2, <1>3, <1>4 DEF ScanInv, ScanTypeOK

\* A scan that goes on keeps the flag it has.
LEMMA StayKeeps ==
  ASSUME ScanInv, NEW s \in Scan, scan[s].stage # "idle", NEW r,
         r \in [stage : ScanStage, forced : BOOLEAN, knows : SUBSET Signal],
         r.stage # "idle", r.stage = "triage" => r.knows = {},
         scan' = [scan EXCEPT ![s] = r],
         UNCHANGED <<flag, age, obs, open, stage2, faults, outlived>>,
         sinceStage3' \in {0, sinceStage3}
  PROVE  ScanInv'
<1>1. s \in InFlight
  BY DEF InFlight
<1>2. /\ scan' \in [Scan -> [stage : ScanStage, forced : BOOLEAN, knows : SUBSET Signal]]
      /\ InFlight' = InFlight \cup {s} /\ TriageKnowsNone'
  BY MoveScan DEF ScanInv
<1>3. InFlight' = InFlight
  BY <1>1, <1>2
<1>4. FlagCovers'
  BY <1>3 DEF ScanInv, FlagCovers
<1>5. sinceStage3' \in Nat /\ sinceStage3' <= Heartbeat
  BY Bounds DEF ScanInv, ScanTypeOK
<1> QED
  BY <1>2, <1>4, <1>5 DEF ScanInv, ScanTypeOK

LEMMA ConsumeTyped ==
  ASSUME ScanTypeOK, NEW O, NEW by \in {"silenced", "handled"}, Consume(O, by)
  PROVE  obs' \in [Obs -> Observed]
  BY DEF ScanTypeOK, Consume, Observed

\* The gate sees every urgent signal: its novelty is then 3.
LEMMA UrgentIsSeen ==
  ASSUME ScanTypeOK, NEW o \in Signal, obs[o] = "high"
  PROVE  Novelty = 3
<1>1. obs \in [Obs -> Observed] /\ o \in Obs
  BY DEF ScanTypeOK, Obs
<1>2. o \in PendingSignals /\ 3 \in Scores
  <2>1. o \in PendingSignals
    BY <1>1 DEF PendingSignals, Pending, Unconsumed, Score
  <2>2. Score[obs[o]] = 3
    BY DEF Score
  <2> QED
    BY <2>1, <2>2 DEF Scores
<1>3. \A n \in Scores : n \in {1, 2, 3}
  BY <1>1 DEF Scores, PendingSignals, Pending, Unconsumed, Score
<1>4. \A n \in Scores : (\A k \in Scores : k <= n) => n = 3
  BY <1>2, <1>3
<1>5. \E n \in Scores : \A k \in Scores : k <= n
  BY <1>2, <1>3
<1> QED
  BY <1>2, <1>4, <1>5 DEF Novelty

\* So neither silence nor a triage is chosen while one is pending.
LEMMA UrgentGoesToStage3 ==
  ASSUME ScanTypeOK, NEW o \in Signal, obs[o] = "high", NEW other
  PROVE  decideStage(other) = "stage3"
<1>1. Novelty = 3
  BY UrgentIsSeen
<1>2. Novelty >= 2 /\ Novelty >= 3
  BY <1>1
<1> QED
  BY <1>2 DEF decideStage

-----------------------------------------------------------------------------
LEMMA InitScanInv == ScanInit => ScanInv
<1> SUFFICES ASSUME ScanInit PROVE ScanInv
  OBVIOUS
<1>1. age \in Nat /\ age <= MaxAge + 1 /\ sinceStage3 \in Nat /\ sinceStage3 <= Heartbeat
      /\ faults \in Nat /\ faults <= MaxFaults
  BY Bounds DEF ScanInit
<1>2. ScanTypeOK
  BY <1>1, IdleTyped DEF ScanInit, ScanTypeOK, Observed
<1>3. InFlight = {}
  BY IdleTyped DEF ScanInit, InFlight
<1>4. TriageKnowsNone
  BY IdleTyped DEF ScanInit, TriageKnowsNone
<1> QED
  BY <1>2, <1>3, <1>4 DEF ScanInv, FlagCovers

LEMMA SilenceKeeps ==
  ASSUME ScanInv, NEW s \in Scan, scan[s].stage # "idle", Silence(s),
         UNCHANGED <<open, stage2, faults>>
  PROVE  ScanInv'
<1>1. /\ Leave(s) /\ flag' = FALSE /\ age' = 0 /\ sinceStage3' = sinceStage3
      /\ Consume(Obs, "silenced")
  BY DEF Silence, End, ClearFlag
<1>2. obs' \in [Obs -> Observed]
  BY <1>1, ConsumeTyped DEF ScanInv
<1>3. faults' \in Nat /\ faults' <= MaxFaults
  BY DEF ScanInv, ScanTypeOK
<1> QED
  BY <1>1, <1>2, <1>3, EndKeeps

LEMMA DecideKeeps ==
  ASSUME ScanInv, NEW s \in Scan, Decide(s)
  PROVE  ScanInv'
<1>0. scan[s].stage = "harvest" /\ UNCHANGED <<open, stage2, faults>>
  BY DEF Decide
<1>1. PICK failed \in BOOLEAN, other \in SUBSET Distraction :
        LET stage == IF failed THEN "stage3" ELSE decideStage(other) IN
        \/ stage = "stage0_silent" /\ Silence(s)
        \/ stage = "stage2" /\ AskTriage(s)
        \/ stage = "stage3" /\ UnderFloor(s, other, failed) /\ SkipUnderFloor(s)
        \/ stage = "stage3" /\ ~UnderFloor(s, other, failed) /\ Enqueue(s)
  BY DEF Decide
<1>2. faults' \in Nat /\ faults' <= MaxFaults
  BY <1>0 DEF ScanInv, ScanTypeOK
<1>3. CASE Silence(s)
  BY <1>0, <1>3, SilenceKeeps
<1>4. CASE SkipUnderFloor(s)
  <2>1. /\ Leave(s) /\ flag' = FALSE /\ age' = 0 /\ sinceStage3' = 0 /\ obs' = obs
    BY <1>4 DEF SkipUnderFloor, End, ClearFlag
  <2>2. obs' \in [Obs -> Observed]
    BY <2>1 DEF ScanInv, ScanTypeOK
  <2> QED
    BY <1>0, <1>2, <2>1, <2>2, EndKeeps
<1>5. CASE Enqueue(s)
  <2> DEFINE r == [Idle EXCEPT !.stage = "queued"]
  <2>1. /\ r \in [stage : ScanStage, forced : BOOLEAN, knows : SUBSET Signal]
        /\ r.stage = "queued"
    BY DEF Idle, ScanStage
  <2>2. scan' = [scan EXCEPT ![s] = r] /\ UNCHANGED <<flag, age, obs, outlived>>
        /\ sinceStage3' = 0
    BY <1>5 DEF Enqueue
  <2> HIDE DEF r
  <2> QED
    BY <1>0, <2>1, <2>2, StayKeeps
<1>6. CASE AskTriage(s) /\ ~failed /\ decideStage(other) = "stage2"
  <2> DEFINE r == [Idle EXCEPT !.stage = "triage",
                               !.knows = {o \in Signal : obs[o] = "high"}]
  <2>1. {o \in Signal : obs[o] = "high"} = {}
    <3>1. \A o \in Signal : obs[o] # "high"
      BY <1>6, UrgentGoesToStage3 DEF ScanInv
    <3> QED
      BY <3>1
  <2>2. /\ r \in [stage : ScanStage, forced : BOOLEAN, knows : SUBSET Signal]
        /\ r.stage = "triage" /\ r.knows = {}
    BY <2>1 DEF Idle, ScanStage
  <2>3. /\ scan' = [scan EXCEPT ![s] = r]
        /\ UNCHANGED <<flag, age, obs, sinceStage3, outlived>>
    BY <1>6 DEF AskTriage
  <2> HIDE DEF r
  <2> QED
    BY <1>0, <2>2, <2>3, StayKeeps
<1> QED
  BY <1>1, <1>3, <1>4, <1>5, <1>6

LEMMA VerdictKeeps ==
  ASSUME ScanInv, NEW s \in Scan, Verdict(s)
  PROVE  ScanInv'
<1>0. scan[s].stage = "triage" /\ UNCHANGED <<open, stage2, faults>>
  BY DEF Verdict
<1>1. CASE Silence(s)
  BY <1>0, <1>1, SilenceKeeps
<1>2. CASE Enqueue(s)
  <2> DEFINE r == [Idle EXCEPT !.stage = "queued"]
  <2>1. /\ r \in [stage : ScanStage, forced : BOOLEAN, knows : SUBSET Signal]
        /\ r.stage = "queued"
    BY DEF Idle, ScanStage
  <2>2. scan' = [scan EXCEPT ![s] = r] /\ UNCHANGED <<flag, age, obs, outlived>>
        /\ sinceStage3' = 0
    BY <1>2 DEF Enqueue
  <2> HIDE DEF r
  <2> QED
    BY <1>0, <2>1, <2>2, StayKeeps
<1> QED
  BY <1>1, <1>2 DEF Verdict

LEMMA DispatchKeeps ==
  ASSUME ScanInv, NEW s \in Scan,
         \/ Dispatch(s) \/ SkipDispatch(s) \/ Finish(s) \/ Fail(s) \/ Lose(s)
  PROVE  ScanInv'
<1>0. scan[s].stage # "idle"
  BY DEF Dispatch, SkipDispatch, Finish, Fail, Lose
<1>1. CASE Dispatch(s)
  <2> DEFINE r == [scan[s] EXCEPT !.stage = "running", !.knows = PendingSignals]
  <2>1. /\ r \in [stage : ScanStage, forced : BOOLEAN, knows : SUBSET Signal]
        /\ r.stage = "running"
    BY DEF ScanInv, ScanTypeOK, ScanStage, PendingSignals
  <2>2. /\ scan' = [scan EXCEPT ![s] = r]
        /\ UNCHANGED <<flag, age, obs, sinceStage3, open, stage2, faults, outlived>>
    BY <1>1 DEF Dispatch
  <2> HIDE DEF r
  <2> QED
    BY <1>0, <2>1, <2>2, StayKeeps
<1>2. CASE SkipDispatch(s) \/ Fail(s) \/ Lose(s)
  <2>1. /\ Leave(s)
        /\ (flag' = FALSE /\ age' = 0) \/ UNCHANGED <<flag, age>>
        /\ UNCHANGED <<obs, sinceStage3, open, stage2>>
        /\ faults' = faults \/ (faults < MaxFaults /\ faults' = faults + 1)
    BY <1>2 DEF SkipDispatch, Fail, Lose, End, ClearFlag, Fails
  <2>2. obs' \in [Obs -> Observed] /\ faults' \in Nat /\ faults' <= MaxFaults
    BY <2>1, Bounds DEF ScanInv, ScanTypeOK
  <2> QED
    BY <1>0, <2>1, <2>2, EndKeeps
<1>3. CASE Finish(s)
  <2>1. /\ Leave(s) /\ flag' = FALSE /\ age' = 0 /\ Consume(scan[s].knows, "handled")
        /\ UNCHANGED <<sinceStage3, open, stage2, faults>>
    BY <1>3 DEF Finish, End, ClearFlag
  <2>2. obs' \in [Obs -> Observed]
    BY <2>1, ConsumeTyped DEF ScanInv
  <2>3. faults' \in Nat /\ faults' <= MaxFaults
    BY <2>1 DEF ScanInv, ScanTypeOK
  <2> QED
    BY <1>0, <2>1, <2>2, <2>3, EndKeeps
<1> QED
  BY <1>1, <1>2, <1>3

\* A trigger finds nobody in flight, or a flag that somebody outlived.
LEMMA TriggerKeeps ==
  ASSUME ScanInv, NEW s \in Scan, NEW forced \in BOOLEAN, Trigger(s, forced)
  PROVE  ScanInv'
<1> DEFINE r == [Idle EXCEPT !.stage = "harvest", !.forced = forced]
<1>1. /\ r \in [stage : ScanStage, forced : BOOLEAN, knows : SUBSET Signal]
      /\ r.stage = "harvest"
  BY DEF Idle, ScanStage
<1>2. /\ scan' = [scan EXCEPT ![s] = r] /\ flag' = TRUE /\ age' = 0
      /\ outlived' = Outlives /\ ~InProgress
      /\ UNCHANGED <<obs, sinceStage3, open, stage2, faults>>
  BY DEF Trigger, SetFlag
<1> HIDE DEF r
<1>3. /\ scan' \in [Scan -> [stage : ScanStage, forced : BOOLEAN, knows : SUBSET Signal]]
      /\ InFlight' = InFlight \cup {s} /\ TriageKnowsNone'
  BY <1>1, <1>2, MoveScan DEF ScanInv
<1>4. outlived' \in BOOLEAN
  BY <1>2, Zenon DEF Outlives, ScanInv, ScanTypeOK
<1>5. ASSUME ~outlived' PROVE InFlight = {}
  <2>1. ~outlived /\ ~(flag /\ age > MaxAge /\ InFlight # {})
    BY <1>2, <1>5 DEF Outlives
  <2>2. ~flag \/ age > MaxAge
    BY <1>2, Bounds DEF InProgress, ScanInv, ScanTypeOK
  <2> QED
    BY <2>1, <2>2 DEF ScanInv, FlagCovers
<1>6. FlagCovers'
  BY <1>2, <1>3, <1>5 DEF FlagCovers
<1>7. ScanTypeOK'
  BY <1>2, <1>3, <1>4, Bounds DEF ScanInv, ScanTypeOK
<1> QED
  BY <1>3, <1>6, <1>7 DEF ScanInv

LEMMA RefuseKeeps ==
  ASSUME ScanInv, Refuse
  PROVE  ScanInv'
<1>1. /\ flag /\ ~InProgress /\ flag' = FALSE /\ age' = 0 /\ outlived' = Outlives
      /\ UNCHANGED <<scan, obs, sinceStage3, open, stage2, faults>>
  BY DEF Refuse, ClearFlag
<1>2. InFlight' = InFlight
  BY <1>1 DEF InFlight
<1>3. ASSUME ~outlived' PROVE InFlight = {}
  <2>1. ~(flag /\ age > MaxAge /\ InFlight # {})
    BY <1>1, <1>3 DEF Outlives
  <2>2. age > MaxAge
    BY <1>1, Bounds DEF InProgress, ScanInv, ScanTypeOK
  <2> QED
    BY <1>1, <2>1, <2>2
<1>4. FlagCovers' /\ TriageKnowsNone'
  BY <1>1, <1>2, <1>3 DEF FlagCovers, ScanInv, TriageKnowsNone
<1>5. outlived' \in BOOLEAN
  BY <1>1, Zenon DEF Outlives, ScanInv, ScanTypeOK
<1> QED
  <2>1. age' \in Nat /\ age' <= MaxAge + 1
    BY <1>1, Bounds
  <2> QED
    BY <1>1, <1>4, <1>5, <2>1 DEF ScanInv, ScanTypeOK

\* What neither starts nor moves nor ends a scan.
LEMMA RestKeeps ==
  ASSUME ScanInv,
         \/ \E o \in Obs : Record(o)
         \/ \E o \in Signal : Summarise(o)
         \/ RefreshRoadmap \/ Restart \/ Close \/ Reopen \/ Tick
         \/ UNCHANGED scanVars
  PROVE  ScanInv'
<1> USE DEF ScanInv
<1>1. ASSUME obs' \in [Obs -> Observed],
             UNCHANGED <<flag, age, scan, sinceStage3, open, stage2, faults, outlived>>
      PROVE  ScanInv'
  BY <1>1 DEF ScanTypeOK, FlagCovers, InFlight, TriageKnowsNone
<1>2. ASSUME NEW o \in Obs, Record(o) PROVE ScanInv'
  BY <1>1, <1>2 DEF Record, ScanTypeOK, Observed
<1>3. ASSUME NEW o \in Signal, Summarise(o) PROVE ScanInv'
  <2>1. PICK n \in Level : obs' = [obs EXCEPT ![o] = n]
    BY <1>3 DEF Summarise
  <2>2. n \in Observed
    BY Bounds DEF Observed
  <2> QED
    BY <1>1, <1>3, <2>1, <2>2 DEF Summarise, ScanTypeOK
<1>4. CASE RefreshRoadmap
  BY <1>1, <1>4, ConsumeTyped DEF RefreshRoadmap
<1>5. CASE Restart
  <2>1. /\ flag' = FALSE /\ age' = 0 /\ scan' = [s \in Scan |-> Idle] /\ outlived' = FALSE
        /\ faults < MaxFaults /\ faults' = faults + 1
        /\ UNCHANGED <<obs, sinceStage3, open, stage2>>
    BY <1>5 DEF Restart, ClearFlag, Fails
  <2>2. InFlight' = {} /\ TriageKnowsNone'
    BY <2>1, IdleTyped DEF InFlight, TriageKnowsNone
  <2> QED
    <3>1. faults' \in Nat /\ faults' <= MaxFaults /\ age' \in Nat /\ age' <= MaxAge + 1
      BY <2>1, Bounds DEF ScanTypeOK
    <3> QED
      BY <2>1, <2>2, <3>1, IdleTyped DEF ScanTypeOK, FlagCovers
<1>6. CASE Close \/ Reopen \/ Tick \/ UNCHANGED scanVars
  <2>1. UNCHANGED <<flag, scan, obs, stage2, outlived>>
    BY <1>6 DEF Close, Reopen, Tick, scanVars
  <2>2. open' \in BOOLEAN
    BY <1>6 DEF Close, Reopen, Tick, scanVars, ScanTypeOK
  <2>3. faults' \in Nat /\ faults' <= MaxFaults
    BY <1>6, Bounds DEF Close, Fails, Reopen, Tick, scanVars, ScanTypeOK
  <2>4. age' \in Nat /\ age' <= MaxAge + 1
    BY <1>6, Bounds DEF Close, Reopen, Tick, Older, scanVars, ScanTypeOK
  <2>5. sinceStage3' \in Nat /\ sinceStage3' <= Heartbeat
    BY <1>6, Bounds DEF Close, Reopen, Tick, Older, scanVars, ScanTypeOK
  <2> QED
    BY <2>1, <2>2, <2>3, <2>4, <2>5 DEF ScanTypeOK, FlagCovers, InFlight, TriageKnowsNone
<1> QED
  BY <1>1, <1>2, <1>3, <1>4, <1>5, <1>6

LEMMA NextScanInv == ScanInv /\ [ScanNext]_scanVars => ScanInv'
  BY DecideKeeps, VerdictKeeps, DispatchKeeps, TriggerKeeps, RefuseKeeps, RestKeeps
     DEF ScanNext, ScanStep

LEMMA ScanInvHolds == ScanSpec => []ScanInv
  BY InitScanInv, NextScanInv, PTL DEF ScanSpec

-----------------------------------------------------------------------------
\* Every reachable state of the scan is well typed.
THEOREM ScanTypeCorrect == ScanSpec => []ScanTypeOK
<1>1. ScanInv => ScanTypeOK
  BY DEF ScanInv
<1> QED
  BY <1>1, ScanInvHolds, PTL

\* Two scans are in flight only after one of them outlived its flag, whatever
\* was refused, lost, skipped, failed or restarted.
THEOREM OneScanAtATime == ScanSpec => []OneScan
<1>1. ScanInv => OneScan
  <2> SUFFICES ASSUME ScanInv, ~outlived PROVE ~(Cardinality(InFlight) > 1)
    BY DEF OneScan
  <2>1. CASE InFlight = {}
    BY <2>1, FS_EmptySet
  <2>2. ASSUME NEW s \in InFlight PROVE ~(Cardinality(InFlight) > 1)
    <3>1. InFlight = {s}
      BY DEF ScanInv, FlagCovers
    <3>2. Cardinality(InFlight) = 1
      BY <3>1, FS_Singleton
    <3> QED
      BY <3>2
  <2> QED
    BY <2>1, <2>2
<1> QED
  BY <1>1, ScanInvHolds, PTL

LEMMA UrgentStep ==
  ASSUME ScanInv, [ScanNext]_scanVars,
         NEW o \in Signal, obs[o] = "high", obs'[o] = "silenced"
  PROVE  \E s \in Scan : /\ scan[s].stage = "triage" /\ scan'[s] = Idle
                         /\ o \notin scan[s].knows
<1>0. o \in Obs /\ obs \in [Obs -> Observed]
  BY DEF Obs, ScanInv, ScanTypeOK
<1>1. ASSUME NEW s \in Scan, Verdict(s)
      PROVE  scan[s].stage = "triage" /\ scan'[s] = Idle /\ o \notin scan[s].knows
  <2>1. Silence(s)
    BY <1>1 DEF Verdict, Enqueue
  <2>2. scan'[s] = Idle
    BY <2>1 DEF Silence, End, Leave, ScanInv, ScanTypeOK
  <2>3. scan[s].stage = "triage"
    BY <1>1 DEF Verdict
  <2>4. scan[s].knows = {}
    BY <2>3 DEF ScanInv, TriageKnowsNone
  <2> QED
    BY <2>2, <2>3, <2>4
<1>2. ASSUME NEW s \in Scan, Decide(s) PROVE FALSE
  <2>1. \A other : decideStage(other) = "stage3"
    BY UrgentGoesToStage3 DEF ScanInv
  <2>2. SkipUnderFloor(s) \/ Enqueue(s)
    BY <1>2, <2>1 DEF Decide
  <2> QED
    BY <2>2 DEF SkipUnderFloor, Enqueue
<1>3. ASSUME NEW O, Consume(O, "handled") PROVE FALSE
  BY <1>0, <1>3 DEF Consume
<1>4. ASSUME NEW x \in Obs, Record(x) PROVE FALSE
  BY <1>0, <1>4 DEF Record
<1>5. ASSUME NEW x \in Signal, Summarise(x) PROVE FALSE
  BY <1>0, <1>5, Bounds DEF Summarise
<1>6. CASE obs' = obs
  BY <1>6
<1> QED
  BY <1>1, <1>2, <1>3, <1>4, <1>5, <1>6
     DEF ScanNext, ScanStep, Dispatch, SkipDispatch, Finish, Fail, Lose, Trigger,
         Refuse, RefreshRoadmap, Restart, Close, Reopen, Tick, scanVars

\* No observation is consumed unread that was urgent when the path of its scan
\* was chosen.
THEOREM UrgentObservationsAreRead == ScanSpec => UrgentIsRead
<1>1. ScanInv /\ [ScanNext]_scanVars =>
        [\A o \in Signal : obs[o] = "high" /\ obs'[o] = "silenced" =>
           \E s \in Scan : /\ scan[s].stage = "triage" /\ scan'[s] = Idle
                           /\ o \notin scan[s].knows]_scanVars
  BY UrgentStep
<1> QED
  BY <1>1, ScanInvHolds, PTL DEF ScanSpec, UrgentIsRead
=============================================================================
