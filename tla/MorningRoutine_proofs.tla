------------------------ MODULE MorningRoutine_proofs ------------------------
(***************************************************************************)
(* Theorems about MorningRoutine: its type invariant, that a day counts as  *)
(* opened only with a today.md of that day, that the write lock is a lease, *)
(* and that whatever keeps the routine active can be ended or taken back,   *)
(* for any number of rows and runs, any retry limit, threshold and time to  *)
(* live.                                                                   *)
(***************************************************************************)
EXTENDS MorningRoutine, TLAPS

Wakes == [status : {"absent", "pending", "running"},
          due : 0..(MaxRetries * Backoff), stale : BOOLEAN,
          age : Unstamped..Threshold, retry : 0..MaxRetries]
Runs == [stage : Stage, row : Row \cup {None}, retry : 0..MaxRetries,
         crossed : BOOLEAN, verdict : Verdict]

\* A retry is due after a back-off that grows with the attempts.
LEMMA BackoffBound ==
  ASSUME NEW n \in 0..MaxRetries
  PROVE  n * Backoff \in 0..(MaxRetries * Backoff)
<1>1. \A a, b, c \in Nat : a <= b => a * c <= b * c
  BY Z3
<1> QED
  BY <1>1, MorningAssumption, SMT

\* A new row and a spare run have the types of rows and runs.
LEMMA Blank == NoRow \in Wakes /\ Idle \in Runs
<1>1. 0 \in 0..(MaxRetries * Backoff)
  BY BackoffBound, MorningAssumption
<1> QED
  BY <1>1, MorningAssumption DEF NoRow, Idle, Wakes, Runs, Unstamped, Stage, Verdict

-----------------------------------------------------------------------------
(* The table of wake rows keeps its type.                                   *)

LEMMA InsertedType ==
  ASSUME NEW table \in [Row -> Wakes], NEW wake \in Wakes
  PROVE  Inserted(table, wake) \in [Row -> Wakes]
BY DEF Inserted

LEMMA SettledType ==
  ASSUME NEW table \in [Row -> Wakes], NEW r
  PROVE  Settled(table, r) \in [Row -> Wakes]
BY Blank DEF Settled, Running

LEMMA DiscardedType ==
  ASSUME NEW table \in [Row -> Wakes]
  PROVE  Discarded(table) \in [Row -> Wakes]
BY Blank DEF Discarded

LEMMA ScheduleRetryType ==
  ASSUME NEW table \in [Row -> Wakes], NEW u \in Run, run \in [Run -> Runs]
  PROVE  ScheduleRetry(table, u) \in [Row -> Wakes]
<1>1. CASE run[u].retry + 1 > MaxRetries \/ Pending(table) # {}
  BY <1>1 DEF ScheduleRetry
<1>2. CASE ~(run[u].retry + 1 > MaxRetries \/ Pending(table) # {})
  <2>1. run[u].retry \in 0..MaxRetries
    BY DEF Runs
  <2>2. run[u].retry + 1 \in 0..MaxRetries
    BY <1>2, <2>1, MorningAssumption
  <2>3. (run[u].retry + 1) * Backoff \in 0..(MaxRetries * Backoff)
    BY <2>2, BackoffBound
  <2>4. RetryRow(u) \in Wakes
    BY <2>1, <2>2, <2>3, Blank DEF RetryRow, NoRow, Wakes
  <2> QED
    BY <1>2, <2>4, InsertedType DEF ScheduleRetry
<1> QED
  BY <1>1, <1>2

LEMMA QueueWakeType ==
  ASSUME NEW table \in [Row -> Wakes], QueueWake(table)
  PROVE  row' \in [Row -> Wakes]
<1>1. CASE ActiveRows(table) = {}
  <2>1. [NoRow EXCEPT !.status = "pending"] \in Wakes
    BY Blank DEF NoRow, Wakes
  <2> QED
    BY <1>1, <2>1, InsertedType DEF QueueWake
<1>2. CASE ActiveRows(table) # {}
  <2>1. PICK r \in ActiveRows(table) : row' = [table EXCEPT ![r] = Merged(@)]
    BY <1>2 DEF QueueWake
  <2>2. Merged(table[r]) \in Wakes
    BY <2>1 DEF Merged, Wakes, ActiveRows, Pending, Running
  <2> QED
    BY <2>1, <2>2
<1> QED
  BY <1>1, <1>2

-----------------------------------------------------------------------------
(* The type invariant.                                                      *)

\* What the type invariant says of the variables other than rows and runs.
Rest ==
  /\ flag \in BOOLEAN
  /\ holder \in Run \cup {None} /\ left \in 0..TTL
  /\ today \in {"missing", "earlier", "current"}
  /\ ranToday \in BOOLEAN /\ rang \in BOOLEAN
  /\ requeues \in 0..MaxRequeues
  /\ disturbed \in 0..MaxDisturbed

LEMMA TypeParts ==
  MorningTypeOK <=> row \in [Row -> Wakes] /\ run \in [Run -> Runs] /\ Rest
BY DEF MorningTypeOK, Wakes, Runs, Rest

\* The parts of a run's record a step may change keep it a run.
LEMMA RunTypes ==
  ASSUME NEW u \in Run, run \in [Run -> Runs]
  PROVE  /\ \A s \in Stage : [run EXCEPT ![u].stage = s] \in [Run -> Runs]
         /\ \A s \in Stage : \A v \in Verdict :
              [run EXCEPT ![u].stage = s, ![u].verdict = v] \in [Run -> Runs]
         /\ [run EXCEPT ![u] = Idle] \in [Run -> Runs]
BY Blank DEF Runs

LEMMA RowStep ==
  ASSUME run \in [Run -> Runs], row \in [Row -> Wakes], Rest,
         UNCHANGED <<run, flag, lock, today, ranToday, disturbed>>,
         row' \in [Row -> Wakes], rang' \in BOOLEAN, requeues' \in 0..MaxRequeues
  PROVE  row' \in [Row -> Wakes] /\ run' \in [Run -> Runs] /\ Rest'
BY DEF Rest, lock

LEMMA FinishType ==
  ASSUME NEW u \in Run, NEW fresh \in BOOLEAN, Finish(u, fresh),
         row \in [Row -> Wakes], run \in [Run -> Runs], Rest
  PROVE  /\ row' \in [Row -> Wakes] /\ run' \in [Run -> Runs]
         /\ flag' \in BOOLEAN
<1>1. (IF fresh THEN row ELSE ScheduleRetry(row, u)) \in [Row -> Wakes]
  BY ScheduleRetryType
<1>2. row' \in [Row -> Wakes]
  BY <1>1, SettledType DEF Finish
<1> QED
  BY <1>2, RunTypes DEF Finish, Rest

LEMMA AskingType ==
  ASSUME row \in [Row -> Wakes], run \in [Run -> Runs], Rest,
         OpenDay \/ Ask \/ ScanGate \/ DiscardStale
  PROVE  row' \in [Row -> Wakes] /\ run' \in [Run -> Runs] /\ Rest'
<1>1. CASE OpenDay
  <2>1. row' \in [Row -> Wakes]
    BY <1>1, DiscardedType, QueueWakeType DEF OpenDay
  <2> QED
    BY <1>1, <2>1, RowStep DEF OpenDay, Rest
<1>2. CASE Ask \/ ScanGate
  <2>1. row' \in [Row -> Wakes]
    BY <1>2, QueueWakeType DEF Ask, ScanGate
  <2> QED
    BY <1>2, <2>1, RowStep DEF Ask, ScanGate, Rest, day
<1>3. CASE DiscardStale
  BY <1>3, DiscardedType, RowStep DEF DiscardStale, Rest, day
<1> QED
  BY <1>1, <1>2, <1>3

LEMMA ClaimType ==
  ASSUME row \in [Row -> Wakes], run \in [Run -> Runs], Rest,
         NEW r \in Row, Claim(r)
  PROVE  row' \in [Row -> Wakes] /\ run' \in [Run -> Runs] /\ Rest'
<1>1. row' \in [Row -> Wakes]
  <2>1. \A w \in Wakes : [w EXCEPT !.status = "running", !.age = 0] \in Wakes
    <3>1. 0 \in Unstamped..Threshold
      BY MorningAssumption DEF Unstamped
    <3> QED
      BY <3>1 DEF Wakes
  <2>2. Discarded(row) \in [Row -> Wakes]
    BY DiscardedType
  <2>3. row' = [Discarded(row) EXCEPT ![r] = [@ EXCEPT !.status = "running", !.age = 0]]
    BY <2>2 DEF Claim
  <2> QED
    BY <2>1, <2>2, <2>3
<1>2. run' \in [Run -> Runs]
  <2> DEFINE new == [Idle EXCEPT !.stage = "queued", !.row = r,
                                 !.retry = row[r].retry]
  <2>1. new \in Runs
    BY Blank DEF Idle, Runs, Wakes, Stage
  <2>2. run' = [run EXCEPT ![CHOOSE u \in Spare : TRUE] = new]
    BY DEF Claim
  <2> QED
    BY <2>1, <2>2
<1> QED
  BY <1>1, <1>2 DEF Claim, Rest, lock, day

LEMMA DisturbedType ==
  ASSUME row \in [Row -> Wakes], run \in [Run -> Runs], Rest,
         NEW u \in Run, Lose(u) \/ Release(u) \/ Hang(u)
  PROVE  row' \in [Row -> Wakes] /\ run' \in [Run -> Runs] /\ Rest'
<1>1. \A kind : Disturbed(kind) => disturbed' \in 0..MaxDisturbed
  BY MorningAssumption DEF Disturbed, Rest
<1>2. CASE Lose(u)
  BY <1>1, <1>2, RunTypes DEF Lose, Rest, lock, day
<1>3. CASE Release(u)
  <2>1. row' \in [Row -> Wakes]
    BY <1>3, MorningAssumption DEF Release, Wakes, Unstamped, Running
  <2> QED
    BY <1>1, <1>3, <2>1, RunTypes DEF Release, Rest, lock, day
<1>4. CASE Hang(u)
  <2>1. [Idle EXCEPT !.stage = "hung"] \in Runs
    BY Blank DEF Idle, Runs, Stage
  <2>2. run' \in [Run -> Runs]
    BY <1>4, <2>1 DEF Hang
  <2> QED
    BY <1>1, <1>4, <2>2 DEF Hang, Rest, lock, day
<1> QED
  BY <1>2, <1>3, <1>4

LEMMA LockTypes ==
  ASSUME Rest, NEW u \in Run, ReleaseLock(u)
  PROVE  holder' \in Run \cup {None} /\ left' \in 0..TTL
BY MorningAssumption DEF Rest, ReleaseLock, lock

LEMMA RunStepType ==
  ASSUME row \in [Row -> Wakes], run \in [Run -> Runs], Rest,
         NEW u \in Run, RunStep(u) \/ WriteToday(u)
  PROVE  row' \in [Row -> Wakes] /\ run' \in [Run -> Runs] /\ Rest'
<1>1. CASE Skip(u)
  BY <1>1, SettledType, RunTypes DEF Skip, Rest, lock, day
<1>2. CASE Denied(u)
  <2>1. row' \in [Row -> Wakes]
    BY <1>2, ScheduleRetryType, SettledType DEF Denied
  <2> QED
    BY <1>2, <2>1, RunTypes DEF Denied, Rest, lock, day
<1>3. CASE Start(u)
  <2>1. run' \in [Run -> Runs]
    BY <1>3, RunTypes DEF Start, Stage
  <2> QED
    BY <1>3, <2>1, MorningAssumption DEF Start, Rest
<1>4. CASE StartPipeline(u)
  BY <1>4, RunTypes DEF StartPipeline, Stage, Rest, lock, day
<1>5. CASE PipelineThrows(u)
  <2>1. TodayFresh \in BOOLEAN
    BY DEF TodayFresh
  <2> QED
    BY <1>5, <2>1, FinishType, LockTypes DEF PipelineThrows, Rest, day
<1>6. CASE \E ok \in BOOLEAN : PipelineEnds(u, ok)
  <2>1. PICK v \in Verdict : run' = [run EXCEPT ![u].stage = "closing", ![u].verdict = v]
    BY <1>6 DEF PipelineEnds, Verdict
  <2>2. run' \in [Run -> Runs]
    BY <2>1, RunTypes DEF Stage
  <2> QED
    BY <1>6, <2>2, LockTypes DEF PipelineEnds, Rest, day
<1>7. CASE Close(u)
  <2>1. (run[u].verdict # "stale") \in BOOLEAN /\ ranToday' \in BOOLEAN
    BY <1>7 DEF Close, ParentAuditRow, Rest
  <2> QED
    BY <1>7, <2>1, FinishType DEF Close, Rest, lock
<1>8. CASE WriteToday(u)
  BY <1>8 DEF WriteToday, Rest, lock
<1> QED
  BY <1>1, <1>2, <1>3, <1>4, <1>5, <1>6, <1>7, <1>8 DEF RunStep

LEMMA TimeType ==
  ASSUME row \in [Row -> Wakes], run \in [Run -> Runs], Rest,
         Tick \/ DayBoundary \/ SelfHeal \/ OthersWrite
  PROVE  row' \in [Row -> Wakes] /\ run' \in [Run -> Runs] /\ Rest'
<1>1. CASE Tick
  <2>1. row' \in [Row -> Wakes]
    <3> SUFFICES ASSUME NEW r \in Row PROVE row'[r] \in Wakes
      BY <1>1 DEF Tick
    <3>1. MaxRetries * Backoff \in Nat
      BY MorningAssumption, Z3
    <3>2. Less(row[r].due) \in 0..(MaxRetries * Backoff)
      BY <3>1 DEF Less, Wakes
    <3>3. (IF row[r].status = "running" /\ row[r].age \in 0..(Threshold - 1)
           THEN row[r].age + 1 ELSE row[r].age) \in Unstamped..Threshold
      BY MorningAssumption DEF Wakes, Unstamped
    <3> QED
      BY <1>1, <3>2, <3>3 DEF Tick, Wakes
  <2>2. left' \in 0..TTL
    <3>1. left' = Less(left) /\ left \in 0..TTL /\ TTL \in Nat
      BY <1>1, MorningAssumption DEF Tick, Rest
    <3> QED
      BY <3>1 DEF Less
  <2>3. holder' \in Run \cup {None}
    BY <1>1 DEF Tick, Rest
  <2> QED
    BY <1>1, <2>1, <2>2, <2>3 DEF Tick, Rest, day
<1>2. CASE DayBoundary
  <2>1. row' \in [Row -> Wakes]
    BY <1>2 DEF DayBoundary, Wakes
  <2>2. run' \in [Run -> Runs]
    BY <1>2 DEF DayBoundary, Runs
  <2>3. requeues' \in 0..MaxRequeues /\ disturbed' \in 0..MaxDisturbed
    BY <1>2, MorningAssumption DEF DayBoundary, Disturbed, Rest
  <2> QED
    BY <1>2, <2>1, <2>2, <2>3 DEF DayBoundary, Rest, lock
<1>3. CASE SelfHeal
  <2>1. PICK r \in Running(row) :
          row' = [row EXCEPT ![r] = [@ EXCEPT !.status = "pending", !.due = 0,
                                              !.stale = FALSE, !.age = Unstamped]]
    BY <1>3 DEF SelfHeal
  <2>2. [row[r] EXCEPT !.status = "pending", !.due = 0, !.stale = FALSE, !.age = Unstamped]
          \in Wakes
    BY <2>1, Blank, MorningAssumption DEF Running, NoRow, Wakes, Unstamped
  <2>3. row' \in [Row -> Wakes]
    BY <2>1, <2>2
  <2>4. requeues' \in 0..MaxRequeues
    <3>1. /\ requeues' = requeues + 1 /\ requeues < MaxRequeues
          /\ requeues \in 0..MaxRequeues /\ MaxRequeues \in Nat
      BY <1>3, MorningAssumption DEF SelfHeal, Rest
    <3> QED
      BY <3>1
  <2> QED
    BY <1>3, <2>3, <2>4 DEF SelfHeal, Rest, lock
<1>4. CASE OthersWrite
  BY <1>4 DEF OthersWrite, Rest, lock
<1> QED
  BY <1>1, <1>2, <1>3, <1>4

\* The types of all variables, for every instance.
THEOREM MorningTypeCorrect == Spec => []MorningTypeOK
<1>1. Init => MorningTypeOK
  <2> SUFFICES ASSUME Init PROVE MorningTypeOK
    OBVIOUS
  <2>1. row \in [Row -> Wakes] /\ run \in [Run -> Runs]
    BY Blank DEF Init
  <2>2. left \in 0..TTL /\ requeues \in 0..MaxRequeues /\ disturbed \in 0..MaxDisturbed
    BY MorningAssumption DEF Init
  <2> QED
    BY <2>1, <2>2, TypeParts DEF Init, Rest
<1>2. MorningTypeOK /\ [Next]_vars => MorningTypeOK'
  <2> SUFFICES ASSUME MorningTypeOK, [Next]_vars
               PROVE  row' \in [Row -> Wakes] /\ run' \in [Run -> Runs] /\ Rest'
    <3>1. row' \in [Row -> Wakes] /\ run' \in [Run -> Runs] /\ Rest' => MorningTypeOK'
      BY DEF MorningTypeOK, Wakes, Runs, Rest
    <3> QED
      BY <3>1
  <2>1. row \in [Row -> Wakes] /\ run \in [Run -> Runs] /\ Rest
    BY TypeParts
  <2>2. CASE UNCHANGED vars
    BY <2>1, <2>2 DEF vars, lock, day, Rest
  <2>3. CASE OpenDay \/ Ask \/ ScanGate \/ DiscardStale
    BY <2>1, <2>3, AskingType
  <2>4. CASE \E r \in Row : Claim(r)
    BY <2>1, <2>4, ClaimType
  <2>5. CASE \E u \in Run : Lose(u) \/ Release(u) \/ Hang(u)
    BY <2>1, <2>5, DisturbedType
  <2>6. CASE \E u \in Run : RunStep(u) \/ WriteToday(u)
    BY <2>1, <2>6, RunStepType
  <2>7. CASE Tick \/ DayBoundary \/ SelfHeal \/ OthersWrite
    BY <2>1, <2>7, TimeType
  <2> QED
    BY <2>2, <2>3, <2>4, <2>5, <2>6, <2>7 DEF Next
<1> QED
  BY <1>1, <1>2, PTL DEF Spec

-----------------------------------------------------------------------------
(* Opened honestly.  The inductive invariant also speaks of the runs that    *)
(* are about to write a success row: they found today.md of the day they     *)
(* began in, and nobody makes it older before the next boundary.            *)

Promising(u) == run[u].stage = "closing" /\ run[u].verdict = "success" /\ ~run[u].crossed

Honest == OpenedHonestly /\ \A u \in Run : Promising(u) => TodayFresh

\* Most steps leave today.md fresh if it was, write no success row, and make
\* no run promising.
LEMMA HonestFrame ==
  ASSUME Honest, TodayFresh => TodayFresh', ranToday' => ranToday,
         \A u \in Run : Promising(u)' => Promising(u)
  PROVE  Honest'
BY DEF Honest, OpenedHonestly

LEMMA HonestRun ==
  ASSUME Honest, run \in [Run -> Runs], NEW u \in Run, RunStep(u)
  PROVE  Honest'
<1>1. \A v \in Run \ {u} : run'[v] = run[v]
  BY DEF RunStep, Skip, Denied, Start, StartPipeline, PipelineThrows, PipelineEnds, Close, Finish
<1>2. CASE Skip(u) \/ Denied(u) \/ PipelineThrows(u)
  <2>1. ~Promising(u)'
    BY <1>2 DEF Skip, Denied, PipelineThrows, Finish, Idle, Promising
  <2> QED
    BY <1>1, <1>2, <2>1, HonestFrame
    DEF Skip, Denied, PipelineThrows, Promising, TodayFresh, day
<1>3. CASE Start(u) \/ StartPipeline(u)
  <2>1. ~Promising(u)'
    BY <1>3 DEF Start, StartPipeline, Promising, Runs
  <2>2. TodayFresh => TodayFresh'
    BY <1>3 DEF Start, StartPipeline, TodayFresh, day
  <2> QED
    BY <1>1, <1>3, <2>1, <2>2, HonestFrame DEF Start, StartPipeline, Promising, day
<1>4. CASE \E ok \in BOOLEAN : PipelineEnds(u, ok)
  <2>1. Promising(u)' => TodayFresh
    BY <1>4 DEF PipelineEnds, Promising, Runs
  <2> QED
    BY <1>1, <1>4, <2>1 DEF PipelineEnds, Honest, OpenedHonestly, Promising, TodayFresh, day
<1>5. CASE Close(u)
  <2>1. ~Promising(u)'
    BY <1>5 DEF Close, Finish, Idle, Promising
  <2>2. ranToday' => TodayFresh
    BY <1>5 DEF Close, ParentAuditRow, Honest, OpenedHonestly, Promising
  <2> QED
    BY <1>1, <1>5, <2>1, <2>2 DEF Close, Honest, OpenedHonestly, Promising, TodayFresh
<1> QED
  BY <1>2, <1>3, <1>4, <1>5 DEF RunStep

LEMMA HonestStep == MorningTypeOK /\ Honest /\ [Next]_vars => Honest'
<1> SUFFICES ASSUME MorningTypeOK, Honest, [Next]_vars PROVE Honest'
  OBVIOUS
<1>1. run \in [Run -> Runs]
  BY TypeParts
<1>2. ASSUME NEW u \in Run, Lose(u) \/ Release(u) \/ Hang(u)
      PROVE  Honest'
  <2>1. \A v \in Run : Promising(v)' => Promising(v)
    BY <1>1, <1>2 DEF Lose, Release, Hang, Idle, Promising
  <2> QED
    BY <1>2, <2>1, HonestFrame DEF Lose, Release, Hang, TodayFresh, day
<1>3. ASSUME NEW u \in Run, WriteToday(u)
      PROVE  Honest'
  BY <1>3 DEF WriteToday, Honest, OpenedHonestly, Promising, TodayFresh
<1>4. ASSUME NEW r \in Row, Claim(r)
      PROVE  Honest'
  <2>1. \A v \in Run : Promising(v)' => Promising(v)
    BY <1>1, <1>4 DEF Claim, Idle, Promising
  <2> QED
    BY <1>4, <2>1, HonestFrame DEF Claim, TodayFresh, day
<1>5. CASE Ask \/ ScanGate \/ DiscardStale \/ Tick \/ UNCHANGED vars
  <2>1. UNCHANGED <<run, today, ranToday>>
    BY <1>5 DEF Ask, ScanGate, DiscardStale, Tick, vars, day
  <2> QED
    BY <2>1, HonestFrame DEF Promising, TodayFresh
<1>6. CASE OpenDay
  BY <1>6, HonestFrame DEF OpenDay, Promising, TodayFresh
<1>7. CASE SelfHeal
  BY <1>7, HonestFrame DEF SelfHeal, Promising, TodayFresh
<1>8. CASE OthersWrite
  BY <1>8 DEF OthersWrite, Honest, OpenedHonestly, Promising, TodayFresh
<1>9. CASE DayBoundary
  <2>1. \A u \in Run : ~Promising(u)'
    BY <1>1, <1>9 DEF DayBoundary, Promising, Runs
  <2> QED
    BY <1>9, <2>1 DEF DayBoundary, Honest, OpenedHonestly
<1> QED
  BY <1>1, <1>2, <1>3, <1>4, <1>5, <1>6, <1>7, <1>8, <1>9, HonestRun DEF Next

\* A day counts as opened only with a today.md of that day, whatever runs
\* overlap and whenever the day boundary falls: for every instance.
THEOREM OpenedHonestlyCorrect == Spec => []OpenedHonestly
<1>1. Init => Honest
  BY DEF Init, Honest, OpenedHonestly, Promising, Idle
<1>2. Honest => OpenedHonestly
  BY DEF Honest
<1> QED
  BY <1>1, <1>2, HonestStep, MorningTypeCorrect, PTL DEF Spec

-----------------------------------------------------------------------------
(* The lease.                                                               *)

\* While the lease lasts, only its run's own end gives the lock up: for every
\* instance.
THEOREM LeaseCorrect == Spec => LeaseRespected
<1> DEFINE Kept == \A u \in Run : holder = u /\ holder' # u =>
       (left = 1 /\ UNCHANGED run) \/ run'[u].stage \in {"idle", "closing"}
<1>1. MorningTypeOK /\ [Next]_vars => Kept
  <2> SUFFICES ASSUME MorningTypeOK, [Next]_vars, NEW u \in Run, holder = u, holder' # u
               PROVE  (left = 1 /\ UNCHANGED run) \/ run'[u].stage \in {"idle", "closing"}
    OBVIOUS
  <2>1. run \in [Run -> Runs] /\ u # None
    BY TypeParts, MorningAssumption
  <2>2. CASE UNCHANGED lock
    BY <2>2 DEF lock
  <2>3. CASE Tick
    BY <2>3 DEF Tick
  <2>4. CASE \E v \in Run : Start(v)
    BY <2>1, <2>4 DEF Start
  <2>5. ASSUME NEW v \in Run, ReleaseLock(v) PROVE v = u
    BY <2>5 DEF ReleaseLock, lock
  <2>6. CASE \E v \in Run : PipelineThrows(v)
    BY <2>1, <2>5, <2>6 DEF PipelineThrows, Finish, Idle
  <2>7. CASE \E v \in Run : \E ok \in BOOLEAN : PipelineEnds(v, ok)
    BY <2>1, <2>5, <2>7 DEF PipelineEnds, Runs
  <2> QED
    BY <2>2, <2>3, <2>4, <2>6, <2>7
    DEF Next, vars, OpenDay, Ask, ScanGate, DiscardStale, Claim, Lose, Release, Hang,
        RunStep, Skip, Denied, StartPipeline, WriteToday, Close, DayBoundary, SelfHeal,
        OthersWrite
<1> QED
  BY <1>1, MorningTypeCorrect, PTL DEF Spec, LeaseRespected

-----------------------------------------------------------------------------
(* Who keeps the routine active, and today.md locked.                       *)

\* A claimed row carries the stamp of its claim, without which the self-heal
\* could never find it old enough.
Stamped(table) == \A r \in Row : table[r].status = "running" => table[r].age # Unstamped

\* The flag is that of a run under way, which will lower it: with two runs that
\* overlap the first to end lowers it for both, never the other way round.
FlagHasRun ==
  flag => \E u \in Run : run[u].stage \in {"prepass", "pipeline", "closing", "hung"}

\* The lock has time left, and is that of a run that works under it or hangs:
\* no run ends, fails or is taken over and leaves today.md locked.
LockHasRun ==
  holder # None =>
    left > 0 /\ run[holder].stage \in {"prepass", "pipeline", "hung"}

NothingLeftActive == Stamped(row) /\ FlagHasRun /\ LockHasRun

LEMMA NotYetStamped == Unstamped # 0 /\ \A n \in Nat : n # Unstamped
BY DEF Unstamped

LEMMA InsertedStamped ==
  ASSUME NEW table \in [Row -> Wakes], Stamped(table), NEW wake \in Wakes,
         wake.status # "running"
  PROVE  Stamped(Inserted(table, wake))
BY DEF Stamped, Inserted

LEMMA SettledStamped ==
  ASSUME NEW table \in [Row -> Wakes], Stamped(table), NEW r
  PROVE  Stamped(Settled(table, r))
BY DEF Stamped, Settled, NoRow

LEMMA DiscardedStamped ==
  ASSUME NEW table \in [Row -> Wakes], Stamped(table)
  PROVE  Stamped(Discarded(table))
BY DEF Stamped, Discarded, NoRow

LEMMA RetryStamped ==
  ASSUME NEW table \in [Row -> Wakes], Stamped(table), NEW u \in Run
  PROVE  Stamped(ScheduleRetry(table, u))
<1>1. RetryRow(u).status # "running"
  BY DEF RetryRow, NoRow
<1>2. Stamped(Inserted(table, RetryRow(u)))
  BY <1>1 DEF Stamped, Inserted
<1> QED
  BY <1>2 DEF ScheduleRetry

LEMMA QueueWakeStamped ==
  ASSUME NEW table \in [Row -> Wakes], Stamped(table), QueueWake(table)
  PROVE  Stamped(row')
<1>1. CASE ActiveRows(table) = {}
  <2>1. [NoRow EXCEPT !.status = "pending"].status # "running"
    BY DEF NoRow
  <2> QED
    BY <1>1, <2>1 DEF QueueWake, Inserted, Stamped
<1>2. CASE ActiveRows(table) # {}
  <2>1. PICK r \in ActiveRows(table) : row' = [table EXCEPT ![r] = Merged(@)]
    BY <1>2 DEF QueueWake
  <2>2. Merged(table[r]).status = table[r].status /\ Merged(table[r]).age = table[r].age
    BY <2>1 DEF Merged, Wakes, ActiveRows, Pending, Running
  <2> QED
    BY <2>1, <2>2 DEF Stamped
<1> QED
  BY <1>1, <1>2

LEMMA FinishStamped ==
  ASSUME row \in [Row -> Wakes], run \in [Run -> Runs], Stamped(row),
         NEW u \in Run, NEW fresh \in BOOLEAN, Finish(u, fresh)
  PROVE  Stamped(row')
<1>1. /\ (IF fresh THEN row ELSE ScheduleRetry(row, u)) \in [Row -> Wakes]
      /\ Stamped(IF fresh THEN row ELSE ScheduleRetry(row, u))
  BY ScheduleRetryType, RetryStamped
<1> QED
  BY <1>1, SettledStamped DEF Finish

\* A claimed row is stamped by every step of Next.
LEMMA StampStep == MorningTypeOK /\ Stamped(row) /\ [Next]_vars => Stamped(row')
<1> SUFFICES ASSUME MorningTypeOK, Stamped(row), [Next]_vars PROVE Stamped(row')
  OBVIOUS
<1>1. row \in [Row -> Wakes] /\ run \in [Run -> Runs] /\ Rest
  BY TypeParts
<1>2. Discarded(row) \in [Row -> Wakes] /\ Stamped(Discarded(row))
  BY <1>1, DiscardedType, DiscardedStamped
<1>3. CASE OpenDay \/ Ask \/ ScanGate \/ DiscardStale
  BY <1>1, <1>2, <1>3, QueueWakeStamped DEF OpenDay, Ask, ScanGate, DiscardStale
<1>4. ASSUME NEW r \in Row, Claim(r) PROVE Stamped(row')
  <2>1. row' = [Discarded(row) EXCEPT ![r] = [@ EXCEPT !.status = "running", !.age = 0]]
    BY <1>2, <1>4 DEF Claim
  <2>2. [Discarded(row)[r] EXCEPT !.status = "running", !.age = 0].age = 0
    BY <1>2 DEF Wakes
  <2> QED
    BY <1>2, <2>1, <2>2, NotYetStamped DEF Stamped
<1>5. ASSUME NEW u \in Run, Release(u) PROVE Stamped(row')
  BY <1>1, <1>5 DEF Release, Stamped, Running, Wakes
<1>6. ASSUME NEW u \in Run, Skip(u) \/ Denied(u) PROVE Stamped(row')
  BY <1>1, <1>6, SettledStamped, RetryStamped, ScheduleRetryType DEF Skip, Denied
<1>7. ASSUME NEW u \in Run, PipelineThrows(u) \/ Close(u) PROVE Stamped(row')
  <2>1. TodayFresh \in BOOLEAN /\ (run[u].verdict # "stale") \in BOOLEAN
    BY DEF TodayFresh
  <2> QED
    BY <1>1, <1>7, <2>1, FinishStamped DEF PipelineThrows, Close
<1>8. CASE Tick
  <2> SUFFICES ASSUME NEW r \in Row, row'[r].status = "running"
               PROVE  row'[r].age # Unstamped
    BY DEF Stamped
  <2> DEFINE age == row[r].age
  <2>1. row'[r].status = row[r].status
    BY <1>1, <1>8 DEF Tick, Wakes
  <2>2. age # Unstamped /\ age \in Unstamped..Threshold
    BY <1>1, <2>1 DEF Stamped, Wakes
  <2>3. row'[r].age = IF age \in 0..(Threshold - 1) THEN age + 1 ELSE age
    BY <1>1, <1>8, <2>1 DEF Tick, Wakes
  <2> HIDE DEF age
  <2> QED
    BY <2>2, <2>3, MorningAssumption DEF Unstamped
<1>9. CASE DayBoundary
  BY <1>1, <1>9 DEF DayBoundary, Stamped, Wakes
<1>10. CASE SelfHeal
  <2>1. PICK r \in Running(row) :
          row' = [row EXCEPT ![r] = [@ EXCEPT !.status = "pending", !.due = 0,
                                              !.stale = FALSE, !.age = Unstamped]]
    BY <1>10 DEF SelfHeal
  <2> QED
    BY <1>1, <2>1 DEF Stamped, Running, Wakes
<1>11. CASE UNCHANGED row
  BY <1>11 DEF Stamped
<1> QED
  BY <1>3, <1>4, <1>5, <1>6, <1>7, <1>8, <1>9, <1>10, <1>11
  DEF Next, vars, RunStep, Lose, Hang, Start, StartPipeline, PipelineEnds, WriteToday, OthersWrite

Working(u) == run[u].stage \in {"prepass", "pipeline", "closing", "hung"}
Locking(u) == run[u].stage \in {"prepass", "pipeline", "hung"}

\* Most steps raise no flag and take no lock, and leave every run at work at
\* work, and every run that may have the lock where it may.
LEMMA RunsFrame ==
  ASSUME FlagHasRun, LockHasRun, holder \in Run \cup {None},
         \A u \in Run : Working(u) => Working(u)',
         \A u \in Run : Locking(u) => Locking(u)',
         flag' = flag, UNCHANGED lock
  PROVE  FlagHasRun' /\ LockHasRun'
BY DEF FlagHasRun, LockHasRun, Working, Locking, lock

\* The end of a run: the flag is down, and the lock is not its own any more.
LEMMA RunsStep ==
  ASSUME run \in [Run -> Runs], holder \in Run \cup {None}, left \in 0..TTL,
         FlagHasRun, LockHasRun, NEW u \in Run, RunStep(u)
  PROVE  FlagHasRun' /\ LockHasRun'
<1>1. \A v \in Run \ {u} : run'[v] = run[v]
  BY DEF RunStep, Skip, Denied, Start, StartPipeline, PipelineThrows, PipelineEnds, Close, Finish
<1>2. CASE Skip(u) \/ Denied(u)
  <2>1. ~Working(u) /\ ~Locking(u)
    BY <1>2 DEF Skip, Denied, Working, Locking
  <2> QED
    BY <1>1, <1>2, <2>1, RunsFrame DEF Skip, Denied, Working, Locking
<1>3. CASE Start(u)
  <2>1. run'[u].stage \in {"prepass", "pipeline"}
    BY <1>3 DEF Start, Runs
  <2>2. TTL > 0
    BY MorningAssumption
  <2> QED
    BY <1>3, <2>1, <2>2 DEF Start, FlagHasRun, LockHasRun
<1>4. CASE StartPipeline(u)
  <2>1. run'[u].stage = "pipeline"
    BY <1>4 DEF StartPipeline, Runs
  <2> QED
    BY <1>1, <1>4, <2>1, RunsFrame DEF StartPipeline, Working, Locking
<1>5. ASSUME ReleaseLock(u) PROVE LockHasRun'
  <2>1. CASE holder = u
    BY <1>5, <2>1 DEF ReleaseLock, LockHasRun
  <2>2. CASE holder # u
    <3>1. UNCHANGED lock
      BY <1>5, <2>2 DEF ReleaseLock
    <3> QED
      BY <1>1, <2>2, <3>1 DEF LockHasRun, lock
  <2> QED
    BY <2>1, <2>2
<1>6. CASE PipelineThrows(u)
  BY <1>5, <1>6 DEF PipelineThrows, Finish, FlagHasRun
<1>7. CASE \E ok \in BOOLEAN : PipelineEnds(u, ok)
  <2>1. run'[u].stage = "closing"
    BY <1>7 DEF PipelineEnds, Runs
  <2> QED
    BY <1>5, <1>7, <2>1 DEF PipelineEnds, FlagHasRun
<1>8. CASE Close(u)
  <2>1. ~Locking(u)
    BY <1>8 DEF Close, Locking
  <2> QED
    BY <1>1, <1>8, <2>1 DEF Close, Finish, FlagHasRun, LockHasRun, Locking, lock
<1> QED
  BY <1>2, <1>3, <1>4, <1>6, <1>7, <1>8 DEF RunStep

LEMMA RunsNext ==
  MorningTypeOK /\ FlagHasRun /\ LockHasRun /\ [Next]_vars => FlagHasRun' /\ LockHasRun'
<1> SUFFICES ASSUME MorningTypeOK, FlagHasRun, LockHasRun, [Next]_vars
             PROVE  FlagHasRun' /\ LockHasRun'
  OBVIOUS
<1>1. run \in [Run -> Runs] /\ holder \in Run \cup {None} /\ left \in 0..TTL
  BY TypeParts DEF Rest
<1>2. CASE UNCHANGED <<run, flag, lock>>
  BY <1>1, <1>2, RunsFrame DEF Working, Locking
<1>3. ASSUME NEW r \in Row, Claim(r) PROVE FlagHasRun' /\ LockHasRun'
  <2>1. Spare # {}
    BY <1>3 DEF Claim
  <2>2. PICK u \in Run : run[u].stage = "idle" /\ \A v \in Run \ {u} : run'[v] = run[v]
    <3>1. (CHOOSE u \in Spare : TRUE) \in Spare
      BY <2>1
    <3> QED
      BY <1>1, <1>3, <3>1 DEF Claim, Spare
  <2> QED
    BY <1>1, <1>3, <2>2, RunsFrame DEF Claim, Working, Locking
<1>4. ASSUME NEW u \in Run, Lose(u) \/ Release(u) PROVE FlagHasRun' /\ LockHasRun'
  <2>1. run[u].stage = "queued" /\ \A v \in Run \ {u} : run'[v] = run[v]
    BY <1>1, <1>4 DEF Lose, Release
  <2> QED
    BY <1>1, <1>4, <2>1, RunsFrame DEF Lose, Release, Working, Locking
<1>5. ASSUME NEW u \in Run, Hang(u) PROVE FlagHasRun' /\ LockHasRun'
  <2>1. run'[u].stage = "hung" /\ \A v \in Run \ {u} : run'[v] = run[v]
    BY <1>1, <1>5 DEF Hang
  <2> QED
    BY <1>1, <1>5, <2>1, RunsFrame DEF Hang, Working, Locking
<1>6. ASSUME NEW u \in Run, RunStep(u) PROVE FlagHasRun' /\ LockHasRun'
  BY <1>1, <1>6, RunsStep
<1>7. CASE Tick
  <2>1. FlagHasRun'
    BY <1>7 DEF Tick, FlagHasRun
  <2>2. LockHasRun'
    <3> SUFFICES ASSUME holder' # None
                 PROVE  left' > 0 /\ run'[holder'].stage \in {"prepass", "pipeline", "hung"}
      BY DEF LockHasRun
    <3>1. holder' = holder /\ left # 1 /\ left > 0 /\ left' = Less(left)
      BY <1>7 DEF Tick, LockHasRun
    <3>2. left' > 0
      BY <1>1, <3>1, MorningAssumption DEF Less
    <3> QED
      BY <1>7, <3>1, <3>2 DEF Tick, LockHasRun
  <2> QED
    BY <2>1, <2>2
<1>8. CASE DayBoundary
  <2>1. \A u \in Run : run'[u].stage = run[u].stage
    BY <1>1, <1>8 DEF DayBoundary, Runs
  <2> QED
    BY <1>1, <1>8, <2>1, RunsFrame DEF DayBoundary, Working, Locking
<1> QED
  BY <1>2, <1>3, <1>4, <1>5, <1>6, <1>7, <1>8
  DEF Next, vars, OpenDay, Ask, ScanGate, DiscardStale, WriteToday, SelfHeal, OthersWrite

\* Whatever keeps the routine active has somebody who ends it or takes it back:
\* the flag and the lock are those of runs under way or hung, and a claimed row
\* carries the stamp by which the self-heal finds it, whoever was lost.
THEOREM WhatIsActiveCanEnd == Spec => []NothingLeftActive
<1>1. Init => Stamped(row) /\ FlagHasRun /\ LockHasRun
  BY DEF Init, Stamped, NoRow, FlagHasRun, LockHasRun
<1>2. Stamped(row) /\ FlagHasRun /\ LockHasRun => NothingLeftActive
  BY DEF NothingLeftActive
<1>3. MorningTypeOK /\ Stamped(row) /\ FlagHasRun /\ LockHasRun /\ [Next]_vars
        => (Stamped(row) /\ FlagHasRun /\ LockHasRun)'
  BY StampStep, RunsNext
<1> QED
  BY <1>1, <1>2, <1>3, MorningTypeCorrect, PTL DEF Spec
=============================================================================
