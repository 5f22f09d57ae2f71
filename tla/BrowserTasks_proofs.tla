------------------------- MODULE BrowserTasks_proofs -------------------------
(***************************************************************************)
(* The safety of the browser-task runner, for any set of tasks and sites,   *)
(* any cap and any bound.  TaskSound ties together, for one task, the row,  *)
(* the queues, the handles and the promises; SlotsSound is the invariant of *)
(* the slot manager (TaskSlots_proofs).                                     *)
(***************************************************************************)
EXTENDS BrowserTasks, TaskSlots_proofs

Queued(t) == t \in Elements(slots.globalQueue)

TaskSound(t) ==
  /\ Queued(t) => row[t] = "pending"
  /\ row[t] = "pending" => Queued(t) \/ t \in swept
  /\ row[t] \in {"none", "pending"} =>
       /\ leg[t] = "none" /\ closer[t] = "none" /\ clarification[t] = "none"
       /\ t \notin live /\ t \notin parked /\ t \notin chromium
       /\ t \notin cancelled /\ ~HasActive(slots, t)
  /\ t \in swept => row[t] # "none" /\ ~Queued(t) /\ ~HasActive(slots, t)
  /\ HasActive(slots, t) => leg[t] # "none" \/ t \in parked \/ closer[t] # "none"
  /\ t \in chromium =>
       \/ leg[t] \in {"streaming", "closing", "threw"}
       \/ t \in parked \/ closer[t] # "none"
  /\ t \in live <=> leg[t] = "streaming"
  /\ t \in parked => leg[t] = "none" /\ closer[t] = "none" /\ t \notin cancelled
  /\ closer[t] # "none" => leg[t] = "none"
  /\ leg[t] = "preparing" => clarification[t] = "none" /\ row[t] # "awaiting_user"
  /\ (t \in live \/ t \in parked) /\ row[t] = "awaiting_user" =>
       clarification[t] = "open"
  /\ t \in cancelled =>
       /\ leg[t] = "streaming" => aborted[t] # "no"
       /\ leg[t] = "preparing" => t \in pendingAborts

BrowserSound ==
  /\ BrowserTypeOK
  /\ SlotsSound(slots)
  /\ \A t \in Tasks : TaskSound(t)

\* What a release does to the rows and the driver promises: the task that
\* releases loses its slot, the first waiting task that can run gets one.
LEMMA ReleaseEffects ==
  ASSUME SlotsSound(slots), NEW t \in Tasks,
         NEW rows \in [Tasks -> Terminal \cup NonTerminal \cup {"none"}],
         NEW legs \in [Tasks -> {"none", "preparing", "streaming", "closing",
                                 "threw"}],
         ReleaseAndPromote(t, rows, legs)
  PROVE  /\ SlotsSound(slots')
         /\ row' \in [Tasks -> Terminal \cup NonTerminal \cup {"none"}]
         /\ leg' \in [Tasks -> {"none", "preparing", "streaming", "closing",
                                "threw"}]
         /\ ~HasActive(slots', t)
         /\ \E p : /\ \A u \in Tasks : u = p => Queued(u)
                   /\ \A u \in Tasks :
                        /\ Queued(u)' <=> Queued(u) /\ u # p
                        /\ HasActive(slots', u) <=>
                             (HasActive(slots, u) /\ u # t) \/ u = p
                        /\ row'[u] = IF u = p /\ rows[u] = "pending"
                                     THEN "running" ELSE rows[u]
                        /\ leg'[u] = IF u = p THEN "preparing" ELSE legs[u]
<1> DEFINE p == Promoted(slots, t)
<1>1. /\ slots' = decideRelease(slots, t)
      /\ row' = [u \in Tasks |-> IF u = p /\ rows[u] = "pending"
                                 THEN "running" ELSE rows[u]]
      /\ leg' = [u \in Tasks |-> IF u = p THEN "preparing" ELSE legs[u]]
  BY DEF ReleaseAndPromote
<1>2. /\ SlotsSound(decideRelease(slots, t))
      /\ p # None => p \in Elements(slots.globalQueue)
      /\ Elements(decideRelease(slots, t).globalQueue)
           = Elements(slots.globalQueue) \ {p}
      /\ \A u \in Tasks :
           HasActive(decideRelease(slots, t), u) <=>
             (HasActive(slots, u) /\ u # t) \/ u = p
  BY ReleaseSound
<1>3. t = p => ~HasActive(slots, t)
  <2>1. t = p => t \in Elements(slots.globalQueue)
    BY <1>2, SlotAssumption
  <2>2. CapRespected(slots)
    BY DEF SlotsSound
  <2> QED BY <2>1, <2>2, SlotAssumption
      DEF CapRespected, HasActive, SitesHeld, Occupied
<1>4. p # t
  <2>1. ~HasActive(slots, t) => p = None
    BY DEF Promoted
  <2> QED BY <2>1, <1>3, SlotAssumption
<1> HIDE DEF p
<1>5. \A u \in Tasks : u = p => Queued(u)
  BY <1>2, SlotAssumption DEF Queued
<1>6. ~HasActive(slots', t)
  BY <1>1, <1>2, <1>4
<1>7. row' \in [Tasks -> Terminal \cup NonTerminal \cup {"none"}]
  BY <1>1 DEF NonTerminal
<1>8. leg' \in [Tasks -> {"none", "preparing", "streaming", "closing", "threw"}]
  BY <1>1
<1> QED BY <1>1, <1>2, <1>5, <1>6, <1>7, <1>8 DEF Queued

LEMMA MarkTerminalType ==
  ASSUME BrowserTypeOK, NEW t \in Tasks, NEW e \in Terminal
  PROVE  /\ MarkTerminal(t, e) \in [Tasks -> Terminal \cup NonTerminal \cup {"none"}]
         /\ \A u \in Tasks : u # t => MarkTerminal(t, e)[u] = row[u]
         /\ row[t] \in NonTerminal => MarkTerminal(t, e)[t] = e
         /\ row[t] \notin NonTerminal => MarkTerminal(t, e)[t] = row[t]
  BY DEF BrowserTypeOK, MarkTerminal

LEMMA InitSound == BrowserInit => BrowserSound
<1> SUFFICES ASSUME BrowserInit PROVE BrowserSound
  OBVIOUS
<1>1. SlotsSound(slots)
  BY InitialSound DEF BrowserInit
<1>2. BrowserTypeOK
  BY <1>1, BrowserAssumption DEF BrowserInit, BrowserTypeOK, SlotsSound
<1>3. \A t \in Tasks : ~Queued(t) /\ ~HasActive(slots, t)
  BY SlotAssumption DEF BrowserInit, Queued, Elements, HasActive, SitesHeld,
     createInitialSlotState
<1>4. \A t \in Tasks : TaskSound(t)
  BY <1>3 DEF BrowserInit, TaskSound
<1> QED BY <1>1, <1>2, <1>4 DEF BrowserSound

-----------------------------------------------------------------------------
\* The steps that leave the slots alone.
LEMMA PreparedSound ==
  ASSUME BrowserSound, NEW t \in Tasks, Prepared(t)
  PROVE  BrowserSound'
<1>1. slots' = slots
  BY DEF Prepared, handleVars, rowVars
<1>2. BrowserTypeOK'
  BY DEF BrowserSound, BrowserTypeOK, Prepared, handleVars, rowVars, NonTerminal,
     Terminal
<1>3. ASSUME NEW u \in Tasks PROVE TaskSound(u)'
  <2>1. (Queued(u)' <=> Queued(u)) /\ (HasActive(slots, u)' <=> HasActive(slots, u))
    BY <1>1 DEF Queued
  <2>2. TaskSound(u) /\ TaskSound(t) /\ BrowserTypeOK
    BY DEF BrowserSound
  <2>3. CASE u = t
    BY <2>1, <2>2, <2>3 DEF TaskSound, BrowserTypeOK, Prepared, handleVars, rowVars,
       NonTerminal, Terminal
  <2>4. CASE u # t
    BY <2>1, <2>2, <2>4 DEF TaskSound, BrowserTypeOK, Prepared, handleVars, rowVars
  <2> QED BY <2>3, <2>4
<1> QED BY <1>1, <1>2, <1>3 DEF BrowserSound

LEMMA PrepareThrowsSound ==
  ASSUME BrowserSound, NEW t \in Tasks, PrepareThrows(t)
  PROVE  BrowserSound'
<1>1. slots' = slots
  BY DEF PrepareThrows, handleVars, rowVars
<1>2. BrowserTypeOK'
  BY DEF BrowserSound, BrowserTypeOK, PrepareThrows, handleVars, rowVars, NonTerminal,
     Terminal
<1>3. ASSUME NEW u \in Tasks PROVE TaskSound(u)'
  <2>1. (Queued(u)' <=> Queued(u)) /\ (HasActive(slots, u)' <=> HasActive(slots, u))
    BY <1>1 DEF Queued
  <2>2. TaskSound(u) /\ TaskSound(t) /\ BrowserTypeOK
    BY DEF BrowserSound
  <2>3. CASE u = t
    BY <2>1, <2>2, <2>3 DEF TaskSound, BrowserTypeOK, PrepareThrows, handleVars, rowVars,
       NonTerminal, Terminal
  <2>4. CASE u # t
    BY <2>1, <2>2, <2>4 DEF TaskSound, BrowserTypeOK, PrepareThrows, handleVars, rowVars
  <2> QED BY <2>3, <2>4
<1> QED BY <1>1, <1>2, <1>3 DEF BrowserSound

LEMMA AskUserSound ==
  ASSUME BrowserSound, NEW t \in Tasks, AskUser(t)
  PROVE  BrowserSound'
<1>1. slots' = slots
  BY DEF AskUser, handleVars, rowVars
<1>2. BrowserTypeOK'
  <2>1. asks \in [Tasks -> 0..MaxAsks] /\ asks[t] < MaxAsks /\ MaxAsks \in Nat
    BY BrowserAssumption DEF BrowserSound, BrowserTypeOK, AskUser
  <2>2. asks[t] + 1 \in 0..MaxAsks
    BY <2>1
  <2>3. asks' \in [Tasks -> 0..MaxAsks]
    BY <2>1, <2>2 DEF AskUser
  <2> QED BY <2>3 DEF BrowserSound, BrowserTypeOK, AskUser, handleVars, NonTerminal,
          Terminal
<1>3. ASSUME NEW u \in Tasks PROVE TaskSound(u)'
  <2>1. (Queued(u)' <=> Queued(u)) /\ (HasActive(slots, u)' <=> HasActive(slots, u))
    BY <1>1 DEF Queued
  <2>2. TaskSound(u) /\ TaskSound(t) /\ BrowserTypeOK
    BY DEF BrowserSound
  <2>3. CASE u = t
    BY <2>1, <2>2, <2>3 DEF TaskSound, BrowserTypeOK, AskUser, handleVars, rowVars,
       NonTerminal, Terminal
  <2>4. CASE u # t
    BY <2>1, <2>2, <2>4 DEF TaskSound, BrowserTypeOK, AskUser, handleVars, rowVars
  <2> QED BY <2>3, <2>4
<1> QED BY <1>1, <1>2, <1>3 DEF BrowserSound

LEMMA FinishSound ==
  ASSUME BrowserSound, NEW t \in Tasks, Finish(t)
  PROVE  BrowserSound'
<1>1. slots' = slots
  BY DEF Finish, handleVars, rowVars
<1>2. BrowserTypeOK'
  BY DEF BrowserSound, BrowserTypeOK, Finish, handleVars, rowVars, NonTerminal,
     Terminal, MarkTerminal
<1>3. ASSUME NEW u \in Tasks PROVE TaskSound(u)'
  <2>1. (Queued(u)' <=> Queued(u)) /\ (HasActive(slots, u)' <=> HasActive(slots, u))
    BY <1>1 DEF Queued
  <2>2. TaskSound(u) /\ TaskSound(t) /\ BrowserTypeOK
    BY DEF BrowserSound
  <2>3. CASE u = t
    BY <2>1, <2>2, <2>3 DEF TaskSound, BrowserTypeOK, Finish, handleVars, rowVars,
       NonTerminal, Terminal, MarkTerminal
  <2>4. CASE u # t
    BY <2>1, <2>2, <2>4 DEF TaskSound, BrowserTypeOK, Finish, handleVars, rowVars, MarkTerminal
  <2> QED BY <2>3, <2>4
<1> QED BY <1>1, <1>2, <1>3 DEF BrowserSound

LEMMA OpenGateSound ==
  ASSUME BrowserSound, NEW t \in Tasks, OpenGate(t)
  PROVE  BrowserSound'
<1>1. slots' = slots
  BY DEF OpenGate, handleVars, rowVars
<1>2. BrowserTypeOK'
  BY DEF BrowserSound, BrowserTypeOK, OpenGate, handleVars, rowVars, NonTerminal,
     Terminal
<1>3. ASSUME NEW u \in Tasks PROVE TaskSound(u)'
  <2>1. (Queued(u)' <=> Queued(u)) /\ (HasActive(slots, u)' <=> HasActive(slots, u))
    BY <1>1 DEF Queued
  <2>2. TaskSound(u) /\ TaskSound(t) /\ BrowserTypeOK
    BY DEF BrowserSound
  <2>3. CASE u = t
    BY <2>1, <2>2, <2>3 DEF TaskSound, BrowserTypeOK, OpenGate, handleVars, rowVars,
       NonTerminal, Terminal
  <2>4. CASE u # t
    BY <2>1, <2>2, <2>4 DEF TaskSound, BrowserTypeOK, OpenGate, handleVars, rowVars
  <2> QED BY <2>3, <2>4
<1> QED BY <1>1, <1>2, <1>3 DEF BrowserSound

LEMMA GateReturnsSound ==
  ASSUME BrowserSound, NEW t \in Tasks, GateReturns(t)
  PROVE  BrowserSound'
<1>1. slots' = slots
  BY DEF GateReturns, handleVars, rowVars
<1>2. BrowserTypeOK'
  BY DEF BrowserSound, BrowserTypeOK, GateReturns, handleVars, rowVars, NonTerminal,
     Terminal
<1>3. ASSUME NEW u \in Tasks PROVE TaskSound(u)'
  <2>1. (Queued(u)' <=> Queued(u)) /\ (HasActive(slots, u)' <=> HasActive(slots, u))
    BY <1>1 DEF Queued
  <2>2. TaskSound(u) /\ TaskSound(t) /\ BrowserTypeOK
    BY DEF BrowserSound
  <2>3. CASE u = t
    BY <2>1, <2>2, <2>3 DEF TaskSound, BrowserTypeOK, GateReturns, handleVars, rowVars,
       NonTerminal, Terminal
  <2>4. CASE u # t
    BY <2>1, <2>2, <2>4 DEF TaskSound, BrowserTypeOK, GateReturns, handleVars, rowVars
  <2> QED BY <2>3, <2>4
<1> QED BY <1>1, <1>2, <1>3 DEF BrowserSound

LEMMA ExecuteTimeoutSound ==
  ASSUME BrowserSound, NEW t \in Tasks, ExecuteTimeout(t)
  PROVE  BrowserSound'
<1>1. slots' = slots
  BY DEF ExecuteTimeout, handleVars, rowVars
<1>2. BrowserTypeOK'
  BY DEF BrowserSound, BrowserTypeOK, ExecuteTimeout, handleVars, rowVars, NonTerminal,
     Terminal
<1>3. ASSUME NEW u \in Tasks PROVE TaskSound(u)'
  <2>1. (Queued(u)' <=> Queued(u)) /\ (HasActive(slots, u)' <=> HasActive(slots, u))
    BY <1>1 DEF Queued
  <2>2. TaskSound(u) /\ TaskSound(t) /\ BrowserTypeOK
    BY DEF BrowserSound
  <2>3. CASE u = t
    BY <2>1, <2>2, <2>3 DEF TaskSound, BrowserTypeOK, ExecuteTimeout, handleVars, rowVars,
       NonTerminal, Terminal
  <2>4. CASE u # t
    BY <2>1, <2>2, <2>4 DEF TaskSound, BrowserTypeOK, ExecuteTimeout, handleVars, rowVars
  <2> QED BY <2>3, <2>4
<1> QED BY <1>1, <1>2, <1>3 DEF BrowserSound

LEMMA LegEndsSound ==
  ASSUME BrowserSound, NEW t \in Tasks, LegEnds(t)
  PROVE  BrowserSound'
<1>1. slots' = slots
  BY DEF LegEnds, handleVars, rowVars
<1>2. BrowserTypeOK'
  BY DEF BrowserSound, BrowserTypeOK, LegEnds, handleVars, rowVars, NonTerminal,
     Terminal, MarkTerminal, Outcomes
<1>3. ASSUME NEW u \in Tasks PROVE TaskSound(u)'
  <2>1. (Queued(u)' <=> Queued(u)) /\ (HasActive(slots, u)' <=> HasActive(slots, u))
    BY <1>1 DEF Queued
  <2>2. TaskSound(u) /\ TaskSound(t) /\ BrowserTypeOK
    BY DEF BrowserSound
  <2>3. CASE u = t
    BY <2>1, <2>2, <2>3 DEF TaskSound, BrowserTypeOK, LegEnds, handleVars, rowVars,
       NonTerminal, Terminal, MarkTerminal, Outcomes
  <2>4. CASE u # t
    BY <2>1, <2>2, <2>4 DEF TaskSound, BrowserTypeOK, LegEnds, handleVars, rowVars, MarkTerminal, Outcomes
  <2> QED BY <2>3, <2>4
<1> QED BY <1>1, <1>2, <1>3 DEF BrowserSound

LEMMA LegParksSound ==
  ASSUME BrowserSound, NEW t \in Tasks, LegParks(t)
  PROVE  BrowserSound'
<1>1. slots' = slots
  BY DEF LegParks, handleVars, rowVars
<1>2. BrowserTypeOK'
  BY DEF BrowserSound, BrowserTypeOK, LegParks, handleVars, rowVars, NonTerminal,
     Terminal
<1>3. ASSUME NEW u \in Tasks PROVE TaskSound(u)'
  <2>1. (Queued(u)' <=> Queued(u)) /\ (HasActive(slots, u)' <=> HasActive(slots, u))
    BY <1>1 DEF Queued
  <2>2. TaskSound(u) /\ TaskSound(t) /\ BrowserTypeOK
    BY DEF BrowserSound
  <2>3. CASE u = t
    BY <2>1, <2>2, <2>3 DEF TaskSound, BrowserTypeOK, LegParks, handleVars, rowVars,
       NonTerminal, Terminal
  <2>4. CASE u # t
    BY <2>1, <2>2, <2>4 DEF TaskSound, BrowserTypeOK, LegParks, handleVars, rowVars
  <2> QED BY <2>3, <2>4
<1> QED BY <1>1, <1>2, <1>3 DEF BrowserSound

LEMMA ResumeSound ==
  ASSUME BrowserSound, NEW t \in Tasks, Resume(t)
  PROVE  BrowserSound'
<1>1. slots' = slots
  BY DEF Resume, handleVars, rowVars
<1>2. BrowserTypeOK'
  BY DEF BrowserSound, BrowserTypeOK, Resume, handleVars, rowVars, NonTerminal,
     Terminal
<1>3. ASSUME NEW u \in Tasks PROVE TaskSound(u)'
  <2>1. (Queued(u)' <=> Queued(u)) /\ (HasActive(slots, u)' <=> HasActive(slots, u))
    BY <1>1 DEF Queued
  <2>2. TaskSound(u) /\ TaskSound(t) /\ BrowserTypeOK
    BY DEF BrowserSound
  <2>3. CASE u = t
    BY <2>1, <2>2, <2>3 DEF TaskSound, BrowserTypeOK, Resume, handleVars, rowVars,
       NonTerminal, Terminal
  <2>4. CASE u # t
    BY <2>1, <2>2, <2>4 DEF TaskSound, BrowserTypeOK, Resume, handleVars, rowVars
  <2> QED BY <2>3, <2>4
<1> QED BY <1>1, <1>2, <1>3 DEF BrowserSound

LEMMA CancelLiveSound ==
  ASSUME BrowserSound, NEW t \in Tasks, CancelLive(t)
  PROVE  BrowserSound'
<1>1. slots' = slots
  BY DEF CancelLive, handleVars, rowVars
<1>2. BrowserTypeOK'
  BY DEF BrowserSound, BrowserTypeOK, CancelLive, handleVars, rowVars, NonTerminal,
     Terminal
<1>3. ASSUME NEW u \in Tasks PROVE TaskSound(u)'
  <2>1. (Queued(u)' <=> Queued(u)) /\ (HasActive(slots, u)' <=> HasActive(slots, u))
    BY <1>1 DEF Queued
  <2>2. TaskSound(u) /\ TaskSound(t) /\ BrowserTypeOK
    BY DEF BrowserSound
  <2>3. CASE u = t
    BY <2>1, <2>2, <2>3 DEF TaskSound, BrowserTypeOK, CancelLive, handleVars, rowVars,
       NonTerminal, Terminal
  <2>4. CASE u # t
    BY <2>1, <2>2, <2>4 DEF TaskSound, BrowserTypeOK, CancelLive, handleVars, rowVars
  <2> QED BY <2>3, <2>4
<1> QED BY <1>1, <1>2, <1>3 DEF BrowserSound

LEMMA CancelPreparingSound ==
  ASSUME BrowserSound, NEW t \in Tasks, CancelPreparing(t)
  PROVE  BrowserSound'
<1>1. slots' = slots
  BY DEF CancelPreparing, handleVars, rowVars
<1>2. BrowserTypeOK'
  BY DEF BrowserSound, BrowserTypeOK, CancelPreparing, handleVars, rowVars, NonTerminal,
     Terminal
<1>3. ASSUME NEW u \in Tasks PROVE TaskSound(u)'
  <2>1. (Queued(u)' <=> Queued(u)) /\ (HasActive(slots, u)' <=> HasActive(slots, u))
    BY <1>1 DEF Queued
  <2>2. TaskSound(u) /\ TaskSound(t) /\ BrowserTypeOK
    BY DEF BrowserSound
  <2>3. CASE u = t
    BY <2>1, <2>2, <2>3 DEF TaskSound, BrowserTypeOK, CancelPreparing, handleVars, rowVars,
       NonTerminal, Terminal
  <2>4. CASE u # t
    BY <2>1, <2>2, <2>4 DEF TaskSound, BrowserTypeOK, CancelPreparing, handleVars, rowVars
  <2> QED BY <2>3, <2>4
<1> QED BY <1>1, <1>2, <1>3 DEF BrowserSound

LEMMA CancelParkedSound ==
  ASSUME BrowserSound, NEW t \in Tasks, CancelParked(t)
  PROVE  BrowserSound'
<1>1. slots' = slots
  BY DEF CancelParked, handleVars, rowVars
<1>2. BrowserTypeOK'
  BY DEF BrowserSound, BrowserTypeOK, CancelParked, handleVars, rowVars, NonTerminal,
     Terminal
<1>3. ASSUME NEW u \in Tasks PROVE TaskSound(u)'
  <2>1. (Queued(u)' <=> Queued(u)) /\ (HasActive(slots, u)' <=> HasActive(slots, u))
    BY <1>1 DEF Queued
  <2>2. TaskSound(u) /\ TaskSound(t) /\ BrowserTypeOK
    BY DEF BrowserSound
  <2>3. CASE u = t
    BY <2>1, <2>2, <2>3 DEF TaskSound, BrowserTypeOK, CancelParked, handleVars, rowVars,
       NonTerminal, Terminal
  <2>4. CASE u # t
    BY <2>1, <2>2, <2>4 DEF TaskSound, BrowserTypeOK, CancelParked, handleVars, rowVars
  <2> QED BY <2>3, <2>4
<1> QED BY <1>1, <1>2, <1>3 DEF BrowserSound

LEMMA ExpireParkedSound ==
  ASSUME BrowserSound, NEW t \in Tasks, ExpireParked(t)
  PROVE  BrowserSound'
<1>1. slots' = slots
  BY DEF ExpireParked, handleVars, rowVars
<1>2. BrowserTypeOK'
  BY DEF BrowserSound, BrowserTypeOK, ExpireParked, handleVars, rowVars, NonTerminal,
     Terminal, Overdue
<1>3. ASSUME NEW u \in Tasks PROVE TaskSound(u)'
  <2>1. (Queued(u)' <=> Queued(u)) /\ (HasActive(slots, u)' <=> HasActive(slots, u))
    BY <1>1 DEF Queued
  <2>2. TaskSound(u) /\ TaskSound(t) /\ BrowserTypeOK
    BY DEF BrowserSound
  <2>3. CASE u = t
    BY <2>1, <2>2, <2>3 DEF TaskSound, BrowserTypeOK, ExpireParked, handleVars, rowVars,
       NonTerminal, Terminal, Overdue
  <2>4. CASE u # t
    BY <2>1, <2>2, <2>4 DEF TaskSound, BrowserTypeOK, ExpireParked, handleVars, rowVars, Overdue
  <2> QED BY <2>3, <2>4
<1> QED BY <1>1, <1>2, <1>3 DEF BrowserSound

LEMMA ExpireLiveSound ==
  ASSUME BrowserSound, NEW t \in Tasks, ExpireLive(t)
  PROVE  BrowserSound'
<1>1. slots' = slots
  BY DEF ExpireLive, handleVars, rowVars
<1>2. BrowserTypeOK'
  BY DEF BrowserSound, BrowserTypeOK, ExpireLive, handleVars, rowVars, NonTerminal,
     Terminal, Overdue, MarkTerminal
<1>3. ASSUME NEW u \in Tasks PROVE TaskSound(u)'
  <2>1. (Queued(u)' <=> Queued(u)) /\ (HasActive(slots, u)' <=> HasActive(slots, u))
    BY <1>1 DEF Queued
  <2>2. TaskSound(u) /\ TaskSound(t) /\ BrowserTypeOK
    BY DEF BrowserSound
  <2>3. CASE u = t
    BY <2>1, <2>2, <2>3 DEF TaskSound, BrowserTypeOK, ExpireLive, handleVars, rowVars,
       NonTerminal, Terminal, Overdue, MarkTerminal
  <2>4. CASE u # t
    BY <2>1, <2>2, <2>4 DEF TaskSound, BrowserTypeOK, ExpireLive, handleVars, rowVars, Overdue, MarkTerminal
  <2> QED BY <2>3, <2>4
<1> QED BY <1>1, <1>2, <1>3 DEF BrowserSound

-----------------------------------------------------------------------------
\* The steps that give a slot back.
LEMMA OthersSound ==
  ASSUME BrowserSound, NEW t \in Tasks,
         NEW rows \in [Tasks -> Terminal \cup NonTerminal \cup {"none"}],
         NEW legs \in [Tasks -> {"none", "preparing", "streaming", "closing",
                                 "threw"}],
         ReleaseAndPromote(t, rows, legs),
         NEW u \in Tasks, u # t,
         rows[u] = row[u], legs[u] = leg[u],
         clarification'[u] = clarification[u],
         aborted'[u] = aborted[u], closer'[u] = closer[u],
         u \in live' <=> u \in live, u \in parked' <=> u \in parked,
         u \in chromium' <=> u \in chromium, u \in swept' <=> u \in swept,
         u \in cancelled' <=> u \in cancelled,
         u \in pendingAborts' <=> u \in pendingAborts
  PROVE  TaskSound(u)'
<1>1. PICK p : /\ \A v \in Tasks : v = p => Queued(v)
               /\ \A v \in Tasks :
                    /\ Queued(v)' <=> Queued(v) /\ v # p
                    /\ HasActive(slots', v) <=>
                         (HasActive(slots, v) /\ v # t) \/ v = p
                    /\ row'[v] = IF v = p /\ rows[v] = "pending"
                                 THEN "running" ELSE rows[v]
                    /\ leg'[v] = IF v = p THEN "preparing" ELSE legs[v]
  BY ReleaseEffects DEF BrowserSound
<1>2. TaskSound(u)
  BY DEF BrowserSound
<1>3. CASE u = p
  BY <1>1, <1>2, <1>3 DEF TaskSound
<1>4. CASE u # p
  BY <1>1, <1>2, <1>4 DEF TaskSound
<1> QED BY <1>3, <1>4

LEMMA ReleaserSound ==
  ASSUME BrowserSound, NEW t \in Tasks,
         NEW rows \in [Tasks -> Terminal \cup NonTerminal \cup {"none"}],
         NEW legs \in [Tasks -> {"none", "preparing", "streaming", "closing",
                                 "threw"}],
         ReleaseAndPromote(t, rows, legs), ~Queued(t)
  PROVE  /\ SlotsSound(slots') /\ slots' \in SlotState
         /\ row' \in [Tasks -> Terminal \cup NonTerminal \cup {"none"}]
         /\ leg' \in [Tasks -> {"none", "preparing", "streaming", "closing",
                                "threw"}]
         /\ ~HasActive(slots', t) /\ ~Queued(t)'
         /\ row'[t] = rows[t] /\ leg'[t] = legs[t]
  BY ReleaseEffects DEF BrowserSound, SlotsSound

LEMMA PrepareFailsSound ==
  ASSUME BrowserSound, NEW t \in Tasks, PrepareFails(t)
  PROVE  BrowserSound'
<1> DEFINE rows == MarkTerminal(t, "failed")
           legs == [leg EXCEPT ![t] = "none"]
<1>1. ReleaseAndPromote(t, rows, legs)
  BY DEF PrepareFails
<1>2. TaskSound(t) /\ BrowserTypeOK
  BY DEF BrowserSound
<1>3. /\ rows \in [Tasks -> Terminal \cup NonTerminal \cup {"none"}]
      /\ \A u \in Tasks : u # t => rows[u] = row[u]
      /\ rows[t] \notin {"none", "pending"}
  BY <1>2, MarkTerminalType DEF PrepareFails, BrowserTypeOK, TaskSound, Terminal,
     NonTerminal
<1>4. /\ legs \in [Tasks -> {"none", "preparing", "streaming", "closing",
                              "threw"}]
      /\ \A u \in Tasks : u # t => legs[u] = leg[u]
  BY <1>2 DEF BrowserTypeOK
<1>5. ~Queued(t)
  BY <1>2 DEF PrepareFails, TaskSound
<1> HIDE DEF rows
<1>6. /\ SlotsSound(slots') /\ slots' \in SlotState
      /\ row' \in [Tasks -> Terminal \cup NonTerminal \cup {"none"}]
      /\ leg' \in [Tasks -> {"none", "preparing", "streaming", "closing",
                              "threw"}]
      /\ ~HasActive(slots', t) /\ ~Queued(t)'
      /\ row'[t] = rows[t] /\ leg'[t] = legs[t]
  BY <1>1, <1>3, <1>4, <1>5, ReleaserSound
<1>7. BrowserTypeOK'
  BY <1>2, <1>6 DEF BrowserTypeOK, PrepareFails, handleVars, rowVars
<1>8. TaskSound(t)'
  BY <1>2, <1>3, <1>6 DEF TaskSound, BrowserTypeOK, PrepareFails, handleVars, rowVars,
     Terminal, NonTerminal
<1>9. ASSUME NEW u \in Tasks, u # t PROVE TaskSound(u)'
  <2>1. /\ clarification'[u] = clarification[u]
        /\ aborted'[u] = aborted[u] /\ closer'[u] = closer[u]
        /\ u \in live' <=> u \in live
        /\ u \in parked' <=> u \in parked
        /\ u \in chromium' <=> u \in chromium
        /\ u \in swept' <=> u \in swept
        /\ u \in cancelled' <=> u \in cancelled
        /\ u \in pendingAborts' <=> u \in pendingAborts
    BY <1>2, <1>9 DEF PrepareFails, BrowserTypeOK, handleVars, rowVars
  <2> QED BY <1>1, <1>3, <1>4, <1>9, <2>1, OthersSound
<1> QED BY <1>6, <1>7, <1>8, <1>9 DEF BrowserSound

LEMMA LegClosedSound ==
  ASSUME BrowserSound, NEW t \in Tasks, LegClosed(t)
  PROVE  BrowserSound'
<1> DEFINE rows == row
           legs == [leg EXCEPT ![t] = "none"]
<1>1. ReleaseAndPromote(t, rows, legs)
  BY DEF LegClosed
<1>2. TaskSound(t) /\ BrowserTypeOK
  BY DEF BrowserSound
<1>3. /\ rows \in [Tasks -> Terminal \cup NonTerminal \cup {"none"}]
      /\ \A u \in Tasks : u # t => rows[u] = row[u]
      /\ rows[t] \notin {"none", "pending"}
  BY <1>2, MarkTerminalType DEF LegClosed, BrowserTypeOK, TaskSound, Terminal,
     NonTerminal, DropHandle
<1>4. /\ legs \in [Tasks -> {"none", "preparing", "streaming", "closing",
                              "threw"}]
      /\ \A u \in Tasks : u # t => legs[u] = leg[u]
  BY <1>2 DEF BrowserTypeOK
<1>5. ~Queued(t)
  BY <1>2 DEF LegClosed, TaskSound, DropHandle
<1> HIDE DEF rows
<1>6. /\ SlotsSound(slots') /\ slots' \in SlotState
      /\ row' \in [Tasks -> Terminal \cup NonTerminal \cup {"none"}]
      /\ leg' \in [Tasks -> {"none", "preparing", "streaming", "closing",
                              "threw"}]
      /\ ~HasActive(slots', t) /\ ~Queued(t)'
      /\ row'[t] = rows[t] /\ leg'[t] = legs[t]
  BY <1>1, <1>3, <1>4, <1>5, ReleaserSound
<1>7. BrowserTypeOK'
  BY <1>2, <1>6 DEF BrowserTypeOK, LegClosed, handleVars, rowVars, DropHandle
<1>8. TaskSound(t)'
  BY <1>2, <1>3, <1>6 DEF TaskSound, BrowserTypeOK, LegClosed, handleVars, rowVars,
     Terminal, NonTerminal, DropHandle
<1>9. ASSUME NEW u \in Tasks, u # t PROVE TaskSound(u)'
  <2>1. /\ clarification'[u] = clarification[u]
        /\ aborted'[u] = aborted[u] /\ closer'[u] = closer[u]
        /\ u \in live' <=> u \in live
        /\ u \in parked' <=> u \in parked
        /\ u \in chromium' <=> u \in chromium
        /\ u \in swept' <=> u \in swept
        /\ u \in cancelled' <=> u \in cancelled
        /\ u \in pendingAborts' <=> u \in pendingAborts
    BY <1>2, <1>9 DEF LegClosed, BrowserTypeOK, handleVars, rowVars, DropHandle
  <2> QED BY <1>1, <1>3, <1>4, <1>9, <2>1, OthersSound
<1> QED BY <1>6, <1>7, <1>8, <1>9 DEF BrowserSound

LEMMA ResumeUnparkedSound ==
  ASSUME BrowserSound, NEW t \in Tasks, ResumeUnparked(t)
  PROVE  BrowserSound'
<1> DEFINE rows == MarkTerminal(t, "failed")
           legs == leg
<1>1. ReleaseAndPromote(t, rows, legs)
  BY DEF ResumeUnparked
<1>2. TaskSound(t) /\ BrowserTypeOK
  BY DEF BrowserSound
<1>3. /\ rows \in [Tasks -> Terminal \cup NonTerminal \cup {"none"}]
      /\ \A u \in Tasks : u # t => rows[u] = row[u]
      /\ rows[t] = "failed"
  BY <1>2, MarkTerminalType DEF ResumeUnparked, BrowserTypeOK, TaskSound, Terminal,
     NonTerminal
<1>4. /\ legs \in [Tasks -> {"none", "preparing", "streaming", "closing",
                              "threw"}]
      /\ \A u \in Tasks : u # t => legs[u] = leg[u]
  BY <1>2 DEF BrowserTypeOK
<1>5. ~Queued(t)
  BY <1>2 DEF ResumeUnparked, TaskSound
<1> HIDE DEF rows
<1>6. /\ SlotsSound(slots') /\ slots' \in SlotState
      /\ row' \in [Tasks -> Terminal \cup NonTerminal \cup {"none"}]
      /\ leg' \in [Tasks -> {"none", "preparing", "streaming", "closing",
                              "threw"}]
      /\ ~HasActive(slots', t) /\ ~Queued(t)'
      /\ row'[t] = rows[t] /\ leg'[t] = legs[t]
  BY <1>1, <1>3, <1>4, <1>5, ReleaserSound
<1>7. BrowserTypeOK'
  BY <1>2, <1>6 DEF BrowserTypeOK, ResumeUnparked, handleVars, rowVars
<1>8. TaskSound(t)'
  BY <1>2, <1>3, <1>6 DEF TaskSound, BrowserTypeOK, ResumeUnparked, handleVars, rowVars,
     Terminal, NonTerminal
<1>9. ASSUME NEW u \in Tasks, u # t PROVE TaskSound(u)'
  <2>1. /\ clarification'[u] = clarification[u]
        /\ aborted'[u] = aborted[u] /\ closer'[u] = closer[u]
        /\ u \in live' <=> u \in live
        /\ u \in parked' <=> u \in parked
        /\ u \in chromium' <=> u \in chromium
        /\ u \in swept' <=> u \in swept
        /\ u \in cancelled' <=> u \in cancelled
        /\ u \in pendingAborts' <=> u \in pendingAborts
    BY <1>2, <1>9 DEF ResumeUnparked, BrowserTypeOK, handleVars, rowVars
  <2> QED BY <1>1, <1>3, <1>4, <1>9, <2>1, OthersSound
<1> QED BY <1>6, <1>7, <1>8, <1>9 DEF BrowserSound

LEMMA ExpireUntrackedSound ==
  ASSUME BrowserSound, NEW t \in Tasks, ExpireUntracked(t)
  PROVE  BrowserSound'
<1> DEFINE rows == MarkTerminal(t, "abandoned")
           legs == leg
<1>1. ReleaseAndPromote(t, rows, legs)
  BY DEF ExpireUntracked
<1>2. TaskSound(t) /\ BrowserTypeOK
  BY DEF BrowserSound
<1>3. /\ rows \in [Tasks -> Terminal \cup NonTerminal \cup {"none"}]
      /\ \A u \in Tasks : u # t => rows[u] = row[u]
      /\ rows[t] \notin {"none", "pending"}
  BY <1>2, MarkTerminalType DEF ExpireUntracked, BrowserTypeOK, TaskSound, Terminal,
     NonTerminal, Overdue
<1>4. /\ legs \in [Tasks -> {"none", "preparing", "streaming", "closing",
                              "threw"}]
      /\ \A u \in Tasks : u # t => legs[u] = leg[u]
  BY <1>2 DEF BrowserTypeOK
<1>5. ~Queued(t)
  BY <1>2 DEF ExpireUntracked, TaskSound, Overdue
<1> HIDE DEF rows
<1>6. /\ SlotsSound(slots') /\ slots' \in SlotState
      /\ row' \in [Tasks -> Terminal \cup NonTerminal \cup {"none"}]
      /\ leg' \in [Tasks -> {"none", "preparing", "streaming", "closing",
                              "threw"}]
      /\ ~HasActive(slots', t) /\ ~Queued(t)'
      /\ row'[t] = rows[t] /\ leg'[t] = legs[t]
  BY <1>1, <1>3, <1>4, <1>5, ReleaserSound
<1>7. BrowserTypeOK'
  BY <1>2, <1>6 DEF BrowserTypeOK, ExpireUntracked, handleVars, rowVars, Overdue
<1>8. TaskSound(t)'
  BY <1>2, <1>3, <1>6 DEF TaskSound, BrowserTypeOK, ExpireUntracked, handleVars, rowVars,
     Terminal, NonTerminal, Overdue
<1>9. ASSUME NEW u \in Tasks, u # t PROVE TaskSound(u)'
  <2>1. /\ clarification'[u] = clarification[u]
        /\ aborted'[u] = aborted[u] /\ closer'[u] = closer[u]
        /\ u \in live' <=> u \in live
        /\ u \in parked' <=> u \in parked
        /\ u \in chromium' <=> u \in chromium
        /\ u \in swept' <=> u \in swept
        /\ u \in cancelled' <=> u \in cancelled
        /\ u \in pendingAborts' <=> u \in pendingAborts
    BY <1>2, <1>9 DEF ExpireUntracked, BrowserTypeOK, handleVars, rowVars, Overdue
  <2> QED BY <1>1, <1>3, <1>4, <1>9, <2>1, OthersSound
<1> QED BY <1>6, <1>7, <1>8, <1>9 DEF BrowserSound

LEMMA CloserEndsSound ==
  ASSUME BrowserSound, NEW t \in Tasks, CloserEnds(t)
  PROVE  BrowserSound'
<1> DEFINE rows == MarkTerminal(t, IF closer[t] = "cancel" THEN "cancelled"
                                                   ELSE "abandoned")
           legs == leg
<1>1. ReleaseAndPromote(t, rows, legs)
  BY DEF CloserEnds
<1>2. TaskSound(t) /\ BrowserTypeOK
  BY DEF BrowserSound
<1>3. /\ rows \in [Tasks -> Terminal \cup NonTerminal \cup {"none"}]
      /\ \A u \in Tasks : u # t => rows[u] = row[u]
      /\ rows[t] \notin {"none", "pending"}
  BY <1>2, MarkTerminalType DEF CloserEnds, BrowserTypeOK, TaskSound, Terminal,
     NonTerminal, DropHandle
<1>4. /\ legs \in [Tasks -> {"none", "preparing", "streaming", "closing",
                              "threw"}]
      /\ \A u \in Tasks : u # t => legs[u] = leg[u]
  BY <1>2 DEF BrowserTypeOK
<1>5. ~Queued(t)
  BY <1>2 DEF CloserEnds, TaskSound, DropHandle
<1> HIDE DEF rows
<1>6. /\ SlotsSound(slots') /\ slots' \in SlotState
      /\ row' \in [Tasks -> Terminal \cup NonTerminal \cup {"none"}]
      /\ leg' \in [Tasks -> {"none", "preparing", "streaming", "closing",
                              "threw"}]
      /\ ~HasActive(slots', t) /\ ~Queued(t)'
      /\ row'[t] = rows[t] /\ leg'[t] = legs[t]
  BY <1>1, <1>3, <1>4, <1>5, ReleaserSound
<1>7. BrowserTypeOK'
  BY <1>2, <1>6 DEF BrowserTypeOK, CloserEnds, handleVars, rowVars, DropHandle
<1>8. TaskSound(t)'
  BY <1>2, <1>3, <1>6 DEF TaskSound, BrowserTypeOK, CloserEnds, handleVars, rowVars,
     Terminal, NonTerminal, DropHandle
<1>9. ASSUME NEW u \in Tasks, u # t PROVE TaskSound(u)'
  <2>1. /\ clarification'[u] = clarification[u]
        /\ aborted'[u] = aborted[u] /\ closer'[u] = closer[u]
        /\ u \in live' <=> u \in live
        /\ u \in parked' <=> u \in parked
        /\ u \in chromium' <=> u \in chromium
        /\ u \in swept' <=> u \in swept
        /\ u \in cancelled' <=> u \in cancelled
        /\ u \in pendingAborts' <=> u \in pendingAborts
    BY <1>2, <1>9 DEF CloserEnds, BrowserTypeOK, handleVars, rowVars, DropHandle
  <2> QED BY <1>1, <1>3, <1>4, <1>9, <2>1, OthersSound
<1> QED BY <1>6, <1>7, <1>8, <1>9 DEF BrowserSound

-----------------------------------------------------------------------------
LEMMA SubmitSound ==
  ASSUME BrowserSound, NEW t \in Tasks, Submit(t)
  PROVE  BrowserSound'
<1>1. TaskSound(t) /\ BrowserTypeOK /\ SlotsSound(slots)
  BY DEF BrowserSound
<1>2. ~Queued(t) /\ ~HasActive(slots, t) /\ t \notin swept
  BY <1>1 DEF Submit, TaskSound
<1>3. slots' = decideAcquire(slots, t)
  BY DEF Submit
<1>4. SlotsSound(slots') /\ slots' \in SlotState
  <2>1. ~knowsTask(slots, t)
    BY <1>2 DEF knowsTask, Queued
  <2> QED BY <1>1, <1>3, <2>1, AcquireSound DEF SlotsSound
<1>5. \A u \in Tasks :
        /\ Queued(u)' <=> Queued(u) \/ (~Promotes(slots, t) /\ u = t)
        /\ HasActive(slots', u) <=>
             HasActive(slots, u) \/ (Promotes(slots, t) /\ u = t)
  <2>1. Elements(slots'.globalQueue) =
          Elements(slots.globalQueue)
            \cup (IF Promotes(slots, t) THEN {} ELSE {t})
    BY <1>1, <1>3, AcquireEffects
  <2>2. \A u \in Tasks : HasActive(slots', u) <=>
          HasActive(slots, u) \/ (Promotes(slots, t) /\ u = t)
    BY <1>1, <1>3, AcquireEffects
  <2> QED BY <2>1, <2>2 DEF Queued
<1>6. BrowserTypeOK'
  BY <1>1, <1>4 DEF BrowserTypeOK, Submit, handleVars, NonTerminal
<1>7. ASSUME NEW u \in Tasks PROVE TaskSound(u)'
  <2>1. TaskSound(u)
    BY DEF BrowserSound
  <2>2. CASE u = t
    BY <1>1, <1>2, <1>5, <2>1, <2>2 DEF TaskSound, BrowserTypeOK, Submit, handleVars
  <2>3. CASE u # t
    BY <1>1, <1>5, <2>1, <2>3 DEF TaskSound, BrowserTypeOK, Submit, handleVars
  <2> QED BY <2>2, <2>3
<1> QED BY <1>4, <1>6, <1>7 DEF BrowserSound

LEMMA CancelEffects ==
  ASSUME BrowserSound, NEW t \in Tasks, slots' = decideCancel(slots, t)
  PROVE  /\ SlotsSound(slots') /\ slots' \in SlotState
         /\ \A u \in Tasks : /\ Queued(u)' <=> Queued(u) /\ u # t
                             /\ HasActive(slots', u) <=> HasActive(slots, u)
<1>1. /\ SlotsSound(slots')
      /\ Elements(slots'.globalQueue) = Elements(slots.globalQueue) \ {t}
      /\ slots'.active = slots.active
  BY CancelSound DEF BrowserSound
<1> QED BY <1>1 DEF Queued, HasActive, SitesHeld, SlotsSound

LEMMA CancelQueuedSound ==
  ASSUME BrowserSound, NEW t \in Tasks, CancelQueued(t)
  PROVE  BrowserSound'
<1>1. /\ SlotsSound(slots') /\ slots' \in SlotState
      /\ \A u \in Tasks : /\ Queued(u)' <=> Queued(u) /\ u # t
                          /\ HasActive(slots', u) <=> HasActive(slots, u)
  BY CancelEffects DEF CancelQueued
<1>2. BrowserTypeOK
  BY DEF BrowserSound
<1>3. row' = [row EXCEPT ![t] = "cancelled"]
  BY DEF CancelQueued, MarkTerminal, NonTerminal
<1>4. BrowserTypeOK'
  BY <1>1, <1>2, <1>3 DEF BrowserTypeOK, CancelQueued, handleVars, Terminal
<1>5. ASSUME NEW u \in Tasks PROVE TaskSound(u)'
  <2>1. TaskSound(u)
    BY DEF BrowserSound
  <2>2. CASE u = t
    BY <1>1, <1>2, <1>3, <2>1, <2>2
       DEF TaskSound, BrowserTypeOK, CancelQueued, handleVars
  <2>3. CASE u # t
    BY <1>1, <1>2, <1>3, <2>1, <2>3
       DEF TaskSound, BrowserTypeOK, CancelQueued, handleVars
  <2> QED BY <2>2, <2>3
<1> QED BY <1>1, <1>4, <1>5 DEF BrowserSound

LEMMA SweepQueuedSound ==
  ASSUME BrowserSound, NEW t \in Tasks, SweepQueued(t)
  PROVE  BrowserSound'
<1>1. /\ SlotsSound(slots') /\ slots' \in SlotState
      /\ \A u \in Tasks : /\ Queued(u)' <=> Queued(u) /\ u # t
                          /\ HasActive(slots', u) <=> HasActive(slots, u)
  BY CancelEffects DEF SweepQueued
<1>2. BrowserTypeOK /\ Queued(t)
  BY DEF BrowserSound, SweepQueued, Queued
<1>3. BrowserTypeOK'
  BY <1>1, <1>2 DEF BrowserTypeOK, SweepQueued, handleVars, rowVars
<1>4. ASSUME NEW u \in Tasks PROVE TaskSound(u)'
  <2>1. TaskSound(u)
    BY DEF BrowserSound
  <2>2. CASE u = t
    BY <1>1, <1>2, <2>1, <2>2 DEF TaskSound, SweepQueued, handleVars, rowVars
  <2>3. CASE u # t
    BY <1>1, <1>2, <2>1, <2>3 DEF TaskSound, SweepQueued, handleVars, rowVars
  <2> QED BY <2>2, <2>3
<1> QED BY <1>1, <1>3, <1>4 DEF BrowserSound

LEMMA FailSweptSound ==
  ASSUME BrowserSound, NEW t \in Tasks, FailSwept(t)
  PROVE  BrowserSound'
<1>1. TaskSound(t) /\ BrowserTypeOK
  BY DEF BrowserSound
<1>2. slots' = slots
  BY <1>1 DEF FailSwept, TaskSound, decideRelease
<1>3. /\ row' \in [Tasks -> Terminal \cup NonTerminal \cup {"none"}]
      /\ \A u \in Tasks : u # t => row'[u] = row[u]
      /\ row[t] \in NonTerminal => row'[t] = "failed"
      /\ row[t] \notin NonTerminal => row'[t] = row[t]
  BY <1>1, MarkTerminalType DEF FailSwept, Terminal
<1>4. BrowserTypeOK'
  BY <1>1, <1>2, <1>3 DEF BrowserTypeOK, FailSwept, handleVars
<1>5. ASSUME NEW u \in Tasks PROVE TaskSound(u)'
  <2>1. (Queued(u)' <=> Queued(u)) /\ (HasActive(slots, u)' <=> HasActive(slots, u))
    BY <1>2 DEF Queued
  <2>2. TaskSound(u)
    BY DEF BrowserSound
  <2>3. CASE u = t
    BY <1>1, <1>3, <2>1, <2>2, <2>3 DEF TaskSound, FailSwept, handleVars, NonTerminal
  <2>4. CASE u # t
    BY <1>3, <2>1, <2>2, <2>4 DEF TaskSound, FailSwept, handleVars
  <2> QED BY <2>3, <2>4
<1> QED BY <1>2, <1>4, <1>5 DEF BrowserSound

LEMMA RestartSound ==
  ASSUME BrowserSound, Restart
  PROVE  BrowserSound'
<1>1. slots' = createInitialSlotState
  BY DEF Restart
<1>2. SlotsSound(slots') /\ slots' \in SlotState
  BY <1>1, InitialSound DEF SlotsSound
<1>3. restarts' \in 0..MaxRestarts
  <2>1. restarts \in 0..MaxRestarts /\ MaxRestarts \in Nat /\ restarts < MaxRestarts
    BY BrowserAssumption DEF BrowserSound, BrowserTypeOK, Restart
  <2> QED BY <2>1 DEF Restart
<1>4. BrowserTypeOK'
  BY <1>2, <1>3 DEF BrowserSound, BrowserTypeOK, Restart, Terminal, NonTerminal
<1>5. \A u \in Tasks : ~Queued(u)' /\ ~HasActive(slots', u)
  <2> HIDE DEF Restart
  <2> QED BY <1>1, SlotAssumption DEF Queued, Elements, HasActive, SitesHeld,
          createInitialSlotState
<1>6. \A u \in Tasks : TaskSound(u)'
  BY <1>5 DEF BrowserSound, BrowserTypeOK, TaskSound, Restart, NonTerminal
<1> QED BY <1>2, <1>4, <1>6 DEF BrowserSound

LEMMA StutterSound ==
  ASSUME BrowserSound, UNCHANGED browserVars
  PROVE  BrowserSound'
<1>1. slots' = slots
  BY DEF browserVars
<1>2. BrowserTypeOK'
  BY DEF BrowserSound, BrowserTypeOK, browserVars, rowVars, handleVars
<1>3. ASSUME NEW u \in Tasks PROVE TaskSound(u)'
  <2>1. (Queued(u)' <=> Queued(u)) /\ (HasActive(slots, u)' <=> HasActive(slots, u))
    BY <1>1 DEF Queued
  <2> QED BY <2>1 DEF BrowserSound, TaskSound, browserVars, rowVars, handleVars
<1> QED BY <1>1, <1>2, <1>3 DEF BrowserSound

\* The invariant is inductive, and every step leaves a terminal row alone.
LEMMA StepSound == BrowserSound /\ [BrowserNext]_browserVars => BrowserSound'
<1> SUFFICES ASSUME BrowserSound, [BrowserNext]_browserVars PROVE BrowserSound'
  OBVIOUS
<1>1. CASE UNCHANGED browserVars
  BY <1>1, StutterSound
<1>2. CASE Restart
  BY <1>2, RestartSound
<1>3. ASSUME NEW t \in Tasks, TaskStep(t) PROVE BrowserSound'
  <2>1. CASE LegStep(t)
    BY <2>1, PreparedSound, PrepareFailsSound, PrepareThrowsSound, LegEndsSound,
       LegParksSound, LegClosedSound DEF LegStep
  <2>2. CASE ToolStep(t)
    BY <2>2, AskUserSound, FinishSound, OpenGateSound, ExecuteTimeoutSound
       DEF ToolStep
  <2>3. CASE UserStep(t)
    BY <2>3, SubmitSound, ResumeSound, ResumeUnparkedSound, CancelQueuedSound,
       CancelLiveSound, CancelPreparingSound, CancelParkedSound DEF UserStep
  <2>4. CASE ExpireStep(t)
    BY <2>4, ExpireParkedSound, ExpireLiveSound, ExpireUntrackedSound
       DEF ExpireStep
  <2>5. CASE GateReturns(t) \/ CloserEnds(t) \/ SweepQueued(t) \/ FailSwept(t)
    BY <2>5, GateReturnsSound, CloserEndsSound, SweepQueuedSound, FailSweptSound
  <2> QED BY <1>3, <2>1, <2>2, <2>3, <2>4, <2>5 DEF TaskStep
<1> QED BY <1>1, <1>2, <1>3 DEF BrowserNext

LEMMA SoundAlways == BrowserSpec => []BrowserSound
<1> QED BY InitSound, StepSound, PTL DEF BrowserSpec

-----------------------------------------------------------------------------
\* Every table, map and queue of the runner keeps its type.
THEOREM BrowserTypes == BrowserSpec => []BrowserTypeOK
<1>1. BrowserSound => BrowserTypeOK
  BY DEF BrowserSound
<1> QED BY <1>1, SoundAlways, PTL

\* At most maxConcurrent slots are held, each by a task of its site; no task is
\* in two places, every site queue is the global queue restricted to its site,
\* nobody waits while his site is free and the cap has room, and the queued tasks
\* are the pending rows, less those the tick is about to fail.
THEOREM CapKept == BrowserSpec => []SlotsRespected
<1>1. BrowserSound => QueuedIsPending
  BY DEF BrowserSound, TaskSound, Queued, QueuedIsPending
<1>2. BrowserSound => SlotsRespected
  BY <1>1 DEF BrowserSound, SlotsSound, SlotsRespected
<1> QED BY <1>2, SoundAlways, PTL

\* Every held slot has a promise, a parked handle or a closing call behind it,
\* every open Chromium somebody that will close it, and a task parked in
\* awaiting_user an open clarification.
THEOREM NothingLost == BrowserSpec => []NothingLeftBehind
<1>1. BrowserSound => SlotHasOwner
  BY DEF BrowserSound, TaskSound, SlotHasOwner
<1>2. BrowserSound => ChromiumHasOwner
  BY DEF BrowserSound, BrowserTypeOK, TaskSound, ChromiumHasOwner
<1>3. BrowserSound => ParkedIsAnswerable
  BY DEF BrowserSound, BrowserTypeOK, TaskSound, ParkedIsAnswerable
<1>4. BrowserSound => NothingLeftBehind
  BY <1>1, <1>2, <1>3 DEF NothingLeftBehind
<1> QED BY <1>4, SoundAlways, PTL

\* An accepted cancel aborts the leg that runs, or the one being prepared.
THEOREM CancelsLand == BrowserSpec => []CancelReachesRun
<1>1. BrowserSound => CancelReachesRun
  BY DEF BrowserSound, BrowserTypeOK, TaskSound, CancelReachesRun
<1> QED BY <1>1, SoundAlways, PTL

\* A release rewrites no row but the promoted one, which is pending.
LEMMA ReleaseKeepsEnds ==
  ASSUME NEW t \in Tasks, NEW rows, NEW legs, ReleaseAndPromote(t, rows, legs),
         NEW u \in Tasks, row[u] \in Terminal, rows[u] = row[u]
  PROVE  row'[u] = row[u]
  BY DEF ReleaseAndPromote, Terminal

\* Whatever ends a task first, its row keeps that state.
THEOREM FirstEndWins == BrowserSpec => FirstEndStays
<1> DEFINE Kept == \A t \in Tasks : row[t] \in Terminal => row'[t] = row[t]
<1>1. BrowserSound /\ [BrowserNext]_browserVars => [Kept]_browserVars
  <2> SUFFICES ASSUME BrowserSound, BrowserNext, NEW u \in Tasks,
                      row[u] \in Terminal
               PROVE  row'[u] = row[u]
    OBVIOUS
  <2>0. BrowserTypeOK
    BY DEF BrowserSound
  <2>1. \A t \in Tasks : \A e : MarkTerminal(t, e)[u] = row[u]
    BY DEF MarkTerminal, Terminal, NonTerminal
  <2>2. CASE Restart
    BY <2>2 DEF Restart, Terminal, NonTerminal
  <2>3. ASSUME NEW t \in Tasks, TaskStep(t) PROVE row'[u] = row[u]
    <3>1. CASE LegStep(t)
      <4>1. CASE PrepareFails(t) \/ LegClosed(t)
        BY <2>1, <4>1, ReleaseKeepsEnds DEF PrepareFails, LegClosed
      <4>2. CASE Prepared(t) \/ PrepareThrows(t) \/ LegEnds(t) \/ LegParks(t)
        BY <2>1, <4>2 DEF Prepared, PrepareThrows, LegEnds, LegParks, rowVars
      <4> QED BY <3>1, <4>1, <4>2 DEF LegStep
    <3>2. CASE ToolStep(t)
      BY <2>0, <2>1, <3>2 DEF ToolStep, AskUser, Finish, OpenGate, ExecuteTimeout,
         rowVars, Terminal, BrowserTypeOK
    <3>3. CASE UserStep(t)
      <4>1. CASE ResumeUnparked(t)
        BY <2>1, <4>1, ReleaseKeepsEnds DEF ResumeUnparked
      <4>2. CASE ~ResumeUnparked(t)
        BY <2>0, <2>1, <3>3, <4>2
           DEF UserStep, Submit, Resume, CancelQueued, CancelLive,
               CancelPreparing, CancelParked, rowVars, Terminal, BrowserTypeOK
      <4> QED BY <4>1, <4>2
    <3>4. CASE ExpireStep(t)
      <4>1. CASE ExpireUntracked(t)
        BY <2>1, <4>1, ReleaseKeepsEnds DEF ExpireUntracked
      <4>2. CASE ExpireParked(t) \/ ExpireLive(t)
        BY <2>1, <4>2 DEF ExpireParked, ExpireLive
      <4> QED BY <3>4, <4>1, <4>2 DEF ExpireStep
    <3>5. CASE CloserEnds(t)
      BY <2>1, <3>5, ReleaseKeepsEnds DEF CloserEnds
    <3>6. CASE GateReturns(t) \/ SweepQueued(t) \/ FailSwept(t)
      BY <2>0, <2>1, <3>6 DEF GateReturns, SweepQueued, FailSwept, rowVars,
         Terminal, BrowserTypeOK
    <3> QED BY <2>3, <3>1, <3>2, <3>3, <3>4, <3>5, <3>6 DEF TaskStep
  <2> QED BY <2>2, <2>3 DEF BrowserNext
<1> QED BY <1>1, SoundAlways, PTL DEF BrowserSpec, FirstEndStays
=============================================================================
