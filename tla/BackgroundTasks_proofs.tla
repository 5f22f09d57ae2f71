------------------------ MODULE BackgroundTasks_proofs ------------------------
(***************************************************************************)
(* The safety of the background-task runner and of the delivery of results, *)
(* for any set of tasks, any cap, any bound, any faults and any number of   *)
(* restarts.  TaskSound ties together, for one task, the row, the question, *)
(* the queue, the handles and the promises; ToldSound the message and its   *)
(* records; SlotsSound is the invariant of the slot manager                 *)
(* (TaskSlots_proofs).                                                      *)
(***************************************************************************)
EXTENDS BackgroundTasks, TaskSlots_proofs

Queued(t) == t \in Elements(slots.globalQueue)

\* Nothing in the memory of the daemon knows of the task.
Untracked(t) ==
  /\ leg[t] = "none" /\ closer[t] = "none"
  /\ t \notin live /\ t \notin parked /\ t \notin swept /\ t \notin cancelled
  /\ ~Queued(t) /\ ~HasActive(slots, t)

TaskSound(t) ==
  /\ row[t] = "none" => Untracked(t) /\ clarification[t] = "none"
  /\ booting[t] # "no" => row[t] \in NonTerminal /\ Untracked(t)
  /\ booting[t] = "resume" => row[t] = "running"
  /\ Queued(t) =>
       /\ row[t] = "pending" /\ leg[t] = "none" /\ closer[t] = "none"
       /\ t \notin parked /\ t \notin swept /\ ~HasActive(slots, t)
  /\ t \in swept =>
       /\ row[t] \in Terminal \cup {"pending"}
       /\ leg[t] = "none" /\ closer[t] = "none"
       /\ t \notin parked /\ ~HasActive(slots, t)
  /\ t \in live <=> leg[t] \in Streaming
  /\ t \in live /\ row[t] = "awaiting_user" => clarification[t] = "open"
  /\ t \in parked =>
       /\ row[t] = "awaiting_user" /\ clarification[t] = "open"
       /\ leg[t] = "none" /\ closer[t] = "none" /\ t \notin cancelled
  /\ closer[t] # "none" =>
       leg[t] = "none" /\ row[t] \in Terminal \cup {"awaiting_user", "pending"}
  /\ leg[t] \in {"fresh", "boot", "start", "resume", "fallback"} => row[t] = "running"
  /\ leg[t] = "rebuild" => row[t] = "awaiting_user" /\ clarification[t] # "open"
  /\ leg[t] = "threw" => clarification[t] # "open"
  /\ leg[t] \in {"closing", "reporting"} => row[t] \in Terminal
  /\ HasActive(slots, t) => leg[t] # "none" \/ t \in parked \/ closer[t] # "none"
  /\ \/ leg[t] \in Preparing \cup Streaming \cup {"fallback"}
     \/ t \in parked
     \/ closer[t] # "none" /\ row[t] \in NonTerminal
     => HasActive(slots, t)
  /\ clarification[t] = "open" => row[t] \notin {"none", "pending", "running"}
  /\ row[t] = "pending" =>
       \/ Queued(t) \/ t \in swept \/ t \in live
       \/ closer[t] # "none" \/ booting[t] # "no"
  /\ row[t] = "running" => leg[t] # "none" \/ booting[t] # "no"
  /\ row[t] = "awaiting_user" =>
       \/ clarification[t] = "open" \/ leg[t] \in {"rebuild", "threw"}
       \/ closer[t] # "none" \/ booting[t] # "no" \/ restarts > 0
  /\ t \in cancelled =>
       /\ leg[t] \in Streaming => aborted[t] # "no"
       /\ leg[t] \in {"fresh", "boot", "fallback"} => t \in pendingAborts
       /\ row[t] = "awaiting_user" =>
            t \in live \/ closer[t] # "none" \/ leg[t] = "threw"
       /\ row[t] = "pending" =>
            t \in live \/ closer[t] # "none" \/ t \in pendingAborts

\* The send the handler is about to record, or that the records know of.
Accounted(t) ==
  \/ delivering[t] \in {"turnSent", "turnTagged", "draftSent"}
  \/ delivering[t] = "no" /\ t \in recorded \cup delivered

ToldSound(t) ==
  /\ Accounted(t) => sends[t] <= 1 + misses[t]
  /\ ~Accounted(t) => sends[t] <= misses[t]
  /\ delivering[t] = "turnTagged" => t \in recorded
  /\ delivering[t] \in {"turnSent", "turnTagged", "draftSent"} => sends[t] > 0
  /\ t \in recorded \cup delivered => Told(t)

\* What is marked or recorded as delivered was handed to the messenger, or there
\* is no channel to hand it to: the recovery sweep, which passes over what is
\* marked, passes over nothing that was never sent.
MarkedOnceSent == \A t \in Tasks : t \in recorded \cup delivered => Told(t)

RunnerSound ==
  /\ RunnerTypeOK
  /\ SlotsSound(slots)
  /\ \A t \in Tasks : TaskSound(t)

BackgroundSound ==
  /\ RunnerSound
  /\ DeliveryTypeOK(Tasks)
  /\ \A t \in Tasks : ToldSound(t)

Rows == [Tasks -> Terminal \cup NonTerminal \cup {"none"}]
AllLegs == [Tasks -> Legs]

-----------------------------------------------------------------------------
\* What a step of one task does to another: nothing, or it promotes it.
Rest(u) ==
  /\ clarification'[u] = clarification[u] /\ aborted'[u] = aborted[u]
  /\ closer'[u] = closer[u] /\ booting'[u] = booting[u]
  /\ u \in live' <=> u \in live
  /\ u \in parked' <=> u \in parked
  /\ u \in swept' <=> u \in swept
  /\ u \in cancelled' <=> u \in cancelled
  /\ u \in pendingAborts' <=> u \in pendingAborts

Kept(u) ==
  /\ Rest(u)
  /\ row'[u] = row[u] /\ leg'[u] = leg[u]
  /\ Queued(u)' <=> Queued(u)
  /\ HasActive(slots', u) <=> HasActive(slots, u)

PromotedNow(u) ==
  /\ Rest(u)
  /\ Queued(u) /\ ~Queued(u)'
  /\ HasActive(slots', u)
  /\ row'[u] = "running" /\ leg'[u] = "fresh"

LEMMA FrameSound ==
  ASSUME NEW u \in Tasks, TaskSound(u), restarts' = restarts,
         Kept(u) \/ PromotedNow(u)
  PROVE  TaskSound(u)'
<1>1. CASE Kept(u)
  BY <1>1 DEF TaskSound, Kept, Rest, Untracked
<1>2. CASE PromotedNow(u)
  BY <1>2 DEF TaskSound, PromotedNow, Rest, Untracked, Terminal, NonTerminal,
     Preparing, Streaming
<1> QED BY <1>1, <1>2

\* So a step is sound if it is for its own task.
LEMMA OwnStep ==
  ASSUME RunnerSound, NEW t \in Tasks, restarts' = restarts,
         SlotsSound(slots'), RunnerTypeOK', TaskSound(t)',
         \A u \in Tasks : u # t => Kept(u) \/ PromotedNow(u)
  PROVE  RunnerSound'
<1>1. ASSUME NEW u \in Tasks PROVE TaskSound(u)'
  <2>1. TaskSound(u)
    BY DEF RunnerSound
  <2> QED BY <2>1, FrameSound
<1> QED BY <1>1 DEF RunnerSound

LEMMA LocalStep ==
  ASSUME RunnerSound, NEW t \in Tasks, restarts' = restarts, slots' = slots,
         RunnerTypeOK',
         (Queued(t)' <=> Queued(t)) /\ (HasActive(slots', t) <=> HasActive(slots, t))
           => TaskSound(t)',
         \A u \in Tasks : u # t => Rest(u) /\ row'[u] = row[u] /\ leg'[u] = leg[u]
  PROVE  RunnerSound'
<1>1. \A u \in Tasks : /\ Queued(u)' <=> Queued(u)
                       /\ HasActive(slots', u) <=> HasActive(slots, u)
  BY DEF Queued
<1>2. SlotsSound(slots')
  BY DEF RunnerSound
<1>3. \A u \in Tasks : u # t => Kept(u)
  BY <1>1 DEF Kept
<1> QED BY <1>1, <1>2, <1>3, OwnStep

LEMMA MarkTerminalType ==
  ASSUME RunnerTypeOK, NEW t \in Tasks, NEW e \in Terminal
  PROVE  /\ MarkTerminal(t, e) \in Rows
         /\ \A u \in Tasks : u # t => MarkTerminal(t, e)[u] = row[u]
         /\ row[t] \in NonTerminal => MarkTerminal(t, e)[t] = e
         /\ row[t] \notin NonTerminal => MarkTerminal(t, e)[t] = row[t]
  BY DEF RunnerTypeOK, MarkTerminal, Rows

\* What a release does to the queue, the slots, the rows and the promises: the
\* task that releases loses its slot, the first waiting task gets it.
LEMMA ReleaseEffects ==
  ASSUME SlotsSound(slots), NEW t \in Tasks, NEW rows \in Rows, NEW legs \in AllLegs
  PROVE  LET s == decideRelease(slots, t)
             rs == PromotedRows(t, rows)
             ls == PromotedLegs(t, legs)
         IN  /\ SlotsSound(s) /\ rs \in Rows /\ ls \in AllLegs
             /\ ~HasActive(s, t)
             /\ \A u \in Tasks :
                  \/ /\ Queued(u) /\ u \notin Elements(s.globalQueue)
                     /\ HasActive(s, u)
                     /\ rs[u] = (IF rows[u] = "pending" THEN "running" ELSE rows[u])
                     /\ ls[u] = "fresh"
                  \/ /\ u \in Elements(s.globalQueue) <=> Queued(u)
                     /\ HasActive(s, u) <=> HasActive(slots, u) /\ u # t
                     /\ rs[u] = rows[u] /\ ls[u] = legs[u]
<1> DEFINE s == decideRelease(slots, t)
           p == Promoted(slots, t)
<1>1. /\ SlotsSound(s)
      /\ p # None => p \in Elements(slots.globalQueue)
      /\ Elements(s.globalQueue) = Elements(slots.globalQueue) \ {p}
      /\ \A u \in Tasks :
           HasActive(s, u) <=> (HasActive(slots, u) /\ u # t) \/ u = p
  BY ReleaseSound
<1>2. p # t
  <2>1. ~HasActive(slots, t) => p = None
    BY DEF Promoted
  <2>2. t = p => t \in Elements(slots.globalQueue)
    BY <1>1, SlotAssumption
  <2>3. CapRespected(slots)
    BY DEF SlotsSound
  <2>4. t = p => ~HasActive(slots, t)
    BY <2>2, <2>3, SlotAssumption DEF CapRespected, HasActive, SitesHeld, Occupied
  <2> QED BY <2>1, <2>4, SlotAssumption
<1>3. /\ PromotedRows(t, rows)
           = [u \in Tasks |-> IF u = p /\ rows[u] = "pending" THEN "running"
                              ELSE rows[u]]
      /\ PromotedLegs(t, legs)
           = [u \in Tasks |-> IF u = p THEN "fresh" ELSE legs[u]]
  BY DEF PromotedRows, PromotedLegs
<1> HIDE DEF p, s
<1>4. PromotedRows(t, rows) \in Rows /\ PromotedLegs(t, legs) \in AllLegs
  BY <1>3 DEF Rows, AllLegs, NonTerminal, Legs, Preparing
<1>5. ~HasActive(s, t)
  BY <1>1, <1>2
<1>6. ASSUME NEW u \in Tasks
      PROVE  \/ /\ Queued(u) /\ u \notin Elements(s.globalQueue)
                /\ HasActive(s, u)
                /\ PromotedRows(t, rows)[u]
                     = (IF rows[u] = "pending" THEN "running" ELSE rows[u])
                /\ PromotedLegs(t, legs)[u] = "fresh"
             \/ /\ u \in Elements(s.globalQueue) <=> Queued(u)
                /\ HasActive(s, u) <=> HasActive(slots, u) /\ u # t
                /\ PromotedRows(t, rows)[u] = rows[u]
                /\ PromotedLegs(t, legs)[u] = legs[u]
  <2>1. CASE u = p
    BY <1>1, <1>3, <2>1, SlotAssumption DEF Queued
  <2>2. CASE u # p
    BY <1>1, <1>3, <2>2 DEF Queued
  <2> QED BY <2>1, <2>2
<1> QED BY <1>1, <1>4, <1>5, <1>6 DEF s

\* A release, seen from the task that releases and from the others.
LEMMA Releaser ==
  ASSUME RunnerSound, NEW t \in Tasks, NEW rows \in Rows, NEW legs \in AllLegs,
         ReleaseAndPromote(t, rows, legs), ~Queued(t),
         \A u \in Tasks : u # t => rows[u] = row[u] /\ legs[u] = leg[u] /\ Rest(u)
  PROVE  /\ SlotsSound(slots') /\ row' \in Rows /\ leg' \in AllLegs
         /\ ~HasActive(slots', t) /\ ~Queued(t)'
         /\ row'[t] = rows[t] /\ leg'[t] = legs[t]
         /\ \A u \in Tasks : u # t => Kept(u) \/ PromotedNow(u)
<1>1. /\ slots' = decideRelease(slots, t)
      /\ row' = PromotedRows(t, rows) /\ leg' = PromotedLegs(t, legs)
  BY DEF ReleaseAndPromote
<1>2. /\ SlotsSound(slots') /\ row' \in Rows /\ leg' \in AllLegs
      /\ ~HasActive(slots', t)
      /\ \A u \in Tasks :
           \/ /\ Queued(u) /\ ~Queued(u)'
              /\ HasActive(slots', u)
              /\ row'[u] = (IF rows[u] = "pending" THEN "running" ELSE rows[u])
              /\ leg'[u] = "fresh"
           \/ /\ Queued(u)' <=> Queued(u)
              /\ HasActive(slots', u) <=> HasActive(slots, u) /\ u # t
              /\ row'[u] = rows[u] /\ leg'[u] = legs[u]
  BY <1>1, ReleaseEffects DEF RunnerSound, Queued
<1>3. \A u \in Tasks : Queued(u) => row[u] = "pending"
  BY DEF RunnerSound, TaskSound
<1>4. ASSUME NEW u \in Tasks, u # t PROVE Kept(u) \/ PromotedNow(u)
  BY <1>2, <1>3, <1>4 DEF Kept, PromotedNow
<1> QED BY <1>2, <1>4

-----------------------------------------------------------------------------
\* The steps of a leg, a tool, a user or the tick that leave the slots alone.

LEMMA PreparedSound ==
  ASSUME RunnerSound, NEW t \in Tasks, Prepared(t)
  PROVE  RunnerSound'
<1> USE DEF Prepared, questionVars, handleVars, tickVars
<1>1. RunnerTypeOK /\ TaskSound(t) /\ restarts' = restarts /\ slots' = slots
  BY DEF RunnerSound
<1>2. RunnerTypeOK'
  BY <1>1 DEF RunnerTypeOK, Terminal, NonTerminal, Legs, Preparing, Streaming,
     Closing
<1>3. (Queued(t)' <=> Queued(t)) /\ (HasActive(slots', t) <=> HasActive(slots, t))
        => TaskSound(t)'
  BY <1>1 DEF RunnerTypeOK, TaskSound, Untracked, Terminal, NonTerminal,
     Preparing, Streaming, Closing
<1>4. ASSUME NEW u \in Tasks, u # t
      PROVE  Rest(u) /\ row'[u] = row[u] /\ leg'[u] = leg[u]
  BY <1>1, <1>4 DEF RunnerTypeOK, Rest
<1> HIDE DEF Prepared
<1> QED BY <1>1, <1>2, <1>3, <1>4, LocalStep

LEMMA PrepareThrowsSound ==
  ASSUME RunnerSound, NEW t \in Tasks, PrepareThrows(t)
  PROVE  RunnerSound'
<1> USE DEF PrepareThrows, questionVars, handleVars, tickVars
<1>1. RunnerTypeOK /\ TaskSound(t) /\ restarts' = restarts /\ slots' = slots
  BY DEF RunnerSound
<1>2. RunnerTypeOK'
  BY <1>1 DEF RunnerTypeOK, Terminal, NonTerminal, Legs, Preparing, Streaming,
     Closing
<1>3. (Queued(t)' <=> Queued(t)) /\ (HasActive(slots', t) <=> HasActive(slots, t))
        => TaskSound(t)'
  BY <1>1 DEF RunnerTypeOK, TaskSound, Untracked, Terminal, NonTerminal,
     Preparing, Streaming, Closing
<1>4. ASSUME NEW u \in Tasks, u # t
      PROVE  Rest(u) /\ row'[u] = row[u] /\ leg'[u] = leg[u]
  BY <1>1, <1>4 DEF RunnerTypeOK, Rest
<1> HIDE DEF PrepareThrows
<1> QED BY <1>1, <1>2, <1>3, <1>4, LocalStep

LEMMA SessionOpensSound ==
  ASSUME RunnerSound, NEW t \in Tasks, SessionOpens(t)
  PROVE  RunnerSound'
<1> USE DEF SessionOpens, questionVars, handleVars, tickVars
<1>1. RunnerTypeOK /\ TaskSound(t) /\ restarts' = restarts /\ slots' = slots
  BY DEF RunnerSound
<1>2. RunnerTypeOK'
  BY <1>1 DEF RunnerTypeOK, Terminal, NonTerminal, Legs, Preparing, Streaming,
     Closing
<1>3. (Queued(t)' <=> Queued(t)) /\ (HasActive(slots', t) <=> HasActive(slots, t))
        => TaskSound(t)'
  BY <1>1 DEF RunnerTypeOK, TaskSound, Untracked, Terminal, NonTerminal,
     Preparing, Streaming, Closing
<1>4. ASSUME NEW u \in Tasks, u # t
      PROVE  Rest(u) /\ row'[u] = row[u] /\ leg'[u] = leg[u]
  BY <1>1, <1>4 DEF RunnerTypeOK, Rest
<1> HIDE DEF SessionOpens
<1> QED BY <1>1, <1>2, <1>3, <1>4, LocalStep

LEMMA AskUserSound ==
  ASSUME RunnerSound, NEW t \in Tasks, AskUser(t)
  PROVE  RunnerSound'
<1> USE DEF AskUser, questionVars, handleVars, tickVars
<1>1. RunnerTypeOK /\ TaskSound(t) /\ restarts' = restarts /\ slots' = slots
  BY DEF RunnerSound
<1>2. RunnerTypeOK'
  <2>1. asks[t] \in 0..MaxAsks /\ asks[t] < MaxAsks /\ MaxAsks \in Nat
    BY <1>1, BackgroundAssumption DEF RunnerTypeOK
  <2>2. asks[t] + 1 \in 0..MaxAsks
    BY <2>1
  <2>3. asks' \in [Tasks -> 0..MaxAsks]
    BY <1>1, <2>2 DEF RunnerTypeOK
  <2> QED BY <1>1, <2>3 DEF RunnerTypeOK, NonTerminal
<1>3. (Queued(t)' <=> Queued(t)) /\ (HasActive(slots', t) <=> HasActive(slots, t))
        => TaskSound(t)'
  BY <1>1 DEF RunnerTypeOK, TaskSound, Untracked, Terminal, NonTerminal,
     Preparing, Streaming, Closing
<1>4. ASSUME NEW u \in Tasks, u # t
      PROVE  Rest(u) /\ row'[u] = row[u] /\ leg'[u] = leg[u]
  BY <1>1, <1>4 DEF RunnerTypeOK, Rest
<1> HIDE DEF AskUser
<1> QED BY <1>1, <1>2, <1>3, <1>4, LocalStep

LEMMA FinishSound ==
  ASSUME RunnerSound, NEW t \in Tasks, Finish(t)
  PROVE  RunnerSound'
<1> USE DEF Finish, questionVars, handleVars, tickVars, MarkTerminal
<1>1. RunnerTypeOK /\ TaskSound(t) /\ restarts' = restarts /\ slots' = slots
  BY DEF RunnerSound
<1>2. RunnerTypeOK'
  BY <1>1 DEF RunnerTypeOK, Terminal, NonTerminal, Legs, Preparing, Streaming,
     Closing
<1>3. (Queued(t)' <=> Queued(t)) /\ (HasActive(slots', t) <=> HasActive(slots, t))
        => TaskSound(t)'
  BY <1>1 DEF RunnerTypeOK, TaskSound, Untracked, Terminal, NonTerminal,
     Preparing, Streaming, Closing
<1>4. ASSUME NEW u \in Tasks, u # t
      PROVE  Rest(u) /\ row'[u] = row[u] /\ leg'[u] = leg[u]
  BY <1>1, <1>4 DEF RunnerTypeOK, Rest
<1> HIDE DEF Finish
<1> QED BY <1>1, <1>2, <1>3, <1>4, LocalStep

LEMMA ExecuteTimeoutSound ==
  ASSUME RunnerSound, NEW t \in Tasks, ExecuteTimeout(t)
  PROVE  RunnerSound'
<1> USE DEF ExecuteTimeout, questionVars, handleVars, tickVars
<1>1. RunnerTypeOK /\ TaskSound(t) /\ restarts' = restarts /\ slots' = slots
  BY DEF RunnerSound
<1>2. RunnerTypeOK'
  BY <1>1 DEF RunnerTypeOK, Terminal, NonTerminal, Legs, Preparing, Streaming,
     Closing
<1>3. (Queued(t)' <=> Queued(t)) /\ (HasActive(slots', t) <=> HasActive(slots, t))
        => TaskSound(t)'
  BY <1>1 DEF RunnerTypeOK, TaskSound, Untracked, Terminal, NonTerminal,
     Preparing, Streaming, Closing
<1>4. ASSUME NEW u \in Tasks, u # t
      PROVE  Rest(u) /\ row'[u] = row[u] /\ leg'[u] = leg[u]
  BY <1>1, <1>4 DEF RunnerTypeOK, Rest
<1> HIDE DEF ExecuteTimeout
<1> QED BY <1>1, <1>2, <1>3, <1>4, LocalStep

LEMMA LegEndsSound ==
  ASSUME RunnerSound, NEW t \in Tasks, LegEnds(t)
  PROVE  RunnerSound'
<1> USE DEF LegEnds, questionVars, handleVars, tickVars, MarkTerminal, Outcomes,
            FailLoud
<1>1. RunnerTypeOK /\ TaskSound(t) /\ restarts' = restarts /\ slots' = slots
  BY DEF RunnerSound
<1>2. RunnerTypeOK'
  BY <1>1 DEF RunnerTypeOK, Terminal, NonTerminal, Legs, Preparing, Streaming,
     Closing
<1>3. (Queued(t)' <=> Queued(t)) /\ (HasActive(slots', t) <=> HasActive(slots, t))
        => TaskSound(t)'
  BY <1>1 DEF RunnerTypeOK, TaskSound, Untracked, Terminal, NonTerminal,
     Preparing, Streaming, Closing
<1>4. ASSUME NEW u \in Tasks, u # t
      PROVE  Rest(u) /\ row'[u] = row[u] /\ leg'[u] = leg[u]
  BY <1>1, <1>4 DEF RunnerTypeOK, Rest
<1> HIDE DEF LegEnds
<1> QED BY <1>1, <1>2, <1>3, <1>4, LocalStep

LEMMA ResumeUnavailableSound ==
  ASSUME RunnerSound, NEW t \in Tasks, ResumeUnavailable(t)
  PROVE  RunnerSound'
<1> USE DEF ResumeUnavailable, questionVars, handleVars, tickVars
<1>1. RunnerTypeOK /\ TaskSound(t) /\ restarts' = restarts /\ slots' = slots
  BY DEF RunnerSound
<1>2. RunnerTypeOK'
  BY <1>1 DEF RunnerTypeOK, Terminal, NonTerminal, Legs, Preparing, Streaming,
     Closing
<1>3. (Queued(t)' <=> Queued(t)) /\ (HasActive(slots', t) <=> HasActive(slots, t))
        => TaskSound(t)'
  BY <1>1 DEF RunnerTypeOK, TaskSound, Untracked, Terminal, NonTerminal,
     Preparing, Streaming, Closing
<1>4. ASSUME NEW u \in Tasks, u # t
      PROVE  Rest(u) /\ row'[u] = row[u] /\ leg'[u] = leg[u]
  BY <1>1, <1>4 DEF RunnerTypeOK, Rest
<1> HIDE DEF ResumeUnavailable
<1> QED BY <1>1, <1>2, <1>3, <1>4, LocalStep

LEMMA LegParksSound ==
  ASSUME RunnerSound, NEW t \in Tasks, LegParks(t)
  PROVE  RunnerSound'
<1> USE DEF LegParks, questionVars, handleVars, tickVars
<1>1. RunnerTypeOK /\ TaskSound(t) /\ restarts' = restarts /\ slots' = slots
  BY DEF RunnerSound
<1>2. RunnerTypeOK'
  BY <1>1 DEF RunnerTypeOK, Terminal, NonTerminal, Legs, Preparing, Streaming,
     Closing
<1>3. (Queued(t)' <=> Queued(t)) /\ (HasActive(slots', t) <=> HasActive(slots, t))
        => TaskSound(t)'
  BY <1>1 DEF RunnerTypeOK, TaskSound, Untracked, Terminal, NonTerminal,
     Preparing, Streaming, Closing
<1>4. ASSUME NEW u \in Tasks, u # t
      PROVE  Rest(u) /\ row'[u] = row[u] /\ leg'[u] = leg[u]
  BY <1>1, <1>4 DEF RunnerTypeOK, Rest
<1> HIDE DEF LegParks
<1> QED BY <1>1, <1>2, <1>3, <1>4, LocalStep

LEMMA ClarifyParkedSound ==
  ASSUME RunnerSound, NEW t \in Tasks, ClarifyParked(t)
  PROVE  RunnerSound'
<1> USE DEF ClarifyParked, questionVars, handleVars, tickVars, Answerable
<1>1. RunnerTypeOK /\ TaskSound(t) /\ restarts' = restarts /\ slots' = slots
  BY DEF RunnerSound
<1>2. RunnerTypeOK'
  BY <1>1 DEF RunnerTypeOK, Terminal, NonTerminal, Legs, Preparing, Streaming,
     Closing
<1>3. (Queued(t)' <=> Queued(t)) /\ (HasActive(slots', t) <=> HasActive(slots, t))
        => TaskSound(t)'
  BY <1>1 DEF RunnerTypeOK, TaskSound, Untracked, Terminal, NonTerminal,
     Preparing, Streaming, Closing
<1>4. ASSUME NEW u \in Tasks, u # t
      PROVE  Rest(u) /\ row'[u] = row[u] /\ leg'[u] = leg[u]
  BY <1>1, <1>4 DEF RunnerTypeOK, Rest
<1> HIDE DEF ClarifyParked
<1> QED BY <1>1, <1>2, <1>3, <1>4, LocalStep

LEMMA CancelLiveSound ==
  ASSUME RunnerSound, NEW t \in Tasks, CancelLive(t)
  PROVE  RunnerSound'
<1> USE DEF CancelLive, questionVars, handleVars, tickVars
<1>1. RunnerTypeOK /\ TaskSound(t) /\ restarts' = restarts /\ slots' = slots
  BY DEF RunnerSound
<1>2. RunnerTypeOK'
  BY <1>1 DEF RunnerTypeOK, Terminal, NonTerminal, Legs, Preparing, Streaming,
     Closing
<1>3. (Queued(t)' <=> Queued(t)) /\ (HasActive(slots', t) <=> HasActive(slots, t))
        => TaskSound(t)'
  BY <1>1 DEF RunnerTypeOK, TaskSound, Untracked, Terminal, NonTerminal,
     Preparing, Streaming, Closing
<1>4. ASSUME NEW u \in Tasks, u # t
      PROVE  Rest(u) /\ row'[u] = row[u] /\ leg'[u] = leg[u]
  BY <1>1, <1>4 DEF RunnerTypeOK, Rest
<1> HIDE DEF CancelLive
<1> QED BY <1>1, <1>2, <1>3, <1>4, LocalStep

LEMMA CancelPreparingSound ==
  ASSUME RunnerSound, NEW t \in Tasks, CancelPreparing(t), booting[t] = "no"
  PROVE  RunnerSound'
<1> USE DEF CancelPreparing, questionVars, handleVars, tickVars
<1>1. RunnerTypeOK /\ TaskSound(t) /\ restarts' = restarts /\ slots' = slots
  BY DEF RunnerSound
<1>2. RunnerTypeOK'
  BY <1>1 DEF RunnerTypeOK, Terminal, NonTerminal, Legs, Preparing, Streaming,
     Closing
<1>3. (Queued(t)' <=> Queued(t)) /\ (HasActive(slots', t) <=> HasActive(slots, t))
        => TaskSound(t)'
  BY <1>1 DEF RunnerTypeOK, TaskSound, Untracked, Terminal, NonTerminal,
     Preparing, Streaming, Closing
<1>4. ASSUME NEW u \in Tasks, u # t
      PROVE  Rest(u) /\ row'[u] = row[u] /\ leg'[u] = leg[u]
  BY <1>1, <1>4 DEF RunnerTypeOK, Rest
<1> HIDE DEF CancelPreparing
<1> QED BY <1>1, <1>2, <1>3, <1>4, LocalStep

LEMMA CancelParkedSound ==
  ASSUME RunnerSound, NEW t \in Tasks, CancelParked(t)
  PROVE  RunnerSound'
<1> USE DEF CancelParked, questionVars, handleVars, tickVars
<1>1. RunnerTypeOK /\ TaskSound(t) /\ restarts' = restarts /\ slots' = slots
  BY DEF RunnerSound
<1>2. RunnerTypeOK'
  BY <1>1 DEF RunnerTypeOK, Terminal, NonTerminal, Legs, Preparing, Streaming,
     Closing
<1>3. (Queued(t)' <=> Queued(t)) /\ (HasActive(slots', t) <=> HasActive(slots, t))
        => TaskSound(t)'
  BY <1>1 DEF RunnerTypeOK, TaskSound, Untracked, Terminal, NonTerminal,
     Preparing, Streaming, Closing
<1>4. ASSUME NEW u \in Tasks, u # t
      PROVE  Rest(u) /\ row'[u] = row[u] /\ leg'[u] = leg[u]
  BY <1>1, <1>4 DEF RunnerTypeOK, Rest
<1> HIDE DEF CancelParked
<1> QED BY <1>1, <1>2, <1>3, <1>4, LocalStep

LEMMA ExpireParkedSound ==
  ASSUME RunnerSound, NEW t \in Tasks, ExpireParked(t)
  PROVE  RunnerSound'
<1> USE DEF ExpireParked, questionVars, handleVars, tickVars, Overdue
<1>1. RunnerTypeOK /\ TaskSound(t) /\ restarts' = restarts /\ slots' = slots
  BY DEF RunnerSound
<1>2. RunnerTypeOK'
  BY <1>1 DEF RunnerTypeOK, Terminal, NonTerminal, Legs, Preparing, Streaming,
     Closing
<1>3. (Queued(t)' <=> Queued(t)) /\ (HasActive(slots', t) <=> HasActive(slots, t))
        => TaskSound(t)'
  BY <1>1 DEF RunnerTypeOK, TaskSound, Untracked, Terminal, NonTerminal,
     Preparing, Streaming, Closing
<1>4. ASSUME NEW u \in Tasks, u # t
      PROVE  Rest(u) /\ row'[u] = row[u] /\ leg'[u] = leg[u]
  BY <1>1, <1>4 DEF RunnerTypeOK, Rest
<1> HIDE DEF ExpireParked
<1> QED BY <1>1, <1>2, <1>3, <1>4, LocalStep

LEMMA ExpireLiveSound ==
  ASSUME RunnerSound, NEW t \in Tasks, ExpireLive(t)
  PROVE  RunnerSound'
<1> USE DEF ExpireLive, questionVars, handleVars, tickVars, Overdue, MarkTerminal,
            FailLoud
<1>1. RunnerTypeOK /\ TaskSound(t) /\ restarts' = restarts /\ slots' = slots
  BY DEF RunnerSound
<1>2. RunnerTypeOK'
  BY <1>1 DEF RunnerTypeOK, Terminal, NonTerminal, Legs, Preparing, Streaming,
     Closing
<1>3. (Queued(t)' <=> Queued(t)) /\ (HasActive(slots', t) <=> HasActive(slots, t))
        => TaskSound(t)'
  BY <1>1 DEF RunnerTypeOK, TaskSound, Untracked, Terminal, NonTerminal,
     Preparing, Streaming, Closing
<1>4. ASSUME NEW u \in Tasks, u # t
      PROVE  Rest(u) /\ row'[u] = row[u] /\ leg'[u] = leg[u]
  BY <1>1, <1>4 DEF RunnerTypeOK, Rest
<1> HIDE DEF ExpireLive
<1> QED BY <1>1, <1>2, <1>3, <1>4, LocalStep

LEMMA RebuiltSound ==
  ASSUME RunnerSound, NEW t \in Tasks, Rebuilt(t)
  PROVE  RunnerSound'
<1> USE DEF Rebuilt, questionVars, handleVars, tickVars
<1>1. RunnerTypeOK /\ TaskSound(t) /\ restarts' = restarts /\ slots' = slots
  BY DEF RunnerSound
<1>2. RunnerTypeOK'
  BY <1>1 DEF RunnerTypeOK, Terminal, NonTerminal, Legs, Preparing, Streaming,
     Closing
<1>3. (Queued(t)' <=> Queued(t)) /\ (HasActive(slots', t) <=> HasActive(slots, t))
        => TaskSound(t)'
  BY <1>1 DEF RunnerTypeOK, TaskSound, Untracked, Terminal, NonTerminal,
     Preparing, Streaming, Closing
<1>4. ASSUME NEW u \in Tasks, u # t
      PROVE  Rest(u) /\ row'[u] = row[u] /\ leg'[u] = leg[u]
  BY <1>1, <1>4 DEF RunnerTypeOK, Rest
<1> HIDE DEF Rebuilt
<1> QED BY <1>1, <1>2, <1>3, <1>4, LocalStep

-----------------------------------------------------------------------------
\* The steps that give a slot back.

LEMMA PrepareFailsSound ==
  ASSUME RunnerSound, NEW t \in Tasks, PrepareFails(t)
  PROVE  RunnerSound'
<1> DEFINE rows == MarkTerminal(t, "failed")
           legs == [leg EXCEPT ![t] = "none"]
<1> USE DEF PrepareFails, questionVars, handleVars, tickVars, FailLoud
<1>1. /\ RunnerTypeOK /\ TaskSound(t) /\ restarts' = restarts
      /\ ReleaseAndPromote(t, rows, legs)
  BY DEF RunnerSound
<1>2. /\ rows \in Rows
      /\ rows[t] = (IF row[t] \in NonTerminal THEN "failed" ELSE row[t])
      /\ \A u \in Tasks : u # t => rows[u] = row[u]
  BY <1>1, MarkTerminalType DEF Terminal
<1>3. /\ legs \in AllLegs /\ legs[t] = "none"
      /\ \A u \in Tasks : u # t => legs[u] = leg[u]
  BY <1>1 DEF RunnerTypeOK, AllLegs, Legs
<1>4. \A u \in Tasks : u # t => Rest(u)
  BY <1>1 DEF RunnerTypeOK, Rest
<1>5. ~Queued(t)
  BY <1>1 DEF TaskSound, Preparing, Closing
<1> HIDE DEF rows, legs
<1>6. /\ SlotsSound(slots') /\ row' \in Rows /\ leg' \in AllLegs
      /\ ~HasActive(slots', t) /\ ~Queued(t)'
      /\ row'[t] = rows[t] /\ leg'[t] = legs[t]
      /\ \A u \in Tasks : u # t => Kept(u) \/ PromotedNow(u)
  <2> HIDE DEF PrepareFails
  <2> QED BY <1>1, <1>2, <1>3, <1>4, <1>5, Releaser
<1>7. RunnerTypeOK'
  BY <1>1, <1>6 DEF RunnerTypeOK, Rows, AllLegs, SlotsSound
<1>8. TaskSound(t)'
  BY <1>1, <1>2, <1>3, <1>5, <1>6 DEF RunnerTypeOK, TaskSound, Untracked, Terminal,
     NonTerminal, Preparing, Streaming
<1> HIDE DEF PrepareFails
<1> QED BY <1>1, <1>6, <1>7, <1>8, OwnStep

LEMMA LegClosedSound ==
  ASSUME RunnerSound, NEW t \in Tasks, LegClosed(t)
  PROVE  RunnerSound'
<1> DEFINE rows == row
           legs == [leg EXCEPT ![t] = "none"]
<1> USE DEF LegClosed, questionVars, handleVars, tickVars, DropHandle
<1>1. /\ RunnerTypeOK /\ TaskSound(t) /\ restarts' = restarts
      /\ ReleaseAndPromote(t, rows, legs)
  BY DEF RunnerSound
<1>2. rows \in Rows /\ rows = row
  BY <1>1 DEF RunnerTypeOK, Rows
<1>3. /\ legs \in AllLegs /\ legs[t] = "none"
      /\ \A u \in Tasks : u # t => legs[u] = leg[u]
  BY <1>1 DEF RunnerTypeOK, AllLegs, Legs
<1>4. \A u \in Tasks : u # t => Rest(u)
  BY <1>1 DEF RunnerTypeOK, Rest
<1>5. ~Queued(t)
  BY <1>1 DEF TaskSound, Preparing, Closing
<1> HIDE DEF rows, legs
<1>6. /\ SlotsSound(slots') /\ row' \in Rows /\ leg' \in AllLegs
      /\ ~HasActive(slots', t) /\ ~Queued(t)'
      /\ row'[t] = rows[t] /\ leg'[t] = legs[t]
      /\ \A u \in Tasks : u # t => Kept(u) \/ PromotedNow(u)
  <2> HIDE DEF LegClosed
  <2> QED BY <1>1, <1>2, <1>3, <1>4, <1>5, Releaser
<1>7. RunnerTypeOK'
  BY <1>1, <1>6 DEF RunnerTypeOK, Rows, AllLegs, SlotsSound
<1>8. TaskSound(t)'
  BY <1>1, <1>2, <1>3, <1>5, <1>6 DEF RunnerTypeOK, TaskSound, Untracked, Terminal,
     NonTerminal, Preparing, Streaming
<1> HIDE DEF LegClosed
<1> QED BY <1>1, <1>6, <1>7, <1>8, OwnStep

LEMMA ExpireUntrackedSound ==
  ASSUME RunnerSound, NEW t \in Tasks, ExpireUntracked(t), booting[t] = "no"
  PROVE  RunnerSound'
<1> DEFINE rows == MarkTerminal(t, "timeout")
           legs == leg
<1> USE DEF ExpireUntracked, questionVars, handleVars, tickVars, Overdue, FailLoud
<1>1. /\ RunnerTypeOK /\ TaskSound(t) /\ restarts' = restarts
      /\ ReleaseAndPromote(t, rows, legs)
  BY DEF RunnerSound
<1>2. /\ rows \in Rows
      /\ rows[t] = (IF row[t] \in NonTerminal THEN "timeout" ELSE row[t])
      /\ \A u \in Tasks : u # t => rows[u] = row[u]
  BY <1>1, MarkTerminalType DEF Terminal
<1>3. /\ legs \in AllLegs /\ legs[t] = leg[t]
      /\ \A u \in Tasks : u # t => legs[u] = leg[u]
  BY <1>1 DEF RunnerTypeOK, AllLegs, Legs
<1>4. \A u \in Tasks : u # t => Rest(u)
  BY <1>1 DEF RunnerTypeOK, Rest
<1>5. ~Queued(t)
  BY <1>1 DEF TaskSound, Preparing, Closing
<1> HIDE DEF rows, legs
<1>6. /\ SlotsSound(slots') /\ row' \in Rows /\ leg' \in AllLegs
      /\ ~HasActive(slots', t) /\ ~Queued(t)'
      /\ row'[t] = rows[t] /\ leg'[t] = legs[t]
      /\ \A u \in Tasks : u # t => Kept(u) \/ PromotedNow(u)
  <2> HIDE DEF ExpireUntracked
  <2> QED BY <1>1, <1>2, <1>3, <1>4, <1>5, Releaser
<1>7. RunnerTypeOK'
  BY <1>1, <1>6 DEF RunnerTypeOK, Rows, AllLegs, SlotsSound
<1>8. TaskSound(t)'
  BY <1>1, <1>2, <1>3, <1>5, <1>6 DEF RunnerTypeOK, TaskSound, Untracked, Terminal,
     NonTerminal, Preparing, Streaming
<1> HIDE DEF ExpireUntracked
<1> QED BY <1>1, <1>6, <1>7, <1>8, OwnStep

LEMMA CloserEndsSound ==
  ASSUME RunnerSound, NEW t \in Tasks, CloserEnds(t)
  PROVE  RunnerSound'
<1> DEFINE rows == MarkTerminal(t, IF closer[t] = "cancel" THEN "cancelled"
                                                          ELSE "timeout")
           legs == leg
<1> USE DEF CloserEnds, questionVars, handleVars, tickVars, DropHandle, FailLoud
<1>1. /\ RunnerTypeOK /\ TaskSound(t) /\ restarts' = restarts
      /\ ReleaseAndPromote(t, rows, legs)
  BY DEF RunnerSound
<1>2. /\ rows \in Rows
      /\ rows[t] = (IF row[t] \in NonTerminal
                    THEN IF closer[t] = "cancel" THEN "cancelled" ELSE "timeout"
                    ELSE row[t])
      /\ \A u \in Tasks : u # t => rows[u] = row[u]
  BY <1>1, MarkTerminalType DEF Terminal
<1>3. /\ legs \in AllLegs /\ legs[t] = leg[t]
      /\ \A u \in Tasks : u # t => legs[u] = leg[u]
  BY <1>1 DEF RunnerTypeOK, AllLegs, Legs
<1>4. \A u \in Tasks : u # t => Rest(u)
  BY <1>1 DEF RunnerTypeOK, Rest
<1>5. ~Queued(t)
  BY <1>1 DEF TaskSound, Preparing, Closing
<1> HIDE DEF rows, legs
<1>6. /\ SlotsSound(slots') /\ row' \in Rows /\ leg' \in AllLegs
      /\ ~HasActive(slots', t) /\ ~Queued(t)'
      /\ row'[t] = rows[t] /\ leg'[t] = legs[t]
      /\ \A u \in Tasks : u # t => Kept(u) \/ PromotedNow(u)
  <2> HIDE DEF CloserEnds
  <2> QED BY <1>1, <1>2, <1>3, <1>4, <1>5, Releaser
<1>7. RunnerTypeOK'
  BY <1>1, <1>6 DEF RunnerTypeOK, Rows, AllLegs, SlotsSound
<1>8. TaskSound(t)'
  BY <1>1, <1>2, <1>3, <1>5, <1>6 DEF RunnerTypeOK, TaskSound, Untracked, Terminal,
     NonTerminal, Preparing, Streaming
<1> HIDE DEF CloserEnds
<1> QED BY <1>1, <1>6, <1>7, <1>8, OwnStep

LEMMA FailSweptSound ==
  ASSUME RunnerSound, NEW t \in Tasks, FailSwept(t)
  PROVE  RunnerSound'
<1> USE DEF FailSwept, questionVars
<1>1. RunnerTypeOK /\ TaskSound(t) /\ restarts' = restarts
  BY DEF RunnerSound
<1>2. \A u \in Tasks : u # t => Rest(u)
  BY <1>1 DEF RunnerTypeOK, Rest
<1>3. CASE row[t] \in NonTerminal
  <2> DEFINE rows == MarkTerminal(t, "timeout")
  <2>1. /\ rows \in Rows /\ rows[t] = "timeout"
        /\ \A u \in Tasks : u # t => rows[u] = row[u]
    BY <1>1, <1>3, MarkTerminalType DEF Terminal
  <2>2. ReleaseAndPromote(t, rows, leg) /\ leg \in AllLegs
    BY <1>1, <1>3 DEF RunnerTypeOK, AllLegs
  <2>3. ~Queued(t)
    BY <1>1 DEF TaskSound
  <2> HIDE DEF rows, FailSwept
  <2>4. /\ SlotsSound(slots') /\ row' \in Rows /\ leg' \in AllLegs
        /\ ~HasActive(slots', t) /\ ~Queued(t)'
        /\ row'[t] = rows[t] /\ leg'[t] = leg[t]
        /\ \A u \in Tasks : u # t => Kept(u) \/ PromotedNow(u)
    BY <1>2, <2>1, <2>2, <2>3, Releaser
  <2> USE DEF FailSwept
  <2>5. RunnerTypeOK'
    BY <1>1, <1>3, <2>4 DEF RunnerTypeOK, Rows, AllLegs, SlotsSound, FailLoud
  <2>6. TaskSound(t)'
    BY <1>1, <1>3, <2>1, <2>4 DEF RunnerTypeOK, TaskSound, Untracked, Terminal,
       NonTerminal, Preparing, Streaming
  <2> HIDE DEF FailSwept
  <2> QED BY <1>1, <2>4, <2>5, <2>6, OwnStep
<1>4. CASE row[t] \notin NonTerminal
  <2>1. slots' = slots /\ row' = row /\ leg' = leg /\ pendingAborts' = pendingAborts
    BY <1>4
  <2>2. RunnerTypeOK'
    BY <1>1, <1>4, <2>1 DEF RunnerTypeOK, FailLoud
  <2>3. (Queued(t)' <=> Queued(t)) /\ (HasActive(slots', t) <=> HasActive(slots, t))
          => TaskSound(t)'
    BY <1>1, <1>4, <2>1 DEF RunnerTypeOK, TaskSound, Untracked, NonTerminal
  <2> HIDE DEF FailSwept
  <2> QED BY <1>1, <1>2, <2>1, <2>2, <2>3, LocalStep
<1> QED BY <1>3, <1>4

-----------------------------------------------------------------------------
\* The steps that take an entry off the queues.
LEMMA CancelEffects ==
  ASSUME RunnerSound, NEW t \in Tasks, slots' = decideCancel(slots, t)
  PROVE  /\ SlotsSound(slots')
         /\ \A u \in Tasks : /\ Queued(u)' <=> Queued(u) /\ u # t
                             /\ HasActive(slots', u) <=> HasActive(slots, u)
<1>1. /\ SlotsSound(slots')
      /\ Elements(slots'.globalQueue) = Elements(slots.globalQueue) \ {t}
      /\ slots'.active = slots.active
  BY CancelSound DEF RunnerSound
<1> QED BY <1>1 DEF Queued, HasActive, SitesHeld

LEMMA CancelQueuedSound ==
  ASSUME RunnerSound, NEW t \in Tasks, CancelQueued(t), booting[t] = "no"
  PROVE  RunnerSound'
<1> USE DEF CancelQueued, questionVars, handleVars, tickVars
<1>1. /\ RunnerTypeOK /\ TaskSound(t) /\ restarts' = restarts
      /\ slots' = decideCancel(slots, t)
  BY DEF RunnerSound
<1>2. /\ SlotsSound(slots')
      /\ \A u \in Tasks : /\ Queued(u)' <=> Queued(u) /\ u # t
                          /\ HasActive(slots', u) <=> HasActive(slots, u)
  BY <1>1, CancelEffects
<1>3. RunnerTypeOK'
  BY <1>1, <1>2 DEF RunnerTypeOK, SlotsSound, MarkTerminal, Terminal, NonTerminal
<1>4. TaskSound(t)'
  BY <1>1, <1>2 DEF RunnerTypeOK, TaskSound, Untracked, MarkTerminal, Terminal,
     NonTerminal, Preparing, Streaming, Queued
<1>5. \A u \in Tasks : u # t => Kept(u)
  BY <1>1, <1>2 DEF RunnerTypeOK, Kept, Rest, MarkTerminal
<1> HIDE DEF CancelQueued
<1> QED BY <1>1, <1>2, <1>3, <1>4, <1>5, OwnStep

LEMMA SweepQueuedSound ==
  ASSUME RunnerSound, NEW t \in Tasks, SweepQueued(t), booting[t] = "no"
  PROVE  RunnerSound'
<1> USE DEF SweepQueued, questionVars, handleVars, tickVars
<1>1. /\ RunnerTypeOK /\ TaskSound(t) /\ restarts' = restarts
      /\ slots' = decideCancel(slots, t)
  BY DEF RunnerSound
<1>2. /\ SlotsSound(slots')
      /\ \A u \in Tasks : /\ Queued(u)' <=> Queued(u) /\ u # t
                          /\ HasActive(slots', u) <=> HasActive(slots, u)
  BY <1>1, CancelEffects
<1>3. RunnerTypeOK'
  BY <1>1, <1>2 DEF RunnerTypeOK, SlotsSound, MarkTerminal, Terminal, NonTerminal
<1>4. TaskSound(t)'
  BY <1>1, <1>2 DEF RunnerTypeOK, TaskSound, Untracked, MarkTerminal, Terminal,
     NonTerminal, Preparing, Streaming, Queued
<1>5. \A u \in Tasks : u # t => Kept(u)
  BY <1>1, <1>2 DEF RunnerTypeOK, Kept, Rest, MarkTerminal
<1> HIDE DEF SweepQueued
<1> QED BY <1>1, <1>2, <1>3, <1>4, <1>5, OwnStep

-----------------------------------------------------------------------------
\* The steps that ask for a slot.
LEMMA Acquirer ==
  ASSUME NEW s, SlotsSound(s), NEW t \in Tasks, ~knowsTask(s, t)
  PROVE  LET r == decideAcquire(s, t) IN
         /\ SlotsSound(r)
         /\ \A u \in Tasks :
              /\ u \in Elements(r.globalQueue) <=>
                   u \in Elements(s.globalQueue) \/ (u = t /\ ~Promotes(s, t))
              /\ HasActive(r, u) <=> HasActive(s, u) \/ (u = t /\ Promotes(s, t))
<1> DEFINE r == decideAcquire(s, t)
<1>1. SlotsSound(r)
  BY AcquireSound
<1>2. /\ Elements(r.globalQueue) =
           Elements(s.globalQueue) \cup (IF Promotes(s, t) THEN {} ELSE {t})
      /\ \A u \in Tasks :
           HasActive(r, u) <=> HasActive(s, u) \/ (Promotes(s, t) /\ u = t)
  BY AcquireEffects
<1> HIDE DEF r
<1>3. \A u \in Tasks : u \in Elements(r.globalQueue) <=>
        u \in Elements(s.globalQueue) \/ (u = t /\ ~Promotes(s, t))
  BY <1>2
<1> QED BY <1>1, <1>2, <1>3 DEF r

LEMMA SubmitSound ==
  ASSUME RunnerSound, NEW t \in Tasks, Submit(t)
  PROVE  RunnerSound'
<1> USE DEF Submit, questionVars, handleVars, tickVars
<1>1. /\ RunnerTypeOK /\ TaskSound(t) /\ restarts' = restarts
      /\ slots' = decideAcquire(slots, t)
  BY DEF RunnerSound
<1>2. ~knowsTask(slots, t) /\ ~Queued(t) /\ ~HasActive(slots, t)
  BY <1>1 DEF TaskSound, Untracked, knowsTask, Queued
<1>3. /\ SlotsSound(slots')
      /\ \A u \in Tasks :
           /\ Queued(u)' <=> Queued(u) \/ (u = t /\ ~Promotes(slots, t))
           /\ HasActive(slots', u) <=>
                HasActive(slots, u) \/ (u = t /\ Promotes(slots, t))
  BY <1>1, <1>2, Acquirer DEF RunnerSound, Queued
<1>4. RunnerTypeOK'
  BY <1>1, <1>3 DEF RunnerTypeOK, SlotsSound, NonTerminal, Legs, Preparing
<1>5. TaskSound(t)'
  BY <1>1, <1>2, <1>3 DEF RunnerTypeOK, TaskSound, Untracked, Terminal,
     NonTerminal, Preparing, Streaming
<1>6. \A u \in Tasks : u # t => Kept(u)
  BY <1>1, <1>3 DEF RunnerTypeOK, Kept, Rest
<1> HIDE DEF Submit
<1> QED BY <1>1, <1>3, <1>4, <1>5, <1>6, OwnStep

LEMMA ClarifyRebuildSound ==
  ASSUME RunnerSound, NEW t \in Tasks, ClarifyRebuild(t), booting[t] = "no"
  PROVE  RunnerSound'
<1> USE DEF ClarifyRebuild, handleVars, tickVars, Answerable, Rebuildable
<1>1. /\ RunnerTypeOK /\ TaskSound(t) /\ restarts' = restarts
      /\ slots' = decideAcquire(slots, t)
  BY DEF RunnerSound
<1>2. /\ ~knowsTask(slots, t) /\ ~Queued(t) /\ ~HasActive(slots, t)
      /\ Promotes(slots, t)
  BY DEF knowsTask, Queued
<1>3. /\ SlotsSound(slots')
      /\ \A u \in Tasks :
           /\ Queued(u)' <=> Queued(u)
           /\ HasActive(slots', u) <=> HasActive(slots, u) \/ u = t
  BY <1>1, <1>2, Acquirer DEF RunnerSound, Queued
<1>4. RunnerTypeOK'
  BY <1>1, <1>3 DEF RunnerTypeOK, SlotsSound, Legs, Preparing
<1>5. TaskSound(t)'
  BY <1>1, <1>2, <1>3 DEF RunnerTypeOK, TaskSound, Untracked, Terminal,
     NonTerminal, Preparing, Streaming
<1>6. \A u \in Tasks : u # t => Kept(u)
  BY <1>1, <1>3 DEF RunnerTypeOK, Kept, Rest
<1> HIDE DEF ClarifyRebuild
<1> QED BY <1>1, <1>3, <1>4, <1>5, <1>6, OwnStep

\* What a new dispatch does, on whatever slots, rows and promises it is called.
LEMMA RedispatchEffects ==
  ASSUME RunnerTypeOK, NEW t \in Tasks, NEW s, SlotsSound(s),
         NEW rows \in Rows, NEW legs \in AllLegs, Redispatch(t, s, rows, legs),
         rows[t] \notin Terminal
  PROVE  /\ SlotsSound(slots') /\ row' \in Rows /\ leg' \in AllLegs
         /\ session' \subseteq Tasks
         /\ clarification' \in [Tasks -> {"none", "open", "resolved"}]
         /\ clarification'[t] # "open"
         /\ \A u \in Tasks : u # t =>
              /\ row'[u] = rows[u] /\ leg'[u] = legs[u]
              /\ clarification'[u] = clarification[u]
              /\ Queued(u)' <=> u \in Elements(s.globalQueue)
              /\ HasActive(slots', u) <=> HasActive(s, u)
         /\ \/ /\ knowsTask(s, t)
               /\ row'[t] = "pending" /\ leg'[t] = legs[t]
               /\ Queued(t)' <=> t \in Elements(s.globalQueue)
               /\ HasActive(slots', t) <=> HasActive(s, t)
            \/ /\ ~knowsTask(s, t)
               /\ row'[t] = "running" /\ leg'[t] = "fresh"
               /\ ~Queued(t)' /\ HasActive(slots', t)
            \/ /\ ~knowsTask(s, t)
               /\ row'[t] = "pending" /\ leg'[t] = legs[t]
               /\ Queued(t)' /\ ~HasActive(slots', t)
<1> DEFINE starts == ~knowsTask(s, t) /\ Promotes(s, t)
<1>1. /\ session' = session \ {t}
      /\ clarification' = QuestionDropped(t)
      /\ slots' = (IF knowsTask(s, t) THEN s ELSE decideAcquire(s, t))
      /\ row' = [rows EXCEPT ![t] = IF starts THEN "running" ELSE "pending"]
      /\ leg' = (IF starts THEN [legs EXCEPT ![t] = "fresh"] ELSE legs)
  BY DEF Redispatch
<1>2. /\ row' \in Rows /\ leg' \in AllLegs
      /\ row'[t] = (IF starts THEN "running" ELSE "pending")
      /\ leg'[t] = (IF starts THEN "fresh" ELSE legs[t])
      /\ \A u \in Tasks : u # t => row'[u] = rows[u] /\ leg'[u] = legs[u]
  BY <1>1 DEF Rows, AllLegs, NonTerminal, Legs, Preparing
<1>3. /\ session' \subseteq Tasks
      /\ clarification' \in [Tasks -> {"none", "open", "resolved"}]
      /\ clarification'[t] # "open"
      /\ \A u \in Tasks : u # t => clarification'[u] = clarification[u]
  BY <1>1 DEF RunnerTypeOK, QuestionDropped
<1>4. CASE knowsTask(s, t)
  <2>1. slots' = s
    BY <1>1, <1>4
  <2> QED BY <1>2, <1>3, <1>4, <2>1 DEF Queued
<1>5. CASE ~knowsTask(s, t)
  <2>1. slots' = decideAcquire(s, t)
    BY <1>1, <1>5
  <2>2. t \notin Elements(s.globalQueue) /\ ~HasActive(s, t)
    BY <1>5 DEF knowsTask
  <2>3. /\ SlotsSound(slots')
        /\ \A u \in Tasks :
             /\ Queued(u)' <=>
                  u \in Elements(s.globalQueue) \/ (u = t /\ ~Promotes(s, t))
             /\ HasActive(slots', u) <=>
                  HasActive(s, u) \/ (u = t /\ Promotes(s, t))
    BY <1>5, <2>1, Acquirer DEF Queued
  <2> QED BY <1>2, <1>3, <1>5, <2>2, <2>3
<1> QED BY <1>4, <1>5

\* ... called as it is by an answer and at boot ...
LEMMA RedispatchStep ==
  ASSUME RunnerSound, NEW t \in Tasks, Redispatch(t, slots, row, leg),
         row[t] \notin Terminal,
         \A u \in Tasks : u # t /\ clarification'[u] = clarification[u] => Rest(u)
  PROVE  /\ SlotsSound(slots') /\ row' \in Rows /\ leg' \in AllLegs
         /\ session' \subseteq Tasks
         /\ clarification' \in [Tasks -> {"none", "open", "resolved"}]
         /\ clarification'[t] # "open"
         /\ \A u \in Tasks : u # t => Kept(u)
         /\ \/ /\ Queued(t) \/ HasActive(slots, t)
               /\ row'[t] = "pending" /\ leg'[t] = leg[t]
               /\ Queued(t)' <=> Queued(t)
               /\ HasActive(slots', t) <=> HasActive(slots, t)
            \/ /\ ~Queued(t) /\ ~HasActive(slots, t)
               /\ row'[t] = "running" /\ leg'[t] = "fresh"
               /\ ~Queued(t)' /\ HasActive(slots', t)
            \/ /\ ~Queued(t) /\ ~HasActive(slots, t)
               /\ row'[t] = "pending" /\ leg'[t] = leg[t]
               /\ Queued(t)' /\ ~HasActive(slots', t)
<1>1. /\ RunnerTypeOK /\ SlotsSound(slots) /\ row \in Rows /\ leg \in AllLegs
      /\ knowsTask(slots, t) <=> Queued(t) \/ HasActive(slots, t)
  BY DEF RunnerSound, RunnerTypeOK, Rows, AllLegs, knowsTask, Queued
<1> USE <1>1, RedispatchEffects
<1>2. /\ SlotsSound(slots') /\ row' \in Rows /\ leg' \in AllLegs
      /\ session' \subseteq Tasks
      /\ clarification' \in [Tasks -> {"none", "open", "resolved"}]
      /\ clarification'[t] # "open"
  OBVIOUS
<1>3. \A u \in Tasks : u # t => Kept(u)
  BY DEF Kept, Queued
<1>4. \/ /\ Queued(t) \/ HasActive(slots, t)
         /\ row'[t] = "pending" /\ leg'[t] = leg[t]
         /\ Queued(t)' <=> Queued(t)
         /\ HasActive(slots', t) <=> HasActive(slots, t)
      \/ /\ ~Queued(t) /\ ~HasActive(slots, t)
         /\ row'[t] = "running" /\ leg'[t] = "fresh"
         /\ ~Queued(t)' /\ HasActive(slots', t)
      \/ /\ ~Queued(t) /\ ~HasActive(slots, t)
         /\ row'[t] = "pending" /\ leg'[t] = leg[t]
         /\ Queued(t)' /\ ~HasActive(slots', t)
  BY DEF Queued
<1> QED BY <1>2, <1>3, <1>4

LEMMA ClarifyRedispatchSound ==
  ASSUME RunnerSound, NEW t \in Tasks, ClarifyRedispatch(t), booting[t] = "no"
  PROVE  RunnerSound'
<1> USE DEF ClarifyRedispatch, handleVars, tickVars, Answerable
<1>1. RunnerTypeOK /\ TaskSound(t) /\ restarts' = restarts
  BY DEF RunnerSound
<1>2. /\ Redispatch(t, slots, row, leg) /\ row[t] \notin Terminal
      /\ \A u \in Tasks : u # t /\ clarification'[u] = clarification[u] => Rest(u)
  BY <1>1 DEF RunnerTypeOK, TaskSound, Rest, Terminal, NonTerminal
<1> HIDE DEF ClarifyRedispatch
<1>3. /\ SlotsSound(slots') /\ row' \in Rows /\ leg' \in AllLegs
      /\ session' \subseteq Tasks
      /\ clarification' \in [Tasks -> {"none", "open", "resolved"}]
      /\ clarification'[t] # "open"
      /\ \A u \in Tasks : u # t => Kept(u)
      /\ \/ /\ Queued(t) \/ HasActive(slots, t)
            /\ row'[t] = "pending" /\ leg'[t] = leg[t]
            /\ Queued(t)' <=> Queued(t)
            /\ HasActive(slots', t) <=> HasActive(slots, t)
         \/ /\ ~Queued(t) /\ ~HasActive(slots, t)
            /\ row'[t] = "running" /\ leg'[t] = "fresh"
            /\ ~Queued(t)' /\ HasActive(slots', t)
         \/ /\ ~Queued(t) /\ ~HasActive(slots, t)
            /\ row'[t] = "pending" /\ leg'[t] = leg[t]
            /\ Queued(t)' /\ ~HasActive(slots', t)
  BY <1>2, RedispatchStep
<1> USE DEF ClarifyRedispatch
<1>4. RunnerTypeOK'
  BY <1>1, <1>3 DEF RunnerTypeOK, Rows, AllLegs, SlotsSound
<1>5. TaskSound(t)'
  BY <1>1, <1>3 DEF RunnerTypeOK, TaskSound, Untracked, Terminal, NonTerminal,
     Preparing, Streaming, Closing, Legs
<1> HIDE DEF ClarifyRedispatch
<1> QED BY <1>1, <1>3, <1>4, <1>5, OwnStep

LEMMA BootRedispatchSound ==
  ASSUME RunnerSound, NEW t \in Tasks, BootRedispatch(t)
  PROVE  RunnerSound'
<1> USE DEF BootRedispatch, handleVars, tickVars
<1>1. RunnerTypeOK /\ TaskSound(t) /\ restarts' = restarts
  BY DEF RunnerSound
<1>2. /\ Redispatch(t, slots, row, leg) /\ row[t] \notin Terminal
      /\ \A u \in Tasks : u # t /\ clarification'[u] = clarification[u] => Rest(u)
  BY <1>1 DEF RunnerTypeOK, TaskSound, Rest, Terminal, NonTerminal
<1> HIDE DEF BootRedispatch
<1>3. /\ SlotsSound(slots') /\ row' \in Rows /\ leg' \in AllLegs
      /\ session' \subseteq Tasks
      /\ clarification' \in [Tasks -> {"none", "open", "resolved"}]
      /\ clarification'[t] # "open"
      /\ \A u \in Tasks : u # t => Kept(u)
      /\ \/ /\ Queued(t) \/ HasActive(slots, t)
            /\ row'[t] = "pending" /\ leg'[t] = leg[t]
            /\ Queued(t)' <=> Queued(t)
            /\ HasActive(slots', t) <=> HasActive(slots, t)
         \/ /\ ~Queued(t) /\ ~HasActive(slots, t)
            /\ row'[t] = "running" /\ leg'[t] = "fresh"
            /\ ~Queued(t)' /\ HasActive(slots', t)
         \/ /\ ~Queued(t) /\ ~HasActive(slots, t)
            /\ row'[t] = "pending" /\ leg'[t] = leg[t]
            /\ Queued(t)' /\ ~HasActive(slots', t)
  BY <1>2, RedispatchStep
<1> USE DEF BootRedispatch
<1>4. RunnerTypeOK'
  BY <1>1, <1>3 DEF RunnerTypeOK, Rows, AllLegs, SlotsSound
<1>5. TaskSound(t)'
  BY <1>1, <1>3 DEF RunnerTypeOK, TaskSound, Untracked, Terminal, NonTerminal,
     Preparing, Streaming, Closing, Legs
<1> HIDE DEF BootRedispatch
<1> QED BY <1>1, <1>3, <1>4, <1>5, OwnStep

\* A row to be resumed gets its slot at once, or is dispatched like the others.
LEMMA BootResumeSound ==
  ASSUME RunnerSound, NEW t \in Tasks, BootResume(t)
  PROVE  RunnerSound'
<1> USE DEF BootResume, handleVars
<1>1. RunnerTypeOK /\ TaskSound(t) /\ restarts' = restarts
  BY DEF RunnerSound
<1>2. CASE Promotes(slots, t)
  <2>1. /\ slots' = decideAcquire(slots, t) /\ leg' = [leg EXCEPT ![t] = "boot"]
        /\ row' = row /\ session' = session /\ clarification' = clarification
    BY <1>2
  <2>2. ~knowsTask(slots, t) /\ ~Queued(t) /\ ~HasActive(slots, t)
    BY <1>1 DEF TaskSound, Untracked, knowsTask, Queued
  <2>3. /\ SlotsSound(slots')
        /\ \A u \in Tasks :
             /\ Queued(u)' <=> Queued(u)
             /\ HasActive(slots', u) <=> HasActive(slots, u) \/ u = t
    BY <1>2, <2>1, <2>2, Acquirer DEF RunnerSound, Queued
  <2>4. RunnerTypeOK'
    BY <1>1, <2>1, <2>3 DEF RunnerTypeOK, SlotsSound, Legs, Preparing
  <2>5. TaskSound(t)'
    BY <1>1, <2>1, <2>2, <2>3 DEF RunnerTypeOK, TaskSound, Untracked, Terminal,
       NonTerminal, Preparing, Streaming
  <2>6. \A u \in Tasks : u # t => Kept(u)
    BY <1>1, <2>1, <2>3 DEF RunnerTypeOK, Kept, Rest
  <2> HIDE DEF BootResume
  <2> QED BY <1>1, <2>3, <2>4, <2>5, <2>6, OwnStep
<1>3. CASE ~Promotes(slots, t)
  <2>1. /\ Redispatch(t, slots, row, leg) /\ row[t] \notin Terminal
        /\ \A u \in Tasks : u # t /\ clarification'[u] = clarification[u] => Rest(u)
    BY <1>1, <1>3 DEF RunnerTypeOK, TaskSound, Rest, Terminal, NonTerminal
  <2> HIDE DEF BootResume
  <2>2. /\ SlotsSound(slots') /\ row' \in Rows /\ leg' \in AllLegs
        /\ session' \subseteq Tasks
        /\ clarification' \in [Tasks -> {"none", "open", "resolved"}]
        /\ clarification'[t] # "open"
        /\ \A u \in Tasks : u # t => Kept(u)
        /\ \/ /\ Queued(t) \/ HasActive(slots, t)
              /\ row'[t] = "pending" /\ leg'[t] = leg[t]
              /\ Queued(t)' <=> Queued(t)
              /\ HasActive(slots', t) <=> HasActive(slots, t)
           \/ /\ ~Queued(t) /\ ~HasActive(slots, t)
              /\ row'[t] = "running" /\ leg'[t] = "fresh"
              /\ ~Queued(t)' /\ HasActive(slots', t)
           \/ /\ ~Queued(t) /\ ~HasActive(slots, t)
              /\ row'[t] = "pending" /\ leg'[t] = leg[t]
              /\ Queued(t)' /\ ~HasActive(slots', t)
    BY <2>1, RedispatchStep
  <2>3. /\ booting' = [booting EXCEPT ![t] = "no"]
        /\ asks' = asks /\ wanted' = wanted /\ closer' = closer /\ swept' = swept
        /\ cancelled' = cancelled /\ live' = live /\ parked' = parked
        /\ pendingAborts' = pendingAborts /\ aborted' = aborted
    BY DEF BootResume
  <2>4. RunnerTypeOK'
    BY <1>1, <2>2, <2>3 DEF RunnerTypeOK, Rows, AllLegs, SlotsSound
  <2>5. TaskSound(t)'
    BY <1>1, <2>2, <2>3, booting[t] = "resume"
       DEF RunnerTypeOK, TaskSound, Untracked, Terminal, NonTerminal, Preparing,
           Streaming, BootResume
  <2> QED BY <1>1, <2>2, <2>4, <2>5, OwnStep
<1> QED BY <1>2, <1>3

\* ... and after a release.
LEMMA ReleaseRedispatchStep ==
  ASSUME RunnerSound, NEW t \in Tasks, ReleaseAndRedispatch(t),
         row[t] \in NonTerminal, ~Queued(t),
         \A u \in Tasks : u # t /\ clarification'[u] = clarification[u] => Rest(u)
  PROVE  /\ SlotsSound(slots') /\ row' \in Rows /\ leg' \in AllLegs
         /\ session' \subseteq Tasks
         /\ clarification' \in [Tasks -> {"none", "open", "resolved"}]
         /\ clarification'[t] # "open"
         /\ \A u \in Tasks : u # t => Kept(u) \/ PromotedNow(u)
         /\ \/ /\ row'[t] = "running" /\ leg'[t] = "fresh"
               /\ ~Queued(t)' /\ HasActive(slots', t)
            \/ /\ row'[t] = "pending" /\ leg'[t] = "none"
               /\ Queued(t)' /\ ~HasActive(slots', t)
<1> DEFINE legs == [leg EXCEPT ![t] = "none"]
           s == decideRelease(slots, t)
           rs == PromotedRows(t, row)
           ls == PromotedLegs(t, legs)
<1>1. /\ RunnerTypeOK /\ SlotsSound(slots) /\ row \in Rows
      /\ legs \in AllLegs /\ legs[t] = "none"
      /\ \A u \in Tasks : u # t => legs[u] = leg[u]
      /\ \A u \in Tasks : Queued(u) => row[u] = "pending"
  BY DEF RunnerSound, RunnerTypeOK, TaskSound, Rows, AllLegs, Legs
<1>2. Redispatch(t, s, rs, ls)
  BY DEF ReleaseAndRedispatch
<1> HIDE DEF legs
<1>3. /\ SlotsSound(s) /\ rs \in Rows /\ ls \in AllLegs
      /\ ~HasActive(s, t)
      /\ \A u \in Tasks :
           \/ /\ Queued(u) /\ u \notin Elements(s.globalQueue)
              /\ HasActive(s, u)
              /\ rs[u] = (IF row[u] = "pending" THEN "running" ELSE row[u])
              /\ ls[u] = "fresh"
           \/ /\ u \in Elements(s.globalQueue) <=> Queued(u)
              /\ HasActive(s, u) <=> HasActive(slots, u) /\ u # t
              /\ rs[u] = row[u] /\ ls[u] = legs[u]
  BY <1>1, ReleaseEffects
<1> HIDE DEF s, rs, ls
<1>4. /\ rs[t] \notin Terminal /\ ls[t] = "none"
      /\ t \notin Elements(s.globalQueue) /\ ~knowsTask(s, t)
  BY <1>1, <1>3 DEF Terminal, NonTerminal, knowsTask
<1>5. /\ SlotsSound(slots') /\ row' \in Rows /\ leg' \in AllLegs
      /\ session' \subseteq Tasks
      /\ clarification' \in [Tasks -> {"none", "open", "resolved"}]
      /\ clarification'[t] # "open"
      /\ \A u \in Tasks : u # t =>
           /\ row'[u] = rs[u] /\ leg'[u] = ls[u]
           /\ clarification'[u] = clarification[u]
           /\ Queued(u)' <=> u \in Elements(s.globalQueue)
           /\ HasActive(slots', u) <=> HasActive(s, u)
      /\ \/ /\ row'[t] = "running" /\ leg'[t] = "fresh"
            /\ ~Queued(t)' /\ HasActive(slots', t)
         \/ /\ row'[t] = "pending" /\ leg'[t] = ls[t]
            /\ Queued(t)' /\ ~HasActive(slots', t)
  BY <1>1, <1>2, <1>3, <1>4, RedispatchEffects
<1>6. \A u \in Tasks : u # t => Kept(u) \/ PromotedNow(u)
  BY <1>1, <1>3, <1>5 DEF Kept, PromotedNow
<1> QED BY <1>4, <1>5, <1>6

LEMMA FallbackClosedSound ==
  ASSUME RunnerSound, NEW t \in Tasks, FallbackClosed(t)
  PROVE  RunnerSound'
<1> USE DEF FallbackClosed, handleVars, tickVars
<1>1. RunnerTypeOK /\ TaskSound(t) /\ restarts' = restarts
  BY DEF RunnerSound
<1>2. /\ ReleaseAndRedispatch(t) /\ row[t] \in NonTerminal /\ ~Queued(t)
      /\ \A u \in Tasks : u # t /\ clarification'[u] = clarification[u] => Rest(u)
  BY <1>1 DEF TaskSound, Rest, NonTerminal
<1> HIDE DEF FallbackClosed
<1>3. /\ SlotsSound(slots') /\ row' \in Rows /\ leg' \in AllLegs
      /\ session' \subseteq Tasks
      /\ clarification' \in [Tasks -> {"none", "open", "resolved"}]
      /\ clarification'[t] # "open"
      /\ \A u \in Tasks : u # t => Kept(u) \/ PromotedNow(u)
      /\ \/ /\ row'[t] = "running" /\ leg'[t] = "fresh"
            /\ ~Queued(t)' /\ HasActive(slots', t)
         \/ /\ row'[t] = "pending" /\ leg'[t] = "none"
            /\ Queued(t)' /\ ~HasActive(slots', t)
  BY <1>2, ReleaseRedispatchStep
<1> USE DEF FallbackClosed
<1>4. RunnerTypeOK'
  BY <1>1, <1>3 DEF RunnerTypeOK, Rows, AllLegs, SlotsSound
<1>5. TaskSound(t)'
  BY <1>1, <1>3 DEF RunnerTypeOK, TaskSound, Untracked, Terminal, NonTerminal,
     Preparing, Streaming
<1> HIDE DEF FallbackClosed
<1> QED BY <1>1, <1>3, <1>4, <1>5, OwnStep

LEMMA RebuildFailsSound ==
  ASSUME RunnerSound, NEW t \in Tasks, RebuildFails(t)
  PROVE  RunnerSound'
<1> USE DEF RebuildFails, handleVars, tickVars
<1>1. RunnerTypeOK /\ TaskSound(t) /\ restarts' = restarts
  BY DEF RunnerSound
<1>2. /\ ReleaseAndRedispatch(t) /\ row[t] \in NonTerminal /\ ~Queued(t)
      /\ \A u \in Tasks : u # t /\ clarification'[u] = clarification[u] => Rest(u)
  BY <1>1 DEF TaskSound, Rest, NonTerminal
<1> HIDE DEF RebuildFails
<1>3. /\ SlotsSound(slots') /\ row' \in Rows /\ leg' \in AllLegs
      /\ session' \subseteq Tasks
      /\ clarification' \in [Tasks -> {"none", "open", "resolved"}]
      /\ clarification'[t] # "open"
      /\ \A u \in Tasks : u # t => Kept(u) \/ PromotedNow(u)
      /\ \/ /\ row'[t] = "running" /\ leg'[t] = "fresh"
            /\ ~Queued(t)' /\ HasActive(slots', t)
         \/ /\ row'[t] = "pending" /\ leg'[t] = "none"
            /\ Queued(t)' /\ ~HasActive(slots', t)
  BY <1>2, ReleaseRedispatchStep
<1> USE DEF RebuildFails
<1>4. RunnerTypeOK'
  BY <1>1, <1>3 DEF RunnerTypeOK, Rows, AllLegs, SlotsSound
<1>5. TaskSound(t)'
  BY <1>1, <1>3 DEF RunnerTypeOK, TaskSound, Untracked, Terminal, NonTerminal,
     Preparing, Streaming
<1> HIDE DEF RebuildFails
<1> QED BY <1>1, <1>3, <1>4, <1>5, OwnStep

-----------------------------------------------------------------------------
\* A crash forgets everything but the table.
LEMMA RestartSound ==
  ASSUME RunnerSound, Restart
  PROVE  RunnerSound'
<1>1. RunnerTypeOK /\ \A t \in Tasks : TaskSound(t)
  BY DEF RunnerSound
<1>2. slots' = createInitialSlotState
  BY DEF Restart
<1>3. SlotsSound(slots') /\ slots' \in SlotState
  BY <1>2, InitialSound DEF SlotsSound
<1>4. restarts' \in 0..MaxRestarts /\ restarts' > 0
  <2>1. restarts \in 0..MaxRestarts /\ MaxRestarts \in Nat /\ restarts < MaxRestarts
    BY <1>1, BackgroundAssumption DEF RunnerTypeOK, Restart
  <2> QED BY <2>1 DEF Restart
<1>5. PICK resume \in ResumeAcrossRestart :
        booting' = [t \in Tasks |->
          CASE row[t] \notin NonTerminal -> "no"
            [] row[t] = "running" /\ resume /\ t \in session -> "resume"
            [] row[t] = "awaiting_user" /\ resume /\ t \in session -> "no"
            [] OTHER -> "redispatch"]
  BY DEF Restart
<1>6. ASSUME NEW t \in Tasks
      PROVE  /\ booting'[t] \in {"no", "resume", "redispatch"}
             /\ booting'[t] # "no" => row[t] \in NonTerminal
             /\ booting'[t] = "resume" => row[t] = "running"
             /\ row[t] \in {"pending", "running"} => booting'[t] # "no"
  <2>1. CASE row[t] \notin NonTerminal
    BY <1>5, <2>1 DEF NonTerminal
  <2>2. CASE row[t] \in NonTerminal /\ row[t] = "running" /\ resume /\ t \in session
    BY <1>5, <2>2 DEF NonTerminal
  <2>3. CASE /\ row[t] \in NonTerminal
             /\ row[t] = "awaiting_user" /\ resume /\ t \in session
    BY <1>5, <2>3 DEF NonTerminal
  <2>4. CASE /\ row[t] \in NonTerminal
             /\ ~(row[t] = "running" /\ resume /\ t \in session)
             /\ ~(row[t] = "awaiting_user" /\ resume /\ t \in session)
    <3>1. booting'[t] = "redispatch"
      BY <1>5, <2>4
    <3> QED BY <3>1, <2>4
  <2> QED BY <2>1, <2>2, <2>3, <2>4
<1>7. RunnerTypeOK'
  <2>1. booting' \in [Tasks -> {"no", "resume", "redispatch"}]
    <3>1. /\ DOMAIN booting' = Tasks
          /\ booting' = [t \in Tasks |-> booting'[t]]
      BY <1>5
    <3> QED BY <3>1, <1>6
  <2> QED BY <1>1, <1>3, <1>4, <2>1 DEF RunnerTypeOK, Restart, questionVars, Legs
<1>8. \A t \in Tasks : ~Queued(t)' /\ ~HasActive(slots', t)
  BY <1>2, SlotAssumption DEF Queued, Elements, HasActive, SitesHeld,
     createInitialSlotState
<1>9. ASSUME NEW t \in Tasks PROVE TaskSound(t)'
  <2>1. /\ row' = row /\ clarification' = clarification
        /\ live' = {} /\ parked' = {} /\ pendingAborts' = {}
        /\ leg'[t] = "none" /\ closer'[t] = "none"
        /\ swept' = {} /\ cancelled' = {}
    BY DEF Restart, questionVars
  <2>2. Untracked(t)'
    BY <1>8, <2>1 DEF Untracked
  <2> QED BY <1>1, <1>4, <1>6, <1>8, <2>1, <2>2 DEF TaskSound, Terminal, NonTerminal,
          Preparing, Streaming
<1> QED BY <1>3, <1>7, <1>9 DEF RunnerSound

LEMMA StutterSound ==
  ASSUME RunnerSound, UNCHANGED runnerVars
  PROVE  RunnerSound'
<1> USE DEF runnerVars, questionVars, handleVars, tickVars
<1>1. slots' = slots
  OBVIOUS
<1>2. RunnerTypeOK' /\ SlotsSound(slots')
  BY DEF RunnerSound, RunnerTypeOK
<1>3. ASSUME NEW t \in Tasks PROVE TaskSound(t)'
  <2>1. Kept(t)
    BY <1>1 DEF Kept, Rest, Queued
  <2>2. TaskSound(t) /\ restarts' = restarts
    BY DEF RunnerSound
  <2> QED BY <2>1, <2>2, FrameSound
<1> QED BY <1>2, <1>3 DEF RunnerSound

\* Every step of the runner keeps its part of the invariant; the ones of a user,
\* a tool and the tick need the recovery at boot to be over.
LEMMA RunnerStep ==
  ASSUME RunnerSound, NEW t \in Tasks,
         \/ BootStep(t)
         \/ Booted /\ (RunnerProgress(t) \/ ToolStep(t) \/ UserStep(t))
  PROVE  RunnerSound'
<1>1. Booted => booting[t] = "no"
  BY DEF Booted
<1>2. CASE BootStep(t)
  BY <1>2, BootResumeSound, BootRedispatchSound DEF BootStep
<1>3. CASE Booted /\ SilentLegStep(t)
  BY <1>3, PreparedSound, PrepareThrowsSound, SessionOpensSound, LegEndsSound,
     LegParksSound, ResumeUnavailableSound, FallbackClosedSound, RebuiltSound,
     RebuildFailsSound DEF SilentLegStep
<1>4. CASE Booted /\ (ExpireParked(t) \/ SweepQueued(t))
  BY <1>1, <1>4, ExpireParkedSound, SweepQueuedSound
<1>5. CASE Booted /\ TellingStep(t)
  BY <1>1, <1>5, PrepareFailsSound, LegClosedSound, CloserEndsSound,
     ExpireLiveSound, ExpireUntrackedSound, FailSweptSound DEF TellingStep
<1>6. CASE Booted /\ ToolStep(t)
  BY <1>6, AskUserSound, FinishSound, ExecuteTimeoutSound DEF ToolStep
<1>7. CASE Booted /\ UserStep(t)
  BY <1>1, <1>7, SubmitSound, ClarifyParkedSound, ClarifyRebuildSound,
     ClarifyRedispatchSound, CancelQueuedSound, CancelLiveSound,
     CancelPreparingSound, CancelParkedSound DEF UserStep
<1> QED BY <1>2, <1>3, <1>4, <1>5, <1>6, <1>7 DEF RunnerProgress

-----------------------------------------------------------------------------
\* The delivery.
DeliverySound == DeliveryTypeOK(Tasks) /\ \A t \in Tasks : ToldSound(t)

LEMMA QuietStep ==
  ASSUME DeliverySound, UNCHANGED outVars, queued' \subseteq Tasks
  PROVE  DeliverySound'
  BY DEF DeliverySound, DeliveryTypeOK, ToldSound, Accounted, Told, outVars

LEMMA TellingQueues ==
  ASSUME DeliveryTypeOK(Tasks), NEW t \in Tasks, TellingStep(t)
  PROVE  queued' \subseteq Tasks
  BY DEF DeliveryTypeOK, TellingStep, PrepareFails, LegClosed, CloserEnds,
     ExpireLive, ExpireUntracked, FailSwept, EnqueueIf

\* So a step is sound if it is for its own task.
LEMMA OwnDelivery ==
  ASSUME DeliverySound, NEW t \in Tasks, DeliveryTypeOK(Tasks)', ToldSound(t)',
         \A u \in Tasks : u # t =>
           /\ delivering'[u] = delivering[u]
           /\ sends'[u] = sends[u] /\ misses'[u] = misses[u]
           /\ u \in delivered' <=> u \in delivered
           /\ u \in recorded' <=> u \in recorded
  PROVE  DeliverySound'
<1>1. ASSUME NEW u \in Tasks, u # t PROVE ToldSound(u)'
  <2>1. ToldSound(u)
    BY DEF DeliverySound
  <2> QED BY <1>1, <2>1 DEF ToldSound, Accounted, Told
<1> QED BY <1>1 DEF DeliverySound

LEMMA CrashTells ==
  ASSUME DeliverySound, DeliveryLost
  PROVE  DeliverySound'
<1>1. DOMAIN delivering = Tasks /\ DOMAIN misses = Tasks /\ DeliveryTypeOK(Tasks)
  BY DEF DeliverySound, DeliveryTypeOK
<1>2. DeliveryTypeOK(Tasks)'
  BY <1>1 DEF DeliveryTypeOK, DeliveryLost, Stages
<1>3. ASSUME NEW t \in Tasks PROVE ToldSound(t)'
  <2>1. ToldSound(t) /\ sends[t] \in Nat /\ misses[t] \in Nat
    BY <1>1 DEF DeliverySound, DeliveryTypeOK
  <2>2. /\ delivering'[t] = "no" /\ sends'[t] = sends[t]
        /\ misses'[t] = IF delivering[t] \in {"turnSent", "draftSent"}
                        THEN misses[t] + 1 ELSE misses[t]
        /\ recorded' = recorded /\ delivered' = delivered
    BY <1>1 DEF DeliveryLost
  <2>3. CASE delivering[t] \in {"turnSent", "draftSent"}
    BY <2>1, <2>2, <2>3 DEF ToldSound, Accounted, Told
  <2>4. CASE delivering[t] \notin {"turnSent", "draftSent"}
    BY <2>1, <2>2, <2>4 DEF ToldSound, Accounted, Told
  <2> QED BY <2>3, <2>4
<1> QED BY <1>2, <1>3 DEF DeliverySound

LEMMA SendTells ==
  ASSUME DeliverySound, NEW t \in Tasks, TurnSends(t) \/ DraftSends(t)
  PROVE  DeliverySound'
<1>1. /\ DeliveryTypeOK(Tasks) /\ ToldSound(t)
      /\ sends[t] \in Nat /\ misses[t] \in Nat
  BY DEF DeliverySound, DeliveryTypeOK
<1>2. PICK now \in {"turnSent", "draftSent"} :
        delivering' = [delivering EXCEPT ![t] = now]
  BY DEF TurnSends, DraftSends
<1>3. /\ delivering[t] \in {"turn", "draft"}
      /\ sends' = [sends EXCEPT ![t] = @ + 1]
      /\ UNCHANGED <<queued, delivered, recorded, misses>>
  BY DEF TurnSends, DraftSends, Send
<1>4. DeliveryTypeOK(Tasks)'
  BY <1>1, <1>2, <1>3 DEF DeliveryTypeOK, Stages
<1>5. delivering'[t] \in {"turnSent", "draftSent"} /\ sends'[t] = sends[t] + 1
  BY <1>1, <1>2, <1>3 DEF DeliveryTypeOK
<1>6. \A u \in Tasks : u # t => delivering'[u] = delivering[u] /\ sends'[u] = sends[u]
  BY <1>1, <1>2, <1>3 DEF DeliveryTypeOK
<1>7. sends'[t] > 0 /\ (sends[t] <= misses[t] => sends'[t] <= 1 + misses[t])
  BY <1>1, <1>5
<1>8. ToldSound(t)'
  BY <1>1, <1>3, <1>5, <1>7 DEF ToldSound, Accounted, Told
<1> QED BY <1>3, <1>4, <1>6, <1>8, OwnDelivery

LEMMA FailureTells ==
  ASSUME DeliverySound, NEW t \in Tasks, TurnFails(t)
  PROVE  DeliverySound'
<1>1. /\ DeliveryTypeOK(Tasks) /\ ToldSound(t)
      /\ sends[t] \in Nat /\ misses[t] \in Nat
  BY DEF DeliverySound, DeliveryTypeOK
<1>2. DeliveryTypeOK(Tasks)'
  BY <1>1 DEF DeliveryTypeOK, TurnFails, Stages
<1>3. /\ delivering'[t] = "draft" /\ sends'[t] = sends[t]
      /\ misses'[t] = IF delivering[t] = "turn" THEN misses[t] ELSE misses[t] + 1
      /\ recorded' = recorded /\ delivered' = delivered
  BY <1>1 DEF DeliveryTypeOK, TurnFails
<1>4. ToldSound(t)'
  BY <1>1, <1>3 DEF ToldSound, Accounted, Told, TurnFails
<1>5. \A u \in Tasks : u # t =>
        /\ delivering'[u] = delivering[u]
        /\ sends'[u] = sends[u] /\ misses'[u] = misses[u]
  BY <1>1 DEF DeliveryTypeOK, TurnFails
<1> QED BY <1>2, <1>3, <1>4, <1>5, OwnDelivery

\* The message is recorded, or the row marked.
LEMMA RecordTells ==
  ASSUME DeliverySound, NEW t \in Tasks,
         TurnTags(t) \/ TurnDelivers(t) \/ DraftDelivers(t)
  PROVE  DeliverySound'
<1>1. /\ DeliveryTypeOK(Tasks) /\ ToldSound(t)
      /\ sends[t] \in Nat /\ misses[t] \in Nat
  BY DEF DeliverySound, DeliveryTypeOK
<1>2. /\ delivering[t] \in {"turnSent", "turnTagged", "draftSent"}
      /\ recorded' \in {recorded, recorded \cup {t}}
      /\ delivered' \in {delivered, delivered \cup {t}}
      /\ UNCHANGED <<queued, sends, misses>>
  BY DEF TurnTags, TurnDelivers, DraftDelivers
<1>3. \/ /\ delivering' = [delivering EXCEPT ![t] = "turnTagged"]
         /\ t \in recorded'
      \/ /\ delivering' = [delivering EXCEPT ![t] = "no"]
         /\ t \in delivered'
  BY DEF TurnTags, TurnDelivers, DraftDelivers
<1>4. DeliveryTypeOK(Tasks)'
  BY <1>1, <1>2, <1>3 DEF DeliveryTypeOK, Stages
<1>5. \/ delivering'[t] = "turnTagged" /\ t \in recorded'
      \/ delivering'[t] = "no" /\ t \in delivered'
  BY <1>1, <1>3 DEF DeliveryTypeOK
<1>6. \A u \in Tasks : u # t => delivering'[u] = delivering[u]
  BY <1>1, <1>3 DEF DeliveryTypeOK
<1>7. ToldSound(t)'
  BY <1>1, <1>2, <1>5 DEF ToldSound, Accounted, Told
<1> QED BY <1>2, <1>4, <1>6, <1>7, OwnDelivery

LEMMA DeliveryTells ==
  ASSUME DeliverySound, NEW t \in Tasks, DeliveryStep(t)
  PROVE  DeliverySound'
<1>1. /\ DeliveryTypeOK(Tasks) /\ DOMAIN delivering = Tasks
      /\ ToldSound(t) /\ sends[t] \in Nat /\ misses[t] \in Nat
  BY DEF DeliverySound, DeliveryTypeOK
<1>2. CASE RecoverDelivery(t) \/ DeferDelivery(t) \/ LoseEvent(t)
  <2>1. UNCHANGED outVars /\ queued' \subseteq Tasks
    BY <1>1, <1>2 DEF RecoverDelivery, DeferDelivery, TakeEvent, LoseEvent, outVars,
       DeliveryTypeOK
  <2> QED BY <2>1, QuietStep
<1>3. CASE SkipDelivery(t)
  <2>1. /\ delivering[t] = "no" /\ delivered' = delivered \cup {t}
        /\ t \in recorded \cup delivered \cup Channelless
        /\ queued' = queued \ {t}
        /\ UNCHANGED <<delivering, recorded, sends, misses>>
    BY <1>1, <1>3 DEF SkipDelivery, TakeEvent, Settled
  <2>2. DeliveryTypeOK(Tasks)'
    BY <1>1, <2>1 DEF DeliveryTypeOK
  <2>3. ToldSound(t)'
    BY <1>1, <2>1 DEF ToldSound, Accounted, Told
  <2> QED BY <2>1, <2>2, <2>3, OwnDelivery
<1>4. CASE Deliver(t)
  <2>1. PICK how \in {"turn", "draft"} : delivering' = [delivering EXCEPT ![t] = how]
    BY <1>4 DEF Deliver
  <2>2. /\ t \notin recorded \cup delivered /\ delivering[t] = "no"
        /\ queued' = queued \ {t}
        /\ UNCHANGED <<delivered, recorded, sends, misses>>
    BY <1>1, <1>4 DEF Deliver, TakeEvent, Settled
  <2>3. DeliveryTypeOK(Tasks)'
    BY <1>1, <2>1, <2>2 DEF DeliveryTypeOK, Stages
  <2>4. delivering'[t] \in {"turn", "draft"}
    BY <1>1, <2>1
  <2>5. ToldSound(t)'
    BY <1>1, <2>2, <2>4 DEF ToldSound, Accounted, Told
  <2>6. \A u \in Tasks : u # t => delivering'[u] = delivering[u]
    BY <1>1, <2>1
  <2> QED BY <2>2, <2>3, <2>5, <2>6, OwnDelivery
<1>5. CASE Delivers(t)
  BY <1>5, SendTells, FailureTells, RecordTells DEF Delivers
<1> QED BY <1>2, <1>3, <1>4, <1>5 DEF DeliveryStep

-----------------------------------------------------------------------------
LEMMA InitSound == BackgroundInit => BackgroundSound
<1> SUFFICES ASSUME BackgroundInit PROVE BackgroundSound
  OBVIOUS
<1>1. SlotsSound(slots) /\ slots \in SlotState
  BY InitialSound DEF BackgroundInit, SlotsSound
<1>2. RunnerTypeOK
  BY <1>1, BackgroundAssumption DEF BackgroundInit, RunnerTypeOK, Legs
<1>3. \A t \in Tasks : ~Queued(t) /\ ~HasActive(slots, t)
  BY SlotAssumption DEF BackgroundInit, Queued, Elements, HasActive, SitesHeld,
     createInitialSlotState
<1>4. \A t \in Tasks : TaskSound(t)
  BY <1>3 DEF BackgroundInit, TaskSound, Untracked, Preparing, Streaming
<1>5. DeliveryTypeOK(Tasks) /\ \A t \in Tasks : ToldSound(t)
  BY DEF BackgroundInit, DeliveryInit, DeliveryTypeOK, Stages, ToldSound, Accounted,
     Told
<1> QED BY <1>1, <1>2, <1>4, <1>5 DEF BackgroundSound, RunnerSound

LEMMA StepSound ==
  BackgroundSound /\ [BackgroundNext]_backgroundVars => BackgroundSound'
<1> SUFFICES ASSUME BackgroundSound, [BackgroundNext]_backgroundVars
             PROVE  RunnerSound' /\ DeliverySound'
  BY DEF BackgroundSound, DeliverySound
<1>1. RunnerSound /\ DeliverySound /\ DeliveryTypeOK(Tasks)
  BY DEF BackgroundSound, DeliverySound
<1>2. CASE UNCHANGED backgroundVars
  <2>1. UNCHANGED runnerVars /\ UNCHANGED outVars /\ queued' \subseteq Tasks
    BY <1>1, <1>2 DEF backgroundVars, deliveryVars, DeliveryTypeOK
  <2> QED BY <1>1, <2>1, StutterSound, QuietStep
<1>3. CASE Restart
  <2>1. DeliveryLost
    BY <1>3 DEF Restart
  <2> QED BY <1>1, <1>3, <2>1, RestartSound, CrashTells
<1>4. ASSUME NEW t \in Tasks,
             \/ BootStep(t) /\ UNCHANGED deliveryVars
             \/ Booted /\ (RunnerProgress(t) \/ DeliveryStep(t))
             \/ Booted /\ (ToolStep(t) \/ UserStep(t)) /\ UNCHANGED deliveryVars
      PROVE  RunnerSound' /\ DeliverySound'
  <2>1. CASE DeliveryStep(t)
    <3>1. UNCHANGED runnerVars
      BY <2>1 DEF DeliveryStep
    <3> QED BY <1>1, <2>1, <3>1, StutterSound, DeliveryTells
  <2>2. CASE ~DeliveryStep(t)
    <3>1. RunnerSound'
      BY <1>1, <1>4, <2>2, RunnerStep
    <3>2. UNCHANGED deliveryVars \/ (TellingStep(t) /\ UNCHANGED outVars)
      BY <1>4, <2>2 DEF RunnerProgress
    <3>3. UNCHANGED outVars /\ queued' \subseteq Tasks
      BY <1>1, <3>2, TellingQueues DEF deliveryVars, DeliveryTypeOK
    <3> QED BY <1>1, <3>1, <3>3, QuietStep
  <2> QED BY <2>1, <2>2
<1> QED BY <1>2, <1>3, <1>4 DEF BackgroundNext

LEMMA SoundAlways == BackgroundSpec => []BackgroundSound
<1> QED BY InitSound, StepSound, PTL DEF BackgroundSpec

-----------------------------------------------------------------------------
\* Every table, map and queue of the runner and of the delivery keeps its type.
THEOREM BackgroundTypes == BackgroundSpec => []BackgroundTypeOK
<1>1. BackgroundSound => BackgroundTypeOK
  BY DEF BackgroundSound, RunnerSound, BackgroundTypeOK
<1> QED BY <1>1, SoundAlways, PTL

\* The cap holds, the queues agree, nobody waits for a free slot, and whoever
\* waits has a pending row.
THEOREM SlotsStayRespected == BackgroundSpec => []SlotsRespected
<1>1. BackgroundSound => SlotsRespected
  <2> SUFFICES ASSUME BackgroundSound PROVE SlotsRespected
    OBVIOUS
  <2>1. SlotsSound(slots) /\ slots.globalQueue \in Seq(Tasks)
    BY SlotParts DEF BackgroundSound, RunnerSound, SlotsSound
  <2>2. Elements(slots.globalQueue) \subseteq Tasks
    BY <2>1 DEF Elements
  <2> QED BY <2>1, <2>2 DEF BackgroundSound, RunnerSound, TaskSound, Queued,
          SlotsSound, SlotsRespected
<1> QED BY <1>1, SoundAlways, PTL

\* Every unfinished row has somebody to move it and every held slot somebody to
\* give it back, whatever was answered, cancelled, overdue, failed or restarted.
THEOREM NobodyIsForgotten == BackgroundSpec => []NobodyForgotten
<1>1. BackgroundSound => NobodyForgotten
  BY DEF BackgroundSound, RunnerSound, TaskSound, Queued, NobodyForgotten, Stranded,
     SlotHasOwner
<1> QED BY <1>1, SoundAlways, PTL

\* An open question belongs to a run that waits for its answer.
THEOREM QuestionsStay == BackgroundSpec => []QuestionsBelong
<1>1. BackgroundSound => QuestionsBelong
  BY DEF BackgroundSound, RunnerSound, TaskSound, QuestionsBelong
<1> QED BY <1>1, SoundAlways, PTL

\* An accepted cancel aborts the run, or the one about to start.
THEOREM CancelsLand == BackgroundSpec => []CancelReachesRun
<1>1. BackgroundSound => CancelReachesRun
  BY DEF BackgroundSound, RunnerSound, RunnerTypeOK, TaskSound, CancelReachesRun
<1> QED BY <1>1, SoundAlways, PTL

\* A result is sent once more only after a send whose handler died before it
\* recorded it, or whose turn failed: however often the end of the run, the tick
\* and the boot put its event, whatever is lost, deferred or channelless.
THEOREM ToldAtMostOnce == BackgroundSpec => []ToldOnce
<1>1. BackgroundSound => ToldOnce
  <2> SUFFICES ASSUME BackgroundSound, NEW t \in Tasks
               PROVE  sends[t] <= 1 + misses[t]
    BY DEF BackgroundSound, DeliveryTypeOK, ToldOnce
  <2>1. ToldSound(t) /\ sends[t] \in Nat /\ misses[t] \in Nat
    BY DEF BackgroundSound, DeliveryTypeOK
  <2> QED BY <2>1 DEF ToldSound
<1> QED BY <1>1, SoundAlways, PTL

\* Whatever is lost, deferred, cut off or tried again, no result is marked or
\* recorded as delivered that was not handed to the messenger.  (Whether it got
\* to the owner the handler does not know.)
THEOREM MarkedOnlyIfSent == BackgroundSpec => []MarkedOnceSent
<1>1. BackgroundSound => MarkedOnceSent
  BY DEF BackgroundSound, ToldSound, MarkedOnceSent
<1> QED BY <1>1, SoundAlways, PTL

\* A release rewrites no row but the promoted one, which is pending.
LEMMA ReleaseKeepsEnds ==
  ASSUME NEW t \in Tasks, NEW rows, NEW legs, ReleaseAndPromote(t, rows, legs),
         NEW u \in Tasks, row[u] \in Terminal, rows[u] = row[u]
  PROVE  row'[u] = row[u]
  BY DEF ReleaseAndPromote, PromotedRows, Terminal

\* A new dispatch resets its own row, and only one that has not ended.
LEMMA RedispatchKeepsEnds ==
  ASSUME NEW t \in Tasks, NEW s, NEW rows \in Rows, NEW legs,
         Redispatch(t, s, rows, legs),
         NEW u \in Tasks, row[u] \in Terminal, rows[u] = row[u]
  PROVE  row'[u] = row[u]
<1>1. CASE rows[t] \in Terminal
  BY <1>1 DEF Redispatch
<1>2. CASE rows[t] \notin Terminal
  <2>1. PICK state \in {"running", "pending"} : row' = [rows EXCEPT ![t] = state]
    BY <1>2 DEF Redispatch
  <2> QED BY <1>2, <2>1 DEF Rows
<1> QED BY <1>1, <1>2

\* Whatever ends a task first, its row keeps that state.
THEOREM FirstEndWins == BackgroundSpec => FirstEndStays
<1> DEFINE EndsKept == \A t \in Tasks : row[t] \in Terminal => row'[t] = row[t]
<1>1. BackgroundSound /\ [BackgroundNext]_backgroundVars => [EndsKept]_backgroundVars
  <2> SUFFICES ASSUME BackgroundSound, BackgroundNext, NEW u \in Tasks,
                      row[u] \in Terminal
               PROVE  row'[u] = row[u]
    OBVIOUS
  <2>1. row \in Rows
    BY DEF BackgroundSound, RunnerSound, RunnerTypeOK, Rows
  <2>2. \A t \in Tasks : \A e : MarkTerminal(t, e)[u] = row[u]
    BY DEF MarkTerminal, Terminal, NonTerminal
  <2>3. CASE Restart
    BY <2>3 DEF Restart
  <2>4. ASSUME NEW t \in Tasks, BootStep(t) PROVE row'[u] = row[u]
    BY <2>1, <2>4, RedispatchKeepsEnds DEF BootStep, BootResume, BootRedispatch
  <2>5. ASSUME NEW t \in Tasks, DeliveryStep(t) PROVE row'[u] = row[u]
    BY <2>5 DEF DeliveryStep, runnerVars
  <2>6. ASSUME NEW t \in Tasks, SilentLegStep(t) PROVE row'[u] = row[u]
    <3>1. CASE FallbackClosed(t) \/ RebuildFails(t)
      <4>1. PICK s, legs : Redispatch(t, s, PromotedRows(t, row), legs)
        BY <3>1 DEF FallbackClosed, RebuildFails, ReleaseAndRedispatch
      <4>2. /\ PromotedRows(t, row) \in Rows
            /\ PromotedRows(t, row)[u] = row[u]
        BY <2>1 DEF PromotedRows, Rows, NonTerminal, Terminal
      <4> QED BY <4>1, <4>2, RedispatchKeepsEnds
    <3>2. CASE LegEnds(t) \/ Rebuilt(t)
      BY <2>1, <2>2, <3>2 DEF LegEnds, Rebuilt, Rows, Terminal
    <3>3. CASE \/ Prepared(t) \/ PrepareThrows(t) \/ SessionOpens(t) \/ LegParks(t)
               \/ ResumeUnavailable(t)
      BY <3>3 DEF Prepared, PrepareThrows, SessionOpens, LegParks, ResumeUnavailable
    <3> QED BY <2>6, <3>1, <3>2, <3>3 DEF SilentLegStep
  <2>7. ASSUME NEW t \in Tasks, ToolStep(t) PROVE row'[u] = row[u]
    BY <2>1, <2>2, <2>7 DEF ToolStep, AskUser, Finish, ExecuteTimeout, Rows, Terminal
  <2>8. ASSUME NEW t \in Tasks, UserStep(t) PROVE row'[u] = row[u]
    <3>1. CASE ClarifyRedispatch(t)
      BY <2>1, <3>1, RedispatchKeepsEnds DEF ClarifyRedispatch
    <3>2. CASE ~ClarifyRedispatch(t)
      BY <2>1, <2>2, <2>8, <3>2
         DEF UserStep, Submit, ClarifyParked, ClarifyRebuild, Answerable,
             CancelQueued, CancelLive, CancelPreparing, CancelParked, Rows, Terminal
    <3> QED BY <3>1, <3>2
  <2>9. ASSUME NEW t \in Tasks, TellingStep(t) PROVE row'[u] = row[u]
    <3>1. CASE PrepareFails(t) \/ LegClosed(t) \/ CloserEnds(t) \/ ExpireUntracked(t)
      BY <2>2, <3>1, ReleaseKeepsEnds
         DEF PrepareFails, LegClosed, CloserEnds, ExpireUntracked
    <3>2. CASE ExpireLive(t)
      BY <2>2, <3>2 DEF ExpireLive
    <3>3. CASE FailSwept(t)
      BY <2>2, <3>3, ReleaseKeepsEnds DEF FailSwept
    <3> QED BY <2>9, <3>1, <3>2, <3>3 DEF TellingStep
  <2>10. ASSUME NEW t \in Tasks, ExpireParked(t) \/ SweepQueued(t)
         PROVE  row'[u] = row[u]
    BY <2>10 DEF ExpireParked, SweepQueued
  <2> QED BY <2>3, <2>4, <2>5, <2>6, <2>7, <2>8, <2>9, <2>10
          DEF BackgroundNext, RunnerProgress
<1> QED BY <1>1, SoundAlways, PTL DEF BackgroundSpec, FirstEndStays
=============================================================================
