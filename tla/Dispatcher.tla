----------------------------- MODULE Dispatcher -----------------------------
(***************************************************************************)
(* core/dispatcher.ts: what happens to an event between EventBus.get() and  *)
(* the end of its session.  handleEventInner takes a permit of one of two   *)
(* semaphores (core/semaphore.ts), reactive work apart from autonomous      *)
(* work; dispatch then enters the session gates of the conversations the    *)
(* event speaks in, which both classes share.  A task of SessionGate is one *)
(* event here; an event that speaks in no conversation wants no key.        *)
(***************************************************************************)
EXTENDS SessionGate

CONSTANTS
  Reactive,  \* events isReactive() says TRUE of; the others are autonomous
  Permits    \* maxReactiveSessions and maxConcurrentSessions

Class == {"reactive", "autonomous"}

ASSUME DispatcherAssumption ==
  /\ Reactive \subseteq Task
  /\ IsFiniteSet(Task)
  /\ Permits \in [Class -> Nat \ {0}]

VARIABLES
  free,   \* permits of each semaphore nobody holds
  queue,  \* events waiting in each semaphore, oldest first
  phase   \* where each event stands in handleEventInner

dispatchVars == <<free, queue, phase>>
vars == <<gateVars, dispatchVars>>

\* "new": not taken from the bus; "acquiring": in the queue of its semaphore;
\* "holding": between acquire() and release(); "left": released.
Phase == {"new", "acquiring", "holding", "left"}

DispatcherTypeOK ==
  /\ GateTypeOK
  /\ free \in [Class -> Nat]
  /\ queue \in [Class -> Seq(Task)]
  /\ phase \in [Task -> Phase]

Init ==
  /\ GateInit
  /\ free = Permits
  /\ queue = [c \in Class |-> << >>]
  /\ phase = [t \in Task |-> "new"]

-----------------------------------------------------------------------------
ClassOf(t) == IF t \in Reactive THEN "reactive" ELSE "autonomous"

\* Semaphore.acquire
Acquire(t) ==
  LET c == ClassOf(t) IN
    IF free[c] > 0
    THEN /\ free' = [free EXCEPT ![c] = @ - 1]
         /\ phase' = [phase EXCEPT ![t] = "holding"]
         /\ UNCHANGED queue
    ELSE /\ queue' = [queue EXCEPT ![c] = Append(@, t)]
         /\ phase' = [phase EXCEPT ![t] = "acquiring"]
         /\ UNCHANGED free

\* Mutation: the permit is counted and handed over.
ReleasePermitTwice(t) ==
  LET c == ClassOf(t)
      n == IF queue[c] = << >> THEN {} ELSE {Head(queue[c])}
  IN /\ free' = [free EXCEPT ![c] = @ + 1]
     /\ queue' = [queue EXCEPT ![c] = IF @ = << >> THEN @ ELSE Tail(@)]
     /\ phase' = [u \in Task |-> IF u = t THEN "left"
                                 ELSE IF u \in n THEN "holding" ELSE phase[u]]

\* Mutation: the permit is counted, the queue is not served.
ReleasePermitOnly(t) ==
  LET c == ClassOf(t) IN
    /\ free' = [free EXCEPT ![c] = @ + 1]
    /\ phase' = [phase EXCEPT ![t] = "left"]
    /\ UNCHANGED queue

\* Semaphore.release: the permit goes to the oldest waiter, if there is one.
ReleasePermit(t) ==
  LET c == ClassOf(t) IN
    IF queue[c] # << >>
    THEN /\ queue' = [queue EXCEPT ![c] = Tail(@)]
         /\ phase' = [phase EXCEPT ![t] = "left", ![Head(queue[c])] = "holding"]
         /\ UNCHANGED free
    ELSE /\ free' = [free EXCEPT ![c] = @ + 1]
         /\ phase' = [phase EXCEPT ![t] = "left"]
         /\ UNCHANGED queue

\* The run loop (or processInline) starts handleEventInner and does not wait.
Handle(t) ==
  /\ phase[t] = "new"
  /\ Acquire(t)
  /\ UNCHANGED gateVars

\* dispatchSafe of an autonomous event: the setup gate, the cost cap or the
\* spawn gate says no, before dispatch is called.
Skip(t) ==
  /\ phase[t] = "holding" /\ stage[t] = "idle"
  /\ t \notin Reactive
  /\ ReleasePermit(t)
  /\ UNCHANGED gateVars

\* Mutation: the conversation is entered before the permit.
EnterGatesEarly(t) ==
  /\ Call(t)
  /\ UNCHANGED dispatchVars

\* dispatch, for an event that speaks in a conversation.
EnterGates(t) ==
  /\ phase[t] = "holding"
  /\ Call(t)
  /\ UNCHANGED dispatchVars

InGates(t) == GateStep(t) /\ UNCHANGED dispatchVars

\* handleEventInner's finally: dispatch returned or threw, out of all gates;
\* an event without a conversation ran its session without entering one.
Finish(t) ==
  /\ phase[t] = "holding"
  /\ stage[t] = "done" \/ (stage[t] = "idle" /\ Wanted[t] = {})
  /\ ReleasePermit(t)
  /\ UNCHANGED gateVars

Progress(t) == Skip(t) \/ EnterGates(t) \/ InGates(t) \/ Finish(t)

Next == \E t \in Task : Handle(t) \/ Progress(t)

Spec == Init /\ [][Next]_vars

\* Every continuation that is ready runs, and every session ends: it has an
\* execution timeout.
Fairness == \A t \in Task : WF_vars(Progress(t))

FairSpec == Spec /\ Fairness

-----------------------------------------------------------------------------
Holders(c) == {t \in Task : ClassOf(t) = c /\ phase[t] = "holding"}

\* Permits are neither lost nor made up across hand-overs, skips and throws,
\* and no permit lies idle while an event of its class waits.
PermitsConserved ==
  \A c \in Class :
    /\ free[c] + Cardinality(Holders(c)) = Permits[c]
    /\ free[c] > 0 => queue[c] = << >>

\* The lock order: whoever is in a conversation's chain holds its permit until
\* it has left every chain.  An event waiting for a permit therefore never
\* stands in the way of one that waits for a conversation.
PermitBeforeGates ==
  \A t \in Task : stage[t] \notin {"idle", "done"} => phase[t] = "holding"

\* The guards of Finish, EnterGates and InGates, the steps every holder takes
\* (Skip is a choice of autonomous events only).
CanProgress(t) ==
  /\ phase[t] = "holding"
  /\ \/ stage[t] = "idle" /\ (Wanted[t] = {} \/ \E k \in Key : NextKey(t, k))
     \/ stage[t] = "done"
     \/ CanGoOn(t)

\* No deadlock over the two semaphores and the conversations they share: while
\* any event waits for a permit or holds one, some holder can take the next step
\* of its handler, although briefings and replies hold the ones while they wait
\* for the others.
NothingStuck ==
  (\E t \in Task : phase[t] \in {"acquiring", "holding"})
    => \E t \in Task : CanProgress(t)

\* Every event that was taken from the bus is finished with: briefings that
\* hold an autonomous permit while they wait for a conversation, replies that
\* hold a reactive one, and the events behind both never block each other
\* for good.
EveryEventEnds == \A t \in Task : phase[t] # "new" ~> phase[t] = "left"
=============================================================================
