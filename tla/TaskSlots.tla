------------------------------ MODULE TaskSlots ------------------------------
(***************************************************************************)
(* services/browser-task/browser-task-slots.ts, the pure slot manager that  *)
(* the browser-task runner and the background-task runner share.  A slot is *)
(* held per site; `siteQueues` and `globalQueue` hold the waiting tasks,    *)
(* each task in both.  The phase of an occupant (running, parked) is read   *)
(* by the queue view alone and is left out.  Every operator below takes the *)
(* slot state and returns what the function of the same name returns.       *)
(***************************************************************************)
EXTENDS Integers, Sequences, FiniteSets

CONSTANTS
  Tasks,
  Sites,
  SiteOf,         \* slotSiteKeyForRow: a task without a site has one of its own
  MaxConcurrent,  \* clampMaxConcurrent: 1..5
  None            \* an absent entry of the `active` Map

ASSUME SlotAssumption ==
  /\ SiteOf \in [Tasks -> Sites]
  /\ MaxConcurrent \in 1..5
  /\ None \notin Tasks
  /\ IsFiniteSet(Sites)

SlotState == [active : [Sites -> Tasks \cup {None}],
              siteQueues : [Sites -> Seq(Tasks)],
              globalQueue : Seq(Tasks)]

createInitialSlotState ==
  [active |-> [k \in Sites |-> None],
   siteQueues |-> [k \in Sites |-> << >>],
   globalQueue |-> << >>]

Occupied(s) == {k \in Sites : s.active[k] # None}
SiteFree(s, k) == s.active[k] = None
GlobalFree(s) == Cardinality(Occupied(s)) < MaxConcurrent

\* findActiveOccupant, slotManagerHasActive: the sites a task occupies.
SitesHeld(s, t) == {k \in Sites : s.active[k] = t}
HasActive(s, t) == SitesHeld(s, t) # {}

Elements(q) == {q[i] : i \in DOMAIN q}
knowsTask(s, t) == HasActive(s, t) \/ t \in Elements(s.globalQueue)

\* q.filter(x => x !== t), for a queue that holds t at most once.
Without(q, t) ==
  IF t \notin Elements(q) THEN q
  ELSE LET i == CHOOSE j \in DOMAIN q : q[j] = t
       IN  [j \in 1..(Len(q) - 1) |-> IF j < i THEN q[j] ELSE q[j + 1]]

Promotes(s, t) == SiteFree(s, SiteOf[t]) /\ GlobalFree(s)

decideAcquire(s, t) ==
  IF Promotes(s, t)
  THEN [active |-> [s.active EXCEPT ![SiteOf[t]] = t],
        siteQueues |-> s.siteQueues,
        globalQueue |-> s.globalQueue]
  ELSE [active |-> s.active,
        siteQueues |-> [s.siteQueues EXCEPT ![SiteOf[t]] = Append(@, t)],
        globalQueue |-> Append(s.globalQueue, t)]

-----------------------------------------------------------------------------
Promotable(s, i) ==
  LET k == SiteOf[s.globalQueue[i]] IN
  /\ SiteFree(s, k)
  /\ s.siteQueues[k] # << >>
  /\ s.siteQueues[k][1] = s.globalQueue[i]

\* The first entry of the global queue that may be promoted.  The function has
\* no cap of its own: its only caller has just emptied a slot.
findPromotionCandidate(s) ==
  LET C == {i \in DOMAIN s.globalQueue : Promotable(s, i)}
  IN  IF C = {} THEN None
      ELSE s.globalQueue[CHOOSE i \in C : \A j \in C : i <= j]

applyPromotion(s, t) ==
  [active |-> [s.active EXCEPT ![SiteOf[t]] = t],
   siteQueues |-> [s.siteQueues EXCEPT ![SiteOf[t]] = Without(@, t)],
   globalQueue |-> Without(s.globalQueue, t)]

Freed(s, t) ==
  [active |-> [k \in Sites |-> IF s.active[k] = t THEN None ELSE s.active[k]],
   siteQueues |-> s.siteQueues,
   globalQueue |-> s.globalQueue]

\* The task a release of t promotes, None when there is none.
Promoted(s, t) ==
  IF HasActive(s, t) THEN findPromotionCandidate(Freed(s, t)) ELSE None

decideRelease(s, t) ==
  IF ~HasActive(s, t) THEN s
  ELSE IF Promoted(s, t) = None THEN Freed(s, t)
  ELSE applyPromotion(Freed(s, t), Promoted(s, t))

\* Mutation: the global queue keeps the cancelled task.
CancelInSiteOnly(s, t) ==
  [active |-> s.active,
   siteQueues |-> [k \in Sites |-> Without(s.siteQueues[k], t)],
   globalQueue |-> s.globalQueue]

\* Its callers have checked that t is not active, where the code would throw.
decideCancel(s, t) ==
  [active |-> s.active,
   siteQueues |-> [k \in Sites |-> Without(s.siteQueues[k], t)],
   globalQueue |-> Without(s.globalQueue, t)]

-----------------------------------------------------------------------------
Distinct(q) == \A i, j \in DOMAIN q : q[i] = q[j] => i = j
Precedes(q, x, y) == \E i, j \in DOMAIN q : i < j /\ q[i] = x /\ q[j] = y

\* Never more than maxConcurrent sites are occupied, by tasks of theirs, and a
\* task is tracked in one place.
CapRespected(s) ==
  /\ Cardinality(Occupied(s)) <= MaxConcurrent
  /\ \A k \in Occupied(s) : SiteOf[s.active[k]] = k
  /\ \A k \in Occupied(s) : s.active[k] \notin Elements(s.globalQueue)
  /\ Distinct(s.globalQueue)

\* The queue of a site is the global queue restricted to the site, in its order.
QueuesAgree(s) ==
  \A k \in Sites :
    LET q == s.siteQueues[k] IN
    /\ Elements(q) = {t \in Elements(s.globalQueue) : SiteOf[t] = k}
    /\ \A t, u \in Elements(q) :
         Precedes(q, t, u) => Precedes(s.globalQueue, t, u)

\* A task waits only for its site or for the cap.
WorkConserving(s) ==
  \A t \in Elements(s.globalQueue) :
    ~SiteFree(s, SiteOf[t]) \/ ~GlobalFree(s)
=============================================================================
