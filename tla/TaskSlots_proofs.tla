-------------------------- MODULE TaskSlots_proofs --------------------------
(***************************************************************************)
(* The functions of the slot manager keep the cap, the agreement of the two *)
(* families of queues, and never leave a slot idle that a task waits for.   *)
(***************************************************************************)
EXTENDS TaskSlots, FiniteSetTheorems, WellFoundedInduction, TLAPS

SlotsSound(s) ==
  /\ s \in SlotState
  /\ CapRespected(s)
  /\ QueuesAgree(s)
  /\ WorkConserving(s)

\* The fields of a slot state.
LEMMA SlotParts ==
  ASSUME NEW s \in SlotState
  PROVE  /\ s.active \in [Sites -> Tasks \cup {None}]
         /\ s.siteQueues \in [Sites -> Seq(Tasks)]
         /\ s.globalQueue \in Seq(Tasks)
         /\ s = [active |-> s.active, siteQueues |-> s.siteQueues,
                 globalQueue |-> s.globalQueue]
  BY DEF SlotState

\* The empty manager is sound.
LEMMA InitialSound == SlotsSound(createInitialSlotState)
<1> DEFINE s == createInitialSlotState
<1>1. s \in SlotState
  BY DEF SlotState, createInitialSlotState
<1>2. Occupied(s) = {} /\ Elements(s.globalQueue) = {}
  BY DEF Occupied, Elements, createInitialSlotState
<1>3. \A k \in Sites : s.siteQueues[k] = << >>
  BY DEF createInitialSlotState
<1>4. CapRespected(s)
  <2>1. Cardinality(Occupied(s)) = 0
    BY <1>2, FS_EmptySet
  <2>2. Distinct(s.globalQueue)
    BY DEF Distinct, createInitialSlotState
  <2> QED BY <2>1, <2>2, <1>2, SlotAssumption DEF CapRespected
<1>5. QueuesAgree(s)
  BY <1>2, <1>3 DEF QueuesAgree, Elements
<1>6. WorkConserving(s)
  BY <1>2 DEF WorkConserving
<1> QED BY <1>1, <1>4, <1>5, <1>6 DEF SlotsSound

-----------------------------------------------------------------------------
\* Filtering a queue drops one element and keeps the order of the others.
LEMMA WithoutIs ==
  ASSUME NEW q \in Seq(Tasks), Distinct(q), NEW t
  PROVE  /\ Without(q, t) \in Seq(Tasks)
         /\ Elements(Without(q, t)) = Elements(q) \ {t}
         /\ Distinct(Without(q, t))
         /\ \A x, y : x # t /\ y # t =>
              (Precedes(q, x, y) <=> Precedes(Without(q, t), x, y))
<1> DEFINE w == Without(q, t)
<1>1. CASE t \notin Elements(q)
  <2>1. w = q BY <1>1 DEF Without
  <2> QED BY <2>1, <1>1 DEF Elements
<1>2. CASE t \in Elements(q)
  <2> DEFINE i == CHOOSE j \in DOMAIN q : q[j] = t
             n == Len(q)
  <2>1. DOMAIN q = 1..n /\ n \in Nat
    OBVIOUS
  <2>2. i \in 1..n /\ q[i] = t
    BY <1>2, <2>1 DEF Elements
  <2>3. w = [j \in 1..(n - 1) |-> IF j < i THEN q[j] ELSE q[j + 1]]
    BY <1>2 DEF Without
  <2> HIDE DEF i, n, w
  <2>4. n - 1 \in Nat
    BY <2>1, <2>2
  <2>5. \A j \in 1..(n - 1) : w[j] = (IF j < i THEN q[j] ELSE q[j + 1])
    BY <2>3
  <2>6. \A j \in 1..n : q[j] \in Tasks
    BY <2>1
  <2>7. w \in Seq(Tasks) /\ DOMAIN w = 1..(n - 1)
    <3>1. \A j \in 1..(n - 1) : w[j] \in Tasks
      BY <2>5, <2>6, <2>2, <2>1
    <3>2. w \in [1..(n - 1) -> Tasks]
      BY <3>1, <2>3
    <3> QED BY <3>2, <2>4
  <2>8. \A j \in 1..n : j # i =>
          \E m \in 1..(n - 1) : w[m] = q[j] /\ m = (IF j < i THEN j ELSE j - 1)
    <3> TAKE j \in 1..n
    <3> HAVE j # i
    <3>1. CASE j < i
      BY <3>1, <2>1, <2>2, <2>5
    <3>2. CASE ~(j < i)
      <4>1. j - 1 \in 1..(n - 1) /\ ~(j - 1 < i) /\ (j - 1) + 1 = j
        BY <3>2, <2>1, <2>2
      <4> QED BY <4>1, <3>2, <2>5
    <3> QED BY <3>1, <3>2
  <2>9. \A m \in 1..(n - 1) :
          \E j \in 1..n : w[m] = q[j] /\ j # i /\ j = (IF m < i THEN m ELSE m + 1)
    <3> TAKE m \in 1..(n - 1)
    <3>1. CASE m < i
      BY <3>1, <2>1, <2>2, <2>5
    <3>2. CASE ~(m < i)
      <4>1. m + 1 \in 1..n /\ m + 1 # i
        BY <3>2, <2>1, <2>2
      <4> QED BY <4>1, <3>2, <2>5
    <3> QED BY <3>1, <3>2
  <2>10. \A j \in 1..n : q[j] = t => j = i
    BY <2>1, <2>2 DEF Distinct
  <2>11. Elements(w) = Elements(q) \ {t}
    <3>1. \A x : x \in Elements(w) => x \in Elements(q) \ {t}
      BY <2>7, <2>9, <2>10, <2>1 DEF Elements
    <3>2. \A x : x \in Elements(q) \ {t} => x \in Elements(w)
      BY <2>7, <2>8, <2>2, <2>1 DEF Elements
    <3> QED BY <3>1, <3>2
  <2>12. Distinct(w)
    <3> SUFFICES ASSUME NEW a \in 1..(n - 1), NEW b \in 1..(n - 1), w[a] = w[b]
                 PROVE  a = b
      BY <2>7 DEF Distinct
    <3>1. PICK c \in 1..n : w[a] = q[c] /\ c = (IF a < i THEN a ELSE a + 1)
      BY <2>9
    <3>2. PICK d \in 1..n : w[b] = q[d] /\ d = (IF b < i THEN b ELSE b + 1)
      BY <2>9
    <3>3. c = d
      BY <3>1, <3>2, <2>1 DEF Distinct
    <3> QED BY <3>1, <3>2, <3>3, <2>2
  <2>13. ASSUME NEW x, NEW y, x # t, y # t
         PROVE  Precedes(q, x, y) <=> Precedes(w, x, y)
    <3>1. ASSUME Precedes(q, x, y) PROVE Precedes(w, x, y)
      <4>1. PICK c \in 1..n, d \in 1..n : c < d /\ q[c] = x /\ q[d] = y
        BY <3>1, <2>1 DEF Precedes
      <4>2. c # i /\ d # i
        BY <4>1, <2>2, <2>13
      <4>3. PICK a \in 1..(n - 1) : w[a] = q[c] /\ a = (IF c < i THEN c ELSE c - 1)
        BY <4>2, <2>8
      <4>4. PICK b \in 1..(n - 1) : w[b] = q[d] /\ b = (IF d < i THEN d ELSE d - 1)
        BY <4>2, <2>8
      <4>5. a < b
        BY <4>1, <4>2, <4>3, <4>4, <2>2
      <4> QED BY <4>1, <4>3, <4>4, <4>5, <2>7 DEF Precedes
    <3>2. ASSUME Precedes(w, x, y) PROVE Precedes(q, x, y)
      <4>1. PICK a \in 1..(n - 1), b \in 1..(n - 1) : a < b /\ w[a] = x /\ w[b] = y
        BY <3>2, <2>7 DEF Precedes
      <4>2. PICK c \in 1..n : w[a] = q[c] /\ c = (IF a < i THEN a ELSE a + 1)
        BY <2>9
      <4>3. PICK d \in 1..n : w[b] = q[d] /\ d = (IF b < i THEN b ELSE b + 1)
        BY <2>9
      <4>4. c < d
        BY <4>1, <4>2, <4>3, <2>2
      <4> QED BY <4>1, <4>2, <4>3, <4>4, <2>1 DEF Precedes
    <3> QED BY <3>1, <3>2
  <2> QED BY <2>7, <2>11, <2>12, <2>13 DEF w
<1> QED BY <1>1, <1>2
LEMMA PrecedesElements ==
  ASSUME NEW q \in Seq(Tasks), NEW x, NEW y, Precedes(q, x, y)
  PROVE  x \in Elements(q) /\ y \in Elements(q)
  BY DEF Precedes, Elements

LEMMA ElementsTasks ==
  ASSUME NEW q \in Seq(Tasks)
  PROVE  Elements(q) \subseteq Tasks
  BY DEF Elements

\* Joining a queue at its tail.
LEMMA AppendIs ==
  ASSUME NEW q \in Seq(Tasks), NEW t \in Tasks
  PROVE  /\ Elements(Append(q, t)) = Elements(q) \cup {t}
         /\ Distinct(q) /\ t \notin Elements(q) => Distinct(Append(q, t))
         /\ \A x, y : Precedes(q, x, y) => Precedes(Append(q, t), x, y)
         /\ \A x \in Elements(q) : Precedes(Append(q, t), x, t)
         /\ \A x, y : Precedes(Append(q, t), x, y) =>
              Precedes(q, x, y) \/ (x \in Elements(q) /\ y = t)
<1> DEFINE n == Len(q)
           w == Append(q, t)
<1>1. n \in Nat /\ DOMAIN q = 1..n /\ DOMAIN w = 1..(n + 1)
  OBVIOUS
<1>2. w[n + 1] = t /\ \A i \in 1..n : w[i] = q[i]
  OBVIOUS
<1> HIDE DEF n, w
<1>3. \A i \in 1..(n + 1) : i \in 1..n \/ i = n + 1
  BY <1>1
<1>4. 1..n \subseteq 1..(n + 1) /\ n + 1 \in 1..(n + 1)
  BY <1>1
<1>5. Elements(w) = Elements(q) \cup {t}
  BY <1>1, <1>2, <1>3, <1>4 DEF Elements
<1>6. Distinct(q) /\ t \notin Elements(q) => Distinct(w)
  BY <1>1, <1>2, <1>3 DEF Distinct, Elements
<1>7. \A x, y : Precedes(q, x, y) => Precedes(w, x, y)
  BY <1>1, <1>2, <1>4 DEF Precedes
<1>8. \A x \in Elements(q) : Precedes(w, x, t)
  <2> TAKE x \in Elements(q)
  <2>1. PICK i \in 1..n : q[i] = x
    BY <1>1 DEF Elements
  <2>2. i < n + 1 /\ w[i] = x
    BY <2>1, <1>1, <1>2
  <2> QED BY <2>1, <2>2, <1>1, <1>2, <1>4 DEF Precedes
<1>9. ASSUME NEW x, NEW y, Precedes(w, x, y)
      PROVE  Precedes(q, x, y) \/ (x \in Elements(q) /\ y = t)
  <2>1. PICK i \in 1..(n + 1), j \in 1..(n + 1) : i < j /\ w[i] = x /\ w[j] = y
    BY <1>9, <1>1 DEF Precedes
  <2>2. i \in 1..n
    BY <2>1, <1>1
  <2>3. CASE j \in 1..n
    BY <2>1, <2>2, <2>3, <1>1, <1>2 DEF Precedes
  <2>4. CASE j = n + 1
    BY <2>1, <2>2, <2>4, <1>1, <1>2 DEF Elements
  <2> QED BY <2>3, <2>4, <1>3
<1> QED BY <1>5, <1>6, <1>7, <1>8, <1>9 DEF w

\* A site queue holds a task once, since the global queue does.
LEMMA SiteQueueDistinct ==
  ASSUME NEW s \in SlotState, QueuesAgree(s), Distinct(s.globalQueue),
         NEW k \in Sites
  PROVE  Distinct(s.siteQueues[k])
<1> DEFINE q == s.siteQueues[k]
           g == s.globalQueue
<1>1. q \in Seq(Tasks) /\ g \in Seq(Tasks)
  BY SlotParts
<1>2. \A t, u \in Elements(q) : Precedes(q, t, u) => Precedes(g, t, u)
  BY DEF QueuesAgree
<1>3. Distinct(g)
  OBVIOUS
<1> HIDE DEF q, g
<1>4. ASSUME NEW i \in DOMAIN q, NEW j \in DOMAIN q, q[i] = q[j], i < j
      PROVE  FALSE
  <2>1. Precedes(q, q[i], q[i])
    BY <1>4 DEF Precedes
  <2>2. Precedes(g, q[i], q[i])
    BY <2>1, <1>1, <1>2, PrecedesElements
  <2>3. PICK m \in DOMAIN g, n \in DOMAIN g : m < n /\ g[m] = q[i] /\ g[n] = q[i]
    BY <2>2 DEF Precedes
  <2>4. m = n
    BY <2>3, <1>3 DEF Distinct
  <2>5. m \in Nat /\ n \in Nat
    BY <1>1
  <2> QED BY <2>3, <2>4, <2>5
<1>5. \A i \in DOMAIN q : i \in Nat
  BY <1>1
<1>6. Distinct(q)
  <2> SUFFICES ASSUME NEW i \in DOMAIN q, NEW j \in DOMAIN q, q[i] = q[j], i # j
               PROVE  FALSE
    BY DEF Distinct
  <2>1. i < j \/ j < i
    BY <1>5
  <2> QED BY <2>1, <1>4
<1> QED BY <1>6 DEF q

\* Both families of queues drop the same task: they still agree.
LEMMA QueuesDrop ==
  ASSUME NEW s \in SlotState, QueuesAgree(s), Distinct(s.globalQueue),
         NEW r, NEW t,
         r.globalQueue = Without(s.globalQueue, t),
         \A k \in Sites : r.siteQueues[k] = Without(s.siteQueues[k], t)
  PROVE  /\ QueuesAgree(r)
         /\ Distinct(r.globalQueue)
         /\ r.globalQueue \in Seq(Tasks)
         /\ Elements(r.globalQueue) = Elements(s.globalQueue) \ {t}
         /\ \A k \in Sites : r.siteQueues[k] \in Seq(Tasks)
<1> DEFINE g == s.globalQueue
<1>1. g \in Seq(Tasks) /\ \A k \in Sites : s.siteQueues[k] \in Seq(Tasks)
  BY SlotParts
<1>2. /\ Without(g, t) \in Seq(Tasks)
      /\ Elements(Without(g, t)) = Elements(g) \ {t}
      /\ Distinct(Without(g, t))
      /\ \A x, y : x # t /\ y # t =>
           (Precedes(g, x, y) <=> Precedes(Without(g, t), x, y))
  BY <1>1, WithoutIs
<1>3. ASSUME NEW k \in Sites
      PROVE  /\ r.siteQueues[k] \in Seq(Tasks)
             /\ Elements(r.siteQueues[k]) =
                  {u \in Elements(r.globalQueue) : SiteOf[u] = k}
             /\ \A x, y \in Elements(r.siteQueues[k]) :
                  Precedes(r.siteQueues[k], x, y)
                    => Precedes(r.globalQueue, x, y)
  <2> DEFINE q == s.siteQueues[k]
  <2>1. q \in Seq(Tasks) /\ Distinct(q)
    BY <1>1, SiteQueueDistinct
  <2>2. /\ Elements(q) = {u \in Elements(g) : SiteOf[u] = k}
        /\ \A x, y \in Elements(q) : Precedes(q, x, y) => Precedes(g, x, y)
    BY DEF QueuesAgree
  <2>3. r.siteQueues[k] = Without(q, t) /\ r.globalQueue = Without(g, t)
    OBVIOUS
  <2>4. /\ Without(q, t) \in Seq(Tasks)
        /\ Elements(Without(q, t)) = Elements(q) \ {t}
        /\ \A x, y : x # t /\ y # t =>
             (Precedes(q, x, y) <=> Precedes(Without(q, t), x, y))
    BY <2>1, WithoutIs
  <2> HIDE DEF q, g
  <2> QED BY <1>2, <2>2, <2>3, <2>4
<1>4. QueuesAgree(r)
  BY <1>3 DEF QueuesAgree
<1> QED BY <1>2, <1>3, <1>4

\* Occupied sites are finitely many.
LEMMA OccupiedFinite ==
  ASSUME NEW s
  PROVE  IsFiniteSet(Occupied(s)) /\ Cardinality(Occupied(s)) \in Nat
<1>1. Occupied(s) \subseteq Sites BY DEF Occupied
<1> QED BY <1>1, SlotAssumption, FS_Subset, FS_CardinalityType

\* A cancel in the queue keeps the manager sound.
LEMMA CancelSound ==
  ASSUME NEW s, SlotsSound(s), NEW t \in Tasks
  PROVE  /\ SlotsSound(decideCancel(s, t))
         /\ Elements(decideCancel(s, t).globalQueue) = Elements(s.globalQueue) \ {t}
         /\ decideCancel(s, t).active = s.active
<1> DEFINE r == decideCancel(s, t)
<1>0. s \in SlotState /\ CapRespected(s) /\ QueuesAgree(s) /\ WorkConserving(s)
  BY DEF SlotsSound
<1>1. /\ r = [active |-> s.active,
              siteQueues |-> [k \in Sites |-> Without(s.siteQueues[k], t)],
              globalQueue |-> Without(s.globalQueue, t)]
  BY DEF decideCancel
<1>2. /\ r.active = s.active
      /\ r.globalQueue = Without(s.globalQueue, t)
      /\ r.siteQueues = [k \in Sites |-> Without(s.siteQueues[k], t)]
  BY <1>1
<1>3. Distinct(s.globalQueue)
  BY <1>0 DEF CapRespected
<1> HIDE DEF r
<1>4. /\ QueuesAgree(r)
      /\ Distinct(r.globalQueue)
      /\ r.globalQueue \in Seq(Tasks)
      /\ Elements(r.globalQueue) = Elements(s.globalQueue) \ {t}
      /\ \A k \in Sites : r.siteQueues[k] \in Seq(Tasks)
  <2>1. \A k \in Sites : r.siteQueues[k] = Without(s.siteQueues[k], t)
    BY <1>2
  <2> QED BY <1>0, <1>2, <1>3, <2>1, QueuesDrop
<1>5. r \in SlotState
  <2>1. r.siteQueues \in [Sites -> Seq(Tasks)]
    BY <1>2, <1>4
  <2>2. s.active \in [Sites -> Tasks \cup {None}]
    BY <1>0, SlotParts
  <2>3. r = [active |-> s.active, siteQueues |-> r.siteQueues,
             globalQueue |-> r.globalQueue]
    BY <1>1 DEF r
  <2> QED BY <2>1, <2>2, <2>3, <1>4 DEF SlotState
<1>6. Occupied(r) = Occupied(s)
  BY <1>2 DEF Occupied
<1>7. CapRespected(r)
  BY <1>0, <1>2, <1>4, <1>6 DEF CapRespected
<1>8. WorkConserving(r)
  BY <1>0, <1>2, <1>4, <1>6 DEF WorkConserving, SiteFree, GlobalFree
<1> QED BY <1>2, <1>4, <1>5, <1>7, <1>8 DEF SlotsSound, r

\* One site more, one site less.
LEMMA OccupiedCount ==
  ASSUME NEW s \in SlotState, NEW r \in SlotState, NEW k \in Sites
  PROVE  /\ Occupied(r) = Occupied(s) \cup {k} /\ k \notin Occupied(s)
              => Cardinality(Occupied(r)) = Cardinality(Occupied(s)) + 1
         /\ Occupied(r) = Occupied(s) \ {k} /\ k \in Occupied(s)
              => Cardinality(Occupied(r)) = Cardinality(Occupied(s)) - 1
  BY OccupiedFinite, FS_AddElement, FS_RemoveElement

\* An acquire keeps the manager sound.
LEMMA AcquireSound ==
  ASSUME NEW s, SlotsSound(s), NEW t \in Tasks, ~knowsTask(s, t)
  PROVE  SlotsSound(decideAcquire(s, t))
<1> DEFINE r == decideAcquire(s, t)
           k == SiteOf[t]
<1>0. s \in SlotState /\ CapRespected(s) /\ QueuesAgree(s) /\ WorkConserving(s)
  BY DEF SlotsSound
<1>1. /\ s.active \in [Sites -> Tasks \cup {None}]
      /\ s.siteQueues \in [Sites -> Seq(Tasks)]
      /\ s.globalQueue \in Seq(Tasks)
  BY <1>0, SlotParts
<1>2. k \in Sites /\ t # None /\ MaxConcurrent \in Nat
  BY SlotAssumption
<1>3. t \notin Elements(s.globalQueue) /\ \A j \in Sites : s.active[j] # t
  BY DEF knowsTask, HasActive, SitesHeld
<1>4. CASE Promotes(s, t)
  <2>1. /\ r = [active |-> [s.active EXCEPT ![k] = t],
                siteQueues |-> s.siteQueues, globalQueue |-> s.globalQueue]
    BY <1>4 DEF decideAcquire
  <2>2. /\ r.active = [s.active EXCEPT ![k] = t]
        /\ r.siteQueues = s.siteQueues /\ r.globalQueue = s.globalQueue
    BY <2>1
  <2>3. r \in SlotState
    BY <2>1, <1>1, <1>2 DEF SlotState
  <2>4. s.active[k] = None /\ Cardinality(Occupied(s)) < MaxConcurrent
    BY <1>4 DEF Promotes, SiteFree, GlobalFree
  <2> HIDE DEF r, k
  <2>5. Occupied(r) = Occupied(s) \cup {k} /\ k \notin Occupied(s)
    BY <2>2, <2>4, <1>1, <1>2 DEF Occupied
  <2>6. Cardinality(Occupied(r)) = Cardinality(Occupied(s)) + 1
    BY <2>5, <2>3, <1>0, <1>2, OccupiedCount
  <2>7. Cardinality(Occupied(r)) <= MaxConcurrent
    BY <2>4, <2>6, <1>2, OccupiedFinite
  <2>8. CapRespected(r)
    BY <2>7, <2>5, <2>2, <1>0, <1>1, <1>2, <1>3 DEF CapRespected, Occupied, k
  <2>9. QueuesAgree(r)
    BY <2>2, <1>0 DEF QueuesAgree
  <2>10. WorkConserving(r)
    <3> SUFFICES ASSUME NEW u \in Elements(s.globalQueue)
                 PROVE  ~SiteFree(r, SiteOf[u])
      BY <2>2 DEF WorkConserving
    <3>1. ~SiteFree(s, SiteOf[u])
      BY <1>0, <2>4 DEF WorkConserving, GlobalFree
    <3>2. SiteOf[u] \in Sites
      BY <1>1, ElementsTasks, SlotAssumption
    <3> QED BY <3>1, <3>2, <2>2, <1>1, <1>2 DEF SiteFree
  <2> QED BY <2>3, <2>8, <2>9, <2>10 DEF SlotsSound, r
<1>5. CASE ~Promotes(s, t)
  <2> DEFINE g == s.globalQueue
             q == s.siteQueues[k]
  <2>1. /\ r = [active |-> s.active,
                siteQueues |-> [s.siteQueues EXCEPT ![k] = Append(q, t)],
                globalQueue |-> Append(g, t)]
    BY <1>5 DEF decideAcquire
  <2>2. /\ r.active = s.active /\ r.globalQueue = Append(g, t)
        /\ r.siteQueues = [s.siteQueues EXCEPT ![k] = Append(q, t)]
    BY <2>1
  <2>3. r \in SlotState
    <3>1. g \in Seq(Tasks) /\ q \in Seq(Tasks)
      BY <1>1, <1>2
    <3>2. Append(g, t) \in Seq(Tasks) /\ Append(q, t) \in Seq(Tasks)
      BY <3>1
    <3> HIDE DEF g, q
    <3> QED BY <2>1, <3>2, <1>1, <1>2 DEF SlotState
  <2>4. Occupied(r) = Occupied(s)
    BY <2>2 DEF Occupied
  <2>5. \A z \in Seq(Tasks) : Elements(Append(z, t)) = Elements(z) \cup {t}
    BY AppendIs
  <2>6. Elements(r.globalQueue) = Elements(g) \cup {t}
    BY <2>2, <2>5, <1>1
  <2>7. Distinct(r.globalQueue)
    <3>1. g \in Seq(Tasks) /\ Distinct(g) /\ t \notin Elements(g)
      BY <1>0, <1>1, <1>3 DEF CapRespected
    <3> QED BY <3>1, <2>2, AppendIs
  <2>8. CapRespected(r)
    BY <2>2, <2>4, <2>6, <2>7, <1>0, <1>3 DEF CapRespected, Occupied
  <2>9. QueuesAgree(r)
    <3> SUFFICES ASSUME NEW j \in Sites
                 PROVE  LET p == r.siteQueues[j] IN
                        /\ Elements(p) =
                             {u \in Elements(r.globalQueue) : SiteOf[u] = j}
                        /\ \A x, y \in Elements(p) :
                             Precedes(p, x, y) => Precedes(r.globalQueue, x, y)
      BY DEF QueuesAgree
    <3>1. /\ Elements(s.siteQueues[j]) = {u \in Elements(g) : SiteOf[u] = j}
          /\ \A x, y \in Elements(s.siteQueues[j]) :
               Precedes(s.siteQueues[j], x, y) => Precedes(g, x, y)
      BY <1>0 DEF QueuesAgree
    <3>2. g \in Seq(Tasks) /\ s.siteQueues[j] \in Seq(Tasks)
      BY <1>1
    <3>3. \A x, y : Precedes(g, x, y) => Precedes(Append(g, t), x, y)
      BY <3>2, AppendIs
    <3>4. \A x \in Elements(g) : Precedes(Append(g, t), x, t)
      BY <3>2, AppendIs
    <3>5. CASE j = k
      <4>1. r.siteQueues[j] = Append(s.siteQueues[j], t)
        BY <2>2, <1>1, <1>2, <3>5
      <4>2. t \notin Elements(s.siteQueues[j])
        BY <3>1, <1>3
      <4>3. \A x, y : Precedes(Append(s.siteQueues[j], t), x, y) =>
               \/ Precedes(s.siteQueues[j], x, y)
               \/ x \in Elements(s.siteQueues[j]) /\ y = t
        BY <3>2, AppendIs
      <4>4. \A x, y : Precedes(s.siteQueues[j], x, y) =>
               x \in Elements(s.siteQueues[j]) /\ y \in Elements(s.siteQueues[j])
        BY <3>2, PrecedesElements
      <4> HIDE DEF g, r
      <4>5. Elements(r.siteQueues[j])
              = {u \in Elements(r.globalQueue) : SiteOf[u] = j}
        BY <4>1, <2>5, <2>6, <3>1, <3>2, <3>5
      <4>6. \A x, y \in Elements(r.siteQueues[j]) :
              Precedes(r.siteQueues[j], x, y) => Precedes(r.globalQueue, x, y)
        BY <4>1, <4>3, <4>4, <3>1, <3>3, <3>4, <2>2
      <4> QED BY <4>5, <4>6
    <3>6. CASE j # k
      <4>1. r.siteQueues[j] = s.siteQueues[j]
        BY <2>2, <1>1, <1>2, <3>6
      <4> HIDE DEF g, r
      <4> QED BY <4>1, <3>1, <3>3, <3>6, <2>2, <2>6
    <3> QED BY <3>5, <3>6
  <2>10. WorkConserving(r)
    <3>1. ~SiteFree(r, k) \/ ~GlobalFree(r)
      BY <1>5, <2>2, <2>4 DEF Promotes, SiteFree, GlobalFree
    <3>2. \A u \in Elements(g) : ~SiteFree(r, SiteOf[u]) \/ ~GlobalFree(r)
      BY <1>0, <2>2, <2>4 DEF WorkConserving, SiteFree, GlobalFree
    <3> HIDE DEF r, g
    <3> QED BY <3>1, <3>2, <2>6 DEF WorkConserving
  <2> QED BY <2>3, <2>8, <2>9, <2>10 DEF SlotsSound
<1> QED BY <1>4, <1>5

\* What an acquire does to the tasks: a slot for t, or a place in the queues.
LEMMA AcquireEffects ==
  ASSUME NEW s, SlotsSound(s), NEW t \in Tasks
  PROVE  LET r == decideAcquire(s, t) IN
         /\ Elements(r.globalQueue) =
              Elements(s.globalQueue) \cup (IF Promotes(s, t) THEN {} ELSE {t})
         /\ \A u \in Tasks :
              HasActive(r, u) <=> HasActive(s, u) \/ (Promotes(s, t) /\ u = t)
<1> DEFINE r == decideAcquire(s, t)
<1>1. /\ s.active \in [Sites -> Tasks \cup {None}]
      /\ s.globalQueue \in Seq(Tasks)
  BY SlotParts DEF SlotsSound
<1>2. SiteOf[t] \in Sites /\ None \notin Tasks
  BY SlotAssumption
<1>3. CASE Promotes(s, t)
  <2>1. r.active = [s.active EXCEPT ![SiteOf[t]] = t] /\ r.globalQueue = s.globalQueue
    BY <1>3 DEF decideAcquire
  <2>2. s.active[SiteOf[t]] = None
    BY <1>3 DEF Promotes, SiteFree
  <2> HIDE DEF r
  <2>3. \A k \in Sites : r.active[k] = IF k = SiteOf[t] THEN t ELSE s.active[k]
    BY <2>1, <1>1
  <2>4. \A u \in Tasks : (\E k \in Sites : r.active[k] = u) <=>
                            (\E k \in Sites : s.active[k] = u) \/ u = t
    BY <2>2, <2>3, <1>2
  <2>5. \A u \in Tasks : HasActive(r, u) <=> HasActive(s, u) \/ u = t
    BY <2>4 DEF HasActive, SitesHeld
  <2> QED BY <2>1, <2>5, <1>3 DEF r
<1>4. CASE ~Promotes(s, t)
  <2>1. r.active = s.active /\ r.globalQueue = Append(s.globalQueue, t)
    BY <1>4 DEF decideAcquire
  <2> HIDE DEF r
  <2>2. Elements(r.globalQueue) = Elements(s.globalQueue) \cup {t}
    BY <2>1, <1>1, AppendIs
  <2>3. \A u \in Tasks : HasActive(r, u) <=> HasActive(s, u)
    BY <2>1 DEF HasActive, SitesHeld
  <2> QED BY <2>2, <2>3, <1>4 DEF r
<1> QED BY <1>3, <1>4

-----------------------------------------------------------------------------
\* A set of positions has a first one.
LEMMA FirstOf ==
  ASSUME NEW C \in SUBSET Nat, C # {}
  PROVE  \E i \in C : \A j \in C : i <= j
<1> DEFINE R == {ss \in Nat \X Nat : ss[1] < ss[2]}
<1>1. IsWellFoundedOn(R, Nat)
  BY NatLessThanWellFounded, Zenon DEF OpToRel
<1>2. \A i, j \in Nat : <<i, j>> \in R <=> i < j
  OBVIOUS
<1> HIDE DEF R
<1>3. PICK i \in C : \A j \in C : <<j, i>> \notin R
  BY <1>1, WFMin
<1>4. ASSUME NEW j \in C PROVE i <= j
  <2>1. i \in Nat /\ j \in Nat
    OBVIOUS
  <2>2. ~(j < i)
    BY <2>1, <1>2, <1>3
  <2> QED BY <2>1, <2>2
<1> QED BY <1>4

\* A release of an active task keeps the manager sound.  The slot goes to the
\* first waiting task whose site is free, and to nobody only if there is none.
LEMMA ReleaseSound ==
  ASSUME NEW s, SlotsSound(s), NEW t \in Tasks
  PROVE  LET r == decideRelease(s, t)
             p == Promoted(s, t)
         IN  /\ SlotsSound(r)
             /\ p # None => p \in Elements(s.globalQueue)
             /\ Elements(r.globalQueue) = Elements(s.globalQueue) \ {p}
             /\ \A u \in Tasks :
                  HasActive(r, u) <=> (HasActive(s, u) /\ u # t) \/ u = p
<1> DEFINE r == decideRelease(s, t)
           p == Promoted(s, t)
           f == Freed(s, t)
           k == SiteOf[t]
           g == s.globalQueue
<1>0. s \in SlotState /\ CapRespected(s) /\ QueuesAgree(s) /\ WorkConserving(s)
  BY DEF SlotsSound
<1>1. /\ s.active \in [Sites -> Tasks \cup {None}]
      /\ s.siteQueues \in [Sites -> Seq(Tasks)]
      /\ g \in Seq(Tasks)
      /\ Elements(g) \subseteq Tasks
  BY <1>0, SlotParts, ElementsTasks
<1>2. k \in Sites /\ t # None /\ MaxConcurrent \in Nat /\ None \notin Tasks
      /\ SiteOf \in [Tasks -> Sites]
  BY SlotAssumption
<1>3. CASE ~HasActive(s, t)
  <2>1. r = s /\ p = None
    BY <1>3 DEF decideRelease, Promoted
  <2>2. \A u \in Tasks : HasActive(s, u) => u # t
    BY <1>3
  <2>3. Elements(g) \ {None} = Elements(g)
    BY <1>1, <1>2
  <2> HIDE DEF r, p, g
  <2> QED BY <2>1, <2>2, <2>3, <1>2 DEF g, r, p
<1>4. CASE HasActive(s, t)
  <2>1. s.active[k] = t /\ \A j \in Sites : s.active[j] = t => j = k
    BY <1>0, <1>2, <1>4 DEF HasActive, SitesHeld, CapRespected, Occupied
  <2>2. /\ f.active = [s.active EXCEPT ![k] = None]
        /\ f.siteQueues = s.siteQueues /\ f.globalQueue = g
    BY <2>1, <1>1 DEF Freed
  <2>3. p = findPromotionCandidate(f)
    BY <1>4 DEF Promoted
  <2>4. r = IF p = None THEN f ELSE applyPromotion(f, p)
    BY <1>4 DEF decideRelease
  <2>5. f \in SlotState
    <3>1. f.active \in [Sites -> Tasks \cup {None}]
      BY <2>2, <1>1
    <3>2. f = [active |-> f.active, siteQueues |-> s.siteQueues,
               globalQueue |-> s.globalQueue]
      BY DEF Freed
    <3> HIDE DEF f
    <3> QED BY <3>1, <3>2, <1>1 DEF SlotState
  <2> HIDE DEF f, r, p
  <2>6. Occupied(f) = Occupied(s) \ {k} /\ k \in Occupied(s)
    BY <2>1, <2>2, <1>1, <1>2 DEF Occupied
  <2>7. Cardinality(Occupied(f)) = Cardinality(Occupied(s)) - 1
    BY <2>5, <2>6, <1>0, <1>2, OccupiedCount
  <2>8. /\ Cardinality(Occupied(f)) \in Nat /\ Cardinality(Occupied(s)) \in Nat
        /\ Cardinality(Occupied(s)) <= MaxConcurrent
    BY <1>0, OccupiedFinite DEF CapRespected
  <2>9. Cardinality(Occupied(f)) < MaxConcurrent
    BY <2>7, <2>8, <1>2
  <2>10. QueuesAgree(f)
    BY <1>0, <2>2 DEF QueuesAgree, g
  <2>11. CapRespected(f)
    <3>1. \A j \in Occupied(f) : j \in Occupied(s) /\ f.active[j] = s.active[j]
      BY <2>2, <2>6, <1>1, <1>2 DEF Occupied
    <3> QED BY <3>1, <2>9, <2>8, <2>2, <1>0, <1>2 DEF CapRespected, g
  \* Whoever waits for a free site has a promotable head before him.
  <2>12. \A u \in Elements(g) :
           SiteFree(f, SiteOf[u]) => \E i \in DOMAIN g : Promotable(f, i)
    <3> TAKE u \in Elements(g)
    <3> HAVE SiteFree(f, SiteOf[u])
    <3> DEFINE q == s.siteQueues[SiteOf[u]]
    <3>1. SiteOf[u] \in Sites /\ u \in Tasks
      BY <1>1, <1>2
    <3>2. q \in Seq(Tasks) /\ Elements(q) = {v \in Elements(g) : SiteOf[v] = SiteOf[u]}
      BY <3>1, <1>0, <1>1 DEF QueuesAgree
    <3>3. q # << >> /\ 1 \in DOMAIN q
      <4>1. PICK i \in DOMAIN q : q[i] = u
        BY <3>2 DEF Elements
      <4> HIDE DEF q
      <4> QED BY <4>1, <3>2
    <3>4. q[1] \in Elements(g) /\ SiteOf[q[1]] = SiteOf[u]
      <4>1. q[1] \in Elements(q)
        BY <3>3 DEF Elements
      <4> QED BY <4>1, <3>2
    <3>5. PICK i \in DOMAIN g : g[i] = q[1]
      BY <3>4 DEF Elements
    <3> HIDE DEF g
    <3>6. Promotable(f, i)
      BY <3>3, <3>4, <3>5, <2>2 DEF Promotable
    <3> QED BY <3>6
  <2> DEFINE C == {i \in DOMAIN g : Promotable(f, i)}
  <2>13. CASE C = {}
    <3>1. p = None
      BY <2>3, <2>2, <2>13 DEF findPromotionCandidate
    <3>2. r = f
      BY <3>1, <2>4
    <3>3. WorkConserving(f)
      BY <2>12, <2>13, <2>2 DEF WorkConserving
    <3>4. \A u \in Tasks : HasActive(f, u) <=> HasActive(s, u) /\ u # t
      BY <2>1, <2>2, <1>1, <1>2 DEF HasActive, SitesHeld
    <3>5. Elements(g) \ {None} = Elements(g)
      BY <1>1, <1>2
    <3> HIDE DEF g, C
    <3> QED BY <3>1, <3>2, <3>3, <3>4, <3>5, <2>2, <2>5, <2>10, <2>11, <1>2
        DEF SlotsSound, r, p, g
  <2>14. CASE C # {}
    <3>1. C \subseteq Nat
      BY <1>1
    <3>2. PICK i \in C : \A j \in C : i <= j
      BY <3>1, <2>14, FirstOf
    <3>3. p = g[CHOOSE n \in C : \A j \in C : n <= j]
      BY <2>3, <2>2, <2>14 DEF findPromotionCandidate
    <3>4. PICK m \in C : p = g[m]
      BY <3>2, <3>3
    <3> DEFINE l == SiteOf[p]
    <3>5. /\ p \in Elements(g) /\ p \in Tasks /\ p # None
          /\ SiteFree(f, l) /\ l \in Sites
      <4>1. m \in DOMAIN g /\ Promotable(f, m)
        BY <3>4
      <4>2. p \in Elements(g)
        BY <4>1, <3>4 DEF Elements
      <4>3. SiteFree(f, SiteOf[p])
        BY <4>1, <3>4, <2>2 DEF Promotable
      <4> QED BY <4>2, <4>3, <1>1, <1>2
    <3> HIDE DEF C
    <3>6. r = [active |-> [f.active EXCEPT ![l] = p],
               siteQueues |-> [f.siteQueues EXCEPT ![l] = Without(@, p)],
               globalQueue |-> Without(f.globalQueue, p)]
      BY <2>4, <3>5 DEF applyPromotion
    <3>7. /\ r.active = [f.active EXCEPT ![l] = p]
          /\ r.siteQueues = [s.siteQueues EXCEPT ![l] = Without(@, p)]
          /\ r.globalQueue = Without(g, p)
      BY <3>6, <2>2
    <3>8. \A j \in Sites : r.siteQueues[j] = Without(s.siteQueues[j], p)
      <4> TAKE j \in Sites
      <4>1. CASE j = l
        BY <4>1, <3>7, <1>1
      <4>2. CASE j # l
        <5>1. p \notin Elements(s.siteQueues[j])
          BY <4>2, <1>0 DEF QueuesAgree
        <5>2. Without(s.siteQueues[j], p) = s.siteQueues[j]
          BY <5>1 DEF Without
        <5> QED BY <4>2, <5>2, <3>7, <1>1
      <4> QED BY <4>1, <4>2
    <3>9. Distinct(s.globalQueue)
      BY <1>0 DEF CapRespected
    <3>10. /\ QueuesAgree(r)
           /\ Distinct(r.globalQueue)
           /\ r.globalQueue \in Seq(Tasks)
           /\ Elements(r.globalQueue) = Elements(g) \ {p}
           /\ \A j \in Sites : r.siteQueues[j] \in Seq(Tasks)
      BY <1>0, <3>7, <3>8, <3>9, QueuesDrop DEF g
    <3>11. r \in SlotState
      <4>1. r.active \in [Sites -> Tasks \cup {None}]
        <5>1. f.active \in [Sites -> Tasks \cup {None}]
          BY <2>5, SlotParts
        <5> QED BY <5>1, <3>5, <3>7
      <4>2. r.siteQueues \in [Sites -> Seq(Tasks)]
        BY <3>7, <3>10, <1>1
      <4>3. r = [active |-> r.active, siteQueues |-> r.siteQueues,
                 globalQueue |-> r.globalQueue]
        BY <3>6
      <4> QED BY <4>1, <4>2, <4>3, <3>10 DEF SlotState
    <3>12. Occupied(r) = Occupied(f) \cup {l} /\ l \notin Occupied(f)
      BY <3>5, <3>7, <2>5, SlotParts, <1>2 DEF Occupied, SiteFree
    <3>13. Cardinality(Occupied(r)) = Cardinality(Occupied(f)) + 1
      BY <3>12, <3>11, <3>5, <2>5, OccupiedCount
    <3>14. Cardinality(Occupied(r)) = Cardinality(Occupied(s))
      BY <3>13, <2>7, <2>8
    <3>15. CapRespected(r)
      <4>1. \A j \in Occupied(r) :
              \/ j = l /\ r.active[j] = p
              \/ j \in Occupied(f) /\ r.active[j] = f.active[j]
        BY <3>12, <3>7, <2>5, SlotParts, <3>5 DEF Occupied
      <4>2. \A j \in Occupied(f) : SiteOf[f.active[j]] = j
                                   /\ f.active[j] \notin Elements(g)
        BY <2>11, <2>2 DEF CapRespected
      <4>3. Cardinality(Occupied(r)) <= MaxConcurrent
        BY <3>14, <2>8
      <4> QED BY <4>1, <4>2, <4>3, <3>10 DEF CapRespected
    <3>16. WorkConserving(r)
      <4> SUFFICES ASSUME NEW u \in Elements(r.globalQueue),
                          SiteFree(r, SiteOf[u]), GlobalFree(r)
                   PROVE  FALSE
        BY DEF WorkConserving
      <4>1. u \in Elements(g) /\ u \in Tasks /\ SiteOf[u] \in Sites
        BY <3>10, <1>1, <1>2
      <4>2. Cardinality(Occupied(s)) < MaxConcurrent
        BY <3>14 DEF GlobalFree
      <4>3. \A v \in Elements(g) : ~SiteFree(s, SiteOf[v])
        BY <4>2, <1>0 DEF WorkConserving, GlobalFree, g
      <4>4. \A j \in Sites : j # k => f.active[j] = s.active[j]
        BY <2>2, <1>1
      <4>5. l = k
        BY <4>3, <4>4, <3>5 DEF SiteFree
      <4>6. r.active[k] = p
        BY <4>5, <3>7, <2>5, SlotParts, <1>2
      <4>7. SiteOf[u] # k
        BY <4>6, <3>5 DEF SiteFree
      <4>8. r.active[SiteOf[u]] = s.active[SiteOf[u]]
        BY <4>1, <4>4, <4>5, <4>7, <3>7, <2>5, SlotParts
      <4> QED BY <4>8, <4>1, <4>3 DEF SiteFree
    <3>17. \A u \in Tasks :
             HasActive(r, u) <=> (HasActive(s, u) /\ u # t) \/ u = p
      <4>1. \A u \in Tasks : HasActive(f, u) <=> HasActive(s, u) /\ u # t
        BY <2>1, <2>2, <1>1, <1>2 DEF HasActive, SitesHeld
      <4>2. f.active \in [Sites -> Tasks \cup {None}] /\ f.active[l] = None
        BY <2>5, SlotParts, <3>5 DEF SiteFree
      <4>3. \A u \in Tasks : HasActive(r, u) <=> HasActive(f, u) \/ u = p
        BY <4>2, <3>5, <3>7, <1>2 DEF HasActive, SitesHeld
      <4> QED BY <4>1, <4>3
    <3> QED BY <3>5, <3>10, <3>11, <3>15, <3>16, <3>17 DEF SlotsSound, r, p, g
  <2> QED BY <2>13, <2>14
<1> QED BY <1>3, <1>4
=============================================================================
