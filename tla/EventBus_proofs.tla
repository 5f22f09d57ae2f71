--------------------------- MODULE EventBus_proofs ---------------------------
(***************************************************************************)
(* Proofs about the event bus, for every capacity, every set of events and  *)
(* every number of consumers.  First, no wake-up is lost (BusInv).  Then,   *)
(* the bus is the queue it promises to be: its heap holds every event whose *)
(* fate is open exactly once and within the capacity (HeapOk), and with     *)
(* that each step of the bus is a step of EventQueue or changes nothing     *)
(* there.                                                                  *)
(***************************************************************************)
EXTENDS EventBus, FiniteSetTheorems, SequenceTheorems, TLAPS

USE BusAssumption

\* The part of the inductive invariant that the type invariant leaves out: the
\* counting argument needs the heap to be a finite set.
BusInv == TypeOK /\ IsFiniteSet(heap) /\ WaitersExact /\ NoLostWakeup

\* Any set of consumers can be counted.
LEMMA WokenFinite == IsFiniteSet(Woken) /\ Cardinality(Woken) \in Nat
<1>1. Woken \in SUBSET Consumer
  BY DEF Woken
<1>2. QED
  BY <1>1, FS_Subset, FS_CardinalityType

LEMMA InitBusInv == Init => BusInv
<1> SUFFICES ASSUME Init PROVE BusInv
  OBVIOUS
<1>1. TypeOK
  BY EmptySeq DEF Init, TypeOK, ConsumerState, Fate, Entry
<1>2. IsFiniteSet(heap)
  BY FS_EmptySet DEF Init
<1>3. WaitersExact
  BY EmptySeq DEF Init, WaitersExact
<1>4. NoLostWakeup
  BY DEF Init, NoLostWakeup
<1>5. QED
  BY <1>1, <1>2, <1>3, <1>4 DEF BusInv

\* WakeOne keeps the registry of waiters exact and leaves one more consumer
\* woken whenever somebody was waiting.
LEMMA WakeOneEffect ==
  ASSUME BusInv, WakeOne
  PROVE  /\ waitQueue' \in Seq(Consumer)
         /\ consumer' \in [Consumer -> ConsumerState]
         /\ WaitersExact'
         /\ waitQueue' # << >> =>
              waitQueue # << >> /\ Cardinality(Woken') = Cardinality(Woken) + 1
<1> USE DEF BusInv
<1>1. CASE waitQueue = << >>
  BY <1>1 DEF WakeOne, TypeOK, WaitersExact
<1>2. CASE waitQueue # << >>
  <2> DEFINE h == Head(waitQueue)
  <2>1. /\ waitQueue' = Tail(waitQueue)
        /\ consumer' = [consumer EXCEPT ![h] = "woken"]
    BY <1>2 DEF WakeOne
  <2>2. /\ waitQueue \in Seq(Consumer)
        /\ h \in Consumer
        /\ h = waitQueue[1]
        /\ waitQueue' \in Seq(Consumer)
        /\ Len(waitQueue) \in Nat \ {0}
        /\ Len(waitQueue') = Len(waitQueue) - 1
        /\ \A i \in 1..Len(waitQueue') : waitQueue'[i] = waitQueue[i + 1]
    BY <1>2, <2>1, HeadTailProperties, EmptySeq DEF TypeOK
  <2>3. consumer[h] = "parked"
    BY <2>2 DEF WaitersExact
  <2>4. consumer' \in [Consumer -> ConsumerState]
    BY <2>1 DEF TypeOK, ConsumerState
  <2>5. WaitersExact'
    <3>1. ASSUME NEW i \in 1..Len(waitQueue'), NEW j \in 1..Len(waitQueue'),
                 waitQueue'[i] = waitQueue'[j]
          PROVE  i = j
      <4>1. i + 1 \in 1..Len(waitQueue) /\ j + 1 \in 1..Len(waitQueue)
        BY <2>2
      <4>2. i + 1 = j + 1
        BY <4>1, <3>1, <2>2 DEF WaitersExact
      <4>3. QED
        BY <4>2
    <3>2. ASSUME NEW c \in Consumer
          PROVE  consumer'[c] = "parked" <=>
                   \E i \in 1..Len(waitQueue') : waitQueue'[i] = c
      <4>1. CASE c = h
        <5>1. consumer'[c] # "parked"
          BY <4>1, <2>1, <2>2 DEF TypeOK
        <5>2. ASSUME NEW i \in 1..Len(waitQueue'), waitQueue'[i] = c PROVE FALSE
          <6>1. waitQueue[i + 1] = waitQueue[1] /\ i + 1 \in 1..Len(waitQueue)
            BY <5>2, <4>1, <2>2
          <6>2. i + 1 = 1
            BY <6>1, <2>2 DEF WaitersExact
          <6>3. QED
            BY <6>2
        <5>3. QED
          BY <5>1, <5>2
      <4>2. CASE c # h
        <5>1. consumer'[c] = consumer[c]
          BY <4>2, <2>1 DEF TypeOK
        <5>2. (\E i \in 1..Len(waitQueue) : waitQueue[i] = c) <=>
                (\E i \in 1..Len(waitQueue') : waitQueue'[i] = c)
          <6>1. ASSUME NEW i \in 1..Len(waitQueue), waitQueue[i] = c
                PROVE  \E k \in 1..Len(waitQueue') : waitQueue'[k] = c
            <7>1. i # 1 /\ i - 1 \in 1..Len(waitQueue')
              BY <6>1, <4>2, <2>2
            <7>2. waitQueue'[i - 1] = c
              BY <7>1, <6>1, <2>2
            <7>3. QED
              BY <7>1, <7>2
          <6>2. ASSUME NEW i \in 1..Len(waitQueue'), waitQueue'[i] = c
                PROVE  \E k \in 1..Len(waitQueue) : waitQueue[k] = c
            <7>1. i + 1 \in 1..Len(waitQueue) /\ waitQueue[i + 1] = c
              BY <6>2, <2>2
            <7>2. QED
              BY <7>1
          <6>3. QED
            BY <6>1, <6>2
        <5>3. QED
          BY <5>1, <5>2 DEF WaitersExact
      <4>3. QED
        BY <4>1, <4>2
    <3>3. QED
      BY <3>1, <3>2 DEF WaitersExact
  <2>6. Cardinality(Woken') = Cardinality(Woken) + 1
    <3>1. Woken' = Woken \cup {h} /\ h \notin Woken
      BY <2>1, <2>2, <2>3 DEF Woken, TypeOK
    <3>2. QED
      BY <3>1, WokenFinite, FS_AddElement
  <2>7. QED
    BY <1>2, <2>2, <2>4, <2>5, <2>6
<1>3. QED
  BY <1>1, <1>2

\* Both put() branches that push: the heap grows by at most one entry and one
\* consumer is woken for it.
LEMMA PushKeepsBusInv ==
  ASSUME BusInv, NEW h \in SUBSET heap, NEW entry \in Entry,
         NEW f \in [Event -> Fate], Push(h, entry, f),
         UNCHANGED <<closed, dispatchPaused>>
  PROVE  BusInv'
<1> USE DEF BusInv
<1>1. /\ waitQueue' \in Seq(Consumer)
      /\ consumer' \in [Consumer -> ConsumerState]
      /\ WaitersExact'
      /\ waitQueue' # << >> =>
           waitQueue # << >> /\ Cardinality(Woken') = Cardinality(Woken) + 1
  BY WakeOneEffect DEF Push
<1>2. TypeOK'
  BY <1>1 DEF TypeOK, Push
<1>3. /\ IsFiniteSet(heap')
      /\ Cardinality(heap') \in Nat /\ Cardinality(heap) \in Nat
      /\ Cardinality(heap') <= Cardinality(heap) + 1
  <2>1. IsFiniteSet(h) /\ Cardinality(h) <= Cardinality(heap)
    BY FS_Subset
  <2>2. heap' = h \cup {entry}
    BY DEF Push
  <2>3. Cardinality(h) \in Nat /\ Cardinality(heap) \in Nat
    BY <2>1, FS_CardinalityType
  <2>4. /\ IsFiniteSet(h \cup {entry})
        /\ Cardinality(h \cup {entry}) =
             IF entry \in h THEN Cardinality(h) ELSE Cardinality(h) + 1
    BY <2>1, FS_AddElement
  <2>5. IsFiniteSet(heap') /\ Cardinality(heap') \in Nat
    BY <2>2, <2>3, <2>4
  <2>6. Cardinality(heap') <= Cardinality(heap) + 1
    BY <2>1, <2>2, <2>3, <2>4
  <2>7. QED
    BY <2>3, <2>5, <2>6
<1>4. NoLostWakeup'
  <2> SUFFICES ASSUME waitQueue' # << >>, ~dispatchPaused'
               PROVE  Cardinality(heap') <= Cardinality(Woken')
    BY DEF NoLostWakeup
  <2>1. Cardinality(heap) <= Cardinality(Woken)
    BY <1>1 DEF NoLostWakeup
  <2>2. QED
    BY <2>1, <1>1, <1>3, WokenFinite
<1>5. QED
  BY <1>1, <1>2, <1>3, <1>4

LEMMA PutKeepsBusInv ==
  ASSUME BusInv, NEW e \in Event, NEW p \in Priority, Put(e, p)
  PROVE  BusInv'
<1> USE DEF BusInv
<1>0. NewEntry(e, p) \in Entry
  BY DEF NewEntry, Entry, TypeOK
<1>1. CASE PutAccept(e, p)
  <2>1. [fate EXCEPT ![e] = "queued"] \in [Event -> Fate]
    BY DEF TypeOK, Fate
  <2>2. QED
    BY <1>0, <1>1, <2>1, PushKeepsBusInv DEF PutAccept
<1>2. CASE PutEvict(e, p)
  <2>1. PICK w \in heap :
          Push(heap \ {w}, NewEntry(e, p),
               [fate EXCEPT ![e] = "queued", ![w.ev] = "evicted"])
    BY <1>2 DEF PutEvict
  <2>2. [fate EXCEPT ![e] = "queued", ![w.ev] = "evicted"] \in [Event -> Fate]
    BY DEF TypeOK, Fate, Entry
  <2>3. heap \ {w} \in SUBSET heap
    OBVIOUS
  <2>4. UNCHANGED <<closed, dispatchPaused>>
    BY <1>2 DEF PutEvict
  <2>5. QED
    BY <1>0, <2>1, <2>2, <2>3, <2>4, PushKeepsBusInv
<1>3. CASE PutDrop(e, p)
  BY <1>3 DEF PutDrop, TypeOK, Fate, WaitersExact, NoLostWakeup, Woken
<1>4. QED
  BY <1>1, <1>2, <1>3 DEF Put

LEMMA GetKeepsBusInv ==
  ASSUME BusInv, NEW c \in Consumer, GetStep(c)
  PROVE  BusInv'
<1> USE DEF BusInv
<1>0. /\ Cardinality(heap) \in Nat
      /\ waitQueue \in Seq(Consumer)
      /\ Len(waitQueue) \in Nat
      /\ consumer \in [Consumer -> ConsumerState]
  BY FS_CardinalityType, LenProperties DEF TypeOK
<1>1. CASE GetPop(c)
  <2>1. PICK b \in heap : /\ heap' = heap \ {b}
                          /\ fate' = [fate EXCEPT ![b.ev] = "delivered"]
    BY <1>1 DEF GetPop
  <2>2. /\ consumer' = [consumer EXCEPT ![c] = "busy"]
        /\ InLoop(c) /\ UNCHANGED <<counter, waitQueue, closed, dispatchPaused>>
    BY <1>1 DEF GetPop
  <2>3. TypeOK'
    BY <2>1, <2>2 DEF TypeOK, Fate, ConsumerState, Entry
  <2>4. IsFiniteSet(heap') /\ Cardinality(heap') = Cardinality(heap) - 1
    BY <2>1, FS_RemoveElement
  <2>5. WaitersExact'
    BY <2>2, <1>0 DEF WaitersExact, InLoop
  <2>6. Cardinality(Woken') >= Cardinality(Woken) - 1
    <3>1. Woken' = Woken \ {c}
      BY <2>2, <1>0 DEF Woken
    <3>2. Cardinality(Woken \ {c}) =
            IF c \in Woken THEN Cardinality(Woken) - 1 ELSE Cardinality(Woken)
      BY WokenFinite, FS_RemoveElement
    <3>3. Cardinality(Woken') = Cardinality(Woken \ {c})
      BY <3>1
    <3>4. QED
      BY <3>2, <3>3, WokenFinite
  <2>7. NoLostWakeup'
    <3>1. Cardinality(Woken') \in Nat
      <4>1. Woken' \in SUBSET Consumer
        BY DEF Woken
      <4>2. QED
        BY <4>1, FS_Subset, FS_CardinalityType
    <3>2. QED
      BY <2>2, <2>4, <2>6, <3>1, <1>0, WokenFinite DEF NoLostWakeup
  <2>8. QED
    BY <2>3, <2>4, <2>5, <2>7
<1>2. CASE GetPark(c)
  <2>1. /\ waitQueue' = Append(waitQueue, c)
        /\ consumer' = [consumer EXCEPT ![c] = "parked"]
        /\ InLoop(c) /\ MustWait
        /\ UNCHANGED <<heap, counter, closed, dispatchPaused, fate>>
    BY <1>2 DEF GetPark
  <2>2. /\ waitQueue' \in Seq(Consumer)
        /\ Len(waitQueue') = Len(waitQueue) + 1
        /\ \A i \in 1..Len(waitQueue) : waitQueue'[i] = waitQueue[i]
        /\ waitQueue'[Len(waitQueue) + 1] = c
    BY <2>1, <1>0
  <2>3. TypeOK'
    BY <2>1, <2>2 DEF TypeOK, ConsumerState
  <2>4. \A i \in 1..Len(waitQueue) : waitQueue[i] # c
    BY <2>1, <1>0 DEF WaitersExact, InLoop
  <2>5. WaitersExact'
    <3>1. ASSUME NEW i \in 1..Len(waitQueue'), NEW j \in 1..Len(waitQueue'),
                 waitQueue'[i] = waitQueue'[j]
          PROVE  i = j
      <4>1. /\ i \in 1..Len(waitQueue) \/ i = Len(waitQueue) + 1
            /\ j \in 1..Len(waitQueue) \/ j = Len(waitQueue) + 1
        BY <2>2, <1>0
      <4>2. QED
        BY <4>1, <3>1, <2>2, <2>4 DEF WaitersExact
    <3>2. ASSUME NEW d \in Consumer
          PROVE  consumer'[d] = "parked" <=>
                   \E i \in 1..Len(waitQueue') : waitQueue'[i] = d
      <4>1. CASE d = c
        <5>1. consumer'[d] = "parked"
          BY <4>1, <2>1, <1>0
        <5>2. Len(waitQueue) + 1 \in 1..Len(waitQueue')
          BY <2>2, <1>0
        <5>3. QED
          BY <5>1, <5>2, <4>1, <2>2
      <4>2. CASE d # c
        <5>1. consumer'[d] = consumer[d]
          BY <4>2, <2>1, <1>0
        <5>2. (\E i \in 1..Len(waitQueue') : waitQueue'[i] = d) <=>
                (\E i \in 1..Len(waitQueue) : waitQueue[i] = d)
          BY <4>2, <2>2, <1>0
        <5>3. QED
          BY <5>1, <5>2 DEF WaitersExact
      <4>3. QED
        BY <4>1, <4>2
    <3>3. QED
      BY <3>1, <3>2 DEF WaitersExact
  <2>6. NoLostWakeup'
    <3> SUFFICES ASSUME ~dispatchPaused'
                 PROVE  Cardinality(heap') <= Cardinality(Woken')
      BY DEF NoLostWakeup
    <3>1. heap' = {}
      BY <2>1 DEF MustWait
    <3>2. Cardinality(heap') = 0
      BY <3>1, FS_EmptySet
    <3>3. Cardinality(Woken') \in Nat
      <4>1. Woken' \in SUBSET Consumer
        BY DEF Woken
      <4>2. QED
        BY <4>1, FS_Subset, FS_CardinalityType
    <3>4. QED
      BY <3>2, <3>3
  <2>7. QED
    BY <2>1, <2>3, <2>5, <2>6
<1>3. CASE GetNull(c)
  <2>1. /\ consumer' = [consumer EXCEPT ![c] = "done"]
        /\ UNCHANGED <<heap, counter, waitQueue, closed, dispatchPaused, fate>>
        /\ consumer[c] # "parked"
        /\ consumer[c] = "wokenClosed" \/ MustWait
    BY <1>3 DEF GetNull, InLoop
  <2>2. TypeOK'
    BY <2>1 DEF TypeOK, ConsumerState
  <2>3. WaitersExact'
    BY <2>1, <1>0 DEF WaitersExact
  <2>4. NoLostWakeup'
    <3>1. CASE consumer[c] = "wokenClosed"
      <4>1. Woken' = Woken
        BY <3>1, <2>1, <1>0 DEF Woken
      <4>2. QED
        BY <4>1, <2>1 DEF NoLostWakeup
    <3>2. CASE dispatchPaused
      BY <3>2, <2>1 DEF NoLostWakeup
    <3>3. CASE heap = {}
      <4>1. Cardinality(heap') = 0
        BY <3>3, <2>1, FS_EmptySet
      <4>2. Cardinality(Woken') \in Nat
        <5>1. Woken' \in SUBSET Consumer
          BY DEF Woken
        <5>2. QED
          BY <5>1, FS_Subset, FS_CardinalityType
      <4>3. QED
        BY <4>1, <4>2 DEF NoLostWakeup
    <3>4. QED
      BY <2>1, <3>1, <3>2, <3>3 DEF MustWait
  <2>5. QED
    BY <2>1, <2>2, <2>3, <2>4
<1>4. QED
  BY <1>1, <1>2, <1>3 DEF GetStep

\* Resuming wakes as many consumers as there are queued entries, or everybody:
\* the first n waiters are n different consumers.
LEMMA ResumeKeepsBusInv ==
  ASSUME BusInv, ResumeDispatch
  PROVE  BusInv'
<1> USE DEF BusInv
<1> DEFINE n == Cardinality(heap)
<1> DEFINE L == Len(waitQueue)
<1>0. /\ n \in Nat /\ L \in Nat
      /\ waitQueue \in Seq(Consumer)
      /\ consumer \in [Consumer -> ConsumerState]
      /\ \A i \in 1..L : waitQueue[i] \in Consumer
  BY FS_CardinalityType, LenProperties, ElementOfSeq DEF TypeOK
<1>1. /\ waitQueue' = SubSeq(waitQueue, n + 1, L)
      /\ consumer' = [c \in Consumer |-> IF c \in Notified(n)
                                         THEN "woken" ELSE consumer[c]]
      /\ UNCHANGED <<heap, counter, closed, fate>>
      /\ dispatchPaused' = FALSE
  BY DEF ResumeDispatch
<1>2. /\ waitQueue' \in Seq(Consumer)
      /\ Len(waitQueue') = IF n + 1 <= L THEN L - n ELSE 0
      /\ \A i \in 1..(L - n) : waitQueue'[i] = waitQueue[n + i]
  <2>1. \A i \in (n + 1)..L : waitQueue[i] \in Consumer
    BY <1>0
  <2>2. n + 1 \in Int /\ L \in Int
    BY <1>0
  <2> HIDE DEF n, L
  <2>3. /\ SubSeq(waitQueue, n + 1, L) \in Seq(Consumer)
        /\ Len(SubSeq(waitQueue, n + 1, L)) =
             IF n + 1 <= L THEN L - (n + 1) + 1 ELSE 0
        /\ \A i \in 1..(L - (n + 1) + 1) :
             SubSeq(waitQueue, n + 1, L)[i] = waitQueue[(n + 1) + i - 1]
    BY <2>1, <2>2, SubSeqProperties
  <2>4. QED
    BY <2>3, <1>0, <1>1
<1>3. TypeOK'
  BY <1>1, <1>2, <1>0 DEF TypeOK, ConsumerState
<1>4. WaitersExact'
  <2>1. ASSUME NEW i \in 1..Len(waitQueue'), NEW j \in 1..Len(waitQueue'),
               waitQueue'[i] = waitQueue'[j]
        PROVE  i = j
    <3> HIDE DEF n, L, BusInv
    <3>1. i \in 1..(L - n) /\ j \in 1..(L - n)
      BY <1>0, <1>2
    <3>2. n + i \in 1..L /\ n + j \in 1..L
      BY <1>0, <3>1
    <3>3. waitQueue[n + i] = waitQueue[n + j]
      BY <1>2, <2>1, <3>1
    <3>4. n + i = n + j
      BY <3>2, <3>3 DEF BusInv, L, WaitersExact
    <3>5. QED
      BY <1>0, <3>1, <3>4
  <2>2. ASSUME NEW c \in Consumer
        PROVE  consumer'[c] = "parked" <=>
                 \E i \in 1..Len(waitQueue') : waitQueue'[i] = c
    <3>1. ASSUME consumer'[c] = "parked"
          PROVE  \E i \in 1..Len(waitQueue') : waitQueue'[i] = c
      <4>1. consumer[c] = "parked" /\ c \notin Notified(n)
        BY <3>1, <1>1
      <4>2. PICK k \in 1..L : waitQueue[k] = c
        BY <4>1 DEF WaitersExact
      <4>3. k > n
        BY <4>1, <4>2, <1>0 DEF Notified
      <4>4. k - n \in 1..(L - n) /\ n + (k - n) = k /\ Len(waitQueue') = L - n
        BY <4>3, <1>0, <1>2
      <4>6. waitQueue'[k - n] = c
        BY <4>2, <4>4, <1>2
      <4>7. QED
        BY <4>4, <4>6
    <3>2. ASSUME NEW i \in 1..Len(waitQueue'), waitQueue'[i] = c
          PROVE  consumer'[c] = "parked"
      <4>1. n + i \in 1..L /\ waitQueue[n + i] = c
        BY <3>2, <1>0, <1>2
      <4>2. consumer[c] = "parked"
        BY <4>1 DEF WaitersExact
      <4>3. c \notin Notified(n)
        <5>1. ASSUME NEW k \in 1..L, k <= n, waitQueue[k] = c PROVE FALSE
          <6>1. k = n + i
            BY <5>1, <4>1 DEF WaitersExact
          <6>2. QED
            BY <6>1, <5>1, <1>0, <3>2, <1>2
        <5>2. QED
          BY <5>1 DEF Notified
      <4>4. QED
        BY <4>2, <4>3, <1>1
    <3>3. QED
      BY <3>1, <3>2
  <2>3. QED
    BY <2>1, <2>2 DEF WaitersExact
<1>5. NoLostWakeup'
  <2> SUFFICES ASSUME waitQueue' # << >>
               PROVE  Cardinality(heap') <= Cardinality(Woken')
    BY DEF NoLostWakeup
  <2>1. n < L
    <3>1. Len(waitQueue') \in Nat \ {0}
      BY <1>2, EmptySeq
    <3>2. QED
      BY <3>1, <1>2, <1>0
  <2>2. \A i \in 1..n : waitQueue[i] \in Woken'
    <3> TAKE i \in 1..n
    <3>1. i \in 1..L /\ waitQueue[i] \in Consumer
      BY <2>1, <1>0
    <3>2. waitQueue[i] \in Notified(n)
      BY <3>1, <1>0 DEF Notified
    <3>3. QED
      BY <3>1, <3>2, <1>1 DEF Woken
  <2> DEFINE g == [i \in 1..n |-> waitQueue[i]]
  <2>3. g \in Injection(1..n, Woken')
    <3>1. g \in [1..n -> Woken']
      BY <2>2
    <3>2. \A i, j \in 1..n : g[i] = g[j] => i = j
      BY <2>1, <1>0 DEF WaitersExact
    <3>3. QED
      BY <3>1, <3>2 DEF Injection, IsInjective
  <2>4. IsFiniteSet(Woken')
    <3>1. Woken' \in SUBSET Consumer
      BY DEF Woken
    <3>2. QED
      BY <3>1, FS_Subset
  <2>5. Cardinality(1..n) <= Cardinality(Woken')
    <3> HIDE DEF g, n
    <3>1. QED
      BY <2>3, <2>4, FS_Injection
  <2>6. Cardinality(1..n) = n
    <3> HIDE DEF n
    <3>1. Cardinality(1..n) = IF 1 > n THEN 0 ELSE n - 1 + 1
      BY <1>0, FS_Interval
    <3>2. QED
      BY <3>1, <1>0
  <2>7. QED
    BY <2>5, <2>6, <1>1
<1>6. QED
  BY <1>1, <1>3, <1>4, <1>5

LEMMA NextBusInv == BusInv /\ [Next]_vars => BusInv'
<1> SUFFICES ASSUME BusInv, [Next]_vars PROVE BusInv'
  OBVIOUS
<1>1. ASSUME NEW e \in Event, NEW p \in Priority, Put(e, p) PROVE BusInv'
  BY <1>1, PutKeepsBusInv
<1>2. ASSUME NEW c \in Consumer, GetStep(c) PROVE BusInv'
  BY <1>2, GetKeepsBusInv
<1>3. CASE Close
  <2>1. TypeOK'
    BY <1>3, EmptySeq DEF Close, BusInv, TypeOK, ConsumerState
  <2>2. WaitersExact'
    BY <1>3, EmptySeq DEF Close, BusInv, TypeOK, WaitersExact
  <2>3. NoLostWakeup' /\ IsFiniteSet(heap')
    BY <1>3 DEF Close, BusInv, NoLostWakeup
  <2>4. QED
    BY <2>1, <2>2, <2>3 DEF BusInv
<1>4. CASE PauseDispatch
  BY <1>4 DEF PauseDispatch, BusInv, TypeOK, WaitersExact, NoLostWakeup
<1>5. CASE ResumeDispatch
  BY <1>5, ResumeKeepsBusInv
<1>6. CASE UNCHANGED vars
  BY <1>6 DEF vars, BusInv, TypeOK, WaitersExact, NoLostWakeup, Woken
<1>7. QED
  BY <1>1, <1>2, <1>3, <1>4, <1>5, <1>6 DEF Next

\* Every reachable state of the bus is well typed.
THEOREM BusTypeCorrect == Spec => []TypeOK
<1>1. BusInv => TypeOK
  BY DEF BusInv
<1>2. QED
  BY <1>1, InitBusInv, NextBusInv, PTL DEF Spec

\* The registry of parked consumers is exact, so no wake-up is spent on a
\* resolver that already ran.
THEOREM WaitersStayExact == Spec => []WaitersExact
<1>1. BusInv => WaitersExact
  BY DEF BusInv
<1>2. QED
  BY <1>1, InitBusInv, NextBusInv, PTL DEF Spec

\* Nobody sleeps next to an event nobody is coming for.
THEOREM NoWakeupLost == Spec => []NoLostWakeup
<1>1. BusInv => NoLostWakeup
  BY DEF BusInv
<1>2. QED
  BY <1>1, InitBusInv, NextBusInv, PTL DEF Spec

-----------------------------------------------------------------------------
\* What the heap holds, beyond its type: no more than MaxSize entries, exactly
\* one per queued event, with sequence numbers that were all given out before.
QueuedIsHeld ==
  \A e \in Event : fate[e] = "queued" => \E x \in heap : x.ev = e

HeapOk ==
  /\ Cardinality(heap) <= MaxSize
  /\ \A x \in heap : x.seq < counter /\ fate[x.ev] = "queued"
  /\ \A x, y \in heap : x.seq = y.seq \/ x.ev = y.ev => x = y
  /\ QueuedIsHeld

PoolInv == BusInv /\ HeapOk

LEMMA HeapFacts ==
  ASSUME PoolInv
  PROVE  /\ counter \in Nat /\ IsFiniteSet(heap)
         /\ Cardinality(heap) \in Nat /\ Cardinality(heap) <= MaxSize
         /\ \A x \in heap : /\ x.pri \in Nat /\ x.seq \in Nat /\ x.ev \in Event
                            /\ x.seq < counter /\ fate[x.ev] = "queued"
         /\ fate \in [Event -> Fate]
  BY FS_CardinalityType DEF PoolInv, BusInv, HeapOk, TypeOK, Entry

LEMMA InitPoolInv == Init => PoolInv
<1> SUFFICES ASSUME Init PROVE PoolInv
  OBVIOUS
<1>1. BusInv
  BY InitBusInv
<1>2. HeapOk
  BY FS_EmptySet DEF Init, HeapOk, QueuedIsHeld
<1>3. QED
  BY <1>1, <1>2 DEF PoolInv

\* A new entry differs from everything queued: its number was never given out
\* and its event was never put.
LEMMA NewcomerIsNew ==
  ASSUME PoolInv, NEW e \in Event, NEW p \in Priority, fate[e] = "new"
  PROVE  /\ \A x \in heap : x.seq < NewEntry(e, p).seq /\ x.ev # e
         /\ NewEntry(e, p) \notin heap
         /\ NewEntry(e, p).pri = p /\ NewEntry(e, p).ev = e
         /\ NewEntry(e, p).seq = counter
         /\ NewEntry(e, p) = [pri |-> p, seq |-> counter, ev |-> e]
         /\ Cardinality(heap \cup {NewEntry(e, p)}) = Cardinality(heap) + 1
  BY HeapFacts, FS_AddElement DEF NewEntry

LEMMA PutKeepsHeapOk ==
  ASSUME PoolInv, NEW e \in Event, NEW p \in Priority, Put(e, p)
  PROVE  HeapOk'
<1> DEFINE n == NewEntry(e, p)
<1>0. fate[e] = "new"
  BY DEF Put, PutAccept, PutEvict, PutDrop
<1>1. ASSUME NEW h \in SUBSET heap, heap' = h \cup {n}, counter' = counter + 1,
             Cardinality(h) < MaxSize,
             \A x \in h : fate'[x.ev] = "queued", fate'[e] = "queued",
             \A d \in Event : fate'[d] = "queued" => d = e \/ \E x \in h : x.ev = d
      PROVE  HeapOk'
  <2>0. /\ n.seq = counter /\ n.ev = e /\ counter \in Nat
        /\ \A x \in h : /\ x.seq \in Nat /\ x.seq < counter
                         /\ x.seq # n.seq /\ x.ev # n.ev
    <3>1. n.seq = counter /\ n.ev = e
      BY <1>0, NewcomerIsNew
    <3>2. \A x \in heap : x.ev # e
      BY <1>0, NewcomerIsNew
    <3>3. counter \in Nat /\ \A x \in heap : x.seq \in Nat /\ x.seq < counter
      BY HeapFacts
    <3> HIDE DEF n
    <3>4. QED
      BY <3>1, <3>2, <3>3
  <2>1. Cardinality(heap') <= MaxSize
    <3>1. IsFiniteSet(h) /\ Cardinality(h) \in Nat
      BY HeapFacts, FS_Subset, FS_CardinalityType
    <3>2. Cardinality(heap') \in {Cardinality(h), Cardinality(h) + 1}
      BY <1>1, <3>1, FS_AddElement
    <3>3. QED
      BY <1>1, <3>1, <3>2
  <2>2. \A x \in heap' : x.seq < counter' /\ fate'[x.ev] = "queued"
    <3> HIDE DEF n
    <3>1. QED
      BY <2>0, <1>1
  <2>3. \A x, y \in heap' : x.seq = y.seq \/ x.ev = y.ev => x = y
    <3>1. \A x \in h : x.seq # n.seq /\ x.ev # n.ev
      BY <2>0
    <3>2. \A x, y \in h : x.seq = y.seq \/ x.ev = y.ev => x = y
      BY DEF PoolInv, HeapOk
    <3> HIDE DEF n
    <3>3. QED
      BY <3>1, <3>2, <1>1
  <2>4. QueuedIsHeld'
    <3> HIDE DEF n
    <3>1. QED
      BY <2>0, <1>1 DEF QueuedIsHeld
  <2>5. QED
    BY <2>1, <2>2, <2>3, <2>4 DEF HeapOk
<1>2. CASE PutAccept(e, p)
  <2>1. /\ heap' = heap \cup {n} /\ counter' = counter + 1
        /\ fate' = [fate EXCEPT ![e] = "queued"] /\ Cardinality(heap) < MaxSize
    BY <1>2 DEF PutAccept, Push
  <2>2. \A d \in Event : fate'[d] = "queued" => d = e \/ \E x \in heap : x.ev = d
    BY <2>1, HeapFacts DEF PoolInv, HeapOk, QueuedIsHeld
  <2>3. \A x \in heap : fate'[x.ev] = "queued"
    BY <2>1, HeapFacts
  <2>4. fate'[e] = "queued"
    BY <2>1, HeapFacts
  <2> HIDE DEF n
  <2>5. QED
    BY <1>1, <2>1, <2>2, <2>3, <2>4
<1>3. CASE PutEvict(e, p)
  <2>1. PICK w \in heap :
          Push(heap \ {w}, n, [fate EXCEPT ![e] = "queued", ![w.ev] = "evicted"])
    BY <1>3 DEF PutEvict
  <2>2. Cardinality(heap \ {w}) < MaxSize
    <3>1. IsFiniteSet(heap) /\ Cardinality(heap) \in Nat /\ Cardinality(heap) <= MaxSize
      BY HeapFacts
    <3>2. Cardinality(heap \ {w}) = Cardinality(heap) - 1
      BY <3>1, FS_RemoveElement
    <3>3. QED
      BY <3>1, <3>2
  <2>3. w.ev # e
    BY <1>0, NewcomerIsNew
  <2>4. \A x \in heap \ {w} : x.ev # w.ev
    BY DEF PoolInv, HeapOk
  <2>5. \A x \in heap \ {w} : fate'[x.ev] = "queued"
    BY <2>1, <2>4, HeapFacts, <1>0, NewcomerIsNew DEF Push
  <2>6. fate'[e] = "queued"
    BY <2>1, <2>3, HeapFacts DEF Push
  <2>7. \A d \in Event : fate'[d] = "queued" => d = e \/ \E x \in heap \ {w} : x.ev = d
    <3> SUFFICES ASSUME NEW d \in Event, fate'[d] = "queued", d # e
                 PROVE  \E x \in heap \ {w} : x.ev = d
      OBVIOUS
    <3>1. fate[d] = "queued" /\ d # w.ev
      BY <2>1, HeapFacts DEF Push
    <3>2. QED
      BY <3>1 DEF PoolInv, HeapOk, QueuedIsHeld
  <2>8. heap' = (heap \ {w}) \cup {n} /\ counter' = counter + 1
    BY <2>1 DEF Push
  <2> HIDE DEF n
  <2>9. QED
    BY <1>1, <2>2, <2>5, <2>6, <2>7, <2>8
<1>4. CASE PutDrop(e, p)
  <2>1. UNCHANGED <<heap, counter>> /\ fate' = [fate EXCEPT ![e] = "dropped"]
    BY <1>4 DEF PutDrop
  <2>2. QED
    BY <2>1, <1>0, HeapFacts, NewcomerIsNew DEF PoolInv, HeapOk, QueuedIsHeld
<1>5. QED
  BY <1>2, <1>3, <1>4 DEF Put

LEMMA NextPoolInv == PoolInv /\ [Next]_vars => PoolInv'
<1> SUFFICES ASSUME PoolInv, [Next]_vars PROVE PoolInv'
  OBVIOUS
<1>0. BusInv'
  BY NextBusInv DEF PoolInv
<1>1. ASSUME NEW e \in Event, NEW p \in Priority, Put(e, p) PROVE HeapOk'
  BY <1>1, PutKeepsHeapOk
<1>2. ASSUME NEW c \in Consumer, GetPop(c) PROVE HeapOk'
  <2>1. PICK b \in heap : /\ heap' = heap \ {b}
                          /\ fate' = [fate EXCEPT ![b.ev] = "delivered"]
    BY <1>2 DEF GetPop
  <2>2. \A x \in heap \ {b} : x.ev # b.ev
    BY DEF PoolInv, HeapOk
  <2>3. Cardinality(heap') <= MaxSize
    <3>1. IsFiniteSet(heap) /\ Cardinality(heap) \in Nat /\ Cardinality(heap) <= MaxSize
      BY HeapFacts
    <3>2. Cardinality(heap \ {b}) = Cardinality(heap) - 1
      BY <3>1, FS_RemoveElement
    <3>3. QED
      BY <2>1, <3>1, <3>2
  <2>4. QED
    BY <1>2, <2>1, <2>2, <2>3, HeapFacts DEF GetPop, PoolInv, HeapOk, QueuedIsHeld
<1>3. ASSUME UNCHANGED <<heap, counter, fate>> PROVE HeapOk'
  BY <1>3 DEF PoolInv, HeapOk, QueuedIsHeld
<1>4. QED
  BY <1>0, <1>1, <1>2, <1>3
     DEF Next, GetStep, GetPark, GetNull, Close, PauseDispatch, ResumeDispatch,
         vars, PoolInv

\* The pool counts its entries with the operator of its own FiniteSets.
LEMMA SameCardinality == \A S : Queue!Cardinality(S) = Cardinality(S)
  BY Zenon DEF Queue!Cardinality, Cardinality

\* put(), whichever of its three branches runs, is one Offer of the pool: the
\* entry findWorst() picks is the most expendable of the queue AND the newcomer.
LEMMA PutIsOffer ==
  ASSUME PoolInv, NEW e \in Event, NEW p \in Priority, Put(e, p)
  PROVE  Queue!Offer(e, p)
<1> DEFINE n == NewEntry(e, p)
<1> DEFINE new == [pri |-> p, seq |-> counter, ev |-> e]
<1> DEFINE pool == heap \cup {new}
<1>0. fate[e] = "new"
  BY DEF Put, PutAccept, PutEvict, PutDrop
<1>1. /\ n = new /\ new \notin heap
      /\ Cardinality(pool) = Cardinality(heap) + 1
      /\ new.pri = p /\ new.seq = counter /\ new.ev = e
      /\ \A x \in heap : x.seq < counter /\ x.ev # e
  <2>1. n = new /\ n \notin heap /\ \A x \in heap : x.ev # e
    BY <1>0, NewcomerIsNew
  <2>2. Cardinality(heap \cup {n}) = Cardinality(heap) + 1
    BY <1>0, NewcomerIsNew
  <2>3. \A x \in heap : x.seq < counter
    BY HeapFacts
  <2> HIDE DEF n
  <2>4. QED
    BY <2>1, <2>2, <2>3
<1>2. /\ counter \in Nat /\ Cardinality(heap) \in Nat /\ MaxSize \in Nat
      /\ p \in Nat /\ \A x \in heap : x.pri \in Nat /\ x.seq \in Nat
      /\ fate \in [Event -> Fate] /\ \A x \in heap : x.ev \in Event
  BY HeapFacts
<1>3. CASE PutAccept(e, p)
  <2>1. /\ Cardinality(heap) < MaxSize
        /\ heap' = heap \cup {n} /\ counter' = counter + 1
        /\ fate' = [fate EXCEPT ![e] = "queued"]
        /\ UNCHANGED <<closed, dispatchPaused>>
    BY <1>3 DEF PutAccept, Push
  <2>2. /\ Cardinality(pool) <= MaxSize /\ heap' = pool
        /\ fate' = [fate EXCEPT ![e] = "queued"]
    BY <2>1, <1>1, <1>2
  <2>4. counter' = IF fate'[e] = "queued" THEN counter + 1 ELSE counter
    BY <2>1, <1>2
  <2>5. UNCHANGED <<dispatchPaused, closed>>
    BY <2>1
  <2> HIDE DEF n
  <2>3. QED
    BY <2>2, <2>4, <2>5, <1>0, SameCardinality, Zenon
       DEF Queue!Offer
<1>4. CASE PutEvict(e, p)
  <2>1. PICK w \in heap :
          /\ IsWorst(w, heap) /\ p <= w.pri
          /\ heap' = (heap \ {w}) \cup {n} /\ counter' = counter + 1
          /\ fate' = [fate EXCEPT ![e] = "queued", ![w.ev] = "evicted"]
    BY <1>4 DEF PutEvict, Push
  <2>2. Cardinality(heap) >= MaxSize /\ UNCHANGED <<closed, dispatchPaused>>
    BY <1>4 DEF PutEvict
  <2>3. w # new /\ w.ev # e /\ heap' = pool \ {w}
    BY <2>1, <1>1
  <2>4. Queue!MostExpendable(w, pool)
    <3>1. \A y \in heap : y.pri <= w.pri /\ (y.pri = w.pri => w.seq <= y.seq)
      BY <2>1, <1>2 DEF IsWorst
    <3>2. new.pri <= w.pri /\ (new.pri = w.pri => w.seq <= new.seq)
      BY <2>1, <1>1, <1>2
    <3> HIDE DEF new
    <3>3. QED
      BY <3>1, <3>2 DEF Queue!MostExpendable
  <2>5. fate'[e] = "queued"
    BY <2>1, <2>3, <1>2
  <2>6. Cardinality(pool) > MaxSize
    BY <2>2, <1>1, <1>2
  <2>7. \E x \in pool :
          /\ Queue!MostExpendable(x, pool)
          /\ heap' = pool \ {x}
          /\ fate' = IF x = new THEN [fate EXCEPT ![e] = "dropped"]
                     ELSE [fate EXCEPT ![e] = "queued", ![x.ev] = "evicted"]
    <3> HIDE DEF new
    <3>1. QED
      BY <2>1, <2>3, <2>4
  <2>8. counter' = IF fate'[e] = "queued" THEN counter + 1 ELSE counter
    BY <2>1, <2>5
  <2> HIDE DEF n
  <2>9. UNCHANGED <<dispatchPaused, closed>>
    BY <2>2
  <2>10. QED
    BY <2>6, <2>7, <2>8, <2>9, <1>0, SameCardinality, Zenon
       DEF Queue!Offer
<1>5. CASE PutDrop(e, p)
  <2>1. PICK w \in heap : IsWorst(w, heap) /\ p > w.pri
    BY <1>5 DEF PutDrop
  <2>2. /\ Cardinality(heap) >= MaxSize
        /\ fate' = [fate EXCEPT ![e] = "dropped"]
        /\ UNCHANGED <<heap, counter, closed, dispatchPaused>>
    BY <1>5 DEF PutDrop
  <2>3. Queue!MostExpendable(new, pool)
    <3>1. \A y \in heap : y.pri < new.pri
      BY <2>1, <1>1, <1>2 DEF IsWorst
    <3>2. new.pri \in Nat /\ new.seq \in Nat
      BY <1>1, <1>2
    <3> HIDE DEF new
    <3>3. QED
      BY <3>1, <3>2, <1>2 DEF Queue!MostExpendable
  <2>4. fate'[e] = "dropped"
    BY <2>2, <1>2
  <2>5. heap' = pool \ {new}
    BY <2>2, <1>1
  <2>6. Cardinality(pool) > MaxSize
    BY <2>2, <1>1, <1>2
  <2>7. \E x \in pool :
          /\ Queue!MostExpendable(x, pool)
          /\ heap' = pool \ {x}
          /\ fate' = IF x = new THEN [fate EXCEPT ![e] = "dropped"]
                     ELSE [fate EXCEPT ![e] = "queued", ![x.ev] = "evicted"]
    <3> HIDE DEF new
    <3>1. QED
      BY <2>2, <2>3, <2>5
  <2>8. counter' = IF fate'[e] = "queued" THEN counter + 1 ELSE counter
    BY <2>2, <2>4
  <2> HIDE DEF n
  <2>9. UNCHANGED <<dispatchPaused, closed>>
    BY <2>2
  <2>10. QED
    BY <2>6, <2>7, <2>8, <2>9, <1>0, SameCardinality, Zenon
       DEF Queue!Offer
<1>6. QED
  BY <1>3, <1>4, <1>5 DEF Put

\* A get() that returns an event is one Deliver, whichever consumer it was.
LEMMA PopIsDeliver ==
  ASSUME PoolInv, NEW c \in Consumer, GetPop(c)
  PROVE  Queue!Deliver
<1>1. PICK b \in heap : /\ IsBest(b, heap) /\ heap' = heap \ {b}
                        /\ fate' = [fate EXCEPT ![b.ev] = "delivered"]
  BY DEF GetPop
<1>2. Queue!MostUrgent(b, heap)
  <2>1. ASSUME NEW y \in heap PROVE b.pri <= y.pri /\ (y.pri = b.pri => b.seq <= y.seq)
    BY <1>1, HeapFacts DEF IsBest, Before
  <2>2. QED
    BY <2>1 DEF Queue!MostUrgent
<1>3. ~dispatchPaused /\ UNCHANGED <<counter, dispatchPaused, closed>>
  BY DEF GetPop, MustWait
<1>4. QED
  BY <1>1, <1>2, <1>3 DEF Queue!Deliver

\* Everything else is the pool's own pause, resume or close, or invisible to it:
\* parking, waking and the end of a consumer's loop.
LEMMA StepIsPoolStep ==
  PoolInv /\ [Next]_vars => [Queue!Next]_(Queue!vars)
<1> SUFFICES ASSUME PoolInv, [Next]_vars PROVE [Queue!Next]_(Queue!vars)
  OBVIOUS
<1>1. ASSUME NEW e \in Event, NEW p \in Priority, Put(e, p) PROVE Queue!Next
  BY <1>1, PutIsOffer DEF Queue!Next
<1>2. ASSUME NEW c \in Consumer, GetPop(c) PROVE Queue!Next
  BY <1>2, PopIsDeliver DEF Queue!Next
<1>3. ASSUME NEW c \in Consumer, GetPark(c) \/ GetNull(c) PROVE UNCHANGED Queue!vars
  BY <1>3 DEF GetPark, GetNull, Queue!vars
<1>4. ASSUME Close \/ PauseDispatch \/ ResumeDispatch PROVE Queue!Next
  BY <1>4 DEF Close, PauseDispatch, ResumeDispatch,
              Queue!Close, Queue!Pause, Queue!Resume, Queue!Next
<1>5. ASSUME UNCHANGED vars PROVE UNCHANGED Queue!vars
  BY <1>5 DEF vars, Queue!vars
<1>6. QED
  BY <1>1, <1>2, <1>3, <1>4, <1>5 DEF Next, GetStep

\* The heap never grows beyond its capacity.
THEOREM CapacityKept == Spec => [](Cardinality(heap) <= MaxSize)
<1>1. PoolInv => Cardinality(heap) <= MaxSize
  BY DEF PoolInv, HeapOk
<1>2. QED
  BY <1>1, InitPoolInv, NextPoolInv, PTL DEF Spec

\* No queued event vanishes and none is queued twice: the events whose fate is
\* still open are exactly those of the heap, one entry each.
THEOREM QueuedExactlyOnce ==
  Spec => [](\A e \in Event : fate[e] = "queued" <=>
               \E x \in heap : x.ev = e /\ \A y \in heap : y.ev = e => y = x)
<1>1. PoolInv => \A e \in Event : fate[e] = "queued" <=>
                   \E x \in heap : x.ev = e /\ \A y \in heap : y.ev = e => y = x
  BY DEF PoolInv, HeapOk, QueuedIsHeld
<1>2. QED
  BY <1>1, InitPoolInv, NextPoolInv, PTL DEF Spec

\* The safety half of ImplementsEventQueue: with heap, counter and dispatchPaused
\* read as the pool's pending, arrived and paused, every behaviour of the bus
\* starts as the pool does and takes only steps of the pool.
THEOREM BusImplementsPool == Spec => Queue!Init /\ [][Queue!Next]_(Queue!vars)
<1>1. Init => Queue!Init
  BY DEF Init, Queue!Init
<1>2. QED
  BY <1>1, InitPoolInv, NextPoolInv, StepIsPoolStep, PTL DEF Spec
=============================================================================
