------------------------------ MODULE EventBus ------------------------------
(***************************************************************************)
(* core/event-bus.ts: the bounded priority queue between every producer of *)
(* the daemon (adapters, schedule watcher, cron, API routes) and the        *)
(* dispatcher's run loop.  put() is synchronous up to its return, so it is  *)
(* one step; get() runs synchronously until it parks on its own promise, so *)
(* calling it, parking, and resuming after a wake-up are separate steps.    *)
(***************************************************************************)
EXTENDS Integers, Sequences, FiniteSets

CONSTANTS
  Event,      \* event objects; each is put at most once
  Consumer,   \* callers of get()
  Priority,   \* values of EventPriority: the smaller, the more urgent
  MaxSize     \* capacity of the heap

ASSUME BusAssumption ==
  /\ MaxSize \in Nat \ {0}
  /\ Priority \subseteq Nat
  /\ IsFiniteSet(Consumer)

VARIABLES
  heap,            \* set of entries [pri, seq, ev]
  counter,         \* sequence number of the next entry
  waitQueue,       \* parked consumers, oldest first
  closed,          \* close() was called
  dispatchPaused,  \* pauseDispatch() is in force
  consumer,        \* where each consumer stands in its get() loop
  fate             \* history: what became of each event

vars == <<heap, counter, waitQueue, closed, dispatchPaused, consumer, fate>>

Entry == [pri : Priority, seq : Nat, ev : Event]

\* "busy": outside get(); "parked": its resolver is in waitQueue; "woken": the
\* resolver ran and the loop condition is about to be read again;
\* "wokenClosed": woken by close(); "done": get() returned null.
ConsumerState == {"busy", "parked", "woken", "wokenClosed", "done"}
Fate == {"new", "queued", "delivered", "evicted", "dropped"}

TypeOK ==
  /\ heap \in SUBSET Entry
  /\ counter \in Nat
  /\ waitQueue \in Seq(Consumer)
  /\ closed \in BOOLEAN
  /\ dispatchPaused \in BOOLEAN
  /\ consumer \in [Consumer -> ConsumerState]
  /\ fate \in [Event -> Fate]

Init ==
  /\ heap = {}
  /\ counter = 0
  /\ waitQueue = << >>
  /\ closed = FALSE
  /\ dispatchPaused = FALSE
  /\ consumer = [c \in Consumer |-> "busy"]
  /\ fate = [e \in Event |-> "new"]

-----------------------------------------------------------------------------
\* Mutation: among equals the newest goes first.
NewestBefore(a, b) == a.pri < b.pri \/ (a.pri = b.pri /\ a.seq > b.seq)

\* The heap's comparator: priority first, then arrival.
Before(a, b) == a.pri < b.pri \/ (a.pri = b.pri /\ a.seq < b.seq)

IsBest(e, h) == e \in h /\ \A f \in h \ {e} : Before(e, f)

\* findWorst: the highest priority number and, among equals, the OLDEST entry.
IsWorst(e, h) ==
  e \in h /\ \A f \in h : f.pri < e.pri \/ (f.pri = e.pri /\ e.seq <= f.seq)

\* Mutation: the counter is decremented before use.
EntryOffByOne(e, p) == [pri |-> p, seq |-> counter - 1, ev |-> e]

NewEntry(e, p) == [pri |-> p, seq |-> counter, ev |-> e]

\* waitQueue.shift(); waiter?.()
WakeOne ==
  IF waitQueue = << >>
  THEN UNCHANGED <<waitQueue, consumer>>
  ELSE /\ waitQueue' = Tail(waitQueue)
       /\ consumer' = [consumer EXCEPT ![Head(waitQueue)] = "woken"]

Push(h, entry, f) ==
  /\ heap' = h \cup {entry}
  /\ counter' = counter + 1
  /\ fate' = f
  /\ WakeOne

\* put() while there is room.
PutAccept(e, p) ==
  /\ fate[e] = "new"
  /\ Cardinality(heap) < MaxSize
  /\ Push(heap, NewEntry(e, p), [fate EXCEPT ![e] = "queued"])
  /\ UNCHANGED <<closed, dispatchPaused>>

\* put() on a full heap: the newcomer is at least as important as the worst.
PutEvict(e, p) ==
  /\ fate[e] = "new"
  /\ Cardinality(heap) >= MaxSize
  /\ \E w \in heap :
       /\ IsWorst(w, heap)
       /\ p <= w.pri
       /\ Push(heap \ {w}, NewEntry(e, p),
               [fate EXCEPT ![e] = "queued", ![w.ev] = "evicted"])
  /\ UNCHANGED <<closed, dispatchPaused>>

\* put() on a full heap: strictly less important than everything queued.
PutDrop(e, p) ==
  /\ fate[e] = "new"
  /\ Cardinality(heap) >= MaxSize
  /\ \E w \in heap : IsWorst(w, heap) /\ p > w.pri
  /\ fate' = [fate EXCEPT ![e] = "dropped"]
  /\ UNCHANGED <<heap, counter, waitQueue, closed, dispatchPaused, consumer>>

Put(e, p) == PutAccept(e, p) \/ PutEvict(e, p) \/ PutDrop(e, p)

-----------------------------------------------------------------------------
MustWait == heap = {} \/ dispatchPaused

\* The loop of get() as run by a caller that just entered it or just woke.
InLoop(c) == consumer[c] \in {"busy", "woken"}

GetPop(c) ==
  /\ InLoop(c)
  /\ ~MustWait
  /\ \E b \in heap :
       /\ IsBest(b, heap)
       /\ heap' = heap \ {b}
       /\ fate' = [fate EXCEPT ![b.ev] = "delivered"]
  /\ consumer' = [consumer EXCEPT ![c] = "busy"]
  /\ UNCHANGED <<counter, waitQueue, closed, dispatchPaused>>

\* Mutation: the loop parks without looking at `closed`.
ParkAlways(c) ==
  /\ InLoop(c)
  /\ MustWait
  /\ waitQueue' = Append(waitQueue, c)
  /\ consumer' = [consumer EXCEPT ![c] = "parked"]
  /\ UNCHANGED <<heap, counter, closed, dispatchPaused, fate>>

GetPark(c) ==
  /\ InLoop(c)
  /\ MustWait
  /\ ~closed
  /\ waitQueue' = Append(waitQueue, c)
  /\ consumer' = [consumer EXCEPT ![c] = "parked"]
  /\ UNCHANGED <<heap, counter, closed, dispatchPaused, fate>>

\* get() returns null: found closed with nothing to pop, or woken by close().
GetNull(c) ==
  /\ \/ InLoop(c) /\ MustWait /\ closed
     \/ consumer[c] = "wokenClosed"
  /\ consumer' = [consumer EXCEPT ![c] = "done"]
  /\ UNCHANGED <<heap, counter, waitQueue, closed, dispatchPaused, fate>>

-----------------------------------------------------------------------------
\* Mutation: the resolvers are called and stay in the queue.
CloseKeepingWaiters ==
  /\ ~closed
  /\ closed' = TRUE
  /\ consumer' = [c \in Consumer |-> IF consumer[c] = "parked"
                                     THEN "wokenClosed" ELSE consumer[c]]
  /\ UNCHANGED <<heap, counter, waitQueue, dispatchPaused, fate>>

Close ==
  /\ ~closed
  /\ closed' = TRUE
  /\ consumer' = [c \in Consumer |-> IF consumer[c] = "parked"
                                     THEN "wokenClosed" ELSE consumer[c]]
  /\ waitQueue' = << >>
  /\ UNCHANGED <<heap, counter, dispatchPaused, fate>>

PauseDispatch ==
  /\ ~dispatchPaused
  /\ dispatchPaused' = TRUE
  /\ UNCHANGED <<heap, counter, waitQueue, closed, consumer, fate>>

\* One notify per queued entry, as long as somebody waits.
Notified(n) == {waitQueue[i] : i \in {j \in 1..Len(waitQueue) : j <= n}}

\* Mutation: one wake-up, whatever the backlog.
ResumeOne ==
  /\ dispatchPaused
  /\ dispatchPaused' = FALSE
  /\ WakeOne
  /\ UNCHANGED <<heap, counter, closed, fate>>

ResumeDispatch ==
  /\ dispatchPaused
  /\ dispatchPaused' = FALSE
  /\ LET n == Cardinality(heap) IN
       /\ waitQueue' = SubSeq(waitQueue, n + 1, Len(waitQueue))
       /\ consumer' = [c \in Consumer |-> IF c \in Notified(n)
                                          THEN "woken" ELSE consumer[c]]
  /\ UNCHANGED <<heap, counter, closed, fate>>

GetStep(c) == GetPop(c) \/ GetPark(c) \/ GetNull(c)

Next ==
  \/ \E e \in Event, p \in Priority : Put(e, p)
  \/ \E c \in Consumer : GetStep(c)
  \/ Close
  \/ PauseDispatch
  \/ ResumeDispatch

Spec == Init /\ [][Next]_vars

\* The event loop runs every ready continuation, and the dispatcher's loop
\* calls get() again at once; producers, close() and pause are not obliged to
\* act, but the migration resumes dispatch in its finally block.
Fairness ==
  /\ \A c \in Consumer : WF_vars(GetStep(c))
  /\ WF_vars(ResumeDispatch)

FairSpec == Spec /\ Fairness

-----------------------------------------------------------------------------
\* The waiters registered in waitQueue are exactly the parked consumers, each
\* once: a wake-up (put, resume, close) is never spent on a resolver that
\* already ran, and a parked consumer can always be reached.
WaitersExact ==
  /\ \A i, j \in 1..Len(waitQueue) : waitQueue[i] = waitQueue[j] => i = j
  /\ \A c \in Consumer :
       consumer[c] = "parked" <=> \E i \in 1..Len(waitQueue) : waitQueue[i] = c

Woken == {c \in Consumer : consumer[c] = "woken"}

\* No lost wake-up: as long as somebody is parked on a bus that is not paused,
\* there are at least as many consumers already woken as entries queued, so
\* nobody sleeps next to an event that nobody is coming for (put() wakes one
\* waiter per entry, resumeDispatch() one per queued entry, and a woken
\* consumer that was overtaken parks again).
NoLostWakeup ==
  waitQueue # << >> /\ ~dispatchPaused => Cardinality(heap) <= Cardinality(Woken)

\* close() ends every consumer's loop, whatever it was doing: the parked ones,
\* those woken in the same tick, and those that come back to a bus which is
\* both paused and closed.
CloseReleasesAll == closed ~> \A c \in Consumer : consumer[c] = "done"

\* The bus implements the abstract pool: it never holds more than MaxSize, drops
\* and hands out the entries it should, nothing twice, nothing while dispatch is
\* paused (also to a consumer woken before the pause), and hands out what is
\* pending while the bus is open and not paused.
Queue == INSTANCE EventQueue WITH pending <- heap, arrived <- counter,
                                  paused <- dispatchPaused
ImplementsEventQueue == Queue!Spec
=============================================================================
