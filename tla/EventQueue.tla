----------------------------- MODULE EventQueue -----------------------------
(***************************************************************************)
(* What the event bus promises, without heaps, waiters or wake-ups: a pool  *)
(* of at most MaxSize pending events that always gives up its most          *)
(* expendable member when it overflows and always hands out its most urgent *)
(* one, unless dispatch is paused.                                          *)
(***************************************************************************)
EXTENDS Integers, FiniteSets

CONSTANTS Event, Priority, MaxSize

VARIABLES
  pending,   \* entries [pri, seq, ev] waiting to be handed out
  arrived,   \* number of entries ever admitted
  paused, closed,
  fate       \* what became of each event

vars == <<pending, arrived, paused, closed, fate>>

Init ==
  /\ pending = {}
  /\ arrived = 0
  /\ paused = FALSE
  /\ closed = FALSE
  /\ fate = [e \in Event |-> "new"]

\* The least urgent member and, among equally urgent ones, the oldest.
MostExpendable(x, pool) ==
  x \in pool /\ \A y \in pool : y.pri <= x.pri /\ (y.pri = x.pri => x.seq <= y.seq)

\* The most urgent member and, among equally urgent ones, the oldest.
MostUrgent(x, pool) ==
  x \in pool /\ \A y \in pool : x.pri <= y.pri /\ (y.pri = x.pri => x.seq <= y.seq)

Offer(e, p) ==
  LET new  == [pri |-> p, seq |-> arrived, ev |-> e]
      pool == pending \cup {new}
  IN /\ fate[e] = "new"
     /\ \/ /\ Cardinality(pool) <= MaxSize
           /\ pending' = pool
           /\ fate' = [fate EXCEPT ![e] = "queued"]
        \/ /\ Cardinality(pool) > MaxSize
           /\ \E x \in pool :
                /\ MostExpendable(x, pool)
                /\ pending' = pool \ {x}
                /\ fate' = IF x = new THEN [fate EXCEPT ![e] = "dropped"]
                           ELSE [fate EXCEPT ![e] = "queued", ![x.ev] = "evicted"]
     /\ arrived' = IF fate'[e] = "queued" THEN arrived + 1 ELSE arrived
     /\ UNCHANGED <<paused, closed>>

Deliver ==
  /\ ~paused
  /\ \E x \in pending :
       /\ MostUrgent(x, pending)
       /\ pending' = pending \ {x}
       /\ fate' = [fate EXCEPT ![x.ev] = "delivered"]
  /\ UNCHANGED <<arrived, paused, closed>>

Pause  == ~paused /\ paused' = TRUE /\ UNCHANGED <<pending, arrived, closed, fate>>
Resume == paused /\ paused' = FALSE /\ UNCHANGED <<pending, arrived, closed, fate>>
Close  == ~closed /\ closed' = TRUE /\ UNCHANGED <<pending, arrived, paused, fate>>

Next ==
  \/ \E e \in Event, p \in Priority : Offer(e, p)
  \/ Deliver
  \/ Pause
  \/ Resume
  \/ Close

\* While the bus is open a pending event is handed out: no wake-up gets lost.
Spec == Init /\ [][Next]_vars /\ WF_vars(Deliver /\ ~closed)
=============================================================================
