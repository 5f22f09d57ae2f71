------------------------- MODULE Dispatcher_proofs -------------------------
(***************************************************************************)
(* Proofs about the session gates and the dispatcher that uses them, for    *)
(* any number of calls, keys, events, conversations and permits.            *)
(*                                                                          *)
(* Part 1 is about SessionGate alone: the calls inside one scope are never  *)
(* two, and they are served in the order in which they joined.  `order[k]`  *)
(* lists the calls in the chain of k, each linked by `previous` to the one  *)
(* before it (Linked).  Whoever holds k has seen its predecessor leave      *)
(* (HoldersSettled), and a predecessor still in the list has not left, so a *)
(* holder has no predecessor: it is the head.                               *)
(*                                                                          *)
(* Part 2: part 1 holds in the dispatcher, whose steps are steps of the     *)
(* gates or leave them alone; permits are conserved; and whoever is in a    *)
(* chain holds a permit.                                                    *)
(*                                                                          *)
(* Part 3: no deadlock, stated with the guards of the actions.  Inside the  *)
(* gates, the head of the chain of the greatest key that anybody awaits can *)
(* always go on; outside, who waits for a permit waits for a holder.        *)
(***************************************************************************)
EXTENDS Dispatcher, FiniteSetTheorems, WellFoundedInduction, TLAPS

-----------------------------------------------------------------------------
(* Part 1: the session gates.                                               *)

InChain(t, k) == \E i \in 1..Len(order[k]) : order[k][i] = t

\* The list of k holds exactly the calls that joined k and have not left it.
OrderExact ==
  /\ \A k \in Key, t \in Task : InChain(t, k) <=> k \in joined[t] \ released[t]
  /\ \A k \in Key : \A i, j \in 1..Len(order[k]) : order[k][i] = order[k][j] => i = j

Linked ==
  \A k \in Key : \A i \in 1..Len(order[k]) :
    IF i = 1 THEN PreviousSettled(order[k][1], k)
    ELSE previous[order[k][i]][k] = order[k][i - 1]

HoldersSettled ==
  \A k \in Key, t \in Task : Holds(t, k) => PreviousSettled(t, k)

\* sort(): whatever a call has joined comes before whatever it still wants.
Sorted ==
  \A t \in Task :
    /\ released[t] \subseteq joined[t]
    /\ joined[t] \subseteq Wanted[t]
    /\ \A j \in joined[t], w \in Wanted[t] \ joined[t] : j < w

GateInv ==
  GateTypeOK /\ OrderExact /\ Linked /\ HoldersSettled /\ Sorted /\ ChainsExact

-----------------------------------------------------------------------------
\* A holder is the head of the list: the core of the argument.
LEMMA HolderIsHead ==
  ASSUME GateInv, NEW k \in Key, NEW t \in Task, Holds(t, k)
  PROVE  order[k] # << >> /\ order[k][1] = t
<1>1. PICK i \in 1..Len(order[k]) : order[k][i] = t
  BY DEF GateInv, OrderExact, InChain, Holds
<1>2. order[k] \in Seq(Task)
  BY DEF GateInv, GateTypeOK
<1>3. ASSUME i # 1
      PROVE  FALSE
  <2>1. i - 1 \in 1..Len(order[k])
    BY <1>1, <1>2, <1>3
  <2>2. PICK u \in Task : u = order[k][i - 1]
    BY <1>2, <2>1
  <2>3. previous[t][k] = u
    BY <1>1, <1>3, <2>2 DEF GateInv, Linked
  <2>4. InChain(u, k)
    BY <2>1, <2>2 DEF InChain
  <2>5. k \notin released[u]
    BY <2>4 DEF GateInv, OrderExact
  <2>6. PreviousSettled(t, k)
    BY DEF GateInv, HoldersSettled
  <2>7. u # None
    BY GateAssumption
  <2> QED
    BY <2>3, <2>5, <2>6, <2>7 DEF PreviousSettled
<1> QED
  BY <1>1, <1>2, <1>3

LEMMA InvImpliesOrder == GateInv => FirstComeFirstServed
  BY HolderIsHead DEF FirstComeFirstServed, GateInv, GateTypeOK

LEMMA InvImpliesExclusive == GateInv => GateExclusive
  BY HolderIsHead DEF GateExclusive

-----------------------------------------------------------------------------
LEMMA InitEstablishes == GateInit => GateInv
<1> SUFFICES ASSUME GateInit
             PROVE  GateInv
  OBVIOUS
<1>1. GateTypeOK
  BY DEF GateInit, GateTypeOK, Stage
<1>2. OrderExact
  BY DEF GateInit, OrderExact, InChain
<1>3. Linked
  BY DEF GateInit, Linked
<1>4. HoldersSettled
  BY DEF GateInit, HoldersSettled, Holds
<1>5. Sorted
  BY GateAssumption DEF GateInit, Sorted
<1>6. ChainsExact
  BY DEF GateInit, ChainsExact
<1> QED
  BY <1>1, <1>2, <1>3, <1>4, <1>5, <1>6 DEF GateInv

\* A step that joins the chain of a next key keeps everything but HoldersSettled,
\* which depends on how the key before was left.
LEMMA JoinPreserves ==
  ASSUME GateInv, NEW t \in Task, NEW k \in Key, NextKey(t, k), Join(t, k),
         UNCHANGED released, stage' \in [Task -> Stage]
  PROVE  /\ GateTypeOK' /\ OrderExact' /\ Linked' /\ Sorted' /\ ChainsExact'
         /\ Greatest(k, joined'[t])
         /\ \A u \in Task, j \in Key : u # t \/ j # k =>
              /\ j \in joined'[u] <=> j \in joined[u]
              /\ PreviousSettled(u, j)' <=> PreviousSettled(u, j)
<1> USE DEF GateInv, GateTypeOK
<1>1. /\ k \in Wanted[t] /\ k \notin joined[t] /\ k \notin released[t]
      /\ \A w \in Wanted[t] \ joined[t] : k <= w
  BY DEF NextKey, Least, Sorted
<1>2. /\ previous' = [previous EXCEPT ![t][k] = chains[k]]
      /\ chains' = [chains EXCEPT ![k] = t]
      /\ joined' = [joined EXCEPT ![t] = @ \cup {k}]
      /\ order' = [order EXCEPT ![k] = Append(@, t)]
  BY DEF Join
<1>3. GateTypeOK'
  BY <1>2
<1>4. \A j \in Key : order[j] \in Seq(Task) /\ Len(order[j]) \in Nat
  OBVIOUS
<1>5. /\ order'[k] = Append(order[k], t)
      /\ Len(order'[k]) = Len(order[k]) + 1
      /\ order'[k][Len(order[k]) + 1] = t
      /\ \A i \in 1..Len(order[k]) : order'[k][i] = order[k][i]
      /\ \A j \in Key \ {k} : order'[j] = order[j]
  BY <1>2, <1>4
<1>12. /\ 1..Len(order'[k]) = (1..Len(order[k])) \cup {Len(order[k]) + 1}
       /\ Len(order[k]) + 1 \notin 1..Len(order[k])
  BY <1>4, <1>5
<1>6. ~InChain(t, k)
  BY <1>1 DEF OrderExact
<1>7. OrderExact'
  <2>1. ASSUME NEW j \in Key, NEW u \in Task
        PROVE  (InChain(u, j) <=> j \in joined[u] \ released[u])'
    <3>1. CASE j # k
      <4>1. InChain(u, j)' <=> InChain(u, j)
        BY <1>5, <3>1 DEF InChain
      <4>2. joined'[u] \ {k} = joined[u] \ {k}
        BY <1>2
      <4> QED
        BY <3>1, <4>1, <4>2 DEF OrderExact
    <3>2. CASE j = k
      <4>1. InChain(u, k)' <=> InChain(u, k) \/ u = t
        <5>1. ASSUME InChain(u, k)' PROVE InChain(u, k) \/ u = t
          <6>1. PICK i \in 1..Len(order'[k]) : order'[k][i] = u
            BY <5>1 DEF InChain
          <6> QED
            BY <1>5, <1>12, <6>1 DEF InChain
        <5>2. ASSUME InChain(u, k) \/ u = t PROVE InChain(u, k)'
          <6>1. \E i \in 1..Len(order'[k]) : order'[k][i] = u
            <7>1. CASE u = t
              BY <1>5, <1>12, <7>1
            <7>2. CASE InChain(u, k)
              BY <1>5, <1>12, <7>2 DEF InChain
            <7> QED
              BY <5>2, <7>1, <7>2
          <6> QED
            BY <6>1 DEF InChain
        <5> QED
          BY <5>1, <5>2
      <4>2. k \in joined'[u] <=> k \in joined[u] \/ u = t
        BY <1>2
      <4> QED
        BY <1>1, <3>2, <4>1, <4>2 DEF OrderExact
    <3> QED
      BY <3>1, <3>2
  <2>2. ASSUME NEW j \in Key, NEW m \in (1..Len(order[j]))', NEW n \in (1..Len(order[j]))',
               order'[j][m] = order'[j][n]
        PROVE  m = n
    <3>1. CASE j # k
      BY <1>5, <2>2, <3>1 DEF OrderExact
    <3>2. CASE j = k
      <4>1. \A i \in 1..Len(order[k]) : order[k][i] # t
        BY <1>6 DEF InChain
      <4>2. /\ m \in (1..Len(order[k])) \cup {Len(order[k]) + 1}
            /\ n \in (1..Len(order[k])) \cup {Len(order[k]) + 1}
            /\ order'[k][m] = order'[k][n]
        BY <1>12, <2>2, <3>2
      <4>3. \A x, y \in 1..Len(order[k]) : order[k][x] = order[k][y] => x = y
        BY DEF OrderExact
      <4> HIDE DEF GateInv, GateTypeOK
      <4> QED
        BY <1>5, <4>1, <4>2, <4>3
    <3> QED
      BY <3>1, <3>2
  <2> QED
    BY <2>1, <2>2 DEF OrderExact
<1>8. ASSUME NEW u \in Task, NEW j \in Key, u # t \/ j # k
      PROVE  /\ j \in joined'[u] <=> j \in joined[u]
             /\ previous'[u][j] = previous[u][j]
             /\ PreviousSettled(u, j)' <=> PreviousSettled(u, j)
  <2>1. (j \in joined'[u] <=> j \in joined[u]) /\ previous'[u][j] = previous[u][j]
    BY <1>2, <1>8
  <2> QED
    BY <2>1 DEF PreviousSettled
<1>9. Linked'
  <2> SUFFICES ASSUME NEW j \in Key, NEW i \in 1..Len(order'[j])
               PROVE  /\ i = 1 => PreviousSettled(order[j][1], j)'
                      /\ i # 1 => previous'[order'[j][i]][j] = order'[j][i - 1]
    BY DEF Linked
  <2>1. CASE j # k
    <3>1. order[j][i] \in Task
      BY <1>4, <1>5, <2>1
    <3> QED
      BY <1>5, <1>8, <2>1, <3>1 DEF Linked, PreviousSettled
  <2>2. CASE j = k /\ i <= Len(order[k])
    <3>1. order'[k][i] = order[k][i] /\ order[k][i] \in Task /\ order[k][i] # t
      BY <1>4, <1>5, <1>6, <2>2 DEF InChain
    <3>2. i # 1 => order'[k][i - 1] = order[k][i - 1]
      BY <1>4, <1>5, <2>2
    <3> QED
      BY <1>8, <2>2, <3>1, <3>2 DEF Linked, PreviousSettled
  <2>3. CASE j = k /\ i = Len(order[k]) + 1
    <3>1. order'[k][i] = t /\ previous'[t][k] = chains[k]
      BY <1>2, <1>5, <2>3
    <3>2. CASE order[k] = << >>
      <4>1. chains[k] = None /\ i = 1
        BY <2>3, <3>2 DEF ChainsExact
      <4> QED
        BY <2>3, <3>1, <4>1 DEF PreviousSettled
    <3>3. CASE order[k] # << >>
      <4>1. i # 1 /\ i - 1 = Len(order[k]) /\ i - 1 \in 1..Len(order[k])
        BY <1>4, <2>3, <3>3
      <4>2. chains[k] = order[k][i - 1]
        BY <3>3, <4>1 DEF ChainsExact
      <4> QED
        BY <1>5, <2>3, <3>1, <4>1, <4>2
    <3> QED
      BY <3>2, <3>3
  <2> QED
    BY <1>4, <1>5, <2>1, <2>2, <2>3
<1>10. Sorted' /\ Greatest(k, joined'[t])
  <2>1. \A u \in Task \ {t} : joined'[u] = joined[u]
    BY <1>2
  <2>2. joined'[t] = joined[t] \cup {k}
    BY <1>2
  <2>3. \A j \in joined[t] : j < k
    BY <1>1 DEF Sorted
  <2>4. Key \subseteq Nat
    BY GateAssumption
  <2> QED
    <3>1. Greatest(k, joined'[t])
      <4>1. \A j \in joined[t] : j \in Nat /\ k \in Nat
        BY <2>4
      <4> QED
        <5>1. k \in joined'[t]
          BY <2>2
        <5>2. ASSUME NEW j \in joined'[t] PROVE j <= k
          <6>1. j = k \/ j \in joined[t]
            BY <2>2
          <6>2. k <= k
            BY <2>4
          <6>3. j \in joined[t] => j <= k
            BY <2>3, <4>1
          <6> QED
            BY <6>1, <6>2, <6>3
        <5> QED
          BY <5>1, <5>2 DEF Greatest
    <3>2. ASSUME NEW u \in Task
          PROVE  /\ released'[u] \subseteq joined'[u]
                 /\ joined'[u] \subseteq Wanted[u]
                 /\ \A j \in joined'[u], w \in Wanted[u] \ joined'[u] : j < w
      <4>1. CASE u # t
        BY <2>1, <4>1 DEF Sorted
      <4>2. CASE u = t
        <5>1. ASSUME NEW w \in Wanted[t] \ joined'[t]
              PROVE  k < w
          <6>1. k <= w /\ w # k
            BY <1>1, <2>2
          <6>2. w \in Nat /\ k \in Nat
            BY <2>4, GateAssumption
          <6> QED
            BY <6>1, <6>2
        <5> QED
          BY <1>1, <2>2, <4>2, <5>1 DEF Sorted
      <4> QED
        BY <4>1, <4>2
    <3> QED
      BY <3>1, <3>2 DEF Sorted
<1>11. ChainsExact'
  <2> SUFFICES ASSUME NEW j \in Key
               PROVE  chains'[j] = IF order'[j] = << >> THEN None
                                   ELSE order'[j][Len(order'[j])]
    BY DEF ChainsExact
  <2>1. CASE j # k
    BY <1>2, <1>5, <2>1 DEF ChainsExact
  <2>2. CASE j = k
    <3>1. chains'[k] = t
      BY <1>2
    <3>2. order'[k] # << >> /\ order'[k][Len(order'[k])] = t
      <4>1. Len(order'[k]) # 0 /\ Len(order'[k]) = Len(order[k]) + 1
        BY <1>4, <1>5
      <4>2. order'[k] # << >>
        BY <4>1
      <4> QED
        BY <1>5, <4>1, <4>2
    <3> QED
      BY <2>2, <3>1, <3>2
  <2> QED
    BY <2>1, <2>2
<1> QED
  BY <1>3, <1>7, <1>8, <1>9, <1>10, <1>11

\* What t awaited before it joined k, it now holds, and it was settled.
LEMMA JoinSettles ==
  ASSUME GateInv, NEW t \in Task, NEW k \in Key, NextKey(t, k), Join(t, k),
         UNCHANGED released, stage' = [stage EXCEPT ![t] = "waiting"],
         \A j \in Key : Awaiting(t, j) => PreviousSettled(t, j)
  PROVE  HoldersSettled'
<1>1. stage' \in [Task -> Stage]
  BY DEF GateInv, GateTypeOK, Stage
<1>2. /\ Greatest(k, joined'[t])
      /\ \A u \in Task, j \in Key : u # t \/ j # k =>
              /\ j \in joined'[u] <=> j \in joined[u]
              /\ PreviousSettled(u, j)' <=> PreviousSettled(u, j)
  BY <1>1, JoinPreserves
<1> SUFFICES ASSUME NEW u \in Task, NEW j \in Key, Holds(u, j)'
             PROVE  PreviousSettled(u, j)'
  BY DEF HoldersSettled
<1>3. stage'[t] = "waiting"
  BY DEF GateInv, GateTypeOK
<1>4. u # t \/ j # k
  BY <1>2, <1>3 DEF Holds, Awaiting
<1>5. CASE u = t
  <2>1. j \in joined[t] \ released[t]
    BY <1>2, <1>4, <1>5 DEF Holds
  <2>2. Awaiting(t, j) \/ Holds(t, j)
    BY <2>1 DEF Holds
  <2>3. PreviousSettled(t, j)
    BY <2>2 DEF GateInv, HoldersSettled
  <2> QED
    BY <1>2, <1>4, <1>5, <2>3
<1>6. CASE u # t
  <2>1. stage'[u] = stage[u] /\ joined'[u] = joined[u]
    BY <1>6 DEF GateInv, GateTypeOK, Join
  <2>2. Holds(u, j)
    BY <2>1 DEF Holds, Awaiting, Greatest
  <2>3. PreviousSettled(u, j)
    BY <2>2 DEF GateInv, HoldersSettled
  <2> QED
    BY <1>2, <1>6, <2>3
<1> QED
  BY <1>5, <1>6
-----------------------------------------------------------------------------
LEMMA CallPreserves ==
  ASSUME GateInv, NEW t \in Task, Call(t)
  PROVE  GateInv'
<1>1. PICK k \in Key : NextKey(t, k) /\ Join(t, k)
  BY DEF Call
<1>2. /\ stage[t] = "idle" /\ UNCHANGED released
      /\ stage' = [stage EXCEPT ![t] = "waiting"]
  BY DEF Call
<1>3. stage' \in [Task -> Stage]
  BY <1>2 DEF GateInv, GateTypeOK, Stage
<1>4. GateTypeOK' /\ OrderExact' /\ Linked' /\ Sorted' /\ ChainsExact'
  BY <1>1, <1>2, <1>3, JoinPreserves
<1>5. HoldersSettled'
  <2>1. \A j \in Key : ~Awaiting(t, j)
    BY <1>2 DEF Awaiting
  <2> QED
    BY <1>1, <1>2, <2>1, JoinSettles
<1> QED
  BY <1>4, <1>5 DEF GateInv

LEMMA AwaitedSettled ==
  ASSUME GateInv, NEW t \in Task,
         \E k \in Key : Awaiting(t, k) /\ PreviousSettled(t, k)
  PROVE  \A j \in Key : Awaiting(t, j) => PreviousSettled(t, j)
<1>1. PICK k \in Key : Awaiting(t, k) /\ PreviousSettled(t, k)
  OBVIOUS
<1>2. ASSUME NEW j \in Key, Awaiting(t, j)
      PROVE  j = k
  <2>1. j <= k /\ k <= j
    BY <1>1, <1>2 DEF Awaiting, Greatest
  <2>2. j \in Nat /\ k \in Nat
    BY GateAssumption
  <2> QED
    BY <2>1, <2>2
<1> QED
  BY <1>1, <1>2

LEMMA AcquireNextPreserves ==
  ASSUME GateInv, NEW t \in Task, AcquireNext(t)
  PROVE  GateInv'
<1>1. PICK k \in Key : NextKey(t, k) /\ Join(t, k)
  BY DEF AcquireNext
<1>2. stage[t] = "waiting"
  BY DEF AcquireNext, Awaiting
<1>3. UNCHANGED released /\ stage' = [stage EXCEPT ![t] = "waiting"]
  BY <1>2 DEF AcquireNext, GateInv, GateTypeOK
<1>4. stage' \in [Task -> Stage]
  BY <1>3 DEF GateInv, GateTypeOK, Stage
<1>5. GateTypeOK' /\ OrderExact' /\ Linked' /\ Sorted' /\ ChainsExact'
  BY <1>1, <1>3, <1>4, JoinPreserves
<1>6. HoldersSettled'
  <2>1. \A j \in Key : Awaiting(t, j) => PreviousSettled(t, j)
    BY AwaitedSettled DEF AcquireNext
  <2> QED
    BY <1>1, <1>3, <2>1, JoinSettles
<1> QED
  BY <1>5, <1>6 DEF GateInv

LEMMA EnterPreserves ==
  ASSUME GateInv, NEW t \in Task, Enter(t)
  PROVE  GateInv'
<1>1. stage' = [stage EXCEPT ![t] = "running"]
      /\ UNCHANGED <<chains, previous, joined, released, order>>
  BY DEF Enter
<1>2. GateTypeOK'
  BY <1>1 DEF GateInv, GateTypeOK, Stage
<1>3. OrderExact' /\ Linked' /\ Sorted' /\ ChainsExact'
  BY <1>1 DEF GateInv, OrderExact, InChain, Linked, PreviousSettled, Sorted, ChainsExact
<1>4. HoldersSettled'
  <2> SUFFICES ASSUME NEW u \in Task, NEW j \in Key, Holds(u, j)'
               PROVE  PreviousSettled(u, j)
    BY <1>1 DEF HoldersSettled, PreviousSettled
  <2>1. Holds(u, j) \/ (u = t /\ Awaiting(t, j))
    BY <1>1 DEF Holds, Awaiting, Greatest, GateInv, GateTypeOK
  <2>2. \A k \in Key : Awaiting(t, k) => PreviousSettled(t, k)
    BY AwaitedSettled DEF Enter
  <2> QED
    BY <2>1, <2>2 DEF GateInv, HoldersSettled
<1> QED
  BY <1>2, <1>3, <1>4 DEF GateInv

-----------------------------------------------------------------------------
LEMMA LeavePreserves ==
  ASSUME GateInv, NEW t \in Task, Leave(t)
  PROVE  GateInv'
<1> USE DEF GateInv, GateTypeOK
<1>1. PICK k \in Key :
        /\ Greatest(k, joined[t] \ released[t])
        /\ released' = [released EXCEPT ![t] = @ \cup {k}]
        /\ chains' = IF chains[k] = t THEN [chains EXCEPT ![k] = None] ELSE chains
        /\ order' = [order EXCEPT ![k] = Tail(@)]
        /\ stage' = [stage EXCEPT ![t] = IF joined[t] \ released[t] = {k}
                                         THEN "done" ELSE "leaving"]
  BY DEF Leave
<1>2. stage[t] \in {"running", "leaving"} /\ UNCHANGED <<previous, joined>>
  BY DEF Leave
<1>3. Holds(t, k)
  BY <1>1, <1>2 DEF Holds, Awaiting, Greatest
<1>4. order[k] # << >> /\ order[k][1] = t
  BY <1>3, HolderIsHead
<1>5. \A j \in Key : order[j] \in Seq(Task) /\ Len(order[j]) \in Nat
  OBVIOUS
<1>6. /\ order'[k] = Tail(order[k]) /\ order'[k] \in Seq(Task)
      /\ Len(order'[k]) = Len(order[k]) - 1
      /\ \A i \in 1..Len(order'[k]) : i + 1 \in 1..Len(order[k]) /\ order'[k][i] = order[k][i + 1]
      /\ \A j \in Key \ {k} : order'[j] = order[j]
  BY <1>1, <1>4, <1>5
<1>7. GateTypeOK'
  <2>1. order' \in [Key -> Seq(Task)]
    BY <1>1, <1>5, <1>6
  <2>2. stage' \in [Task -> Stage]
    BY <1>1 DEF Stage
  <2> QED
    BY <1>1, <1>2, <2>1, <2>2
<1>8. OrderExact'
  <2>1. ASSUME NEW j \in Key, NEW u \in Task
        PROVE  (InChain(u, j) <=> j \in joined[u] \ released[u])'
    <3>1. CASE j # k
      <4>1. InChain(u, j)' <=> InChain(u, j)
        BY <1>6, <3>1 DEF InChain
      <4>2. j \in released'[u] <=> j \in released[u]
        BY <1>1, <3>1
      <4> QED
        BY <1>2, <4>1, <4>2 DEF OrderExact
    <3>2. CASE j = k
      <4>1. InChain(u, k)' <=> InChain(u, k) /\ u # t
        <5>1. ASSUME InChain(u, k)' PROVE InChain(u, k) /\ u # t
          <6>1. PICK i \in 1..Len(order'[k]) : order'[k][i] = u
            BY <5>1 DEF InChain
          <6>2. i + 1 \in 1..Len(order[k]) /\ order[k][i + 1] = u /\ i + 1 # 1 /\ 1 \in 1..Len(order[k])
            BY <1>5, <1>6, <6>1
          <6> QED
            BY <1>4, <6>2 DEF InChain, OrderExact
        <5>2. ASSUME InChain(u, k), u # t PROVE InChain(u, k)'
          <6>1. PICK i \in 1..Len(order[k]) : order[k][i] = u
            BY <5>2 DEF InChain
          <6>2. i # 1
            BY <1>4, <5>2, <6>1
          <6>3. i - 1 \in 1..Len(order'[k]) /\ (i - 1) + 1 = i
            BY <1>5, <1>6, <6>1, <6>2
          <6>4. order'[k][i - 1] = u
            BY <1>6, <6>1, <6>3
          <6> QED
            BY <6>3, <6>4 DEF InChain
        <5> QED
          BY <5>1, <5>2
      <4>2. k \in released'[u] <=> k \in released[u] \/ u = t
        BY <1>1
      <4> QED
        BY <1>2, <3>2, <4>1, <4>2 DEF OrderExact
    <3> QED
      BY <3>1, <3>2
  <2>2. ASSUME NEW j \in Key, NEW m \in (1..Len(order[j]))', NEW n \in (1..Len(order[j]))',
               order'[j][m] = order'[j][n]
        PROVE  m = n
    <3>1. CASE j # k
      BY <1>6, <2>2, <3>1 DEF OrderExact
    <3>2. CASE j = k
      <4>1. /\ m + 1 \in 1..Len(order[k]) /\ n + 1 \in 1..Len(order[k])
            /\ order[k][m + 1] = order[k][n + 1]
        BY <1>6, <2>2, <3>2
      <4>2. m + 1 = n + 1
        BY <4>1 DEF OrderExact
      <4> QED
        BY <4>2
    <3> QED
      BY <3>1, <3>2
  <2> QED
    BY <2>1, <2>2 DEF OrderExact
<1>9. ASSUME NEW u \in Task, NEW j \in Key, PreviousSettled(u, j)
      PROVE  PreviousSettled(u, j)'
  <2>1. previous[u][j] # None => previous[u][j] \in Task
    OBVIOUS
  <2> QED
    BY <1>1, <1>2, <1>9, <2>1 DEF PreviousSettled
<1>10. Linked'
  <2> SUFFICES ASSUME NEW j \in Key, NEW i \in 1..Len(order'[j])
               PROVE  /\ i = 1 => PreviousSettled(order[j][1], j)'
                      /\ i # 1 => previous'[order'[j][i]][j] = order'[j][i - 1]
    BY DEF Linked
  <2>1. CASE j # k
    <3>1. order[j][i] \in Task
      BY <1>5, <1>6, <2>1
    <3> QED
      BY <1>2, <1>6, <1>9, <2>1, <3>1 DEF Linked
  <2>2. CASE j = k
    <3>1. /\ i + 1 \in 1..Len(order[k]) /\ i + 1 # 1 /\ (i + 1) - 1 = i
          /\ order'[k][i] = order[k][i + 1]
      BY <1>5, <1>6, <2>2
    <3>2. previous[order[k][i + 1]][k] = order[k][i]
      BY <3>1 DEF Linked
    <3>3. CASE i = 1
      <4>1. previous'[order'[k][1]][k] = t
        BY <1>2, <1>4, <3>1, <3>2, <3>3
      <4>2. k \in released'[t]
        BY <1>1
      <4> QED
        BY <2>2, <3>3, <4>1, <4>2 DEF PreviousSettled
    <3>4. CASE i # 1
      <4>1. i - 1 \in 1..Len(order'[k]) /\ (i - 1) + 1 = i
        BY <1>5, <1>6, <2>2, <3>4
      <4>2. order'[k][i - 1] = order[k][i]
        BY <1>6, <4>1
      <4> QED
        BY <1>2, <2>2, <3>1, <3>2, <3>4, <4>2
    <3> QED
      BY <3>3, <3>4
  <2> QED
    BY <2>1, <2>2
<1>11. HoldersSettled'
  <2> SUFFICES ASSUME NEW u \in Task, NEW j \in Key, Holds(u, j)'
               PROVE  PreviousSettled(u, j)
    BY <1>9 DEF HoldersSettled
  <2>1. Holds(u, j)
    BY <1>1, <1>2 DEF Holds, Awaiting
  <2> QED
    BY <2>1 DEF HoldersSettled
<1>12. Sorted'
  <2>1. k \in joined[t]
    BY <1>3 DEF Holds
  <2> QED
    BY <1>1, <1>2, <2>1 DEF Sorted
<1>13. ChainsExact'
  <2> SUFFICES ASSUME NEW j \in Key
               PROVE  chains'[j] = IF order'[j] = << >> THEN None
                                   ELSE order'[j][Len(order'[j])]
    BY DEF ChainsExact
  <2>1. CASE j # k
    BY <1>1, <1>6, <2>1 DEF ChainsExact
  <2>2. CASE j = k
    <3>1. chains[k] = order[k][Len(order[k])]
      BY <1>4 DEF ChainsExact
    <3>2. Len(order[k]) \in 1..Len(order[k]) /\ 1 \in 1..Len(order[k])
      BY <1>4, <1>5
    <3>3. CASE Len(order[k]) = 1
      <4>1. order'[k] = << >>
        <5>1. order'[k] \in Seq(Task) /\ Len(order'[k]) = 0
          BY <1>6, <3>3
        <5> HIDE DEF GateInv, GateTypeOK
        <5> QED
          BY <5>1
      <4>2. chains'[k] = None
        BY <1>1, <1>4, <3>1, <3>3
      <4> QED
        BY <2>2, <4>1, <4>2
    <3>4. CASE Len(order[k]) # 1
      <4>1. chains[k] # t
        BY <1>4, <3>1, <3>2, <3>4 DEF OrderExact
      <4>2. Len(order'[k]) \in 1..Len(order'[k]) /\ Len(order'[k]) + 1 = Len(order[k])
        BY <1>5, <1>6, <3>2, <3>4
      <4>3. order'[k][Len(order'[k])] = order[k][Len(order[k])]
        BY <1>6, <4>2
      <4>4. order'[k] # << >>
        <5> HIDE DEF GateInv, GateTypeOK
        <5>1. SUFFICES ASSUME order'[k] = << >> PROVE FALSE
          OBVIOUS
        <5>2. Len(order'[k]) = 0
          BY <5>1
        <5> QED
          BY <4>2, <5>2
      <4> QED
        BY <1>1, <2>2, <3>1, <4>1, <4>3, <4>4
    <3> QED
      BY <3>3, <3>4
  <2> QED
    BY <2>1, <2>2
<1> QED
  BY <1>7, <1>8, <1>10, <1>11, <1>12, <1>13

LEMMA StutterPreserves ==
  ASSUME GateInv, UNCHANGED gateVars
  PROVE  GateInv'
<1> USE DEF gateVars
<1>1. GateTypeOK' /\ ChainsExact' /\ Sorted'
  BY DEF GateInv, GateTypeOK, ChainsExact, Sorted
<1>2. OrderExact' /\ Linked'
  BY DEF GateInv, OrderExact, InChain, Linked, PreviousSettled
<1>3. HoldersSettled'
  BY DEF GateInv, HoldersSettled, Holds, Awaiting, Greatest, PreviousSettled
<1> QED
  BY <1>1, <1>2, <1>3 DEF GateInv

LEMMA NextPreserves == GateInv /\ [GateNext]_gateVars => GateInv'
<1> SUFFICES ASSUME GateInv, [GateNext]_gateVars
             PROVE  GateInv'
  OBVIOUS
<1>1. ASSUME NEW t \in Task, Call(t) PROVE GateInv'
  BY <1>1, CallPreserves
<1>2. ASSUME NEW t \in Task, AcquireNext(t) PROVE GateInv'
  BY <1>2, AcquireNextPreserves
<1>3. ASSUME NEW t \in Task, Enter(t) PROVE GateInv'
  BY <1>3, EnterPreserves
<1>4. ASSUME NEW t \in Task, Leave(t) PROVE GateInv'
  BY <1>4, LeavePreserves
<1>5. CASE UNCHANGED gateVars
  BY <1>5, StutterPreserves
<1> QED
  BY <1>1, <1>2, <1>3, <1>4, <1>5 DEF GateNext, GateStep

LEMMA GateInvHolds == GateSpec => []GateInv
  BY InitEstablishes, NextPreserves, PTL DEF GateSpec

-----------------------------------------------------------------------------
\* The variables of the gates keep their types.
THEOREM GateTypeCorrect == GateSpec => []GateTypeOK
<1>1. GateInv => GateTypeOK
  BY DEF GateInv
<1> QED
  BY <1>1, GateInvHolds, PTL

\* The Map of chains holds exactly the scopes in use, each with its last call.
THEOREM ChainsStayExact == GateSpec => []ChainsExact
<1>1. GateInv => ChainsExact
  BY DEF GateInv
<1> QED
  BY <1>1, GateInvHolds, PTL

\* Never two calls inside one conversation scope.
THEOREM ScopesAreExclusive == GateSpec => []GateExclusive
  BY InvImpliesExclusive, GateInvHolds, PTL

\* Whoever is inside a scope is the oldest of those that joined it.
THEOREM ScopesAreFair == GateSpec => []FirstComeFirstServed
  BY InvImpliesOrder, GateInvHolds, PTL

-----------------------------------------------------------------------------
(* Part 2: the dispatcher on top of the gates.                              *)

LEMMA StepImplements == [Next]_vars => [GateNext]_gateVars
<1> SUFFICES ASSUME [Next]_vars
             PROVE  [GateNext]_gateVars
  OBVIOUS
<1>1. ASSUME NEW t \in Task, Handle(t) \/ Skip(t) \/ Finish(t)
      PROVE  UNCHANGED gateVars
  BY <1>1 DEF Handle, Skip, Finish
<1>2. ASSUME NEW t \in Task, EnterGates(t) \/ InGates(t)
      PROVE  GateNext
  BY <1>2 DEF EnterGates, InGates, GateNext
<1>3. CASE UNCHANGED vars
  BY <1>3 DEF vars
<1> QED
  BY <1>1, <1>2, <1>3 DEF Next, Progress

\* By the way its steps are written, the dispatcher's use of the gates is a
\* behaviour of SessionGate: what is proved of the gates alone holds in it.
LEMMA DispatcherImplementsGates == Spec => GateSpec
<1>1. Init => GateInit
  BY DEF Init
<1> QED
  BY <1>1, StepImplements, PTL DEF Spec, GateSpec

\* Two sessions never speak in one conversation at the same time, although one
\* may be reactive and the other autonomous.
THEOREM ConversationsAreExclusive == Spec => []GateExclusive
  BY DispatcherImplementsGates, ScopesAreExclusive, PTL

-----------------------------------------------------------------------------
(* Permits.                                                                 *)

\* A semaphore's queue holds distinct events of its class, all of which wait.
QueuesExact ==
  \A c \in Class :
    /\ \A i \in 1..Len(queue[c]) :
         ClassOf(queue[c][i]) = c /\ phase[queue[c][i]] = "acquiring"
    /\ \A i, j \in 1..Len(queue[c]) : queue[c][i] = queue[c][j] => i = j

PermitInv ==
  DispatcherTypeOK /\ QueuesExact /\ PermitsConserved /\ PermitBeforeGates

LEMMA ClassOfType == \A t \in Task : ClassOf(t) \in Class
  BY DEF ClassOf, Class

LEMMA HoldersFinite ==
  /\ \A c \in Class : IsFiniteSet(Holders(c)) /\ Cardinality(Holders(c)) \in Nat
  /\ \A c \in Class : IsFiniteSet(Holders(c))' /\ Cardinality(Holders(c))' \in Nat
<1>1. IsFiniteSet(Task)
  BY DispatcherAssumption
<1>2. \A c \in Class : Holders(c) \subseteq Task /\ Holders(c)' \subseteq Task
  BY DEF Holders
<1>3. \A c \in Class : IsFiniteSet(Holders(c)) /\ IsFiniteSet(Holders(c)')
  BY <1>1, <1>2, FS_Subset
<1> QED
  BY <1>3, FS_CardinalityType

LEMMA AcquirePreserves ==
  ASSUME PermitInv, NEW t \in Task, Handle(t)
  PROVE  PermitInv'
<1> DEFINE c == ClassOf(t)
<1> USE DEF PermitInv, DispatcherTypeOK
<1>1. /\ c \in Class /\ phase[t] = "new" /\ Acquire(t) /\ UNCHANGED gateVars
  BY ClassOfType DEF Handle
<1>2. GateTypeOK' /\ stage' = stage
  BY <1>1 DEF GateTypeOK, gateVars
<1>3. t \notin Holders(c)
  BY <1>1 DEF Holders
<1>4. \A d \in Class : \A i \in 1..Len(queue[d]) : queue[d][i] # t /\ queue[d][i] \in Task
  BY <1>1 DEF QueuesExact
<1> HIDE DEF c
<1>5. CASE free[c] > 0
  <2>1. /\ free' = [free EXCEPT ![c] = @ - 1] /\ free[c] \in Nat
        /\ phase' = [phase EXCEPT ![t] = "holding"]
        /\ queue' = queue
    BY <1>1, <1>5 DEF Acquire, c
  <2>2. DispatcherTypeOK'
    <3>1. free' \in [Class -> Nat]
      BY <1>1, <1>5, <2>1
    <3> QED
      BY <1>2, <2>1, <3>1 DEF Phase
  <2>3. QueuesExact'
    BY <1>4, <2>1 DEF QueuesExact
  <2>4. PermitsConserved'
    <3>1. Holders(c)' = Holders(c) \cup {t}
      BY <2>1 DEF Holders, c
    <3>2. Cardinality(Holders(c) \cup {t}) = Cardinality(Holders(c)) + 1
      BY <1>1, <1>3, HoldersFinite, FS_AddElement
    <3>3. \A d \in Class \ {c} : Holders(d)' = Holders(d) /\ free'[d] = free[d]
      BY <2>1 DEF Holders, c
    <3>4. free'[c] = free[c] - 1
      BY <1>1, <2>1
    <3>5. ASSUME NEW d \in Class
          PROVE  /\ free'[d] + Cardinality(Holders(d))' = Permits[d]
                 /\ free'[d] > 0 => queue'[d] = << >>
      <4>1. CASE d = c
        <5>1. /\ free[c] + Cardinality(Holders(c)) = Permits[c]
              /\ Cardinality(Holders(c)) \in Nat /\ free[c] \in Nat
          BY <1>1, <2>1, HoldersFinite DEF PermitsConserved
        <5>2. Cardinality(Holders(c))' = Cardinality(Holders(c)) + 1
          BY <3>1, <3>2
        <5>3. queue[c] = << >>
          BY <1>1, <1>5 DEF PermitsConserved
        <5> HIDE DEF PermitInv, DispatcherTypeOK
        <5> QED
          BY <2>1, <3>4, <4>1, <5>1, <5>2, <5>3
      <4>2. CASE d # c
        BY <2>1, <3>3, <4>2 DEF PermitsConserved
      <4> QED
        BY <4>1, <4>2
    <3> QED
      BY <3>5 DEF PermitsConserved
  <2>5. PermitBeforeGates'
    BY <1>1, <1>2, <2>1 DEF PermitBeforeGates
  <2> QED
    BY <2>2, <2>3, <2>4, <2>5
<1>6. CASE ~(free[c] > 0)
  <2>1. /\ queue' = [queue EXCEPT ![c] = Append(@, t)]
        /\ phase' = [phase EXCEPT ![t] = "acquiring"]
        /\ free' = free
    BY <1>1, <1>6 DEF Acquire, c
  <2>2. /\ queue[c] \in Seq(Task) /\ Len(queue[c]) \in Nat
        /\ queue'[c] = Append(queue[c], t)
        /\ \A d \in Class \ {c} : queue'[d] = queue[d]
    BY <1>1, <2>1
  <2>3. DispatcherTypeOK'
    BY <1>2, <2>1, <2>2 DEF Phase
  <2>4. QueuesExact'
    <3> SUFFICES ASSUME NEW d \in Class
                 PROVE  /\ \A i \in 1..Len(queue'[d]) :
                             ClassOf(queue'[d][i]) = d /\ phase'[queue'[d][i]] = "acquiring"
                        /\ \A i, j \in 1..Len(queue'[d]) : queue'[d][i] = queue'[d][j] => i = j
      BY DEF QueuesExact, ClassOf
    <3>1. CASE d # c
      BY <1>4, <2>1, <2>2, <3>1 DEF QueuesExact
    <3>2. CASE d = c
      <4>1. \A i \in 1..Len(queue'[c]) :
              \/ i \in 1..Len(queue[c]) /\ queue'[c][i] = queue[c][i]
              \/ i = Len(queue[c]) + 1 /\ queue'[c][i] = t
        BY <2>2
      <4>2. phase'[t] = "acquiring" /\ ClassOf(t) = c
        BY <2>1 DEF c
      <4>3. \A i \in 1..Len(queue[c]) :
              /\ ClassOf(queue[c][i]) = c /\ phase'[queue[c][i]] = "acquiring"
              /\ queue[c][i] # t
        BY <1>1, <1>4, <2>1 DEF QueuesExact
      <4>4. \A i, j \in 1..Len(queue[c]) : queue[c][i] = queue[c][j] => i = j
        BY <1>1 DEF QueuesExact
      <4> HIDE DEF PermitInv, DispatcherTypeOK
      <4>5. ASSUME NEW i \in 1..Len(queue'[c])
            PROVE  ClassOf(queue'[c][i]) = c /\ phase'[queue'[c][i]] = "acquiring"
        BY <4>1, <4>2, <4>3
      <4>6. ASSUME NEW i \in 1..Len(queue'[c]), NEW j \in 1..Len(queue'[c]),
                   queue'[c][i] = queue'[c][j]
            PROVE  i = j
        BY <4>1, <4>3, <4>4, <4>6
      <4> QED
        BY <3>2, <4>5, <4>6
    <3> QED
      BY <3>1, <3>2
  <2>5. PermitsConserved'
    <3>1. \A d \in Class : Holders(d)' = Holders(d)
      BY <1>1, <2>1 DEF Holders
    <3> QED
      BY <1>6, <2>1, <2>2, <3>1 DEF PermitsConserved
  <2>6. PermitBeforeGates'
    BY <1>1, <1>2, <2>1 DEF PermitBeforeGates
  <2> QED
    BY <2>3, <2>4, <2>5, <2>6
<1> QED
  BY <1>5, <1>6

LEMMA ReleasePreserves ==
  ASSUME PermitInv, NEW t \in Task, phase[t] = "holding",
         stage[t] \in {"idle", "done"}, ReleasePermit(t), UNCHANGED gateVars
  PROVE  PermitInv'
<1> DEFINE c == ClassOf(t)
<1> USE DEF PermitInv, DispatcherTypeOK
<1>1. c \in Class
  BY ClassOfType
<1>2. GateTypeOK' /\ stage' = stage
  BY DEF GateTypeOK, gateVars
<1>3. t \in Holders(c)
  BY DEF Holders
<1>4. \A d \in Class : \A i \in 1..Len(queue[d]) : queue[d][i] # t /\ queue[d][i] \in Task
  BY DEF QueuesExact
<1> HIDE DEF c
<1>5. CASE queue[c] # << >>
  <2> DEFINE h == queue[c][1]
  <2>1. /\ queue' = [queue EXCEPT ![c] = Tail(@)]
        /\ phase' = [phase EXCEPT ![t] = "left", ![h] = "holding"]
        /\ free' = free
    BY <1>1, <1>5 DEF ReleasePermit, c
  <2>2. 1 \in 1..Len(queue[c]) /\ queue[c] \in Seq(Task)
    BY <1>1, <1>5
  <2>3. h \in Task /\ h # t /\ phase[h] = "acquiring" /\ ClassOf(h) = c
    BY <1>1, <1>4, <2>2 DEF QueuesExact
  <2>4. /\ queue'[c] \in Seq(Task)
        /\ \A i \in 1..Len(queue'[c]) :
             i + 1 \in 1..Len(queue[c]) /\ queue'[c][i] = queue[c][i + 1] /\ i + 1 # 1
        /\ \A d \in Class \ {c} : queue'[d] = queue[d]
    BY <1>1, <1>5, <2>1, <2>2
  <2> HIDE DEF h
  <2>5. DispatcherTypeOK'
    <3>1. queue' \in [Class -> Seq(Task)]
      BY <2>1, <2>4
    <3>2. phase' \in [Task -> Phase]
      BY <2>1, <2>3 DEF Phase
    <3> QED
      BY <1>2, <2>1, <3>1, <3>2
  <2>6. QueuesExact'
    <3> SUFFICES ASSUME NEW d \in Class
                 PROVE  /\ \A i \in 1..Len(queue'[d]) :
                             ClassOf(queue'[d][i]) = d /\ phase'[queue'[d][i]] = "acquiring"
                        /\ \A i, j \in 1..Len(queue'[d]) : queue'[d][i] = queue'[d][j] => i = j
      BY DEF QueuesExact, ClassOf
    <3>1. CASE d # c
      <4>1. \A i \in 1..Len(queue[d]) :
              ClassOf(queue[d][i]) = d /\ phase[queue[d][i]] = "acquiring" /\ queue[d][i] # h
        BY <2>3, <3>1 DEF QueuesExact
      <4> QED
        BY <1>4, <2>1, <2>4, <3>1, <4>1 DEF QueuesExact
    <3>2. CASE d = c
      <4>1. \A i \in 1..Len(queue'[c]) : queue[c][i + 1] # h
        BY <1>1, <2>2, <2>4 DEF QueuesExact, h
      <4>2. ASSUME NEW i \in 1..Len(queue'[c])
            PROVE  ClassOf(queue'[c][i]) = c /\ phase'[queue'[c][i]] = "acquiring"
        <5>1. ClassOf(queue[c][i + 1]) = c /\ phase[queue[c][i + 1]] = "acquiring"
          BY <1>1, <2>4 DEF QueuesExact
        <5>2. queue[c][i + 1] # t /\ queue[c][i + 1] \in Task
          BY <1>1, <1>4, <2>4
        <5> QED
          BY <2>1, <2>4, <4>1, <5>1, <5>2
      <4>3. ASSUME NEW i \in 1..Len(queue'[c]), NEW j \in 1..Len(queue'[c]),
                   queue'[c][i] = queue'[c][j]
            PROVE  i = j
        <5>1. i + 1 = j + 1
          BY <1>1, <2>4, <4>3 DEF QueuesExact
        <5> QED
          BY <5>1
      <4> QED
        BY <3>2, <4>2, <4>3
    <3> QED
      BY <3>1, <3>2
  <2>7. PermitsConserved'
    <3>1. Holders(c)' = (Holders(c) \ {t}) \cup {h} /\ h \notin Holders(c)
      BY <2>1, <2>3 DEF Holders, c
    <3>2. \A d \in Class \ {c} : Holders(d)' = Holders(d)
      BY <2>1, <2>3 DEF Holders, c
    <3>3. Cardinality(Holders(c))' = Cardinality(Holders(c))
      <4>1. IsFiniteSet(Holders(c)) /\ Cardinality(Holders(c)) \in Nat
        BY <1>1, HoldersFinite
      <4>2. /\ IsFiniteSet(Holders(c) \ {t})
            /\ Cardinality(Holders(c) \ {t}) = Cardinality(Holders(c)) - 1
        BY <1>3, <4>1, FS_RemoveElement
      <4>3. Cardinality((Holders(c) \ {t}) \cup {h}) = Cardinality(Holders(c) \ {t}) + 1
        BY <3>1, <4>2, FS_AddElement
      <4> HIDE DEF PermitInv, DispatcherTypeOK
      <4> QED
        BY <3>1, <4>1, <4>2, <4>3
    <3>4. free[c] = 0
      BY <1>1, <1>5 DEF PermitsConserved
    <3> QED
      BY <2>1, <2>4, <3>2, <3>3, <3>4 DEF PermitsConserved
  <2>8. PermitBeforeGates'
    BY <1>2, <2>1 DEF PermitBeforeGates
  <2> QED
    BY <2>5, <2>6, <2>7, <2>8
<1>6. CASE queue[c] = << >>
  <2>1. /\ free' = [free EXCEPT ![c] = @ + 1] /\ free[c] \in Nat
        /\ phase' = [phase EXCEPT ![t] = "left"]
        /\ queue' = queue
    BY <1>1, <1>6 DEF ReleasePermit, c
  <2>2. DispatcherTypeOK'
    BY <1>1, <1>2, <2>1 DEF Phase
  <2>3. QueuesExact'
    BY <1>4, <2>1 DEF QueuesExact
  <2>4. PermitsConserved'
    <3>1. Holders(c)' = Holders(c) \ {t}
      BY <2>1 DEF Holders, c
    <3>2. \A d \in Class \ {c} : Holders(d)' = Holders(d) /\ free'[d] = free[d]
      BY <2>1 DEF Holders, c
    <3>3. Cardinality(Holders(c))' = Cardinality(Holders(c)) - 1
          /\ Cardinality(Holders(c)) \in Nat
      BY <1>1, <1>3, <3>1, HoldersFinite, FS_RemoveElement
    <3>4. free'[c] = free[c] + 1
      BY <1>1, <2>1
    <3>5. ASSUME NEW d \in Class
          PROVE  /\ free'[d] + Cardinality(Holders(d))' = Permits[d]
                 /\ free'[d] > 0 => queue'[d] = << >>
      <4>1. CASE d = c
        <5>1. free[c] + Cardinality(Holders(c)) = Permits[c]
          BY <1>1 DEF PermitsConserved
        <5> HIDE DEF PermitInv, DispatcherTypeOK
        <5> QED
          BY <1>6, <2>1, <3>3, <3>4, <4>1, <5>1
      <4>2. CASE d # c
        BY <2>1, <3>2, <4>2 DEF PermitsConserved
      <4> QED
        BY <4>1, <4>2
    <3> QED
      BY <3>5 DEF PermitsConserved
  <2>5. PermitBeforeGates'
    BY <1>2, <2>1 DEF PermitBeforeGates
  <2> QED
    BY <2>2, <2>3, <2>4, <2>5
<1> QED
  BY <1>5, <1>6

\* A step inside the gates is taken by a holder and leaves the permits alone.
LEMMA GateStepPreserves ==
  ASSUME PermitInv, GateTypeOK', NEW t \in Task, EnterGates(t) \/ InGates(t)
  PROVE  PermitInv'
<1> USE DEF PermitInv, DispatcherTypeOK
<1>1. UNCHANGED dispatchVars
  BY DEF EnterGates, InGates
<1>2. /\ phase[t] = "holding"
      /\ \A u \in Task \ {t} : stage'[u] = stage[u]
  <2>1. CASE EnterGates(t)
    BY <2>1 DEF EnterGates, Call, GateTypeOK
  <2>2. CASE InGates(t)
    BY <2>2 DEF InGates, GateStep, AcquireNext, Enter, Leave, Awaiting, GateTypeOK,
                PermitBeforeGates
  <2> QED
    BY <2>1, <2>2
<1>4. QueuesExact' /\ PermitsConserved'
  BY <1>1 DEF dispatchVars, QueuesExact, ClassOf, PermitsConserved, Holders
<1>5. PermitBeforeGates'
  BY <1>1, <1>2 DEF dispatchVars, PermitBeforeGates
<1> QED
  BY <1>1, <1>4, <1>5 DEF dispatchVars

LEMMA PermitInit == Init => PermitInv
<1> SUFFICES ASSUME Init
             PROVE  PermitInv
  OBVIOUS
<1>1. DispatcherTypeOK
  BY InitEstablishes, DispatcherAssumption DEF Init, DispatcherTypeOK, GateInv, Phase
<1>2. QueuesExact /\ PermitBeforeGates
  BY DEF Init, GateInit, QueuesExact, PermitBeforeGates
<1>3. PermitsConserved
  <2> SUFFICES ASSUME NEW c \in Class
               PROVE  /\ free[c] + Cardinality(Holders(c)) = Permits[c]
                      /\ free[c] > 0 => queue[c] = << >>
    BY DEF PermitsConserved
  <2>1. Holders(c) = {}
    BY DEF Init, Holders
  <2>2. Cardinality(Holders(c)) = 0
    BY <2>1, FS_EmptySet
  <2>3. free[c] = Permits[c] /\ Permits[c] \in Nat /\ queue[c] = << >>
    BY DispatcherAssumption DEF Init
  <2> QED
    BY <2>2, <2>3
<1> QED
  BY <1>1, <1>2, <1>3 DEF PermitInv

LEMMA PermitNext == PermitInv /\ GateTypeOK' /\ [Next]_vars => PermitInv'
<1> SUFFICES ASSUME PermitInv, GateTypeOK', [Next]_vars
             PROVE  PermitInv'
  OBVIOUS
<1>1. ASSUME NEW t \in Task, Handle(t) PROVE PermitInv'
  BY <1>1, AcquirePreserves
<1>2. ASSUME NEW t \in Task, Skip(t) \/ Finish(t) PROVE PermitInv'
  <2>1. /\ phase[t] = "holding" /\ stage[t] \in {"idle", "done"}
        /\ ReleasePermit(t) /\ UNCHANGED gateVars
    BY <1>2 DEF Skip, Finish
  <2> QED
    BY <2>1, ReleasePreserves
<1>3. ASSUME NEW t \in Task, EnterGates(t) \/ InGates(t) PROVE PermitInv'
  BY <1>3, GateStepPreserves
<1>4. CASE UNCHANGED vars
  <2>1. UNCHANGED <<free, queue, phase, stage>>
    BY <1>4 DEF vars, gateVars, dispatchVars
  <2>2. DispatcherTypeOK'
    BY <2>1 DEF PermitInv, DispatcherTypeOK
  <2>3. QueuesExact' /\ PermitsConserved' /\ PermitBeforeGates'
    BY <2>1 DEF PermitInv, QueuesExact, ClassOf, PermitsConserved, Holders, PermitBeforeGates
  <2> QED
    BY <2>2, <2>3 DEF PermitInv
<1> QED
  BY <1>1, <1>2, <1>3, <1>4 DEF Next, Progress

LEMMA PermitInvHolds == Spec => []PermitInv
<1>1. Spec => []GateTypeOK
  BY DispatcherImplementsGates, GateTypeCorrect, PTL
<1> QED
  BY <1>1, PermitInit, PermitNext, PTL DEF Spec

\* The variables of the dispatcher keep their types.
THEOREM DispatcherTypeCorrect == Spec => []DispatcherTypeOK
<1>1. PermitInv => DispatcherTypeOK
  BY DEF PermitInv
<1> QED
  BY <1>1, PermitInvHolds, PTL

\* Permits are neither lost nor made up, and none lies idle before a waiter.
THEOREM PermitsStayConserved == Spec => []PermitsConserved
<1>1. PermitInv => PermitsConserved
  BY DEF PermitInv
<1> QED
  BY <1>1, PermitInvHolds, PTL

\* The lock order: a permit first, the conversations inside it.
THEOREM LockOrder == Spec => []PermitBeforeGates
<1>1. PermitInv => PermitBeforeGates
  BY DEF PermitInv
<1> QED
  BY <1>1, PermitInvHolds, PTL

-----------------------------------------------------------------------------
(* Part 3: nobody waits for ever on somebody who waits for him.             *)

\* What `stage` says about the chains: the loop of acquire has joined at least
\* one key when it awaits, and the finally blocks are over when none is left.
StageExact ==
  \A t \in Task :
    /\ IsFiniteSet(joined[t])
    /\ stage[t] = "idle" => joined[t] = {}
    /\ stage[t] = "waiting" => joined[t] # {} /\ released[t] = {}
    /\ stage[t] \in {"running", "leaving"} => joined[t] \ released[t] # {}
    /\ stage[t] = "done" => joined[t] = released[t]

LEMMA HasLeast ==
  ASSUME NEW S \in SUBSET Nat, S # {}
  PROVE  \E k \in S : Least(k, S)
<1> DEFINE R == {ss \in Nat \X Nat : ss[1] < ss[2]}
<1>1. IsWellFoundedOn(R, Nat)
  BY NatLessThanWellFounded, Zenon DEF OpToRel
<1>2. \A i, j \in Nat : <<i, j>> \in R <=> i < j
  OBVIOUS
<1> HIDE DEF R
<1>3. PICK k \in S : \A j \in S : <<j, k>> \notin R
  BY <1>1, WFMin
<1>4. ASSUME NEW j \in S PROVE k <= j
  <2>1. k \in Nat /\ j \in Nat /\ ~(j < k)
    BY <1>2, <1>3
  <2> QED
    BY <2>1
<1> QED
  BY <1>4 DEF Least

\* By a least counterexample among the subsets of S: take one element away.
LEMMA HasGreatest ==
  ASSUME NEW S \in SUBSET Nat, IsFiniteSet(S), S # {}
  PROVE  \E k \in S : Greatest(k, S)
<1> DEFINE R == StrictSubsetOrdering(S)
           Bad == {T \in SUBSET S : T # {} /\ ~ \E k \in T : Greatest(k, T)}
<1>1. IsWellFoundedOn(R, SUBSET S)
  BY FS_StrictSubsetOrderingWellFounded, FS_FiniteSubsetsOfFinite
<1>2. SUFFICES ASSUME Bad # {} PROVE FALSE
  OBVIOUS
<1>3. PICK T \in Bad : \A U \in Bad : <<U, T>> \notin R
  <2>1. Bad \subseteq SUBSET S
    OBVIOUS
  <2> HIDE DEF R, Bad
  <2> QED
    BY <1>1, <1>2, <2>1, WFMin
<1>4. T \subseteq S /\ T # {} /\ ~ \E k \in T : Greatest(k, T)
  OBVIOUS
<1>5. PICK x \in T : TRUE
  BY <1>4
<1> DEFINE U == T \ {x}
<1>6. U \subseteq S /\ <<U, T>> \in R
  BY <1>4 DEF StrictSubsetOrdering
<1>7. U = {} \/ \E k \in U : Greatest(k, U)
  BY <1>3, <1>6
<1>8. x \in Nat /\ T \subseteq Nat
  BY <1>4
<1>9. CASE U = {}
  BY <1>4, <1>8, <1>9 DEF Greatest
<1>10. ASSUME NEW k \in U, Greatest(k, U) PROVE FALSE
  <2>1. k \in Nat /\ \A j \in T : j = x \/ j <= k
    BY <1>8, <1>10 DEF Greatest
  <2>2. CASE x <= k
    BY <1>4, <2>1, <2>2 DEF Greatest
  <2>3. CASE ~(x <= k)
    <3>1. \A j \in T : j <= x
      BY <1>8, <2>1, <2>3
    <3> QED
      BY <1>4, <3>1 DEF Greatest
  <2> QED
    BY <2>2, <2>3
<1> QED
  BY <1>7, <1>9, <1>10

LEMMA StageInit == GateInit => StageExact
  BY FS_EmptySet DEF GateInit, StageExact

LEMMA StageNext == GateInv /\ StageExact /\ [GateNext]_gateVars => StageExact'
<1> SUFFICES ASSUME GateInv, StageExact, [GateNext]_gateVars
             PROVE  StageExact'
  OBVIOUS
<1> USE DEF GateInv, GateTypeOK
<1> DEFINE Exact(t) ==
      /\ IsFiniteSet(joined[t])
      /\ stage[t] = "idle" => joined[t] = {}
      /\ stage[t] = "waiting" => joined[t] # {} /\ released[t] = {}
      /\ stage[t] \in {"running", "leaving"} => joined[t] \ released[t] # {}
      /\ stage[t] = "done" => joined[t] = released[t]
<1>1. \A t \in Task : Exact(t)
  BY DEF StageExact
<1>2. ASSUME NEW t \in Task, Call(t) \/ GateStep(t),
             NEW u \in Task \ {t}
      PROVE  Exact(u)'
  <2>1. joined'[u] = joined[u] /\ released'[u] = released[u] /\ stage'[u] = stage[u]
    BY <1>2 DEF Call, GateStep, AcquireNext, Enter, Leave, Join
  <2> QED
    BY <1>1, <2>1
<1>3. ASSUME NEW t \in Task, Call(t) PROVE Exact(t)'
  <2>1. PICK k \in Key : Join(t, k)
    BY <1>3 DEF Call
  <2>2. joined'[t] = joined[t] \cup {k} /\ stage'[t] = "waiting" /\ released' = released
    BY <1>3, <2>1 DEF Call, Join
  <2>3. joined[t] = {} /\ released[t] = {}
    BY <1>1, <1>3 DEF Call, Sorted
  <2>4. joined'[t] = {k} /\ IsFiniteSet({k})
    BY <2>2, <2>3, FS_Singleton
  <2> QED
    BY <2>2, <2>3, <2>4
<1>4. ASSUME NEW t \in Task, AcquireNext(t) PROVE Exact(t)'
  <2>1. PICK k \in Key : Join(t, k)
    BY <1>4 DEF AcquireNext
  <2>2. /\ joined'[t] = joined[t] \cup {k} /\ stage'[t] = "waiting" /\ released' = released
        /\ stage[t] = "waiting"
    BY <1>4, <2>1 DEF AcquireNext, Join, Awaiting
  <2>3. IsFiniteSet(joined[t] \cup {k})
    BY <1>1, FS_AddElement
  <2> QED
    BY <1>1, <2>2, <2>3
<1>5. ASSUME NEW t \in Task, Enter(t) PROVE Exact(t)'
  <2>1. /\ joined' = joined /\ released' = released /\ stage'[t] = "running"
        /\ stage[t] = "waiting"
    BY <1>5 DEF Enter, Awaiting
  <2> QED
    BY <1>1, <2>1
<1>6. ASSUME NEW t \in Task, Leave(t) PROVE Exact(t)'
  <2>1. PICK k \in Key :
          /\ k \in joined[t] \ released[t]
          /\ released'[t] = released[t] \cup {k}
          /\ stage'[t] = IF joined[t] \ released[t] = {k} THEN "done" ELSE "leaving"
    BY <1>6 DEF Leave, Greatest
  <2>2. joined' = joined /\ released[t] \subseteq joined[t]
    BY <1>6 DEF Leave, Sorted
  <2>3. CASE joined[t] \ released[t] = {k}
    BY <1>1, <2>1, <2>2, <2>3
  <2>4. CASE joined[t] \ released[t] # {k}
    BY <1>1, <2>1, <2>2, <2>4
  <2> QED
    BY <2>3, <2>4
<1>7. CASE UNCHANGED gateVars
  BY <1>1, <1>7 DEF gateVars, StageExact
<1>8. ASSUME NEW t \in Task, Call(t) \/ GateStep(t) PROVE StageExact'
  <2>1. \A u \in Task : Exact(u)'
    BY <1>2, <1>3, <1>4, <1>5, <1>6, <1>8 DEF GateStep
  <2> QED
    BY <2>1 DEF StageExact
<1> QED
  BY <1>7, <1>8 DEF GateNext

LEMMA StageExactHolds == GateSpec => []StageExact
  BY StageInit, StageNext, GateInvHolds, PTL DEF GateSpec

\* A call that waits awaits exactly one key, the greatest it has joined.
LEMMA WaitsForOne ==
  ASSUME GateInv, StageExact, NEW t \in Task, stage[t] = "waiting"
  PROVE  \E k \in Key : Awaiting(t, k) /\ k \in joined[t] \ released[t]
<1>1. joined[t] # {} /\ released[t] = {} /\ IsFiniteSet(joined[t])
  BY DEF StageExact
<1>2. joined[t] \subseteq Key /\ joined[t] \in SUBSET Nat
  BY GateAssumption DEF GateInv, GateTypeOK
<1>3. PICK k \in joined[t] : Greatest(k, joined[t])
  BY <1>1, <1>2, HasGreatest
<1> QED
  BY <1>1, <1>2, <1>3 DEF Awaiting

\* The argument: of all the keys somebody awaits take the greatest, and the call
\* at the head of its chain.  Its predecessor has left, and if it waits at all
\* then for this key: it joined its keys in ascending order.
LEMMA SomebodyGoesOn ==
  GateInv /\ StageExact /\ IsFiniteSet(Task) => NoCircularWait
<1> SUFFICES ASSUME GateInv, StageExact, IsFiniteSet(Task),
                    NEW t0 \in Task, Inside(t0)
             PROVE  \E t \in Task : CanGoOn(t)
  BY DEF NoCircularWait
<1>1. \A t \in Task : Inside(t) => stage[t] \in {"waiting", "running", "leaving"}
  BY DEF Inside, GateInv, GateTypeOK, Stage
<1>2. \A t \in Task : joined[t] \in SUBSET Key /\ joined[t] \in SUBSET Nat
  BY GateAssumption DEF GateInv, GateTypeOK
<1>3. ASSUME NEW t \in Task, stage[t] \in {"running", "leaving"}
      PROVE  CanGoOn(t)
  <2>1. /\ joined[t] \ released[t] # {} /\ joined[t] \ released[t] \in SUBSET Nat
        /\ IsFiniteSet(joined[t] \ released[t])
    BY <1>2, <1>3, FS_Difference DEF StageExact
  <2>2. PICK k \in joined[t] \ released[t] : Greatest(k, joined[t] \ released[t])
    BY <2>1, HasGreatest
  <2> QED
    BY <1>2, <1>3, <2>2 DEF CanGoOn
<1>4. ASSUME NEW t \in Task, NEW k \in Key, Awaiting(t, k), PreviousSettled(t, k)
      PROVE  CanGoOn(t)
  <2>1. CASE Wanted[t] \subseteq joined[t]
    BY <1>4, <2>1 DEF CanGoOn
  <2>2. CASE ~(Wanted[t] \subseteq joined[t])
    <3>1. Wanted[t] \ joined[t] # {} /\ Wanted[t] \ joined[t] \in SUBSET Key
          /\ Wanted[t] \ joined[t] \in SUBSET Nat
      BY <2>2, GateAssumption
    <3>2. PICK j \in Wanted[t] \ joined[t] : Least(j, Wanted[t] \ joined[t])
      BY <3>1, HasLeast
    <3> QED
      BY <1>4, <3>1, <3>2 DEF CanGoOn, NextKey
  <2> QED
    BY <2>1, <2>2
<1>5. SUFFICES ASSUME \A t \in Task : stage[t] \notin {"running", "leaving"}
               PROVE  \E t \in Task : CanGoOn(t)
  BY <1>3
<1> DEFINE Waiter == {t \in Task : stage[t] = "waiting"}
           Last == [t \in Waiter |-> CHOOSE k \in Key : Awaiting(t, k)]
           Awaited == {Last[t] : t \in Waiter}
<1>6. \A t \in Waiter : Last[t] \in Key /\ Awaiting(t, Last[t])
                        /\ Last[t] \in joined[t] \ released[t]
  <2> SUFFICES ASSUME NEW t \in Waiter
               PROVE  Last[t] \in Key /\ Awaiting(t, Last[t])
                      /\ Last[t] \in joined[t] \ released[t]
    OBVIOUS
  <2>1. \E k \in Key : Awaiting(t, k)
    BY WaitsForOne
  <2>2. Last[t] \in Key /\ Awaiting(t, Last[t])
    BY <2>1
  <2>3. Last[t] \in joined[t] /\ released[t] = {}
    BY <2>2 DEF Awaiting, Greatest, StageExact
  <2> QED
    BY <2>2, <2>3
<1>7. IsFiniteSet(Awaited) /\ Awaited # {} /\ Awaited \in SUBSET Nat
  <2>1. IsFiniteSet(Waiter)
    BY FS_Subset
  <2>2. Last \in Surjection(Waiter, Awaited)
    BY DEF Surjection
  <2>3. t0 \in Waiter
    BY <1>1, <1>5
  <2> QED
    BY <1>6, <2>1, <2>2, <2>3, FS_Surjection, GateAssumption
<1>8. PICK g \in Awaited : Greatest(g, Awaited)
  BY <1>7, HasGreatest
<1>9. PICK u \in Waiter : g = Last[u]
  OBVIOUS
<1> HIDE DEF Last
<1>10. g \in Key /\ g \in joined[u] \ released[u]
  BY <1>6, <1>9
<1>11. InChain(u, g)
  BY <1>10 DEF GateInv, OrderExact
<1>12. order[g] \in Seq(Task) /\ 1 \in 1..Len(order[g])
  BY <1>10, <1>11 DEF InChain, GateInv, GateTypeOK
<1>13. PICK h \in Task : h = order[g][1]
  BY <1>12
<1>14. PreviousSettled(h, g)
  BY <1>10, <1>12, <1>13 DEF GateInv, Linked
<1>15. g \in joined[h] \ released[h]
  BY <1>10, <1>12, <1>13 DEF InChain, GateInv, OrderExact
<1>16. h \in Waiter
  <2>1. stage[h] # "idle" /\ stage[h] # "done"
    BY <1>15 DEF StageExact
  <2> QED
    BY <1>1, <1>5, <2>1 DEF Inside
<1>17. Last[h] = g
  <2>1. g <= Last[h]
    BY <1>6, <1>15, <1>16 DEF Awaiting, Greatest
  <2>2. Last[h] <= g
    BY <1>8, <1>16 DEF Greatest
  <2>3. Last[h] \in Nat /\ g \in Nat
    BY <1>7, <1>16
  <2> QED
    BY <2>1, <2>2, <2>3
<1> QED
  BY <1>4, <1>6, <1>10, <1>14, <1>16, <1>17

\* In any state of the gates in which somebody is inside, some call can take
\* its next step: the order in which sort() makes everybody join leaves no
\* circle of calls that wait for one another.
THEOREM GatesNeverDeadlock ==
  ASSUME IsFiniteSet(Task)
  PROVE  GateSpec => []NoCircularWait
<1>1. GateInv /\ StageExact => NoCircularWait
  BY SomebodyGoesOn
<1> QED
  BY <1>1, GateInvHolds, StageExactHolds, PTL

-----------------------------------------------------------------------------
\* Whoever waits for a permit stands in the queue of its semaphore: together
\* with QueuesExact, the queues hold exactly the waiting events.
WaitersQueued ==
  \A t \in Task : phase[t] = "acquiring" =>
    \E i \in 1..Len(queue[ClassOf(t)]) : queue[ClassOf(t)][i] = t

LEMMA WaitersInit == Init => WaitersQueued
  BY DEF Init, WaitersQueued

LEMMA WaitersNext == PermitInv /\ WaitersQueued /\ [Next]_vars => WaitersQueued'
<1> SUFFICES ASSUME PermitInv, WaitersQueued, [Next]_vars
             PROVE  WaitersQueued'
  OBVIOUS
<1> DEFINE Queued(u) == \E i \in 1..Len(queue[ClassOf(u)]) : queue[ClassOf(u)][i] = u
<1>0. /\ queue \in [Class -> Seq(Task)] /\ phase \in [Task -> Phase]
      /\ \A u \in Task : phase[u] = "acquiring" => Queued(u)
  BY DEF PermitInv, DispatcherTypeOK, WaitersQueued
<1>1. SUFFICES ASSUME NEW u \in Task, phase'[u] = "acquiring"
               PROVE  Queued(u)'
  BY DEF WaitersQueued
<1> DEFINE d == ClassOf(u)
<1>2. d \in Class /\ queue[d] \in Seq(Task) /\ Len(queue[d]) \in Nat
  BY <1>0, ClassOfType
<1>3. ASSUME NEW t \in Task, Handle(t) PROVE Queued(u)'
  <2> DEFINE c == ClassOf(t)
  <2>1. Acquire(t) /\ c \in Class
    BY <1>3, ClassOfType DEF Handle
  <2>2. CASE free[c] > 0
    <3>1. u # t /\ phase[u] = "acquiring" /\ queue' = queue
      BY <1>0, <1>1, <2>1, <2>2 DEF Acquire
    <3> QED
      BY <1>0, <3>1
  <2>3. CASE ~(free[c] > 0)
    <3>1. /\ queue' = [queue EXCEPT ![c] = Append(@, t)]
          /\ phase' = [phase EXCEPT ![t] = "acquiring"]
      BY <2>1, <2>3 DEF Acquire
    <3>2. CASE u = t
      <4>1. queue'[d] = Append(queue[d], u)
        BY <1>0, <1>2, <3>1, <3>2
      <4>2. Len(queue'[d]) = Len(queue[d]) + 1 /\ queue'[d][Len(queue[d]) + 1] = u
        BY <1>2, <4>1
      <4>3. Len(queue[d]) + 1 \in 1..Len(queue'[d])
        BY <1>2, <4>2
      <4> HIDE DEF d
      <4>4. \E i \in 1..Len(queue'[d]) : queue'[d][i] = u
        BY <4>2, <4>3
      <4> QED
        BY <4>4 DEF d, ClassOf
    <3>3. CASE u # t
      <4>1. PICK i \in 1..Len(queue[d]) : queue[d][i] = u
        BY <1>0, <1>1, <3>1, <3>3
      <4>2. CASE d = c
        <5>1. queue'[d] = Append(queue[d], t)
          BY <1>0, <1>2, <3>1, <4>2
        <5> HIDE DEF d, c
        <5>2. i \in 1..Len(queue'[d]) /\ queue'[d][i] = u
          BY <1>2, <4>1, <5>1
        <5> QED
          BY <5>2 DEF d, ClassOf
      <4>3. CASE d # c
        <5>1. queue'[d] = queue[d]
          BY <1>0, <1>2, <3>1, <4>3
        <5> QED
          BY <4>1, <5>1 DEF ClassOf
      <4> QED
        BY <4>2, <4>3
    <3> QED
      BY <3>2, <3>3
  <2> QED
    BY <2>2, <2>3
<1>4. ASSUME NEW t \in Task, phase[t] = "holding", ReleasePermit(t) PROVE Queued(u)'
  <2> DEFINE c == ClassOf(t)
  <2>1. c \in Class
    BY ClassOfType
  <2>2. CASE queue[c] = << >>
    <3>1. u # t /\ phase[u] = "acquiring" /\ queue' = queue
      BY <1>0, <1>1, <1>4, <2>2 DEF ReleasePermit
    <3> QED
      BY <1>0, <3>1
  <2>3. CASE queue[c] # << >>
    <3> DEFINE h == Head(queue[c])
    <3>1. /\ queue' = [queue EXCEPT ![c] = Tail(@)]
          /\ phase' = [phase EXCEPT ![t] = "left", ![h] = "holding"]
      BY <1>4, <2>3 DEF ReleasePermit
    <3>2. h \in Task /\ h = queue[c][1]
      BY <1>0, <2>1, <2>3
    <3> HIDE DEF h
    <3>3. u # t /\ u # h /\ phase[u] = "acquiring"
      BY <1>0, <1>1, <3>1, <3>2
    <3>4. PICK i \in 1..Len(queue[d]) : queue[d][i] = u
      BY <1>0, <3>3
    <3>5. CASE d = c
      <4>1. i # 1
        BY <3>2, <3>3, <3>4, <3>5
      <4>2. queue'[d] = Tail(queue[d])
        BY <1>0, <1>2, <3>1, <3>5
      <4> HIDE DEF d, c
      <4>3. queue[d] # << >>
        BY <2>3, <3>5
      <4>4. i - 1 \in 1..Len(queue'[d]) /\ queue'[d][i - 1] = queue[d][i]
        BY <1>2, <3>4, <4>1, <4>2, <4>3
      <4> QED
        BY <3>4, <4>4 DEF d, ClassOf
    <3>6. CASE d # c
      <4>1. queue'[d] = queue[d]
        BY <1>0, <1>2, <3>1, <3>6
      <4> QED
        BY <3>4, <4>1 DEF ClassOf
    <3> QED
      BY <3>5, <3>6
  <2> QED
    BY <2>2, <2>3
<1>5. CASE UNCHANGED <<queue, phase>>
  BY <1>0, <1>1, <1>5
<1>6. ASSUME NEW t \in Task, Progress(t) PROVE Queued(u)'
  <2>1. CASE Skip(t) \/ Finish(t)
    BY <1>4, <2>1 DEF Skip, Finish
  <2>2. CASE EnterGates(t) \/ InGates(t)
    BY <1>5, <2>2 DEF EnterGates, InGates, dispatchVars
  <2> QED
    BY <1>6, <2>1, <2>2 DEF Progress
<1>7. CASE UNCHANGED vars
  BY <1>5, <1>7 DEF vars, dispatchVars
<1> QED
  BY <1>3, <1>6, <1>7 DEF Next

LEMMA NothingStuckFollows ==
  PermitInv /\ WaitersQueued /\ StageExact /\ NoCircularWait => NothingStuck
<1> SUFFICES ASSUME PermitInv, WaitersQueued, StageExact, NoCircularWait,
                    NEW t \in Task, phase[t] \in {"acquiring", "holding"}
             PROVE  \E u \in Task : CanProgress(u)
  BY DEF NothingStuck
<1>1. ASSUME NEW u \in Task, phase[u] = "holding" PROVE \E v \in Task : CanProgress(v)
  <2>1. CASE Inside(u)
    <3>1. PICK v \in Task : CanGoOn(v)
      BY <2>1 DEF NoCircularWait
    <3>2. stage[v] \notin {"idle", "done"}
      BY <3>1 DEF CanGoOn, Awaiting
    <3> QED
      BY <3>1, <3>2 DEF PermitInv, PermitBeforeGates, CanProgress
  <2>2. CASE stage[u] = "done"
    BY <1>1, <2>2 DEF CanProgress
  <2>3. CASE stage[u] = "idle"
    <3>1. CASE Wanted[u] = {}
      BY <1>1, <2>3, <3>1 DEF CanProgress
    <3>2. CASE Wanted[u] # {}
      <4>1. Wanted[u] \in SUBSET Key /\ Wanted[u] \in SUBSET Nat
        BY GateAssumption
      <4>2. PICK k \in Wanted[u] : Least(k, Wanted[u])
        BY <3>2, <4>1, HasLeast
      <4>3. Wanted[u] \ joined[u] = Wanted[u]
        BY <2>3 DEF StageExact
      <4> QED
        BY <1>1, <2>3, <4>1, <4>2, <4>3 DEF CanProgress, NextKey
    <3> QED
      BY <3>1, <3>2
  <2> QED
    BY <2>1, <2>2, <2>3 DEF Inside
<1>2. CASE phase[t] = "acquiring"
  <2> DEFINE c == ClassOf(t)
  <2>1. c \in Class /\ queue[c] # << >>
    BY <1>2, ClassOfType DEF WaitersQueued
  <2> HIDE DEF c
  <2>2. free[c] = 0 /\ free[c] + Cardinality(Holders(c)) = Permits[c]
    BY <2>1 DEF PermitInv, DispatcherTypeOK, PermitsConserved
  <2>3. Permits[c] \in Nat \ {0}
    BY <2>1, DispatcherAssumption
  <2>4. Holders(c) # {}
    <3> SUFFICES ASSUME Holders(c) = {} PROVE FALSE
      OBVIOUS
    <3>1. Cardinality(Holders(c)) = 0
      BY FS_EmptySet
    <3> QED
      BY <2>2, <2>3, <3>1
  <2> QED
    BY <1>1, <2>4 DEF Holders
<1> QED
  BY <1>1, <1>2

\* While any event waits for a permit or holds one, some event can take a step
\* of its handler: permits and conversations together never deadlock, although
\* autonomous briefings and reactive replies hold the ones while they wait for
\* the others.
THEOREM DispatchNeverDeadlocks == Spec => []NothingStuck
<1>1. Spec => []WaitersQueued
  BY WaitersInit, WaitersNext, PermitInvHolds, PTL DEF Spec
<1>2. Spec => []NoCircularWait /\ []StageExact
  <2>1. IsFiniteSet(Task)
    BY DispatcherAssumption
  <2>2. GateSpec => []NoCircularWait
    BY <2>1, GatesNeverDeadlock
  <2> QED
    BY <2>2, StageExactHolds, DispatcherImplementsGates, PTL
<1> QED
  BY <1>1, <1>2, PermitInvHolds, NothingStuckFollows, PTL
=============================================================================
