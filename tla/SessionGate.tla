----------------------------- MODULE SessionGate -----------------------------
(***************************************************************************)
(* core/session-gate.ts: one chain of promises per conversation scope.      *)
(* A call joins the chains of all its keys one after the other, in the      *)
(* lexicographic order of the keys, runs its body, and leaves the chains in *)
(* the reverse order whether the body returned or threw.  A task below is   *)
(* one call of runWithSessionGates (or of runWithSessionGate, with one key).*)
(***************************************************************************)
EXTENDS Integers, Sequences, FiniteSets

CONSTANTS
  Task,     \* calls
  Key,      \* session keys, as their ranks in the lexicographic order
  Wanted,   \* the keys each call asks for: callers never name one twice
  None      \* no promise

ASSUME GateAssumption ==
  /\ Key \subseteq Nat
  /\ Wanted \in [Task -> SUBSET Key]
  /\ None \notin Task

VARIABLES
  chains,    \* the Map: key -> the call whose promise is the tail, or None
  previous,  \* previous[t][k]: the promise t found at the tail when it joined k
  joined,    \* keys whose chain t has joined
  released,  \* keys whose `current` promise t has resolved
  stage,     \* "idle", "waiting" (for the last key joined), "running",
             \* "leaving", "done"
  order      \* history: calls that joined k and have not released it, in order

gateVars == <<chains, previous, joined, released, stage, order>>

Stage == {"idle", "waiting", "running", "leaving", "done"}

GateTypeOK ==
  /\ chains \in [Key -> Task \cup {None}]
  /\ previous \in [Task -> [Key -> Task \cup {None}]]
  /\ joined \in [Task -> SUBSET Key]
  /\ released \in [Task -> SUBSET Key]
  /\ stage \in [Task -> Stage]
  /\ order \in [Key -> Seq(Task)]

GateInit ==
  /\ chains = [k \in Key |-> None]
  /\ previous = [t \in Task |-> [k \in Key |-> None]]
  /\ joined = [t \in Task |-> {}]
  /\ released = [t \in Task |-> {}]
  /\ stage = [t \in Task |-> "idle"]
  /\ order = [k \in Key |-> << >>]

-----------------------------------------------------------------------------
Least(k, S) == k \in S /\ \A j \in S : k <= j
Greatest(k, S) == k \in S /\ \A j \in S : j <= k

\* The key whose predecessor t is awaiting: the last one it joined.
Awaiting(t, k) == stage[t] = "waiting" /\ Greatest(k, joined[t])

\* t is between the `await previous` and the `finally` of key k.
Holds(t, k) ==
  /\ k \in joined[t] \ released[t]
  /\ ~Awaiting(t, k)

\* `await previous` is over: the promise found at the tail was the resolved one
\* of an empty chain, or belongs to a call that has left.
PreviousSettled(t, k) ==
  previous[t][k] # None => k \in released[previous[t][k]]

\* runWithSessionGate up to its await: append to the chain of k.
Join(t, k) ==
  /\ previous' = [previous EXCEPT ![t][k] = chains[k]]
  /\ chains' = [chains EXCEPT ![k] = t]
  /\ joined' = [joined EXCEPT ![t] = @ \cup {k}]
  /\ order' = [order EXCEPT ![k] = Append(@, t)]

\* sort(): the next key of t is the least one it has not joined.
NextKey(t, k) == Least(k, Wanted[t] \ joined[t])

\* Call: the synchronous part, up to the await on the first key.
Call(t) ==
  /\ stage[t] = "idle"
  /\ \E k \in Key : NextKey(t, k) /\ Join(t, k)
  /\ stage' = [stage EXCEPT ![t] = "waiting"]
  /\ UNCHANGED released

\* The await on a key is over and another key is left: acquire(i + 1) joins its
\* chain in the same continuation.
AcquireNext(t) ==
  /\ \E k \in Key : Awaiting(t, k) /\ PreviousSettled(t, k)
  /\ \E k \in Key : NextKey(t, k) /\ Join(t, k)
  /\ UNCHANGED <<released, stage>>

\* The await on the last key is over: the body starts.
Enter(t) ==
  /\ \E k \in Key : Awaiting(t, k) /\ PreviousSettled(t, k)
  /\ Wanted[t] \subseteq joined[t]
  /\ stage' = [stage EXCEPT ![t] = "running"]
  /\ UNCHANGED <<chains, previous, joined, released, order>>

\* Mutations: a chain is forgotten although somebody joined behind; never.
LeaveForgetting(t) ==
  /\ stage[t] \in {"running", "leaving"}
  /\ \E k \in Key :
       /\ Greatest(k, joined[t] \ released[t])
       /\ released' = [released EXCEPT ![t] = @ \cup {k}]
       /\ chains' = [chains EXCEPT ![k] = None]
       /\ order' = [order EXCEPT ![k] = Tail(@)]
       /\ stage' = [stage EXCEPT ![t] = IF joined[t] \ released[t] = {k}
                                        THEN "done" ELSE "leaving"]
  /\ UNCHANGED <<previous, joined>>
LeaveLeaking(t) ==
  /\ stage[t] \in {"running", "leaving"}
  /\ \E k \in Key :
       /\ Greatest(k, joined[t] \ released[t])
       /\ released' = [released EXCEPT ![t] = @ \cup {k}]
       /\ order' = [order EXCEPT ![k] = Tail(@)]
       /\ stage' = [stage EXCEPT ![t] = IF joined[t] \ released[t] = {k}
                                        THEN "done" ELSE "leaving"]
  /\ UNCHANGED <<previous, joined, chains>>

\* Mutation: a body that threw leaves through the innermost finally only.
LeaveInnermost(t) ==
  /\ stage[t] \in {"running", "leaving"}
  /\ \E k \in Key :
       /\ Greatest(k, joined[t] \ released[t])
       /\ released' = [released EXCEPT ![t] = @ \cup {k}]
       /\ chains' = IF chains[k] = t THEN [chains EXCEPT ![k] = None] ELSE chains
       /\ order' = [order EXCEPT ![k] = Tail(@)]
  /\ stage' = [stage EXCEPT ![t] = "done"]
  /\ UNCHANGED <<previous, joined>>

\* One finally block, innermost (greatest key) first: release(), then forget
\* the chain if nobody joined behind.
Leave(t) ==
  /\ stage[t] \in {"running", "leaving"}
  /\ \E k \in Key :
       /\ Greatest(k, joined[t] \ released[t])
       /\ released' = [released EXCEPT ![t] = @ \cup {k}]
       /\ chains' = IF chains[k] = t THEN [chains EXCEPT ![k] = None] ELSE chains
       /\ order' = [order EXCEPT ![k] = Tail(@)]
       /\ stage' = [stage EXCEPT ![t] = IF joined[t] \ released[t] = {k}
                                        THEN "done" ELSE "leaving"]
  /\ UNCHANGED <<previous, joined>>

GateStep(t) == AcquireNext(t) \/ Enter(t) \/ Leave(t)

GateNext == \E t \in Task : Call(t) \/ GateStep(t)

GateSpec == GateInit /\ [][GateNext]_gateVars

-----------------------------------------------------------------------------
\* At most one call is inside a scope: a scheduled briefing and a DM reply
\* never compose in the same conversation at the same time.
GateExclusive ==
  \A k \in Key : \A t, u \in Task : Holds(t, k) /\ Holds(u, k) => t = u

\* The scope is served in the order of arrival: the call inside is the oldest
\* one that has not left, also when chains were forgotten and rebuilt between.
FirstComeFirstServed ==
  \A k \in Key : \A t \in Task : Holds(t, k) => order[k] # << >> /\ Head(order[k]) = t

\* The Map does not leak, and is never forgotten under a live chain: a key is
\* registered exactly while some call has joined it and not left it, and the
\* registered tail is the last of them.
ChainsExact ==
  \A k \in Key :
    chains[k] = IF order[k] = << >> THEN None ELSE order[k][Len(order[k])]

\* The guards of the steps by which a call moves on inside the gates: Leave,
\* and AcquireNext or Enter once the predecessor has left.
CanGoOn(t) ==
  \/ /\ stage[t] \in {"running", "leaving"}
     /\ \E k \in Key : Greatest(k, joined[t] \ released[t])
  \/ /\ \E k \in Key : Awaiting(t, k) /\ PreviousSettled(t, k)
     /\ Wanted[t] \subseteq joined[t] \/ \E k \in Key : NextKey(t, k)

Inside(t) == stage[t] \notin {"idle", "done"}

\* The order in which sort() makes everybody join leaves no circle of calls
\* that wait for one another: while somebody is inside, somebody can go on.
NoCircularWait == (\E t \in Task : Inside(t)) => \E t \in Task : CanGoOn(t)
=============================================================================
