----------------------- MODULE ScheduleWatcher_proofs -----------------------
(***************************************************************************)
(* Proofs about ScheduleWatcher, for any table, batch size and clock, and   *)
(* for every disturbance the module knows, crashes and gated boots          *)
(* included: a claimed row is in one pair of hands, a row is begun at most  *)
(* once, what was settled stays settled, and every variable keeps its type. *)
(* Two more hold under an assumption that names the disturbances which      *)
(* break them: no row is stranded, and no schedule has two firings.         *)
(*                                                                          *)
(* For the second, `begun` is 0 for every row that can still be claimed     *)
(* (pending, or not inserted yet), and for every event whose session has    *)
(* not started; a release, the only way back to pending, happens to such    *)
(* events alone, and a crash empties the memory without releasing anything. *)
(***************************************************************************)
EXTENDS ScheduleWatcher, FiniteSetTheorems, WellFoundedInduction, TLAPS

Columns == {"status", "kind", "at", "text", "rule"}
Claimable(r) == row[r].status \in {"pending", "absent"}

\* As much typing as the argument needs.
Shape ==
  /\ DOMAIN row = Row
  /\ \A r \in Row : DOMAIN row[r] = Columns
  /\ \A s \in todo \cup sending : s.id \in Row
  /\ \A e \in events : /\ DOMAIN e = {"id", "kind", "text", "copy", "stage"}
                       /\ e.id \in Row /\ e.stage \in Stage
  /\ begun \in [Row -> Nat]

DownIsEmpty == ~up => todo = {} /\ sending = {} /\ events = {}

BegunOnce ==
  /\ \A r \in Row : begun[r] <= 1 /\ (Claimable(r) => begun[r] = 0)
  /\ \A e \in events : e.stage # "session" => begun[e.id] = 0

HoldInv == Shape /\ OneHolderPerRow /\ DownIsEmpty /\ BegunOnce

-----------------------------------------------------------------------------
\* What a statement on the table may do without anybody who holds a row
\* noticing.
Harmless ==
  /\ DOMAIN row' = Row /\ \A r \in Row : DOMAIN row'[r] = Columns
  /\ \A r \in Row : /\ Running(r) <=> row'[r].status = "running"
                    /\ row'[r].status \in {"pending", "absent"} => Claimable(r)
                    /\ row[r].status \in Settled => row'[r] = row[r]

\* A step that mints nothing and begins nothing keeps the invariant, if the
\* rows still held stay running and the rows it makes claimable were not begun.
LEMMA QuietStep ==
  ASSUME HoldInv, Shape', DownIsEmpty', events' \subseteq events, sending' \subseteq sending,
         begun' = begun,
         \A e \in events' : row'[e.id].status = "running",
         \A s \in sending' : row'[s.id].status = "running",
         \A r \in Row : row'[r].status \in {"pending", "absent"} => begun[r] = 0
  PROVE  HoldInv'
<1>1. OneHolderPerRow'
  <2>1. ASSUME NEW s \in sending'
        PROVE  (\A e \in events' : e.id # s.id) /\ sending' = {s}
    <3>1. s \in sending
      OBVIOUS
    <3>2. sending = {s} /\ \A e \in events : e.id # s.id
      BY <3>1, Zenon DEF HoldInv, OneHolderPerRow
    <3>3. \A t \in sending' : t \in {s}
      BY <3>2
    <3>4. sending' = {s}
      BY <3>3, Zenon
    <3>5. \A e \in events' : e \in events
      OBVIOUS
    <3> QED
      BY <3>2, <3>4, <3>5, Zenon
  <2>2. ASSUME NEW e \in events', NEW f \in events', e.id = f.id
        PROVE  e = f
    BY <2>2 DEF HoldInv, OneHolderPerRow
  <2>3. \A e \in events' : Running(e.id)'
    BY DEF Running
  <2>4. \A s \in sending' : Running(s.id)'
    BY DEF Running
  <2> QED
    BY <2>1, <2>2, <2>3, <2>4 DEF OneHolderPerRow
<1>2. BegunOnce'
  BY DEF HoldInv, BegunOnce, Claimable
<1> QED
  BY <1>1, <1>2 DEF HoldInv

LEMMA HarmlessStep ==
  ASSUME HoldInv, Harmless, events' \subseteq events, sending' \subseteq sending,
         \A s \in todo' : s.id \in Row, DownIsEmpty', begun' = begun
  PROVE  HoldInv'
<1>1. Shape'
  BY DEF HoldInv, Shape, Harmless
<1>2. \A e \in events' : row'[e.id].status = "running"
  BY DEF HoldInv, Shape, OneHolderPerRow, Harmless, Running
<1>3. \A s \in sending' : row'[s.id].status = "running"
  BY DEF HoldInv, Shape, OneHolderPerRow, Harmless, Running
<1>4. \A r \in Row : row'[r].status \in {"pending", "absent"} => begun[r] = 0
  BY DEF HoldInv, BegunOnce, Harmless
<1> QED
  BY <1>1, <1>2, <1>3, <1>4, QuietStep

LEMMA SameTableHarmless == ASSUME Shape, row' = row PROVE Harmless
  BY DEF Shape, Harmless, Running, Claimable

-----------------------------------------------------------------------------
LEMMA UserHarmless ==
  ASSUME Shape, UserStep
  PROVE  Harmless /\ UNCHANGED <<memory, begun, up>>
<1> USE DEF Shape, Columns
<1>1. ASSUME NEW r \in Row, NEW k, NEW at, Insert(r, k, at)
      PROVE  Harmless /\ UNCHANGED <<memory, begun, up>>
  BY <1>1 DEF Insert, Absent, NewRow, Harmless, Running, Claimable, Settled
<1>2. ASSUME NEW r \in Row, NEW at, Patch(r, at)
      PROVE  Harmless /\ UNCHANGED <<memory, begun, up>>
  BY <1>2 DEF Patch, Pending, Harmless, Running, Claimable, Settled
<1>3. ASSUME NEW r \in Row, Cancel(r)
      PROVE  Harmless /\ UNCHANGED <<memory, begun, up>>
  BY <1>3 DEF Cancel, Pending, Harmless, Running, Claimable, Settled
<1>4. ASSUME NEW r \in Row, Approve(r)
      PROVE  Harmless /\ UNCHANGED <<memory, begun, up>>
  BY <1>4 DEF Approve, Pending, Harmless, Running, Claimable, Settled
<1>5. ASSUME NEW q \in Recurring, UpdatePrompt(q)
      PROVE  Harmless /\ UNCHANGED <<memory, begun, up>>
  BY <1>5 DEF UpdatePrompt, PendingOf, Pending, Harmless, Running, Claimable, Settled
<1>6. ASSUME NEW q \in Recurring, NEW b, UpdateRule(q, b)
      PROVE  Harmless /\ UNCHANGED <<memory, begun, up>>
  <2> DEFINE cancelled == Marked(row, PendingOf(q), "skipped")
  <2>1. /\ DOMAIN cancelled = Row
        /\ \A r \in Row : DOMAIN cancelled[r] = Columns
        /\ \A r \in Row : IF r \in PendingOf(q) THEN cancelled[r].status = "skipped"
                          ELSE cancelled[r] = row[r]
    BY DEF Marked
  <2>2. \A r \in PendingOf(q) : row[r].status = "pending"
    BY DEF PendingOf, Pending
  <2>3. \/ row' = cancelled
        \/ \E r \in Absent : row' = [cancelled EXCEPT ![r] =
                                      NewRow("task", NextOccurrence, text[q] + 1, q)]
    BY <1>6 DEF UpdateRule
  <2>4. \A r \in Absent : r \in Row /\ row[r].status = "absent"
    BY DEF Absent
  <2> HIDE DEF cancelled
  <2>5. CASE row' = cancelled
    BY <1>6, <2>1, <2>2, <2>5 DEF UpdateRule, Harmless, Running, Claimable, Settled
  <2>6. ASSUME NEW r \in Absent,
               row' = [cancelled EXCEPT ![r] = NewRow("task", NextOccurrence, text[q] + 1, q)]
        PROVE  Harmless
    BY <2>1, <2>2, <2>4, <2>6 DEF NewRow, Harmless, Running, Claimable, Settled
  <2> QED
    BY <1>6, <2>3, <2>5, <2>6 DEF UpdateRule
<1> QED
  BY <1>1, <1>2, <1>3, <1>4, <1>5, <1>6 DEF UserStep

LEMMA PollHarmless ==
  ASSUME Shape, Poll
  PROVE  Harmless /\ \A s \in todo' : s.id \in Row
<1> DEFINE kept == Marked(row, Stale, "skipped")
<1>1. /\ DOMAIN kept = Row
      /\ \A r \in Row : DOMAIN kept[r] = Columns
      /\ \A r \in Row : IF r \in Stale THEN kept[r].status = "skipped" ELSE kept[r] = row[r]
  BY DEF Marked, Shape, Columns
<1>2. \A r \in Stale : row[r].status = "pending"
  BY DEF Stale, Pending
<1>3. CASE row' = kept /\ todo' = todo
  BY <1>1, <1>2, <1>3 DEF Shape, Harmless, Running, Claimable, Settled
<1>4. ASSUME NEW f \in FreshIds(Idle(kept)), row' = Reconciled(kept, f),
             NEW R \in SUBSET Due(row'), todo' = {SnapshotOf(row', r) : r \in R}
      PROVE  Harmless /\ \A s \in todo' : s.id \in Row
  <2>1. \A q \in DOMAIN f : f[q] \in Absent
    BY DEF FreshIds
  <2>2. DOMAIN row' = Row
    BY <1>4 DEF Reconciled
  <2>3. ASSUME NEW r \in Row
        PROVE  \/ /\ row[r].status = "absent" /\ DOMAIN row'[r] = Columns
                  /\ row'[r].status = "pending"
               \/ row'[r] = kept[r]
    <3>1. CASE \E q \in DOMAIN f : f[q] = r
      <4>1. row[r].status = "absent"
        BY <2>1, <3>1 DEF Absent
      <4>2. \E q : row'[r] = NewRow("task", NextOccurrence, text[q], q)
        BY <1>4, <3>1 DEF Reconciled
      <4> QED
        BY <4>1, <4>2 DEF NewRow, Columns
    <3>2. CASE ~ \E q \in DOMAIN f : f[q] = r
      BY <1>4, <3>2 DEF Reconciled
    <3> QED
      BY <3>1, <3>2
  <2>4. \A s \in todo' : s.id \in Row
    BY <1>4 DEF SnapshotOf, Due
  <2> HIDE DEF kept
  <2> QED
    BY <1>1, <1>2, <2>2, <2>3, <2>4 DEF Harmless, Running, Claimable, Settled
<1>5. ASSUME NEW s \in todo, row' = kept, todo' = todo PROVE s.id \in Row
  BY DEF Shape
<1> HIDE DEF kept
<1>6. \/ row' = kept /\ todo' = todo
      \/ \E f \in FreshIds(Idle(kept)) : \E R \in SUBSET Due(row') :
           row' = Reconciled(kept, f) /\ todo' = {SnapshotOf(row', r) : r \in R}
  BY DEF Poll, kept
<1> QED
  BY <1>3, <1>4, <1>6 DEF Shape

-----------------------------------------------------------------------------
LEMMA InitHolds == Init => HoldInv
  BY DEF Init, HoldInv, Shape, Columns, OneHolderPerRow, DownIsEmpty, BegunOnce, Claimable

\* The steps of the watcher that mint something.
LEMMA ClaimDmHolds ==
  ASSUME HoldInv, NEW s \in todo, ClaimDm(s)
  PROVE  HoldInv'
<1> USE DEF HoldInv, Shape
<1>1. /\ s.id \in Row /\ row[s.id].status = "pending" /\ sending = {} /\ up
      /\ row' = [row EXCEPT ![s.id].status = "running"]
      /\ sending' = {s} /\ begun' = [begun EXCEPT ![s.id] = @ + 1]
      /\ todo' \subseteq todo /\ events' = events /\ up' = up
  BY DEF ClaimDm, Claims, Handles, Pending
<1>2. /\ row'[s.id].status = "running"
      /\ \A r \in Row \ {s.id} : row'[r] = row[r] /\ begun'[r] = begun[r]
      /\ DOMAIN row' = Row /\ \A r \in Row : DOMAIN row'[r] = Columns
  BY <1>1 DEF Columns
<1>3. begun[s.id] = 0 /\ begun'[s.id] = 1 /\ begun' \in [Row -> Nat]
  BY <1>1 DEF BegunOnce, Claimable
<1>4. \A e \in events : e.id # s.id
  BY <1>1 DEF OneHolderPerRow, Running
<1>5. Shape' /\ DownIsEmpty'
  BY <1>1, <1>2, <1>3 DEF DownIsEmpty
<1>6. OneHolderPerRow'
  BY <1>1, <1>2, <1>4 DEF OneHolderPerRow, Running
<1>7. BegunOnce'
  <2>1. \A r \in Row : begun'[r] <= 1 /\ (row'[r].status \in {"pending", "absent"} => begun'[r] = 0)
    BY <1>2, <1>3 DEF BegunOnce, Claimable
  <2>2. \A e \in events' : e.stage # "session" => begun'[e.id] = 0
    BY <1>1, <1>2, <1>4 DEF BegunOnce
  <2> QED
    BY <2>1, <2>2 DEF BegunOnce, Claimable
<1> QED
  BY <1>5, <1>6, <1>7

LEMMA ClaimForSessionHolds ==
  ASSUME HoldInv, NEW s \in todo, ClaimForSession(s)
  PROVE  HoldInv'
<1> DEFINE m == [id |-> s.id, kind |-> s.kind, text |-> s.text,
                 copy |-> NextCopy(s.id), stage |-> "queued"]
<1> USE DEF HoldInv, Shape
<1>1. /\ s.id \in Row /\ row[s.id].status = "pending" /\ sending = {} /\ up
      /\ row' = [row EXCEPT ![s.id].status = "running"]
      /\ events' = events \cup {m} /\ begun' = begun
      /\ todo' \subseteq todo /\ sending' = sending /\ up' = up
  BY DEF ClaimForSession, Claims, Handles, Pending
<1>2. /\ row'[s.id].status = "running"
      /\ \A r \in Row \ {s.id} : row'[r] = row[r]
      /\ DOMAIN row' = Row /\ \A r \in Row : DOMAIN row'[r] = Columns
  BY <1>1 DEF Columns
<1>3. /\ DOMAIN m = {"id", "kind", "text", "copy", "stage"}
      /\ m.id = s.id /\ m.stage = "queued"
  OBVIOUS
<1> HIDE DEF m
<1>4. begun[s.id] = 0
  BY <1>1 DEF BegunOnce, Claimable
<1>5. \A e \in events : e.id # s.id
  BY <1>1 DEF OneHolderPerRow, Running
<1>6. Shape' /\ DownIsEmpty'
  BY <1>1, <1>2, <1>3 DEF DownIsEmpty, Stage
<1>7. OneHolderPerRow'
  BY <1>1, <1>2, <1>3, <1>5 DEF OneHolderPerRow, Running
<1>8. BegunOnce'
  <2>1. \A r \in Row : begun'[r] <= 1 /\ (row'[r].status \in {"pending", "absent"} => begun'[r] = 0)
    BY <1>1, <1>2, <1>4 DEF BegunOnce, Claimable
  <2>2. \A e \in events' : e.stage # "session" => begun'[e.id] = 0
    BY <1>1, <1>3, <1>4 DEF BegunOnce
  <2> QED
    BY <2>1, <2>2 DEF BegunOnce, Claimable
<1> QED
  BY <1>6, <1>7, <1>8

\* The steps of the dispatcher.
LEMMA EnterHolds ==
  ASSUME HoldInv, NEW e \in events, NEW stage \in Stage, Enter(e, stage),
         UNCHANGED <<row, begun, todo, sending, up>>, up,
         stage = "session" \/ e.stage # "session"
  PROVE  HoldInv'
<1> DEFINE m == [e EXCEPT !.stage = stage]
<1> USE DEF HoldInv, Shape
<1>1. events' = (events \ {e}) \cup {m}
  BY DEF Enter
<1>2. /\ DOMAIN m = {"id", "kind", "text", "copy", "stage"}
      /\ m.id = e.id /\ m.stage = stage
  OBVIOUS
<1> HIDE DEF m
<1>3. Shape' /\ DownIsEmpty'
  BY <1>1, <1>2 DEF DownIsEmpty
<1>4. OneHolderPerRow'
  BY <1>1, <1>2 DEF OneHolderPerRow, Running
<1>5. BegunOnce'
  BY <1>1, <1>2 DEF BegunOnce, Claimable
<1> QED
  BY <1>3, <1>4, <1>5

LEMMA BeginHolds ==
  ASSUME HoldInv, NEW e \in events, BeginSession(e), e.stage # "session",
         UNCHANGED <<todo, sending, up>>, up
  PROVE  HoldInv'
<1> DEFINE m == [e EXCEPT !.stage = "session"]
<1> USE DEF HoldInv, Shape
<1>1. /\ events' = (events \ {e}) \cup {m} /\ row' = row
      /\ begun' = [begun EXCEPT ![e.id] = @ + 1]
  BY DEF BeginSession, Enter
<1>2. /\ DOMAIN m = {"id", "kind", "text", "copy", "stage"}
      /\ m.id = e.id /\ m.stage = "session"
  OBVIOUS
<1> HIDE DEF m
<1>3. begun[e.id] = 0 /\ begun'[e.id] = 1 /\ begun' \in [Row -> Nat]
      /\ \A r \in Row \ {e.id} : begun'[r] = begun[r]
  BY <1>1 DEF BegunOnce
<1>4. Shape' /\ DownIsEmpty'
  BY <1>1, <1>2, <1>3 DEF DownIsEmpty, Stage
<1>5. OneHolderPerRow'
  BY <1>1, <1>2 DEF OneHolderPerRow, Running
<1>6. BegunOnce'
  <2>1. row[e.id].status = "running"
    BY DEF OneHolderPerRow, Running
  <2>2. \A r \in Row : begun'[r] <= 1 /\ (row'[r].status \in {"pending", "absent"} => begun'[r] = 0)
    BY <1>1, <1>3, <2>1 DEF BegunOnce, Claimable
  <2>3. \A f \in events \ {e} : f.id # e.id
    BY DEF OneHolderPerRow
  <2>4. \A f \in events' : f.stage # "session" => begun'[f.id] = 0
    BY <1>1, <1>2, <1>3, <2>3 DEF BegunOnce
  <2> QED
    BY <2>2, <2>4 DEF BegunOnce, Claimable
<1> QED
  BY <1>4, <1>5, <1>6

\* An event ends and its row, if still running, gets status s.
LEMMA EndHolds ==
  ASSUME HoldInv, NEW e \in events, events' = events \ {e}, NEW s,
         SettleIfRunning(e.id, s), UNCHANGED <<todo, sending, up, begun>>, up,
         s \in Settled \/ (s = "pending" /\ e.stage # "session")
  PROVE  HoldInv'
<1> USE DEF HoldInv, Shape
<1>1. e.id \in Row /\ row[e.id].status = "running"
  BY DEF OneHolderPerRow, Running
<1>2. row' = [row EXCEPT ![e.id].status = s]
  BY <1>1 DEF SettleIfRunning, Running
<1>3. /\ DOMAIN row' = Row /\ \A r \in Row : DOMAIN row'[r] = Columns
      /\ row'[e.id].status = s /\ \A r \in Row \ {e.id} : row'[r] = row[r]
  BY <1>1, <1>2 DEF Columns
<1>4. Shape' /\ DownIsEmpty'
  BY <1>3 DEF DownIsEmpty
<1>5. \A f \in events' : row'[f.id].status = "running"
  BY <1>3 DEF OneHolderPerRow, Running
<1>6. \A f \in sending' : row'[f.id].status = "running"
  BY <1>3 DEF OneHolderPerRow, Running
<1>7. \A r \in Row : row'[r].status \in {"pending", "absent"} => begun[r] = 0
  BY <1>1, <1>3 DEF BegunOnce, Claimable, Settled
<1> QED
  BY <1>4, <1>5, <1>6, <1>7, QuietStep

LEMMA DispatchHolds ==
  ASSUME HoldInv, DispatchStep
  PROVE  HoldInv'
<1>1. up /\ events # {}
  BY DEF DispatchStep, HoldInv, DownIsEmpty
<1>2. ASSUME NEW e \in events, CheckGates(e) PROVE HoldInv'
  <2>1. e.stage = "queued" /\ UNCHANGED <<todo, sending, up>>
    BY <1>2 DEF CheckGates
  <2>2. CASE Release(e)
    BY <1>1, <2>1, <2>2, EndHolds DEF Release
  <2>3. CASE Enter(e, "probing") /\ UNCHANGED <<row, begun>>
    BY <1>1, <2>1, <2>3, EnterHolds DEF Stage
  <2> QED
    BY <1>2, <2>2, <2>3 DEF CheckGates
<1>3. ASSUME NEW e \in events, CheckSpawn(e) PROVE HoldInv'
  <2>1. e.stage = "probing" /\ UNCHANGED <<todo, sending, up>>
    BY <1>3 DEF CheckSpawn
  <2>2. CASE Release(e)
    BY <1>1, <2>1, <2>2, EndHolds DEF Release
  <2>3. CASE Enter(e, "gated") /\ UNCHANGED <<row, begun>>
    BY <1>1, <2>1, <2>3, EnterHolds DEF Stage
  <2>4. CASE BeginSession(e)
    BY <1>1, <2>1, <2>4, BeginHolds
  <2> QED
    BY <1>3, <2>2, <2>3, <2>4 DEF CheckSpawn
<1>4. ASSUME NEW e \in events, PassSessionGates(e) PROVE HoldInv'
  <2>1. e.stage = "gated" /\ UNCHANGED <<todo, sending, up>>
    BY <1>4 DEF PassSessionGates
  <2>2. CASE SettleIfRunning(e.id, "skipped") /\ events' = events \ {e} /\ UNCHANGED begun
    BY <1>1, <2>1, <2>2, EndHolds DEF Settled
  <2>3. CASE BeginSession(e)
    BY <1>1, <2>1, <2>3, BeginHolds
  <2> QED
    BY <1>4, <2>2, <2>3 DEF PassSessionGates
<1>5. ASSUME NEW e \in events, NEW o, SessionDone(e, o) PROVE HoldInv'
  BY <1>1, <1>5, EndHolds DEF SessionDone, Settled
<1> QED
  BY <1>2, <1>3, <1>4, <1>5 DEF DispatchStep

LEMMA WatcherHolds ==
  ASSUME HoldInv, Watcher
  PROVE  HoldInv'
<1> USE DEF HoldInv
<1>1. CASE Poll
  <2>1. up /\ UNCHANGED <<events, sending, begun, up>>
    BY <1>1 DEF Poll
  <2> QED
    BY <1>1, <2>1, PollHarmless, HarmlessStep DEF DownIsEmpty
<1>2. ASSUME NEW s \in todo, ClaimLost(s) PROVE HoldInv'
  <2>1. /\ up /\ UNCHANGED <<row, events, sending, begun, up>> /\ todo' \subseteq todo
    BY <1>2 DEF ClaimLost, Handles, table
  <2> QED
    BY <2>1, SameTableHarmless, HarmlessStep DEF DownIsEmpty, Shape
<1>3. ASSUME NEW s \in todo, ClaimDm(s) PROVE HoldInv'
  BY <1>3, ClaimDmHolds
<1>4. ASSUME NEW s \in todo, ClaimForSession(s) PROVE HoldInv'
  BY <1>4, ClaimForSessionHolds
<1>5. ASSUME NEW s \in todo, ClaimDeferred(s) \/ ClaimThrows(s) PROVE HoldInv'
  <2>1. /\ up /\ UNCHANGED <<events, sending, begun, up>> /\ todo' \subseteq todo
        /\ row[s.id].status = "pending" /\ s.id \in Row
    BY <1>5 DEF ClaimDeferred, ClaimThrows, Claims, Handles, Pending, Shape
  <2>2. \/ row' = [row EXCEPT ![s.id].at = QuietEnd]
        \/ row' = [row EXCEPT ![s.id].status = "failed"]
    BY <1>5 DEF ClaimDeferred, ClaimThrows
  <2>3. Harmless
    BY <2>1, <2>2 DEF Shape, Columns, Harmless, Running, Claimable, Settled
  <2> QED
    BY <2>1, <2>3, HarmlessStep DEF DownIsEmpty, Shape
<1>6. ASSUME NEW s \in sending, NEW o, DmDone(s, o) PROVE HoldInv'
  <2>1. /\ s.id \in Row /\ row[s.id].status = "running"
        /\ \A e \in events : e.id # s.id
    BY DEF Shape, OneHolderPerRow, Running
  <2>2. /\ row' = [row EXCEPT ![s.id].status = o] /\ o \in {"completed", "failed"}
        /\ sending' = {} /\ up /\ UNCHANGED <<events, todo, begun, up>>
    BY <1>6 DEF DmDone
  <2>3. /\ DOMAIN row' = Row /\ \A r \in Row : DOMAIN row'[r] = Columns
        /\ row'[s.id].status = o /\ \A r \in Row \ {s.id} : row'[r] = row[r]
    BY <2>1, <2>2 DEF Shape, Columns
  <2>4. Shape' /\ DownIsEmpty'
    BY <2>2, <2>3 DEF Shape, DownIsEmpty
  <2>5. \A e \in events' : row'[e.id].status = "running"
    BY <2>1, <2>2, <2>3 DEF Shape, OneHolderPerRow, Running
  <2>6. \A r \in Row : row'[r].status \in {"pending", "absent"} => begun[r] = 0
    BY <2>2, <2>3 DEF BegunOnce, Claimable
  <2> QED
    BY <2>2, <2>4, <2>5, <2>6, QuietStep
<1> QED
  BY <1>1, <1>2, <1>3, <1>4, <1>5, <1>6 DEF Watcher

LEMMA BootHarmless ==
  ASSUME Shape, Boot
  PROVE  \/ row' = row
         \/ /\ DOMAIN row' = Row
            /\ \A r \in Row :
                 /\ DOMAIN row'[r] = Columns
                 /\ row[r].status = "absent" \/ row[r].status \in Settled => row'[r] = row[r]
                 /\ row'[r].status \in {"pending", "absent"} => row'[r] = row[r]
<1>1. \A r \in Stale : row[r].status = "pending"
  BY DEF Stale, Pending
<1> QED
  BY <1>1 DEF Boot, Shape, Columns, Running, Settled

LEMMA EnvironmentHolds ==
  ASSUME HoldInv,
         Tick \/ SetGate \/ Crash \/ Boot \/ UserStep \/ \E e \in events : BusLoses(e)
  PROVE  HoldInv'
<1> USE DEF HoldInv
<1>1. CASE Tick \/ SetGate
  <2>1. UNCHANGED <<row, events, sending, todo, begun, up>>
    BY <1>1 DEF Tick, SetGate, table, memory
  <2> QED
    BY <2>1, SameTableHarmless, HarmlessStep DEF DownIsEmpty, Shape
<1>2. CASE Crash
  <2>1. UNCHANGED <<row, begun>> /\ todo' = {} /\ sending' = {} /\ events' = {}
    BY <1>2 DEF Crash, table
  <2> QED
    BY <2>1, SameTableHarmless, HarmlessStep DEF DownIsEmpty
<1>3. CASE Boot
  <2>1. /\ todo' = {} /\ sending' = {} /\ events' = {} /\ begun' = begun
    BY <1>3 DEF Boot, memory, DownIsEmpty
  <2>2. Shape'
    BY <1>3, <2>1, BootHarmless DEF Shape
  <2>3. \A r \in Row : row'[r].status \in {"pending", "absent"} => begun[r] = 0
    BY <1>3, BootHarmless DEF BegunOnce, Claimable
  <2> QED
    BY <2>1, <2>2, <2>3, QuietStep DEF DownIsEmpty
<1>4. CASE UserStep
  <2>1. Harmless /\ UNCHANGED <<events, sending, todo, begun, up>>
    BY <1>4, UserHarmless DEF memory
  <2> QED
    BY <2>1, HarmlessStep DEF DownIsEmpty, Shape
<1>5. ASSUME NEW e \in events, BusLoses(e) PROVE HoldInv'
  <2>1. UNCHANGED <<row, sending, todo, begun, up>> /\ events' \subseteq events
    BY <1>5 DEF BusLoses, table
  <2> QED
    BY <2>1, SameTableHarmless, HarmlessStep DEF DownIsEmpty, Shape
<1> QED
  BY <1>1, <1>2, <1>3, <1>4, <1>5

LEMMA StepHolds == HoldInv /\ [Next]_vars => HoldInv'
<1> SUFFICES ASSUME HoldInv, [Next]_vars
             PROVE  HoldInv'
  OBVIOUS
<1>1. CASE UNCHANGED vars
  BY <1>1 DEF vars, HoldInv, Shape, OneHolderPerRow, Running, DownIsEmpty, BegunOnce, Claimable
<1> QED
  BY <1>1, WatcherHolds, DispatchHolds, EnvironmentHolds DEF Next

LEMMA HoldInvHolds == Spec => []HoldInv
  BY InitHolds, StepHolds, PTL DEF Spec

-----------------------------------------------------------------------------
\* A claimed row is in one pair of hands, and running while it is.
THEOREM OneHolder == Spec => []OneHolderPerRow
<1>1. HoldInv => OneHolderPerRow
  BY DEF HoldInv
<1> QED
  BY <1>1, HoldInvHolds, PTL

\* No DM and no session of a row is begun twice, whatever crashed in between.
THEOREM AtMostOnce == Spec => []NotReplayed
<1>1. HoldInv => NotReplayed
  BY DEF HoldInv, BegunOnce, NotReplayed
<1> QED
  BY <1>1, HoldInvHolds, PTL

LEMMA SettledStep ==
  ASSUME HoldInv, [Next]_vars, NEW r \in Row, row[r].status \in Settled
  PROVE  row'[r] = row[r]
<1> USE DEF HoldInv
<1>1. CASE UNCHANGED vars
  BY <1>1 DEF vars
<1>2. CASE Watcher
  <2>1. CASE Poll
    BY <2>1, PollHarmless DEF Harmless
  <2>2. ASSUME NEW s \in todo,
               ClaimLost(s) \/ ClaimDm(s) \/ ClaimDeferred(s) \/ ClaimForSession(s) \/ ClaimThrows(s)
        PROVE  row'[r] = row[r]
    <3>1. s.id # r \/ row' = row
      BY <2>2 DEF ClaimLost, ClaimDm, ClaimDeferred, ClaimForSession, ClaimThrows, Claims,
                  Pending, Settled, table
    <3>2. row' = row \/ \E v : row' = [row EXCEPT ![s.id] = v]
      BY <2>2 DEF ClaimLost, ClaimDm, ClaimDeferred, ClaimForSession, ClaimThrows, table
    <3> QED
      BY <3>1, <3>2 DEF Shape
  <2>3. ASSUME NEW s \in sending, NEW o, DmDone(s, o)
        PROVE  row'[r] = row[r]
    <3>1. s.id # r
      BY DEF OneHolderPerRow, Running, Settled
    <3> QED
      BY <2>3, <3>1 DEF DmDone
  <2> QED
    BY <1>2, <2>1, <2>2, <2>3 DEF Watcher
<1>3. CASE DispatchStep
  <2>1. PICK e \in events : \/ CheckGates(e) \/ CheckSpawn(e) \/ PassSessionGates(e)
                            \/ SessionDone(e, "completed") \/ SessionDone(e, "failed")
    BY <1>3 DEF DispatchStep
  <2>2. e.id # r
    BY DEF OneHolderPerRow, Running, Settled
  <2>3. row' = row \/ \E o : row' = [row EXCEPT ![e.id].status = o]
    BY <2>1 DEF CheckGates, CheckSpawn, PassSessionGates, SessionDone, Release,
                BeginSession, SettleIfRunning
  <2> QED
    BY <2>2, <2>3 DEF Shape
<1>4. CASE UserStep
  BY <1>4, UserHarmless DEF Harmless
<1>5. CASE Boot
  BY <1>5, BootHarmless
<1>6. CASE Tick \/ SetGate \/ Crash \/ \E e \in events : BusLoses(e)
  BY <1>6 DEF Tick, SetGate, Crash, BusLoses, table
<1> QED
  BY <1>1, <1>2, <1>3, <1>4, <1>5, <1>6 DEF Next

\* The outcome of a row is final.
THEOREM OutcomesAreFinal == Spec => SettledStays
<1>1. HoldInv /\ [Next]_vars => [\A r \in Row : row[r].status \in Settled => row'[r] = row[r]]_vars
  BY SettledStep
<1> QED
  BY <1>1, HoldInvHolds, PTL DEF Spec, SettledStays

-----------------------------------------------------------------------------
(* Type correctness.  What is not immediate is the arithmetic: the times the *)
(* watcher computes, the next occurrence of a rule and the end of the quiet  *)
(* hours, exist and stay within Time.                                        *)

LEMMA MultipleBound ==
  ASSUME NEW k \in Int, NEW c \in Nat \ {0}, k >= 1
  PROVE  c * k >= c
  OBVIOUS

\* The remainder of a division is the only one there is.
LEMMA ModUnique ==
  ASSUME NEW q \in Nat, NEW c \in Nat \ {0}, NEW d \in 0..(c - 1)
  PROVE  (q * c + d) % c = d
<1> DEFINE n == q * c + d
<1> DEFINE m == n \div c
<1> DEFINE r == n % c
<1>1. n = q * c + d /\ n \in Nat
  OBVIOUS
<1>2. n = c * m + r /\ r \in 0..(c - 1) /\ m \in Nat
  <2>1. m = n \div c /\ r = n % c
    OBVIOUS
  <2> HIDE DEF n, m, r
  <2> QED
    <3>1. r = n - c * m
      BY <1>1, <2>1
    <3>2. r \in 0..(c - 1) /\ m \in Nat
      BY <1>1, <2>1
    <3> QED
      BY <1>1, <3>1, <3>2
<1> HIDE DEF n, m, r
<1>3. c * (q - m) = r - d /\ c * (m - q) = d - r
  BY <1>1, <1>2
<1>4. ~(q - m >= 1)
  <2> SUFFICES ASSUME q - m >= 1 PROVE FALSE
    OBVIOUS
  <2>1. c * (q - m) >= c
    BY <1>2, MultipleBound
  <2> QED
    BY <2>1, <1>2, <1>3
<1>5. ~(m - q >= 1)
  <2> SUFFICES ASSUME m - q >= 1 PROVE FALSE
    OBVIOUS
  <2>1. c * (m - q) >= c
    BY <1>2, MultipleBound
  <2> QED
    BY <2>1, <1>2, <1>3
<1>6. q = m
  BY <1>2, <1>4, <1>5
<1>7. r = d
  BY <1>2, <1>3, <1>6
<1> QED
  BY <1>7 DEF r, n

\* A set of instants has a first one, and Min is it.
LEMMA FirstInstant ==
  ASSUME NEW S \in SUBSET Nat, S # {}
  PROVE  Min(S) \in S /\ \A t \in S : Min(S) <= t
<1> DEFINE R == {ss \in Nat \X Nat : ss[1] < ss[2]}
<1>1. IsWellFoundedOn(R, Nat)
  BY NatLessThanWellFounded, Zenon DEF OpToRel
<1>2. \A i, j \in Nat : <<i, j>> \in R <=> i < j
  OBVIOUS
<1> HIDE DEF R
<1>3. PICK i \in S : \A j \in S : <<j, i>> \notin R
  BY <1>1, WFMin
<1>4. ASSUME NEW j \in S PROVE i <= j
  <2>1. i \in Nat /\ j \in Nat
    OBVIOUS
  <2>2. ~(j < i)
    BY <2>1, <1>2, <1>3
  <2> QED
    BY <2>1, <2>2
<1> QED
  BY <1>4 DEF Min

\* A recurrence rule's next occurrence is in the future and representable.
LEMMA NextOccurrenceInTime ==
  ASSUME now \in 0..MaxTime
  PROVE  NextOccurrence \in Time /\ NextOccurrence > now
<1>1. now \in Nat /\ Cadence \in Nat \ {0} /\ MaxTime \in Nat /\ DayLength \in Nat
  BY ScheduleAssumption
<1> DEFINE q == now \div Cadence
<1> DEFINE r == now % Cadence
<1>2. NextOccurrence = (q + 1) * Cadence
  BY DEF NextOccurrence
<1>3. q = now \div Cadence /\ r = now % Cadence
  OBVIOUS
<1> HIDE DEF q, r
<1>4. now = Cadence * q + r /\ r \in 0..(Cadence - 1) /\ q \in Nat
  <2>1. r = now - Cadence * q
    BY <1>1, <1>3
  <2>2. r \in 0..(Cadence - 1) /\ q \in Nat
    BY <1>1, <1>3
  <2> QED
    BY <1>1, <2>1, <2>2
<1>5. NextOccurrence = Cadence * q + Cadence
  BY <1>1, <1>2, <1>4
<1>6. NextOccurrence = now - r + Cadence
  BY <1>1, <1>4, <1>5
<1> QED
  BY <1>1, <1>4, <1>6 DEF Time

\* Since not the whole day is quiet, quiet hours end within a day.
LEMMA QuietHoursEnd ==
  ASSUME now \in 0..MaxTime
  PROVE  QuietEnd \in Time /\ QuietEnd > now
<1> DEFINE D == DayLength
<1> DEFINE n == now + 1
<1> DEFINE S == {t \in Time : t > now /\ t % DayLength \notin Quiet}
<1>1. now \in Nat /\ n \in Nat /\ D \in Nat \ {0} /\ MaxTime \in Nat /\ Cadence \in Nat
  BY ScheduleAssumption
<1>2. PICK d \in 0..(D - 1) : d \notin Quiet
  BY ScheduleAssumption
<1> DEFINE q == n \div D
<1> DEFINE r == n % D
<1>3. n = D * q + r /\ r \in 0..(D - 1) /\ q \in Nat
  <2>1. q = n \div D /\ r = n % D
    OBVIOUS
  <2> HIDE DEF q, r, n, D
  <2> QED
    <3>1. r = n - D * q
      BY <1>1, <2>1
    <3>2. r \in 0..(D - 1) /\ q \in Nat
      BY <1>1, <2>1
    <3> QED
      BY <1>1, <3>1, <3>2
<1> DEFINE k == IF d >= r THEN q ELSE q + 1
<1> DEFINE t == k * D + d
<1>4. k \in Nat /\ t \in Nat
  BY <1>1, <1>3
<1>5. t % D = d
  <2> HIDE DEF k, D
  <2> QED
    BY <1>1, <1>4, ModUnique
<1>6. n <= t /\ t <= now + D
  <2>1. n = now + 1
    OBVIOUS
  <2> HIDE DEF q, r, n, D
  <2>2. CASE d >= r
    <3>1. t = D * q + d
      BY <2>2, <1>1, <1>3
    <3> HIDE DEF t
    <3> QED
      BY <3>1, <2>1, <2>2, <1>1, <1>3
  <2>3. CASE ~(d >= r)
    <3>1. t = D * q + D + d
      BY <2>3, <1>1, <1>3
    <3> HIDE DEF t
    <3> QED
      BY <3>1, <2>1, <2>3, <1>1, <1>3
  <2> QED
    BY <2>2, <2>3
<1>7. t \in S
  <2>1. t \in Time /\ t > now
    <3> HIDE DEF k
    <3> QED
      BY <1>1, <1>4, <1>6 DEF Time
  <2> HIDE DEF t
  <2> QED
    BY <2>1, <1>2, <1>5
<1>8. S \in SUBSET Nat
  BY <1>1 DEF Time
<1>9. Min(S) \in S
  <2> HIDE DEF S, t
  <2> QED
    BY <1>7, <1>8, FirstInstant
<1> QED
  BY <1>9 DEF QuietEnd

LEMMA StatusTyped ==
  ASSUME NEW T \in [Row -> RowRecord], NEW r, NEW s \in Status
  PROVE  [T EXCEPT ![r].status = s] \in [Row -> RowRecord]
  BY DEF RowRecord

LEMMA MarkedTyped ==
  ASSUME NEW T \in [Row -> RowRecord], NEW R, NEW s \in Status
  PROVE  Marked(T, R, s) \in [Row -> RowRecord]
<1>1. \A r \in Row : [T[r] EXCEPT !.status = s] \in RowRecord
  BY DEF RowRecord
<1> QED
  BY <1>1 DEF Marked

LEMMA NewRowTyped ==
  ASSUME NEW kind \in AllKinds, NEW at \in Time, NEW version \in 0..MaxText,
         NEW rule \in Recurring \cup {None}
  PROVE  NewRow(kind, at, version, rule) \in RowRecord
  BY DEF NewRow, RowRecord, Status

LEMMA UserTyped ==
  ASSUME WatcherTypeOK, UserStep
  PROVE  WatcherTypeOK'
<1> SUFFICES /\ row' \in [Row -> RowRecord] /\ on' \in [Recurring -> BOOLEAN]
             /\ text' \in [Recurring -> 0..MaxText]
             /\ UNCHANGED <<now, open, up, todo, sending, events, begun, crashes>>
  BY DEF WatcherTypeOK
<1>0. /\ row \in [Row -> RowRecord] /\ on \in [Recurring -> BOOLEAN]
      /\ text \in [Recurring -> 0..MaxText] /\ now \in 0..MaxTime /\ MaxText \in Nat
      /\ MaxTime \in Nat /\ 0 \in 0..MaxText /\ now..MaxTime \subseteq Time
      /\ "task" \in AllKinds
  BY ScheduleAssumption DEF WatcherTypeOK, Time, AllKinds
<1>1. ASSUME NEW r \in Row, NEW k \in Kind, NEW at \in Time, Insert(r, k, at)
      PROVE  row' \in [Row -> RowRecord] /\ UNCHANGED <<on, text>>
  <2>1. NewRow(k, at, 0, None) \in RowRecord
    BY <1>0, ScheduleAssumption, NewRowTyped
  <2> QED
    BY <1>0, <1>1, <2>1 DEF Insert
<1>2. ASSUME NEW r \in Row, NEW at \in Time, Patch(r, at)
      PROVE  row' \in [Row -> RowRecord] /\ UNCHANGED <<on, text>>
  <2>1. row[r].text \in 0..MaxText /\ row[r].text < MaxText
    BY <1>0, <1>2 DEF Patch, RowRecord
  <2>2. row[r].text + 1 \in 0..MaxText
    BY <1>0, <2>1
  <2>3. row' = [row EXCEPT ![r] = [@ EXCEPT !.text = row[r].text + 1, !.at = at]]
    BY <1>0, <1>2 DEF Patch
  <2>4. [row[r] EXCEPT !.text = row[r].text + 1, !.at = at] \in RowRecord
    BY <1>0, <2>2 DEF RowRecord
  <2> QED
    BY <1>0, <1>2, <2>3, <2>4 DEF Patch
<1>3. ASSUME NEW r \in Row, Cancel(r) \/ Approve(r)
      PROVE  row' \in [Row -> RowRecord] /\ UNCHANGED <<on, text>>
  BY <1>0, <1>3 DEF Cancel, Approve, RowRecord, Status
<1>4. ASSUME NEW q \in Recurring, UpdatePrompt(q)
      PROVE  row' \in [Row -> RowRecord] /\ text' \in [Recurring -> 0..MaxText] /\ on' = on
  <2>1. text[q] + 1 \in 0..MaxText
    BY <1>0, <1>4 DEF UpdatePrompt
  <2>2. \A r \in Row : [row[r] EXCEPT !.text = text[q] + 1] \in RowRecord
    BY <1>0, <2>1 DEF RowRecord
  <2> QED
    BY <1>0, <1>4, <2>1, <2>2 DEF UpdatePrompt
<1>5. ASSUME NEW q \in Recurring, NEW b \in BOOLEAN, UpdateRule(q, b)
      PROVE  /\ row' \in [Row -> RowRecord] /\ text' \in [Recurring -> 0..MaxText]
             /\ on' \in [Recurring -> BOOLEAN]
  <2> DEFINE cancelled == Marked(row, PendingOf(q), "skipped")
  <2>1. text[q] + 1 \in 0..MaxText
    BY <1>0, <1>5 DEF UpdateRule
  <2>2. cancelled \in [Row -> RowRecord]
    BY <1>0, MarkedTyped DEF Status
  <2>3. NewRow("task", NextOccurrence, text[q] + 1, q) \in RowRecord
    BY <1>0, <2>1, NewRowTyped, NextOccurrenceInTime
  <2>4. \/ row' = cancelled
        \/ \E r \in Absent : row' = [cancelled EXCEPT ![r] =
                                      NewRow("task", NextOccurrence, text[q] + 1, q)]
    BY <1>5 DEF UpdateRule
  <2> HIDE DEF cancelled
  <2>5. row' \in [Row -> RowRecord]
    BY <2>2, <2>3, <2>4
  <2>6. text' \in [Recurring -> 0..MaxText] /\ on' \in [Recurring -> BOOLEAN]
    BY <1>0, <1>5, <2>1 DEF UpdateRule
  <2> QED
    BY <2>5, <2>6
<1>6. UNCHANGED <<now, open, up, todo, sending, events, begun, crashes>>
  BY DEF UserStep, Insert, Patch, Cancel, Approve, UpdatePrompt, UpdateRule, memory
<1> QED
  BY <1>0, <1>1, <1>2, <1>3, <1>4, <1>5, <1>6 DEF UserStep

\* A snapshot is typed as the row it was taken from.
LEMMA SnapshotTyped ==
  ASSUME NEW T \in [Row -> RowRecord], NEW r \in Row
  PROVE  SnapshotOf(T, r) \in Snapshot
  BY DEF SnapshotOf, Snapshot, RowRecord

LEMMA PollTyped ==
  ASSUME WatcherTypeOK, Poll
  PROVE  WatcherTypeOK'
<1> DEFINE kept == Marked(row, Stale, "skipped")
<1>0. /\ row \in [Row -> RowRecord] /\ text \in [Recurring -> 0..MaxText]
      /\ now \in 0..MaxTime /\ todo \in SUBSET Snapshot /\ "task" \in AllKinds
  BY DEF WatcherTypeOK, AllKinds
<1>1. kept \in [Row -> RowRecord]
  BY <1>0, MarkedTyped DEF Status
<1>2. ASSUME NEW f \in FreshIds(Idle(kept))
      PROVE  Reconciled(kept, f) \in [Row -> RowRecord]
  <2>1. DOMAIN f \subseteq Recurring
    BY DEF FreshIds, Idle
  <2>2. \A q \in Recurring : NewRow("task", NextOccurrence, text[q], q) \in RowRecord
    BY <1>0, NewRowTyped, NextOccurrenceInTime
  <2>3. ASSUME NEW r \in Row, \E q \in DOMAIN f : f[q] = r
        PROVE  (CHOOSE q \in DOMAIN f : f[q] = r) \in Recurring
    BY <2>1, <2>3
  <2> HIDE DEF kept
  <2> QED
    BY <1>1, <2>2, <2>3 DEF Reconciled
<1> HIDE DEF kept
<1>3. \/ row' = kept /\ todo' = todo
      \/ \E f \in FreshIds(Idle(kept)) : \E R \in SUBSET Due(row') :
           row' = Reconciled(kept, f) /\ todo' = {SnapshotOf(row', r) : r \in R}
  BY DEF Poll, kept
<1>4. row' \in [Row -> RowRecord]
  BY <1>1, <1>2, <1>3
<1>5. \A r \in Row : SnapshotOf(row', r) \in Snapshot
  BY <1>4, SnapshotTyped
<1>6. todo' \in SUBSET Snapshot
  BY <1>0, <1>3, <1>5 DEF Due
<1> QED
  BY <1>4, <1>6 DEF WatcherTypeOK, Poll

LEMMA WatcherTyped ==
  ASSUME HoldInv, WatcherTypeOK, Watcher
  PROVE  WatcherTypeOK'
<1>0. /\ row \in [Row -> RowRecord] /\ now \in 0..MaxTime /\ todo \in SUBSET Snapshot
      /\ sending \in SUBSET Snapshot /\ events \in SUBSET Event /\ begun \in [Row -> Nat]
  BY DEF WatcherTypeOK
<1>1. CASE Poll
  BY <1>1, PollTyped
<1>2. ASSUME NEW s \in todo, ClaimLost(s) PROVE WatcherTypeOK'
  BY <1>2 DEF ClaimLost, Handles, table, WatcherTypeOK
<1>3. ASSUME NEW s \in todo, ClaimDm(s) PROVE WatcherTypeOK'
  <2>1. row' \in [Row -> RowRecord]
    BY <1>0, <1>3, StatusTyped DEF ClaimDm, Status
  <2>2. begun' \in [Row -> Nat] /\ sending' \in SUBSET Snapshot /\ todo' \in SUBSET Snapshot
    <3>1. begun' = [begun EXCEPT ![s.id] = @ + 1]
      BY <1>3 DEF ClaimDm
    <3>2. begun' \in [Row -> Nat]
      <4>1. s.id \in Row /\ begun[s.id] + 1 \in Nat
        BY <1>0 DEF Snapshot
      <4> QED
        BY <1>0, <3>1, <4>1
    <3>3. sending' = {s} /\ todo' \subseteq todo
      BY <1>3 DEF ClaimDm, Claims, Handles
    <3> QED
      BY <1>0, <3>2, <3>3
  <2> QED
    BY <1>3, <2>1, <2>2 DEF ClaimDm, WatcherTypeOK
<1>4. ASSUME NEW s \in todo, ClaimDeferred(s) PROVE WatcherTypeOK'
  <2>1. QuietEnd \in Time
    BY <1>0, QuietHoursEnd
  <2>2. row' \in [Row -> RowRecord]
    BY <1>0, <1>4, <2>1 DEF ClaimDeferred, RowRecord
  <2> QED
    BY <1>4, <2>2 DEF ClaimDeferred, Claims, Handles, WatcherTypeOK
<1>5. ASSUME NEW s \in todo, ClaimForSession(s) PROVE WatcherTypeOK'
  <2>1. {e \in events : e.id = s.id} = {}
    BY <1>5 DEF ClaimForSession, Claims, Pending, HoldInv, OneHolderPerRow, Running
  <2>2. NextCopy(s.id) \in Nat
    <3>1. Cardinality({}) = 0
      BY FS_EmptySet
    <3> QED
      BY <2>1, <3>1 DEF NextCopy
  <2>3. [id |-> s.id, kind |-> s.kind, text |-> s.text,
         copy |-> NextCopy(s.id), stage |-> "queued"] \in Event
    BY <1>0, <2>2 DEF Snapshot, Event, Stage
  <2>4. row' \in [Row -> RowRecord]
    BY <1>0, <1>5, StatusTyped DEF ClaimForSession, Status
  <2> QED
    BY <1>5, <2>3, <2>4 DEF ClaimForSession, Claims, Handles, WatcherTypeOK
<1>6. ASSUME NEW s \in todo, ClaimThrows(s) PROVE WatcherTypeOK'
  <2>1. row' \in [Row -> RowRecord]
    BY <1>0, <1>6, StatusTyped DEF ClaimThrows, Status
  <2> QED
    BY <1>6, <2>1 DEF ClaimThrows, Claims, Handles, WatcherTypeOK
<1>7. ASSUME NEW s \in sending, NEW o, DmDone(s, o) PROVE WatcherTypeOK'
  <2>1. row' \in [Row -> RowRecord]
    BY <1>0, <1>7, StatusTyped DEF DmDone, Status
  <2> QED
    BY <1>7, <2>1 DEF DmDone, WatcherTypeOK
<1> QED
  BY <1>1, <1>2, <1>3, <1>4, <1>5, <1>6, <1>7 DEF Watcher

LEMMA DispatchTyped ==
  ASSUME WatcherTypeOK, DispatchStep
  PROVE  WatcherTypeOK'
<1>0. row \in [Row -> RowRecord] /\ events \in SUBSET Event /\ begun \in [Row -> Nat]
  BY DEF WatcherTypeOK
<1>1. PICK e \in events : \/ CheckGates(e) \/ CheckSpawn(e) \/ PassSessionGates(e)
                          \/ SessionDone(e, "completed") \/ SessionDone(e, "failed")
  BY DEF DispatchStep
<1>2. \A stage \in Stage : [e EXCEPT !.stage = stage] \in Event
  BY <1>0 DEF Event
<1>3. \/ events' = events \ {e}
      \/ \E stage \in Stage : events' = (events \ {e}) \cup {[e EXCEPT !.stage = stage]}
  BY <1>1 DEF CheckGates, CheckSpawn, PassSessionGates, SessionDone, Release,
              BeginSession, Enter, Stage
<1>4. events' \in SUBSET Event
  BY <1>0, <1>2, <1>3
<1>5. row' = row \/ \E s \in Status : row' = [row EXCEPT ![e.id].status = s]
  BY <1>1 DEF CheckGates, CheckSpawn, PassSessionGates, SessionDone, Release,
              BeginSession, SettleIfRunning, Status
<1>6. row' \in [Row -> RowRecord]
  <2>1. CASE row' = row
    BY <1>0, <2>1
  <2>2. ASSUME NEW s \in Status, row' = [row EXCEPT ![e.id].status = s]
        PROVE  row' \in [Row -> RowRecord]
    BY <1>0, <2>2, StatusTyped, Zenon
  <2> QED
    BY <1>5, <2>1, <2>2
<1>7. begun' = begun \/ begun' = [begun EXCEPT ![e.id] = @ + 1]
  BY <1>1 DEF CheckGates, CheckSpawn, PassSessionGates, SessionDone, Release, BeginSession
<1>8. begun' \in [Row -> Nat]
  BY <1>0, <1>7
<1>9. UNCHANGED <<on, text, now, open, up, todo, sending, crashes>>
  BY <1>1 DEF CheckGates, CheckSpawn, PassSessionGates, SessionDone
<1> QED
  BY <1>4, <1>6, <1>8, <1>9 DEF WatcherTypeOK

LEMMA BootTyped ==
  ASSUME WatcherTypeOK, Boot
  PROVE  WatcherTypeOK'
<1>1. \A r \in Row, s \in Status : [row[r] EXCEPT !.status = s] \in RowRecord
  BY DEF WatcherTypeOK, RowRecord
<1>2. "skipped" \in Status /\ "failed" \in Status
  BY DEF Status
<1>3. row' \in [Row -> RowRecord]
  BY <1>1, <1>2 DEF Boot, WatcherTypeOK
<1> QED
  BY <1>3 DEF Boot, memory, WatcherTypeOK

LEMMA EnvironmentTyped ==
  ASSUME WatcherTypeOK, Tick \/ SetGate \/ Crash \/ \E e \in events : BusLoses(e)
  PROVE  WatcherTypeOK'
<1>1. MaxTime \in Nat /\ MaxCrashes \in Nat
  BY ScheduleAssumption
<1>2. UNCHANGED <<row, on, text, begun>>
  BY DEF Tick, SetGate, Crash, BusLoses, table
<1>3. now' \in 0..MaxTime /\ crashes' \in 0..MaxCrashes
  BY <1>1 DEF Tick, SetGate, Crash, BusLoses, WatcherTypeOK
<1>4. open' \in BOOLEAN
  <2>1. open' = open \/ open' = ~open
    BY DEF Tick, SetGate, Crash, BusLoses
  <2> QED
    BY <2>1, Zenon DEF WatcherTypeOK
<1>5. up' \in BOOLEAN
  <2>1. up' = up \/ up' = FALSE
    BY DEF Tick, SetGate, Crash, BusLoses
  <2> QED
    BY <2>1, Zenon DEF WatcherTypeOK
<1>6. todo' \subseteq todo /\ sending' \subseteq sending /\ events' \subseteq events
  BY DEF Tick, SetGate, Crash, BusLoses, memory
<1> QED
  BY <1>2, <1>3, <1>4, <1>5, <1>6 DEF WatcherTypeOK

TypedInv == HoldInv /\ WatcherTypeOK

LEMMA InitTyped == Init => WatcherTypeOK
<1>1. /\ 0 \in Time /\ 0 \in 0..MaxText /\ 0 \in 0..MaxTime /\ 0 \in 0..MaxCrashes
  BY ScheduleAssumption DEF Time
<1>2. [status |-> "absent", kind |-> "task", at |-> 0, text |-> 0, rule |-> None] \in RowRecord
  BY <1>1 DEF RowRecord, Status, AllKinds
<1> QED
  BY <1>1, <1>2 DEF Init, WatcherTypeOK

LEMMA TypedStep == TypedInv /\ [Next]_vars => TypedInv'
<1> SUFFICES ASSUME TypedInv, [Next]_vars PROVE TypedInv'
  OBVIOUS
<1>1. HoldInv'
  BY StepHolds DEF TypedInv
<1>2. CASE UNCHANGED vars
  BY <1>1, <1>2 DEF vars, TypedInv, WatcherTypeOK
<1>3. CASE Next
  BY <1>1, <1>3, UserTyped, WatcherTyped, DispatchTyped, BootTyped, EnvironmentTyped
     DEF Next, TypedInv
<1> QED
  BY <1>2, <1>3

LEMMA TypedInvHolds == Spec => []TypedInv
<1>1. Init => TypedInv
  BY InitHolds, InitTyped DEF TypedInv
<1> QED
  BY <1>1, TypedStep, PTL DEF Spec

\* Every reachable state is well typed: in particular every due time the watcher
\* computes (the next occurrence, the end of quiet hours) exists and is bounded.
THEOREM WatcherTypeCorrect == Spec => []WatcherTypeOK
<1>1. TypedInv => WatcherTypeOK
  BY DEF TypedInv
<1> QED
  BY <1>1, TypedInvHolds, PTL

-----------------------------------------------------------------------------
(* No orphans.  Two disturbances do strand rows: an event lost by a full bus *)
(* and a boot behind a closed gate.  Without them nothing does.              *)

\* A step that keeps every holder and claims nothing new.
LEMMA HoldersKept ==
  ASSUME HoldInv, NoOrphans, UNCHANGED <<events, sending, up>>, Harmless
  PROVE  NoOrphans'
<1>1. \A r \in Row : Running(r)' => Running(r)
  BY DEF Harmless, Running
<1> QED
  BY <1>1 DEF NoOrphans, Held

LEMMA WatcherStrandsNone ==
  ASSUME HoldInv, NoOrphans, Watcher
  PROVE  NoOrphans'
<1> USE DEF HoldInv
<1>1. CASE Poll
  <2>1. UNCHANGED <<events, sending, up>>
    BY <1>1 DEF Poll
  <2> QED
    BY <1>1, <2>1, PollHarmless, HoldersKept
<1>2. ASSUME NEW s \in todo, ClaimLost(s) \/ ClaimDeferred(s) \/ ClaimThrows(s)
      PROVE  NoOrphans'
  <2>1. UNCHANGED <<events, sending, up>>
    BY <1>2 DEF ClaimLost, ClaimDeferred, ClaimThrows
  <2>2. row' = row \/ Pending(s.id)
    BY <1>2 DEF ClaimLost, ClaimDeferred, ClaimThrows, Claims, table
  <2>3. \/ row' = row
        \/ row' = [row EXCEPT ![s.id].at = QuietEnd]
        \/ row' = [row EXCEPT ![s.id].status = "failed"]
    BY <1>2 DEF ClaimLost, ClaimDeferred, ClaimThrows, table
  <2>4. s.id \in Row
    BY DEF Shape
  <2>5. Harmless
    BY <2>2, <2>3, <2>4 DEF Shape, Columns, Harmless, Running, Claimable, Settled, Pending
  <2> QED
    BY <2>1, <2>5, HoldersKept
<1>3. ASSUME NEW s \in todo, ClaimDm(s) \/ ClaimForSession(s)
      PROVE  NoOrphans'
  <2>1. up /\ sending = {} /\ s.id \in Row /\ row' = [row EXCEPT ![s.id].status = "running"]
    BY <1>3 DEF ClaimDm, ClaimForSession, Claims, Handles, Shape
  <2>2. Held(s.id)'
    <3>1. CASE ClaimDm(s)
      BY <3>1 DEF ClaimDm, Held
    <3>2. CASE ClaimForSession(s)
      <4> DEFINE m == [id |-> s.id, kind |-> s.kind, text |-> s.text,
                       copy |-> NextCopy(s.id), stage |-> "queued"]
      <4>1. m \in events' /\ m.id = s.id
        BY <3>2 DEF ClaimForSession
      <4> QED
        BY <4>1 DEF Held
    <3> QED
      BY <1>3, <3>1, <3>2
  <2>3. \A r \in Row \ {s.id} : Running(r)' => Running(r)
    BY <2>1 DEF Shape, Running
  <2>4. events \subseteq events'
    BY <1>3 DEF ClaimDm, ClaimForSession
  <2>5. \A r \in Row \ {s.id} : Running(r)' => Held(r)'
    BY <2>1, <2>3, <2>4 DEF NoOrphans, Held
  <2> QED
    BY <2>2, <2>5 DEF NoOrphans
<1>4. ASSUME NEW s \in sending, NEW o, DmDone(s, o) PROVE NoOrphans'
  <2>1. /\ up /\ sending = {s} /\ s.id \in Row /\ o \in {"completed", "failed"}
        /\ row' = [row EXCEPT ![s.id].status = o] /\ events' = events
    BY <1>4 DEF DmDone, OneHolderPerRow, Shape
  <2>2. ~Running(s.id)' /\ \A r \in Row \ {s.id} : Running(r)' => Running(r)
    BY <2>1 DEF Shape, Columns, Running
  <2>3. \A r \in Row \ {s.id} : Running(r) => \E e \in events : e.id = r
    BY <2>1 DEF NoOrphans, Held
  <2> QED
    BY <2>1, <2>2, <2>3 DEF NoOrphans, Held
<1> QED
  BY <1>1, <1>2, <1>3, <1>4 DEF Watcher

LEMMA DispatcherStrandsNone ==
  ASSUME HoldInv, NoOrphans, DispatchStep
  PROVE  NoOrphans'
<1> USE DEF HoldInv
<1>1. PICK e \in events : \/ CheckGates(e) \/ CheckSpawn(e) \/ PassSessionGates(e)
                          \/ SessionDone(e, "completed") \/ SessionDone(e, "failed")
  BY DEF DispatchStep
<1>2. UNCHANGED <<sending, up>>
  BY <1>1 DEF CheckGates, CheckSpawn, PassSessionGates, SessionDone
<1>3. up /\ e.id \in Row /\ Running(e.id)
  BY DEF DownIsEmpty, Shape, OneHolderPerRow
<1>4. \/ /\ row' = row
         /\ \E stage \in Stage : events' = (events \ {e}) \cup {[e EXCEPT !.stage = stage]}
      \/ /\ events' = events \ {e}
         /\ \E s \in Settled \cup {"pending"} : row' = [row EXCEPT ![e.id].status = s]
  BY <1>1, <1>3 DEF CheckGates, CheckSpawn, PassSessionGates, SessionDone, Release,
                    BeginSession, Enter, Stage, SettleIfRunning, Settled
<1>5. ASSUME NEW stage \in Stage, row' = row,
             events' = (events \ {e}) \cup {[e EXCEPT !.stage = stage]}
      PROVE  NoOrphans'
  <2> DEFINE m == [e EXCEPT !.stage = stage]
  <2>1. m.id = e.id /\ m \in events'
    BY <1>5 DEF Shape
  <2>2. \A f \in events : \E g \in events' : g.id = f.id
    <3> HIDE DEF m
    <3>1. \A f \in events \ {e} : f \in events'
      BY <1>5 DEF m
    <3> QED
      BY <2>1, <3>1
  <2>3. \A r \in Row : Running(r)' => Running(r)
    BY <1>5 DEF Running
  <2> QED
    BY <1>2, <1>3, <2>2, <2>3 DEF NoOrphans, Held
<1>6. ASSUME NEW s \in Settled \cup {"pending"}, events' = events \ {e},
             row' = [row EXCEPT ![e.id].status = s]
      PROVE  NoOrphans'
  <2>1. ~Running(e.id)' /\ \A r \in Row \ {e.id} : Running(r)' => Running(r)
    BY <1>3, <1>6 DEF Shape, Columns, Running, Settled
  <2> QED
    BY <1>2, <1>3, <1>6, <2>1 DEF NoOrphans, Held
<1> QED
  BY <1>4, <1>5, <1>6

\* An ungated boot settles everything that was running.
LEMMA BootStrandsNone ==
  ASSUME HoldInv, "gatedBoot" \notin Disturbance, Boot
  PROVE  NoOrphans'
<1>1. open
  BY DEF Boot
<1>2. row' = [r \in Row |->
               IF r \in Stale \/ (Running(r) /\ row[r].at < DayStart)
               THEN [row[r] EXCEPT !.status = "skipped"]
               ELSE IF Running(r) THEN [row[r] EXCEPT !.status = "failed"]
               ELSE row[r]]
  BY <1>1 DEF Boot
<1>3. \A r \in Row : "status" \in DOMAIN row[r]
  BY DEF HoldInv, Shape, Columns
<1>4. \A r \in Row : row'[r].status # "running"
  BY <1>2, <1>3 DEF Running
<1> QED
  BY <1>4 DEF NoOrphans, Running

LEMMA OrphanStep ==
  ASSUME {"overflow", "gatedBoot"} \cap Disturbance = {},
         HoldInv, NoOrphans, [Next]_vars
  PROVE  NoOrphans'
<1>1. CASE UNCHANGED vars
  BY <1>1 DEF vars, NoOrphans, Held, Running
<1>2. CASE Watcher
  BY <1>2, WatcherStrandsNone
<1>3. CASE DispatchStep
  BY <1>3, DispatcherStrandsNone
<1>4. ASSUME NEW e \in events, BusLoses(e) PROVE NoOrphans'
  BY <1>4 DEF BusLoses
<1>5. CASE UserStep
  BY <1>5, UserHarmless, HoldersKept DEF HoldInv, memory
<1>6. CASE Tick \/ SetGate
  <2>1. UNCHANGED <<row, events, sending, up>>
    BY <1>6 DEF Tick, SetGate, table, memory
  <2> QED
    BY <2>1 DEF NoOrphans, Held, Running
<1>7. CASE Crash
  BY <1>7 DEF Crash, NoOrphans
<1>8. CASE Boot
  BY <1>8, BootStrandsNone
<1> QED
  BY <1>1, <1>2, <1>3, <1>4, <1>5, <1>6, <1>7, <1>8 DEF Next

\* Unless the bus overflows or the daemon boots behind a closed gate, no row is
\* ever left running with nobody to settle it: no skip by a gate, no error on the
\* way, no crash, and no edit made meanwhile strands a claim.
THEOREM NothingStranded ==
  ASSUME {"overflow", "gatedBoot"} \cap Disturbance = {}
  PROVE  Spec => []NoOrphans
<1>1. Init => NoOrphans
  BY DEF Init, NoOrphans, Running
<1>2. HoldInv /\ NoOrphans /\ [Next]_vars => NoOrphans'
  BY OrphanStep
<1> QED
  BY <1>1, <1>2, HoldInvHolds, PTL DEF Spec

-----------------------------------------------------------------------------
(* One firing of a recurring schedule at a time.                            *)

AtMostOneActive(q) == \A r1, r2 \in ActiveOf(q) : r1 = r2

LEMMA NoNewActive ==
  ASSUME NEW q, AtMostOneActive(q), ActiveOf(q)' \subseteq ActiveOf(q)
  PROVE  AtMostOneActive(q)'
  BY DEF AtMostOneActive

\* The reconciliation gives a schedule a row only if it has no active one, and
\* then one row, since the ids it takes are distinct.
LEMMA PollOneActive ==
  ASSUME TypedInv, Poll, NEW q \in Recurring, AtMostOneActive(q)
  PROVE  AtMostOneActive(q)'
<1> DEFINE kept == Marked(row, Stale, "skipped")
<1>0. row \in [Row -> RowRecord]
  BY DEF TypedInv, WatcherTypeOK
<1>1. \A r \in Row : \/ kept[r] = row[r]
                     \/ kept[r].status = "skipped" /\ kept[r].rule = row[r].rule
  BY <1>0 DEF Marked, RowRecord
<1>2. CASE row' = kept
  <2> HIDE DEF kept
  <2>1. ActiveOf(q)' \subseteq ActiveOf(q)
    BY <1>1, <1>2 DEF ActiveOf, Active, Pending, Running
  <2> QED
    BY <2>1, NoNewActive
<1>3. ASSUME NEW f \in FreshIds(Idle(kept)), row' = Reconciled(kept, f)
      PROVE  AtMostOneActive(q)'
  <2>1. /\ \A p \in DOMAIN f : p \in Idle(kept)
        /\ \A p1, p2 \in DOMAIN f : f[p1] = f[p2] => p1 = p2
    BY DEF FreshIds
  <2> HIDE DEF kept
  <2>2. ASSUME NEW p \in DOMAIN f, f[p] \in Row
        PROVE  row'[f[p]].rule = p
    <3>1. (CHOOSE x \in DOMAIN f : f[x] = f[p]) = p
      BY <2>1
    <3>2. row'[f[p]] = NewRow("task", NextOccurrence, text[p], p)
      BY <1>3, <2>2, <3>1 DEF Reconciled
    <3> QED
      BY <3>2 DEF NewRow
  <2>3. ASSUME NEW r \in Row, \A p \in DOMAIN f : f[p] # r
        PROVE  row'[r] = kept[r]
    BY <1>3, <2>3 DEF Reconciled
  <2>4. CASE q \in DOMAIN f
    <3>1. \A r \in Row : kept[r].rule = q => kept[r].status \notin {"pending", "running"}
      BY <2>1, <2>4 DEF Idle
    <3>2. ASSUME NEW r \in ActiveOf(q)' PROVE r = f[q]
      <4>1. r \in Row /\ row'[r].rule = q /\ row'[r].status \in {"pending", "running"}
        BY DEF ActiveOf, Active, Pending, Running
      <4>2. PICK p \in DOMAIN f : f[p] = r
        BY <2>3, <3>1, <4>1
      <4> QED
        BY <2>2, <4>1, <4>2
    <3> QED
      BY <3>2 DEF AtMostOneActive
  <2>5. CASE q \notin DOMAIN f
    <3>1. ASSUME NEW r \in ActiveOf(q)' PROVE r \in ActiveOf(q)
      <4>1. r \in Row /\ row'[r].rule = q /\ row'[r].status \in {"pending", "running"}
        BY DEF ActiveOf, Active, Pending, Running
      <4>2. \A p \in DOMAIN f : f[p] # r
        BY <2>2, <2>5, <4>1
      <4>3. row'[r] = kept[r]
        BY <2>3, <4>1, <4>2
      <4> QED
        BY <1>1, <4>1, <4>3 DEF ActiveOf, Active, Pending, Running
    <3> QED
      BY <3>1, NoNewActive
  <2> QED
    BY <2>4, <2>5
<1> QED
  BY <1>2, <1>3 DEF Poll

LEMMA UserOneActive ==
  ASSUME TypedInv, UserStep, NEW q \in Recurring, text'[q] = text[q]
  PROVE  ActiveOf(q)' \subseteq ActiveOf(q)
<1> USE DEF ActiveOf, Active, Pending, Running
<1>0. /\ row \in [Row -> RowRecord] /\ \A p \in Recurring : text[p] \in Nat
      /\ text \in [Recurring -> 0..MaxText] /\ None # q
  BY ScheduleAssumption DEF TypedInv, WatcherTypeOK
<1>1. ASSUME NEW r \in Row, NEW k, NEW at, Insert(r, k, at)
      PROVE  ActiveOf(q)' \subseteq ActiveOf(q)
  BY <1>0, <1>1 DEF Insert, NewRow
<1>2. ASSUME NEW r \in Row, NEW at, Patch(r, at)
      PROVE  ActiveOf(q)' \subseteq ActiveOf(q)
  BY <1>0, <1>2 DEF Patch, RowRecord
<1>3. ASSUME NEW r \in Row, Cancel(r) \/ Approve(r)
      PROVE  ActiveOf(q)' \subseteq ActiveOf(q)
  BY <1>0, <1>3 DEF Cancel, Approve, RowRecord
<1>4. ASSUME NEW p \in Recurring, UpdatePrompt(p)
      PROVE  ActiveOf(q)' \subseteq ActiveOf(q)
  BY <1>0, <1>4 DEF UpdatePrompt, RowRecord
<1>5. ASSUME NEW p \in Recurring, NEW b, UpdateRule(p, b)
      PROVE  ActiveOf(q)' \subseteq ActiveOf(q)
  <2> DEFINE cancelled == Marked(row, PendingOf(p), "skipped")
  <2>1. p # q
    BY <1>0, <1>5 DEF UpdateRule
  <2>2. /\ DOMAIN cancelled = Row
        /\ \A r \in Row : \/ cancelled[r] = row[r]
                          \/ cancelled[r].status = "skipped"
    BY <1>0 DEF Marked, RowRecord
  <2>3. \/ row' = cancelled
        \/ \E r \in Absent : row' = [cancelled EXCEPT ![r] =
                                      NewRow("task", NextOccurrence, text[p] + 1, p)]
    BY <1>5 DEF UpdateRule
  <2> HIDE DEF cancelled
  <2> QED
    BY <2>1, <2>2, <2>3 DEF NewRow
<1> QED
  BY <1>1, <1>2, <1>3, <1>4, <1>5 DEF UserStep

LEMMA StatusMoves ==
  ASSUME row \in [Row -> RowRecord], NEW q, NEW r, Active(r), NEW v,
         row' = [row EXCEPT ![r].status = v]
  PROVE  ActiveOf(q)' \subseteq ActiveOf(q)
<1>1. \A x \in Row : row'[x].rule = row[x].rule /\ (x # r => row'[x] = row[x])
  BY DEF RowRecord
<1> QED
  BY <1>1 DEF ActiveOf, Active, Pending, Running

\* Claims, releases, results and recoveries move rows that were active already.
LEMMA OtherOneActive ==
  ASSUME TypedInv, NEW q \in Recurring,
         \/ \E s \in todo : \/ ClaimLost(s) \/ ClaimDm(s) \/ ClaimDeferred(s)
                            \/ ClaimForSession(s) \/ ClaimThrows(s)
         \/ \E s \in sending, o \in {"completed", "failed"} : DmDone(s, o)
         \/ DispatchStep
         \/ \E e \in events : BusLoses(e)
         \/ Tick \/ SetGate \/ Crash \/ Boot
  PROVE  ActiveOf(q)' \subseteq ActiveOf(q)
<1> USE DEF ActiveOf, Active, Pending, Running
<1>0. row \in [Row -> RowRecord]
  BY DEF TypedInv, WatcherTypeOK
<1>1. ASSUME NEW s \in todo, \/ ClaimLost(s) \/ ClaimDm(s) \/ ClaimDeferred(s)
                             \/ ClaimForSession(s) \/ ClaimThrows(s)
      PROVE  ActiveOf(q)' \subseteq ActiveOf(q)
  <2>1. \/ row' = row
        \/ /\ row[s.id].status = "pending"
           /\ \/ \E v : row' = [row EXCEPT ![s.id].status = v]
              \/ row' = [row EXCEPT ![s.id].at = QuietEnd]
    BY <1>1 DEF ClaimLost, ClaimDm, ClaimDeferred, ClaimForSession, ClaimThrows, Claims, table
  <2>2. CASE row' = row
    BY <2>2
  <2>3. CASE row' = [row EXCEPT ![s.id].at = QuietEnd]
    <3>1. \A x \in Row : row'[x].rule = row[x].rule /\ row'[x].status = row[x].status
      BY <1>0, <2>3 DEF RowRecord
    <3> QED
      BY <3>1
  <2>4. ASSUME NEW v, row[s.id].status = "pending",
               row' = [row EXCEPT ![s.id].status = v]
        PROVE  ActiveOf(q)' \subseteq ActiveOf(q)
    <3>1. Active(s.id)
      BY <2>4
    <3> QED
      BY <1>0, <2>4, <3>1, StatusMoves, Zenon
  <2> QED
    BY <2>1, <2>2, <2>3, <2>4
<1>2. ASSUME NEW s \in sending, NEW o \in {"completed", "failed"}, DmDone(s, o)
      PROVE  ActiveOf(q)' \subseteq ActiveOf(q)
  BY <1>0, <1>2 DEF DmDone, RowRecord
<1>3. CASE DispatchStep
  <2>1. PICK e \in events : \/ CheckGates(e) \/ CheckSpawn(e) \/ PassSessionGates(e)
                            \/ SessionDone(e, "completed") \/ SessionDone(e, "failed")
    BY <1>3 DEF DispatchStep
  <2>2. row' = row \/ (Running(e.id) /\ \E v : row' = [row EXCEPT ![e.id].status = v])
    BY <2>1 DEF CheckGates, CheckSpawn, PassSessionGates, SessionDone, Release,
                BeginSession, SettleIfRunning
  <2>3. ASSUME NEW v, Running(e.id), row' = [row EXCEPT ![e.id].status = v]
        PROVE  ActiveOf(q)' \subseteq ActiveOf(q)
    <3>1. Active(e.id)
      BY <2>3
    <3> QED
      BY <1>0, <2>3, <3>1, StatusMoves, Zenon
  <2>4. CASE row' = row
    BY <2>4
  <2> QED
    BY <2>2, <2>3, <2>4
<1>4. CASE Tick \/ SetGate \/ Crash \/ \E e \in events : BusLoses(e)
  BY <1>4 DEF Tick, SetGate, Crash, BusLoses, table
<1>5. CASE Boot
  BY <1>0, <1>5 DEF Boot, RowRecord
<1> QED
  BY <1>1, <1>2, <1>3, <1>4, <1>5

LEMMA OneActiveStep ==
  ASSUME TypedInv, [Next]_vars, NEW q \in Recurring, text'[q] = text[q],
         AtMostOneActive(q)
  PROVE  AtMostOneActive(q)'
<1>1. CASE UNCHANGED vars
  BY <1>1 DEF vars, AtMostOneActive, ActiveOf, Active, Pending, Running
<1>2. CASE Poll
  BY <1>2, PollOneActive
<1>3. CASE UserStep
  BY <1>3, UserOneActive, NoNewActive
<1>4. CASE Next /\ ~Poll /\ ~UserStep
  BY <1>4, OtherOneActive, NoNewActive DEF Next, Watcher
<1> QED
  BY <1>1, <1>2, <1>3, <1>4

\* Only an edit of a recurring schedule can give that schedule a second active
\* row; no reconciliation, release, deferral, claim, crash or boot does.
THEOREM OnlyEditsDouble ==
  Spec => [][\A q \in Recurring :
               text'[q] = text[q] /\ AtMostOneActive(q) => AtMostOneActive(q)']_vars
<1>1. TypedInv /\ [Next]_vars =>
        [\A q \in Recurring :
           text'[q] = text[q] /\ AtMostOneActive(q) => AtMostOneActive(q)']_vars
  BY OneActiveStep
<1> QED
  BY <1>1, TypedInvHolds, PTL DEF Spec

\* Without the edits a recurring schedule never has two firings in flight.
THEOREM OneFiringAtATime ==
  ASSUME "rule" \notin Disturbance
  PROVE  Spec => []OneActivePerRecurring
<1> DEFINE Inv == \A q \in Recurring : AtMostOneActive(q)
<1>1. Init => Inv
  BY DEF Init, AtMostOneActive, ActiveOf, Active, Pending, Running
<1>2. ASSUME TypedInv, [Next]_vars, NEW q \in Recurring
      PROVE  text'[q] = text[q]
  <2>1. UNCHANGED text
    BY <1>2 DEF Next, Watcher, Poll, ClaimLost, ClaimDm, ClaimDeferred, ClaimForSession,
                ClaimThrows, DmDone, DispatchStep, CheckGates, CheckSpawn,
                PassSessionGates, SessionDone, BusLoses, UserStep, Insert, Patch, Cancel,
                Approve, UpdatePrompt, UpdateRule, Tick, SetGate, Crash, Boot, table, vars
  <2> QED
    BY <2>1
<1>3. TypedInv /\ Inv /\ [Next]_vars => Inv'
  BY <1>2, OneActiveStep
<1>4. Inv => OneActivePerRecurring
  <2> SUFFICES ASSUME NEW q \in Recurring, AtMostOneActive(q)
               PROVE  Cardinality(ActiveOf(q)) <= 1
    BY DEF OneActivePerRecurring, ActiveOf
  <2>1. CASE ActiveOf(q) = {}
    BY <2>1, FS_EmptySet
  <2>2. ASSUME NEW r \in ActiveOf(q) PROVE Cardinality(ActiveOf(q)) <= 1
    <3>1. ActiveOf(q) = {r}
      BY DEF AtMostOneActive
    <3> QED
      BY <3>1, FS_Singleton
  <2> QED
    BY <2>1, <2>2
<1> HIDE DEF Inv
<1> QED
  BY <1>1, <1>3, <1>4, TypedInvHolds, PTL DEF Spec
=============================================================================
