----------------------------- MODULE TaskDelivery -----------------------------
(***************************************************************************)
(* The delivery of task results to the owner                                *)
(* (core/dispatcher-task-delivery.ts): task.delivery events in the bus and  *)
(* the one handler that takes them, inside a gate shared by all deliveries. *)
(* BackgroundTasks extends this module and puts the events.                 *)
(*                                                                          *)
(* A message is handed to NotificationManager.send, which never throws: one *)
(* that fails on every path, is suppressed, or waits in a batch looks to    *)
(* the handler like any other.                                              *)
(*                                                                          *)
(* Left out: the delivery of questions, attachments, what the agent writes  *)
(* or sends by itself in a turn, the later flush of a batch, a database     *)
(* write that throws, and how often an event of one task is in the bus.     *)
(***************************************************************************)
EXTENDS Naturals

CONSTANTS
  Channelless,   \* tasks without an originating channel
  Timeline       \* what config.proactiveForwardChannelTimelineEnabled may be
                 \* when a message is recorded

VARIABLES
  queued,       \* tasks with a task.delivery event in the bus
  delivering,   \* the handler, per task: see Stages
  delivered,    \* tasks whose row has a delivered_at
  recorded,     \* tasks with a tagged message in the messages table
  sends,        \* history: how many messages with its result were handed over
  misses        \* history: how many of them the handler does not know of,
                \* because it died or its turn failed after the send

outVars == <<delivering, delivered, recorded, sends, misses>>
deliveryVars == <<queued, outVars>>

\* The agent's turn before and after its send, and with its message recorded;
\* the draft before and after its send.
Stages == {"no", "turn", "turnSent", "turnTagged", "draft", "draftSent"}

DeliveryTypeOK(T) ==
  /\ queued \subseteq T /\ delivered \subseteq T
  /\ recorded \subseteq T
  /\ delivering \in [T -> Stages]
  /\ sends \in [T -> Nat] /\ misses \in [T -> Nat]

DeliveryInit(T) ==
  /\ queued = {} /\ delivered = {} /\ recorded = {}
  /\ delivering = [t \in T |-> "no"]
  /\ sends = [t \in T |-> 0] /\ misses = [t \in T |-> 0]

-----------------------------------------------------------------------------
EnqueueIf(told, t) == queued' = IF told THEN queued \cup {t} ELSE queued

\* The bus drops the event or evicts it.
LoseEvent(t) ==
  /\ t \in queued
  /\ queued' = queued \ {t}
  /\ UNCHANGED outVars

\* handleTaskDeliveryInsideGate begins.
TakeEvent(t) ==
  /\ t \in queued
  /\ \A u \in DOMAIN delivering : delivering[u] = "no"
  /\ queued' = queued \ {t}
  /\ UNCHANGED <<recorded, sends, misses>>

\* The result has a message (and is marked now), is marked already, or has no
\* channel to go to (and is marked).
Settled(t) == t \in recorded \cup delivered \cup Channelless

SkipDelivery(t) ==
  /\ Settled(t)
  /\ TakeEvent(t)
  /\ delivered' = delivered \cup {t}
  /\ UNCHANGED delivering

\* An idle owner, in quiet hours.
\* Mutation: the deferred result is marked.
DeferMarking(t) ==
  /\ ~Settled(t)
  /\ TakeEvent(t)
  /\ delivered' = delivered \cup {t}
  /\ UNCHANGED delivering

DeferDelivery(t) ==
  /\ ~Settled(t)
  /\ TakeEvent(t)
  /\ UNCHANGED <<delivered, delivering>>

\* An active owner gets a turn of the agent, an idle one the draft.
\* Mutation: nobody looks whether the result has been sent.
DeliverAgain(t) ==
  /\ t \notin Channelless
  /\ TakeEvent(t)
  /\ \E how \in {"turn", "draft"} : delivering' = [delivering EXCEPT ![t] = how]
  /\ UNCHANGED delivered

Deliver(t) ==
  /\ ~Settled(t)
  /\ TakeEvent(t)
  /\ \E how \in {"turn", "draft"} : delivering' = [delivering EXCEPT ![t] = how]
  /\ UNCHANGED delivered

\* NotificationManager.send: the direct message, or else the proactive path,
\* may fail, be suppressed or be batched, and the caller goes on all the same.
Send(t) == sends' = [sends EXCEPT ![t] = @ + 1]

\* processResult in the agent's turn: the send, and after its await the tagged
\* message, unless the timeline is off.
TurnSends(t) ==
  /\ delivering[t] = "turn"
  /\ delivering' = [delivering EXCEPT ![t] = "turnSent"]
  /\ Send(t)
  /\ UNCHANGED <<queued, delivered, recorded, misses>>

TurnTags(t) ==
  /\ delivering[t] = "turnSent"
  /\ TRUE \in Timeline
  /\ delivering' = [delivering EXCEPT ![t] = "turnTagged"]
  /\ recorded' = recorded \cup {t}
  /\ UNCHANGED <<queued, delivered, sends, misses>>

\* The turn has returned and left a tagged message.
TurnDelivers(t) ==
  /\ delivering[t] = "turnTagged"
  /\ delivering' = [delivering EXCEPT ![t] = "no"]
  /\ delivered' = delivered \cup {t}
  /\ UNCHANGED <<queued, recorded, sends, misses>>

\* It throws, before its send or after it, or leaves no tagged message (it had
\* nothing to say, or the timeline is off): the draft is sent instead.
TurnFails(t) ==
  /\ delivering[t] \in {"turn", "turnSent", "turnTagged"}
  /\ delivering' = [delivering EXCEPT ![t] = "draft"]
  /\ misses' = IF delivering[t] = "turn" THEN misses
               ELSE [misses EXCEPT ![t] = @ + 1]
  /\ UNCHANGED <<queued, delivered, recorded, sends>>

DraftSends(t) ==
  /\ delivering[t] = "draft"
  /\ delivering' = [delivering EXCEPT ![t] = "draftSent"]
  /\ Send(t)
  /\ UNCHANGED <<queued, delivered, recorded, misses>>

\* After the await of the send: the message, unless the timeline is off, and
\* the mark.
DraftDelivers(t) ==
  /\ delivering[t] = "draftSent"
  /\ delivering' = [delivering EXCEPT ![t] = "no"]
  /\ \E on \in Timeline : recorded' = IF on THEN recorded \cup {t} ELSE recorded
  /\ delivered' = delivered \cup {t}
  /\ UNCHANGED <<queued, sends, misses>>

\* The daemon dies: the bus and the handler are gone.
DeliveryLost ==
  /\ queued' = {}
  /\ delivering' = [t \in DOMAIN delivering |-> "no"]
  /\ misses' = [t \in DOMAIN misses |->
                  IF delivering[t] \in {"turnSent", "draftSent"}
                  THEN misses[t] + 1 ELSE misses[t]]
  /\ UNCHANGED <<delivered, recorded, sends>>

-----------------------------------------------------------------------------
\* As far as the handler can tell, the owner has the result, or there is nowhere
\* to send it to.
Told(t) == sends[t] > 0 \/ t \in Channelless

\* The end of the run, every tick and every boot may each put an event for a
\* result in the bus, and an agent's turn may fall back to the draft: the result
\* is sent again only after a send that its handler did not live to record, or
\* that was made by a turn which then failed or left no tagged message.
ToldOnce == \A t \in DOMAIN sends : sends[t] <= 1 + misses[t]
=============================================================================
