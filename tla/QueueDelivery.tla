---------------------------- MODULE QueueDelivery ----------------------------
(***************************************************************************)
(* The SQS worker: process_queue_batch and publish_due_event_messages of   *)
(* apps/delivery/queue_services.py, the loop of run_delivery_worker, and   *)
(* the queue with its redrive policy (infra/aws/phase8-queue.yaml), around *)
(* the workflow of Delivery.                                               *)
(*                                                                         *)
(* A worker polls a batch of messages and settles them one after another.  *)
(* A scheduler tick is expanded into one message per due event; an event   *)
(* message runs the claim, the providers and the record of Delivery.  Any  *)
(* error of the queue or the database ends the process and leaves the rest *)
(* of its batch in flight, to reappear when the visibility timeout lapses. *)
(*                                                                         *)
(* The queue stores a message in a slot of Messages; a slot is used again  *)
(* once its message is gone and no worker holds a receipt for it.          *)
(***************************************************************************)
EXTENDS Delivery

CONSTANTS
  Messages,       \* slots of the queue and its dead-letter queue
  RealWorkers,    \* workers started with --allow-real-delivery
  ReceiveBatch,   \* DELIVERY_QUEUE_RECEIVE_BATCH_SIZE
  ExternalTypes,  \* what is sent from outside: ticks, malformed messages
  UserChannels,   \* the channels users choose, which the queue never reads
  MaxFaults       \* bound on crashes, queue errors and premature lapses

ASSUME QueueAssumption ==
  /\ RealWorkers \subseteq Workers
  /\ ReceiveBatch \in Nat \ {0}
  /\ ExternalTypes \subseteq {"dispatch_due_events", "malformed"}
  /\ UserChannels \subseteq Channels
  /\ MaxFaults \in Nat

VARIABLES
  message,      \* the queue: state, envelope and receive count of each slot
  inbox,        \* the received messages a worker has not settled
  task,         \* what the worker is doing with the first of them
  unpublished,  \* the event ids of the tick it still has to publish
  faults        \* faults so far

batchVars == <<inbox, task, unpublished>>
queueVars == <<message, batchVars, faults>>
qvars     == <<vars, queueVars>>

-----------------------------------------------------------------------------
(* Types *)

\* QueueEnvelope, and every body from_json refuses
Envelope ==
  [type : {"dispatch_due_events", "malformed"}, event : {0}]
    \cup [type : {"deliver_scheduled_event"}, event : Events]

DeliverEvent(e) == [type |-> "deliver_scheduled_event", event |-> e]

NoMessage == [state    |-> "free",
              body     |-> [type |-> "dispatch_due_events", event |-> 0],
              receives |-> 0]

\* ReceivedQueueMessage; `receive` also tells receipt handles apart.
Receipt == [id : Messages, body : Envelope, receive : 1 .. MaxReceives]

Slot == [state : {"free", "visible", "inflight", "dead"},
         body : Envelope, receives : 0 .. MaxReceives]

\* The variables of the queue: a slot is received at most MaxReceives times, and
\* a worker is settling or handling only what it has received.
QueueTypeOK ==
  /\ message \in [Messages -> Slot]
  /\ inbox \in [Workers -> Seq(Receipt)]
  /\ task \in [Workers -> {"none", "publish", "deliver", "acknowledge", "retry"}]
  /\ unpublished \in [Workers -> Seq(Events)]
  /\ faults \in 0 .. MaxFaults
  /\ \A w \in Workers : task[w] # "none" => inbox[w] # <<>>

Stored(m) == message[m].state \in {"visible", "inflight"}

Handled(m) == \E w \in Workers : \E i \in DOMAIN inbox[w] : inbox[w][i].id = m

Unused == {m \in Messages : message[m].state = "free" /\ ~Handled(m)}

\* Slots are alike: a message is stored in a fixed one of those unused.
NextSlot == CHOOSE m \in Unused : TRUE

\* A worker, or the queue and not the dead-letter queue, has a message of e.
HasMessage(e) ==
  \/ \E m \in Messages : Stored(m) /\ message[m].body = DeliverEvent(e)
  \/ \E w \in Workers : \E i \in DOMAIN inbox[w] :
       inbox[w][i].body = DeliverEvent(e)

-----------------------------------------------------------------------------
(* The queue *)

Store(m, body) ==
  message' = [message EXCEPT ![m] =
                [state |-> "visible", body |-> body, receives |-> 0]]

SetState(m, state) ==
  message' = [message EXCEPT ![m] = [@ EXCEPT !.state = state]]

\* A tick is sent only while the slots suffice for all it may lead to: every
\* expansion of a tick, under way or to come, publishes up to BatchSize
\* messages, and a fault may repeat one.  The real queue has no such limit.
IsTick(body) == body.type = "dispatch_due_events"

RoomForTick ==
  LET begun == {p \in Workers \X (1 .. ReceiveBatch) :
                  p[2] \in DOMAIN inbox[p[1]] /\ IsTick(inbox[p[1]][p[2]].body)}
      ahead == {m \in Messages : /\ IsTick(message[m].body)
                                 /\ \/ message[m].state = "visible"
                                    \/ message[m].state = "inflight" /\ ~Handled(m)}
  IN  Cardinality(Unused) >
        BatchSize * (1 + Cardinality(begun) + Cardinality(ahead)
                       + MaxFaults - faults)

\* EventBridge Scheduler sends a tick every minute.
SendExternal(m, type) ==
  /\ m \in Unused /\ m = NextSlot
  /\ RoomForTick
  /\ Store(m, [type |-> type, event |-> 0])
  /\ UNCHANGED <<vars, batchVars, faults>>

Fault == faults < MaxFaults /\ faults' = faults + 1

\* The visibility timeout ends.  While a worker still holds the message this
\* is a fault: the batch took longer than the timeout.
Lapse(m) ==
  /\ message[m].state = "inflight"
  /\ SetState(m, "visible")
  /\ IF Handled(m) THEN Fault ELSE UNCHANGED faults
  /\ UNCHANGED <<vars, batchVars>>

\* RedrivePolicy; maxReceiveCount is the same three as the worker's limit.
Redrive(m) ==
  /\ message[m].state = "visible"
  /\ message[m].receives = MaxReceives
  /\ SetState(m, "dead")
  /\ UNCHANGED <<vars, batchVars, faults>>

\* MessageRetentionPeriod of the dead-letter queue
Expire(m) ==
  /\ message[m].state = "dead"
  /\ message' = [message EXCEPT ![m] = NoMessage]
  /\ UNCHANGED <<vars, batchVars, faults>>

-----------------------------------------------------------------------------
(* The worker's batch *)

\* queue.receive
Receive(w, ids) ==
  /\ inbox[w] = <<>>
  /\ \A i \in DOMAIN ids : /\ message[ids[i]].state = "visible"
                           /\ message[ids[i]].receives < MaxReceives
  /\ \A i, j \in DOMAIN ids : ids[i] = ids[j] => i = j
  /\ message' = [m \in Messages |->
                   IF \E i \in DOMAIN ids : ids[i] = m
                   THEN [message[m] EXCEPT !.state = "inflight",
                                           !.receives = @ + 1]
                   ELSE message[m]]
  /\ inbox' = [inbox EXCEPT ![w] =
                 [i \in DOMAIN ids |->
                    [id |-> ids[i], body |-> message[ids[i]].body,
                     receive |-> message[ids[i]].receives + 1]]]
  /\ UNCHANGED <<vars, task, unpublished, faults>>

\* Mutant of NextMessage: the action of the last message is kept.
NextMessageSameTask(w) ==
  /\ inbox' = [inbox EXCEPT ![w] = Tail(@)]
  /\ UNCHANGED <<task, unpublished>>

\* process_queue_batch goes on with the next message, or dies with the process.
NextMessage(w) ==
  /\ inbox' = [inbox EXCEPT ![w] = Tail(@)]
  /\ task' = [task EXCEPT ![w] = "none"]
  /\ UNCHANGED unpublished

Stop(w) ==
  /\ inbox' = [inbox EXCEPT ![w] = <<>>]
  /\ task' = [task EXCEPT ![w] = "none"]
  /\ unpublished' = [unpublished EXCEPT ![w] = <<>>]

First(w) == inbox[w][1]

Opens(w, type) ==
  inbox[w] # <<>> /\ task[w] = "none" /\ First(w).body.type = type

Turn(w, to) == task' = [task EXCEPT ![w] = to]

RefuseMalformed(w) ==
  /\ Opens(w, "malformed")
  /\ Turn(w, "retry")
  /\ UNCHANGED <<vars, message, inbox, unpublished, faults>>

\* Mutant of DueBatch: the gate is looked at after the limit.
DueBatchLimitFirst(real) ==
  Oldest(Due(TRUE, now), BatchSize) \cap Due(real, now)

\* The query of publish_due_event_messages
DueBatch(real) == Oldest(Due(real, now), BatchSize)

SelectDueEvents(w) ==
  LET S == DueBatch(w \in RealWorkers)
  IN  /\ Opens(w, "dispatch_due_events")
      /\ \E n \in 0 .. BatchSize : \E ids \in [1 .. n -> S] :
           /\ \A e \in S : \E i \in 1 .. n : ids[i] = e
           /\ \A i, j \in 1 .. n : i < j => Before(ids[i], ids[j])
           /\ unpublished' = [unpublished EXCEPT ![w] = ids]
      /\ Turn(w, IF S = {} THEN "acknowledge" ELSE "publish")
      /\ UNCHANGED <<vars, message, inbox, faults>>

\* One queue.publish of its loop; the rows are not read again.
PublishEvent(w, m) ==
  /\ task[w] = "publish"
  /\ unpublished[w] # <<>>
  /\ m \in Unused /\ m = NextSlot
  /\ Store(m, DeliverEvent(Head(unpublished[w])))
  /\ unpublished' = [unpublished EXCEPT ![w] = Tail(@)]
  /\ Turn(w, IF Len(unpublished[w]) = 1 THEN "acknowledge" ELSE "publish")
  /\ UNCHANGED <<vars, inbox, faults>>

\* The transaction of process_queued_delivery and the action it leads to
ClaimEvent(w, at) ==
  LET r        == First(w)
      real     == w \in RealWorkers
      decision == QueuedDecision(r.body.event, real, at)
  IN  /\ Opens(w, "deliver_scheduled_event")
      /\ \/ /\ decision \in {"acknowledge", "retry"}
            /\ Turn(w, decision)
            /\ UNCHANGED vars
         \/ /\ ProcessQueuedDelivery(w, r.body.event, r.receive, real, at)
            /\ Turn(w, IF decision = "missed" THEN "acknowledge" ELSE "deliver")
      /\ UNCHANGED <<message, inbox, unpublished, faults>>

CallProviders(w) ==
  /\ task[w] = "deliver"
  /\ \/ GetWeather(w)
     \/ \E retryable \in BOOLEAN : WeatherFails(w, retryable)
     \/ SendDemo(w)
     \/ SendFails(w)
     \/ \E answered \in BOOLEAN : SendReal(w, answered)
  /\ UNCHANGED queueVars

\* Mutants of ActionAfter: failures are acknowledged, all or the exhausted.
AcknowledgeFailures(outcome) == "acknowledge"
AcknowledgeExhausted(outcome) ==
  IF outcome.error = "QueueRetryable" THEN "retry" ELSE "acknowledge"

\* The QueueDeliveryAction that process_queued_delivery returns
ActionAfter(outcome) ==
  IF outcome.error \in {"QueueRetryable", "RetryExhausted"}
  THEN "retry" ELSE "acknowledge"

RecordOutcome(w) ==
  /\ task[w] = "deliver"
  /\ Record(w)
  /\ Turn(w, ActionAfter(result[w]))
  /\ UNCHANGED <<message, inbox, unpublished, faults>>

\* The receipt handle is the one of the latest receive.
IsCurrent(r) == message[r.id].receives = r.receive

\* queue.delete.  Through an older receipt handle the request succeeds, but
\* the message may or may not be deleted.
Acknowledge(w) ==
  LET r == First(w)
  IN  /\ task[w] = "acknowledge"
      /\ \E deleted \in BOOLEAN :
           /\ IF ~Stored(r.id) THEN ~deleted ELSE IsCurrent(r) => deleted
           /\ message' = IF deleted THEN [message EXCEPT ![r.id] = NoMessage]
                         ELSE message
      /\ NextMessage(w)
      /\ UNCHANGED <<vars, faults>>

\* Mutant of RetryLater: the message is published anew, so its receive count
\* starts again.
PublishAgain(w) ==
  /\ task[w] = "retry"
  /\ Store(First(w).id, First(w).body)
  /\ NextMessage(w)
  /\ UNCHANGED <<vars, faults>>

\* queue.change_visibility: the message reappears after its backoff.  SQS
\* refuses it for a message that is not in flight, and the worker stops.
RetryLater(w) ==
  LET r == First(w)
  IN  /\ task[w] = "retry"
      /\ \/ /\ message[r.id].state = "inflight"
            /\ \/ SetState(r.id, "visible")
               \/ ~IsCurrent(r) /\ UNCHANGED message
            /\ NextMessage(w)
         \/ /\ message[r.id].state # "inflight"
            /\ Stop(w)
            /\ UNCHANGED message
      /\ UNCHANGED <<vars, faults>>

\* A crash, or an error of the queue or the database, which the command does
\* not catch: nothing but what was committed survives.
WorkerStops(w) ==
  /\ inbox[w] # <<>>
  /\ Fault
  /\ Stop(w)
  /\ IF step[w] = "idle" THEN UNCHANGED vars ELSE Crash(w)
  /\ UNCHANGED message

-----------------------------------------------------------------------------
(* Specification *)

QueueInit ==
  /\ Init
  /\ message = [m \in Messages |-> NoMessage]
  /\ inbox = [w \in Workers |-> <<>>]
  /\ task = [w \in Workers |-> "none"]
  /\ unpublished = [w \in Workers |-> <<>>]
  /\ faults = 0

Batches == UNION {[1 .. n -> Messages] : n \in 1 .. ReceiveBatch}

HandleMessage(w) ==
  \/ RefuseMalformed(w)
  \/ SelectDueEvents(w)
  \/ \E m \in Messages : PublishEvent(w, m)
  \/ \E at \in SampledTimes : ClaimEvent(w, at)
  \/ CallProviders(w)
  \/ RecordOutcome(w)
  \/ Acknowledge(w)
  \/ RetryLater(w)

EditRows ==
  /\ EditEvent
  /\ \A e \in Events : channel'[e] \in UserChannels \cup {channel[e]}
  /\ UNCHANGED <<deliveryVars, queueVars>>

ClockTick == Tick /\ UNCHANGED <<deliveryVars, queueVars>>

QueueNext ==
  \/ EditRows
  \/ ClockTick
  \/ \E m \in Messages :
       \/ \E type \in ExternalTypes : SendExternal(m, type)
       \/ Lapse(m)
       \/ Redrive(m)
       \/ Expire(m)
  \/ \E w \in Workers :
       \/ \E ids \in Batches : Receive(w, ids)
       \/ HandleMessage(w)
       \/ WorkerStops(w)

QueueSpec == QueueInit /\ [][QueueNext]_qvars

\* The clock and the scheduler go on, a running worker goes on with the
\* message it handles, SQS delivers every message that stays visible, and
\* its timeouts, redrive and retention happen.  Nobody has to edit an event,
\* and no fault has to happen.
QueueFairness ==
  /\ WF_qvars(ClockTick)
  /\ SF_qvars(\E m \in Messages : SendExternal(m, "dispatch_due_events"))
  /\ \A w \in Workers : WF_qvars(HandleMessage(w))
  /\ \A m \in Messages :
       /\ SF_qvars(\E w \in Workers, ids \in Batches :
                     (\E i \in DOMAIN ids : ids[i] = m) /\ Receive(w, ids))
       /\ WF_qvars(~Handled(m) /\ Lapse(m))
       /\ WF_qvars(Redrive(m))
       /\ WF_qvars(Expire(m))

FairQueueSpec == QueueSpec /\ QueueFairness

-----------------------------------------------------------------------------
(* Safety *)

\* An event is being sent only under a message: the worker that holds the
\* claim handles a receipt that names the event, a worker handles one claim
\* at a time, and every other worker that handles a message of that event is
\* past its claim (it settles) or before it, never inside it.
Carries(w, e) == inbox[w] # <<>> /\ First(w).body = DeliverEvent(e)

ClaimsUnderMessage ==
  \A w \in Workers :
    /\ \A c, d \in held[w] : c = d
    /\ (task[w] = "deliver") <=> (held[w] # {})
    /\ \A c \in held[w] :
         /\ Carries(w, c.event)
         /\ op[w].receive = First(w).receive
         /\ \A v \in Workers \ {w} : Carries(v, c.event) => task[v] # "deliver"

\* An event that waits for its retry still has a message, in the queue or in
\* the hands of a worker, so that some later receive can take it up or record
\* the exhaustion (process_queued_delivery hands the message back instead of
\* deleting it, and fails the event on the last receive).
RetryHasMessage ==
  \A e \in Events : PhaseOf(e) = "retrying" => HasMessage(e)

\* It is true as long as nothing fails: duplicates, malformed messages, workers
\* with other gates and the receive limit do not take the last message away.
RetryKeepsMessageUntilFault == faults = 0 => RetryHasMessage

-----------------------------------------------------------------------------
(* Liveness *)

IsDue(e) == status[e] = "scheduled" /\ scheduledFor[e] <= now

\* A worker without the gate deletes the message of a real event that is due.
RefusedAtGate(e) ==
  \E w \in Workers, at \in SampledTimes :
    /\ Carries(w, e)
    /\ e \in Due(TRUE, at) \ Due(w \in RealWorkers, at)
    /\ ClaimEvent(w, at)

\* Ticks may be lost with a worker, repeated or late, and older events may fill
\* the batch: a demo event that is due, and is not moved away, is claimed in the
\* end, whatever gates the workers have.  The one thing that starves it is an
\* older real event that a worker with the gate publishes and one without it
\* throws away again and again.
DueEventsAreClaimed ==
  \A e \in DemoEvents :
    \/ IsDue(e) ~> ~IsDue(e)
    \/ []<><<\E f \in Events \ DemoEvents : Before(f, e) /\ RefusedAtGate(f)>>_qvars

\* Every event that was claimed gets its final status, while nothing fails.
ClaimedEventsConclude ==
  \A e \in Events :
    status[e] = "processing" ~> status[e] \in Terminal \/ faults > 0

\* No message circulates forever: it is deleted or redriven.
MessagesDrain == \A m \in Messages : Stored(m) ~> ~Stored(m)

\* An event whose executor is gone surfaces: one of its messages gets to the
\* dead-letter queue, whose alarm is the only report of it.
DeadLettered(e) ==
  \E m \in Messages :
    message[m].state = "dead" /\ message[m].body = DeliverEvent(e)

QuarantineSurfaces ==
  \A e \in Events : <>Stranded(e) => <>(Stranded(e) /\ DeadLettered(e))

\* An exhausted retry surfaces the same way while nothing fails: the worker that
\* records it hands its message back, and no other worker acknowledges it away.
ExhaustionSurfaces ==
  \A e \in Events :
    LET exhausted == LatestIs(e, Failed("RetryExhausted"))
    IN  <>exhausted => <>((exhausted /\ DeadLettered(e)) \/ faults > 0)

-----------------------------------------------------------------------------
(* Claims of the documentation *)

\* A tick never publishes a message, with its fresh receive count, for an
\* event that waits for a retry.
NoFreshMessageForRetry ==
  [][\A w \in Workers, m \in Messages :
       PublishEvent(w, m) => PhaseOf(Head(unpublished[w])) # "retrying"]_qvars
=============================================================================
