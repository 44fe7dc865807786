----------------------------- MODULE QueueProofs -----------------------------
(***************************************************************************)
(* The queue worker of QueueDelivery takes only steps that Delivery allows *)
(* its executors, so every safety theorem of DeliveryProofs holds under    *)
(* SQS, its duplicates, its lapses and the crashes of its workers.         *)
(***************************************************************************)
EXTENDS QueueDelivery, DeliveryRefinement

-----------------------------------------------------------------------------
(* Types of the queue *)

\* A slot's record keeps its type when its state changes or it is received.
LEMMA SlotTypes ==
  ASSUME NEW slot \in Slot
  PROVE  /\ NoMessage \in Slot
         /\ \A body \in Envelope :
              [state |-> "visible", body |-> body, receives |-> 0] \in Slot
         /\ \A state \in {"visible", "dead"} : [slot EXCEPT !.state = state] \in Slot
         /\ slot.receives < MaxReceives =>
              [slot EXCEPT !.state = "inflight", !.receives = @ + 1] \in Slot
PROOF
<1>1. 0 \in 0 .. MaxReceives
  BY DeliveryAssumption
<1>2. NoMessage \in Slot
  BY <1>1 DEF NoMessage, Slot, Envelope
<1>3. \A state \in {"visible", "dead"} : [slot EXCEPT !.state = state] \in Slot
  BY DEF Slot
<1>4. ASSUME slot.receives < MaxReceives
      PROVE  [slot EXCEPT !.state = "inflight", !.receives = @ + 1] \in Slot
  <2>1. slot.receives + 1 \in 0 .. MaxReceives
    BY <1>4, DeliveryAssumption DEF Slot
  <2> QED
    BY <2>1 DEF Slot
<1> QED
  BY <1>1, <1>2, <1>3, <1>4 DEF Slot

\* The actions of a worker that settle or drop its first message.
LEMMA BatchTypes ==
  ASSUME QueueTypeOK, NEW w \in Workers, inbox[w] # <<>>,
         NextMessage(w) \/ Stop(w)
  PROVE  /\ inbox' \in [Workers -> Seq(Receipt)]
         /\ task' \in [Workers -> {"none", "publish", "deliver",
                                   "acknowledge", "retry"}]
         /\ unpublished' \in [Workers -> Seq(Events)]
         /\ \A v \in Workers : task'[v] # "none" => inbox'[v] # <<>>
PROOF
<1>1. Tail(inbox[w]) \in Seq(Receipt) /\ <<>> \in Seq(Receipt) /\ <<>> \in Seq(Events)
  BY DEF QueueTypeOK
<1> QED
  BY <1>1 DEF QueueTypeOK, NextMessage, Stop

\* The message a worker handles names a row, a receive and a slot.
LEMMA FirstReceipt ==
  ASSUME QueueTypeOK, NEW w \in Workers, inbox[w] # <<>>
  PROVE  /\ First(w) \in Receipt
         /\ First(w).id \in Messages
         /\ First(w).receive \in 1 .. MaxReceives
         /\ First(w).body.type = "deliver_scheduled_event"
              => First(w).body.event \in Events
PROOF
<1>1. inbox[w] \in Seq(Receipt) /\ Len(inbox[w]) >= 1
  BY DEF QueueTypeOK
<1>2. First(w) \in Receipt
  BY <1>1 DEF First
<1> QED
  BY <1>2 DEF Receipt, Envelope

-----------------------------------------------------------------------------
(* The worker's steps are steps of Delivery *)

\* Every step of the queue, the scheduler and the workers is a step of an
\* executor of Delivery, an edit, a tick of the clock, or leaves all of them.
LEMMA QueueStepIsDeliveryStep ==
  ASSUME QueueTypeOK, [QueueNext]_qvars
  PROVE  [Next]_vars
PROOF
<1>1. CASE EditRows \/ ClockTick
  BY <1>1 DEF EditRows, ClockTick, Next, SchedulingNext
<1>2. ASSUME NEW m \in Messages, NEW type \in ExternalTypes, SendExternal(m, type)
      PROVE  UNCHANGED vars
  BY <1>2 DEF SendExternal
<1>3. ASSUME NEW m \in Messages, Lapse(m) \/ Redrive(m) \/ Expire(m)
      PROVE  UNCHANGED vars
  BY <1>3 DEF Lapse, Redrive, Expire
<1>4. ASSUME NEW w \in Workers, NEW ids \in Batches, Receive(w, ids)
      PROVE  UNCHANGED vars
  BY <1>4 DEF Receive
<1>5. ASSUME NEW w \in Workers, HandleMessage(w)
      PROVE  [Next]_vars
  <2>1. CASE RefuseMalformed(w) \/ SelectDueEvents(w) \/ Acknowledge(w) \/ RetryLater(w)
    BY <2>1 DEF RefuseMalformed, SelectDueEvents, Acknowledge, RetryLater
  <2>2. ASSUME NEW m \in Messages, PublishEvent(w, m)
        PROVE  UNCHANGED vars
    BY <2>2 DEF PublishEvent
  <2>3. ASSUME NEW at \in SampledTimes, ClaimEvent(w, at)
        PROVE  [Next]_vars
    <3>1. CASE UNCHANGED vars
      BY <3>1
    <3>2. ASSUME ProcessQueuedDelivery(w, First(w).body.event, First(w).receive,
                                       w \in RealWorkers, at)
          PROVE  Next
      <4>1. /\ First(w).body.event \in Events
            /\ First(w).receive \in 1 .. MaxReceives
        BY <2>3, FirstReceipt DEF ClaimEvent, Opens
      <4>2. (w \in RealWorkers) \in BOOLEAN
        OBVIOUS
      <4>3. ClaimWork(w)
        BY <3>2, <4>1, <4>2 DEF ClaimWork
      <4> QED
        BY <4>3 DEF Next
    <3> QED
      BY <2>3, <3>1, <3>2 DEF ClaimEvent
  <2>4. CASE CallProviders(w) \/ RecordOutcome(w)
    BY <2>4 DEF CallProviders, RecordOutcome, Next, Work
  <2> QED
    BY <1>5, <2>1, <2>2, <2>3, <2>4 DEF HandleMessage
<1>6. ASSUME NEW w \in Workers, WorkerStops(w)
      PROVE  [Next]_vars
  BY <1>6 DEF WorkerStops, Next, Work
<1>7. CASE UNCHANGED qvars
  BY <1>7 DEF qvars
<1> QED
  BY <1>1, <1>2, <1>3, <1>4, <1>5, <1>6, <1>7 DEF QueueNext

-----------------------------------------------------------------------------
(* The type invariant of the queue *)

BatchType ==
  /\ inbox \in [Workers -> Seq(Receipt)]
  /\ task \in [Workers -> {"none", "publish", "deliver", "acknowledge", "retry"}]
  /\ unpublished \in [Workers -> Seq(Events)]
  /\ \A w \in Workers : task[w] # "none" => inbox[w] # <<>>

\* A turn of a worker that keeps its batch.
LEMMA TurnType ==
  ASSUME QueueTypeOK, NEW w \in Workers, inbox[w] # <<>>,
         NEW to \in {"none", "publish", "deliver", "acknowledge", "retry"},
         Turn(w, to), UNCHANGED inbox,
         unpublished' \in [Workers -> Seq(Events)]
  PROVE  BatchType'
BY DEF QueueTypeOK, BatchType, Turn

\* The slots keep their type when no worker touches them but the queue does.
LEMMA MessageStepType ==
  ASSUME QueueTypeOK, NEW m \in Messages,
         \/ \E body \in Envelope : Store(m, body)
         \/ \E state \in {"visible", "dead"} : SetState(m, state)
         \/ message' = [message EXCEPT ![m] = NoMessage]
         \/ UNCHANGED message
  PROVE  message' \in [Messages -> Slot]
PROOF
<1>1. message \in [Messages -> Slot] /\ message[m] \in Slot
  BY DEF QueueTypeOK
<1>2. CASE \E body \in Envelope : Store(m, body)
  BY <1>1, <1>2, SlotTypes DEF Store
<1>3. CASE \E state \in {"visible", "dead"} : SetState(m, state)
  BY <1>1, <1>3, SlotTypes DEF SetState
<1>4. CASE message' = [message EXCEPT ![m] = NoMessage]
  BY <1>1, <1>4, SlotTypes
<1>5. CASE UNCHANGED message
  BY <1>1, <1>5
<1> QED
  BY <1>2, <1>3, <1>4, <1>5

\* A receive hands out receipts of the slots it takes.
LEMMA ReceiveType ==
  ASSUME QueueTypeOK, NEW w \in Workers, NEW ids \in Batches, Receive(w, ids)
  PROVE  QueueTypeOK'
PROOF
<1>1. PICK n \in 1 .. ReceiveBatch : ids \in [1 .. n -> Messages]
  BY DEF Batches
<1>2. n \in Nat /\ n >= 1
  BY <1>1, QueueAssumption
<1>3. \A i \in 1 .. n : /\ message[ids[i]] \in Slot
                         /\ message[ids[i]].receives < MaxReceives
  BY <1>1 DEF Receive, QueueTypeOK
<1>4. \A i \in 1 .. n : /\ message[ids[i]].body \in Envelope
                         /\ message[ids[i]].receives + 1 \in 1 .. MaxReceives
  BY <1>3, DeliveryAssumption DEF Slot
<1> DEFINE taken == [i \in 1 .. n |->
                       [id |-> ids[i], body |-> message[ids[i]].body,
                        receive |-> message[ids[i]].receives + 1]]
<1>5. taken \in [1 .. n -> Receipt]
  BY <1>1, <1>4 DEF Receipt
<1>6. taken \in Seq(Receipt) /\ Len(taken) = n
  BY <1>2, <1>5
<1>7. taken # <<>>
  BY <1>2, <1>6
<1>8. inbox' = [inbox EXCEPT ![w] = taken]
  BY <1>1 DEF Receive
<1> HIDE DEF taken
<1>9. inbox' \in [Workers -> Seq(Receipt)] /\ inbox'[w] # <<>>
  BY <1>6, <1>7, <1>8 DEF QueueTypeOK
<1>10. message' \in [Messages -> Slot]
  <2>1. \A m \in Messages : message[m] \in Slot
    BY DEF QueueTypeOK
  <2>2. \A m \in Messages : (\E i \in DOMAIN ids : ids[i] = m)
          => [message[m] EXCEPT !.state = "inflight", !.receives = @ + 1] \in Slot
    BY <1>1, <1>3, SlotTypes
  <2> QED
    BY <2>1, <2>2 DEF Receive
<1>11. /\ UNCHANGED <<task, unpublished, faults>>
       /\ \A v \in Workers : v # w => inbox'[v] = inbox[v]
  BY <1>8 DEF Receive, QueueTypeOK
<1> QED
  BY <1>9, <1>10, <1>11 DEF QueueTypeOK

\* What a worker does with its first message keeps the types.
LEMMA HandleMessageType ==
  ASSUME QueueTypeOK, NEW w \in Workers, HandleMessage(w)
  PROVE  QueueTypeOK'
PROOF
<1> SUFFICES message' \in [Messages -> Slot] /\ BatchType' /\ UNCHANGED faults
  BY DEF QueueTypeOK, BatchType
<1>0. /\ unpublished \in [Workers -> Seq(Events)]
      /\ message \in [Messages -> Slot]
  BY DEF QueueTypeOK
<1>1. CASE RefuseMalformed(w)
  BY <1>0, <1>1, TurnType DEF RefuseMalformed, Opens
<1>2. CASE SelectDueEvents(w)
  <2> DEFINE S == DueBatch(w \in RealWorkers)
  <2>1. PICK n \in 0 .. BatchSize : \E ids \in [1 .. n -> S] :
          unpublished' = [unpublished EXCEPT ![w] = ids]
    BY <1>2 DEF SelectDueEvents
  <2>2. PICK ids \in [1 .. n -> S] : unpublished' = [unpublished EXCEPT ![w] = ids]
    BY <2>1
  <2>3. S \subseteq Events
    BY DEF DueBatch, Oldest, Due
  <2> HIDE DEF S
  <2>4. n \in Nat
    BY DeliveryAssumption
  <2>5. ids \in [1 .. n -> Events]
    BY <2>2, <2>3
  <2>6. ids \in Seq(Events)
    BY <2>4, <2>5
  <2>7. unpublished' \in [Workers -> Seq(Events)]
    BY <1>0, <2>2, <2>6
  <2>8. /\ inbox[w] # <<>> /\ UNCHANGED <<message, inbox, faults>>
        /\ \E to \in {"publish", "acknowledge"} : Turn(w, to)
    BY <1>2 DEF SelectDueEvents, Opens
  <2> QED
    BY <1>0, <2>7, <2>8, TurnType
<1>3. ASSUME NEW m \in Messages, PublishEvent(w, m)
      PROVE  message' \in [Messages -> Slot] /\ BatchType' /\ UNCHANGED faults
  <2>1. /\ unpublished[w] \in Seq(Events) /\ unpublished[w] # <<>>
        /\ inbox[w] # <<>>
    BY <1>3 DEF PublishEvent, QueueTypeOK
  <2>2. Head(unpublished[w]) \in Events /\ Tail(unpublished[w]) \in Seq(Events)
    BY <2>1
  <2>3. DeliverEvent(Head(unpublished[w])) \in Envelope
    BY <2>2 DEF DeliverEvent, Envelope
  <2>4. message' \in [Messages -> Slot]
    BY <1>3, <2>3, MessageStepType DEF PublishEvent
  <2>5. unpublished' \in [Workers -> Seq(Events)]
    BY <1>0, <1>3, <2>2 DEF PublishEvent
  <2>6. /\ UNCHANGED <<inbox, faults>>
        /\ \E to \in {"publish", "acknowledge"} : Turn(w, to)
    BY <1>3 DEF PublishEvent
  <2> QED
    BY <2>1, <2>4, <2>5, <2>6, TurnType
<1>4. ASSUME NEW at \in SampledTimes, ClaimEvent(w, at)
      PROVE  message' \in [Messages -> Slot] /\ BatchType' /\ UNCHANGED faults
  <2>1. /\ inbox[w] # <<>> /\ UNCHANGED <<message, inbox, unpublished, faults>>
        /\ \E to \in {"acknowledge", "retry", "deliver"} : Turn(w, to)
    BY <1>4 DEF ClaimEvent, Opens
  <2> QED
    BY <1>0, <2>1, TurnType
<1>5. CASE CallProviders(w)
  BY <1>0, <1>5 DEF CallProviders, queueVars, batchVars, BatchType, QueueTypeOK
<1>6. CASE RecordOutcome(w)
  <2>1. /\ inbox[w] # <<>> /\ UNCHANGED <<message, inbox, unpublished, faults>>
        /\ \E to \in {"acknowledge", "retry"} : Turn(w, to)
    BY <1>6 DEF RecordOutcome, ActionAfter, QueueTypeOK
  <2> QED
    BY <1>0, <2>1, TurnType
<1>7. CASE Acknowledge(w) \/ RetryLater(w)
  <2>1. inbox[w] # <<>>
    BY <1>7 DEF Acknowledge, RetryLater, QueueTypeOK
  <2>2. First(w).id \in Messages
    BY <2>1, FirstReceipt
  <2>3. /\ NextMessage(w) \/ Stop(w)
        /\ UNCHANGED faults
        /\ \/ SetState(First(w).id, "visible")
           \/ message' = [message EXCEPT ![First(w).id] = NoMessage]
           \/ UNCHANGED message
    BY <1>7 DEF Acknowledge, RetryLater
  <2>4. message' \in [Messages -> Slot]
    BY <2>2, <2>3, MessageStepType
  <2> QED
    BY <2>1, <2>3, <2>4, BatchTypes DEF BatchType
<1> QED
  BY <1>1, <1>2, <1>3, <1>4, <1>5, <1>6, <1>7 DEF HandleMessage

\* The inductive step of the queue's type invariant.
LEMMA QueueTypeStep ==
  ASSUME QueueTypeOK, [QueueNext]_qvars
  PROVE  QueueTypeOK'
PROOF
<1>1. CASE EditRows \/ ClockTick \/ UNCHANGED qvars
  BY <1>1 DEF EditRows, ClockTick, qvars, queueVars, batchVars, QueueTypeOK
<1>2. ASSUME NEW m \in Messages,
             \/ \E type \in ExternalTypes : SendExternal(m, type)
             \/ Lapse(m) \/ Redrive(m) \/ Expire(m)
      PROVE  QueueTypeOK'
  <2>1. \/ \E body \in Envelope : Store(m, body)
        \/ \E state \in {"visible", "dead"} : SetState(m, state)
        \/ message' = [message EXCEPT ![m] = NoMessage]
    <3>1. \A type \in ExternalTypes : [type |-> type, event |-> 0] \in Envelope
      BY QueueAssumption DEF Envelope
    <3> QED
      BY <1>2, <3>1 DEF SendExternal, Lapse, Redrive, Expire
  <2>2. message' \in [Messages -> Slot]
    BY <2>1, MessageStepType
  <2>3. UNCHANGED batchVars
    BY <1>2 DEF SendExternal, Lapse, Redrive, Expire
  <2>4. UNCHANGED faults \/ Fault
    BY <1>2 DEF SendExternal, Lapse, Redrive, Expire
  <2>5. faults' \in 0 .. MaxFaults
    BY <2>4, QueueAssumption DEF Fault, QueueTypeOK
  <2> QED
    BY <2>2, <2>3, <2>5 DEF QueueTypeOK, batchVars
<1>3. ASSUME NEW w \in Workers, WorkerStops(w)
      PROVE  QueueTypeOK'
  <2>1. /\ inbox[w] # <<>> /\ Stop(w) /\ UNCHANGED message
        /\ faults' \in 0 .. MaxFaults
    BY <1>3, QueueAssumption DEF WorkerStops, Fault, QueueTypeOK
  <2> QED
    BY <2>1, BatchTypes DEF QueueTypeOK
<1> QED
  BY <1>1, <1>2, <1>3, ReceiveType, HandleMessageType DEF QueueNext

-----------------------------------------------------------------------------
(* Theorems *)

\* Every variable of the queue and its workers keeps its type; in particular
\* a receive count never exceeds the redrive limit and a worker settles only
\* messages it holds.
THEOREM QueueTypeCorrect == QueueSpec => []QueueTypeOK
PROOF
<1>1. QueueInit => QueueTypeOK
  <2>1. NoMessage \in Slot
    BY DeliveryAssumption DEF NoMessage, Slot, Envelope
  <2>2. 0 \in 0 .. MaxFaults
    BY QueueAssumption
  <2> QED
    BY <2>1, <2>2 DEF QueueInit, QueueTypeOK
<1> QED
  BY <1>1, QueueTypeStep, PTL DEF QueueSpec

\* The SQS worker implements the workflow of Delivery: whatever the queue
\* duplicates, delays or redrives, every step is one Delivery allows.
THEOREM QueueImplementsDelivery == QueueSpec => Spec
PROOF
<1>1. QueueInit => Init
  BY DEF QueueInit
<1> QED
  BY <1>1, QueueTypeCorrect, QueueStepIsDeliveryStep, PTL DEF QueueSpec, Spec

\* So the safety of the claims, of the submissions and of the audit holds for
\* the queue worker, for any number of workers, messages and faults.
THEOREM QueueIsSafe ==
  QueueSpec => [](/\ ExclusiveClaims
                  /\ SubmissionMatchesRow
                  /\ AuditMatchesProvider
                  /\ AttemptsMatchRow)
BY QueueImplementsDelivery, ClaimsAreExclusive, AtMostOneSubmission,
   AuditIsTruthful, AttemptsAgreeWithRow, PTL

\* And its steps are those of the abstract life cycle: the queue adds no
\* transition, rewrites no attempt and touches no stranded event.
THEOREM QueueKeepsLifecycle ==
  QueueSpec => /\ RefinesLifecycle
               /\ LegalTransitions
               /\ HistoryIsImmutable
               /\ QuarantineHolds
BY QueueImplementsDelivery, Refinement, TransitionsAreLegal, HistoryIsKept,
   StrandedStaysQuarantined

-----------------------------------------------------------------------------
(* Claims and messages *)

\* A worker holds a claim exactly while it delivers, one, under its own message.
WorkerInv(w) ==
  /\ step[w] = "idle" => held[w] = {}
  /\ \A c, d \in held[w] : c = d
  /\ (task[w] = "deliver") <=> (held[w] # {})
  /\ \A c \in held[w] : Carries(w, c.event) /\ op[w].receive = First(w).receive

\* A worker that a step leaves alone keeps its invariant.
LEMMA WorkerKept ==
  ASSUME NEW w \in Workers, WorkerInv(w),
         UNCHANGED <<inbox[w], held[w], op[w], step[w], task[w]>>
  PROVE  WorkerInv(w)'
BY DEF WorkerInv, Carries, First

\* A worker without a claim, before its step and after it.
LEMMA WorkerFree ==
  ASSUME NEW w \in Workers, held'[w] = {}, task'[w] # "deliver"
  PROVE  WorkerInv(w)'
BY DEF WorkerInv

\* The claim of the first message's event, opened by its transaction.
LEMMA ClaimEventKeeps ==
  ASSUME TypeOK, QueueTypeOK, NEW w \in Workers, WorkerInv(w),
         NEW at \in SampledTimes, ClaimEvent(w, at)
  PROVE  WorkerInv(w)'
<1>. DEFINE e == First(w).body.event
            real == w \in RealWorkers
            decision == QueuedDecision(e, real, at)
            call == [kind |-> "queue", real |-> real, receive |-> First(w).receive]
<1>0. /\ held \in [Workers -> SUBSET Claim] /\ op \in [Workers -> Call]
      /\ step \in [Workers -> {"idle", "weather", "send", "record"}]
      /\ task \in [Workers -> {"none", "publish", "deliver", "acknowledge", "retry"}]
  BY DEF TypeOK, QueueTypeOK
<1>1. /\ inbox[w] # <<>> /\ task[w] = "none" /\ UNCHANGED inbox
      /\ First(w).body.type = "deliver_scheduled_event"
      /\ First(w) \in Receipt /\ held[w] = {}
  BY FirstReceipt DEF ClaimEvent, Opens, WorkerInv
<1>2. First(w).body = DeliverEvent(e) /\ call.receive = First(w).receive
  <2>1. First(w).body \in Envelope
    BY <1>1 DEF Receipt
  <2>. QED BY <1>1, <2>1 DEF Envelope, DeliverEvent
<1>3. CASE /\ decision \in {"acknowledge", "retry"}
           /\ Turn(w, decision) /\ UNCHANGED vars
  BY <1>0, <1>1, <1>3, WorkerFree DEF Turn, vars
<1>4. CASE /\ ProcessQueuedDelivery(w, e, First(w).receive, real, at)
           /\ Turn(w, IF decision = "missed" THEN "acknowledge" ELSE "deliver")
  <2>1. /\ decision = "missed" => Begin(w, call, {})
        /\ decision # "missed" => Begin(w, call, {e})
    <3>1. {e} \ {} = {e} /\ {e} \ {e} = {}
      OBVIOUS
    <3>. QED
      BY <1>4, <3>1 DEF ProcessQueuedDelivery, ClaimLocked, ReclaimLocked
  <2>2. CASE decision = "missed"
    <3>1. held'[w] = {} /\ task'[w] = "acknowledge"
      BY <1>0, <1>4, <2>1, <2>2 DEF Begin, Turn
    <3>. QED BY <3>1, WorkerFree
  <2>3. CASE decision # "missed"
    <3>1. /\ held'[w] = {ClaimOf(e)} /\ task'[w] = "deliver"
          /\ op'[w] = call /\ step'[w] = "weather"
      <4>1. Begin(w, call, {e})
        BY <2>1, <2>3
      <4>2. {ClaimOf(f) : f \in {e}} = {ClaimOf(e)} /\ {e} # {}
        OBVIOUS
      <4>3. held'[w] = {ClaimOf(e)} /\ op'[w] = call /\ step'[w] = "weather"
        BY <1>0, <4>1, <4>2 DEF Begin
      <4>4. task'[w] = "deliver"
        BY <1>0, <1>4, <2>3 DEF Turn
      <4>. QED BY <4>3, <4>4
    <3>2. ClaimOf(e).event = e
      BY DEF ClaimOf
    <3>3. Carries(w, e)' /\ First(w)' = First(w)
      BY <1>1, <1>2 DEF Carries, First
    <3>4. \A c \in held'[w] : Carries(w, c.event)' /\ op'[w].receive = First(w)'.receive
      BY <1>2, <3>1, <3>2, <3>3
    <3>. QED BY <3>1, <3>4 DEF WorkerInv
  <2>. QED BY <2>2, <2>3
<1>. QED BY <1>3, <1>4 DEF ClaimEvent

\* The provider calls keep the claim; recording gives it back with the task.
LEMMA DeliverKeeps ==
  ASSUME TypeOK, QueueTypeOK, NEW w \in Workers, WorkerInv(w),
         CallProviders(w) \/ RecordOutcome(w)
  PROVE  WorkerInv(w)'
<1>0. /\ held \in [Workers -> SUBSET Claim]
      /\ step \in [Workers -> {"idle", "weather", "send", "record"}]
      /\ task \in [Workers -> {"none", "publish", "deliver", "acknowledge", "retry"}]
  BY DEF TypeOK, QueueTypeOK
<1>1. CASE CallProviders(w)
  <2>1. \E next \in {"send", "record"}, outcome \in {result'[w]} :
          Proceed(w, next, outcome)
    BY <1>1 DEF CallProviders, GetWeather, WeatherFails, SendDemo, SendFails, SendReal,
                Proceed, TypeOK
  <2>2. step'[w] # "idle" /\ UNCHANGED <<held, op>>
    BY <1>0, <2>1 DEF Proceed
  <2>3. UNCHANGED <<inbox, task>>
    BY <1>1 DEF CallProviders, queueVars, batchVars
  <2>. QED BY <2>2, <2>3 DEF WorkerInv, Carries, First
<1>2. CASE RecordOutcome(w)
  <2>1. PICK c \in held[w] : Finish(w, c)
    BY <1>2 DEF RecordOutcome, Record, Current
  <2>2. held[w] \ {c} = {}
    BY DEF WorkerInv
  <2>3. held'[w] = {}
    BY <1>0, <2>1, <2>2 DEF Finish
  <2>4. task'[w] # "deliver"
    BY <1>0, <1>2 DEF RecordOutcome, Turn, ActionAfter
  <2>. QED BY <2>3, <2>4, WorkerFree
<1>. QED BY <1>1, <1>2

\* Between two claims a worker goes on without one.
LEMMA TaskKeeps ==
  ASSUME TypeOK, QueueTypeOK, NEW w \in Workers, WorkerInv(w), task[w] # "deliver",
         UNCHANGED vars,
         \/ \E to \in {"none", "publish", "acknowledge", "retry"} : Turn(w, to)
         \/ NextMessage(w) \/ Stop(w) \/ UNCHANGED task
  PROVE  WorkerInv(w)'
<1>1. held'[w] = {}
  BY DEF WorkerInv, vars
<1>2. task'[w] # "deliver"
  BY DEF Turn, NextMessage, Stop, QueueTypeOK
<1>. QED BY <1>1, <1>2, WorkerFree

\* What a worker does, the others do not see.
LEMMA OneWorkerMoves ==
  ASSUME TypeOK, QueueTypeOK, NEW w \in Workers, NEW v \in Workers \ {w},
         \/ \E ids \in Batches : Receive(w, ids)
         \/ HandleMessage(w)
         \/ WorkerStops(w)
  PROVE  UNCHANGED <<inbox[v], task[v], held[v], op[v], step[v], result[v]>>
<1>0. /\ held \in [Workers -> SUBSET Claim] /\ op \in [Workers -> Call]
      /\ step \in [Workers -> {"idle", "weather", "send", "record"}]
      /\ task \in [Workers -> {"none", "publish", "deliver", "acknowledge", "retry"}]
      /\ inbox \in [Workers -> Seq(Receipt)]
      /\ result \in [Workers -> Attempt]
  BY DEF TypeOK, QueueTypeOK
<1>1. UNCHANGED <<inbox[v], task[v]>>
  <2>1. CASE \E ids \in Batches : Receive(w, ids)
    BY <1>0, <2>1 DEF Receive
  <2>2. CASE \/ RefuseMalformed(w) \/ SelectDueEvents(w)
             \/ \E m \in Messages : PublishEvent(w, m)
             \/ \E at \in SampledTimes : ClaimEvent(w, at)
             \/ RecordOutcome(w)
    <3>1. UNCHANGED inbox /\ \E to : Turn(w, to)
      BY <2>2 DEF RefuseMalformed, SelectDueEvents, PublishEvent, ClaimEvent,
                  RecordOutcome
    <3>. QED BY <1>0, <3>1 DEF Turn
  <2>3. CASE Acknowledge(w) \/ RetryLater(w) \/ WorkerStops(w)
    <3>1. NextMessage(w) \/ Stop(w)
      BY <2>3 DEF Acknowledge, RetryLater, WorkerStops
    <3>. QED BY <1>0, <3>1 DEF NextMessage, Stop
  <2>4. CASE CallProviders(w)
    BY <2>4 DEF CallProviders, queueVars, batchVars
  <2>. QED BY <2>1, <2>2, <2>3, <2>4 DEF HandleMessage
<1>2. UNCHANGED <<held[v], op[v], step[v], result[v]>>
  <2>1. CASE UNCHANGED vars
    BY <2>1 DEF vars
  <2>2. ASSUME NEW call, NEW S, Begin(w, call, S)
        PROVE  UNCHANGED <<held[v], op[v], step[v], result[v]>>
    BY <1>0, <2>2 DEF Begin
  <2>3. ASSUME NEW c, Finish(w, c)
        PROVE  UNCHANGED <<held[v], op[v], step[v], result[v]>>
    BY <1>0, <2>3 DEF Finish
  <2>4. ASSUME NEW next, NEW outcome, Proceed(w, next, outcome)
        PROVE  UNCHANGED <<held[v], op[v], step[v], result[v]>>
    BY <1>0, <2>4 DEF Proceed
  <2>5. CASE Crash(w)
    BY <1>0, <2>5 DEF Crash
  <2>6. ASSUME NEW at \in SampledTimes, ClaimEvent(w, at)
        PROVE  UNCHANGED vars \/ \E call, S : Begin(w, call, S)
    BY <2>6 DEF ClaimEvent, ProcessQueuedDelivery, ClaimLocked, ReclaimLocked
  <2>7. CallProviders(w) => \E next, outcome : Proceed(w, next, outcome)
    BY DEF CallProviders, GetWeather, WeatherFails, SendDemo, SendFails, SendReal
  <2>8. RecordOutcome(w) => \E c : Finish(w, c)
    BY DEF RecordOutcome, Record
  <2>9. WorkerStops(w) => UNCHANGED vars \/ Crash(w)
    BY DEF WorkerStops
  <2>10. \/ \E ids \in Batches : Receive(w, ids)
         \/ RefuseMalformed(w) \/ SelectDueEvents(w)
         \/ \E m \in Messages : PublishEvent(w, m)
         \/ Acknowledge(w) \/ RetryLater(w)
         => UNCHANGED vars
    BY DEF Receive, RefuseMalformed, SelectDueEvents, PublishEvent, Acknowledge,
           RetryLater
  <2>. QED
    BY <2>1, <2>2, <2>3, <2>4, <2>5, <2>6, <2>7, <2>8, <2>9, <2>10 DEF HandleMessage
<1>. QED BY <1>1, <1>2

\* Every step keeps the invariant of every worker.
LEMMA WorkerStep ==
  ASSUME TypeOK, QueueTypeOK, \A w \in Workers : WorkerInv(w), [QueueNext]_qvars
  PROVE  \A w \in Workers : WorkerInv(w)'
<1>1. ASSUME NEW w \in Workers,
             \/ \E ids \in Batches : Receive(w, ids)
             \/ HandleMessage(w) \/ WorkerStops(w)
      PROVE  WorkerInv(w)'
  <2>1. CASE \E ids \in Batches : Receive(w, ids)
    <3>1. task[w] # "deliver" /\ UNCHANGED <<vars, task>>
      BY <2>1 DEF Receive, QueueTypeOK
    <3>. QED BY <3>1, TaskKeeps
  <2>2. CASE \/ RefuseMalformed(w) \/ SelectDueEvents(w)
             \/ \E m \in Messages : PublishEvent(w, m)
             \/ Acknowledge(w) \/ RetryLater(w)
    <3>1. task[w] # "deliver" /\ UNCHANGED vars
      BY <2>2 DEF RefuseMalformed, SelectDueEvents, PublishEvent, Acknowledge,
                  RetryLater, Opens
    <3>2. \/ \E to \in {"none", "publish", "acknowledge", "retry"} : Turn(w, to)
          \/ NextMessage(w) \/ Stop(w)
      BY <2>2 DEF RefuseMalformed, SelectDueEvents, PublishEvent, Acknowledge,
                  RetryLater
    <3>. QED BY <3>1, <3>2, TaskKeeps
  <2>3. CASE WorkerStops(w)
    <3>1. task'[w] # "deliver"
      BY <2>3 DEF WorkerStops, Stop, QueueTypeOK
    <3>2. held'[w] = {}
      BY <2>3 DEF WorkerStops, Crash, WorkerInv, vars, TypeOK
    <3>. QED BY <3>1, <3>2, WorkerFree
  <2>. QED BY <1>1, <2>1, <2>2, <2>3, ClaimEventKeeps, DeliverKeeps DEF HandleMessage
<1>2. ASSUME NEW w \in Workers,
             \/ EditRows \/ ClockTick \/ UNCHANGED qvars
             \/ \E m \in Messages :
                  \/ \E type \in ExternalTypes : SendExternal(m, type)
                  \/ Lapse(m) \/ Redrive(m) \/ Expire(m)
      PROVE  WorkerInv(w)'
  <2>1. UNCHANGED <<inbox, held, op, step, task>>
    BY <1>2 DEF EditRows, ClockTick, qvars, queueVars, batchVars, deliveryVars, vars,
                SendExternal, Lapse, Redrive, Expire
  <2>. QED BY <2>1, WorkerKept
<1>3. ASSUME NEW w \in Workers, NEW v \in Workers \ {w},
             \/ \E ids \in Batches : Receive(w, ids)
             \/ HandleMessage(w) \/ WorkerStops(w)
      PROVE  WorkerInv(v)'
  BY <1>3, OneWorkerMoves, WorkerKept
<1>. QED BY <1>1, <1>2, <1>3 DEF QueueNext

\* The invariant of the workflow and of every worker that runs it
QueueInv == IInv /\ QueueTypeOK /\ \A w \in Workers : WorkerInv(w)

\* It holds throughout.
LEMMA QueueInvariance == QueueSpec => []QueueInv
<1>1. QueueInit => \A w \in Workers : WorkerInv(w)
  BY DEF QueueInit, Init, WorkerInv
<1>2. (TypeOK /\ QueueTypeOK /\ \A w \in Workers : WorkerInv(w)) /\ [QueueNext]_qvars
        => (\A w \in Workers : WorkerInv(w))'
  BY WorkerStep
<1>3. QueueSpec => [](IInv /\ QueueTypeOK)
  BY QueueImplementsDelivery, Invariance, QueueTypeCorrect, PTL
<1>4. IInv => TypeOK
  BY DEF IInv
<1>. QED BY <1>1, <1>2, <1>3, <1>4, PTL DEF QueueSpec, QueueInv

\* An event is sent only under a message that names it, by a worker that handles
\* that message and no other claim, whatever is duplicated, lapses or crashes.
THEOREM ClaimsHaveMessages == QueueSpec => []ClaimsUnderMessage
<1>1. QueueInv => ExclusiveClaims /\ \A w \in Workers : WorkerInv(w)
  BY DEF QueueInv, IInv, Safe
<1>2. ASSUME ExclusiveClaims, \A w \in Workers : WorkerInv(w)
      PROVE  ClaimsUnderMessage
  <2>1. ASSUME NEW w \in Workers, NEW c \in held[w], NEW v \in Workers \ {w},
               Carries(v, c.event), task[v] = "deliver"
        PROVE  FALSE
    <3>1. PICK d \in held[v] : Carries(v, d.event)
      BY <1>2, <2>1 DEF WorkerInv
    <3>2. d.event = c.event
      <4>1. DeliverEvent(d.event) = DeliverEvent(c.event)
        BY <2>1, <3>1 DEF Carries
      <4>2. \A e : DeliverEvent(e).event = e
        BY DEF DeliverEvent
      <4>. QED BY <4>1, <4>2
    <3>. QED BY <1>2, <3>2 DEF ExclusiveClaims, Owns
  <2>. QED BY <1>2, <2>1 DEF ClaimsUnderMessage, WorkerInv
<1>. QED BY <1>1, <1>2, QueueInvariance, PTL

-----------------------------------------------------------------------------
(* A retry keeps its message *)

\* Until the first fault a receipt is the current one of a message in flight,
\* and no message has two receipts.
CurrentReceipts ==
  /\ \A w \in Workers : \A i \in DOMAIN inbox[w] :
       /\ message[inbox[w][i].id].state = "inflight"
       /\ message[inbox[w][i].id].body = inbox[w][i].body
       /\ message[inbox[w][i].id].receives = inbox[w][i].receive
  /\ \A w, v \in Workers : \A i \in DOMAIN inbox[w], j \in DOMAIN inbox[v] :
       inbox[w][i].id = inbox[v][j].id => w = v /\ i = j

\* A transient failure is recorded for a retry only if one can follow.
RetryIsEarly(w) ==
  step[w] = "record" /\ result[w].error = "QueueRetryable"
    => op[w].receive < MaxReceives

\* A message of the event that can be received again
Waiting(m, e) ==
  /\ message[m].state = "visible"
  /\ message[m].body = DeliverEvent(e)
  /\ message[m].receives < MaxReceives

\* A receipt of the event that its worker has yet to decide about, or hands back
\* to be received again
Unsettled(w, i, e) ==
  /\ inbox[w][i].body = DeliverEvent(e)
  /\ i = 1 => \/ task[w] = "none"
              \/ task[w] = "retry" /\ inbox[w][i].receive < MaxReceives

RetryFollows(e) ==
  PhaseOf(e) = "retrying" =>
    \/ \E m \in Messages : Waiting(m, e)
    \/ \E w \in Workers : \E i \in DOMAIN inbox[w] : Unsettled(w, i, e)

RetryInv ==
  /\ \A w \in Workers : RetryIsEarly(w)
  /\ faults = 0 => CurrentReceipts /\ \A e \in Events : RetryFollows(e)

\* A worker that records a transient failure has receives of its message left.
LEMMA RetryEarlyStep ==
  ASSUME TypeOK, QueueTypeOK, NEW w \in Workers, RetryIsEarly(w), [QueueNext]_qvars
  PROVE  RetryIsEarly(w)'
<1>. USE DEF RetryIsEarly
<1>0. /\ step \in [Workers -> {"idle", "weather", "send", "record"}]
      /\ op \in [Workers -> Call] /\ result \in [Workers -> Attempt]
  BY DEF TypeOK
<1>1. CASE UNCHANGED <<op[w], step[w], result[w]>>
  BY <1>1
<1>2. CASE HandleMessage(w)
  <2>1. CASE UNCHANGED vars
    BY <1>1, <2>1 DEF vars
  <2>2. ASSUME NEW call, NEW S, Begin(w, call, S) PROVE RetryIsEarly(w)'
    BY <1>0, <2>2 DEF Begin
  <2>3. ASSUME NEW c, Finish(w, c) PROVE RetryIsEarly(w)'
    BY <1>0, <2>3 DEF Finish
  <2>4. CASE GetWeather(w)
    BY <1>0, <2>4 DEF GetWeather, Proceed
  <2>5. CASE \E retryable \in BOOLEAN : WeatherFails(w, retryable)
    <3>1. PICK retryable \in BOOLEAN :
            Proceed(w, "record", Failed(WeatherErrorCode(w, retryable)))
      BY <2>5 DEF WeatherFails
    <3>2. WeatherErrorCode(w, retryable) = "QueueRetryable" => op[w].receive < MaxReceives
      BY DEF WeatherErrorCode
    <3>. QED BY <1>0, <3>1, <3>2 DEF Proceed, Failed
  <2>6. CASE SendDemo(w) \/ SendFails(w) \/ \E answered \in BOOLEAN : SendReal(w, answered)
    BY <1>0, <2>6 DEF SendDemo, SendFails, SendReal, Answer, Proceed, Failed,
       Submitted, Suppressed
  <2>7. ASSUME NEW at \in SampledTimes, ClaimEvent(w, at)
        PROVE  UNCHANGED vars \/ \E call, S : Begin(w, call, S)
    BY <2>7 DEF ClaimEvent, ProcessQueuedDelivery, ClaimLocked, ReclaimLocked
  <2>8. RecordOutcome(w) => \E c : Finish(w, c)
    BY DEF RecordOutcome, Record
  <2>9. \/ RefuseMalformed(w) \/ SelectDueEvents(w)
        \/ \E m \in Messages : PublishEvent(w, m)
        \/ Acknowledge(w) \/ RetryLater(w)
        => UNCHANGED vars
    BY DEF RefuseMalformed, SelectDueEvents, PublishEvent, Acknowledge, RetryLater
  <2>. QED
    BY <1>2, <2>1, <2>2, <2>3, <2>4, <2>5, <2>6, <2>7, <2>8, <2>9
       DEF HandleMessage, CallProviders
<1>3. CASE WorkerStops(w)
  BY <1>0, <1>1, <1>3 DEF WorkerStops, Crash, vars
<1>4. ASSUME NEW v \in Workers, v # w,
             \/ \E ids \in Batches : Receive(v, ids)
             \/ HandleMessage(v) \/ WorkerStops(v)
      PROVE  RetryIsEarly(w)'
  BY <1>1, <1>4, OneWorkerMoves
<1>5. CASE \/ EditRows \/ ClockTick \/ UNCHANGED qvars
           \/ \E m \in Messages :
                \/ \E type \in ExternalTypes : SendExternal(m, type)
                \/ Lapse(m) \/ Redrive(m) \/ Expire(m)
           \/ \E ids \in Batches : Receive(w, ids)
  BY <1>1, <1>5 DEF EditRows, ClockTick, qvars, vars, deliveryVars, SendExternal,
     Lapse, Redrive, Expire, Receive
<1>. QED BY <1>2, <1>3, <1>4, <1>5 DEF QueueNext

\* The queue touches a message in no worker's hands, which is not waiting for a
\* receive it can have.
Passed(m) ==
  /\ ~Handled(m)
  /\ message[m].state = "visible" => ~(message[m].receives < MaxReceives)
  /\ UNCHANGED inbox
  /\ \A n \in Messages \ {m} : message'[n] = message[n]

\* A worker settles its first message and goes on.
Settled(w) ==
  /\ inbox[w] # <<>>
  /\ NextMessage(w)
  /\ \A n \in Messages \ {First(w).id} : message'[n] = message[n]

\* Without a fault a receive, a settlement or the queue moves messages.
LEMMA MessageMoves ==
  ASSUME QueueTypeOK, CurrentReceipts, faults = 0, faults' = 0, [QueueNext]_qvars
  PROVE  \/ UNCHANGED <<message, inbox>>
         \/ \E m \in Messages : Passed(m)
         \/ \E w \in Workers : \E ids \in Batches : Receive(w, ids)
         \/ \E w \in Workers : Settled(w) /\ (Acknowledge(w) \/ RetryLater(w))
<1>. DEFINE Goal == \/ UNCHANGED <<message, inbox>>
                    \/ \E m \in Messages : Passed(m)
                    \/ \E w \in Workers : \E ids \in Batches : Receive(w, ids)
                    \/ \E w \in Workers : /\ Settled(w)
                                          /\ Acknowledge(w) \/ RetryLater(w)
<1>0. ~Fault /\ message \in [Messages -> Slot]
  BY DEF Fault, QueueTypeOK
<1>1. ASSUME NEW m \in Messages, NEW body, m \in Unused, Store(m, body), UNCHANGED inbox
      PROVE  Passed(m)
  BY <1>0, <1>1 DEF Passed, Unused, Store
<1>2. ASSUME NEW m \in Messages, Lapse(m) PROVE Passed(m)
  BY <1>0, <1>2 DEF Passed, Lapse, SetState, batchVars
<1>3. ASSUME NEW m \in Messages, Redrive(m) \/ Expire(m) PROVE Passed(m)
  <2>1. message[m].state # "inflight"
    BY <1>3 DEF Redrive, Expire
  <2>2. ~Handled(m)
    BY <2>1 DEF Handled, CurrentReceipts
  <2>3. message[m].state = "visible" => message[m].receives = MaxReceives
    BY <1>3 DEF Redrive, Expire
  <2>4. MaxReceives \in Nat
    BY DeliveryAssumption
  <2>. QED BY <1>0, <1>3, <2>2, <2>3, <2>4 DEF Passed, Redrive, Expire, SetState, batchVars
<1>4. ASSUME NEW w \in Workers, Acknowledge(w) \/ RetryLater(w) PROVE Settled(w)
  <2>1. inbox[w] # <<>>
    BY <1>4 DEF Acknowledge, RetryLater, QueueTypeOK
  <2>2. 1 \in DOMAIN inbox[w]
    BY <2>1 DEF QueueTypeOK
  <2>3. First(w).id \in Messages /\ message[First(w).id].state = "inflight"
    BY <2>1, <2>2, FirstReceipt DEF First, CurrentReceipts
  <2>4. NextMessage(w)
    BY <1>4, <2>3 DEF Acknowledge, RetryLater
  <2>5. \A n \in Messages \ {First(w).id} : message'[n] = message[n]
    BY <1>0, <1>4, <2>3 DEF Acknowledge, RetryLater, SetState
  <2>. QED BY <2>1, <2>4, <2>5 DEF Settled
<1>5. ASSUME NEW m \in Messages,
             \/ \E type \in ExternalTypes : SendExternal(m, type)
             \/ \E w \in Workers : PublishEvent(w, m)
      PROVE  Passed(m)
  BY <1>1, <1>5 DEF SendExternal, PublishEvent, batchVars
<1>6. ASSUME \/ EditRows \/ ClockTick \/ UNCHANGED qvars
             \/ \E w \in Workers :
                  \/ RefuseMalformed(w) \/ SelectDueEvents(w)
                  \/ \E at \in SampledTimes : ClaimEvent(w, at)
                  \/ CallProviders(w) \/ RecordOutcome(w)
      PROVE  UNCHANGED <<message, inbox>>
  BY <1>6 DEF EditRows, ClockTick, qvars, queueVars, batchVars, RefuseMalformed,
     SelectDueEvents, ClaimEvent, CallProviders, RecordOutcome
<1>7. ASSUME NEW w \in Workers, WorkerStops(w) PROVE FALSE
  BY <1>0, <1>7 DEF WorkerStops
<1>. QED
  BY <1>2, <1>3, <1>4, <1>5, <1>6, <1>7 DEF QueueNext, HandleMessage

\* What a receive puts into the worker's hands.
LEMMA Received ==
  ASSUME QueueTypeOK, NEW w \in Workers, NEW ids \in Batches, Receive(w, ids)
  PROVE  /\ inbox[w] = <<>> /\ task'[w] = "none"
         /\ \A v \in Workers \ {w} : inbox'[v] = inbox[v]
         /\ DOMAIN inbox'[w] = DOMAIN ids
         /\ \A i, j \in DOMAIN ids : ids[i] = ids[j] => i = j
         /\ \A i \in DOMAIN ids :
              /\ ids[i] \in Messages
              /\ message[ids[i]].state = "visible"
              /\ inbox'[w][i].id = ids[i]
              /\ inbox'[w][i].body = message[ids[i]].body
              /\ inbox'[w][i].receive = message[ids[i]].receives + 1
              /\ message'[ids[i]].state = "inflight"
              /\ message'[ids[i]].body = message[ids[i]].body
              /\ message'[ids[i]].receives = message[ids[i]].receives + 1
         /\ \A m \in Messages : (\A i \in DOMAIN ids : ids[i] # m) => message'[m] = message[m]
<1>1. \A i \in DOMAIN ids : ids[i] \in Messages /\ message[ids[i]] \in Slot
  <2>1. PICK n \in 1 .. ReceiveBatch : ids \in [1 .. n -> Messages]
    BY DEF Batches
  <2>2. message \in [Messages -> Slot]
    BY DEF QueueTypeOK
  <2>. QED BY <2>1, <2>2
<1>. DEFINE taken == [i \in DOMAIN ids |->
                        [id |-> ids[i], body |-> message[ids[i]].body,
                         receive |-> message[ids[i]].receives + 1]]
<1>2. inbox'[w] = taken /\ \A v \in Workers \ {w} : inbox'[v] = inbox[v]
  BY DEF Receive, QueueTypeOK
<1>3. inbox[w] = <<>> /\ task'[w] = "none"
  BY DEF Receive, QueueTypeOK
<1>4. ASSUME NEW i \in DOMAIN ids
      PROVE  /\ message'[ids[i]].state = "inflight"
             /\ message'[ids[i]].body = message[ids[i]].body
             /\ message'[ids[i]].receives = message[ids[i]].receives + 1
  <2>1. message'[ids[i]] =
          [message[ids[i]] EXCEPT !.state = "inflight", !.receives = @ + 1]
    BY <1>1 DEF Receive
  <2>. QED BY <1>1, <2>1 DEF Slot
<1>5. \A m \in Messages : (\A i \in DOMAIN ids : ids[i] # m) => message'[m] = message[m]
  BY DEF Receive
<1>6. /\ \A i \in DOMAIN ids : message[ids[i]].state = "visible"
      /\ \A i, j \in DOMAIN ids : ids[i] = ids[j] => i = j
  BY DEF Receive
<1>7. /\ DOMAIN taken = DOMAIN ids
      /\ \A i \in DOMAIN ids : /\ taken[i].id = ids[i]
                               /\ taken[i].body = message[ids[i]].body
                               /\ taken[i].receive = message[ids[i]].receives + 1
  OBVIOUS
<1>. HIDE DEF taken
<1>. QED BY <1>1, <1>2, <1>3, <1>4, <1>5, <1>6, <1>7

\* What is left of a worker's batch when it goes on.
LEMMA Rest ==
  ASSUME QueueTypeOK, NEW w \in Workers, inbox[w] # <<>>, NextMessage(w)
  PROVE  /\ \A v \in Workers \ {w} : inbox'[v] = inbox[v] /\ task'[v] = task[v]
         /\ task'[w] = "none"
         /\ 1 \in DOMAIN inbox[w] /\ First(w) = inbox[w][1]
         /\ \A i \in DOMAIN inbox'[w] :
              /\ i \in Nat \ {0}
              /\ i + 1 \in DOMAIN inbox[w] /\ inbox'[w][i] = inbox[w][i + 1]
         /\ \A i \in DOMAIN inbox[w] :
              i # 1 => i - 1 \in DOMAIN inbox'[w] /\ inbox'[w][i - 1] = inbox[w][i]
<1>1. inbox[w] \in Seq(Receipt) /\ inbox'[w] = Tail(inbox[w])
  BY DEF QueueTypeOK, NextMessage
<1>2. /\ \A v \in Workers \ {w} : inbox'[v] = inbox[v] /\ task'[v] = task[v]
      /\ task'[w] = "none"
  BY DEF QueueTypeOK, NextMessage
<1>. QED BY <1>1, <1>2 DEF First

\* Receipts stay current, and one per message, until the first fault.
LEMMA ReceiptsStep ==
  ASSUME QueueTypeOK, QueueTypeOK', CurrentReceipts, faults = 0, faults' = 0,
         [QueueNext]_qvars
  PROVE  CurrentReceipts'
<1>0. ASSUME NEW w \in Workers, NEW i \in DOMAIN inbox[w]
      PROVE  inbox[w][i].id \in Messages
  <2>1. inbox[w] \in Seq(Receipt)
    BY DEF QueueTypeOK
  <2>2. inbox[w][i] \in Receipt
    BY <2>1
  <2>. QED BY <2>2 DEF Receipt
<1>1. CASE UNCHANGED <<message, inbox>>
  BY <1>1 DEF CurrentReceipts
<1>2. ASSUME NEW m \in Messages, Passed(m) PROVE CurrentReceipts'
  <2>1. \A w \in Workers : \A i \in DOMAIN inbox[w] :
          message'[inbox[w][i].id] = message[inbox[w][i].id]
    BY <1>0, <1>2 DEF Passed, Handled
  <2>. QED BY <1>2, <2>1 DEF Passed, CurrentReceipts
<1>3. ASSUME NEW w \in Workers, NEW ids \in Batches, Receive(w, ids)
      PROVE  CurrentReceipts'
  <2>1. ASSUME NEW v \in Workers, v # w, NEW j \in DOMAIN inbox[v]
        PROVE  /\ \A i \in DOMAIN ids : ids[i] # inbox[v][j].id
               /\ message'[inbox[v][j].id] = message[inbox[v][j].id]
    BY <1>0, <1>3, <2>1, Received DEF CurrentReceipts
  <2>2. ASSUME NEW v \in Workers, NEW i \in DOMAIN inbox'[v]
        PROVE  /\ message'[inbox'[v][i].id].state = "inflight"
               /\ message'[inbox'[v][i].id].body = inbox'[v][i].body
               /\ message'[inbox'[v][i].id].receives = inbox'[v][i].receive
    <3>1. CASE v = w
      BY <1>3, <2>2, <3>1, Received
    <3>2. CASE v # w
      BY <1>3, <2>1, <2>2, <3>2, Received DEF CurrentReceipts
    <3>. QED BY <3>1, <3>2
  <2>3. ASSUME NEW u \in Workers, NEW v \in Workers,
               NEW i \in DOMAIN inbox'[u], NEW j \in DOMAIN inbox'[v],
               inbox'[u][i].id = inbox'[v][j].id
        PROVE  u = v /\ i = j
    <3>1. CASE u = w /\ v = w
      BY <1>3, <2>3, <3>1, Received
    <3>2. CASE u # w /\ v # w
      BY <1>3, <2>3, <3>2, Received DEF CurrentReceipts
    <3>3. CASE (u = w /\ v # w) \/ (u # w /\ v = w)
      BY <1>3, <2>1, <2>3, <3>3, Received
    <3>. QED BY <3>1, <3>2, <3>3
  <2>. QED BY <2>2, <2>3 DEF CurrentReceipts
<1>4. ASSUME NEW w \in Workers, Settled(w) PROVE CurrentReceipts'
  <2>. DEFINE At(v, i) == IF v = w THEN i + 1 ELSE i
  <2>1. ASSUME NEW v \in Workers, NEW i \in DOMAIN inbox'[v]
        PROVE  /\ At(v, i) \in DOMAIN inbox[v] /\ inbox'[v][i] = inbox[v][At(v, i)]
               /\ i \in Nat
               /\ message'[inbox'[v][i].id] = message[inbox'[v][i].id]
    <3>1. i \in Nat
      BY <2>1 DEF QueueTypeOK
    <3>2. /\ At(v, i) \in DOMAIN inbox[v] /\ inbox'[v][i] = inbox[v][At(v, i)]
          /\ v = w => At(v, i) # 1
      BY <1>4, <2>1, Rest DEF Settled
    <3>3. inbox'[v][i].id # First(w).id
      <4>. HIDE DEF At
      <4>. QED BY <1>4, <3>2, Rest DEF Settled, CurrentReceipts
    <3>. QED BY <1>0, <1>4, <3>1, <3>2, <3>3 DEF Settled
  <2>2. ASSUME NEW v \in Workers, NEW i \in DOMAIN inbox'[v]
        PROVE  /\ message'[inbox'[v][i].id].state = "inflight"
               /\ message'[inbox'[v][i].id].body = inbox'[v][i].body
               /\ message'[inbox'[v][i].id].receives = inbox'[v][i].receive
    <3>. HIDE DEF At
    <3>. QED BY <2>1, <2>2 DEF CurrentReceipts
  <2>3. ASSUME NEW u \in Workers, NEW v \in Workers,
               NEW i \in DOMAIN inbox'[u], NEW j \in DOMAIN inbox'[v],
               inbox'[u][i].id = inbox'[v][j].id
        PROVE  u = v /\ i = j
    <3>1. u = v /\ At(u, i) = At(v, j)
      <4>. HIDE DEF At
      <4>. QED BY <2>1, <2>3 DEF CurrentReceipts
    <3>. QED BY <2>1, <2>3, <3>1
  <2>. QED BY <2>2, <2>3 DEF CurrentReceipts
<1>. QED BY <1>1, <1>2, <1>3, <1>4, MessageMoves

\* A claim for a message is one of the ways to claim, whatever the worker may send.
LEMMA QueuedClaimIsWork ==
  ASSUME NEW w \in Workers, NEW e \in Events, NEW receive \in 1 .. MaxReceives,
         NEW at \in SampledTimes,
         ProcessQueuedDelivery(w, e, receive, w \in RealWorkers, at)
  PROVE  ClaimWork(w)
<1>1. ASSUME NEW real \in BOOLEAN, ProcessQueuedDelivery(w, e, receive, real, at)
      PROVE  ClaimWork(w)
  BY <1>1 DEF ClaimWork
<1>2. (w \in RealWorkers) \in BOOLEAN
  OBVIOUS
<1>. QED BY <1>1, <1>2

\* An event starts to wait for a retry when its failure is recorded under its
\* message.
LEMMA RetryBegins ==
  ASSUME QueueInv, NEW e \in Events, [QueueNext]_qvars,
         PhaseOf(e) # "retrying", PhaseOf(e)' = "retrying"
  PROVE  \E w \in Workers :
           /\ RecordOutcome(w)
           /\ Carries(w, e)
           /\ step[w] = "record" /\ result[w].error = "QueueRetryable"
           /\ op[w].receive = First(w).receive
<1>. USE DEF QueueInv, IInv, TypeOK, SchedulingTypeOK
<1>a. status'[e] \in Statuses
  <2>1. TypeOK'
    BY QueueStepIsDeliveryStep, NextType
  <2>. QED BY <2>1
<1>0. /\ status'[e] = "processing" /\ ~LatestIs(e, Open)'
      /\ ~(status[e] = "processing" /\ ~LatestIs(e, Open))
  BY <1>a DEF PhaseOf, LatestIs, Latest, Statuses, Terminal
<1>1. ASSUME UNCHANGED <<status[e], attempts[e]>> PROVE FALSE
  BY <1>0, <1>1 DEF LatestIs, Latest
<1>2. ASSUME EditEvent \/ Tick, UNCHANGED attempts PROVE FALSE
  <2>1. status'[e] = "processing" => status[e] = "processing"
    BY <1>2 DEF EditEvent, Tick, CreateScheduledEvent, CancelScheduledEvent,
       RescheduleScheduledEvent, ChangeScheduledEventChannel, rowVars
  <2>. QED BY <1>0, <1>2, <2>1 DEF LatestIs, Latest
<1>3. ASSUME NEW w \in Workers, ClaimWork(w) PROVE FALSE
  <2>1. ASSUME NEW call, NEW S \in SUBSET Events, NEW missed \in SUBSET S,
               ClaimLocked(w, call, S, missed)
        PROVE  FALSE
    <3>1. e \notin missed
      BY <1>0, <2>1 DEF ClaimLocked
    <3>2. e \notin S => UNCHANGED <<status[e], attempts[e]>>
      BY <2>1, <3>1 DEF ClaimLocked
    <3>3. e \in S => attempts'[e] = Append(attempts[e], Open)
      BY <2>1, <3>1 DEF ClaimLocked
    <3>. QED BY <1>0, <1>1, <3>2, <3>3, AppendAttempt, AttemptTypes DEF LatestIs, Latest
  <2>2. ASSUME NEW call, NEW f \in Events, ReclaimLocked(w, call, f) PROVE FALSE
    <3>1. status'[e] = status[e]
      BY <2>2 DEF ReclaimLocked, schedulingVars
    <3>2. e # f => attempts'[e] = attempts[e]
      BY <2>2 DEF ReclaimLocked
    <3>3. e = f => attempts'[e] = Append(attempts[e], Open)
      BY <2>2 DEF ReclaimLocked
    <3>. QED BY <1>0, <1>1, <3>1, <3>2, <3>3, AppendAttempt, AttemptTypes DEF LatestIs, Latest
  <2>. QED BY <1>3, <2>1, <2>2, ClaimWorkCases
<1>4. ASSUME NEW w \in Workers, RecordOutcome(w)
      PROVE  /\ Carries(w, e)
             /\ step[w] = "record" /\ result[w].error = "QueueRetryable"
             /\ op[w].receive = First(w).receive
  <2>1. PICK c \in Current(w, "record") :
          /\ attempts' = [attempts EXCEPT ![c.event] =
                            [@ EXCEPT ![c.number] = result[w]]]
          /\ status' = IF result[w].error = "QueueRetryable" THEN status
                       ELSE [status EXCEPT ![c.event] = result[w].status]
    BY <1>4 DEF RecordOutcome, Record
  <2>2. c \in held[w] /\ c.event \in Events /\ step[w] = "record"
    BY DEF Current, Claim
  <2>3. c.event = e
    <3>1. ASSUME c.event # e PROVE attempts'[e] = attempts[e]
      BY <2>1, <2>2, <3>1
    <3>2. ASSUME c.event # e PROVE status'[e] = status[e]
      BY <2>1, <2>2, <3>2
    <3>. QED BY <1>1, <3>1, <3>2
  <2>4. result[w].status # "processing"
    <3>1. Truthful(w, c)
      BY <2>2 DEF Safe, OutcomeIsTruthful
    <3>2. result[w] \in {Submitted, Suppressed} \/ result[w].status = "failed"
      BY <3>1 DEF Truthful
    <3>. QED BY <3>2 DEF Submitted, Suppressed
  <2>5. result[w].error = "QueueRetryable"
    BY <1>0, <2>1, <2>3, <2>4
  <2>. QED BY <2>2, <2>3, <2>5 DEF WorkerInv
<1>5. ASSUME NEW w \in Workers, HandleMessage(w), ~RecordOutcome(w)
      PROVE  FALSE
  <2>1. ASSUME NEW at \in SampledTimes, ClaimEvent(w, at) PROVE UNCHANGED vars \/ ClaimWork(w)
    <3>1. CASE UNCHANGED vars
      BY <3>1
    <3>2. CASE ProcessQueuedDelivery(w, First(w).body.event, First(w).receive,
                                     w \in RealWorkers, at)
      <4>1. First(w).body.event \in Events /\ First(w).receive \in 1 .. MaxReceives
        BY <2>1, FirstReceipt DEF ClaimEvent, Opens
      <4>. QED BY <3>2, <4>1, QueuedClaimIsWork
    <3>. QED BY <2>1, <3>1, <3>2 DEF ClaimEvent
  <2>2. CASE CallProviders(w)
    BY <1>1, <2>2 DEF CallProviders, GetWeather, WeatherFails, SendDemo, SendFails,
       SendReal, Proceed, schedulingVars
  <2>3. CASE \/ RefuseMalformed(w) \/ SelectDueEvents(w)
             \/ \E m \in Messages : PublishEvent(w, m)
             \/ Acknowledge(w) \/ RetryLater(w)
    BY <1>1, <2>3 DEF RefuseMalformed, SelectDueEvents, PublishEvent, Acknowledge,
       RetryLater, vars
  <2>4. ~UNCHANGED vars
    BY <1>1 DEF vars
  <2>. QED BY <1>3, <1>5, <2>1, <2>2, <2>3, <2>4 DEF HandleMessage
<1>6. CASE \/ EditRows \/ ClockTick \/ UNCHANGED qvars
           \/ \E m \in Messages :
                \/ \E type \in ExternalTypes : SendExternal(m, type)
                \/ Lapse(m) \/ Redrive(m) \/ Expire(m)
           \/ \E w \in Workers : \E ids \in Batches : Receive(w, ids)
           \/ \E w \in Workers : WorkerStops(w)
  BY <1>1, <1>2, <1>6 DEF EditRows, ClockTick, qvars, vars, deliveryVars, SendExternal,
     Lapse, Redrive, Expire, Receive, WorkerStops, Crash, schedulingVars
<1>. QED BY <1>4, <1>5, <1>6 DEF QueueNext

\* A worker that decides about a message of such an event claims it again.
LEMMA RetryEnds ==
  ASSUME QueueInv, NEW e \in Events, PhaseOf(e) = "retrying",
         NEW w \in Workers, NEW at \in SampledTimes, ClaimEvent(w, at), Carries(w, e)
  PROVE  PhaseOf(e)' # "retrying"
<1>. USE DEF QueueInv, IInv, TypeOK, SchedulingTypeOK
<1>1. status[e] = "processing" /\ ~LatestIs(e, Open)
  BY DEF PhaseOf, LatestIs, Latest, Statuses, Terminal
<1>2. LatestIs(e, Failed("QueueRetryable"))
  <2>1. AttemptsMatch(e)
    BY DEF Safe, AttemptsMatchRow
  <2>2. attempts[e] # <<>> /\ Latest(e) \in {Open, Failed("QueueRetryable")}
    BY <1>1, <2>1 DEF AttemptsMatch
  <2>. QED BY <1>1, <2>2 DEF LatestIs
<1>3. First(w).body.event = e
  BY DEF Carries, DeliverEvent
<1>4. QueuedDecision(e, w \in RealWorkers, at) = "reclaim"
  BY <1>1, <1>2 DEF QueuedDecision, RetryDecision, Terminal
<1>5. \E call : ReclaimLocked(w, call, e)
  BY <1>3, <1>4 DEF ClaimEvent, ProcessQueuedDelivery
<1>6. status'[e] = status[e] /\ attempts'[e] = Append(attempts[e], Open)
  BY <1>5 DEF ReclaimLocked, schedulingVars
<1>7. LatestIs(e, Open)'
  <2>1. attempts[e] \in Seq(Attempt) /\ Open \in Attempt
    BY AttemptTypes
  <2>2. attempts'[e] # <<>> /\ attempts'[e][Len(attempts'[e])] = Open
    BY <1>6, <2>1, AppendAttempt
  <2>. QED BY <2>2 DEF LatestIs, Latest
<1>8. status'[e] = "processing"
  BY <1>1, <1>6
<1>9. PhaseOf(e)' = "sending"
  BY <1>7, <1>8 DEF PhaseOf, LatestIs, Latest
<1>. HIDE DEF QueueInv, IInv, TypeOK, SchedulingTypeOK
<1>. QED BY <1>9

\* A message that waits is received, or goes on waiting.
LEMMA WaitingStep ==
  ASSUME QueueTypeOK, QueueTypeOK', CurrentReceipts, faults = 0, faults' = 0,
         [QueueNext]_qvars, NEW e, NEW m \in Messages, Waiting(m, e)
  PROVE  \/ Waiting(m, e)'
         \/ \E w \in Workers : \E i \in DOMAIN inbox'[w] : Unsettled(w, i, e)'
<1>1. CASE message'[m] = message[m]
  BY <1>1 DEF Waiting
<1>2. ASSUME NEW n \in Messages, Passed(n) PROVE message'[m] = message[m]
  BY <1>2 DEF Passed, Waiting
<1>3. ASSUME NEW w \in Workers, NEW ids \in Batches, Receive(w, ids),
             message'[m] # message[m]
      PROVE  \E i \in DOMAIN inbox'[w] : Unsettled(w, i, e)'
  <2>1. PICK i \in DOMAIN ids : ids[i] = m
    BY <1>3, Received
  <2>. QED BY <1>3, <2>1, Received DEF Unsettled, Waiting
<1>4. ASSUME NEW w \in Workers, Settled(w) PROVE message'[m] = message[m]
  <2>1. message[First(w).id].state = "inflight"
    BY <1>4, Rest DEF Settled, CurrentReceipts
  <2>. QED BY <1>4, <2>1 DEF Settled, Waiting
<1>. QED BY <1>1, <1>2, <1>3, <1>4, MessageMoves

\* A worker hands a message back, or goes on to it, but does not drop it.
LEMMA UnsettledStep ==
  ASSUME QueueInv, QueueTypeOK', CurrentReceipts, faults = 0, faults' = 0,
         [QueueNext]_qvars, NEW e \in Events, PhaseOf(e) = "retrying",
         PhaseOf(e)' = "retrying",
         NEW w \in Workers, NEW i \in DOMAIN inbox[w], Unsettled(w, i, e)
  PROVE  \/ \E m \in Messages : Waiting(m, e)'
         \/ \E j \in DOMAIN inbox'[w] : Unsettled(w, j, e)'
<1>. DEFINE Goal == \/ \E m \in Messages : Waiting(m, e)'
                    \/ \E j \in DOMAIN inbox'[w] : Unsettled(w, j, e)'
<1>0. TypeOK /\ QueueTypeOK /\ ~Fault
  BY DEF QueueInv, IInv, Fault, QueueTypeOK
<1>1. CASE UNCHANGED <<inbox[w], task[w]>>
  BY <1>1 DEF Unsettled
<1>2. ASSUME NEW v \in Workers, v # w,
             \/ \E ids \in Batches : Receive(v, ids)
             \/ HandleMessage(v) \/ WorkerStops(v)
      PROVE  Goal
  BY <1>0, <1>1, <1>2, OneWorkerMoves
<1>3. CASE \/ EditRows \/ ClockTick \/ UNCHANGED qvars
           \/ \E m \in Messages :
                \/ \E type \in ExternalTypes : SendExternal(m, type)
                \/ Lapse(m) \/ Redrive(m) \/ Expire(m)
  BY <1>1, <1>3 DEF EditRows, ClockTick, qvars, queueVars, batchVars, SendExternal,
     Lapse, Redrive, Expire
<1>4. ~WorkerStops(w)
  BY <1>0 DEF WorkerStops
<1>5. inbox[w] # <<>>
  BY <1>0 DEF QueueTypeOK
<1>6. ~ \E ids \in Batches : Receive(w, ids)
  BY <1>5 DEF Receive
<1>a. HandleMessage(w) \/ Goal
  BY <1>2, <1>3, <1>4, <1>6 DEF QueueNext
<1>7. CASE i # 1
  <2>1. ASSUME UNCHANGED inbox PROVE Goal
    BY <1>7, <2>1 DEF Unsettled
  <2>2. ASSUME Acknowledge(w) \/ RetryLater(w) PROVE Goal
    <3>1. NextMessage(w)
      <4>1. message[First(w).id].state = "inflight"
        BY <1>0, <1>5 DEF First, CurrentReceipts, QueueTypeOK
      <4>. QED BY <2>2, <4>1 DEF Acknowledge, RetryLater
    <3>2. /\ i - 1 \in DOMAIN inbox'[w] /\ inbox'[w][i - 1] = inbox[w][i]
          /\ task'[w] = "none"
      BY <1>0, <1>5, <1>7, <3>1, Rest
    <3>. QED BY <3>2 DEF Unsettled
  <2>3. HandleMessage(w) => UNCHANGED inbox \/ Acknowledge(w) \/ RetryLater(w)
    BY DEF HandleMessage, RefuseMalformed, SelectDueEvents, PublishEvent, ClaimEvent,
       CallProviders, RecordOutcome, queueVars, batchVars
  <2>. QED BY <1>a, <2>1, <2>2, <2>3
<1>8. CASE i = 1
  <2>1. /\ Carries(w, e) /\ First(w) = inbox[w][i]
        /\ \/ task[w] = "none"
           \/ task[w] = "retry" /\ First(w).receive < MaxReceives
        /\ First(w).body.type = "deliver_scheduled_event"
    BY <1>5, <1>8 DEF Unsettled, Carries, First, DeliverEvent
  <2>2. ASSUME HandleMessage(w) PROVE task[w] = "retry" /\ RetryLater(w)
    <3>1. ASSUME NEW at \in SampledTimes PROVE ~ClaimEvent(w, at)
      BY <2>1, RetryEnds
    <3>2. ~RefuseMalformed(w) /\ ~SelectDueEvents(w)
      BY <2>1 DEF RefuseMalformed, SelectDueEvents, Opens
    <3>3. ~ \E m \in Messages : PublishEvent(w, m)
      BY <2>1 DEF PublishEvent
    <3>4. ~CallProviders(w) /\ ~RecordOutcome(w) /\ ~Acknowledge(w)
      BY <2>1 DEF CallProviders, RecordOutcome, Acknowledge
    <3>5. RetryLater(w) => task[w] = "retry"
      BY DEF RetryLater
    <3>. QED BY <2>2, <3>1, <3>2, <3>3, <3>4, <3>5 DEF HandleMessage
  <2>0. PICK m \in Messages : m = First(w).id
    BY <1>0, <1>5, FirstReceipt
  <2>3. ASSUME task[w] = "retry", RetryLater(w) PROVE Waiting(m, e)'
    <3>0. message[m] \in Slot
      BY <1>0 DEF QueueTypeOK
    <3>1. /\ message[m].state = "inflight"
          /\ message[m].body = DeliverEvent(e)
          /\ message[m].receives = First(w).receive
      BY <2>0, <2>1 DEF CurrentReceipts, Carries
    <3>2. message' = [message EXCEPT ![m] = [@ EXCEPT !.state = "visible"]]
      BY <2>0, <2>3, <3>1 DEF RetryLater, IsCurrent, SetState
    <3>3. message'[m] = [message[m] EXCEPT !.state = "visible"]
      BY <1>0, <3>2 DEF QueueTypeOK
    <3>4. /\ message'[m].state = "visible"
          /\ message'[m].body = message[m].body
          /\ message'[m].receives = message[m].receives
      BY <3>0, <3>3 DEF Slot
    <3>. QED BY <2>1, <2>3, <3>1, <3>4 DEF Waiting
  <2>5. HandleMessage(w) => Goal
    BY <2>2, <2>3
  <2>. QED BY <1>a, <2>5
<1>. QED BY <1>7, <1>8

\* The failure that starts the wait leaves its message to be handed back; after
\* that the message passes from the queue to a worker and back.
LEMMA RetryFollowsStep ==
  ASSUME QueueInv, QueueTypeOK', \A w \in Workers : RetryIsEarly(w), CurrentReceipts,
         faults = 0, faults' = 0, [QueueNext]_qvars, NEW e \in Events, RetryFollows(e)
  PROVE  RetryFollows(e)'
<1>0. TypeOK /\ QueueTypeOK
  BY DEF QueueInv, IInv
<1>1. ASSUME PhaseOf(e) # "retrying", PhaseOf(e)' = "retrying" PROVE RetryFollows(e)'
  <2>1. PICK w \in Workers :
          /\ RecordOutcome(w)
          /\ Carries(w, e)
          /\ step[w] = "record" /\ result[w].error = "QueueRetryable"
          /\ op[w].receive = First(w).receive
    BY <1>1, RetryBegins
  <2>2. op[w].receive < MaxReceives
    BY <2>1 DEF RetryIsEarly
  <2>3. 1 \in DOMAIN inbox[w]
    BY <1>0, <2>1 DEF Carries, QueueTypeOK
  <2>4. inbox' = inbox /\ task'[w] = "retry"
    BY <1>0, <2>1 DEF RecordOutcome, Turn, ActionAfter, QueueTypeOK
  <2>5. Unsettled(w, 1, e)'
    BY <2>1, <2>2, <2>4 DEF Unsettled, Carries, First
  <2>. QED BY <2>3, <2>4, <2>5 DEF RetryFollows
<1>2. ASSUME PhaseOf(e) = "retrying", PhaseOf(e)' = "retrying",
             NEW m \in Messages, Waiting(m, e)
      PROVE  RetryFollows(e)'
  BY <1>0, <1>2, WaitingStep DEF RetryFollows
<1>3. ASSUME PhaseOf(e) = "retrying", PhaseOf(e)' = "retrying",
             NEW w \in Workers, NEW i \in DOMAIN inbox[w], Unsettled(w, i, e)
      PROVE  RetryFollows(e)'
  BY <1>3, UnsettledStep DEF RetryFollows
<1>4. ASSUME PhaseOf(e)' # "retrying" PROVE RetryFollows(e)'
  BY <1>4 DEF RetryFollows
<1>. QED BY <1>1, <1>2, <1>3, <1>4 DEF RetryFollows

\* The invariant of the retries, from the invariant of the workers.
LEMMA RetryInvariance == QueueSpec => []RetryInv
<1>1. QueueInit => RetryInv
  <2>. SUFFICES ASSUME QueueInit PROVE RetryInv
    OBVIOUS
  <2>1. \A w \in Workers : step[w] = "idle" /\ inbox[w] = <<>>
    BY DEF QueueInit, Init
  <2>2. \A e \in Events : PhaseOf(e) # "retrying"
    BY DEF QueueInit, Init, SchedulingInit, PhaseOf, LatestIs, Latest
  <2>. QED BY <2>1, <2>2 DEF RetryInv, RetryIsEarly, CurrentReceipts, RetryFollows
<1>2. QueueInv /\ QueueInv' /\ RetryInv /\ [QueueNext]_qvars => RetryInv'
  <2>. SUFFICES ASSUME QueueInv, QueueInv', RetryInv, [QueueNext]_qvars
                PROVE  RetryInv'
    OBVIOUS
  <2>1. TypeOK /\ QueueTypeOK /\ QueueTypeOK'
    BY DEF QueueInv, IInv
  <2>2. \A w \in Workers : RetryIsEarly(w)
    BY DEF RetryInv
  <2>3. \A w \in Workers : RetryIsEarly(w)'
    BY <2>1, <2>2, RetryEarlyStep
  <2>4. ASSUME faults' = 0 PROVE faults = 0
    <3>1. faults \in Nat /\ faults' \in Nat
      BY <2>1, QueueAssumption DEF QueueTypeOK
    <3>2. faults' = faults \/ faults' = faults + 1
      BY DEF QueueNext, EditRows, ClockTick, qvars, queueVars, SendExternal, Lapse,
         Redrive, Expire, Receive, HandleMessage, RefuseMalformed, SelectDueEvents,
         PublishEvent, ClaimEvent, CallProviders, RecordOutcome, Acknowledge,
         RetryLater, WorkerStops, Fault
    <3>. QED BY <2>4, <3>1, <3>2
  <2>5. ASSUME faults' = 0 PROVE CurrentReceipts' /\ \A e \in Events : RetryFollows(e)'
    <3>1. faults = 0 /\ CurrentReceipts /\ \A e \in Events : RetryFollows(e)
      BY <2>4, <2>5 DEF RetryInv
    <3>2. CurrentReceipts'
      BY <2>1, <2>5, <3>1, ReceiptsStep
    <3>3. ASSUME NEW e \in Events PROVE RetryFollows(e)'
      BY <2>1, <2>2, <2>5, <3>1, RetryFollowsStep
    <3>. QED BY <3>2, <3>3
  <2>. QED BY <2>3, <2>5 DEF RetryInv
<1>. QED BY <1>1, <1>2, QueueInvariance, PTL DEF QueueSpec

\* An event whose transient failure is recorded keeps a message that a worker will
\* receive, or decide about, once more: process_queued_delivery hands the message
\* back instead of deleting it, and does so only while the redrive policy leaves it
\* another receive.  A crash, or a batch that outlasts its visibility timeout, may
\* break this: the theorem holds until the first fault.
THEOREM RetryKeepsMessage == QueueSpec => []RetryKeepsMessageUntilFault
<1>1. QueueInv /\ RetryInv => RetryKeepsMessageUntilFault
  <2>. SUFFICES ASSUME RetryInv, faults = 0, NEW e \in Events, PhaseOf(e) = "retrying"
                PROVE  HasMessage(e)
    BY DEF RetryKeepsMessageUntilFault, RetryHasMessage
  <2>1. \/ \E m \in Messages : Waiting(m, e)
        \/ \E w \in Workers : \E i \in DOMAIN inbox[w] : Unsettled(w, i, e)
    BY DEF RetryInv, RetryFollows
  <2>2. ASSUME NEW m \in Messages, Waiting(m, e) PROVE HasMessage(e)
    BY <2>2 DEF Waiting, HasMessage, Stored
  <2>3. ASSUME NEW w \in Workers, NEW i \in DOMAIN inbox[w], Unsettled(w, i, e)
        PROVE  HasMessage(e)
    BY <2>3 DEF Unsettled, HasMessage
  <2>. QED BY <2>1, <2>2, <2>3
<1>. QED BY <1>1, QueueInvariance, RetryInvariance, PTL

\* Without faults the event keeps its message for good.
THEOREM RetryKeepsMessageWithoutFaults ==
  ASSUME MaxFaults = 0
  PROVE  QueueSpec => []RetryHasMessage
<1>1. QueueInv => faults = 0
  BY QueueAssumption DEF QueueInv, QueueTypeOK
<1>2. faults = 0 /\ RetryKeepsMessageUntilFault => RetryHasMessage
  BY DEF RetryKeepsMessageUntilFault
<1>. QED BY <1>1, <1>2, QueueInvariance, RetryKeepsMessage, PTL
=============================================================================
