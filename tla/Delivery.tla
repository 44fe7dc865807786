------------------------------ MODULE Delivery ------------------------------
(***************************************************************************)
(* The delivery workflow of apps/delivery/services.py over the event rows  *)
(* of Scheduling: claim a due event under its row lock, call the weather   *)
(* provider and the message sender outside any transaction, and record the *)
(* outcome in a second transaction.                                        *)
(*                                                                         *)
(* Three callers run this code at once: the one-event commands (kind       *)
(* "direct"), the batch dispatcher ("dispatch") and the SQS worker         *)
(* ("queue").  Here a queue call may name any event, any receive count and *)
(* either worker configuration at any moment, so what holds here holds for *)
(* every duplication, delay and order of messages; QueueDelivery adds the  *)
(* queue itself.  An executor may crash between any two steps.             *)
(***************************************************************************)
EXTENDS Scheduling, FiniteSets, Sequences

CONSTANTS
  Workers,      \* processes that execute deliveries
  Grace,        \* DELIVERY_MISSED_GRACE_MINUTES, in units of the clock
  BatchSize,    \* DELIVERY_DISPATCH_BATCH_SIZE
  MaxReceives,  \* DELIVERY_QUEUE_MAX_RECEIVES
  MaxLockWait,  \* longest wait for a row lock after `now` was sampled
  MaxAttempts   \* bound on DeliveryAttempt.attempt_number, a small integer

ASSUME DeliveryAssumption ==
  /\ Grace \in Nat
  /\ MaxLockWait \in Nat
  /\ BatchSize \in Nat \ {0}
  /\ MaxReceives \in Nat \ {0}
  /\ MaxAttempts \in Nat \ {0}

VARIABLES
  attempts,  \* the DeliveryAttempt rows of each event, by attempt_number
  calls,     \* history: the channel of each request the provider accepted
  op,        \* the call each worker is in: its kind and arguments
  held,      \* the ClaimedDelivery objects of that call not finished yet
  step,      \* what the worker does next for the first of them
  result     \* the outcome it is about to record

workerVars   == <<op, held, step, result>>
deliveryVars == <<attempts, calls, op, held, step, result>>
vars         == <<now, status, scheduledFor, channel,
                  attempts, calls, op, held, step, result>>

-----------------------------------------------------------------------------
(* Types and state predicates *)

Errors ==
  {"none", "MissedDeliveryWindow", "WeatherError", "QueueRetryable",
   "RetryExhausted", "MessageSenderNotConfigured", "SenderError"}

\* What of a DeliveryAttempt row the code ever decides on: status, error_code.
Attempt ==
  [status : {"processing", "submitted", "failed", "suppressed"},
   error  : Errors]

Open         == [status |-> "processing", error |-> "none"]
Failed(code) == [status |-> "failed",     error |-> code]
Submitted    == [status |-> "submitted",  error |-> "none"]
Suppressed   == [status |-> "suppressed", error |-> "none"]

\* A ClaimedDelivery: the attempt, and the event as loaded under the lock.
Claim == [event : Events, number : Nat, due : Times, channel : Channels]

Call == [kind : {"none", "direct", "dispatch", "queue"},
         real : BOOLEAN, receive : 0 .. MaxReceives]

Idle == [kind |-> "none", real |-> FALSE, receive |-> 0]

\* Every variable is a value the code can build: an attempt row has one of the
\* codes of Errors, a claim is a row as loaded under the lock.
TypeOK ==
  /\ SchedulingTypeOK
  /\ attempts \in [Events -> Seq(Attempt)]
  /\ calls \in [Events -> Seq(Channels)]
  /\ op \in [Workers -> Call]
  /\ held \in [Workers -> SUBSET Claim]
  /\ step \in [Workers -> {"idle", "weather", "send", "record"}]
  /\ result \in [Workers -> Attempt]

Latest(e) == attempts[e][Len(attempts[e])]

LatestIs(e, attempt) == attempts[e] # <<>> /\ Latest(e) = attempt

\* delivery_time is read before the row lock is waited for.
SampledTimes == {t \in Times : t <= now /\ now <= t + MaxLockWait}

\* Mutant of Due: the time is not compared.
DueAnytime(real, at) ==
  {e \in Events : status[e] = "scheduled" /\ (real \/ e \in DemoEvents)}

\* The filter of both selections: due, and demo unless real is included.
Due(real, at) ==
  {e \in Events : /\ status[e] = "scheduled"
                  /\ scheduledFor[e] <= at
                  /\ real \/ e \in DemoEvents}

\* ORDER BY scheduled_for, id LIMIT n
Oldest(S, n) == {e \in S : Cardinality({f \in S : Before(f, e)}) < n}

Overdue(e, at) == scheduledFor[e] + Grace < at

-----------------------------------------------------------------------------
(* Claiming *)

\* _create_attempt_locked numbers the attempt count() + 1.
ClaimOf(e) == [event |-> e, number |-> Len(attempts[e]) + 1,
               due |-> scheduledFor[e], channel |-> channel[e]]

\* The worker enters `call` with the claims of S, or stays idle without any.
Begin(w, call, S) ==
  /\ held' = [held EXCEPT ![w] = {ClaimOf(e) : e \in S}]
  /\ step' = [step EXCEPT ![w] = IF S = {} THEN "idle" ELSE "weather"]
  /\ op' = [op EXCEPT ![w] = IF S = {} THEN Idle ELSE call]
  /\ UNCHANGED <<result, calls>>

\* One transaction: _claim_locked_event on every event of S, and
\* _record_missed_locked on those beyond the grace period.
ClaimLocked(w, call, S, missed) ==
  /\ status' = [e \in Events |-> IF e \in missed THEN "failed"
                                 ELSE IF e \in S THEN "processing"
                                 ELSE status[e]]
  /\ attempts' = [e \in Events |->
                    IF e \in missed
                    THEN Append(attempts[e], Failed("MissedDeliveryWindow"))
                    ELSE IF e \in S THEN Append(attempts[e], Open)
                    ELSE attempts[e]]
  /\ Begin(w, call, S \ missed)
  /\ UNCHANGED <<now, scheduledFor, channel>>

\* deliver_scheduled_event: no grace period.  The callers pass a sender
\* exactly when the event is real.
DeliverScheduledEvent(w, e) ==
  /\ step[w] = "idle"
  /\ status[e] = "scheduled"
  /\ \E at \in SampledTimes : scheduledFor[e] <= at
  /\ ClaimLocked(w, [kind |-> "direct", real |-> e \notin DemoEvents,
                     receive |-> 0], {e}, {})

\* claim_due_delivery_batch; `skipped` are the rows other transactions lock.
DispatchDueEvents(w, real, skipped, at) ==
  LET S == Oldest(Due(real, at) \ skipped, BatchSize)
  IN  /\ step[w] = "idle"
      /\ S # {}
      /\ ClaimLocked(w, [kind |-> "dispatch", real |-> real, receive |-> 0],
                     S, {e \in S : Overdue(e, at)})

\* Mutants of RetryDecision: the marker of the attempt is not looked at; an
\* event without it is dropped instead of kept for the dead-letter queue.
RetryUnmarked(e) == "reclaim"
DropUnmarked(e)  ==
  IF LatestIs(e, Failed("QueueRetryable")) THEN "reclaim" ELSE "acknowledge"

\* The event is processing: only a recorded retryable failure allows a new
\* attempt, anything else may be an executor at work or gone.
RetryDecision(e) ==
  IF LatestIs(e, Failed("QueueRetryable")) THEN "reclaim" ELSE "retry"

\* What _claim_queued_event decides about a message that names e.
QueuedDecision(e, real, at) ==
  CASE status[e] = "absent" -> "acknowledge"
    [] status[e] \in Terminal ->
         IF status[e] = "failed" /\ LatestIs(e, Failed("RetryExhausted"))
         THEN "retry" ELSE "acknowledge"
    [] status[e] = "processing" -> RetryDecision(e)
    [] status[e] = "scheduled" ->
         IF e \notin Due(real, at) THEN "acknowledge"
         ELSE IF Overdue(e, at) THEN "missed" ELSE "claim"

\* Mutant of ReclaimLocked: the failed attempt is opened again.
ReopenLocked(w, call, e) ==
  /\ attempts' = [attempts EXCEPT ![e] = [@ EXCEPT ![Len(@)] = Open]]
  /\ Begin(w, call, {e})
  /\ UNCHANGED schedulingVars

\* The retry of a transient weather failure: the event is still processing.
ReclaimLocked(w, call, e) ==
  /\ Len(attempts[e]) < MaxAttempts
  /\ attempts' = [attempts EXCEPT ![e] = Append(@, Open)]
  /\ Begin(w, call, {e})
  /\ UNCHANGED schedulingVars

ProcessQueuedDelivery(w, e, receive, real, at) ==
  LET call     == [kind |-> "queue", real |-> real, receive |-> receive]
      decision == QueuedDecision(e, real, at)
  IN  /\ step[w] = "idle"
      /\ \/ decision = "claim"   /\ ClaimLocked(w, call, {e}, {})
         \/ decision = "missed"  /\ ClaimLocked(w, call, {e}, {e})
         \/ decision = "reclaim" /\ ReclaimLocked(w, call, e)

-----------------------------------------------------------------------------
(* Executing the claim that is first in scheduled order *)

IsFirst(c, S) ==
  \A d \in S : c.due < d.due \/ (c.due = d.due /\ c.event <= d.event)

Current(w, at) == {c \in held[w] : step[w] = at /\ IsFirst(c, held[w])}

Proceed(w, next, outcome) ==
  /\ step' = [step EXCEPT ![w] = next]
  /\ result' = [result EXCEPT ![w] = outcome]
  /\ UNCHANGED <<schedulingVars, attempts, op, held>>

GetWeather(w) ==
  /\ Current(w, "weather") # {}
  /\ Proceed(w, "send", Open)
  /\ UNCHANGED calls

\* Mutants of WeatherErrorCode: the class name without its prefix; a retry on
\* the last receive too.
BareErrorCode(w, retryable) ==
  IF retryable THEN "WeatherProviderTimeout" ELSE "WeatherError"
RetryOnceTooOften(w, retryable) ==
  IF op[w].kind = "queue" /\ retryable /\ op[w].receive <= MaxReceives
  THEN "QueueRetryable" ELSE "WeatherError"

\* Only a queue call retries, and only while its message may be received again.
WeatherErrorCode(w, retryable) ==
  IF op[w].kind = "queue" /\ retryable
  THEN IF op[w].receive < MaxReceives THEN "QueueRetryable" ELSE "RetryExhausted"
  ELSE "WeatherError"

WeatherFails(w, retryable) ==
  /\ Current(w, "weather") # {}
  /\ Proceed(w, "record", Failed(WeatherErrorCode(w, retryable)))
  /\ UNCHANGED calls

\* DemoMessageSender only logs.
SendDemo(w) ==
  \E c \in Current(w, "send") :
    /\ c.event \in DemoEvents
    /\ Proceed(w, "record", Suppressed)
    /\ UNCHANGED calls

\* _select_sender without a message_sender, or a request the adapter or the
\* provider refuses.
SendFails(w) ==
  \E c \in Current(w, "send") :
    /\ c.event \notin DemoEvents
    /\ Proceed(w, "record", Failed(IF op[w].real THEN "SenderError"
                                   ELSE "MessageSenderNotConfigured"))
    /\ UNCHANGED calls

\* Mutant of Answer: a timeout of the sender is taken for a transient failure.
RetryLostAnswer(answered) ==
  IF answered THEN Submitted ELSE Failed("QueueRetryable")

\* Past the sender boundary a lost answer is final.
Answer(answered) == IF answered THEN Submitted ELSE Failed("SenderError")

\* The provider accepts the request; its answer may be lost.
SendReal(w, answered) ==
  \E c \in Current(w, "send") :
    /\ c.event \notin DemoEvents
    /\ op[w].real
    /\ calls' = [calls EXCEPT ![c.event] = Append(@, c.channel)]
    /\ Proceed(w, "record", Answer(answered))

-----------------------------------------------------------------------------
(* Recording *)

\* The call goes on with its next claim, or returns.
Finish(w, c) ==
  LET rest == held[w] \ {c}
  IN  /\ held' = [held EXCEPT ![w] = rest]
      /\ step' = [step EXCEPT ![w] = IF rest = {} THEN "idle" ELSE "weather"]
      /\ op' = [op EXCEPT ![w] = IF rest = {} THEN Idle ELSE @]
      /\ result' = [result EXCEPT ![w] = Open]
      /\ UNCHANGED <<now, scheduledFor, channel, calls>>

AttemptIsOpen(c) ==
  /\ c.number \in DOMAIN attempts[c.event]
  /\ attempts[c.event][c.number].status = "processing"

\* Both rows admit the transition to `outcome`; a retryable failure moves
\* the attempt only.
Recordable(c, outcome) ==
  /\ AttemptIsOpen(c)
  /\ outcome.error = "QueueRetryable" \/ status[c.event] = "processing"

\* _record_success, _record_failure and _record_retryable_failure
Record(w) ==
  \E c \in Current(w, "record") :
    /\ Recordable(c, result[w])
    /\ attempts' = [attempts EXCEPT ![c.event] =
                      [@ EXCEPT ![c.number] = result[w]]]
    /\ status' = IF result[w].error = "QueueRetryable" THEN status
                 ELSE [status EXCEPT ![c.event] = result[w].status]
    /\ Finish(w, c)

\* The second transaction is rolled back: an unavailable database, or a
\* transition the rows no longer admit.
RecordFails(w) ==
  \E c \in Current(w, "record") :
    /\ Finish(w, c)
    /\ UNCHANGED <<status, attempts>>

\* The process dies and with it every claim it held.
Crash(w) ==
  /\ step[w] # "idle"
  /\ held' = [held EXCEPT ![w] = {}]
  /\ step' = [step EXCEPT ![w] = "idle"]
  /\ op' = [op EXCEPT ![w] = Idle]
  /\ result' = [result EXCEPT ![w] = Open]
  /\ UNCHANGED <<schedulingVars, attempts, calls>>

-----------------------------------------------------------------------------
(* Specification *)

Init ==
  /\ SchedulingInit
  /\ attempts = [e \in Events |-> <<>>]
  /\ calls = [e \in Events |-> <<>>]
  /\ op = [w \in Workers |-> Idle]
  /\ held = [w \in Workers |-> {}]
  /\ step = [w \in Workers |-> "idle"]
  /\ result = [w \in Workers |-> Open]

ClaimWork(w) ==
  \/ \E e \in Events : DeliverScheduledEvent(w, e)
  \/ \E real \in BOOLEAN, skipped \in SUBSET Events, at \in SampledTimes :
       DispatchDueEvents(w, real, skipped, at)
  \/ \E e \in Events, receive \in 1 .. MaxReceives, real \in BOOLEAN,
        at \in SampledTimes :
       ProcessQueuedDelivery(w, e, receive, real, at)

Work(w) ==
  \/ GetWeather(w)
  \/ \E retryable \in BOOLEAN : WeatherFails(w, retryable)
  \/ SendDemo(w)
  \/ SendFails(w)
  \/ \E answered \in BOOLEAN : SendReal(w, answered)
  \/ Record(w)
  \/ RecordFails(w)
  \/ Crash(w)

Next ==
  \/ SchedulingNext /\ UNCHANGED deliveryVars
  \/ \E w \in Workers : ClaimWork(w) \/ Work(w)

Spec == Init /\ [][Next]_vars

-----------------------------------------------------------------------------
(* Safety *)

\* A claim gives exclusive ownership: no two executors, and no two claims of
\* one executor, ever hold the same event; a held event is processing and its
\* latest attempt is the holder's open one, whatever edits, duplicate
\* messages and crashes happened in between (_claim_event, _claim_queued_event
\* and claim_due_delivery_batch against each other).
Owns(w, c) ==
  /\ status[c.event] = "processing"
  /\ c.number = Len(attempts[c.event])
  /\ LatestIs(c.event, Open)
  /\ \A v \in Workers : \A d \in held[v] : d.event = c.event => v = w /\ d = c

ExclusiveClaims == \A w \in Workers : \A c \in held[w] : Owns(w, c)

\* The provider accepts at most one request per event, ever, and that request
\* is the one the row describes: a real event, on the channel the row now
\* has, although the sender works from a snapshot loaded before the external
\* calls.
SubmissionMatches(e) ==
  /\ Len(calls[e]) <= 1
  /\ calls[e] # <<>> => e \notin DemoEvents /\ calls[e][1] = channel[e]

SubmissionMatchesRow == \A e \in Events : SubmissionMatches(e)

\* The audit tells the truth about acceptance: an event whose request was
\* accepted is submitted, is failed with a sender error (the answer was
\* lost), or still has its attempt open; it is never left for a retry nor
\* reported as missed, exhausted, cancelled or suppressed.  Conversely a
\* submitted event was accepted.
AuditMatches(e) ==
  /\ calls[e] # <<>> =>
       attempts[e] # <<>> /\ Latest(e) \in {Open, Submitted, Failed("SenderError")}
  /\ status[e] = "submitted" => calls[e] # <<>>

AuditMatchesProvider == \A e \in Events : AuditMatches(e)

\* The attempt history and the event row agree: every attempt but the latest
\* is a retryable failure, an event has attempts exactly when it was claimed,
\* a processing event is open or waiting for its retry, and a finished event
\* carries the status of its latest attempt (the two rows that _record_success
\* and _record_failure write).  No event is attempted before the time its row
\* has, although `now` is sampled before the lock is waited for.
AttemptsMatch(e) ==
  /\ \A n \in 1 .. Len(attempts[e]) - 1 :
       attempts[e][n] = Failed("QueueRetryable")
  /\ attempts[e] = <<>> <=> status[e] \in {"absent", "scheduled", "cancelled"}
  /\ attempts[e] # <<>> => scheduledFor[e] <= now
  /\ status[e] = "processing" => Latest(e) \in {Open, Failed("QueueRetryable")}
  /\ status[e] \in {"submitted", "failed", "suppressed"} =>
       Latest(e).status = status[e] /\ Latest(e) # Failed("QueueRetryable")

AttemptsMatchRow == \A e \in Events : AttemptsMatch(e)

\* What an executor carries is what happened: the channel of its snapshot is
\* still the row's, a request was accepted for a claim only if the executor is
\* about to record a submission or a sender error for it, and it records a
\* submission only for an accepted request, a suppression only for a demo.
Truthful(w, c) ==
  /\ c.channel = channel[c.event]
  /\ calls[c.event] # <<>> =>
       /\ c \in Current(w, "record")
       /\ result[w] \in {Submitted, Failed("SenderError")}
  /\ c \in Current(w, "record") =>
       \/ result[w] = Submitted /\ calls[c.event] # <<>>
       \/ result[w] = Suppressed /\ c.event \in DemoEvents
       \/ result[w].status = "failed"

OutcomeIsTruthful == \A w \in Workers : \A c \in held[w] : Truthful(w, c)

\* An executor that reaches the recording transaction always finds rows that
\* admit it, so a ValidationError of transition_to never turns a delivered
\* message into a stranded event.
RecordIsNeverRefused ==
  \A w \in Workers : \A c \in Current(w, "record") : Recordable(c, result[w])

-----------------------------------------------------------------------------
(* Action properties *)

\* A row changes status only along ALLOWED_TRANSITIONS.  The one commit that
\* takes two of them at once is a missed delivery: the event was beyond the
\* grace period, its only attempt says so and no provider was called.
LegalTransition(e) ==
  \/ status'[e] = status[e]
  \/ <<status[e], status'[e]>> \in AllowedTransitions
  \/ /\ status[e] = "scheduled"
     /\ status'[e] = "failed"
     /\ Overdue(e, now)
     /\ attempts'[e] = <<Failed("MissedDeliveryWindow")>>
     /\ calls'[e] = <<>>

LegalTransitions == [][\A e \in Events : LegalTransition(e)]_vars

\* Attempts are append-only and a finished attempt never changes again: a
\* queue retry adds a row (_create_attempt_locked), it rewrites none.
HistoryIsImmutable ==
  [][\A e \in Events :
       /\ Len(attempts[e]) <= Len(attempts'[e])
       /\ \A n \in DOMAIN attempts[e] :
            attempts[e][n] # Open => attempts'[e][n] = attempts[e][n]]_vars

\* Quarantine: once the executor of an open attempt is gone, nothing in the
\* system touches the event again, since the provider may have accepted the
\* request.  No timer, duplicate message, dispatcher or user resumes it.
Stranded(e) ==
  /\ status[e] = "processing"
  /\ LatestIs(e, Open)
  /\ \A w \in Workers : \A c \in held[w] : c.event # e

QuarantineHolds ==
  [][\A e \in Events : Stranded(e) =>
       /\ Stranded(e)'
       /\ attempts'[e] = attempts[e]
       /\ calls'[e] = calls[e]
       /\ channel'[e] = channel[e]
       /\ scheduledFor'[e] = scheduledFor[e]]_vars

-----------------------------------------------------------------------------
(* Refinement *)

PhaseOf(e) ==
  IF status[e] # "processing" THEN status[e]
  ELSE IF LatestIs(e, Open) THEN "sending" ELSE "retrying"

Lifecycle == INSTANCE EventLifecycle
               WITH phase    <- [e \in Events |-> PhaseOf(e)],
                    accepted <- [e \in Events |-> Len(calls[e])]

\* The workflow, with all its executors, crashes and duplicates, keeps the
\* contract of EventLifecycle.
RefinesLifecycle == Lifecycle!LifecycleSpec
=============================================================================
