# wakeupcall: a verification development

wakeupcall lets users schedule a wake-up SMS or voice call that tells them the
weather. It is a Django application over PostgreSQL, with an SQS queue, WeatherAPI
and Twilio around it. This directory holds TLA+ models of the parts where an order
of events, a crash or a repeated message could do harm, the TLC configurations that
check them on small instances, and TLAPS proofs of the properties that matter most.

Paths below are relative to the repository. `PROJECT.json` maps every definition to
the lines it stands for, and lists runs, mutants, findings, hazards and theorems.

## 1. Inventory

| Component | State it keeps | Operations | Talks to |
|---|---|---|---|
| Scheduled events (`apps/scheduling`) | one row per event: status, scheduled_for, channel, is_demo | create, cancel, reschedule, change channel, admin forms | rows shared with everything below |
| Delivery workflow (`apps/delivery/services.py`) | `DeliveryAttempt` rows; the claims an executor holds in memory | claim one, claim a batch, claim for a message, execute, record success / failure / retryable failure | weather adapter, message senders, event rows |
| Queue and worker (`queue_services.py`, `queueing.py`, `sqs.py`, `run_delivery_worker`) | SQS: visibility, receive counts, dead-letter queue; the worker: the received batch | expand a tick, publish, receive, delete, change visibility | delivery workflow, EventBridge |
| Reply controls (`apply_voice_menu_action`, `apply_inbound_sms_command`) | the voice action of an attempt, `InboundSmsCommand` rows | record a request, pick the next pending event, change it, replay | event rows, Twilio callbacks |
| Voice status callbacks (`record_voice_status_callback`) | provider_status and its sequence number | apply or ignore a callback | attempt rows, Twilio callbacks |
| Phone numbers and verification (`apps/accounts`) | number and verified_at of a row | enrol, start, check, mark, admin form | Twilio Verify |
| Weather adapter, Twilio adapters, webhook parsing | none | map an answer to a value or to an exception | HTTP |
| Views, serializers, forms, commands, admin lists | sessions, throttle cache | owner scoping, validation, responses | the services |
| Configuration, deployment, seeding | none | | |

What makes each of them correct, and what is hard about it:

* **Delivery.** Direct commands, the batch dispatcher and any number of queue workers
  run the same code on the same rows. The external calls happen outside any
  transaction, so a process may die, or its answer may be lost, with an accepted
  request behind it. Correct means: one owner per claim, at most one accepted request
  per event, an audit trail that never denies an acceptance, retries only before the
  sender boundary, and no touch on an event whose executor is gone.
* **Queue.** Ticks and messages are repeated, late or lost with a worker; a visibility
  timeout ends while the message is handled; the receive count is the only retry
  budget. Correct means: a waiting retry always has a message, a due event is claimed
  in the end, no message circulates for ever, and a failure nobody can resolve gets to
  the dead-letter queue, whose alarm is its only report.
* **Reply controls.** Callbacks repeat and run concurrently, and the ordered
  `SELECT ... FOR UPDATE` waits for rows that others change. Correct means: one effect
  and one answer per request, the right event, and no transaction that waits for ever.
* **Status callbacks.** They overtake each other and may precede the commit that stores
  the Call SID. Correct means: the newest acknowledged one is stored, and the outcome
  gets in.
* **Phone verification.** The row may be edited while Twilio checks the code, and again
  between an event's form, the checks of a staging command and the claim. Correct means:
  no check marks a number it did not ask about, real requests go to numbers that were
  approved or that staff vouched for, although nothing looks at the mark again after the
  event was cleaned, and a staging command sends to the number it is configured with.
* **Admin site.** Its forms load a row without a lock and write every column back.
  Correct means: a stale save does no more than put one event back, and what was sent
  stays in the audit.
* **Adapters.** Each answer of WeatherAPI and Twilio, and each way of not getting one,
  has a class that decides what happens next. Correct means: retries happen before the
  sender boundary only, at growing distances, and an error that says "refused" is never
  recorded for a request that was acted on.

## 2. Modules

| Module | Stands for |
|---|---|
| `Scheduling` | the event rows, the clock, and the services that users and staff call |
| `Delivery` (extends it) | claiming, executing and recording, for all three kinds of executor |
| `EventLifecycle` | the abstract specification of one event: its phases, and when a request may be accepted |
| `EventAdmin` (extends `Delivery`) | the change form and the deletion of events on the admin site, beside the services and executors |
| `QueueDelivery` (extends `Delivery`) | SQS and the worker's loop around that workflow |
| `ReplyControls` (extends `Scheduling`) | the two reply handlers as transactions with row locks |
| `RequestOnce` (extends `Scheduling`) | the abstract specification of a callback that may be repeated: decided in one step, then only answered; implemented by `ReplyControls` |
| `ProviderStatus` | voice status callbacks of a call |
| `ProviderCalls` (extends `ProviderStatus`) | the external calls of one queued delivery: WeatherAPI, backoff, Twilio, and how each answer is classified |
| `PhoneVerification` | phone rows, checks and the admin form of a row |
| `Destinations` (extends `PhoneVerification`) | the events that name phone rows, their admin form, the claim that reads the number, and the two staging commands |
| `DeliveryProofs`, `DeliveryRefinement`, `QueueProofs`, `AdminProofs`, `PhoneProofs`, `ProviderProofs`, `DestinationProofs`, `ReplyProofs` | theorems |
| `MC*` | symmetry sets and model values for TLC |

How they correspond to the code:

* A **transaction that locks its row first** is one action. This is sound under row
  locks: what it reads is what it writes over. `now` is sampled *before* the lock is
  waited for, so claims compare with a time up to `MaxLockWait` old (`SampledTimes`).
* A **claim** (`_claim_event`, `claim_due_delivery_batch`, `_claim_queued_event`) puts
  snapshots of the rows in `held[w]`, as `ClaimedDelivery` objects; what follows works
  on the snapshots: `step[w]` goes from `weather` to `send` to `record`, one action for
  each external call and for each second transaction. Between any two of them the
  process may die (`Crash`) and the second transaction may be rolled back
  (`RecordFails`).
* `calls[e]` is a history variable: the requests the provider accepted. `SendReal(w,
  FALSE)` is an accepted request whose answer is lost.
* In `Delivery` a queue call may name any event, any receive count and either worker
  configuration at any moment, so what holds there needs nothing of the queue.
  `QueueDelivery` adds what the queue does guarantee, and what the worker does with
  each message: `ClaimEvent`, `CallProviders`, `RecordOutcome` use the actions of
  `Delivery` unchanged.
* SQS is external: `Receive`, `Lapse` (the visibility timeout), `Redrive`, `Expire`. A
  receipt carries the receive count, which tells handles apart: deleting through an
  older handle may or may not delete, and changing the visibility of a message that is
  not in flight is an error that stops the worker, as nothing catches it.
* Backoff: `QueueDelivery` leaves out the length of the delay: `RetryLater` hands the
  message back and any later time of receipt is allowed. `ProviderCalls` computes it.
* In `EventAdmin` a save is two actions. `SubmitForm` is the view's read of the row with
  `clean()`; `SaveForm` is `save()`, which writes the status that was read and any time
  and channel. Between the two every action of `Delivery` may happen. `DeleteEvent` takes
  the attempts along (`on_delete=CASCADE`), whoever works on them. `resets` and
  `disturbed` are history: they tell saves that put an event back from those that found
  it pending all along.
* In `ProviderCalls` a provider's answer is one value of `WeatherAnswers` or
  `SendAnswers`: a transport error, or a status code out of each range the code
  distinguishes together with a code out of each set it looks up. `WeatherError` and
  `SendResult` are the classification, in the order in which the code tests.
  `MayBePlaced` says for which of them Twilio may have acted on the request; that is
  external. So is `Cause`, which says whether an answer of WeatherAPI means a failure
  that passes or one that lasts; the properties use it and the delivery does not. The
  worker may stop after a receive (`lost`).
* In `Destinations` staff add an event or edit one in two actions: `CleanEvent` reads the
  phone row without a lock and wants it verified, `SaveEvent` writes every column, the
  status as it was loaded. Meanwhile `PhoneStep` lets the forms and checks of
  `PhoneVerification` change the phone rows, verified ones too. A staging command takes
  `CheckEvent` (its checks, without a lock), `ClaimEvent` and `Submit` or `Fail`; between
  any two of them the other forms may be saved. A worker claims without the checks. What
  is sent is what the claim read under the locks. `meant` and `diverted` are history: the
  number that the form of the event was cleaned with, and whether a form has changed the
  destination between the checks of a command and its claim.
* In `ReplyControls` a handler has *several* actions, since the query waits for one row
  after another: `VoiceMenuAction`/`InboundSms` (lock or create the record and read the
  pending rows), `LockNext` (wait, lock, look at status again), `ApplyCommand` (change
  and commit), `NoPendingEvent`, `Abort` (crash), `EndDeadlock` (the database picks a
  victim).
* In `ProviderStatus` each callback is one transaction. `UnknownCall` is the 404; that
  Twilio then sends the callback again is the assumption of `docs/architecture.md:218`;
  nothing in the code enforces it, and `StatusFairness` states it. The lookup also wants
  the event to be a voice event, which is left out: a Call SID is stored for nothing else,
  and only an admin form could change the channel of a finished event.
* In `PhoneVerification` a check is three actions: read, ask Twilio, mark under the
  lock. The admin form is two: load, and save every editable field, edited or as it was
  loaded. `StaffEdits` says what staff edit: nothing, the number, or every field,
  `verified_at` included. `vouched` is history: the numbers saved with the mark.

## 3. Runs

| Run | Question | Bounds |
|---|---|---|
| `delivery` | the safety properties, action properties and refinement of the workflow | 2 events (one demo, one real), 2 executors, clock to 3, grace 0, 2 attempts |
| `event_admin` | what survives forms that save stale rows, and deletion | 1 real event, 2 executors, 2 saves, 3 attempts, clock to 1 |
| `event_admin_status` | finding: a form takes a claimed event back | 1 event, 2 executors, 1 save |
| `queue` | what holds of claims and messages with one fault, and of retries until then | 1 real event, 2 workers (one may send), 3 slots, batches of 2, ticks and malformed messages, 2 receives, 1 fault |
| `queue_gates` | a due demo event is claimed in the end | a real and a demo event, batches of 1, 2 workers (one may send), 3 slots, 1 receive, 1 fault |
| `retry_without_message` | finding: a retry without a message | 1 worker, 1 fault |
| `fresh_message` | finding: a fresh message for a retry | 2 workers, no fault |
| `reply_safety` | effects and choice of the event; every transaction ends; the refinement of `RequestOnce` | a call, an SMS, 2 events, 2 users, 2 handlers, clock to 2 |
| `reply_order` | finding: an event that is not the next one | 1 call, 2 events, clock to 2 |
| `provider_calls` | classification, backoff, and callbacks in any order | one event, 4 receives, delays of 30, 60 and then 100 seconds, every status of a call |
| `destinations` | approvals, and where real requests go, with forms on every row and event | 2 rows, 2 numbers, 1 check, 1 event, a worker and the SMS command, 2 forms of each kind |
| `phone_edit` | finding: a verified row is edited | 2 rows, 3 numbers, 2 checks, 2 forms |

Why the bounds are enough for what the runs ask. Two executors are what a race on a
row takes, and the model gives executors no state in common except rows, so a third
adds no new pair. Two events let a batch hold a claim while another one is executed,
let an order between rows change, and separate demo from real. Two receives are a
first and a last one, the only two cases that `process_queued_delivery` tells apart.
A clock to 3 with a grace of 0 has times before, at and beyond the grace period, and
two of the last for a retry that comes late. Two saves put an event back twice, or put
it back and meet the second delivery; with three attempts each reset can be claimed and
retried. Three slots hold a tick, a message of the event and a duplicate of it. In
`queue_gates` two events and batches of one make the oldest-first limit choose: users'
edits (`EditRows`) put either event first, a worker with the gate may publish the real
one and a worker without it delete its message. One receive is enough there, since what
may go on for ever are ticks, not retries. In `queue` every property is checked with the fault
possible at any point; those about retries and conclusions speak of the time before it,
as section 6 says why they must. Four
receives with these delays have the first one, one doubled, and two cut at the limit.
Two numbers and two rows let a row take over a number that the other was approved for,
and an event move to the other row; two forms of a kind set something and change it back.
The two staging commands differ in their channel only, so one of them is run.
What the runs show for these sizes the theorems of section 5 show for all, where they
apply.

Bounds that are not the program's own, each a named constant: `MaxTime` (clock),
`MaxAttempts` (attempts of one event), `MaxLockWait`, `Messages` (slots; `RoomForTick`
holds a tick back when the slots could run out), `MaxFaults` (of `QueueDelivery`: crashes, queue errors and
premature lapses), `MaxSaves`, `MaxForms`, `MaxDrafts` and `Deletable` (what staff do),
`Commands` (which staging commands run), `AskedTimes` and `UserChannels` (the times SMS
commands name and the channels users choose; the queue never reads a channel, so its runs
give users one). A message is stored in `NextSlot`, a fixed one of the unused slots,
since slots are alike.

Deadlock is checked in the queue, reply and `phone_edit` runs. It is not in `delivery`
and the two `event_admin` runs (the clock is bounded and every event may be finished),
in `provider_calls` (the delivery is over and every callback acknowledged) and in
`destinations` (every row verified, the event delivered and every form saved).

Symmetry (executors, rows, numbers, checks) is used where a run checks only invariants,
or action properties and the refinement, which quantify over the symmetric set; never in
a run with liveness, and never in the queue runs, where `NextSlot` tells slots apart.

Every property of a passing run has a mutant in `PROJECT.json`: a definition of the
model changed the way a plausible bug would change the code, for which TLC finds the
property violated. The mutated definitions stand beside the original ones.

## 4. Fairness

* `QueueFairness`: the clock goes on; the scheduler keeps sending ticks (strong, as
  `RoomForTick` may close and open again); a worker that runs goes on with its message;
  SQS delivers a message that is visible again and again (strong, as it may be in
  flight in between); timeouts, redrive and retention happen. Workers are restarted by
  the service that runs them, which is why a worker that stopped receives again. No
  edit, fault or particular provider answer is assumed to happen. Which worker receives
  a message is left open, so a worker without the gate may take every message of a real
  event. If that event is older and the other worker publishes it again at each tick, it
  fills a batch of one for ever and a due demo event starves; `DueEventsAreClaimed` names
  this as its only exception. The workers of a deployment have the same gate.
* `ReplyFairness`: a handler in a transaction takes a step if it can again and again
  (strong: the row it waits for may be free only between others' locks; PostgreSQL
  queues the waiters of a row), and the database ends deadlocks. No callback is assumed
  to arrive.
* `StatusFairness`: a callback that is sent again and again is acknowledged for good
  when its attempt is known. The executor need not ever record.

## 5. Proofs

TLAPS proves these for every value of the constants that satisfies the named
assumptions (`EventsAssumption`, `DemoAssumption`, `TimeAssumption`,
`DeliveryAssumption`, `QueueAssumption`, `AdminAssumption`, `RetryAssumption`,
`PhoneAssumption`, `RouteAssumption`, `ReplyAssumption`). They give
the constants their types (events are numbers, bounds are natural and limits positive,
owners are users, a reply sees finitely many events) and, in `RetryAssumption`, what
`process_queue_batch` checks on entry: a positive base of the backoff and a limit between
it and the 43200 seconds that SQS accepts.

* **Delivery** (`DeliveryProofs`). `TypeCorrect`, then
  `IInv == TypeOK /\ Safe`, where `Safe` is the conjunction of `ExclusiveClaims`,
  `SubmissionMatchesRow`, `AuditMatchesProvider`, `AttemptsMatchRow` and
  `OutcomeIsTruthful`. No one of the last five is inductive alone. That a second request
  is never accepted needs that the sender of a claim is its only holder
  (`ExclusiveClaims`) and has not sent yet (`OutcomeIsTruthful`); that a retry takes up
  an event nobody holds needs that a processing event whose latest attempt failed has no
  holder (`ExclusiveClaims`) and that nothing was accepted for it
  (`AuditMatchesProvider`). `ClaimLockedSafe` and `ReclaimLockedSafe` treat the claims,
  `NoCallSafe`, `SendRealSafe`, `FinishSafe` and `RecordSafe` the execution.
  `RecordIsNeverRefused` and `OutcomesAreTruthful` follow from the invariant. The lemmas
  are stated for one event (`EventSafe`, `SafeIsPerEvent`): a step keeps what they say of
  an event whatever is true of the others. That is what lets `AdminProofs` use them for
  the events that no form disturbed.
* **Refinement and action properties** (`DeliveryRefinement`). One case analysis of a
  step (`StepCases`) gives the refinement of `EventLifecycle`, `LegalTransitions`,
  `HistoryIsImmutable` and `QuarantineHolds`.
* **Queue** (`QueueProofs`). `QueueTypeCorrect`, and `QueueImplementsDelivery`: every
  step of the worker is a step of `Delivery` or leaves it alone, so all of the above
  holds of the queue (`QueueIsSafe`, `QueueKeepsLifecycle`). `WorkerInv` ties what a
  worker holds to the message it handles; with `ExclusiveClaims` of the workflow it gives
  `ClaimsUnderMessage`.
* **A retry keeps its message** (`RetryKeepsMessage`, with `QueueInv` and `RetryInv`).
  `RetryHasMessage` alone is not inductive: a message that is in the dead-letter queue
  next, or that its worker is about to delete, satisfies it too. `RetryFollows` says
  which message counts: a visible one with receives left (`Waiting`), or a receipt whose
  worker has not decided about it or hands it back with receives left (`Unsettled`). The
  lemmas follow it around: the failure that begins the wait is recorded under a message
  with a receive left (`RetryIsEarly`, `RetryBegins`), its worker hands it back, a
  receive takes it up (`WaitingStep`), and the worker that decides about it claims the
  event, which ends the wait (`RetryEnds`, `UnsettledStep`). That nobody else deletes or
  redrives it needs that every receipt is the current one of a message in flight and that
  no message has two (`CurrentReceipts`, `MessageMoves`), which a premature lapse or a
  lost worker destroys. So `RetryKeepsMessageUntilFault` ends at the first fault, and must:
  `retry_without_message` has the counterexample with one. `RetryKeepsMessageWithoutFaults`
  states `RetryHasMessage` itself for `MaxFaults = 0`.
* **Admin site** (`AdminProofs`). A save across a claim takes `ExclusiveClaims` away, and
  what is left is counted. Each claim of an event has an attempt number of its own, and
  that attempt is open (`Numbered`). The requests accepted, the claims that may still
  make one (`Unsent`) and the ways to make a claim (`Chances`: the event is pending, or
  its latest attempt may be retried) are together no more than one for the first
  scheduling and one for each save that put the event back (`Bounded`); every request
  has an attempt that no claim will send for again (`Audited`). `StepFor` lists the five
  things a step can be to one event, and the counts are kept in each. `SubmissionsAreBounded`
  and `SubmissionsAreAudited` follow. An event that was neither disturbed nor deleted
  keeps `EventSafe`, by the lemmas of `DeliveryProofs`: `PendingSavesKeepTheWorkflow`.
  `AdminTypeOK` was not inductive by itself: the form that is being handled must still be
  within the bound (`FormCounts`).

* **Phone** (`PhoneProofs`). `PhoneTypeCorrect`, and `ApprovalIsSound`: `MarkIsEarned` is
  invariant whatever staff may edit, by adding that a check about to mark was approved
  for its row and number. That staff vouched for no number that was not approved is not
  true of the code (`phone_edit`).
* **Status** (`ProviderProofs`). `StatusInvariance` adds to the types that every callback
  on its way or acknowledged is an entry of its call's progress at its sequence number,
  and that no entry follows a terminal status. So the number of a callback determines
  its status, and a stored terminal status has the highest number there can be: ignoring
  what is not newer loses nothing, and `NewestStatusIsStored` follows.
* **Calls and backoff** (`ProviderProofs`). Every step of `ProviderCalls` changes the
  status variables by an action of `ProviderStatus` or leaves them alone (`CallsStep`), so
  `StatusInv` holds here too and `CallsKeepNewestStatus` follows. `CallsInv` says of each
  delivery how far it got: the sender is asked once and after all failures (`SentOnce`),
  the causes of the failures agree with what was done about them (`FailuresMatch`, for
  which `ClassesFollowCauses` goes through the answers: no passing one gets a final
  class, no lasting one a retryable class), and the last delay is that of an earlier
  receive (`LastDelay`), which is what makes a lost receive harmless for `BackoffIsOrdered`. The
  delays need that `PowerOfTwo` doubles: that the recursive definition has a solution
  (`PowerOfTwoDefined`) and what follows for all numbers is shown with the least
  counterexample (`WFMin`), as the induction rule of the library cannot be used.
* **Destinations** (`DestinationProofs`). `RoutesImplementPhones`: no action of events or
  commands writes a phone row, so what is proved of `PhoneVerification` holds here.
  `RouteInv` carries the approval along the way of a request: the number that an event was
  cleaned with got the mark of its phone row honestly (`Earned`), in the form, the row and
  the claim, because approvals and vouched numbers only grow (`PhoneStepFacts`); and what
  a staging command checked still holds when it claims, or was seen to be diverted
  (`CommandSafe`, `DiversionsAreNoted`). `RealRequestsWereApproved` and
  `StagingStaysAuthorized` follow for every choice of the constants, edits of verified
  rows and of named events included.
* **Reply controls** (`ReplyProofs`). `ReplyInv` adds to the checked invariants what a
  handler relies on: the request it works for has no result and no other handler
  (`Undecided`), no row is locked twice (`LocksDisjoint`), and the list it read holds
  every pending event that was left alone, those in order (`Complete`, `Sorted`). The
  last two are what makes the first row that is still pending the next one (`Select`),
  and the lock keeps it so (`KeptView`). A step is treated as the change of some rows
  under handlers that do not lock them (`RowsChange`), or as the move of one handler
  (`OneMoves`). `OneEffectPerRequest`, `TargetIsNextOrChanged` and, with
  `HandlersDecideOnce`, the refinement of `RequestOnce` follow.

Every invariant and action property that a passing run checks is stated by a theorem,
and so are the two refinements (`EventLifecycle`, `RequestOnce`). Model-checked only: the liveness properties
`ClaimedEventsConclude`, `ExhaustionSurfaces`, `DueEventsAreClaimed`, `MessagesDrain`,
`QuarantineSurfaces`, `OutcomeIsStored` and `TransactionsEnd` (out of the prover's reach,
with ENABLED). `RetryHasMessage` after a fault is not model-checked only but false.

## 6. Findings

Five statements of the documentation that the code does not keep; each has a run with
a counterexample, and an entry in `PROJECT.json` with the quotation.

1. A retry whose last receive is lost stays `processing` for ever: exhaustion is
   recorded only by an attempt that runs on the last receive (`retry_without_message`).
2. A tick may publish a fresh message for a retrying event, as the ids it selected are
   not read again (`fresh_message`).
3. A reply may change an event that is not the next one: a row that was waited for is
   checked again for its status but not for its place in the order (`reply_order`).
4. The admin form keeps `verified_at` when the number changes (`phone_edit`).
5. The admin's change form shows the status read-only but writes it all the same, as it
   was loaded: a save across a claim takes the event back to `scheduled`
   (`event_admin_status`). `event_admin` shows how far that goes: the event is sent once
   more for each such save, and every request stays in the audit.

Disagreements without a run of their own.

* **Late deliveries.** `docs/domain.md:219` says that an event more than the grace period
  late fails without a call of the weather or message providers. The dispatcher and the
  first claim of a queue message compare the grace period; `_claim_event`
  (`services.py:637-659`), which direct deliveries and the staging commands use, does not,
  and the retry branch (`services.py:374-388`) does not either. So a direct delivery and a
  retry send however late they run. `Delivery` has both as they are.
* **Malformed answers.** `docs/architecture.md:701` and `:923-924` call malformed weather
  data a permanent failure; `WeatherMalformedResponse` is retryable, and is tried again
  until the receives are used up. So are a 401 with an unreadable body, and a 400 or 403
  with a code that is not listed. `FailuresAreClassified` takes no side on these answers.
* **Staging destination.** `docs/domain.md:209` wants the destination of a staging command
  to match the authorized number. The command compares before the row is locked; a form
  that gives the event another phone number, or its phone row another number, between the
  comparison and the claim sends the request there. Without the part `run[s].diverted`
  `SmokeStaysAuthorized` is violated in the run `destinations`.
* **Gate.** `docs/architecture.md:814` leaves real events untouched while the gate is off;
  the retry branch does not look at the gate, which `test_queue_services.py` expects.

Read with them: a duplicate message may add attempts beyond the receive limit of one
message. `QuarantineSurfaces` is checked with one fault, and does not hold with two, since
a delete through an older receipt handle, after a lapse, may remove the last message of a
stranded event. `ClaimedEventsConclude` and `ExhaustionSurfaces` promise nothing after a
fault: a worker that stops after the claim leaves the event `processing` for good, as
`QuarantineHolds` says it must. `HasMessage` counts a message without receives left, but
such a message cannot be a waiting retry's last: its redrive is enabled at once and would
violate the invariant.

## 7. What is not modelled

* On the admin site: forms that change an event's owner, ZIP code or `is_demo` (the phone
  number of an event is edited in `Destinations`, time and channel in `EventAdmin`); a
  form whose row is deleted under it, which inserts the row again; deletion of attempts
  by themselves and of users and phone rows.
* Rendered messages, weather readings, TwiML: no property depends on them. A reading is
  whole or it is not.
* Construction of the weather adapter: a missing key stops the process before it claims.
* Signature and format checks of callbacks: they concern one request, keep no state and
  come before any row is read. The models start from a parsed callback.
* Views, serializers and web forms: owner scoping and responses around the services,
  whose calls are the actions of the modules; throttles are counters in a process-local
  cache. One hazard is listed without a property: `PhoneVerificationCheckView` decides
  on the gateway from a read of its own.
* Display in the delivery admin, settings, templates of the deployment (their numbers
  are constants here), seeding.

## 8. Plan

1. Theorems: the one-step facts that the liveness runs rest on, such as that the receives
   of a message only grow until it is deleted or redriven.
2. The composition of `EventAdmin` with the queue: whether a message of an earlier life
   of the event is still about when a form puts it back.
