--------------------------- MODULE DeliveryProofs ---------------------------
(* Proofs about Delivery, for every value of its constants. *)
EXTENDS Delivery, SequenceTheorems, TLAPS

\* Appending an attempt lengthens the history by one and keeps what it had.
LEMMA AppendAttempt ==
  ASSUME NEW s \in Seq(Attempt), NEW a \in Attempt
  PROVE  /\ Append(s, a) \in Seq(Attempt)
         /\ Len(Append(s, a)) = Len(s) + 1
         /\ Append(s, a) # <<>>
         /\ Append(s, a)[Len(s) + 1] = a
         /\ \A n \in 1 .. Len(s) : Append(s, a)[n] = s[n]
OBVIOUS

\* Rewriting one attempt keeps the length of the history and all others.
LEMMA ReplaceAttempt ==
  ASSUME NEW s \in Seq(Attempt), NEW n \in 1 .. Len(s), NEW a \in Attempt
  PROVE  LET t == [s EXCEPT ![n] = a]
         IN  /\ t \in Seq(Attempt)
             /\ Len(t) = Len(s)
             /\ t # <<>>
             /\ t[n] = a
             /\ \A m \in 1 .. Len(s) : m # n => t[m] = s[m]
<1>. DEFINE t == [s EXCEPT ![n] = a]
<1>1. t \in Seq(Attempt) /\ Len(t) = Len(s)
  BY ExceptSeq
<1>. QED BY <1>1

\* The first element of a history, or of the list of accepted requests.
LEMMA FirstElement ==
  ASSUME NEW T, NEW a \in T
  PROVE  /\ Len(Append(<<>>, a)) = 1
         /\ Append(<<>>, a) # <<>>
         /\ Append(<<>>, a)[1] = a
<1>1. <<>> \in Seq(T) /\ Len(<<>>) = 0
  BY EmptySeq
<1>2. /\ Append(<<>>, a) \in Seq(T)
      /\ Len(Append(<<>>, a)) = 1
      /\ Append(<<>>, a)[1] = a
  BY <1>1
<1>. QED BY <1>1, <1>2

\* The attempt rows the code writes are attempt rows.
LEMMA AttemptTypes ==
  /\ Open \in Attempt /\ Submitted \in Attempt /\ Suppressed \in Attempt
  /\ \A code \in Errors : Failed(code) \in Attempt
BY DEF Attempt, Open, Submitted, Suppressed, Failed, Errors

-----------------------------------------------------------------------------
(* Type correctness *)

\* A claiming transaction keeps the types.
LEMMA ClaimLockedType ==
  ASSUME TypeOK, NEW w \in Workers, NEW call \in Call,
         NEW S \in SUBSET Events, NEW missed \in SUBSET S,
         ClaimLocked(w, call, S, missed)
  PROVE  TypeOK'
<1>. USE DEF TypeOK
<1>1. SchedulingTypeOK'
  BY DEF ClaimLocked, SchedulingTypeOK, Statuses, Terminal
<1>2. attempts' \in [Events -> Seq(Attempt)]
  BY AppendAttempt, AttemptTypes DEF ClaimLocked, Errors
<1>3. \A e \in Events : ClaimOf(e) \in Claim
  BY DEF ClaimOf, Claim, SchedulingTypeOK
<1>4. held' \in [Workers -> SUBSET Claim]
  BY <1>3 DEF ClaimLocked, Begin
<1>5. Idle \in Call
  BY DeliveryAssumption DEF Idle, Call
<1>6. /\ op' \in [Workers -> Call]
      /\ step' \in [Workers -> {"idle", "weather", "send", "record"}]
  BY <1>5 DEF ClaimLocked, Begin
<1>7. calls' \in [Events -> Seq(Channels)] /\ result' \in [Workers -> Attempt]
  BY DEF ClaimLocked, Begin
<1>. QED BY <1>1, <1>2, <1>4, <1>6, <1>7

\* The claim of a retry keeps the types.
LEMMA ReclaimLockedType ==
  ASSUME TypeOK, NEW w \in Workers, NEW call \in Call, NEW e \in Events,
         ReclaimLocked(w, call, e)
  PROVE  TypeOK'
<1>. USE DEF TypeOK
<1>1. SchedulingTypeOK'
  BY DEF ReclaimLocked, SchedulingTypeOK, schedulingVars
<1>2. attempts' \in [Events -> Seq(Attempt)]
  BY AppendAttempt, AttemptTypes DEF ReclaimLocked
<1>3. ClaimOf(e) \in Claim
  BY DEF ClaimOf, Claim, SchedulingTypeOK
<1>4. held' \in [Workers -> SUBSET Claim]
  BY <1>3 DEF ReclaimLocked, Begin
<1>5. Idle \in Call
  BY DeliveryAssumption DEF Idle, Call
<1>6. /\ op' \in [Workers -> Call]
      /\ step' \in [Workers -> {"idle", "weather", "send", "record"}]
  BY <1>5 DEF ReclaimLocked, Begin
<1>7. calls' \in [Events -> Seq(Channels)] /\ result' \in [Workers -> Attempt]
  BY DEF ReclaimLocked, Begin
<1>. QED BY <1>1, <1>2, <1>4, <1>6, <1>7

\* What the three callers claim: due events only, by a well-formed call.
LEMMA ClaimWorkCases ==
  ASSUME TypeOK, NEW w \in Workers, ClaimWork(w)
  PROVE  \/ \E call \in Call, S \in SUBSET Events :
              \E missed \in SUBSET S :
                /\ \A e \in S : status[e] = "scheduled" /\ scheduledFor[e] <= now
                /\ \A e \in missed : Overdue(e, now)
                /\ ClaimLocked(w, call, S, missed)
         \/ \E call \in Call, e \in Events :
              /\ status[e] = "processing"
              /\ LatestIs(e, Failed("QueueRetryable"))
              /\ ReclaimLocked(w, call, e)
<1>. USE DEF TypeOK, SchedulingTypeOK
<1>. DEFINE Claims(call, S, missed) ==
       /\ \A e \in S : status[e] = "scheduled" /\ scheduledFor[e] <= now
       /\ \A e \in missed : Overdue(e, now)
       /\ ClaimLocked(w, call, S, missed)
<1>0. ASSUME NEW at \in SampledTimes, NEW e \in Events
      PROVE  /\ scheduledFor[e] <= at => scheduledFor[e] <= now
             /\ Overdue(e, at) => Overdue(e, now)
  BY <1>0, TimeAssumption, DeliveryAssumption DEF SampledTimes, Overdue, Times
<1>1. CASE \E e \in Events : DeliverScheduledEvent(w, e)
  <2>1. PICK e \in Events : DeliverScheduledEvent(w, e)
    BY <1>1
  <2>. DEFINE call == [kind |-> "direct", real |-> e \notin DemoEvents,
                       receive |-> 0]
  <2>2. call \in Call
    BY DeliveryAssumption DEF Call
  <2>3. Claims(call, {e}, {})
    BY <2>1, <1>0 DEF DeliverScheduledEvent
  <2>. QED BY <2>2, <2>3
<1>2. CASE \E real \in BOOLEAN, skipped \in SUBSET Events, at \in SampledTimes :
             DispatchDueEvents(w, real, skipped, at)
  <2>1. PICK real \in BOOLEAN, skipped \in SUBSET Events, at \in SampledTimes :
               DispatchDueEvents(w, real, skipped, at)
    BY <1>2
  <2>. DEFINE call == [kind |-> "dispatch", real |-> real, receive |-> 0]
              S == Oldest(Due(real, at) \ skipped, BatchSize)
              missed == {e \in S : Overdue(e, at)}
  <2>2. call \in Call
    BY DeliveryAssumption DEF Call
  <2>3. /\ S \in SUBSET Events
        /\ missed \in SUBSET S
        /\ \A e \in S : status[e] = "scheduled" /\ scheduledFor[e] <= at
    BY DEF Oldest, Due
  <2>4. Claims(call, S, missed)
    <3>1. ClaimLocked(w, call, S, missed)
      BY <2>1 DEF DispatchDueEvents
    <3>. QED BY <2>3, <3>1, <1>0
  <2>. HIDE DEF S, missed, call
  <2>. QED BY <2>2, <2>3, <2>4
<1>3. CASE \E e \in Events, receive \in 1 .. MaxReceives, real \in BOOLEAN,
              at \in SampledTimes :
             ProcessQueuedDelivery(w, e, receive, real, at)
  <2>1. PICK e \in Events, receive \in 1 .. MaxReceives, real \in BOOLEAN,
             at \in SampledTimes :
               ProcessQueuedDelivery(w, e, receive, real, at)
    BY <1>3
  <2>. DEFINE call == [kind |-> "queue", real |-> real, receive |-> receive]
              decision == QueuedDecision(e, real, at)
  <2>2. call \in Call
    BY DeliveryAssumption DEF Call
  <2>3. /\ decision \in {"claim", "missed"} => e \in Due(real, at)
        /\ decision = "missed" => Overdue(e, at)
        /\ decision = "reclaim" =>
             status[e] = "processing" /\ LatestIs(e, Failed("QueueRetryable"))
    BY DEF QueuedDecision, RetryDecision, Statuses, Terminal
  <2>4. CASE decision = "claim" /\ ClaimLocked(w, call, {e}, {})
    <3>1. Claims(call, {e}, {})
      BY <2>3, <2>4, <1>0 DEF Due
    <3>. QED BY <2>2, <3>1
  <2>5. CASE decision = "missed" /\ ClaimLocked(w, call, {e}, {e})
    <3>1. Claims(call, {e}, {e})
      BY <2>3, <2>5, <1>0 DEF Due
    <3>. QED BY <2>2, <3>1
  <2>6. CASE decision = "reclaim" /\ ReclaimLocked(w, call, e)
    BY <2>2, <2>3, <2>6
  <2>. QED BY <2>1, <2>4, <2>5, <2>6 DEF ProcessQueuedDelivery
<1>. QED BY <1>1, <1>2, <1>3 DEF ClaimWork

\* Every step of an executor at work keeps the types.
LEMMA WorkType ==
  ASSUME TypeOK, NEW w \in Workers, Work(w)
  PROVE  TypeOK'
<1>. USE DEF TypeOK, SchedulingTypeOK, schedulingVars
<1>0. Idle \in Call
  BY DeliveryAssumption DEF Idle, Call
<1>1. CASE GetWeather(w)
  BY <1>1, AttemptTypes DEF GetWeather, Proceed
<1>2. CASE \E retryable \in BOOLEAN : WeatherFails(w, retryable)
  BY <1>2, AttemptTypes DEF WeatherFails, WeatherErrorCode, Proceed, Errors
<1>3. CASE SendDemo(w)
  BY <1>3, AttemptTypes DEF SendDemo, Proceed
<1>4. CASE SendFails(w)
  BY <1>4, AttemptTypes DEF SendFails, Proceed, Errors
<1>5. CASE \E answered \in BOOLEAN : SendReal(w, answered)
  BY <1>5, AttemptTypes DEF SendReal, Answer, Proceed, Errors, Current, Claim
<1>6. ASSUME NEW c \in held[w], Finish(w, c)
      PROVE  /\ held' \in [Workers -> SUBSET Claim]
             /\ op' \in [Workers -> Call]
             /\ step' \in [Workers -> {"idle", "weather", "send", "record"}]
             /\ result' \in [Workers -> Attempt]
             /\ UNCHANGED <<now, scheduledFor, channel, calls>>
  BY <1>0, <1>6, AttemptTypes DEF Finish
<1>7. CASE Record(w)
  <2>1. PICK c \in Current(w, "record") :
          /\ Recordable(c, result[w])
          /\ attempts' = [attempts EXCEPT ![c.event] =
                            [@ EXCEPT ![c.number] = result[w]]]
          /\ status' = IF result[w].error = "QueueRetryable" THEN status
                       ELSE [status EXCEPT ![c.event] = result[w].status]
          /\ Finish(w, c)
    BY <1>7 DEF Record
  <2>2. c \in held[w] /\ c \in Claim
    BY DEF Current
  <2>3. c.event \in Events /\ c.number \in 1 .. Len(attempts[c.event])
    BY <2>1, <2>2 DEF Claim, Recordable, AttemptIsOpen
  <2>4. attempts' \in [Events -> Seq(Attempt)]
    BY <2>1, <2>3, ReplaceAttempt
  <2>5. status' \in [Events -> Statuses]
    BY <2>1, <2>3 DEF Attempt, Statuses, Terminal
  <2>. QED BY <1>6, <2>1, <2>2, <2>4, <2>5
<1>8. CASE RecordFails(w)
  BY <1>6, <1>8 DEF RecordFails, Current
<1>9. CASE Crash(w)
  BY <1>0, <1>9, AttemptTypes DEF Crash
<1>. QED BY <1>1, <1>2, <1>3, <1>4, <1>5, <1>7, <1>8, <1>9 DEF Work

\* The services of Scheduling and the clock keep the types.
LEMMA SchedulingType ==
  ASSUME SchedulingTypeOK, SchedulingNext
  PROVE  SchedulingTypeOK'
BY TimeAssumption DEF SchedulingTypeOK, SchedulingNext, EditEvent, Tick,
  CreateScheduledEvent, CancelScheduledEvent, RescheduleScheduledEvent,
  ChangeScheduledEventChannel, Statuses, Terminal, Times, rowVars

\* The initial state is well typed: no rows, idle executors.
LEMMA InitType == Init => TypeOK
BY TimeAssumption, DeliveryAssumption, AttemptTypes
   DEF Init, SchedulingInit, TypeOK, SchedulingTypeOK, Times, Statuses,
       Channels, Idle, Call

\* The inductive step of the type invariant.
LEMMA NextType == TypeOK /\ [Next]_vars => TypeOK'
<1>. SUFFICES ASSUME TypeOK, [Next]_vars PROVE TypeOK'
  OBVIOUS
<1>1. CASE SchedulingNext /\ UNCHANGED deliveryVars
  BY <1>1, SchedulingType DEF TypeOK, deliveryVars
<1>2. ASSUME NEW w \in Workers, ClaimWork(w) PROVE TypeOK'
  BY <1>2, ClaimWorkCases, ClaimLockedType, ReclaimLockedType
<1>3. ASSUME NEW w \in Workers, Work(w) PROVE TypeOK'
  BY <1>3, WorkType
<1>4. CASE UNCHANGED vars
  BY <1>4 DEF vars, TypeOK, SchedulingTypeOK
<1>. QED BY <1>1, <1>2, <1>3, <1>4 DEF Next

\* Every variable keeps its type: the rows, the attempts and what each
\* executor holds are always values the code can build.
THEOREM TypeCorrect == Spec => []TypeOK
BY InitType, NextType, PTL DEF Spec

-----------------------------------------------------------------------------
(* The inductive invariant, event by event *)

\* What the safety invariants say of one event and of the claims of it
EventSafe(e) ==
  /\ SubmissionMatches(e)
  /\ AuditMatches(e)
  /\ AttemptsMatch(e)
  /\ \A w \in Workers : \A c \in held[w] :
       c.event = e => Owns(w, c) /\ Truthful(w, c)

Safe ==
  /\ ExclusiveClaims
  /\ SubmissionMatchesRow
  /\ AuditMatchesProvider
  /\ AttemptsMatchRow
  /\ OutcomeIsTruthful

IInv == TypeOK /\ Safe

\* The invariant speaks of one event at a time, each on its own.
LEMMA SafeIsPerEvent ==
  ASSUME TypeOK
  PROVE  Safe <=> \A e \in Events : EventSafe(e)
<1>1. \A w \in Workers : \A c \in held[w] : c.event \in Events
  BY DEF TypeOK, Claim
<1>. QED
  BY <1>1 DEF Safe, EventSafe, ExclusiveClaims, SubmissionMatchesRow,
     AuditMatchesProvider, AttemptsMatchRow, OutcomeIsTruthful

\* Without rows and claims there is nothing to be wrong.
LEMMA InitSafe == Init => \A e \in Events : EventSafe(e)
<1>. SUFFICES ASSUME Init, NEW e \in Events PROVE EventSafe(e)
  OBVIOUS
<1>1. /\ attempts[e] = <<>> /\ calls[e] = <<>> /\ status[e] = "absent"
      /\ \A w \in Workers : held[w] = {}
  BY DEF Init, SchedulingInit
<1>. QED
  BY <1>1, EmptySeq DEF EventSafe, SubmissionMatches, AuditMatches, AttemptsMatch

\* An event nobody has claimed yet was never sent and is held by nobody.
LEMMA PendingIsUntouched ==
  ASSUME NEW e \in Events, EventSafe(e),
         status[e] \in {"absent", "scheduled", "cancelled"}
  PROVE  /\ attempts[e] = <<>>
         /\ calls[e] = <<>>
         /\ \A w \in Workers : \A c \in held[w] : c.event # e
BY DEF EventSafe, Owns, AuditMatches, AttemptsMatch

\* The row of an event, its attempts and its accepted requests are left alone;
\* the clock may advance.
RowKept(e) ==
  /\ UNCHANGED <<status[e], scheduledFor[e], channel[e], attempts[e], calls[e]>>
  /\ now <= now'

\* No executor gains a claim of the event.
NoNewClaim(e) ==
  \A v \in Workers : \A d \in held'[v] : d.event = e => d \in held[v]

\* What is said of a row survives a step that leaves it alone.
LEMMA RowKeptSafe ==
  ASSUME TypeOK, TypeOK', NEW e \in Events, EventSafe(e), RowKept(e)
  PROVE  /\ SubmissionMatches(e)'
         /\ AuditMatches(e)'
         /\ AttemptsMatch(e)'
<1>. USE DEF EventSafe, RowKept
<1>1. SubmissionMatches(e)'
  BY DEF SubmissionMatches
<1>2. AuditMatches(e)'
  BY DEF AuditMatches, Latest
<1>3. scheduledFor[e] <= now => scheduledFor'[e] <= now'
  BY TimeAssumption DEF TypeOK, SchedulingTypeOK, Times
<1>4. AttemptsMatch(e)'
  BY <1>3 DEF AttemptsMatch, Latest
<1>. QED BY <1>1, <1>2, <1>4

\* What is said of an event survives a step that leaves its row alone and adds
\* no claim of it, if what its executor carries stays truthful.
LEMMA EventKept ==
  ASSUME TypeOK, TypeOK', NEW e \in Events, EventSafe(e), RowKept(e),
         NoNewClaim(e),
         \A w \in Workers : \A c \in held'[w] : c.event = e => Truthful(w, c)'
  PROVE  EventSafe(e)'
<1>1. ASSUME NEW w \in Workers, NEW c \in held'[w], c.event = e
      PROVE  Owns(w, c)'
  BY <1>1 DEF EventSafe, RowKept, NoNewClaim, Owns, LatestIs, Latest
<1>. QED BY <1>1, RowKeptSafe DEF EventSafe

\* An executor that does nothing carries what it did.
LEMMA TruthfulKept ==
  ASSUME NEW w \in Workers, NEW c \in held[w], Truthful(w, c), RowKept(c.event),
         UNCHANGED <<held[w], step[w], result[w]>>
  PROVE  Truthful(w, c)'
<1>1. c \in Current(w, "record")' <=> c \in Current(w, "record")
  BY DEF Current, IsFirst
<1>. QED BY <1>1 DEF Truthful, RowKept

\* At most one event of an executor is first in line.
LEMMA FirstIsOne ==
  ASSUME TypeOK, NEW w \in Workers, NEW c \in held[w], NEW d \in held[w],
         IsFirst(c, held[w]), IsFirst(d, held[w])
  PROVE  c.event = d.event
<1>1. /\ c.due \in Int /\ d.due \in Int
      /\ c.event \in Int /\ d.event \in Int
  <2>1. held \in [Workers -> SUBSET Claim]
    BY DEF TypeOK
  <2>2. c \in Claim /\ d \in Claim
    BY <2>1
  <2>3. c.due \in Times /\ d.due \in Times /\ c.event \in Events /\ d.event \in Events
    BY <2>2 DEF Claim
  <2>4. Events \subseteq Int
    BY EventsAssumption
  <2>5. Times \subseteq Int
    BY TimeAssumption DEF Times
  <2>. QED BY <2>3, <2>4, <2>5
<1>2. c.due < d.due \/ (c.due = d.due /\ c.event <= d.event)
  BY DEF IsFirst
<1>3. d.due < c.due \/ (d.due = c.due /\ d.event <= c.event)
  BY DEF IsFirst
<1>. QED BY <1>1, <1>2, <1>3

\* Edits reach only events that nobody has claimed; the clock only grows.
LEMMA SchedulingSafe ==
  ASSUME TypeOK, TypeOK', NEW e \in Events, EventSafe(e),
         SchedulingNext, UNCHANGED deliveryVars
  PROVE  EventSafe(e)'
<1>. USE DEF deliveryVars
<1>1. \/ RowKept(e)
      \/ /\ status[e] \in {"absent", "scheduled"}
         /\ status'[e] \in {"scheduled", "cancelled"}
  <2>1. CASE Tick
    BY <2>1, TimeAssumption
       DEF Tick, rowVars, Times, TypeOK, SchedulingTypeOK, RowKept
  <2>2. CASE EditEvent
    <3>1. \A f \in Events :
            \/ RowKept(f)
            \/ /\ status[f] \in {"absent", "scheduled"}
               /\ status'[f] \in {"scheduled", "cancelled"}
      <4>0. /\ now \in Nat
            /\ status \in [Events -> Statuses]
            /\ scheduledFor \in [Events -> Times]
            /\ channel \in [Events -> Channels]
        BY TimeAssumption DEF Times, TypeOK, SchedulingTypeOK
      <4>. SUFFICES ASSUME NEW f \in Events, ~RowKept(f)
                    PROVE  /\ status[f] \in {"absent", "scheduled"}
                           /\ status'[f] \in {"scheduled", "cancelled"}
        OBVIOUS
      <4>1. PICK g \in Events :
              \/ \E due \in Times, ch \in Channels : CreateScheduledEvent(g, due, ch)
              \/ CancelScheduledEvent(g)
              \/ \E due \in Times : RescheduleScheduledEvent(g, due)
              \/ \E ch \in Channels : ChangeScheduledEventChannel(g, ch)
        BY <2>2 DEF EditEvent
      <4>2. f = g
        BY <4>0, <4>1 DEF RowKept, CreateScheduledEvent, CancelScheduledEvent,
           RescheduleScheduledEvent, ChangeScheduledEventChannel
      <4>. QED
        BY <4>0, <4>1, <4>2 DEF CreateScheduledEvent, CancelScheduledEvent,
           RescheduleScheduledEvent, ChangeScheduledEventChannel
    <3>. QED BY <3>1
  <2>. QED BY <2>1, <2>2 DEF SchedulingNext
<1>2. CASE RowKept(e)
  <2>1. \A w \in Workers : \A c \in held'[w] : c.event = e => Truthful(w, c)'
    BY <1>2, TruthfulKept DEF EventSafe
  <2>. QED BY <1>2, <2>1, EventKept DEF NoNewClaim
<1>3. CASE status[e] \in {"absent", "scheduled"}
           /\ status'[e] \in {"scheduled", "cancelled"}
  <2>1. /\ attempts'[e] = <<>> /\ calls'[e] = <<>>
        /\ \A w \in Workers : \A c \in held'[w] : c.event # e
    BY <1>3, PendingIsUntouched
  <2>. QED
    BY <1>3, <2>1, EmptySeq
       DEF EventSafe, SubmissionMatches, AuditMatches, AttemptsMatch
<1>. QED BY <1>1, <1>2, <1>3

\* A claiming transaction finds its events pending, so nobody held or sent them,
\* and every claim it creates owns its event.
LEMMA ClaimLockedSafe ==
  ASSUME TypeOK, TypeOK', NEW e \in Events, EventSafe(e),
         NEW w \in Workers, NEW call \in Call,
         NEW S \in SUBSET Events, NEW missed \in SUBSET S,
         \A f \in S : status[f] = "scheduled" /\ scheduledFor[f] <= now,
         ClaimLocked(w, call, S, missed)
  PROVE  EventSafe(e)'
<1>. DEFINE fresh == S \ missed
<1>1. /\ \A v \in Workers \ {w} : UNCHANGED <<held[v], step[v]>>
      /\ held'[w] = {ClaimOf(f) : f \in fresh}
      /\ step'[w] # "record"
      /\ UNCHANGED <<now, scheduledFor, channel, calls, result>>
  BY DEF ClaimLocked, Begin, TypeOK
<1>2. \A f : ClaimOf(f).event = f /\ ClaimOf(f).channel = channel[f]
  BY DEF ClaimOf
<1>3. CASE e \notin S
  <2>1. RowKept(e)
    BY <1>3, TimeAssumption
       DEF ClaimLocked, Begin, RowKept, TypeOK, SchedulingTypeOK, Times
  <2>2. ASSUME NEW v \in Workers, NEW c \in held'[v], c.event = e
        PROVE  v # w /\ c \in held[v]
    BY <1>1, <1>2, <1>3, <2>2
  <2>3. ASSUME NEW v \in Workers, NEW c \in held'[v], c.event = e
        PROVE  Truthful(v, c)'
    BY <1>1, <2>1, <2>2, <2>3, TruthfulKept DEF EventSafe
  <2>. QED BY <2>1, <2>2, <2>3, EventKept DEF NoNewClaim
<1>4. CASE e \in S
  <2>1. /\ attempts[e] = <<>>
        /\ calls'[e] = <<>>
        /\ scheduledFor'[e] <= now'
        /\ \A v \in Workers : \A c \in held[v] : c.event # e
    BY <1>1, <1>4, PendingIsUntouched
  <2>. DEFINE a == IF e \in missed THEN Failed("MissedDeliveryWindow") ELSE Open
  <2>2. a \in Attempt
    BY AttemptTypes DEF Errors
  <2>3. attempts'[e] = Append(attempts[e], a)
    BY <1>4 DEF ClaimLocked
  <2>. HIDE DEF a
  <2>4. /\ attempts'[e] # <<>>
        /\ Len(attempts'[e]) = 1
        /\ attempts'[e][1] = a
        /\ Latest(e)' = a
    BY <2>1, <2>2, <2>3, FirstElement DEF Latest
  <2>5. /\ e \in missed => status'[e] = "failed"
        /\ e \notin missed => status'[e] = "processing"
    BY <1>4 DEF ClaimLocked
  <2>6. SubmissionMatches(e)' /\ AuditMatches(e)'
    BY <2>1, <2>5, EmptySeq DEF SubmissionMatches, AuditMatches
  <2>7. AttemptsMatch(e)'
    <3>1. Len(attempts'[e]) - 1 = 0
      BY <2>4
    <3>. QED BY <2>1, <2>4, <2>5, <3>1 DEF AttemptsMatch, Failed, a
  <2>8. ASSUME NEW v \in Workers, NEW c \in held'[v], c.event = e
        PROVE  Owns(v, c)' /\ Truthful(v, c)'
    <3>1. v = w /\ e \in fresh /\ c = ClaimOf(e)
      BY <1>1, <1>2, <2>1, <2>8
    <3>2. \A u \in Workers : \A d \in held'[u] : d.event = e => u = w /\ d = c
      BY <1>1, <1>2, <2>1, <3>1
    <3>3. c.number = 1
      BY <2>1, <3>1, EmptySeq DEF ClaimOf
    <3>4. Owns(v, c)'
      BY <2>4, <2>5, <2>8, <3>1, <3>2, <3>3 DEF Owns, LatestIs, a
    <3>5. Truthful(v, c)'
      BY <1>1, <1>2, <2>1, <2>8, <3>1 DEF Truthful, Current
    <3>. QED BY <3>4, <3>5
  <2>. QED BY <2>6, <2>7, <2>8 DEF EventSafe
<1>. QED BY <1>3, <1>4

\* The claim of a retry: the event's last executor recorded a retryable failure,
\* so nobody holds it and nothing was accepted.
LEMMA ReclaimLockedSafe ==
  ASSUME TypeOK, TypeOK', NEW e \in Events, EventSafe(e),
         NEW w \in Workers, NEW call \in Call, NEW f \in Events,
         status[f] = "processing", LatestIs(f, Failed("QueueRetryable")),
         ReclaimLocked(w, call, f)
  PROVE  EventSafe(e)'
<1>1. /\ UNCHANGED <<now, status, scheduledFor, channel, calls, result>>
      /\ \A v \in Workers \ {w} : UNCHANGED <<held[v], step[v]>>
      /\ held'[w] = {ClaimOf(f)}
      /\ step'[w] # "record"
  BY DEF ReclaimLocked, Begin, TypeOK, schedulingVars
<1>2. ClaimOf(f).event = f /\ ClaimOf(f).channel = channel[f]
  BY DEF ClaimOf
<1>3. CASE e # f
  <2>1. RowKept(e)
    BY <1>3, TimeAssumption
       DEF ReclaimLocked, Begin, RowKept, TypeOK, SchedulingTypeOK,
           schedulingVars, Times
  <2>2. ASSUME NEW v \in Workers, NEW c \in held'[v], c.event = e
        PROVE  v # w /\ c \in held[v]
    BY <1>1, <1>2, <1>3, <2>2
  <2>3. ASSUME NEW v \in Workers, NEW c \in held'[v], c.event = e
        PROVE  Truthful(v, c)'
    BY <1>1, <2>1, <2>2, <2>3, TruthfulKept DEF EventSafe
  <2>. QED BY <2>1, <2>2, <2>3, EventKept DEF NoNewClaim
<1>4. CASE e = f
  <2>1. /\ calls'[e] = <<>>
        /\ \A v \in Workers : \A c \in held[v] : c.event # e
    <3>1. Failed("QueueRetryable") \notin {Open, Submitted, Failed("SenderError")}
      BY DEF Failed, Open, Submitted
    <3>. QED
      BY <1>1, <1>4, <3>1 DEF EventSafe, AuditMatches, Owns, LatestIs
  <2>2. /\ attempts'[e] \in Seq(Attempt)
        /\ Len(attempts'[e]) = Len(attempts[e]) + 1
        /\ attempts'[e] # <<>>
        /\ Latest(e)' = Open
        /\ \A n \in 1 .. Len(attempts[e]) : attempts'[e][n] = attempts[e][n]
    <3>1. attempts[e] \in Seq(Attempt) /\ Open \in Attempt
      BY AttemptTypes DEF TypeOK
    <3>2. attempts'[e] = Append(attempts[e], Open)
      BY <1>4 DEF ReclaimLocked, TypeOK
    <3>. QED BY <3>1, <3>2, AppendAttempt DEF Latest
  <2>3. SubmissionMatches(e)' /\ AuditMatches(e)'
    BY <1>1, <1>4, <2>1, EmptySeq DEF SubmissionMatches, AuditMatches
  <2>4. \A n \in 1 .. Len(attempts'[e]) - 1 :
          attempts'[e][n] = Failed("QueueRetryable")
    <3>1. /\ Len(attempts[e]) \in Nat
          /\ Latest(e) = Failed("QueueRetryable")
          /\ \A n \in 1 .. Len(attempts[e]) - 1 :
               attempts[e][n] = Failed("QueueRetryable")
      <4>1. AttemptsMatch(e)
        BY DEF EventSafe
      <4>2. \A n \in 1 .. Len(attempts[e]) - 1 :
              attempts[e][n] = Failed("QueueRetryable")
        BY <4>1 DEF AttemptsMatch
      <4>3. Latest(e) = Failed("QueueRetryable")
        BY <1>4 DEF LatestIs
      <4>4. attempts[e] \in Seq(Attempt)
        BY DEF TypeOK
      <4>. QED BY <4>2, <4>3, <4>4
    <3>. QED BY <2>2, <3>1 DEF Latest
  <2>5. AttemptsMatch(e)'
    BY <1>1, <1>4, <2>2, <2>4 DEF EventSafe, AttemptsMatch, LatestIs
  <2>6. ASSUME NEW v \in Workers, NEW c \in held'[v], c.event = e
        PROVE  Owns(v, c)' /\ Truthful(v, c)'
    <3>1. /\ v = w /\ c = ClaimOf(e)
          /\ c.number = Len(attempts'[e])
          /\ c.channel = channel[e]
      BY <1>1, <1>2, <1>4, <2>1, <2>2, <2>6 DEF ClaimOf
    <3>2. \A u \in Workers : \A d \in held'[u] : d.event = e => u = w /\ d = c
      BY <1>1, <1>4, <2>1, <3>1
    <3>3. Owns(v, c)'
      BY <1>1, <1>4, <2>2, <2>6, <3>1, <3>2 DEF Owns, LatestIs
    <3>4. Truthful(v, c)'
      BY <1>1, <2>1, <2>6, <3>1 DEF Truthful, Current
    <3>. QED BY <3>3, <3>4
  <2>. QED BY <2>3, <2>5, <2>6 DEF EventSafe
<1>. QED BY <1>3, <1>4

\* Before the record step nothing was accepted for any claim of the executor.
LEMMA NothingSentYet ==
  ASSUME NEW e \in Events, EventSafe(e), NEW w \in Workers, NEW c \in held[w],
         c.event = e, step[w] # "record" \/ ~IsFirst(c, held[w])
  PROVE  calls[e] = <<>> /\ c.channel = channel[e]
BY DEF EventSafe, Truthful, Current

\* A step that only advances an executor: what it is about to record for the
\* event must be truthful.
LEMMA NoCallSafe ==
  ASSUME TypeOK, TypeOK', NEW e \in Events, EventSafe(e), NEW w \in Workers,
         NEW next \in {"send", "record"}, NEW outcome, Proceed(w, next, outcome),
         UNCHANGED calls, step[w] # "record",
         \A c \in held[w] : c.event = e /\ next = "record" /\ IsFirst(c, held[w]) =>
           \/ outcome = Suppressed /\ e \in DemoEvents
           \/ outcome.status = "failed"
  PROVE  EventSafe(e)'
<1>1. /\ UNCHANGED <<schedulingVars, attempts, held>>
      /\ step'[w] = next /\ result'[w] = outcome
      /\ \A v \in Workers \ {w} : UNCHANGED <<step[v], result[v]>>
  BY DEF Proceed, TypeOK
<1>2. RowKept(e) /\ NoNewClaim(e)
  BY <1>1, TimeAssumption
     DEF RowKept, NoNewClaim, schedulingVars, TypeOK, SchedulingTypeOK, Times
<1>3. ASSUME NEW v \in Workers, NEW c \in held'[v], c.event = e
      PROVE  Truthful(v, c)'
  <2>1. CASE v # w
    BY <1>1, <1>2, <1>3, <2>1, TruthfulKept DEF EventSafe
  <2>2. CASE v = w
    <3>1. calls'[e] = <<>> /\ c.channel = channel'[e]
      BY <1>1, <1>3, <2>2, NothingSentYet DEF schedulingVars
    <3>. QED BY <1>1, <1>3, <2>2, <3>1 DEF Truthful, Current
  <2>. QED BY <2>1, <2>2
<1>. QED BY <1>2, <1>3, EventKept

\* A submission is the first request of its event, on the channel of the row,
\* and the executor turns to recording it.
LEMMA SendRealSafe ==
  ASSUME TypeOK, TypeOK', NEW e \in Events, EventSafe(e), NEW w \in Workers,
         NEW answered \in BOOLEAN, SendReal(w, answered)
  PROVE  EventSafe(e)'
<1>. DEFINE outcome == IF answered THEN Submitted ELSE Failed("SenderError")
<1>1. PICK c \in Current(w, "send") :
        /\ c.event \notin DemoEvents
        /\ calls' = [calls EXCEPT ![c.event] = Append(@, c.channel)]
        /\ Proceed(w, "record", outcome)
  BY DEF SendReal, Answer
<1>2. /\ c \in held[w] /\ c.event \in Events /\ c.channel \in Channels
      /\ step[w] = "send" /\ IsFirst(c, held[w])
  BY <1>1 DEF Current, TypeOK, Claim
<1>3. /\ UNCHANGED <<schedulingVars, attempts, held>>
      /\ step'[w] = "record" /\ result'[w] = outcome
      /\ \A v \in Workers \ {w} : UNCHANGED <<step[v], result[v]>>
  BY <1>1 DEF Proceed, TypeOK
<1>4. CASE e # c.event
  <2>1. RowKept(e) /\ NoNewClaim(e)
    BY <1>1, <1>3, <1>4, TimeAssumption
       DEF RowKept, NoNewClaim, schedulingVars, TypeOK, SchedulingTypeOK, Times
  <2>2. ASSUME NEW v \in Workers, NEW d \in held'[v], d.event = e
        PROVE  Truthful(v, d)'
    <3>1. CASE v # w
      BY <1>3, <2>1, <2>2, <3>1, TruthfulKept DEF EventSafe
    <3>2. CASE v = w
      <4>1. d \in held[w] /\ ~IsFirst(d, held[w])
        BY <1>2, <1>3, <1>4, <2>2, <3>2, FirstIsOne
      <4>2. calls'[e] = <<>> /\ d.channel = channel'[e]
        BY <1>3, <2>1, <2>2, <4>1, NothingSentYet DEF RowKept
      <4>. QED BY <1>3, <2>2, <3>2, <4>1, <4>2 DEF Truthful, Current
    <3>. QED BY <3>1, <3>2
  <2>. QED BY <2>1, <2>2, EventKept
<1>5. CASE e = c.event
  <2>1. Owns(w, c) /\ calls[e] = <<>> /\ c.channel = channel[e]
    BY <1>2, <1>5, NothingSentYet DEF EventSafe
  <2>2. /\ Len(calls'[e]) = 1
        /\ calls'[e] # <<>>
        /\ calls'[e][1] = c.channel
    <3>1. calls'[e] = Append(<<>>, c.channel)
      BY <1>1, <1>5, <2>1 DEF TypeOK
    <3>. QED BY <1>2, <3>1, FirstElement
  <2>3. UNCHANGED <<now, status[e], channel[e], scheduledFor[e], attempts[e]>>
    BY <1>3 DEF schedulingVars
  <2>4. SubmissionMatches(e)'
    BY <1>1, <1>5, <2>1, <2>2, <2>3 DEF SubmissionMatches
  <2>5. AuditMatches(e)'
    BY <1>5, <2>1, <2>2, <2>3 DEF AuditMatches, Owns, LatestIs, Latest
  <2>6. AttemptsMatch(e)'
    BY <2>3 DEF EventSafe, AttemptsMatch, Latest
  <2>7. ASSUME NEW v \in Workers, NEW d \in held'[v], d.event = e
        PROVE  Owns(v, d)' /\ Truthful(v, d)'
    <3>1. v = w /\ d = c
      BY <1>3, <1>5, <2>1, <2>7 DEF Owns
    <3>2. Owns(v, d)'
      BY <1>3, <1>5, <2>1, <2>3, <3>1 DEF Owns, LatestIs, Latest
    <3>3. Truthful(v, d)'
      BY <1>2, <1>3, <1>5, <2>1, <2>2, <2>3, <3>1 DEF Truthful, Current, Failed
    <3>. QED BY <3>2, <3>3
  <2>. QED BY <2>4, <2>5, <2>6, <2>7 DEF EventSafe
<1>. QED BY <1>4, <1>5

\* After a claim is finished its executor carries nothing to record, and
\* nothing was accepted for the claims it has left.
LEMMA FinishSafe ==
  ASSUME TypeOK, TypeOK', NEW e \in Events, EventSafe(e),
         NEW w \in Workers, NEW c \in Current(w, "record"), Finish(w, c)
  PROVE  /\ c.event = e => \A v \in Workers : \A d \in held'[v] : d.event # e
         /\ c.event # e /\ UNCHANGED <<status[e], attempts[e]>> => EventSafe(e)'
<1>1. c \in held[w] /\ step[w] = "record" /\ IsFirst(c, held[w])
  BY DEF Current
<1>2. /\ held'[w] = held[w] \ {c}
      /\ step'[w] # "record"
      /\ \A v \in Workers \ {w} : UNCHANGED <<held[v], step[v], result[v]>>
      /\ UNCHANGED <<now, scheduledFor, channel, calls>>
  BY DEF Finish, TypeOK
<1>3. NoNewClaim(e)
  BY <1>2 DEF NoNewClaim
<1>4. ASSUME c.event = e, NEW v \in Workers, NEW d \in held'[v] PROVE d.event # e
  BY <1>1, <1>2, <1>3, <1>4 DEF EventSafe, Owns, NoNewClaim
<1>5. ASSUME c.event # e, UNCHANGED <<status[e], attempts[e]>> PROVE EventSafe(e)'
  <2>1. RowKept(e)
    BY <1>2, <1>5, TimeAssumption DEF RowKept, TypeOK, SchedulingTypeOK, Times
  <2>2. ASSUME NEW v \in Workers, NEW d \in held'[v], d.event = e
        PROVE  Truthful(v, d)'
    <3>1. CASE v # w
      BY <1>2, <2>1, <2>2, <3>1, TruthfulKept DEF EventSafe
    <3>2. CASE v = w
      <4>1. d \in held[w] /\ ~IsFirst(d, held[w])
        BY <1>1, <1>2, <1>5, <2>2, <3>2, FirstIsOne
      <4>2. calls'[e] = <<>> /\ d.channel = channel'[e]
        BY <1>2, <2>2, <4>1, NothingSentYet
      <4>. QED BY <1>2, <2>2, <3>2, <4>2 DEF Truthful, Current
    <3>. QED BY <3>1, <3>2
  <2>. QED BY <1>3, <2>1, <2>2, EventKept
<1>. QED BY <1>4, <1>5

\* The executor that records owns the event, so both rows move together, and it
\* drops the claim with the same step.
LEMMA RecordSafe ==
  ASSUME TypeOK, TypeOK', NEW e \in Events, EventSafe(e), NEW w \in Workers,
         Record(w)
  PROVE  EventSafe(e)'
<1>1. PICK c \in Current(w, "record") :
        /\ Recordable(c, result[w])
        /\ attempts' = [attempts EXCEPT ![c.event] =
                          [@ EXCEPT ![c.number] = result[w]]]
        /\ status' = IF result[w].error = "QueueRetryable" THEN status
                     ELSE [status EXCEPT ![c.event] = result[w].status]
        /\ Finish(w, c)
  BY DEF Record
<1>2. c \in held[w] /\ c.event \in Events
  BY DEF Current, TypeOK, Claim
<1>3. CASE e # c.event
  <2>1. UNCHANGED <<status[e], attempts[e]>>
    BY <1>1, <1>3 DEF TypeOK, SchedulingTypeOK
  <2>. QED BY <1>1, <1>3, <2>1, FinishSafe
<1>4. CASE e = c.event
  <2>1. Owns(w, c) /\ Truthful(w, c)
    BY <1>2, <1>4 DEF EventSafe
  <2>2. /\ attempts[e] \in Seq(Attempt) /\ Len(attempts[e]) \in Nat \ {0}
        /\ c.number = Len(attempts[e])
        /\ result[w] \in Attempt
        /\ status[e] = "processing"
    BY <1>2, <1>4, <2>1, EmptySeq DEF TypeOK, Owns, LatestIs
  <2>3. /\ Len(attempts'[e]) = Len(attempts[e])
        /\ attempts'[e] # <<>>
        /\ Latest(e)' = result[w]
        /\ \A n \in 1 .. Len(attempts[e]) - 1 : attempts'[e][n] = attempts[e][n]
    <3>1. attempts'[e] = [attempts[e] EXCEPT ![c.number] = result[w]]
      BY <1>1, <1>4 DEF TypeOK
    <3>. QED BY <2>2, <3>1, ReplaceAttempt DEF Latest
  <2>4. UNCHANGED <<now, scheduledFor, channel, calls>>
    BY <1>1 DEF Finish
  <2>5. /\ SubmissionMatches(e)
        /\ scheduledFor[e] <= now
        /\ \A n \in 1 .. Len(attempts[e]) - 1 :
             attempts[e][n] = Failed("QueueRetryable")
    BY <2>2 DEF EventSafe, AttemptsMatch
  <2>6. /\ calls[e] # <<>> => result[w] \in {Submitted, Failed("SenderError")}
        /\ \/ result[w] = Submitted /\ calls[e] # <<>>
           \/ result[w] = Suppressed /\ e \in DemoEvents
           \/ result[w].status = "failed"
    BY <1>1, <1>4, <2>1 DEF Truthful
  <2>7. SubmissionMatches(e)'
    BY <2>4, <2>5 DEF SubmissionMatches
  <2>8. AuditMatches(e)' /\ AttemptsMatch(e)'
    <3>1. CASE result[w].error = "QueueRetryable"
      <4>1. result[w] = Failed("QueueRetryable")
        BY <2>2, <2>6, <3>1 DEF Attempt, Failed, Submitted, Suppressed
      <4>2. calls[e] = <<>>
        BY <2>6, <3>1 DEF Submitted, Failed
      <4>3. status'[e] = "processing"
        BY <1>1, <2>2, <3>1
      <4>. QED
        BY <2>3, <2>4, <2>5, <4>1, <4>2, <4>3 DEF AuditMatches, AttemptsMatch
    <3>2. CASE result[w].error # "QueueRetryable"
      <4>1. status'[e] = result[w].status
        BY <1>1, <1>4, <3>2 DEF TypeOK, SchedulingTypeOK
      <4>2. result[w] # Failed("QueueRetryable")
        BY <3>2 DEF Failed
      <4>3. /\ result[w].status \in {"submitted", "failed", "suppressed"}
            /\ result[w].status = "submitted" => calls[e] # <<>>
        BY <2>6 DEF Submitted, Suppressed
      <4>4. AuditMatches(e)'
        BY <2>3, <2>4, <2>6, <4>1, <4>3 DEF AuditMatches
      <4>5. AttemptsMatch(e)'
        BY <2>3, <2>4, <2>5, <4>1, <4>2, <4>3 DEF AttemptsMatch
      <4>. QED BY <4>4, <4>5
    <3>. QED BY <3>1, <3>2
  <2>9. \A v \in Workers : \A d \in held'[v] : d.event # e
    BY <1>1, <1>4, FinishSafe
  <2>. QED BY <2>7, <2>8, <2>9 DEF EventSafe
<1>. QED BY <1>3, <1>4

\* A rolled back record leaves the rows as they are and nobody with the event.
LEMMA RecordFailsSafe ==
  ASSUME TypeOK, TypeOK', NEW e \in Events, EventSafe(e), NEW w \in Workers,
         RecordFails(w)
  PROVE  EventSafe(e)'
<1>1. PICK c \in Current(w, "record") : Finish(w, c) /\ UNCHANGED <<status, attempts>>
  BY DEF RecordFails
<1>2. CASE c.event # e
  BY <1>1, <1>2, FinishSafe
<1>3. CASE c.event = e
  <2>1. \A v \in Workers : \A d \in held'[v] : d.event # e
    BY <1>1, <1>3, FinishSafe
  <2>2. RowKept(e)
    BY <1>1, TimeAssumption
       DEF Finish, RowKept, TypeOK, SchedulingTypeOK, Times
  <2>. QED BY <2>1, <2>2, EventKept DEF NoNewClaim
<1>. QED BY <1>2, <1>3

\* A crash only takes claims away.
LEMMA CrashSafe ==
  ASSUME TypeOK, TypeOK', NEW e \in Events, EventSafe(e), NEW w \in Workers,
         Crash(w)
  PROVE  EventSafe(e)'
<1>1. RowKept(e)
  BY TimeAssumption
     DEF Crash, schedulingVars, RowKept, TypeOK, SchedulingTypeOK, Times
<1>2. /\ held'[w] = {}
      /\ \A v \in Workers \ {w} : UNCHANGED <<held[v], step[v], result[v]>>
  BY DEF Crash, TypeOK
<1>3. \A v \in Workers : \A d \in held'[v] : d.event = e => Truthful(v, d)'
  BY <1>1, <1>2, TruthfulKept DEF EventSafe
<1>. QED BY <1>1, <1>2, <1>3, EventKept DEF NoNewClaim

\* Every step of an executor at work keeps every event safe.
LEMMA WorkSafe ==
  ASSUME TypeOK, TypeOK', NEW e \in Events, EventSafe(e), NEW w \in Workers,
         Work(w)
  PROVE  EventSafe(e)'
<1>1. CASE GetWeather(w)
  BY <1>1, NoCallSafe DEF GetWeather, Current
<1>2. CASE \E retryable \in BOOLEAN : WeatherFails(w, retryable)
  BY <1>2, NoCallSafe DEF WeatherFails, Current, Failed
<1>3. CASE SendDemo(w)
  <2>1. PICK c \in Current(w, "send") : /\ c.event \in DemoEvents
                                        /\ Proceed(w, "record", Suppressed)
                                        /\ UNCHANGED calls
    BY <1>3 DEF SendDemo
  <2>2. /\ step[w] = "send"
        /\ \A d \in held[w] : d.event = e /\ IsFirst(d, held[w]) => e \in DemoEvents
    BY <2>1, FirstIsOne DEF Current
  <2>. QED BY <2>1, <2>2, NoCallSafe
<1>4. CASE SendFails(w)
  BY <1>4, NoCallSafe DEF SendFails, Current, Failed
<1>5. CASE \E answered \in BOOLEAN : SendReal(w, answered)
  BY <1>5, SendRealSafe
<1>6. CASE Record(w)
  BY <1>6, RecordSafe
<1>7. CASE RecordFails(w)
  BY <1>7, RecordFailsSafe
<1>8. CASE Crash(w)
  BY <1>8, CrashSafe
<1>. QED BY <1>1, <1>2, <1>3, <1>4, <1>5, <1>6, <1>7, <1>8 DEF Work

\* Every step keeps each event safe by itself, whatever is wrong with others.
LEMMA NextEventSafe ==
  ASSUME TypeOK, NEW e \in Events, EventSafe(e), [Next]_vars
  PROVE  EventSafe(e)'
<1>0. TypeOK'
  BY NextType
<1>1. CASE SchedulingNext /\ UNCHANGED deliveryVars
  BY <1>0, <1>1, SchedulingSafe
<1>2. ASSUME NEW w \in Workers, ClaimWork(w) PROVE EventSafe(e)'
  BY <1>0, <1>2, ClaimWorkCases, ClaimLockedSafe, ReclaimLockedSafe
<1>3. ASSUME NEW w \in Workers, Work(w) PROVE EventSafe(e)'
  BY <1>0, <1>3, WorkSafe
<1>4. CASE UNCHANGED vars
  <2>1. RowKept(e) /\ NoNewClaim(e)
    BY <1>4, TimeAssumption
       DEF vars, RowKept, NoNewClaim, TypeOK, SchedulingTypeOK, Times
  <2>2. \A v \in Workers : \A c \in held'[v] : c.event = e => Truthful(v, c)'
    BY <1>4, <2>1, TruthfulKept DEF vars, EventSafe
  <2>. QED BY <1>0, <2>1, <2>2, EventKept
<1>. QED BY <1>1, <1>2, <1>3, <1>4 DEF Next

\* The inductive step: the type invariant and Safe are preserved together.
LEMMA NextIInv == IInv /\ [Next]_vars => IInv'
<1>. SUFFICES ASSUME TypeOK, Safe, [Next]_vars PROVE TypeOK' /\ Safe'
  BY DEF IInv
<1>1. TypeOK'
  BY NextType
<1>2. \A e \in Events : EventSafe(e)'
  BY NextEventSafe, SafeIsPerEvent
<1>3. (Safe <=> \A e \in Events : EventSafe(e))'
  BY <1>1, SafeIsPerEvent, PTL
<1>. QED BY <1>1, <1>2, <1>3

\* The inductive invariant holds throughout: the types and, jointly, the five
\* safety invariants, of which none is inductive by itself.
THEOREM Invariance == Spec => []IInv
<1>1. Init => IInv
  BY InitType, InitSafe, SafeIsPerEvent DEF IInv
<1>. QED BY <1>1, NextIInv, PTL DEF Spec

\* An event has at most one owner, who holds its open latest attempt, for any
\* number of executors and any duplication of messages.
THEOREM ClaimsAreExclusive == Spec => []ExclusiveClaims
<1>1. IInv => ExclusiveClaims
  BY DEF IInv, Safe
<1>. QED BY <1>1, Invariance, PTL

\* A provider accepts at most one request per event, on the row's channel,
\* and none for a demo event.
THEOREM AtMostOneSubmission == Spec => []SubmissionMatchesRow
<1>1. IInv => SubmissionMatchesRow
  BY DEF IInv, Safe
<1>. QED BY <1>1, Invariance, PTL

\* An accepted request is never reported as something else, nor a submission
\* without one.
THEOREM AuditIsTruthful == Spec => []AuditMatchesProvider
<1>1. IInv => AuditMatchesProvider
  BY DEF IInv, Safe
<1>. QED BY <1>1, Invariance, PTL

\* The attempt history and the event row always agree.
THEOREM AttemptsAgreeWithRow == Spec => []AttemptsMatchRow
<1>1. IInv => AttemptsMatchRow
  BY DEF IInv, Safe
<1>. QED BY <1>1, Invariance, PTL

\* What an executor is about to record is what the provider did, whatever was
\* edited, retried or claimed by others since it made its request.
THEOREM OutcomesAreTruthful == Spec => []OutcomeIsTruthful
<1>1. IInv => OutcomeIsTruthful
  BY DEF IInv, Safe
<1>. QED BY <1>1, Invariance, PTL

\* The recording transaction always finds the rows as the executor left them,
\* so a transition check never discards the outcome of a delivery.
THEOREM RecordingSucceeds == Spec => []RecordIsNeverRefused
<1>1. IInv => RecordIsNeverRefused
  <2>. SUFFICES ASSUME IInv, NEW w \in Workers, NEW c \in Current(w, "record")
                PROVE  Recordable(c, result[w])
    BY DEF RecordIsNeverRefused
  <2>1. Owns(w, c) /\ c.event \in Events
    BY DEF Current, IInv, Safe, ExclusiveClaims, TypeOK, Claim
  <2>2. attempts[c.event] \in Seq(Attempt) /\ attempts[c.event] # <<>>
    BY <2>1 DEF IInv, TypeOK, Owns, LatestIs
  <2>3. c.number \in DOMAIN attempts[c.event]
    BY <2>1, <2>2, EmptySeq DEF Owns
  <2>. QED
    BY <2>1, <2>3 DEF Recordable, AttemptIsOpen, Owns, LatestIs, Latest, Open
<1>. QED BY <1>1, Invariance, PTL
=============================================================================
