------------------------- MODULE DeliveryRefinement -------------------------
(***************************************************************************)
(* What a single step of Delivery may do, for every value of its           *)
(* constants: the action properties of the workflow, and that every step   *)
(* is a step or a stutter of EventLifecycle.                               *)
(***************************************************************************)
EXTENDS DeliveryProofs

-----------------------------------------------------------------------------
(* The steps, by what they do to the rows *)

Quiet ==
  /\ UNCHANGED <<status, attempts, calls>>
  /\ \A w \in Workers : held'[w] \subseteq held[w]

Edited(e) ==
  /\ \/ status[e] = "absent" /\ status'[e] = "scheduled"
     \/ status[e] = "scheduled" /\ status'[e] = "cancelled"
  /\ \A f \in Events \ {e} : status'[f] = status[f]
  /\ UNCHANGED <<attempts, calls, held>>

Claimed(w, S, missed) ==
  /\ \A e \in S : status[e] = "scheduled" /\ attempts[e] = <<>> /\ calls[e] = <<>>
  /\ \A e \in missed : Overdue(e, now)
  /\ \E call \in Call : ClaimLocked(w, call, S, missed)

Reclaimed(w, e) ==
  /\ status[e] = "processing"
  /\ LatestIs(e, Failed("QueueRetryable"))
  /\ \E call \in Call : ReclaimLocked(w, call, e)

Accepted(w, c) ==
  /\ c \in held[w]
  /\ c.event \notin DemoEvents
  /\ calls[c.event] = <<>>
  /\ calls' = [calls EXCEPT ![c.event] = Append(@, c.channel)]
  /\ UNCHANGED <<status, attempts, held>>

Recorded(w, c) ==
  /\ c \in Current(w, "record")
  /\ Owns(w, c) /\ Truthful(w, c)
  /\ attempts' = [attempts EXCEPT ![c.event] = [@ EXCEPT ![c.number] = result[w]]]
  /\ status' = IF result[w].error = "QueueRetryable" THEN status
               ELSE [status EXCEPT ![c.event] = result[w].status]
  /\ UNCHANGED calls
  /\ \A v \in Workers : held'[v] \subseteq held[v]

StepKind ==
  \/ Quiet
  \/ \E e \in Events : Edited(e)
  \/ \E w \in Workers, S \in SUBSET Events : \E missed \in SUBSET S :
       Claimed(w, S, missed)
  \/ \E w \in Workers, e \in Events : Reclaimed(w, e)
  \/ \E w \in Workers : \E c \in held[w] : Accepted(w, c) \/ Recorded(w, c)

\* Every step is of one of these kinds.
LEMMA StepCases ==
  ASSUME IInv, [Next]_vars
  PROVE  StepKind
<1>. USE DEF IInv
<1>1. CASE SchedulingNext /\ UNCHANGED deliveryVars
  <2>1. Quiet \/ \E e \in Events : Edited(e)
    BY <1>1
       DEF SchedulingNext, EditEvent, Tick, rowVars, deliveryVars, Quiet, Edited,
           CreateScheduledEvent, CancelScheduledEvent, RescheduleScheduledEvent,
           ChangeScheduledEventChannel, TypeOK, SchedulingTypeOK
  <2>. QED BY <2>1 DEF StepKind
<1>2. ASSUME NEW w \in Workers, ClaimWork(w) PROVE StepKind
  <2>1. \/ \E S \in SUBSET Events : \E missed \in SUBSET S : Claimed(w, S, missed)
        \/ \E e \in Events : Reclaimed(w, e)
    <3>1. \A e \in Events : EventSafe(e)
      BY SafeIsPerEvent
    <3>. QED
      BY <1>2, <3>1, ClaimWorkCases, PendingIsUntouched DEF Claimed, Reclaimed
  <2>. QED BY <2>1 DEF StepKind
<1>3. ASSUME NEW w \in Workers, Work(w) PROVE StepKind
  <2>1. CASE Record(w)
    <3>1. PICK c \in Current(w, "record") :
            /\ attempts' = [attempts EXCEPT ![c.event] =
                              [@ EXCEPT ![c.number] = result[w]]]
            /\ status' = IF result[w].error = "QueueRetryable" THEN status
                         ELSE [status EXCEPT ![c.event] = result[w].status]
            /\ Finish(w, c)
      BY <2>1 DEF Record
    <3>2. c \in held[w] /\ Owns(w, c) /\ Truthful(w, c)
      BY DEF Current, Safe, ExclusiveClaims, OutcomeIsTruthful
    <3>3. UNCHANGED calls /\ \A v \in Workers : held'[v] \subseteq held[v]
      BY <3>1 DEF Finish, TypeOK
    <3>4. Recorded(w, c)
      BY <3>1, <3>2, <3>3 DEF Recorded
    <3>. QED BY <3>2, <3>4 DEF StepKind
  <2>2. CASE \E answered \in BOOLEAN : SendReal(w, answered)
    <3>1. PICK c \in Current(w, "send") :
            /\ c.event \notin DemoEvents
            /\ calls' = [calls EXCEPT ![c.event] = Append(@, c.channel)]
            /\ UNCHANGED <<status, attempts, held>>
      BY <2>2 DEF SendReal, Proceed, schedulingVars
    <3>2. c \in held[w] /\ calls[c.event] = <<>>
      BY DEF Current, Safe, OutcomeIsTruthful, Truthful
    <3>. QED BY <3>1, <3>2 DEF Accepted, StepKind
  <2>3. CASE ~Record(w) /\ ~\E answered \in BOOLEAN : SendReal(w, answered)
    <3>1. Quiet
      BY <1>3, <2>3
         DEF Work, GetWeather, WeatherFails, SendDemo, SendFails, RecordFails,
             Crash, Proceed, Finish, Current, schedulingVars, Quiet, TypeOK
    <3>. QED BY <3>1 DEF StepKind
  <2>. QED BY <2>1, <2>2, <2>3
<1>4. CASE UNCHANGED vars
  BY <1>4 DEF vars, Quiet, StepKind
<1>. QED BY <1>1, <1>2, <1>3, <1>4 DEF Next

-----------------------------------------------------------------------------
(* Action properties *)

\* The status of a row changes along ALLOWED_TRANSITIONS, or to failed with a
\* missed attempt.
LEMMA LegalStep ==
  ASSUME IInv, [Next]_vars, NEW e \in Events
  PROVE  LegalTransition(e)
<1>. USE DEF AllowedTransitions
<1>1. ASSUME Quiet PROVE LegalTransition(e)
  BY <1>1 DEF Quiet, LegalTransition
<1>2. ASSUME NEW f \in Events, Edited(f) PROVE LegalTransition(e)
  BY <1>2 DEF Edited, LegalTransition
<1>3. ASSUME NEW w \in Workers, NEW S \in SUBSET Events, NEW missed \in SUBSET S,
             Claimed(w, S, missed)
      PROVE  LegalTransition(e)
  <2>1. CASE e \in missed
    <3>1. attempts'[e] = Append(<<>>, Failed("MissedDeliveryWindow"))
      BY <1>3, <2>1 DEF Claimed, ClaimLocked
    <3>2. attempts'[e] = <<Failed("MissedDeliveryWindow")>>
      BY <3>1
    <3>3. calls'[e] = <<>>
      BY <1>3, <2>1 DEF Claimed, ClaimLocked, Begin
    <3>4. Overdue(e, now) /\ status[e] = "scheduled" /\ status'[e] = "failed"
      BY <1>3, <2>1 DEF Claimed, ClaimLocked
    <3>. QED BY <3>2, <3>3, <3>4 DEF LegalTransition
  <2>2. CASE e \notin missed
    BY <1>3, <2>2 DEF Claimed, ClaimLocked, LegalTransition
  <2>. QED BY <2>1, <2>2
<1>4. ASSUME NEW w \in Workers, NEW f \in Events, Reclaimed(w, f)
      PROVE  LegalTransition(e)
  BY <1>4 DEF Reclaimed, ReclaimLocked, schedulingVars, LegalTransition
<1>5. ASSUME NEW w \in Workers, NEW c \in held[w], Accepted(w, c)
      PROVE  LegalTransition(e)
  BY <1>5 DEF Accepted, LegalTransition
<1>6. ASSUME NEW w \in Workers, NEW c \in held[w], Recorded(w, c)
      PROVE  LegalTransition(e)
  <2>1. status[c.event] = "processing"
    BY <1>6 DEF Recorded, Owns
  <2>2. result[w].status \in {"submitted", "failed", "suppressed"}
    BY <1>6 DEF Recorded, Truthful, Submitted, Suppressed
  <2>. QED
    BY <1>6, <2>1, <2>2 DEF Recorded, LegalTransition, IInv, TypeOK, SchedulingTypeOK
<1>. QED
  BY <1>1, <1>2, <1>3, <1>4, <1>5, <1>6, StepCases DEF StepKind

\* Attempts are only appended, and only an open one is ever rewritten.
Kept(e) ==
  /\ Len(attempts[e]) <= Len(attempts'[e])
  /\ \A n \in DOMAIN attempts[e] :
       attempts[e][n] # Open => attempts'[e][n] = attempts[e][n]

\* Appending an attempt keeps the history.
LEMMA AppendKeeps ==
  ASSUME IInv, NEW e \in Events, NEW a \in Attempt,
         attempts'[e] = Append(attempts[e], a)
  PROVE  Kept(e)
<1>1. attempts[e] \in Seq(Attempt)
  BY DEF IInv, TypeOK
<1>. QED BY <1>1, AppendAttempt DEF Kept

\* Every step keeps the history of every event.
LEMMA HistoryStep ==
  ASSUME IInv, [Next]_vars, NEW e \in Events
  PROVE  Kept(e)
<1>0. attempts[e] \in Seq(Attempt)
  BY DEF IInv, TypeOK
<1>1. ASSUME attempts'[e] = attempts[e] PROVE Kept(e)
  BY <1>0, <1>1 DEF Kept
<1>2. ASSUME NEW w \in Workers, NEW S \in SUBSET Events, NEW missed \in SUBSET S,
             Claimed(w, S, missed)
      PROVE  Kept(e)
  <2>1. \/ attempts'[e] = attempts[e]
        \/ \E a \in {Open, Failed("MissedDeliveryWindow")} :
             attempts'[e] = Append(attempts[e], a)
    BY <1>2 DEF Claimed, ClaimLocked
  <2>2. {Open, Failed("MissedDeliveryWindow")} \subseteq Attempt
    BY AttemptTypes DEF Errors
  <2>. QED BY <1>1, <2>1, <2>2, AppendKeeps
<1>3. ASSUME NEW w \in Workers, NEW f \in Events, Reclaimed(w, f)
      PROVE  Kept(e)
  <2>1. attempts'[e] = attempts[e] \/ attempts'[e] = Append(attempts[e], Open)
    BY <1>3 DEF Reclaimed, ReclaimLocked, IInv, TypeOK
  <2>. QED BY <1>1, <2>1, AppendKeeps, AttemptTypes
<1>4. ASSUME NEW w \in Workers, NEW c \in held[w], Recorded(w, c)
      PROVE  Kept(e)
  <2>1. CASE c.event # e
    BY <1>1, <1>4, <2>1 DEF Recorded, IInv, TypeOK
  <2>2. CASE c.event = e
    <3>1. /\ c.number \in 1 .. Len(attempts[e])
          /\ attempts[e][c.number] = Open
          /\ result[w] \in Attempt
      BY <1>0, <1>4, <2>2, EmptySeq
         DEF Recorded, Owns, LatestIs, Latest, IInv, TypeOK
    <3>2. attempts'[e] = [attempts[e] EXCEPT ![c.number] = result[w]]
      BY <1>4, <2>2 DEF Recorded, IInv, TypeOK
    <3>. QED BY <1>0, <3>1, <3>2, ReplaceAttempt DEF Kept
  <2>. QED BY <2>1, <2>2
<1>5. Quiet \/ (\E f \in Events : Edited(f)) => attempts'[e] = attempts[e]
  BY DEF Quiet, Edited
<1>6. ASSUME NEW w \in Workers, NEW c \in held[w], Accepted(w, c)
      PROVE  attempts'[e] = attempts[e]
  BY <1>6 DEF Accepted
<1>. QED
  BY <1>1, <1>2, <1>3, <1>4, <1>5, <1>6, StepCases DEF StepKind

\* The time and channel of a row change only while it is absent or scheduled.
LEMMA ClaimedRowIsFixed ==
  ASSUME IInv, [Next]_vars, NEW e \in Events,
         status[e] \notin {"absent", "scheduled"}
  PROVE  UNCHANGED <<scheduledFor[e], channel[e]>>
<1>. USE DEF IInv, TypeOK, SchedulingTypeOK
<1>1. CASE SchedulingNext /\ UNCHANGED deliveryVars
  BY <1>1
     DEF SchedulingNext, EditEvent, Tick, rowVars, CreateScheduledEvent,
         CancelScheduledEvent, RescheduleScheduledEvent, ChangeScheduledEventChannel
<1>2. ASSUME NEW w \in Workers, ClaimWork(w)
      PROVE  UNCHANGED <<scheduledFor, channel>>
  BY <1>2, ClaimWorkCases DEF ClaimLocked, ReclaimLocked, schedulingVars
<1>3. ASSUME NEW w \in Workers, Work(w)
      PROVE  UNCHANGED <<scheduledFor, channel>>
  BY <1>3 DEF Work, GetWeather, WeatherFails, SendDemo, SendFails, SendReal,
              Record, RecordFails, Crash, Proceed, Finish, schedulingVars
<1>4. CASE UNCHANGED vars
  BY <1>4 DEF vars
<1>. QED BY <1>1, <1>2, <1>3, <1>4 DEF Next

\* Nothing reaches an event whose executor is gone.
Untouched(e) ==
  /\ Stranded(e)'
  /\ attempts'[e] = attempts[e]
  /\ calls'[e] = calls[e]
  /\ channel'[e] = channel[e]
  /\ scheduledFor'[e] = scheduledFor[e]

\* No step touches a stranded event: it is neither pending nor waiting for a
\* retry, and no executor is left that could record its outcome.
LEMMA QuarantineStep ==
  ASSUME IInv, [Next]_vars, NEW e \in Events, Stranded(e)
  PROVE  Untouched(e)
<1>. DEFINE NobodyClaims == \A v \in Workers : \A d \in held'[v] : d.event # e
<1>0. UNCHANGED <<scheduledFor[e], channel[e]>>
  BY ClaimedRowIsFixed DEF Stranded
<1>1. SUFFICES /\ UNCHANGED <<status[e], attempts[e], calls[e]>>
               /\ NobodyClaims
  BY <1>0 DEF Untouched, Stranded, LatestIs, Latest
<1>2. ASSUME \A v \in Workers : held'[v] \subseteq held[v]
      PROVE  NobodyClaims
  BY <1>2 DEF Stranded
<1>3. ASSUME Quiet
      PROVE  UNCHANGED <<status[e], attempts[e], calls[e]>> /\ NobodyClaims
  BY <1>2, <1>3 DEF Quiet
<1>4. ASSUME NEW f \in Events, Edited(f)
      PROVE  UNCHANGED <<status[e], attempts[e], calls[e]>> /\ NobodyClaims
  BY <1>2, <1>4 DEF Edited, Stranded
<1>5. ASSUME NEW w \in Workers, NEW S \in SUBSET Events, NEW missed \in SUBSET S,
             Claimed(w, S, missed)
      PROVE  UNCHANGED <<status[e], attempts[e], calls[e]>> /\ NobodyClaims
  <2>1. e \notin S
    BY <1>5 DEF Claimed, Stranded
  <2>2. UNCHANGED <<status[e], attempts[e], calls[e]>>
    BY <1>5, <2>1 DEF Claimed, ClaimLocked, Begin
  <2>3. \A v \in Workers : \A d \in held'[v] :
          d \in held[v] \/ \E f \in S : d = ClaimOf(f)
    BY <1>5 DEF Claimed, ClaimLocked, Begin, IInv, TypeOK
  <2>4. NobodyClaims
    BY <2>1, <2>3 DEF ClaimOf, Stranded
  <2>. QED BY <2>2, <2>4
<1>6. ASSUME NEW w \in Workers, NEW f \in Events, Reclaimed(w, f)
      PROVE  UNCHANGED <<status[e], attempts[e], calls[e]>> /\ NobodyClaims
  <2>1. f # e
    BY <1>6 DEF Reclaimed, Stranded, LatestIs, Open, Failed
  <2>2. UNCHANGED <<status[e], attempts[e], calls[e]>>
    BY <1>6, <2>1 DEF Reclaimed, ReclaimLocked, Begin, schedulingVars, IInv, TypeOK
  <2>3. \A v \in Workers : \A d \in held'[v] : d \in held[v] \/ d = ClaimOf(f)
    BY <1>6 DEF Reclaimed, ReclaimLocked, Begin, IInv, TypeOK
  <2>4. NobodyClaims
    BY <2>1, <2>3 DEF ClaimOf, Stranded
  <2>. QED BY <2>2, <2>4
<1>7. ASSUME NEW w \in Workers, NEW c \in held[w], Accepted(w, c)
      PROVE  UNCHANGED <<status[e], attempts[e], calls[e]>> /\ NobodyClaims
  BY <1>2, <1>7 DEF Accepted, Stranded, IInv, TypeOK
<1>8. ASSUME NEW w \in Workers, NEW c \in held[w], Recorded(w, c)
      PROVE  UNCHANGED <<status[e], attempts[e], calls[e]>> /\ NobodyClaims
  <2>1. c.event # e
    BY <1>8 DEF Stranded
  <2>. QED BY <1>2, <1>8, <2>1 DEF Recorded, IInv, TypeOK, SchedulingTypeOK
<1>. HIDE DEF NobodyClaims
<1>. QED
  BY <1>3, <1>4, <1>5, <1>6, <1>7, <1>8, StepCases DEF StepKind

\* No interleaving of services, executors and messages takes a row along a
\* transition that ALLOWED_TRANSITIONS forbids.
THEOREM TransitionsAreLegal == Spec => LegalTransitions
<1>1. IInv /\ [Next]_vars => [\A e \in Events : LegalTransition(e)]_vars
  BY LegalStep
<1>. QED BY <1>1, Invariance, PTL DEF Spec, LegalTransitions

\* The audit history is never rewritten.
THEOREM HistoryIsKept == Spec => HistoryIsImmutable
<1>1. IInv /\ [Next]_vars =>
        [\A e \in Events :
           /\ Len(attempts[e]) <= Len(attempts'[e])
           /\ \A n \in DOMAIN attempts[e] :
                attempts[e][n] # Open => attempts'[e][n] = attempts[e][n]]_vars
  BY HistoryStep DEF Kept
<1>. QED BY <1>1, Invariance, PTL DEF Spec, HistoryIsImmutable

\* An event stranded by a crash is never sent again by anybody.
THEOREM StrandedStaysQuarantined == Spec => QuarantineHolds
<1>1. IInv /\ [Next]_vars =>
        [\A e \in Events : Stranded(e) =>
           /\ Stranded(e)'
           /\ attempts'[e] = attempts[e]
           /\ calls'[e] = calls[e]
           /\ channel'[e] = channel[e]
           /\ scheduledFor'[e] = scheduledFor[e]]_vars
  BY QuarantineStep DEF Untouched
<1>. QED BY <1>1, Invariance, PTL DEF Spec, QuarantineHolds

-----------------------------------------------------------------------------
(* Refinement *)

MappedPhase    == [e \in Events |-> PhaseOf(e)]
MappedAccepted == [e \in Events |-> Len(calls[e])]

\* The initial states map to initial states of EventLifecycle.
LEMMA InitMaps == Init => Lifecycle!LifecycleInit
<1>1. Init => \A e \in Events : PhaseOf(e) = "absent" /\ Len(calls[e]) = 0
  BY EmptySeq DEF Init, SchedulingInit, PhaseOf
<1>. QED BY <1>1 DEF Lifecycle!LifecycleInit

\* A step on one event is seen by the abstract machine as Move.
LEMMA MoveMaps ==
  ASSUME NEW e \in Events, UNCHANGED calls,
         \A f \in Events \ {e} : PhaseOf(f)' = PhaseOf(f)
  PROVE  Lifecycle!Move(e, PhaseOf(e), PhaseOf(e)')
BY DEF Lifecycle!Move

\* An event for which a request was accepted has exactly one.
LEMMA OneCall ==
  ASSUME IInv, NEW e \in Events, calls[e] # <<>>
  PROVE  Len(calls[e]) = 1
<1>1. calls[e] \in Seq(Channels) /\ Len(calls[e]) <= 1
  BY DEF IInv, TypeOK, Safe, SubmissionMatchesRow, SubmissionMatches
<1>2. Len(calls[e]) \in Nat \ {0}
  BY <1>1, EmptySeq
<1>3. \A n \in Nat \ {0} : n <= 1 => n = 1
  OBVIOUS
<1>. QED BY <1>1, <1>2, <1>3, Zenon

\* Recording an outcome is a retry or a conclusion of EventLifecycle.
LEMMA RecordedMaps ==
  ASSUME IInv, IInv', NEW w \in Workers, NEW c \in held[w], Recorded(w, c)
  PROVE  Lifecycle!LifecycleNext
<1>. DEFINE e == c.event
<1>1. e \in Events /\ attempts[e] \in Seq(Attempt) /\ result[w] \in Attempt
  BY DEF IInv, TypeOK, Claim
<1>2. /\ PhaseOf(e) = "sending"
      /\ c.number = Len(attempts[e]) /\ attempts[e] # <<>>
      /\ status[e] = "processing"
  BY DEF Recorded, Owns, PhaseOf, LatestIs, Latest
<1>3. /\ \A f \in Events \ {e} : PhaseOf(f)' = PhaseOf(f)
      /\ UNCHANGED calls
  BY DEF Recorded, PhaseOf, LatestIs, Latest, IInv, TypeOK, SchedulingTypeOK
<1>4. attempts'[e] # <<>> /\ Latest(e)' = result[w]
  <2>1. attempts'[e] = [attempts[e] EXCEPT ![c.number] = result[w]]
    BY <1>1 DEF Recorded, IInv, TypeOK
  <2>2. c.number \in 1 .. Len(attempts[e])
    BY <1>1, <1>2, EmptySeq
  <2>. QED BY <1>1, <1>2, <2>1, <2>2, ReplaceAttempt DEF Latest
<1>5. /\ calls[e] # <<>> => result[w] \in {Submitted, Failed("SenderError")}
      /\ \/ result[w] = Submitted /\ calls[e] # <<>>
         \/ result[w] = Suppressed /\ e \in DemoEvents
         \/ result[w].status = "failed"
  BY DEF Recorded, Truthful
<1>6. Lifecycle!Move(e, "sending", PhaseOf(e)')
  BY <1>1, <1>2, <1>3, MoveMaps
<1>7. CASE result[w].error = "QueueRetryable"
  <2>1. calls[e] = <<>> /\ Len(calls[e]) = 0
    BY <1>5, <1>7, EmptySeq DEF Submitted, Failed
  <2>2. result[w] # Open
    BY <1>7 DEF Open
  <2>3. PhaseOf(e)' = "retrying"
    BY <1>2, <1>4, <1>7, <2>2 DEF Recorded, PhaseOf, LatestIs, Latest
  <2>. QED
    BY <1>1, <1>6, <2>1, <2>3 DEF Lifecycle!LifecycleNext, Lifecycle!Retry
<1>8. CASE result[w].error # "QueueRetryable"
  <2>1. status'[e] = result[w].status
    BY <1>1, <1>8 DEF Recorded, IInv, TypeOK, SchedulingTypeOK
  <2>2. PhaseOf(e)' = result[w].status
    BY <1>5, <2>1 DEF PhaseOf, LatestIs, Latest, Submitted, Suppressed
  <2>3. calls[e] # <<>> => Len(calls[e]) = 1
    BY <1>1, OneCall
  <2>. QED
    BY <1>1, <1>5, <1>6, <2>2, <2>3
       DEF Lifecycle!LifecycleNext, Lifecycle!Conclude, Submitted, Suppressed
<1>. QED BY <1>7, <1>8

\* Every step of Delivery maps to a step or a stutter of EventLifecycle.
LEMMA StepMaps ==
  ASSUME IInv, IInv', [Next]_vars
  PROVE  [Lifecycle!LifecycleNext]_(Lifecycle!lifecycleVars)
<1>. DEFINE Goal == \/ Lifecycle!LifecycleNext
                    \/ UNCHANGED <<MappedPhase, MappedAccepted>>
<1>1. ASSUME Quiet PROVE Goal
  BY <1>1 DEF Quiet, MappedPhase, MappedAccepted, PhaseOf, LatestIs, Latest
<1>2. ASSUME NEW e \in Events, Edited(e) PROVE Goal
  <2>1. /\ UNCHANGED calls
        /\ \A f \in Events \ {e} : PhaseOf(f)' = PhaseOf(f)
    BY <1>2 DEF Edited, PhaseOf, LatestIs, Latest
  <2>2. \/ PhaseOf(e) = "absent" /\ PhaseOf(e)' = "scheduled"
        \/ PhaseOf(e) = "scheduled" /\ PhaseOf(e)' = "cancelled"
    BY <1>2 DEF Edited, PhaseOf, LatestIs, Latest
  <2>3. Lifecycle!Move(e, PhaseOf(e), PhaseOf(e)')
    BY <2>1, MoveMaps
  <2>. QED BY <2>2, <2>3 DEF Lifecycle!LifecycleNext
<1>3. ASSUME NEW w \in Workers, NEW S \in SUBSET Events, NEW missed \in SUBSET S,
             Claimed(w, S, missed)
      PROVE  Goal
  <2>. DEFINE fresh == S \ missed
  <2>1. UNCHANGED calls /\ \A e \in S : PhaseOf(e) = "scheduled"
    BY <1>3 DEF Claimed, ClaimLocked, Begin, PhaseOf, LatestIs, Latest
  <2>2. \A e \in missed : PhaseOf(e)' = "failed"
    BY <1>3 DEF Claimed, ClaimLocked, PhaseOf, LatestIs, Latest
  <2>3. \A e \in fresh : PhaseOf(e)' = "sending"
    BY <1>3, FirstElement, AttemptTypes
       DEF Claimed, ClaimLocked, PhaseOf, LatestIs, Latest
  <2>4. \A e \in Events \ S : PhaseOf(e)' = PhaseOf(e)
    BY <1>3 DEF Claimed, ClaimLocked, PhaseOf, LatestIs, Latest
  <2>5. Lifecycle!ClaimEvents(fresh, missed)
    BY <2>1, <2>2, <2>3, <2>4 DEF Lifecycle!ClaimEvents
  <2>. QED BY <2>5 DEF Lifecycle!LifecycleNext
<1>4. ASSUME NEW w \in Workers, NEW e \in Events, Reclaimed(w, e) PROVE Goal
  <2>1. /\ attempts[e] \in Seq(Attempt)
        /\ attempts'[e] = Append(attempts[e], Open)
        /\ status[e] = "processing"
        /\ Latest(e) = Failed("QueueRetryable")
        /\ UNCHANGED <<status, calls>>
        /\ \A f \in Events \ {e} : attempts'[f] = attempts[f]
    BY <1>4 DEF Reclaimed, ReclaimLocked, Begin, schedulingVars, IInv, TypeOK, LatestIs
  <2>2. PhaseOf(e)' = "sending"
    BY <2>1, AppendAttempt, AttemptTypes DEF PhaseOf, LatestIs, Latest
  <2>3. PhaseOf(e) = "retrying"
    BY <2>1 DEF PhaseOf, LatestIs, Latest, Open, Failed
  <2>4. \A f \in Events \ {e} : PhaseOf(f)' = PhaseOf(f)
    BY <2>1 DEF PhaseOf, LatestIs, Latest
  <2>5. Lifecycle!Move(e, "retrying", "sending")
    BY <2>1, <2>2, <2>3, <2>4, MoveMaps
  <2>. QED BY <2>5 DEF Lifecycle!LifecycleNext, Lifecycle!Retry
<1>5. ASSUME NEW w \in Workers, NEW c \in held[w], Accepted(w, c) PROVE Goal
  <2>. DEFINE e == c.event
  <2>1. e \in Events /\ PhaseOf(e) = "sending" /\ c.channel \in Channels
    BY <1>5 DEF IInv, Safe, ExclusiveClaims, Owns, PhaseOf, LatestIs, Latest,
               TypeOK, Claim
  <2>2. /\ \A f \in Events : PhaseOf(f)' = PhaseOf(f)
        /\ \A f \in Events \ {e} : Len(calls'[f]) = Len(calls[f])
    BY <1>5, <2>1 DEF Accepted, PhaseOf, LatestIs, Latest, IInv, TypeOK
  <2>3. Len(calls[e]) = 0 /\ Len(calls'[e]) = 1
    BY <1>5, <2>1, EmptySeq, FirstElement DEF Accepted, IInv, TypeOK
  <2>4. Lifecycle!Accept(e)
    BY <1>5, <2>1, <2>2, <2>3 DEF Lifecycle!Accept, Accepted
  <2>. QED BY <2>1, <2>4 DEF Lifecycle!LifecycleNext
<1>6. ASSUME NEW w \in Workers, NEW c \in held[w], Recorded(w, c) PROVE Goal
  BY <1>6, RecordedMaps
<1>. HIDE DEF Goal
<1>7. Goal
  BY <1>1, <1>2, <1>3, <1>4, <1>5, <1>6, StepCases DEF StepKind
<1>. QED BY <1>7 DEF Goal, Lifecycle!lifecycleVars, MappedPhase, MappedAccepted

\* The whole workflow implements EventLifecycle: at most one acceptance per
\* event, only while it is being sent, and no retry after it.
THEOREM Refinement == Spec => RefinesLifecycle
<1>1. IInv /\ IInv' /\ [Next]_vars =>
        [Lifecycle!LifecycleNext]_(Lifecycle!lifecycleVars)
  BY StepMaps
<1>. QED
  BY <1>1, InitMaps, Invariance, PTL
     DEF Spec, RefinesLifecycle, Lifecycle!LifecycleSpec
=============================================================================
