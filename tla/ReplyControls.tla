---------------------------- MODULE ReplyControls ----------------------------
(***************************************************************************)
(* The reply controls of apps/delivery/services.py: a DTMF digit pressed   *)
(* in a wake-up call (apply_voice_menu_action) and an inbound SMS command  *)
(* (apply_inbound_sms_command) cancel or change the owner's next pending   *)
(* event.                                                                  *)
(*                                                                         *)
(* Twilio repeats callbacks, web processes handle them at once, and users  *)
(* and delivery workers change the same rows meanwhile.  A handler is one  *)
(* transaction under PostgreSQL's READ COMMITTED: it locks the record of   *)
(* its request (the submitted attempt of a call, the unique row of a       *)
(* Message SID), reads the owner's pending events in order, and locks them *)
(* one after another until one is still pending.  A row that is not keeps  *)
(* its lock until the end.  A row locked this way is checked for its       *)
(* owner and status again, never for its place in the order.              *)
(***************************************************************************)
EXTENDS Scheduling, FiniteSets, Sequences

CONSTANTS
  Users,       \* owners of events, calls and verified phone numbers
  EventOwner,  \* the user of each event
  Calls,       \* submitted voice attempts, by Call SID
  CallOwner,   \* the user of each of them
  Sids,        \* Message SIDs of inbound SMS callbacks
  Nobody,      \* in place of a user: a number that is not verified
  Handlers,    \* web processes
  AskedTimes,  \* bound: the times a TIME command names
  UserChannels \* bound: the channels users and staff choose for an event

ASSUME ReplyAssumption ==
  /\ IsFiniteSet(Events)
  /\ EventOwner \in [Events -> Users]
  /\ CallOwner \in [Calls -> Users]
  /\ Nobody \notin Users
  /\ AskedTimes \subseteq Times
  /\ UserChannels \subseteq Channels

VARIABLES
  record,   \* the stored result of each request, by Call or Message SID
  request,  \* the transaction of each handler
  effects,  \* history: the changes of event rows made for each request
  replies   \* history: the outcomes answered to each request

handlerVars == <<record, request, effects, replies>>
replyVars   == <<schedulingVars, handlerVars>>

-----------------------------------------------------------------------------
(* Types *)

Keys == Calls \cup Sids

Outcomes ==
  {"cancelled", "switched_to_sms", "rescheduled", "no_pending_event",
   "unknown_sender", "invalid_command", "invalid_time"}

\* voice_action_result, InboundSmsCommand.result; target 0 is no event.
Result == [outcome : Outcomes, target : Events \cup {0}]

NoResult == [outcome |-> "none", target |-> 0]

\* A command with a pending event to apply it to; `due` is the time of TIME.
Command == [name : {"stop", "sms"}, due : {0}] \cup [name : {"time"}, due : AskedTimes]

\* A transaction: the pending events it read and has not passed over, the rows
\* it locks, and (history) the events changed since it read them.
Request ==
  [phase : {"lock", "apply"}, key : Keys, user : Users, command : Command,
   pending : Seq(Events), locks : SUBSET Events, changed : SUBSET Events]

NoRequest == [phase |-> "idle", locks |-> {}]

\* A result is stored once for each request, a handler that waits or applies
\* has an event to wait for or to apply to, and holds the lock of the latter.
ReplyTypeOK ==
  /\ SchedulingTypeOK
  /\ record \in [Keys -> Result \cup {NoResult}]
  /\ request \in [Handlers -> Request \cup {NoRequest}]
  /\ \A h \in Handlers :
       request[h].phase = "apply" => Head(request[h].pending) \in request[h].locks

Active(h) == request[h].phase # "idle"

LockedFor(h, e) == \E g \in Handlers \ {h} : e \in request[g].locks

\* Mutant of KeyIsFree: the record is read without a lock.
KeyIsShared(k) == TRUE

KeyIsFree(k) == \A h \in Handlers : Active(h) => request[h].key # k

-----------------------------------------------------------------------------
(* The record of the request *)

Reply(k, outcome) == replies' = [replies EXCEPT ![k] = @ \cup {outcome}]

\* Every handler that has read the pending events may now be late.
WithChange(S) ==
  [h \in Handlers |-> IF Active(h) THEN [request[h] EXCEPT !.changed = @ \cup S]
                      ELSE request[h]]

\* COMMIT: the stored result, its answer, and every lock released; `changed` is
\* the target or empty.
Commit(h, outcome, target, changed) ==
  LET k == request[h].key
  IN  /\ record' = [record EXCEPT ![k] = [outcome |-> outcome, target |-> target]]
      /\ request' = [WithChange(changed) EXCEPT ![h] = NoRequest]
      /\ effects' = IF changed = {} THEN effects
                    ELSE [effects EXCEPT ![k] =
                            Append(@, [event |-> target, outcome |-> outcome])]
      /\ Reply(k, outcome)

Replay(k) ==
  /\ record[k] # NoResult
  /\ Reply(k, record[k].outcome)
  /\ UNCHANGED <<record, request, effects>>

PendingOf(user) == {e \in Events : EventOwner[e] = user /\ status[e] = "scheduled"}

\* Every pending row once.
Listings(user) ==
  {s \in [1 .. Cardinality(PendingOf(user)) -> PendingOf(user)] :
     \A e \in PendingOf(user) : \E i \in DOMAIN s : s[i] = e}

\* Mutant of Snapshots: the latest event first.
LatestFirst(user) ==
  {s \in Listings(user) : \A i, j \in DOMAIN s : i < j => Before(s[j], s[i])}

\* ORDER BY scheduled_for, id: there is one such listing.
Snapshots(user) ==
  {s \in Listings(user) : \A i, j \in DOMAIN s : i < j => Before(s[i], s[j])}

\* The record is locked or created, and the pending events are read.  What
\* happens to them between the two is as if the callback had come later.
Start(h, k, user, command) ==
  /\ record[k] = NoResult
  /\ \E pending \in Snapshots(user) :
       request' = [request EXCEPT ![h] =
                     [phase |-> "lock", key |-> k, user |-> user,
                      command |-> command, pending |-> pending,
                      locks |-> {}, changed |-> {}]]
  /\ UNCHANGED <<record, effects, replies>>

\* An SMS that names no event is answered and recorded in one go.
Refuse(k, outcome) ==
  /\ record[k] = NoResult
  /\ record' = [record EXCEPT ![k] = [outcome |-> outcome, target |-> 0]]
  /\ Reply(k, outcome)
  /\ UNCHANGED <<request, effects>>

\* Digit 1 cancels, digit 2 switches; any other digit is asked for again.
VoiceMenuAction(h, c, digit) ==
  /\ ~Active(h)
  /\ KeyIsFree(c)
  /\ \/ Replay(c)
     \/ Start(h, c, CallOwner[c],
              [name |-> IF digit = 1 THEN "stop" ELSE "sms", due |-> 0])
  /\ UNCHANGED schedulingVars

\* The sender is resolved by its verified number, Nobody stands for one without
\* an owner.  A body that is no command, or a TIME that cannot be read, leads to
\* the outcome it is named for.
InboundSms(h, s, sender, body) ==
  /\ ~Active(h)
  /\ KeyIsFree(s)
  /\ \/ Replay(s)
     \/ sender = Nobody /\ Refuse(s, "unknown_sender")
     \/ sender # Nobody /\ body.name \in Outcomes /\ Refuse(s, body.name)
     \/ sender # Nobody /\ body \in Command /\ Start(h, s, sender, body)
  /\ UNCHANGED schedulingVars

-----------------------------------------------------------------------------
(* Selecting the next pending event *)

\* Mutant of StillMatches: the row is taken as the snapshot had it.
MatchedOnce(e) == status[e] # "absent"

\* The conditions are evaluated again on the row as it is now.
StillMatches(e) == status[e] = "scheduled"

\* Mutant of LockNext: the row is selected without FOR UPDATE.
ReadNext(h) ==
  /\ request[h].phase = "lock"
  /\ request[h].pending # <<>>
  /\ request' = [request EXCEPT ![h].phase = "apply"]
  /\ UNCHANGED <<schedulingVars, record, effects, replies>>

\* FOR UPDATE waits for the row; LIMIT 1 ends at the first that matches.
LockNext(h) ==
  LET e == Head(request[h].pending)
  IN  /\ request[h].phase = "lock"
      /\ request[h].pending # <<>>
      /\ ~LockedFor(h, e)
      /\ request' = [request EXCEPT
                       ![h].locks = @ \cup {e},
                       ![h].phase = IF StillMatches(e) THEN "apply" ELSE "lock",
                       ![h].pending = IF StillMatches(e) THEN <<e>> ELSE Tail(@)]
      /\ UNCHANGED <<schedulingVars, record, effects, replies>>

NoPendingEvent(h) ==
  /\ request[h].phase = "lock"
  /\ request[h].pending = <<>>
  /\ Commit(h, "no_pending_event", 0, {})
  /\ UNCHANGED schedulingVars

-----------------------------------------------------------------------------
(* Changing it *)

\* The lock keeps the event pending, so no service finds a lifecycle conflict;
\* a time that is not in the future is refused and recorded.
ApplyCommand(h) ==
  LET e       == Head(request[h].pending)
      command == request[h].command
  IN  /\ request[h].phase = "apply"
      /\ \/ /\ command.name = "stop"
            /\ CancelScheduledEvent(e)
            /\ Commit(h, "cancelled", e, {e})
         \/ /\ command.name = "sms"
            /\ ChangeScheduledEventChannel(e, "sms")
            /\ Commit(h, "switched_to_sms", e, {e})
         \/ /\ command.name = "time"
            /\ RescheduleScheduledEvent(e, command.due)
            /\ Commit(h, "rescheduled", e, {e})
         \/ /\ command.name = "time"
            /\ command.due <= now
            /\ Commit(h, "invalid_time", e, {})
            /\ UNCHANGED schedulingVars

-----------------------------------------------------------------------------
(* What ends a transaction, and what happens to the rows meanwhile *)

Rollback(h) ==
  /\ request' = [request EXCEPT ![h] = NoRequest]
  /\ UNCHANGED <<schedulingVars, record, effects, replies>>

\* A crash or an error of the database; Twilio may send the callback again.
Abort(h) ==
  /\ Active(h)
  /\ Rollback(h)

WaitsFor(h, g) ==
  /\ h # g
  /\ request[h].phase = "lock"
  /\ request[h].pending # <<>>
  /\ Head(request[h].pending) \in request[g].locks

\* The database ends one of the transactions that wait for each other.
EndDeadlock(h) ==
  /\ \E S \in SUBSET Handlers :
       h \in S /\ \A f \in S : \E g \in S : WaitsFor(f, g)
  /\ Rollback(h)

\* A delivery worker claims the event.
ClaimDueEvent(e) ==
  /\ status[e] = "scheduled"
  /\ scheduledFor[e] <= now
  /\ status' = [status EXCEPT ![e] = "processing"]
  /\ UNCHANGED <<now, scheduledFor, channel>>

\* Users, staff and workers change rows that no handler locks.
OthersChange(e) ==
  /\ \A h \in Handlers : e \notin request[h].locks
  /\ \/ \E due \in Times, ch \in UserChannels :
          CreateScheduledEvent(e, due, ch)
     \/ CancelScheduledEvent(e)
     \/ \E due \in Times : RescheduleScheduledEvent(e, due)
     \/ \E ch \in UserChannels : ChangeScheduledEventChannel(e, ch)
     \/ ClaimDueEvent(e)
  /\ request' = WithChange({e})
  /\ UNCHANGED <<record, effects, replies>>

Clock == Tick /\ UNCHANGED handlerVars

-----------------------------------------------------------------------------
(* Specification *)

ReplyInit ==
  /\ SchedulingInit
  /\ record = [k \in Keys |-> NoResult]
  /\ request = [h \in Handlers |-> NoRequest]
  /\ effects = [k \in Keys |-> <<>>]
  /\ replies = [k \in Keys |-> {}]

Bodies ==
  Command \cup [name : {"invalid_command", "invalid_time"}, due : {0}]

Callback(h) ==
  \/ \E c \in Calls, digit \in {1, 2} : VoiceMenuAction(h, c, digit)
  \/ \E s \in Sids, sender \in Users \cup {Nobody}, body \in Bodies :
       InboundSms(h, s, sender, body)

Handle(h) ==
  \/ LockNext(h)
  \/ NoPendingEvent(h)
  \/ ApplyCommand(h)
  \/ EndDeadlock(h)

ReplyNext ==
  \/ \E h \in Handlers : Callback(h) \/ Handle(h) \/ Abort(h)
  \/ \E e \in Events : OthersChange(e)
  \/ Clock

ReplySpec == ReplyInit /\ [][ReplyNext]_replyVars

\* A process that runs goes on with its transaction, as does the database; it
\* queues those that wait for a row, so one of them is not passed over for ever
\* by transactions that begin later.  No callback has to arrive, no row has to
\* change, no transaction has to be aborted, and time may stand still.
ReplyFairness == \A h \in Handlers : SF_replyVars(Handle(h))

FairReplySpec == ReplySpec /\ ReplyFairness

-----------------------------------------------------------------------------
(* Properties *)

\* One call and one Message SID change at most one row once, however often and
\* concurrently the callback arrives, with whatever fields, and the stored
\* result tells which: it names that row and what was done to it, or no change
\* was made (the record is locked or created before the event is selected, and
\* all of it commits together).
OneEffect(k) ==
  \/ effects[k] = <<>> /\ record[k].outcome \notin
                            {"cancelled", "switched_to_sms", "rescheduled"}
  \/ effects[k] = <<[event |-> record[k].target, outcome |-> record[k].outcome]>>

EffectsMatchRecord == \A k \in Keys : OneEffect(k)

\* The event a handler is about to change is pending and its owner's.  Unless
\* the event itself was changed since the handler read the pending ones, none
\* of them that was left alone comes before it.
EarlierPending(h) ==
  {f \in Events : /\ EventOwner[f] = request[h].user
                  /\ status[f] = "scheduled"
                  /\ Before(f, Head(request[h].pending))}

TargetIsNextUnlessChanged ==
  \A h \in Handlers : request[h].phase = "apply" =>
    LET e == Head(request[h].pending)
    IN  /\ EventOwner[e] = request[h].user
        /\ status[e] = "scheduled"
        /\ e \in request[h].changed \/ EarlierPending(h) \subseteq request[h].changed

\* Handlers that keep the locks of rows they passed over can wait for each
\* other; every transaction still ends, as the database breaks the cycle.
TransactionsEnd == \A h \in Handlers : Active(h) ~> ~Active(h)

\* Both handlers implement a request that is decided once: although they take
\* several steps, lock rows one by one, die and start again, the result, its one
\* change of a pending event and the first answer come in one step, and from
\* then on a repeated callback gets that answer and changes no row.
Requests == INSTANCE RequestOnce

RefinesRequestOnce == Requests!OnceSpec

-----------------------------------------------------------------------------
(* A claim of the documentation *)

\* The event a control changes is the owner's earliest pending one: no event
\* that was pending all along since the handler read them comes before it.
TargetIsNext ==
  \A h \in Handlers : request[h].phase = "apply" =>
    EarlierPending(h) \subseteq request[h].changed
=============================================================================
