----------------------------- MODULE Destinations -----------------------------
(***************************************************************************)
(* Where real requests go: events, the phone rows they name, and the       *)
(* commands that send.  It joins PhoneVerification with the parts of the   *)
(* delivery that read a phone row: the admin form of an event, the claim,  *)
(* and the staging commands send_staging_sms_event and                     *)
(* send_staging_voice_event, which compare destination and channel before  *)
(* the row is locked.  Between these checks and the lock the form may give *)
(* the event another phone row, and PhoneVerification's form the row       *)
(* another number.                                                         *)
(*                                                                         *)
(* Only real events appear, an event is due at any time, and a claim may   *)
(* end in a request or not: Delivery has the rest of a delivery.           *)
(***************************************************************************)
EXTENDS PhoneVerification

CONSTANTS
  Events,     \* primary keys of the events that may come to exist
  Authorized, \* TWILIO_SMS_SMOKE_TO_NUMBER and TWILIO_VOICE_SMOKE_TO_NUMBER
  Commands,   \* the staging commands, by their channel, and the worker
  MaxDrafts   \* bound on the event forms staff save

ASSUME RouteAssumption ==
  /\ Authorized \in Numbers
  /\ Commands \subseteq {"sms", "voice", "worker"}
  /\ MaxDrafts \in Nat

VARIABLES
  row,       \* the event rows, and the number each was cleaned with (history)
  draft,     \* the event form being handled: its fields, cleaned and not saved
  drafts,    \* event forms saved so far
  run        \* what each command has checked or claimed

draftVars == <<draft, drafts>>
eventVars == <<row, draftVars, run>>
routeVars == <<phoneVars, eventVars>>

-----------------------------------------------------------------------------
(* Events *)

Channels == {"sms", "voice"}

Absent == [status |-> "absent"]

NoDraft == [event |-> "none"]

Resting == [phase |-> "rest"]

\* Mutant of MayName: any phone row will do.
MayNameAny(p) == Exists(p)

\* clean() wants a verified phone, also for an event that names it already.
MayName(p) == verified[p]

\* The view adds a real event, or loads one, and cleans it with the submitted
\* fields.  It locks neither row.  Users' events are demo events until staff save
\* such a form.
CleanEvent(e, p, ch) ==
  /\ draft = NoDraft
  /\ drafts < MaxDrafts
  /\ MayName(p)
  /\ draft' = [event |-> e, phone |-> p, channel |-> ch, meant |-> number[p],
               status |-> IF row[e] = Absent THEN "scheduled" ELSE row[e].status]
  /\ UNCHANGED <<phoneVars, row, drafts, run>>

\* History: whether a form changed the destination of a command past its checks
NoteDiversions ==
  run' = [s \in Commands |->
            IF /\ run[s].phase = "checked"
               /\ number'[row'[run[s].event].phone] # number[row[run[s].event].phone]
            THEN [run[s] EXCEPT !.diverted = TRUE] ELSE run[s]]

\* save() writes every column, the status as it was loaded.
SaveEvent ==
  /\ draft # NoDraft
  /\ row' = [row EXCEPT ![draft.event] =
               [status |-> draft.status, phone |-> draft.phone,
                channel |-> draft.channel, meant |-> draft.meant]]
  /\ draft' = NoDraft
  /\ drafts' = drafts + 1
  /\ UNCHANGED phoneVars
  /\ NoteDiversions

\* change_user_scheduled_event_channel
ChangeChannel(e, ch) ==
  /\ row[e].status = "scheduled"
  /\ row' = [row EXCEPT ![e].channel = ch]
  /\ UNCHANGED <<phoneVars, draftVars, run>>

-----------------------------------------------------------------------------
(* The commands *)

\* Mutant of IsAuthorized: the destination is not compared.
IsOfChannel(s, e) == row[e].channel = s

\* The checks of a staging command on the event and its phone as it read them
IsAuthorized(s, e) ==
  row[e].channel = s /\ number[row[e].phone] = Authorized

\* handle() of a staging command, without a lock
CheckEvent(s, e) ==
  /\ s \in Channels
  /\ run[s] = Resting
  /\ row[e] # Absent
  /\ IsAuthorized(s, e)
  /\ run' = [run EXCEPT ![s] =
               [phase |-> "checked", event |-> e, diverted |-> FALSE]]
  /\ UNCHANGED <<phoneVars, row, draftVars>>

\* The claim reads the event and its phone under their locks; what is sent comes
\* from there.
ClaimEvent(s, e) ==
  /\ \/ s = "worker" /\ run[s] = Resting
     \/ run[s].phase = "checked" /\ run[s].event = e
  /\ row[e].status = "scheduled"
  /\ row' = [row EXCEPT ![e].status = "processing"]
  /\ run' = [run EXCEPT ![s] =
               [phase |-> "claimed", event |-> e, phone |-> row[e].phone,
                number |-> number[row[e].phone], channel |-> row[e].channel,
                meant |-> row[e].meant,
                diverted |-> s \in Channels /\ run[s].diverted]]
  /\ UNCHANGED <<phoneVars, draftVars>>

\* An event that was delivered, claimed or cancelled meanwhile is left alone,
\* and so is one whose command dies.
EndCommand(s) ==
  /\ run[s] # Resting
  /\ run' = [run EXCEPT ![s] = Resting]
  /\ UNCHANGED <<phoneVars, row, draftVars>>

\* The channel by which the sender sends: the worker's sender routes to the adapter
\* of the event's, a staging command has one adapter.
Via(s) == IF s = "worker" THEN run[s].channel ELSE s

\* _validate_request of the two adapters
Accepts(s) == run[s].channel = Via(s)

\* The event takes the outcome if its row still admits the transition; a form
\* saved over the claim may have put it back.
Conclude(s, status) ==
  /\ row' = IF row[run[s].event].status = "processing"
            THEN [row EXCEPT ![run[s].event].status = status] ELSE row
  /\ run' = [run EXCEPT ![s] = Resting]

\* The provider accepts the request to the number that the claim has read.
Submit(s) ==
  /\ run[s].phase = "claimed"
  /\ Accepts(s)
  /\ Conclude(s, "submitted")
  /\ UNCHANGED <<phoneVars, draftVars>>

\* DeliveryInputInvalid for the other channel, or any other error.
Fail(s) ==
  /\ run[s].phase = "claimed"
  /\ Conclude(s, "failed")
  /\ UNCHANGED <<phoneVars, draftVars>>

-----------------------------------------------------------------------------
(* Specification *)

RouteInit ==
  /\ Init
  /\ row = [e \in Events |-> Absent]
  /\ draft = NoDraft
  /\ drafts = 0
  /\ run = [s \in Commands |-> Resting]

\* The phone components go on beside them.
PhoneStep ==
  /\ Next
  /\ UNCHANGED <<row, draftVars>>
  /\ NoteDiversions

RouteNext ==
  \/ PhoneStep
  \/ \E e \in Events, p \in Phones, ch \in Channels : CleanEvent(e, p, ch)
  \/ SaveEvent
  \/ \E e \in Events, ch \in Channels : ChangeChannel(e, ch)
  \/ \E s \in Commands :
       \/ \E e \in Events : CheckEvent(s, e) \/ ClaimEvent(s, e)
       \/ EndCommand(s)
       \/ Submit(s)
       \/ Fail(s)

RouteSpec == RouteInit /\ [][RouteNext]_routeVars

-----------------------------------------------------------------------------
(* Properties *)

\* Every real request goes to a number that a check of its phone row was approved
\* for, or that staff saved on it as verified, although nothing looks at
\* verified_at again after the event was cleaned: unless a form has changed the
\* number of the row since then.
DestinationsWereApproved ==
  [][\A s \in Commands : Submit(s) /\ run[s].number = run[s].meant =>
       run[s].number \in approved[run[s].phone] \cup vouched[run[s].phone]]_routeVars

\* A request goes out by the channel that the event has when it is claimed,
\* whatever is changed between the checks of a staging command and the lock: the
\* adapter refuses an event that was moved to the other channel.  And a staging
\* command sends to the authorized number, unless a form gives the event another
\* destination between its checks and the claim: what is saved before the checks
\* is seen by them, and what is saved after the claim does not reach the sender.
SmokeStaysAuthorized ==
  [][\A s \in Commands : Submit(s) =>
       /\ Via(s) = run[s].channel
       /\ s \in Channels => run[s].number = Authorized \/ run[s].diverted]_routeVars
=============================================================================
