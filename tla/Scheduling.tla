----------------------------- MODULE Scheduling -----------------------------
(***************************************************************************)
(* The scheduled-event rows (apps/scheduling) and the row-locking services *)
(* that users and staff call to change them while they are pending.        *)
(*                                                                         *)
(* Every service is one database transaction that locks the event row      *)
(* first, so each is one action here.  A request that the code refuses (a  *)
(* lifecycle conflict, a time in the past, a row of another user) changes  *)
(* nothing and is no action.  Delivery EXTENDS this module with the code   *)
(* that claims and sends due events.                                       *)
(***************************************************************************)
EXTENDS Integers

CONSTANTS
  Events,      \* primary keys of the event rows that may come to exist
  DemoEvents,  \* the events created with is_demo = True
  MaxTime      \* bound on the clock, in abstract units of time

ASSUME EventsAssumption == Events \subseteq Nat \ {0}
ASSUME DemoAssumption   == DemoEvents \subseteq Events
ASSUME TimeAssumption   == MaxTime \in Nat

VARIABLES
  now,           \* timezone.now()
  status,        \* ScheduledEvent.status, "absent" while there is no row
  scheduledFor,  \* ScheduledEvent.scheduled_for
  channel        \* ScheduledEvent.channel

schedulingVars == <<now, status, scheduledFor, channel>>
rowVars        == <<status, scheduledFor, channel>>

-----------------------------------------------------------------------------
(* Types *)

Times    == 0 .. MaxTime
Channels == {"sms", "voice"}
Terminal == {"submitted", "failed", "suppressed", "cancelled"}
Statuses == {"absent", "scheduled", "processing"} \cup Terminal

\* ScheduledEvent.ALLOWED_TRANSITIONS; "absent" to "scheduled" is creation.
AllowedTransitions ==
  {<<"absent", "scheduled">>}
    \cup {"scheduled"}  \X {"processing", "cancelled"}
    \cup {"processing"} \X {"submitted", "failed", "suppressed"}

SchedulingTypeOK ==
  /\ now \in Times
  /\ status \in [Events -> Statuses]
  /\ scheduledFor \in [Events -> Times]
  /\ channel \in [Events -> Channels]

\* ORDER BY scheduled_for, id
Before(e, f) ==
  \/ scheduledFor[e] < scheduledFor[f]
  \/ scheduledFor[e] = scheduledFor[f] /\ e < f

-----------------------------------------------------------------------------
(* Services *)

SchedulingInit ==
  /\ now = 0
  /\ status = [e \in Events |-> "absent"]
  /\ scheduledFor = [e \in Events |-> 0]
  /\ channel = [e \in Events |-> "sms"]

\* create_scheduled_event for a demo event; the admin's add form, which runs
\* the same full_clean, for a real one.  Both need a time in the future.
CreateScheduledEvent(e, due, ch) ==
  /\ status[e] = "absent"
  /\ due > now
  /\ status' = [status EXCEPT ![e] = "scheduled"]
  /\ scheduledFor' = [scheduledFor EXCEPT ![e] = due]
  /\ channel' = [channel EXCEPT ![e] = ch]
  /\ UNCHANGED now

\* Mutant of CancelScheduledEvent: a claimed event can be cancelled.
CancelUnfinishedEvent(e) ==
  /\ status[e] \in {"scheduled", "processing"}
  /\ status' = [status EXCEPT ![e] = "cancelled"]
  /\ UNCHANGED <<now, scheduledFor, channel>>

\* cancel_user_scheduled_event and the admin's bulk cancel_scheduled_event
CancelScheduledEvent(e) ==
  /\ status[e] = "scheduled"
  /\ status' = [status EXCEPT ![e] = "cancelled"]
  /\ UNCHANGED <<now, scheduledFor, channel>>

\* An overdue event that no claim has reached yet may still be moved.
RescheduleScheduledEvent(e, due) ==
  /\ status[e] = "scheduled"
  /\ due > now
  /\ scheduledFor' = [scheduledFor EXCEPT ![e] = due]
  /\ UNCHANGED <<now, status, channel>>

\* Mutant of ChangeScheduledEventChannel: _require_scheduled is not called.
ChangeAnyEventChannel(e, ch) ==
  /\ status[e] # "absent"
  /\ channel' = [channel EXCEPT ![e] = ch]
  /\ UNCHANGED <<now, status, scheduledFor>>

ChangeScheduledEventChannel(e, ch) ==
  /\ status[e] = "scheduled"
  /\ channel' = [channel EXCEPT ![e] = ch]
  /\ UNCHANGED <<now, status, scheduledFor>>

Tick ==
  /\ now < MaxTime
  /\ now' = now + 1
  /\ UNCHANGED rowVars

EditEvent ==
  \E e \in Events :
    \/ \E due \in Times, ch \in Channels : CreateScheduledEvent(e, due, ch)
    \/ CancelScheduledEvent(e)
    \/ \E due \in Times : RescheduleScheduledEvent(e, due)
    \/ \E ch \in Channels : ChangeScheduledEventChannel(e, ch)

SchedulingNext == EditEvent \/ Tick
=============================================================================
