----------------------------- MODULE RequestOnce -----------------------------
(***************************************************************************)
(* What a reply control promises about a callback that may be repeated:    *)
(* with no handlers, transactions, locks or order of events.               *)
(*                                                                         *)
(* A request is decided once.  Deciding it stores a result, changes the    *)
(* one pending event that the result names or none, and answers, all in a  *)
(* single step.  After that the request is only answered, with the stored  *)
(* result, and no repetition of it changes a row.                          *)
(***************************************************************************)
EXTENDS Scheduling, Sequences

CONSTANT Keys  \* requests, by the provider's identifier

VARIABLES
  record,   \* the stored result of each request
  effects,  \* the changes of event rows made for each request
  replies   \* the outcomes answered to each request

requestVars == <<record, effects, replies>>
onceVars    == <<schedulingVars, requestVars>>

-----------------------------------------------------------------------------

NoResult == [outcome |-> "none", target |-> 0]

\* The outcomes that leave every event alone.
Refusals ==
  {"no_pending_event", "unknown_sender", "invalid_command", "invalid_time"}

\* What an outcome says was done to the event it names.
Change(outcome, e) ==
  \/ outcome = "cancelled" /\ CancelScheduledEvent(e)
  \/ outcome = "switched_to_sms" /\ ChangeScheduledEventChannel(e, "sms")
  \/ outcome = "rescheduled" /\ \E due \in Times : RescheduleScheduledEvent(e, due)

Store(k, outcome, target) ==
  /\ record[k] = NoResult
  /\ record' = [record EXCEPT ![k] = [outcome |-> outcome, target |-> target]]
  /\ replies' = [replies EXCEPT ![k] = @ \cup {outcome}]

Apply(k, outcome, e) ==
  /\ Store(k, outcome, e)
  /\ Change(outcome, e)
  /\ effects' = [effects EXCEPT ![k] = <<[event |-> e, outcome |-> outcome]>>]

Refuse(k, outcome, target) ==
  /\ Store(k, outcome, target)
  /\ UNCHANGED <<schedulingVars, effects>>

Repeat(k) ==
  /\ record[k] # NoResult
  /\ replies' = [replies EXCEPT ![k] = @ \cup {record[k].outcome}]
  /\ UNCHANGED <<schedulingVars, record, effects>>

\* Users, staff and workers change events as they like.
Others == UNCHANGED requestVars

OnceInit ==
  /\ record = [k \in Keys |-> NoResult]
  /\ effects = [k \in Keys |-> <<>>]
  /\ replies = [k \in Keys |-> {}]

OnceNext ==
  \/ Others
  \/ \E k \in Keys :
       \/ Repeat(k)
       \/ \E e \in Events, outcome \in {"cancelled", "switched_to_sms", "rescheduled"} :
            Apply(k, outcome, e)
       \/ \E target \in Events \cup {0}, outcome \in Refusals :
            Refuse(k, outcome, target)

OnceSpec == OnceInit /\ [][OnceNext]_onceVars
=============================================================================
