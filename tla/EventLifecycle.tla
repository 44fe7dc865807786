--------------------------- MODULE EventLifecycle ---------------------------
(***************************************************************************)
(* What the delivery workflow promises about one event, with no executors, *)
(* messages or clock: the states an event passes through, and the moments  *)
(* at which a provider may accept a request for it.                        *)
(*                                                                         *)
(* An event that is `processing` is either being sent (its latest attempt  *)
(* is open) or waiting for a retry (its latest attempt failed before the   *)
(* sender was entered).  The provider accepts at most one request, only    *)
(* while the event is being sent, and after that there is no way back to a *)
(* retry: the event ends submitted or failed, or stays where it is.        *)
(***************************************************************************)
EXTENDS Naturals

CONSTANTS
  Events,     \* the event rows that may come to exist
  DemoEvents  \* those that must never reach a provider

VARIABLES
  phase,     \* the state of each event
  accepted   \* how many requests the provider accepted for it

lifecycleVars == <<phase, accepted>>

Phases ==
  {"absent", "scheduled", "sending", "retrying",
   "submitted", "failed", "suppressed", "cancelled"}

LifecycleInit ==
  /\ phase = [e \in Events |-> "absent"]
  /\ accepted = [e \in Events |-> 0]

Move(e, from, to) ==
  /\ phase[e] = from
  /\ phase' = [phase EXCEPT ![e] = to]
  /\ UNCHANGED accepted

\* One transaction claims the events of `claimed` and gives up those of
\* `missed`, which are beyond their grace period.
ClaimEvents(claimed, missed) ==
  /\ \A e \in claimed \cup missed : phase[e] = "scheduled"
  /\ phase' = [e \in Events |-> IF e \in missed THEN "failed"
                                ELSE IF e \in claimed THEN "sending"
                                ELSE phase[e]]
  /\ UNCHANGED accepted

Accept(e) ==
  /\ e \notin DemoEvents
  /\ phase[e] = "sending"
  /\ accepted[e] = 0
  /\ accepted' = [accepted EXCEPT ![e] = 1]
  /\ UNCHANGED phase

\* A retry is promised only while nothing has been accepted.
Retry(e) ==
  \/ accepted[e] = 0 /\ Move(e, "sending", "retrying")
  \/ Move(e, "retrying", "sending")

Conclude(e) ==
  \/ accepted[e] = 1 /\ Move(e, "sending", "submitted")
  \/ e \in DemoEvents /\ Move(e, "sending", "suppressed")
  \/ Move(e, "sending", "failed")

LifecycleNext ==
  \/ \E e \in Events :
       \/ Move(e, "absent", "scheduled")
       \/ Move(e, "scheduled", "cancelled")
       \/ Accept(e)
       \/ Retry(e)
       \/ Conclude(e)
  \/ \E claimed, missed \in SUBSET Events : ClaimEvents(claimed, missed)

LifecycleSpec == LifecycleInit /\ [][LifecycleNext]_lifecycleVars
=============================================================================
