------------------------------ MODULE EventAdmin ------------------------------
(***************************************************************************)
(* The admin site over scheduled events: the change form and the deletion  *)
(* of ScheduledEventAdmin (apps/scheduling/admin.py), beside the services  *)
(* of Scheduling and the executors of Delivery.                            *)
(*                                                                         *)
(* readonly_fields keeps status and the lifecycle timestamps out of the    *)
(* form, but not out of the save.  The view that handles the POST loads    *)
(* the row without a lock, puts the submitted fields on the instance,      *)
(* cleans it and calls save(), which writes every column: the status as it *)
(* was loaded too.  What a service or an executor commits between the two  *)
(* is overwritten.  (A form whose row is deleted under it would insert the *)
(* row again; that, and edits of is_demo, the owner and the ZIP code, are  *)
(* left out; Destinations has the forms that edit the phone number.)       *)
(***************************************************************************)
EXTENDS Delivery

CONSTANTS
  Deletable,  \* bound: the events staff delete
  MaxSaves    \* bound on the forms staff save

ASSUME AdminAssumption == Deletable \subseteq Events /\ MaxSaves \in Nat

VARIABLES
  form,       \* the POST being handled: the event and its status as loaded
  deleted,    \* events that were deleted; primary keys are not used again
  saves,      \* forms saved so far
  resets,     \* history: saves that put an event back to scheduled
  disturbed   \* history: events saved when they were not pending all along

formVars  == <<form, saves, resets, disturbed>>
adminVars == <<vars, formVars, deleted>>

-----------------------------------------------------------------------------
(* Types *)

NoForm == [event |-> 0, status |-> "absent"]

Form == [event : Events, status : Statuses \ {"absent"}]

\* A form is about a row that is there, and what was deleted stays away.
AdminTypeOK ==
  /\ TypeOK
  /\ form \in Form \cup {NoForm}
  /\ deleted \subseteq Deletable
  /\ saves \in 0 .. MaxSaves
  /\ resets \in [Events -> 0 .. saves]
  /\ disturbed \subseteq Events
  /\ form # NoForm => status[form.event] # "absent"
  /\ \A e \in deleted : status[e] = "absent" /\ attempts[e] = <<>>

-----------------------------------------------------------------------------
(* The change form *)

\* The view loads the row and cleans it with the submitted fields.
SubmitForm(e) ==
  /\ form = NoForm
  /\ saves < MaxSaves
  /\ status[e] # "absent"
  /\ form' = [event |-> e, status |-> status[e]]
  /\ UNCHANGED <<vars, deleted, saves, resets, disturbed>>

\* clean() wants a time in the future only for a new row.  The time and the
\* channel are what the page held, edited or as shown long ago.
SaveForm(due, ch) ==
  LET e == form.event
  IN  /\ form # NoForm
      /\ status' = [status EXCEPT ![e] = form.status]
      /\ scheduledFor' = [scheduledFor EXCEPT ![e] = due]
      /\ channel' = [channel EXCEPT ![e] = ch]
      /\ form' = NoForm
      /\ saves' = saves + 1
      /\ resets' = IF form.status = "scheduled" /\ status[e] # "scheduled"
                   THEN [resets EXCEPT ![e] = @ + 1] ELSE resets
      /\ disturbed' = IF form.status = "scheduled" /\ status[e] = "scheduled"
                      THEN disturbed ELSE disturbed \cup {e}
      /\ UNCHANGED <<now, deliveryVars, deleted>>

\* Mutant of DeleteEvent: the attempts are left behind.
DeleteRowOnly(e) ==
  /\ e \in Deletable
  /\ status[e] # "absent"
  /\ form.event # e
  /\ status' = [status EXCEPT ![e] = "absent"]
  /\ deleted' = deleted \cup {e}
  /\ UNCHANGED <<now, scheduledFor, channel, deliveryVars, formVars>>

\* on_delete=CASCADE takes the attempts with the event, in whatever state.
DeleteEvent(e) ==
  /\ e \in Deletable
  /\ status[e] # "absent"
  /\ form.event # e
  /\ status' = [status EXCEPT ![e] = "absent"]
  /\ attempts' = [attempts EXCEPT ![e] = <<>>]
  /\ deleted' = deleted \cup {e}
  /\ UNCHANGED <<now, scheduledFor, channel, calls, workerVars, formVars>>

-----------------------------------------------------------------------------
(* Specification *)

AdminInit ==
  /\ Init
  /\ form = NoForm
  /\ deleted = {}
  /\ saves = 0
  /\ resets = [e \in Events |-> 0]
  /\ disturbed = {}

KeysAreNew == \A e \in deleted : status'[e] = "absent"

AdminNext ==
  \/ /\ Next
     /\ KeysAreNew
     /\ UNCHANGED <<formVars, deleted>>
  \/ \E e \in Events : SubmitForm(e) \/ DeleteEvent(e)
  \/ \E due \in Times, ch \in Channels : SaveForm(due, ch)

AdminSpec == AdminInit /\ [][AdminNext]_adminVars

-----------------------------------------------------------------------------
(* Properties *)

\* However stale the rows that forms write back, and whoever works on the
\* event then, the provider accepts at most one request for each time the
\* event is put in the scheduled state: an event is sent again only if a save
\* took it back there, and then once (attempts belong to one executor, and
\* _claim_queued_event takes up nothing but a retryable failure).
OneSubmissionPerReset ==
  \A e \in Events : Len(calls[e]) <= 1 + resets[e]

\* A save that loaded a pending event and finds it pending still does no harm,
\* whatever time (past ones too) and channel it writes: the event keeps every
\* guarantee of the workflow.  Claims are exclusive, it is submitted at most
\* once, on the channel of its row, and row, attempts and provider agree.
PendingSavesAreHarmless ==
  \A e \in Events \ (disturbed \cup deleted) :
    /\ SubmissionMatches(e)
    /\ AuditMatches(e)
    /\ AttemptsMatch(e)
    /\ \A w \in Workers : \A c \in held[w] : c.event = e => Owns(w, c)

\* The audit survives what the form does to the event: a request accepted for
\* an event that is not deleted has an attempt of its own that is still open
\* or says submitted or sender error, although the event's status may have
\* been taken back.  Retries and repeated claims add attempts, none is reused.
SentAttempts(e) ==
  {n \in DOMAIN attempts[e] :
     attempts[e][n] \in {Open, Submitted, Failed("SenderError")}}

EverySubmissionIsAudited ==
  \A e \in Events \ deleted : Len(calls[e]) <= Cardinality(SentAttempts(e))
=============================================================================
