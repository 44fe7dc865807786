--------------------------- MODULE ProviderStatus ---------------------------
(***************************************************************************)
(* Voice status callbacks: record_voice_status_callback of                 *)
(* apps/delivery/services.py and apply_provider_status of                  *)
(* apps/delivery/models.py.                                                *)
(*                                                                         *)
(* A call goes on at Twilio from the moment the request is accepted, while *)
(* the executor still has to store its Call SID.  Each subscribed change   *)
(* is sent as a callback numbered from 0; callbacks overtake each other    *)
(* and are sent again until they are acknowledged with 204, so one may     *)
(* come before its attempt is known, or twice.  A callback is one          *)
(* transaction that locks the attempt, so it is one action here.           *)
(***************************************************************************)
EXTENDS Integers, Sequences

CONSTANT Calls  \* voice attempts whose request the provider accepted

VARIABLES
  attempt,   \* the local status of the attempt
  stored,    \* its provider_status and provider_status_sequence
  progress,  \* the statuses the call has gone through at the provider
  network,   \* callbacks on their way, and those to be sent again
  answered   \* history: callbacks that were acknowledged

statusVars == <<attempt, stored, progress, network, answered>>

-----------------------------------------------------------------------------
(* Types *)

TerminalProviderStatuses == {"completed", "busy", "no_answer", "failed", "canceled"}

ProviderStatuses ==
  {"queued", "initiated", "ringing", "in_progress"} \cup TerminalProviderStatuses

\* A blank status, and NULL for its sequence number
Unknown == [status |-> "", sequence |-> -1]

Callback == [call : Calls, status : ProviderStatuses, sequence : Nat]

\* A status is stored together with its number, for a submitted attempt only.
StatusTypeOK ==
  /\ attempt \in [Calls -> {"processing", "submitted", "failed"}]
  /\ progress \in [Calls -> Seq(ProviderStatuses)]
  /\ network \subseteq Callback
  /\ answered \subseteq Callback
  /\ stored \in [Calls -> {Unknown} \cup [status : ProviderStatuses, sequence : Nat]]
  /\ \A c \in Calls : stored[c] # Unknown => attempt[c] = "submitted"

-----------------------------------------------------------------------------
(* The executor and the provider *)

\* _record_success stores the SID; after a lost answer _record_failure does not.
RecordAnswer(c, status) ==
  /\ attempt[c] = "processing"
  /\ attempt' = [attempt EXCEPT ![c] = status]
  /\ UNCHANGED <<stored, progress, network, answered>>

\* The subscribed changes of a call: initiated, ringing, answered, completed,
\* the last of which reports any terminal status.
NextStatuses(c) ==
  LET p == progress[c]
  IN  CASE p = <<>>                      -> {"initiated"}
        [] p # <<>> /\ p[Len(p)] = "initiated"   ->
             {"ringing"} \cup (TerminalProviderStatuses \ {"completed"})
        [] p # <<>> /\ p[Len(p)] = "ringing"     ->
             {"in_progress"} \cup (TerminalProviderStatuses \ {"completed"})
        [] p # <<>> /\ p[Len(p)] = "in_progress" -> {"completed", "failed", "canceled"}
        [] OTHER                         -> {}

CallGoesOn(c, status) ==
  /\ status \in NextStatuses(c)
  /\ progress' = [progress EXCEPT ![c] = Append(@, status)]
  /\ network' = network \cup
       {[call |-> c, status |-> status, sequence |-> Len(progress[c])]}
  /\ UNCHANGED <<attempt, stored, answered>>

-----------------------------------------------------------------------------
(* Callbacks *)

\* Mutant of Newer: the sequence numbers are not compared.
AnyNumber(cb) == stored[cb.call].status \notin TerminalProviderStatuses

\* apply_provider_status
Newer(cb) ==
  /\ stored[cb.call].status \notin TerminalProviderStatuses
  /\ cb.sequence > stored[cb.call].sequence

\* 204 for a submitted attempt; the answer may be lost, so that the callback
\* is sent again.
ApplyCallback(cb, again) ==
  /\ attempt[cb.call] = "submitted"
  /\ stored' = IF Newer(cb)
               THEN [stored EXCEPT ![cb.call] =
                       [status |-> cb.status, sequence |-> cb.sequence]]
               ELSE stored
  /\ network' = IF again THEN network ELSE network \ {cb}
  /\ answered' = answered \cup {cb}
  /\ UNCHANGED <<attempt, progress>>

\* Mutant of UnknownCall: a callback of an attempt that is not known yet is
\* answered like any other.
SwallowUnknown(cb) ==
  /\ attempt[cb.call] # "submitted"
  /\ network' = network \ {cb}
  /\ UNCHANGED <<attempt, stored, progress, answered>>

\* 404: the provider sends the callback again, in the end in vain if the
\* attempt has no SID.
UnknownCall(cb) ==
  /\ attempt[cb.call] # "submitted"
  /\ network' = IF attempt[cb.call] = "failed" THEN network \ {cb} ELSE network
  /\ UNCHANGED <<attempt, stored, progress, answered>>

-----------------------------------------------------------------------------
(* Specification *)

StatusInit ==
  /\ attempt = [c \in Calls |-> "processing"]
  /\ stored = [c \in Calls |-> Unknown]
  /\ progress = [c \in Calls |-> <<>>]
  /\ network = {}
  /\ answered = {}

Deliver(cb) ==
  \/ \E again \in BOOLEAN : ApplyCallback(cb, again)
  \/ UnknownCall(cb)

StatusNext ==
  \/ \E c \in Calls :
       \/ \E status \in {"submitted", "failed"} : RecordAnswer(c, status)
       \/ \E status \in ProviderStatuses : CallGoesOn(c, status)
  \/ \E cb \in network : Deliver(cb)

\* A callback that is sent again and again is answered, once it comes, for
\* good; the executor may die and never record.
StatusFairness ==
  \A c \in Calls, n \in 0 .. 3 :
    SF_statusVars(\E cb \in network : /\ cb.call = c /\ cb.sequence = n
                                     /\ ApplyCallback(cb, FALSE))

StatusSpec == StatusInit /\ [][StatusNext]_statusVars /\ StatusFairness

-----------------------------------------------------------------------------
(* Properties *)

\* The row holds the status of the newest callback that was acknowledged,
\* whatever order they came in, and nothing if there was none: no late or
\* duplicate callback brings an older status back, and none that was
\* acknowledged is missing from it.
NewestIsStored ==
  /\ \A cb \in answered : cb.sequence <= stored[cb.call].sequence
  /\ \A c \in Calls :
       \/ stored[c] = Unknown
       \/ \E cb \in answered :
            /\ cb.call = c
            /\ stored[c] = [status |-> cb.status, sequence |-> cb.sequence]

\* A call that is over, and whose SID is stored, has its outcome stored in the
\* end, even if every callback came before the SID was stored.
OutcomeIsStored ==
  \A c \in Calls :
    attempt[c] = "submitted" /\ progress[c] # <<>> /\ NextStatuses(c) = {}
      ~> stored[c].status \in TerminalProviderStatuses
=============================================================================
