-------------------------- MODULE DestinationProofs --------------------------
(***************************************************************************)
(* Theorems about Destinations, for any rows, numbers, requests, events    *)
(* and forms.                                                              *)
(***************************************************************************)
EXTENDS Destinations, PhoneProofs

-----------------------------------------------------------------------------
(* Destinations and PhoneVerification *)

\* The commands and the event form read phone rows and never write one.
LEMMA RouteStepIsPhoneStep ==
  [RouteNext]_routeVars => [Next]_phoneVars
BY DEF RouteNext, routeVars, PhoneStep, CleanEvent, SaveEvent, ChangeChannel,
       CheckEvent, ClaimEvent, EndCommand, Submit, Fail

\* So whatever holds of phone rows by themselves holds beside the deliveries.
THEOREM RoutesImplementPhones == RouteSpec => PhoneSpec
<1>1. RouteInit => Init
  BY DEF RouteInit
<1>. QED BY <1>1, RouteStepIsPhoneStep, PTL DEF RouteSpec, PhoneSpec

-----------------------------------------------------------------------------
(* The invariant *)

Statuses == {"scheduled", "processing", "submitted", "failed"}

EventRow == [status : Statuses, phone : Phones, channel : Channels,
             meant : Numbers \cup {NoNumber}]

Draft == [event : Events, phone : Phones, channel : Channels,
          meant : Numbers \cup {NoNumber}, status : Statuses]

Checked == [phase : {"checked"}, event : Events, diverted : BOOLEAN]

Claimed == [phase : {"claimed"}, event : Events, phone : Phones,
            number : Numbers \cup {NoNumber}, channel : Channels,
            meant : Numbers \cup {NoNumber}, diverted : BOOLEAN]

Runs == Checked \cup Claimed \cup {Resting}

RouteTypes ==
  /\ row \in [Events -> EventRow \cup {Absent}]
  /\ draft \in Draft \cup {NoDraft}
  /\ run \in [Commands -> Runs]

\* The number got the mark of this phone row honestly.
Earned(n, p) == n \in approved[p] \cup vouched[p]

RowsSafe == \A e \in Events : row[e] # Absent => Earned(row[e].meant, row[e].phone)

DraftSafe == draft # NoDraft => Earned(draft.meant, draft.phone)

\* What a staging command checked is still so when it claims, or was diverted, and
\* what it has claimed stays so.
CommandSafe(s) ==
  /\ run[s].phase = "checked" =>
       /\ s \in Channels
       /\ row[run[s].event] # Absent
       /\ run[s].diverted \/ number[row[run[s].event].phone] = Authorized
  /\ run[s].phase = "claimed" =>
       /\ row[run[s].event] # Absent
       /\ Earned(run[s].meant, run[s].phone)
       /\ s \in Channels => run[s].number = Authorized \/ run[s].diverted

RouteSafe == RowsSafe /\ DraftSafe /\ \A s \in Commands : CommandSafe(s)

RouteInv == PhoneInv /\ RouteTypes /\ RouteSafe

\* A stored event is not the mark of an absent one.
LEMMA RowIsThere == \A r \in EventRow : r # Absent
BY DEF EventRow, Statuses, Absent

-----------------------------------------------------------------------------
(* Steps that may divert a command *)

\* The two histories of phone rows only grow.
LEMMA PhoneStepFacts ==
  ASSUME PhoneInv, [Next]_phoneVars
  PROVE  \A p \in Phones : /\ approved[p] \subseteq approved'[p]
                           /\ vouched[p] \subseteq vouched'[p]
<1>. USE DEF PhoneInv, ApprovalIsKnown
<1>1. ASSUME NEW c \in Checks, NEW answered \in BOOLEAN,
             CheckIsApproved(c, answered)
      PROVE  /\ \A p \in Phones : approved[p] \subseteq approved'[p]
             /\ vouched' = vouched
  BY <1>1 DEF CheckIsApproved
<1>2. ASSUME NEW n \in Numbers, NEW marked \in BOOLEAN, SaveForm(n, marked)
      PROVE  /\ approved' = approved
             /\ \A p \in Phones : vouched[p] \subseteq vouched'[p]
  BY <1>2 DEF SaveForm
<1>3. ASSUME \/ \E p \in Phones, n \in Numbers : CreatePhoneNumber(p, n)
             \/ \E p \in Phones : StartPhoneVerification(p) \/ OpenForm(p)
             \/ \E c \in Checks, p \in Phones : CheckPhoneVerification(c, p)
             \/ \E c \in Checks :
                  CheckIsRefused(c) \/ MarkPhoneVerified(c) \/ Abandon(c)
             \/ UNCHANGED phoneVars
      PROVE  UNCHANGED <<approved, vouched>>
  BY <1>3 DEF CreatePhoneNumber, StartPhoneVerification, OpenForm,
              CheckPhoneVerification, CheckIsRefused, MarkPhoneVerified, Abandon,
              phoneVars, historyOfPhones
<1>. QED BY <1>1, <1>2, <1>3 DEF Next, Verify

\* A step that records the diversions keeps what is known of every command, if no
\* event goes away and no history shrinks.
LEMMA DiversionsAreNoted ==
  ASSUME RouteInv, NoteDiversions,
         \A e \in Events : row[e] # Absent => row'[e] # Absent,
         \A p \in Phones : /\ approved[p] \subseteq approved'[p]
                           /\ vouched[p] \subseteq vouched'[p]
  PROVE  run' \in [Commands -> Runs] /\ \A s \in Commands : CommandSafe(s)'
<1>. DEFINE Turned(s) ==
       /\ run[s].phase = "checked"
       /\ number'[row'[run[s].event].phone] # number[row[run[s].event].phone]
<1>1. ASSUME NEW s \in Commands
      PROVE  run'[s] = IF Turned(s) THEN [run[s] EXCEPT !.diverted = TRUE] ELSE run[s]
  BY DEF NoteDiversions
<1>2. ASSUME NEW s \in Commands PROVE run'[s] \in Runs /\ CommandSafe(s)'
  <2>1. run[s] \in Runs /\ CommandSafe(s)
    BY DEF RouteInv, RouteTypes, RouteSafe
  <2>2. CASE Turned(s)
    <3>1. run[s] \in Checked
      BY <2>1, <2>2 DEF Runs, Claimed, Resting
    <3>2. /\ run'[s] \in Checked /\ run'[s].phase = "checked"
          /\ run'[s].event = run[s].event /\ run'[s].diverted
      BY <1>1, <2>2, <3>1 DEF Checked
    <3>. QED BY <2>1, <3>1, <3>2 DEF CommandSafe, Runs, Checked
  <2>3. CASE ~Turned(s)
    <3>. HIDE DEF Turned
    <3>1. run'[s] = run[s]
      BY <1>1, <2>3
    <3>2. CASE run[s] \in Checked
      <4>. USE DEF Turned
      <4>. QED BY <2>1, <2>3, <3>1, <3>2 DEF CommandSafe, Checked
    <3>3. CASE run[s] \in Claimed
      <4>1. /\ run[s].phase = "claimed" /\ run[s].event \in Events
            /\ run[s].phone \in Phones
        BY <3>3 DEF Claimed
      <4>. QED BY <2>1, <3>1, <4>1 DEF CommandSafe, Earned
    <3>4. CASE run[s] = Resting
      BY <2>1, <3>1, <3>4 DEF CommandSafe, Resting
    <3>. QED BY <2>1, <3>1, <3>2, <3>3, <3>4 DEF Runs
  <2>. QED BY <2>2, <2>3
<1>3. run' \in [Commands -> Runs]
  BY <1>2 DEF NoteDiversions
<1>. QED BY <1>2, <1>3

\* Enrolments, checks and forms of phone rows keep the invariant.
LEMMA PhoneStepSafe ==
  ASSUME RouteInv, PhoneStep
  PROVE  RouteTypes' /\ RouteSafe'
<1>1. /\ UNCHANGED <<row, draft>> /\ NoteDiversions
      /\ \A p \in Phones : /\ approved[p] \subseteq approved'[p]
                           /\ vouched[p] \subseteq vouched'[p]
  BY PhoneStepFacts DEF PhoneStep, draftVars, RouteInv
<1>2. run' \in [Commands -> Runs] /\ \A s \in Commands : CommandSafe(s)'
  BY <1>1, DiversionsAreNoted
<1>3. RowsSafe'
  <2>1. ASSUME NEW e \in Events, row[e] # Absent
        PROVE  row[e].phone \in Phones /\ Earned(row[e].meant, row[e].phone)
    BY <2>1 DEF RouteInv, RouteTypes, EventRow, RouteSafe, RowsSafe
  <2>. QED BY <1>1, <2>1 DEF RowsSafe, Earned
<1>4. DraftSafe'
  <2>1. ASSUME draft # NoDraft
        PROVE  draft.phone \in Phones /\ Earned(draft.meant, draft.phone)
    BY <2>1 DEF RouteInv, RouteTypes, Draft, RouteSafe, DraftSafe
  <2>. QED BY <1>1, <2>1 DEF DraftSafe, Earned
<1>. QED BY <1>1, <1>2, <1>3, <1>4 DEF RouteInv, RouteTypes, RouteSafe

\* So does the form of an event.
LEMMA SaveEventSafe ==
  ASSUME RouteInv, SaveEvent
  PROVE  RouteTypes' /\ RouteSafe'
<1>. DEFINE new == [status |-> draft.status, phone |-> draft.phone,
                    channel |-> draft.channel, meant |-> draft.meant]
<1>1. /\ row' = [row EXCEPT ![draft.event] = new]
      /\ draft' = NoDraft /\ NoteDiversions
      /\ UNCHANGED <<approved, vouched>>
  BY DEF SaveEvent, phoneVars, historyOfPhones
<1>2. draft \in Draft /\ Earned(draft.meant, draft.phone)
  BY DEF SaveEvent, RouteInv, RouteTypes, RouteSafe, DraftSafe
<1>3. /\ draft.event \in Events /\ new \in EventRow
      /\ new.meant = draft.meant /\ new.phone = draft.phone
  BY <1>2 DEF Draft, EventRow
<1>. HIDE DEF new
<1>4. row' \in [Events -> EventRow \cup {Absent}]
  BY <1>1, <1>3 DEF RouteInv, RouteTypes
<1>5. \A e \in Events : row[e] # Absent => row'[e] # Absent
  BY <1>1, <1>3, RowIsThere DEF RouteInv, RouteTypes
<1>6. run' \in [Commands -> Runs] /\ \A s \in Commands : CommandSafe(s)'
  BY <1>1, <1>5, DiversionsAreNoted
<1>7. RowsSafe'
  BY <1>1, <1>2, <1>3 DEF RouteInv, RouteTypes, RouteSafe, RowsSafe, Earned
<1>. QED BY <1>1, <1>4, <1>6, <1>7 DEF RouteTypes, RouteSafe, DraftSafe

-----------------------------------------------------------------------------
(* The other steps *)

\* What a step of the actor itself must show: that it changes neither the phone
\* rows nor the phone of a stored event, and what it learns of its own command.
LEMMA OwnStepSafe ==
  ASSUME RouteInv, UNCHANGED phoneVars, draft' = draft,
         \/ row' = row
         \/ \E e \in Events : \/ \E st \in Statuses :
                                   row[e] # Absent /\ row' = [row EXCEPT ![e].status = st]
                              \/ \E ch \in Channels :
                                   row[e] # Absent /\ row' = [row EXCEPT ![e].channel = ch],
         \/ run' = run
         \/ \E s \in Commands, k \in Runs :
              run' = [run EXCEPT ![s] = k] /\ CommandSafe(s)'
  PROVE  RouteTypes' /\ RouteSafe'
<1>. DEFINE Kept(e) == row[e] # Absent =>
              /\ row'[e] # Absent
              /\ row'[e].phone = row[e].phone /\ row'[e].meant = row[e].meant
            Fresh(e) == row[e] = Absent => row'[e] = Absent
            Types == row' \in [Events -> EventRow \cup {Absent}]
<1>1. UNCHANGED <<number, approved, vouched>>
  BY DEF phoneVars, historyOfPhones
<1>2. Types /\ \A e \in Events : Kept(e) /\ Fresh(e)
  <2>1. ASSUME NEW e \in Events, NEW r \in EventRow, row[e] # Absent,
               row' = [row EXCEPT ![e] = r], r.phone = row[e].phone,
               r.meant = row[e].meant
        PROVE  Types /\ \A f \in Events : Kept(f) /\ Fresh(f)
    BY <2>1, RowIsThere DEF RouteInv, RouteTypes
  <2>2. ASSUME NEW e \in Events, NEW st \in Statuses,
               row[e] # Absent, row' = [row EXCEPT ![e].status = st]
        PROVE  Types /\ \A f \in Events : Kept(f) /\ Fresh(f)
    <3>. DEFINE r == [row[e] EXCEPT !.status = st]
    <3>1. row[e] \in EventRow
      BY <2>2 DEF RouteInv, RouteTypes
    <3>2. r \in EventRow /\ r.phone = row[e].phone /\ r.meant = row[e].meant
      BY <3>1 DEF EventRow
    <3>3. row' = [row EXCEPT ![e] = r]
      BY <2>2
    <3>. HIDE DEF r, Types, Kept, Fresh
    <3>. QED BY <2>1, <2>2, <3>2, <3>3
  <2>3. ASSUME NEW e \in Events, NEW ch \in Channels,
               row[e] # Absent, row' = [row EXCEPT ![e].channel = ch]
        PROVE  Types /\ \A f \in Events : Kept(f) /\ Fresh(f)
    <3>. DEFINE r == [row[e] EXCEPT !.channel = ch]
    <3>1. row[e] \in EventRow
      BY <2>3 DEF RouteInv, RouteTypes
    <3>2. r \in EventRow /\ r.phone = row[e].phone /\ r.meant = row[e].meant
      BY <3>1 DEF EventRow
    <3>3. row' = [row EXCEPT ![e] = r]
      BY <2>3
    <3>. HIDE DEF r, Types, Kept, Fresh
    <3>. QED BY <2>1, <2>3, <3>2, <3>3
  <2>4. ASSUME row' = row
        PROVE  Types /\ \A f \in Events : Kept(f) /\ Fresh(f)
    BY <2>4 DEF RouteInv, RouteTypes
  <2>. HIDE DEF Types, Kept, Fresh
  <2>. QED BY <2>2, <2>3, <2>4
<1>3. ASSUME NEW t \in Commands, run'[t] = run[t] PROVE CommandSafe(t)'
  <2>1. CommandSafe(t) /\ run[t] \in Runs
    BY DEF RouteInv, RouteTypes, RouteSafe
  <2>2. ASSUME run[t].phase \in {"checked", "claimed"} PROVE run[t].event \in Events
    BY <2>1, <2>2 DEF Runs, Checked, Claimed, Resting
  <2>. QED BY <1>1, <1>2, <1>3, <2>1, <2>2 DEF CommandSafe, Earned
<1>4. run' \in [Commands -> Runs] /\ \A t \in Commands : CommandSafe(t)'
  <2>1. ASSUME NEW s \in Commands, NEW k \in Runs,
               run' = [run EXCEPT ![s] = k], CommandSafe(s)'
        PROVE  run' \in [Commands -> Runs] /\ \A t \in Commands : CommandSafe(t)'
    <3>1. run' \in [Commands -> Runs] /\ \A t \in Commands \ {s} : run'[t] = run[t]
      BY <2>1 DEF RouteInv, RouteTypes
    <3>. QED BY <1>3, <2>1, <3>1
  <2>2. ASSUME run' = run
        PROVE  run' \in [Commands -> Runs] /\ \A t \in Commands : CommandSafe(t)'
    BY <1>3, <2>2 DEF RouteInv, RouteTypes
  <2>. QED BY <2>1, <2>2
<1>5. RowsSafe' /\ DraftSafe'
  BY <1>1, <1>2 DEF RouteInv, RouteSafe, RowsSafe, DraftSafe, Earned
<1>. QED BY <1>2, <1>4, <1>5 DEF RouteInv, RouteTypes, RouteSafe

\* Staff clean an event, and users change its channel.
LEMMA EventStepSafe ==
  ASSUME RouteInv,
         \/ \E e \in Events, p \in Phones, ch \in Channels : CleanEvent(e, p, ch)
         \/ \E e \in Events, ch \in Channels : ChangeChannel(e, ch)
  PROVE  RouteTypes' /\ RouteSafe'
<1>1. ASSUME NEW e \in Events, NEW p \in Phones, NEW ch \in Channels,
             CleanEvent(e, p, ch)
      PROVE  RouteTypes' /\ RouteSafe'
  <2>. DEFINE st == IF row[e] = Absent THEN "scheduled" ELSE row[e].status
              d == [event |-> e, phone |-> p, channel |-> ch,
                    meant |-> number[p], status |-> st]
  <2>1. /\ draft' = d /\ verified[p]
        /\ UNCHANGED <<approved, vouched, number, row, run>>
    BY <1>1 DEF CleanEvent, MayName, phoneVars, historyOfPhones
  <2>2. st \in Statuses
    BY DEF RouteInv, RouteTypes, EventRow, Statuses
  <2>3. d \in Draft /\ d.meant = number[p] /\ d.phone = p
    BY <2>2 DEF Draft, RouteInv, PhoneInv, PhoneTypeOK
  <2>. HIDE DEF d, st
  <2>4. Earned(number[p], p)
    BY <2>1 DEF Earned, RouteInv, PhoneInv, MarkIsEarned
  <2>5. DraftSafe'
    BY <2>1, <2>3, <2>4 DEF DraftSafe, Earned
  <2>. QED BY <2>1, <2>3, <2>5
       DEF RouteInv, RouteTypes, RouteSafe, RowsSafe, CommandSafe, Earned
<1>2. ASSUME NEW e \in Events, NEW ch \in Channels, ChangeChannel(e, ch)
      PROVE  RouteTypes' /\ RouteSafe'
  <2>1. row[e] # Absent
    BY <1>2 DEF ChangeChannel, Absent
  <2>2. /\ UNCHANGED phoneVars /\ draft' = draft /\ run' = run
        /\ row' = [row EXCEPT ![e].channel = ch]
    BY <1>2 DEF ChangeChannel, draftVars
  <2>. QED BY <2>1, <2>2, OwnStepSafe
<1>. QED BY <1>1, <1>2

\* The checks of a staging command learn the authorized number.
LEMMA CheckSafe ==
  ASSUME RouteInv, NEW s \in Commands, NEW e \in Events, CheckEvent(s, e)
  PROVE  RouteTypes' /\ RouteSafe'
<1>. DEFINE k == [phase |-> "checked", event |-> e, diverted |-> FALSE]
<1>1. /\ run' = [run EXCEPT ![s] = k] /\ row' = row /\ draft' = draft
      /\ UNCHANGED phoneVars
  BY DEF CheckEvent, draftVars
<1>2. k \in Runs /\ k.phase = "checked" /\ k.event = e
  BY DEF Runs, Checked
<1>3. CommandSafe(s)'
  <2>1. run'[s] = k /\ UNCHANGED <<number, row>>
    BY <1>1 DEF RouteInv, RouteTypes, phoneVars
  <2>2. s \in Channels /\ row[e] # Absent /\ number[row[e].phone] = Authorized
    BY DEF CheckEvent, IsAuthorized
  <2>. QED BY <1>2, <2>1, <2>2 DEF CommandSafe
<1>. HIDE DEF k
<1>. QED BY <1>1, <1>2, <1>3, OwnStepSafe

\* The claim takes the number from the row it has locked.
LEMMA ClaimSafe ==
  ASSUME RouteInv, NEW s \in Commands, NEW e \in Events, ClaimEvent(s, e)
  PROVE  RouteTypes' /\ RouteSafe'
<1>. DEFINE turned == s \in Channels /\ run[s].diverted
            k == [phase |-> "claimed", event |-> e, phone |-> row[e].phone,
                  number |-> number[row[e].phone], channel |-> row[e].channel,
                  meant |-> row[e].meant, diverted |-> turned]
<1>1. /\ run' = [run EXCEPT ![s] = k] /\ UNCHANGED phoneVars /\ draft' = draft
      /\ row' = [row EXCEPT ![e].status = "processing"]
  BY DEF ClaimEvent, draftVars
<1>2. row[e] \in EventRow /\ row[e] # Absent
  BY RowIsThere DEF ClaimEvent, Absent, RouteInv, RouteTypes
<1>3. /\ row[e].phone \in Phones /\ row[e].channel \in Channels
      /\ row[e].meant \in Numbers \cup {NoNumber}
  BY <1>2 DEF EventRow
<1>4. turned \in BOOLEAN
  <2>1. ASSUME s \in Channels PROVE run[s].phase = "checked"
    BY <2>1 DEF ClaimEvent, Channels
  <2>2. ASSUME s \in Channels PROVE run[s] \in Checked
    BY <2>1, <2>2 DEF RouteInv, RouteTypes, Runs, Claimed, Resting
  <2>. QED BY <2>2 DEF Checked
<1>5. /\ k \in Runs /\ k.phase = "claimed" /\ k.event = e /\ k.diverted = turned
      /\ k.meant = row[e].meant /\ k.phone = row[e].phone
      /\ k.number = number[row[e].phone]
  <2>. HIDE DEF turned
  <2>. QED BY <1>3, <1>4 DEF Runs, Claimed, RouteInv, PhoneInv, PhoneTypeOK
<1>6. s \in Channels => number[row[e].phone] = Authorized \/ turned
  <2>1. ASSUME s \in Channels PROVE run[s].phase = "checked" /\ run[s].event = e
    BY <2>1 DEF ClaimEvent, Channels
  <2>. QED BY <2>1 DEF RouteInv, RouteSafe, CommandSafe
<1>7. Earned(row[e].meant, row[e].phone)
  BY <1>2 DEF RouteInv, RouteSafe, RowsSafe
<1>8. row'[e] # Absent
  BY <1>1, <1>2 DEF RouteInv, RouteTypes, EventRow, Absent
<1>. HIDE DEF k, turned
<1>9. CommandSafe(s)'
  <2>1. run'[s] = k
    BY <1>1 DEF RouteInv, RouteTypes
  <2>2. UNCHANGED <<approved, vouched>>
    BY <1>1 DEF phoneVars, historyOfPhones
  <2>. QED BY <1>5, <1>6, <1>7, <1>8, <2>1, <2>2 DEF CommandSafe, Earned
<1>10. "processing" \in Statuses
  BY DEF Statuses
<1>. QED BY <1>1, <1>2, <1>5, <1>9, <1>10, OwnStepSafe

\* A command that ends is at rest.
LEMMA EndSafe ==
  ASSUME RouteInv, NEW s \in Commands, EndCommand(s) \/ Submit(s) \/ Fail(s)
  PROVE  RouteTypes' /\ RouteSafe'
<1>1. /\ run' = [run EXCEPT ![s] = Resting] /\ UNCHANGED phoneVars
      /\ draft' = draft
  BY DEF EndCommand, Submit, Fail, Conclude, draftVars
<1>2. Resting \in Runs
  BY DEF Runs
<1>3. CommandSafe(s)'
  <2>1. run'[s] = Resting
    BY <1>1 DEF RouteInv, RouteTypes
  <2>. QED BY <2>1 DEF CommandSafe, Resting
<1>4. \/ row' = row
      \/ \E e \in Events, st \in Statuses :
           row[e] # Absent /\ row' = [row EXCEPT ![e].status = st]
  <2>1. CASE EndCommand(s)
    BY <2>1 DEF EndCommand
  <2>2. CASE Submit(s) \/ Fail(s)
    <3>1. /\ run[s].phase = "claimed"
          /\ Conclude(s, "submitted") \/ Conclude(s, "failed")
      BY <2>2 DEF Submit, Fail
    <3>2. run[s].event \in Events /\ row[run[s].event] # Absent
      BY <3>1 DEF RouteInv, RouteTypes, Runs, Checked, Claimed, Resting, RouteSafe,
                  CommandSafe
    <3>. QED BY <3>1, <3>2 DEF Conclude, Statuses
  <2>. QED BY <2>1, <2>2
<1>. QED BY <1>1, <1>2, <1>3, <1>4, OwnStepSafe

-----------------------------------------------------------------------------
(* The theorems *)

\* The invariant holds at the start.
LEMMA InitRoute == RouteInit => RouteInv
<1>. SUFFICES ASSUME RouteInit PROVE RouteInv
  OBVIOUS
<1>1. PhoneInv
  BY PhoneAssumption
     DEF RouteInit, Init, PhoneInv, PhoneTypeOK, ApprovalIsKnown, MarkIsEarned,
         Closed, Idle
<1>2. RouteTypes
  BY DEF RouteInit, RouteTypes, Runs
<1>3. \A s \in Commands : CommandSafe(s)
  BY DEF RouteInit, CommandSafe, Resting
<1>. QED BY <1>1, <1>2, <1>3 DEF RouteInit, RouteInv, RouteSafe, DraftSafe, RowsSafe

\* Every step keeps it, whatever staff may edit.
LEMMA NextRoute == RouteInv /\ [RouteNext]_routeVars => RouteInv'
<1>. SUFFICES ASSUME RouteInv, [RouteNext]_routeVars PROVE RouteInv'
  OBVIOUS
<1>1. PhoneInv'
  BY RouteStepIsPhoneStep, NextPhoneType, NextApproval DEF RouteInv, PhoneInv
<1>2. CASE PhoneStep
  BY <1>1, <1>2, PhoneStepSafe DEF RouteInv
<1>3. CASE SaveEvent
  BY <1>1, <1>3, SaveEventSafe DEF RouteInv
<1>4. CASE \/ \E e \in Events, p \in Phones, ch \in Channels : CleanEvent(e, p, ch)
           \/ \E e \in Events, ch \in Channels : ChangeChannel(e, ch)
  BY <1>1, <1>4, EventStepSafe DEF RouteInv
<1>5. CASE \E s \in Commands :
             \/ \E e \in Events : CheckEvent(s, e) \/ ClaimEvent(s, e)
             \/ EndCommand(s) \/ Submit(s) \/ Fail(s)
  BY <1>1, <1>5, CheckSafe, ClaimSafe, EndSafe DEF RouteInv
<1>6. CASE UNCHANGED routeVars
  <2>1. UNCHANGED <<number, approved, vouched, row, draft, run>>
    BY <1>6 DEF routeVars, phoneVars, historyOfPhones, eventVars, draftVars
  <2>2. RouteTypes' /\ RouteSafe'
    BY <2>1 DEF RouteInv, RouteTypes, RouteSafe, RowsSafe, DraftSafe, CommandSafe,
                Earned
  <2>. QED BY <1>1, <2>2 DEF RouteInv
<1>. QED BY <1>2, <1>3, <1>4, <1>5, <1>6 DEF RouteNext

\* However enrolment, checks, forms, events and commands interleave, a real
\* request goes to a number that was approved for its phone row or saved on it as
\* verified, unless a form has changed the number since the event was cleaned.
THEOREM RealRequestsWereApproved == RouteSpec => DestinationsWereApproved
<1>1. RouteInv => \A s \in Commands : Submit(s) /\ run[s].number = run[s].meant =>
                    run[s].number \in approved[run[s].phone] \cup vouched[run[s].phone]
  BY DEF RouteInv, RouteSafe, CommandSafe, Earned, Submit
<1>. QED BY <1>1, InitRoute, NextRoute, PTL DEF RouteSpec, DestinationsWereApproved

\* A request goes by the channel its event has, and a staging command sends to the
\* authorized number, unless a form diverts the event between its checks and its
\* claim.
THEOREM StagingStaysAuthorized == RouteSpec => SmokeStaysAuthorized
<1>1. RouteInv => \A s \in Commands : Submit(s) =>
                    /\ Via(s) = run[s].channel
                    /\ s \in Channels => run[s].number = Authorized \/ run[s].diverted
  BY DEF RouteInv, RouteSafe, CommandSafe, Submit, Accepts
<1>. QED BY <1>1, InitRoute, NextRoute, PTL DEF RouteSpec, SmokeStaysAuthorized
=============================================================================
