-------------------------- MODULE PhoneVerification --------------------------
(***************************************************************************)
(* Phone numbers and their verification: apps/accounts/services.py, the    *)
(* views that call it, and the PhoneNumber form of the admin.              *)
(*                                                                         *)
(* A check reads the row, asks Twilio Verify outside any transaction and   *)
(* marks the row in a transaction of its own.  Meanwhile other checks run  *)
(* and staff may save the admin form, which writes back every field as it  *)
(* was loaded or edited.  Twilio keeps one challenge for each number; a    *)
(* check that is approved uses it up.                                      *)
(***************************************************************************)
EXTENDS Naturals

CONSTANTS
  Phones,    \* primary keys of the phone rows that may come to exist
  Numbers,   \* telephone numbers
  NoNumber,  \* in place of a number: there is no such row
  Checks,    \* requests that check a code
  StaffEdits, \* what staff edit on a row: nothing, the number, or any field
  MaxForms   \* bound on the forms they save

ASSUME PhoneAssumption ==
  /\ NoNumber \notin Numbers
  /\ StaffEdits \in {"none", "number", "any"}
  /\ MaxForms \in Nat

VARIABLES
  number,     \* PhoneNumber.number
  verified,   \* whether verified_at is set
  challenge,  \* the state of the challenge of a number at Twilio Verify
  check,      \* what each request that checks a code has read and learned
  form,       \* the admin form that is open: the row and its fields as loaded
  forms,      \* forms saved so far
  approved,   \* history: the numbers each row had a check approved for
  vouched     \* history: the numbers each row was saved with as verified

historyOfPhones == <<approved, vouched>>
formVars  == <<form, forms>>
phoneVars == <<number, verified, challenge, check, formVars, historyOfPhones>>

-----------------------------------------------------------------------------
(* Types *)

Idle == [phase |-> "idle"]

Check == [phase : {"ask", "mark"}, phone : Phones, number : Numbers]

Closed == [phone |-> NoNumber]

Form == [phone : Phones, number : Numbers, verified : BOOLEAN]

\* Numbers are unique, only a row that exists is verified, and a check is about a
\* row that exists.
PhoneTypeOK ==
  /\ number \in [Phones -> Numbers \cup {NoNumber}]
  /\ verified \in [Phones -> BOOLEAN]
  /\ challenge \in [Numbers -> {"none", "pending", "approved", "rejected"}]
  /\ check \in [Checks -> Check \cup {Idle}]
  /\ form \in Form \cup {Closed}
  /\ forms \in 0 .. MaxForms
  /\ form # Closed => forms < MaxForms
  /\ \A p \in Phones :
       /\ verified[p] => number[p] # NoNumber
       /\ \A q \in Phones \ {p} : number[p] = number[q] => number[p] = NoNumber
  /\ \A c \in Checks : check[c] # Idle => number[check[c].phone] # NoNumber

Exists(p) == number[p] # NoNumber

Free(n) == \A p \in Phones : number[p] # n

-----------------------------------------------------------------------------
(* Enrolment and verification *)

\* Mutant of CreatePhoneNumber: the number may be enrolled already.
CreateAnyNumber(p, n) ==
  /\ ~Exists(p)
  /\ number' = [number EXCEPT ![p] = n]
  /\ UNCHANGED <<verified, challenge, check, formVars, historyOfPhones>>

\* A number that is taken is refused by the unique constraint.
CreatePhoneNumber(p, n) ==
  /\ ~Exists(p)
  /\ Free(n)
  /\ number' = [number EXCEPT ![p] = n]
  /\ UNCHANGED <<verified, challenge, check, formVars, historyOfPhones>>

\* The row may change before the challenge exists, but the result is the same
\* as if it had changed after.
StartPhoneVerification(p) ==
  /\ Exists(p)
  /\ ~verified[p]
  /\ challenge' = [challenge EXCEPT ![number[p]] = "pending"]
  /\ UNCHANGED <<number, verified, check, formVars, historyOfPhones>>

\* A row that is verified is answered with "approved" and nothing happens.
CheckPhoneVerification(c, p) ==
  /\ check[c] = Idle
  /\ Exists(p)
  /\ ~verified[p]
  /\ check' = [check EXCEPT ![c] =
                 [phase |-> "ask", phone |-> p, number |-> number[p]]]
  /\ UNCHANGED <<number, verified, challenge, formVars, historyOfPhones>>

Answered(c, state) ==
  challenge' = [challenge EXCEPT ![check[c].number] = state]

\* Twilio approves a pending challenge for the right code.  The answer may be
\* lost: the request then ends although the challenge is used up.
CheckIsApproved(c, answered) ==
  LET k == check[c]
  IN  /\ k.phase = "ask"
      /\ challenge[k.number] = "pending"
      /\ Answered(c, "approved")
      /\ approved' = [approved EXCEPT ![k.phone] = @ \cup {k.number}]
      /\ check' = [check EXCEPT ![c] = IF answered THEN [k EXCEPT !.phase = "mark"]
                                       ELSE Idle]
      /\ UNCHANGED <<number, verified, formVars, vouched>>

\* A wrong code, one too many of them, no challenge, or any other error.
CheckIsRefused(c) ==
  /\ check[c].phase = "ask"
  /\ \/ UNCHANGED challenge
     \/ challenge[check[c].number] = "pending" /\ Answered(c, "rejected")
  /\ check' = [check EXCEPT ![c] = Idle]
  /\ UNCHANGED <<number, verified, formVars, historyOfPhones>>

\* Mutant of NumberIsUnchanged: the row is not compared with what was checked.
NumberIsIgnored(c) == TRUE

NumberIsUnchanged(c) == number[check[c].phone] = check[c].number

\* _mark_phone_verified, which raises PhoneNumberChanged if it must
MarkPhoneVerified(c) ==
  /\ check[c].phase = "mark"
  /\ verified' = IF NumberIsUnchanged(c)
                 THEN [verified EXCEPT ![check[c].phone] = TRUE] ELSE verified
  /\ check' = [check EXCEPT ![c] = Idle]
  /\ UNCHANGED <<number, challenge, formVars, historyOfPhones>>

\* The process dies between two steps.
Abandon(c) ==
  /\ check[c] # Idle
  /\ check' = [check EXCEPT ![c] = Idle]
  /\ UNCHANGED <<number, verified, challenge, formVars, historyOfPhones>>

-----------------------------------------------------------------------------
(* The admin form *)

OpenForm(p) ==
  /\ form = Closed
  /\ Exists(p)
  /\ StaffEdits # "none"
  /\ forms < MaxForms
  /\ form' = [phone |-> p, number |-> number[p], verified |-> verified[p]]
  /\ UNCHANGED <<number, verified, challenge, check, forms, historyOfPhones>>

\* save() writes every field, edited or as it was loaded: staff may change the
\* number and leave verified_at as it is, and set or clear that too.
SaveForm(n, marked) ==
  /\ form # Closed
  /\ StaffEdits = "any" \/ marked = form.verified
  /\ n = number[form.phone] \/ Free(n)
  /\ number' = [number EXCEPT ![form.phone] = n]
  /\ verified' = [verified EXCEPT ![form.phone] = marked]
  /\ form' = Closed
  /\ forms' = forms + 1
  /\ vouched' = IF marked THEN [vouched EXCEPT ![form.phone] = @ \cup {n}]
                ELSE vouched
  /\ UNCHANGED <<challenge, check, approved>>

-----------------------------------------------------------------------------
(* The specification *)

Init ==
  /\ number = [p \in Phones |-> NoNumber]
  /\ verified = [p \in Phones |-> FALSE]
  /\ challenge = [n \in Numbers |-> "none"]
  /\ check = [c \in Checks |-> Idle]
  /\ form = Closed
  /\ forms = 0
  /\ approved = [p \in Phones |-> {}]
  /\ vouched = [p \in Phones |-> {}]

Verify(c) ==
  \/ \E p \in Phones : CheckPhoneVerification(c, p)
  \/ \E answered \in BOOLEAN : CheckIsApproved(c, answered)
  \/ CheckIsRefused(c)
  \/ MarkPhoneVerified(c)
  \/ Abandon(c)

Next ==
  \/ \E p \in Phones, n \in Numbers : CreatePhoneNumber(p, n)
  \/ \E p \in Phones : StartPhoneVerification(p) \/ OpenForm(p)
  \/ \E c \in Checks : Verify(c)
  \/ \E n \in Numbers, marked \in BOOLEAN : SaveForm(n, marked)

PhoneSpec == Init /\ [][Next]_phoneVars

-----------------------------------------------------------------------------
(* Properties *)

\* A row that is verified holds a number that a check of that very row was
\* approved for, or that staff saved on it as verified: no number gets the mark
\* by a race, whatever checks and forms do between the read of a check and its
\* mark (_mark_phone_verified compares the number under the lock).
MarkIsEarned ==
  \A p \in Phones : verified[p] => number[p] \in approved[p] \cup vouched[p]

-----------------------------------------------------------------------------
(* A claim of the documentation *)

\* Changing a number requires verification again: a row that is verified holds a
\* number that a check of that row was approved for.
VerifiedWasApproved ==
  \A p \in Phones : verified[p] => number[p] \in approved[p]
=============================================================================
