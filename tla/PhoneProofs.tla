----------------------------- MODULE PhoneProofs -----------------------------
(***************************************************************************)
(* Theorems about PhoneVerification, for any rows, numbers and requests.   *)
(***************************************************************************)
EXTENDS PhoneVerification, TLAPS

-----------------------------------------------------------------------------
(* Types *)

\* A step of a request that neither creates a row nor edits its number keeps
\* the conditions that PhoneTypeOK puts on rows.
LEMMA NextPhoneType == PhoneTypeOK /\ [Next]_phoneVars => PhoneTypeOK'
<1>. SUFFICES ASSUME PhoneTypeOK, [Next]_phoneVars PROVE PhoneTypeOK'
  OBVIOUS
<1>. USE PhoneAssumption DEF PhoneTypeOK, formVars, historyOfPhones
<1>1. ASSUME NEW p \in Phones, NEW n \in Numbers, CreatePhoneNumber(p, n)
      PROVE  PhoneTypeOK'
  BY <1>1 DEF CreatePhoneNumber, Exists, Free
<1>2. ASSUME NEW p \in Phones, StartPhoneVerification(p) PROVE PhoneTypeOK'
  BY <1>2 DEF StartPhoneVerification, Exists
<1>3. ASSUME NEW p \in Phones, OpenForm(p) PROVE PhoneTypeOK'
  <2>1. number[p] \in Numbers /\ verified[p] \in BOOLEAN
    BY <1>3 DEF OpenForm, Exists
  <2>2. form' \in Form
    BY <1>3, <2>1 DEF OpenForm, Form
  <2>. QED BY <1>3, <2>2 DEF OpenForm
<1>4. ASSUME NEW c \in Checks, NEW p \in Phones, CheckPhoneVerification(c, p)
      PROVE  PhoneTypeOK'
  <2>1. number[p] \in Numbers
    BY <1>4 DEF CheckPhoneVerification, Exists
  <2>2. /\ check' = [check EXCEPT ![c] =
                       [phase |-> "ask", phone |-> p, number |-> number[p]]]
        /\ [phase |-> "ask", phone |-> p, number |-> number[p]] \in Check
    BY <1>4, <2>1 DEF CheckPhoneVerification, Check
  <2>. QED BY <1>4, <2>1, <2>2 DEF CheckPhoneVerification
<1>5. ASSUME NEW c \in Checks, NEW answered \in BOOLEAN,
             CheckIsApproved(c, answered)
      PROVE  PhoneTypeOK'
  <2>1. check[c] \in Check
    BY <1>5 DEF CheckIsApproved, Idle
  <2>2. [check[c] EXCEPT !.phase = "mark"] \in Check
    BY <2>1 DEF Check
  <2>3. /\ check' \in [Checks -> Check \cup {Idle}]
        /\ \A d \in Checks : check'[d] # Idle =>
             check[d] # Idle /\ check'[d].phone = check[d].phone
    BY <1>5, <2>1, <2>2 DEF CheckIsApproved, Check, Idle
  <2>4. challenge' \in [Numbers -> {"none", "pending", "approved", "rejected"}]
    BY <1>5 DEF CheckIsApproved, Answered
  <2>. QED BY <1>5, <2>3, <2>4 DEF CheckIsApproved
<1>6. ASSUME NEW c \in Checks, CheckIsRefused(c) PROVE PhoneTypeOK'
  BY <1>6 DEF CheckIsRefused, Answered
<1>7. ASSUME NEW c \in Checks, MarkPhoneVerified(c) PROVE PhoneTypeOK'
  <2>1. check[c] \in Check /\ check[c] # Idle
    BY <1>7 DEF MarkPhoneVerified, Idle
  <2>2. check[c].phone \in Phones /\ number[check[c].phone] # NoNumber
    BY <2>1 DEF Check
  <2>. QED BY <1>7, <2>2 DEF MarkPhoneVerified
<1>8. ASSUME NEW c \in Checks, Abandon(c) PROVE PhoneTypeOK'
  BY <1>8 DEF Abandon
<1>9. ASSUME NEW n \in Numbers, NEW marked \in BOOLEAN, SaveForm(n, marked)
      PROVE  PhoneTypeOK'
  <2>1. form.phone \in Phones /\ forms + 1 \in 0 .. MaxForms
    BY <1>9 DEF SaveForm, Form
  <2>. QED BY <1>9, <2>1 DEF SaveForm, Free
<1>10. CASE UNCHANGED phoneVars
  BY <1>10 DEF phoneVars
<1>. QED BY <1>1, <1>2, <1>3, <1>4, <1>5, <1>6, <1>7, <1>8, <1>9, <1>10
         DEF Next, Verify

\* Rows, challenges, requests and the open form keep their types; numbers stay
\* unique and only rows that exist are verified or checked.
THEOREM PhoneTypeCorrect == PhoneSpec => []PhoneTypeOK
<1>1. Init => PhoneTypeOK
  BY PhoneAssumption DEF Init, PhoneTypeOK, Closed, Idle
<1>. QED BY <1>1, NextPhoneType, PTL DEF PhoneSpec

-----------------------------------------------------------------------------
(* The mark of a row was earned *)

\* What makes MarkIsEarned inductive: a check about to mark a row was approved for
\* the number that it will compare with the row's.
ApprovalIsKnown ==
  /\ approved \in [Phones -> SUBSET Numbers]
  /\ vouched \in [Phones -> SUBSET Numbers]
  /\ \A c \in Checks : check[c].phase = "mark" =>
       check[c].number \in approved[check[c].phone]

PhoneInv == PhoneTypeOK /\ ApprovalIsKnown /\ MarkIsEarned

\* The two facts and the property are preserved together.
LEMMA NextApproval ==
  ASSUME PhoneInv, [Next]_phoneVars
  PROVE  ApprovalIsKnown' /\ MarkIsEarned'
<1>. USE PhoneAssumption DEF PhoneInv, PhoneTypeOK, ApprovalIsKnown, MarkIsEarned,
                            formVars, historyOfPhones
<1>. DEFINE Goal == ApprovalIsKnown /\ MarkIsEarned
<1>1. ASSUME NEW p \in Phones, NEW n \in Numbers, CreatePhoneNumber(p, n)
      PROVE  Goal'
  BY <1>1 DEF CreatePhoneNumber, Exists
<1>2. ASSUME NEW p \in Phones, StartPhoneVerification(p) PROVE Goal'
  BY <1>2 DEF StartPhoneVerification
<1>3. ASSUME NEW p \in Phones, OpenForm(p) PROVE Goal'
  BY <1>3 DEF OpenForm
<1>4. ASSUME NEW c \in Checks, NEW p \in Phones, CheckPhoneVerification(c, p)
      PROVE  Goal'
  BY <1>4 DEF CheckPhoneVerification
<1>5. ASSUME NEW c \in Checks, NEW answered \in BOOLEAN,
             CheckIsApproved(c, answered)
      PROVE  Goal'
  <2>1. check[c] \in Check
    BY <1>5 DEF CheckIsApproved, Idle
  <2>2. /\ check[c].phone \in Phones /\ check[c].number \in Numbers
        /\ approved' = [approved EXCEPT ![check[c].phone] = @ \cup {check[c].number}]
    BY <1>5, <2>1 DEF CheckIsApproved, Check
  <2>3. /\ approved' \in [Phones -> SUBSET Numbers]
        /\ \A p \in Phones : approved[p] \subseteq approved'[p]
        /\ check[c].number \in approved'[check[c].phone]
    BY <2>2
  <2>4. ASSUME NEW d \in Checks, check'[d].phase = "mark"
        PROVE  check'[d].number \in approved'[check'[d].phone]
    <3>1. CASE d = c
      <4>1. check'[c] \in {[check[c] EXCEPT !.phase = "mark"], Idle}
        BY <1>5 DEF CheckIsApproved
      <4>2. check'[c] = [check[c] EXCEPT !.phase = "mark"]
        BY <2>4, <3>1, <4>1 DEF Idle
      <4>. QED BY <2>1, <2>3, <3>1, <4>2 DEF Check
    <3>2. CASE d # c
      <4>1. check'[d] = check[d]
        BY <1>5, <3>2 DEF CheckIsApproved
      <4>2. check[d] \in Check
        BY <2>4, <4>1 DEF Idle
      <4>. QED BY <2>3, <2>4, <4>1, <4>2 DEF Check
    <3>. QED BY <3>1, <3>2
  <2>5. UNCHANGED <<number, verified, vouched>>
    BY <1>5 DEF CheckIsApproved
  <2>. QED BY <2>3, <2>4, <2>5
<1>6. ASSUME NEW c \in Checks, CheckIsRefused(c) PROVE Goal'
  BY <1>6 DEF CheckIsRefused, Idle
<1>7. ASSUME NEW c \in Checks, MarkPhoneVerified(c) PROVE Goal'
  <2>1. check[c] \in Check
    BY <1>7 DEF MarkPhoneVerified, Idle
  <2>2. check[c].phone \in Phones /\ check[c].number \in approved[check[c].phone]
    BY <1>7, <2>1 DEF MarkPhoneVerified, Check
  <2>3. MarkIsEarned'
    BY <1>7, <2>2 DEF MarkPhoneVerified, NumberIsUnchanged
  <2>4. ApprovalIsKnown'
    BY <1>7 DEF MarkPhoneVerified, Idle
  <2>. QED BY <2>3, <2>4
<1>8. ASSUME NEW c \in Checks, Abandon(c) PROVE Goal'
  BY <1>8 DEF Abandon, Idle
<1>9. ASSUME NEW n \in Numbers, NEW marked \in BOOLEAN, SaveForm(n, marked)
      PROVE  Goal'
  <2>1. form.phone \in Phones
    BY <1>9 DEF SaveForm, Form
  <2>2. /\ vouched' \in [Phones -> SUBSET Numbers]
        /\ \A p \in Phones : vouched[p] \subseteq vouched'[p]
        /\ marked => n \in vouched'[form.phone]
    BY <1>9, <2>1 DEF SaveForm
  <2>3. MarkIsEarned'
    BY <1>9, <2>1, <2>2 DEF SaveForm
  <2>. QED BY <1>9, <2>2, <2>3 DEF SaveForm
<1>10. CASE UNCHANGED phoneVars
  BY <1>10 DEF phoneVars
<1>. QED BY <1>1, <1>2, <1>3, <1>4, <1>5, <1>6, <1>7, <1>8, <1>9, <1>10
         DEF Next, Verify

\* However checks, forms and edits interleave, and whatever staff may edit, a
\* verified row holds a number that a check of that row was approved for or that
\* staff saved on it as verified: no check marks a number it did not ask about.
THEOREM ApprovalIsSound == PhoneSpec => []MarkIsEarned
<1>1. Init => PhoneInv
  BY PhoneAssumption DEF Init, PhoneInv, PhoneTypeOK, ApprovalIsKnown, MarkIsEarned,
     Closed, Idle
<1>2. PhoneInv /\ [Next]_phoneVars => PhoneInv'
  BY NextPhoneType, NextApproval DEF PhoneInv
<1>3. PhoneInv => MarkIsEarned
  BY DEF PhoneInv
<1>. QED BY <1>1, <1>2, <1>3, PTL DEF PhoneSpec
=============================================================================
