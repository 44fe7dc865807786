---------------------------- MODULE ProviderProofs ----------------------------
(***************************************************************************)
(* Theorems about ProviderStatus, for any calls, and about ProviderCalls,  *)
(* for any limits that process_queue_batch accepts.                        *)
(***************************************************************************)
EXTENDS ProviderCalls, WellFoundedInduction, TLAPS

-----------------------------------------------------------------------------
(* The invariant *)

\* A callback reports the status its call took at its number.
IsReport(cb) ==
  /\ cb.sequence + 1 \in 1 .. Len(progress[cb.call])
  /\ progress[cb.call][cb.sequence + 1] = cb.status

\* A call is over with the first terminal status.
EndsOnce(c) ==
  \A n \in 1 .. Len(progress[c]) :
    progress[c][n] \in TerminalProviderStatuses => n = Len(progress[c])

StatusInv ==
  /\ StatusTypeOK
  /\ \A cb \in network \cup answered : IsReport(cb)
  /\ \A c \in Calls : EndsOnce(c)
  /\ NewestIsStored

-----------------------------------------------------------------------------
(* It is inductive *)

\* The fields of the status that no callback has set yet.
LEMMA UnknownFields == Unknown.status = "" /\ Unknown.sequence = -1
<1>1. Unknown.status = ""
  BY DEF Unknown
<1>2. Unknown.sequence = -1
  BY DEF Unknown
<1>. QED BY <1>1, <1>2

\* The invariant of the callbacks holds at the start.
LEMMA InitStatus == StatusInit => StatusInv
<1>. SUFFICES ASSUME StatusInit PROVE StatusInv
  OBVIOUS
<1>1. StatusTypeOK
  BY DEF StatusInit, StatusTypeOK
<1>2. \A c \in Calls : Len(progress[c]) = 0
  BY DEF StatusInit
<1>. QED
  BY <1>1, <1>2 DEF StatusInit, StatusInv, EndsOnce, NewestIsStored

\* Recording an answer makes an attempt known but touches no callback; what is
\* stored belongs to an attempt that was submitted before.
LEMMA RecordAnswerSafe ==
  ASSUME StatusInv, NEW c \in Calls, NEW s \in {"submitted", "failed"},
         RecordAnswer(c, s)
  PROVE  StatusInv'
<1>1. StatusTypeOK'
  BY DEF RecordAnswer, StatusInv, StatusTypeOK
<1>. QED
  BY <1>1 DEF RecordAnswer, StatusInv, IsReport, EndsOnce, NewestIsStored

\* The call goes on from a status that is not terminal, so the terminal one it may
\* reach is its last, and the callbacks sent before stay what they were.
LEMMA CallGoesOnSafe ==
  ASSUME StatusInv, NEW c \in Calls, NEW s \in ProviderStatuses,
         CallGoesOn(c, s)
  PROVE  StatusInv'
<1>. DEFINE p == progress[c]
            cb == [call |-> c, status |-> s, sequence |-> Len(p)]
<1>1. /\ p \in Seq(ProviderStatuses)
      /\ Len(p) \in Nat
      /\ progress' \in [Calls -> Seq(ProviderStatuses)]
      /\ progress'[c] = Append(p, s)
      /\ \A d \in Calls \ {c} : progress'[d] = progress[d]
  BY DEF StatusInv, StatusTypeOK, CallGoesOn
<1>2. /\ Len(progress'[c]) = Len(p) + 1
      /\ progress'[c][Len(p) + 1] = s
      /\ \A n \in 1 .. Len(p) : progress'[c][n] = p[n]
  BY <1>1
<1>3. cb \in Callback
  BY <1>1 DEF Callback
<1>4. StatusTypeOK'
  BY <1>1, <1>3 DEF CallGoesOn, StatusInv, StatusTypeOK
<1>5. ASSUME NEW k \in network' \cup answered' PROVE IsReport(k)'
  <2>1. CASE k = cb
    BY <1>1, <1>2, <2>1 DEF IsReport
  <2>2. CASE k \in network \cup answered
    <3>1. IsReport(k) /\ k.call \in Calls /\ k.sequence \in Nat
      BY <2>2 DEF StatusInv, StatusTypeOK, Callback
    <3>2. /\ k.sequence + 1 \in 1 .. Len(progress[k.call])
          /\ progress[k.call][k.sequence + 1] = k.status
      BY <3>1 DEF IsReport
    <3>3. CASE k.call = c
      <4>1. k.sequence + 1 \in 1 .. Len(p) /\ p[k.sequence + 1] = k.status
        BY <3>2, <3>3
      <4>2. /\ k.sequence + 1 \in 1 .. Len(p) + 1
            /\ progress'[c][k.sequence + 1] = k.status
        <5>. HIDE DEF p
        <5>. QED BY <1>1, <1>2, <4>1
      <4>. QED BY <1>2, <3>3, <4>2 DEF IsReport
    <3>4. CASE k.call # c
      BY <1>1, <3>1, <3>2, <3>4 DEF IsReport
    <3>. QED BY <3>3, <3>4
  <2>. QED BY <2>1, <2>2 DEF CallGoesOn
<1>6. ASSUME NEW d \in Calls PROVE EndsOnce(d)'
  <2>1. CASE d # c
    BY <1>1, <2>1 DEF StatusInv, EndsOnce
  <2>2. CASE d = c
    <3>1. \A n \in 1 .. Len(p) : p[n] \notin TerminalProviderStatuses
      <4>1. ASSUME p # <<>> PROVE p[Len(p)] \in {"initiated", "ringing", "in_progress"}
        BY <4>1 DEF CallGoesOn, NextStatuses
      <4>2. SUFFICES ASSUME NEW n \in 1 .. Len(p), p[n] \in TerminalProviderStatuses
                     PROVE  FALSE
        OBVIOUS
      <4>3. n = Len(p) /\ p # <<>>
        BY <1>1, <4>2 DEF StatusInv, EndsOnce
      <4>. QED BY <4>1, <4>2, <4>3 DEF TerminalProviderStatuses
    <3>. QED BY <1>1, <1>2, <2>2, <3>1 DEF EndsOnce
  <2>. QED BY <2>1, <2>2
<1>7. NewestIsStored'
  BY DEF CallGoesOn, StatusInv, NewestIsStored
<1>. QED BY <1>4, <1>5, <1>6, <1>7 DEF StatusInv

\* A callback that is not newer than the stored one has no greater number: if
\* the stored status is terminal, it was the last one of the call.
LEMMA OldIsBehind ==
  ASSUME StatusInv, NEW cb \in network, ~Newer(cb)
  PROVE  cb.sequence <= stored[cb.call].sequence
<1>. DEFINE c == cb.call
<1>1. c \in Calls /\ cb.sequence \in Nat /\ IsReport(cb)
  BY DEF StatusInv, StatusTypeOK, Callback
<1>2. CASE stored[c] = Unknown
  <2>1. stored[c].status = "" /\ stored[c].sequence = -1
    BY <1>2, UnknownFields
  <2>2. cb.sequence > -1
    BY <1>1
  <2>. QED BY <2>1, <2>2 DEF Newer, TerminalProviderStatuses
<1>3. CASE stored[c] # Unknown
  <2>1. PICK k \in answered :
          /\ k.call = c
          /\ stored[c] = [status |-> k.status, sequence |-> k.sequence]
    BY <1>1, <1>3 DEF StatusInv, NewestIsStored
  <2>2. k.sequence \in Nat /\ IsReport(k)
    BY DEF StatusInv, StatusTypeOK, Callback
  <2>3. CASE stored[c].status \in TerminalProviderStatuses
    <3>1. k.sequence + 1 = Len(progress[c])
      BY <1>1, <2>1, <2>2, <2>3 DEF StatusInv, EndsOnce, IsReport
    <3>2. Len(progress[c]) \in Nat
      BY <1>1 DEF StatusInv, StatusTypeOK
    <3>. QED BY <1>1, <2>1, <2>2, <3>1, <3>2 DEF IsReport
  <2>4. CASE stored[c].status \notin TerminalProviderStatuses
    BY <1>1, <2>1, <2>2, <2>4 DEF Newer
  <2>. QED BY <2>3, <2>4
<1>. QED BY <1>2, <1>3

\* Applying or ignoring a callback, acknowledged or sent again, keeps it.
LEMMA ApplyCallbackSafe ==
  ASSUME StatusInv, NEW cb \in network, NEW again \in BOOLEAN,
         ApplyCallback(cb, again)
  PROVE  StatusInv'
<1>. DEFINE c == cb.call
            report == [status |-> cb.status, sequence |-> cb.sequence]
<1>1. /\ c \in Calls /\ cb.sequence \in Nat
      /\ report \in [status : ProviderStatuses, sequence : Nat]
  BY DEF StatusInv, StatusTypeOK, Callback
<1>2. /\ \A d \in Calls \ {c} : stored'[d] = stored[d]
      /\ IF Newer(cb) THEN stored'[c] = report ELSE stored'[c] = stored[c]
  BY <1>1 DEF ApplyCallback, StatusInv, StatusTypeOK
<1>3. StatusTypeOK'
  <2>1. network' \subseteq Callback /\ answered' \subseteq Callback
    BY DEF ApplyCallback, StatusInv, StatusTypeOK
  <2>. QED
    BY <1>1, <1>2, <2>1 DEF ApplyCallback, StatusInv, StatusTypeOK
<1>4. \A k \in network' \cup answered' : IsReport(k)'
  BY DEF ApplyCallback, StatusInv, IsReport
<1>5. \A d \in Calls : EndsOnce(d)'
  BY DEF ApplyCallback, StatusInv, EndsOnce
<1>6. \A k \in answered' : k.sequence <= stored'[k.call].sequence
  <2>1. CASE Newer(cb)
    <3>1. stored'[c].sequence = cb.sequence
      BY <1>2, <2>1
    <3>2. cb.sequence > stored[c].sequence /\ stored[c].sequence \in Int
      <4>1. CASE stored[c] = Unknown
        <5>1. stored[c].sequence = -1
          BY <4>1, UnknownFields
        <5>. QED BY <2>1, <5>1 DEF Newer
      <4>2. CASE stored[c] \in [status : ProviderStatuses, sequence : Nat]
        <5>1. stored[c].sequence \in Nat
          BY <4>2
        <5>. QED BY <2>1, <5>1 DEF Newer
      <4>. QED BY <1>1, <4>1, <4>2 DEF StatusInv, StatusTypeOK
    <3>3. \A k \in answered :
            k.call \in Calls /\ k.sequence \in Nat
              /\ k.sequence <= stored[k.call].sequence
      BY DEF StatusInv, StatusTypeOK, Callback, NewestIsStored
    <3>4. answered' = answered \cup {cb}
      BY DEF ApplyCallback
    <3>. QED BY <1>1, <1>2, <3>1, <3>2, <3>3, <3>4
  <2>2. CASE ~Newer(cb)
    <3>1. stored' = stored /\ answered' = answered \cup {cb}
      BY <2>2 DEF ApplyCallback
    <3>. QED BY <2>2, <3>1, OldIsBehind DEF StatusInv, NewestIsStored
  <2>. QED BY <2>1, <2>2
<1>7. ASSUME NEW d \in Calls, stored'[d] # Unknown
      PROVE  \E k \in answered' :
               /\ k.call = d
               /\ stored'[d] = [status |-> k.status, sequence |-> k.sequence]
  <2>1. CASE d = c /\ Newer(cb)
    BY <1>2, <2>1 DEF ApplyCallback
  <2>2. CASE d # c \/ ~Newer(cb)
    <3>1. stored'[d] = stored[d]
      BY <1>2, <2>2
    <3>2. \E k \in answered :
            /\ k.call = d
            /\ stored[d] = [status |-> k.status, sequence |-> k.sequence]
      BY <1>7, <3>1 DEF StatusInv, NewestIsStored
    <3>. QED BY <3>1, <3>2 DEF ApplyCallback
  <2>. QED BY <2>1, <2>2
<1>. QED
  BY <1>3, <1>4, <1>5, <1>6, <1>7 DEF StatusInv, NewestIsStored

\* A callback that finds no attempt leaves everything but the network alone.
LEMMA UnknownCallSafe ==
  ASSUME StatusInv, NEW cb \in network, UnknownCall(cb)
  PROVE  StatusInv'
BY DEF UnknownCall, StatusInv, StatusTypeOK, IsReport, EndsOnce, NewestIsStored

\* Every step of the callback component keeps it.
LEMMA NextStatus == StatusInv /\ [StatusNext]_statusVars => StatusInv'
<1>. SUFFICES ASSUME StatusInv, [StatusNext]_statusVars PROVE StatusInv'
  OBVIOUS
<1>1. CASE \E c \in Calls, s \in {"submitted", "failed"} : RecordAnswer(c, s)
  BY <1>1, RecordAnswerSafe
<1>2. CASE \E c \in Calls, s \in ProviderStatuses : CallGoesOn(c, s)
  BY <1>2, CallGoesOnSafe
<1>3. CASE \E cb \in network : Deliver(cb)
  BY <1>3, ApplyCallbackSafe, UnknownCallSafe DEF Deliver
<1>4. CASE UNCHANGED statusVars
  BY <1>4 DEF statusVars, StatusInv, StatusTypeOK, IsReport, EndsOnce,
              NewestIsStored
<1>. QED BY <1>1, <1>2, <1>3, <1>4 DEF StatusNext

-----------------------------------------------------------------------------
(* Theorems about the callbacks *)

\* The types and the newest status jointly, with what callbacks say of their call.
THEOREM StatusInvariance == StatusSpec => []StatusInv
BY InitStatus, NextStatus, PTL DEF StatusSpec

\* A status is stored with its number, and for a submitted attempt only.
THEOREM StatusTypeCorrect == StatusSpec => []StatusTypeOK
<1>1. StatusInv => StatusTypeOK
  BY DEF StatusInv
<1>. QED BY <1>1, StatusInvariance, PTL

\* However callbacks are reordered, repeated or early, the row holds the newest
\* one that was acknowledged: none that is skipped, for a terminal status or a
\* greater number, is newer.
THEOREM NewestStatusIsStored == StatusSpec => []NewestIsStored
<1>1. StatusInv => NewestIsStored
  BY DEF StatusInv
<1>. QED BY <1>1, StatusInvariance, PTL

-----------------------------------------------------------------------------
(* Powers of two *)

\* Induction over a set of natural numbers.
LEMMA SetInduction ==
  ASSUME NEW S, 0 \in S, \A n \in Nat : n \in S => n + 1 \in S
  PROVE  Nat \subseteq S
<1>. DEFINE T == Nat \ S
<1>1. SUFFICES ASSUME T # {} PROVE FALSE
  OBVIOUS
<1>2. PICK x \in T : \A y \in T : ~ (<<y, x>> \in OpToRel(<, Nat))
  BY NatLessThanWellFounded, WFMin, <1>1
<1>3. x # 0 /\ x - 1 \in Nat
  OBVIOUS
<1>4. x - 1 \in S
  <2>1. <<x - 1, x>> \in OpToRel(<, Nat)
    BY <1>3 DEF OpToRel
  <2>. QED BY <1>2, <1>3, <2>1
<1>. QED BY <1>3, <1>4, (x - 1) + 1 = x

\* The powers of two up to 2 ** n
Doubles(g, n) ==
  /\ g \in [0 .. n -> Nat \ {0}]
  /\ g[0] = 1
  /\ \A i \in 1 .. n : g[i] = 2 * g[i - 1]

\* There are such lists of any length, and two of them agree.
LEMMA DoublesExist == \A n \in Nat : \E g : Doubles(g, n)
<1>. DEFINE S == {n \in Nat : \E g : Doubles(g, n)}
<1>1. 0 \in S
  <2>1. Doubles([i \in 0 .. 0 |-> 1], 0)
    BY DEF Doubles
  <2>. QED BY <2>1
<1>2. ASSUME NEW n \in Nat, n \in S PROVE n + 1 \in S
  <2>1. PICK g : Doubles(g, n)
    BY <1>2
  <2>. DEFINE h == [i \in 0 .. n + 1 |-> IF i = n + 1 THEN 2 * g[n] ELSE g[i]]
  <2>2. /\ h \in [0 .. n + 1 -> Nat \ {0}]
        /\ h[0] = 1
    BY <2>1 DEF Doubles
  <2>3. ASSUME NEW i \in 1 .. n + 1 PROVE h[i] = 2 * h[i - 1]
    <3>1. CASE i = n + 1
      BY <2>1, <3>1 DEF Doubles
    <3>2. CASE i # n + 1
      <4>1. i \in 1 .. n /\ i - 1 \in 0 .. n /\ i - 1 # n + 1
        BY <3>2
      <4>. QED BY <2>1, <4>1 DEF Doubles
    <3>. QED BY <3>1, <3>2
  <2>4. Doubles(h, n + 1)
    BY <2>2, <2>3 DEF Doubles
  <2>. QED BY <2>4
<1>. HIDE DEF S
<1>3. Nat \subseteq S
  BY <1>1, <1>2, SetInduction
<1>. QED BY <1>3 DEF S

\* Two functions that start at one and double agree as far as both go.
LEMMA DoublesAgree ==
  ASSUME NEW n \in Nat, NEW m \in Nat, NEW g, NEW h,
         Doubles(g, n), Doubles(h, m), n <= m
  PROVE  g[n] = h[n]
<1>. DEFINE S == {i \in Nat : i <= n => g[i] = h[i]}
<1>1. 0 \in S
  BY DEF Doubles
<1>2. ASSUME NEW i \in Nat, i \in S PROVE i + 1 \in S
  <2>. SUFFICES ASSUME i + 1 <= n PROVE g[i + 1] = h[i + 1]
    OBVIOUS
  <2>1. g[i] = h[i] /\ i + 1 \in 1 .. n /\ i + 1 \in 1 .. m /\ (i + 1) - 1 = i
    BY <1>2
  <2>. QED BY <2>1 DEF Doubles
<1>. HIDE DEF S
<1>3. Nat \subseteq S
  BY <1>1, <1>2, SetInduction
<1>. QED BY <1>3 DEF S

\* The recursive definition has a solution, so it says what it seems to say.
LEMMA PowerOfTwoDefined ==
  /\ PowerOfTwo[0] = 1
  /\ \A n \in Nat : PowerOfTwo[n + 1] = 2 * PowerOfTwo[n]
<1>. DEFINE list(n) == CHOOSE g : Doubles(g, n)
            f == [n \in Nat |-> list(n)[n]]
            Equation(F) == F = [n \in Nat |-> IF n = 0 THEN 1 ELSE 2 * F[n - 1]]
<1>1. \A n \in Nat : Doubles(list(n), n)
  BY DoublesExist
<1>. HIDE DEF list
<1>2. f[0] = 1
  BY <1>1 DEF Doubles
<1>3. ASSUME NEW n \in Nat, n # 0 PROVE f[n] = 2 * f[n - 1]
  <2>1. n - 1 \in Nat /\ n - 1 <= n /\ n \in 1 .. n
    BY <1>3
  <2>2. list(n - 1)[n - 1] = list(n)[n - 1]
    BY <1>1, <2>1, DoublesAgree
  <2>3. list(n)[n] = 2 * list(n)[n - 1]
    BY <1>1, <2>1 DEF Doubles
  <2>. QED BY <2>1, <2>2, <2>3
<1>4. Equation(f)
  BY <1>2, <1>3
<1>. HIDE DEF f
<1>5. PowerOfTwo = CHOOSE F : Equation(F)
  BY DEF PowerOfTwo
<1>6. Equation(PowerOfTwo)
  BY <1>4, <1>5
<1>7. \A n \in Nat : PowerOfTwo[n] = IF n = 0 THEN 1 ELSE 2 * PowerOfTwo[n - 1]
  BY <1>6
<1>. QED BY <1>7

\* A power of two is a positive number.
LEMMA PowerOfTwoType == \A n \in Nat : PowerOfTwo[n] \in Nat \ {0}
<1>. DEFINE S == {n \in Nat : PowerOfTwo[n] \in Nat \ {0}}
<1>1. 0 \in S /\ \A n \in Nat : n \in S => n + 1 \in S
  BY PowerOfTwoDefined
<1>. HIDE DEF S
<1>2. Nat \subseteq S
  BY <1>1, SetInduction
<1>. QED BY <1>2 DEF S

\* A greater exponent at least doubles the power.
LEMMA PowerOfTwoGrows ==
  ASSUME NEW k \in Nat, NEW n \in Nat, k < n
  PROVE  PowerOfTwo[n] >= 2 * PowerOfTwo[k]
<1>. DEFINE S == {d \in Nat : PowerOfTwo[k + 1 + d] >= 2 * PowerOfTwo[k]}
<1>1. 0 \in S
  <2>1. PowerOfTwo[k] \in Nat /\ PowerOfTwo[k + 1] = 2 * PowerOfTwo[k]
    BY PowerOfTwoDefined, PowerOfTwoType
  <2>. QED BY <2>1
<1>2. ASSUME NEW d \in Nat, d \in S PROVE d + 1 \in S
  <2>1. /\ k + 1 + d \in Nat
        /\ k + 1 + (d + 1) = (k + 1 + d) + 1
    OBVIOUS
  <2>2. /\ PowerOfTwo[(k + 1 + d) + 1] = 2 * PowerOfTwo[k + 1 + d]
        /\ PowerOfTwo[k + 1 + d] \in Nat
        /\ PowerOfTwo[k] \in Nat
    BY <2>1, PowerOfTwoDefined, PowerOfTwoType
  <2>. QED BY <1>2, <2>1, <2>2
<1>. HIDE DEF S
<1>3. Nat \subseteq S
  BY <1>1, <1>2, SetInduction
<1>4. n - (k + 1) \in Nat /\ k + 1 + (n - (k + 1)) = n
  OBVIOUS
<1>. QED BY <1>3, <1>4 DEF S

-----------------------------------------------------------------------------
(* The visibility timeout *)

\* Doubling a factor doubles the product.
LEMMA ProductDoubles ==
  ASSUME NEW b \in Nat, NEW x \in Nat, NEW y \in Nat, x >= 2 * y
  PROVE  b * x >= 2 * (b * y)
<1>1. PICK d \in Nat : x = 2 * y + d
  <2>1. x - 2 * y \in Nat /\ x = 2 * y + (x - 2 * y)
    OBVIOUS
  <2>. QED BY <2>1
<1>2. b * x = 2 * (b * y) + b * d
  BY <1>1
<1>3. b * d \in Nat /\ b * y \in Nat
  OBVIOUS
<1>. QED BY <1>2, <1>3

\* Products of natural numbers are natural.
LEMMA ProductInNat == \A b, x \in Nat : b * x \in Nat
OBVIOUS

\* A positive factor makes a product no smaller.
LEMMA ProductGrows ==
  ASSUME NEW b \in Nat, NEW x \in Nat \ {0}
  PROVE  b * x \in Nat /\ b * x >= b
<1>1. PICK d \in Nat : x = d + 1
  <2>1. x - 1 \in Nat /\ x = (x - 1) + 1
    OBVIOUS
  <2>. QED BY <2>1
<1>2. b * x = b * d + b /\ b * d \in Nat
  BY <1>1
<1>. QED BY <1>2

\* The delay is within its limits, and after a later receive at least twice as
\* long as after an earlier one until it reaches the limit.
LEMMA TimeoutInRange ==
  \A n \in Nat : VisibilityTimeout(n) \in RetryBase .. RetryMax
<1>. SUFFICES ASSUME NEW n \in Nat
              PROVE  VisibilityTimeout(n) \in RetryBase .. RetryMax
  OBVIOUS
<1>. DEFINE m == IF n > 1 THEN n - 1 ELSE 0
<1>1. m \in Nat /\ PowerOfTwo[m] \in Nat \ {0}
  BY PowerOfTwoType
<1>2. /\ RetryBase \in Nat /\ RetryMax \in Nat /\ RetryBase <= RetryMax
  BY RetryAssumption
<1>. HIDE DEF m
<1>3. RetryBase * PowerOfTwo[m] \in Nat /\ RetryBase * PowerOfTwo[m] >= RetryBase
  BY <1>1, <1>2, ProductGrows
<1>4. Visible(n) \in Nat /\ Visible(n) >= RetryBase
  BY <1>3 DEF Visible, m
<1>. QED BY <1>2, <1>4 DEF VisibilityTimeout

\* The delay after a later receive is twice that of an earlier one, or the limit.
LEMMA TimeoutDoubles ==
  ASSUME NEW k \in Nat \ {0}, NEW n \in Nat, k < n
  PROVE  \/ VisibilityTimeout(n) >= 2 * VisibilityTimeout(k)
         \/ VisibilityTimeout(n) = RetryMax
<1>1. /\ k - 1 \in Nat /\ n - 1 \in Nat /\ k - 1 < n - 1
      /\ (IF n > 1 THEN n - 1 ELSE 0) = n - 1
      /\ (IF k > 1 THEN k - 1 ELSE 0) = k - 1
  OBVIOUS
<1>2. /\ PowerOfTwo[n - 1] \in Nat /\ PowerOfTwo[k - 1] \in Nat
      /\ PowerOfTwo[n - 1] >= 2 * PowerOfTwo[k - 1]
  BY <1>1, PowerOfTwoGrows, PowerOfTwoType
<1>3. RetryBase \in Nat /\ RetryMax \in Nat
  BY RetryAssumption
<1>4. RetryBase * PowerOfTwo[n - 1] >= 2 * (RetryBase * PowerOfTwo[k - 1])
  BY <1>2, <1>3, ProductDoubles
<1>5. Visible(n) = RetryBase * PowerOfTwo[n - 1] /\ Visible(k) = RetryBase * PowerOfTwo[k - 1]
  BY <1>1 DEF Visible
<1>6. Visible(n) \in Nat /\ Visible(k) \in Nat
  BY <1>2, <1>3, <1>5, ProductInNat
<1>. QED BY <1>3, <1>4, <1>5, <1>6 DEF VisibilityTimeout

-----------------------------------------------------------------------------
(* The invariant of the calls *)

\* The SID, and the errors that leave it open whether Twilio acted on the request
OpenErrors ==
  {"sid", "ProviderTimeout", "ProviderUnavailable", "MalformedResponse", "ValueError"}

\* The sender is called once, after all weather failures of the delivery.
SentOnce(c) ==
  /\ phase[c] \in {"hidden", "weather", "send"} => answer[c] = "none" /\ ~placed[c]
  /\ phase[c] = "record" => answer[c] # "none"
  /\ placed[c] => answer[c] \in OpenErrors

\* A receive has at most one failure, and no failure that lasts handed the message
\* back.
FailuresMatch(c) ==
  LET n == Len(failures[c])
  IN  /\ phase[c] = "weather" => n < receives[c]
      /\ \A i \in 1 .. n - 1 : failures[c][i] # "lasting"
      /\ phase[c] # "over" \/ answer[c] # "none" =>
           \A i \in 1 .. n : failures[c][i] # "lasting"
      /\ phase[c] = "over" /\ answer[c] = "none" =>
           receives[c] = MaxReceives \/ failures[c][n] # "passing"

\* The last delay is that of an earlier receive than the one being processed.
LastDelay(c) ==
  delays[c] # <<>> =>
    \E k \in 1 .. receives[c] :
      /\ delays[c][Len(delays[c])] = VisibilityTimeout(k)
      /\ phase[c] = "weather" => k < receives[c]

DelaysGrow(c) ==
  \A n \in DOMAIN delays[c] :
    /\ delays[c][n] \in RetryBase .. RetryMax
    /\ n > 1 => delays[c][n] >= 2 * delays[c][n - 1] \/ delays[c][n] = RetryMax

DeliveryInv(c) == SentOnce(c) /\ FailuresMatch(c) /\ LastDelay(c) /\ DelaysGrow(c)

CallsInv == StatusInv /\ CallsTypeOK /\ \A c \in Calls : DeliveryInv(c)

\* What DeliveryInv says of one delivery survives the steps of the others.
DeliveryKept(c) ==
  UNCHANGED <<phase[c], receives[c], failures[c], delays[c], answer[c], placed[c]>>

\* A delivery that a step leaves alone keeps its invariant.
LEMMA KeptDelivery ==
  ASSUME NEW c \in Calls, DeliveryInv(c), DeliveryKept(c)
  PROVE  DeliveryInv(c)'
BY DEF DeliveryInv, DeliveryKept, SentOnce, FailuresMatch, LastDelay, DelaysGrow

\* Every step of the calls is one of the callbacks, or none of theirs.
LEMMA CallsStep == [CallsNext]_allVars => [StatusNext]_statusVars
<1>. SUFFICES ASSUME [CallsNext]_allVars PROVE [StatusNext]_statusVars
  OBVIOUS
<1>1. CASE UNCHANGED allVars
  BY <1>1 DEF allVars
<1>2. ASSUME NEW c \in Calls, NEW lost \in BOOLEAN, ReceiveMessage(c, lost)
      PROVE  UNCHANGED statusVars
  BY <1>2 DEF ReceiveMessage
<1>3. ASSUME NEW c \in Calls, NEW a \in WeatherAnswers, GetWeather(c, a)
      PROVE  UNCHANGED statusVars
  BY <1>3 DEF GetWeather
<1>4. ASSUME NEW c \in Calls, NEW a \in WeatherAnswers, WeatherFails(c, a)
      PROVE  UNCHANGED statusVars \/ RecordAnswer(c, "failed")
  BY <1>4 DEF WeatherFails
<1>5. ASSUME NEW c \in Calls, NEW a \in SendAnswers, Send(c, a)
      PROVE  UNCHANGED statusVars
  BY <1>5 DEF Send
<1>6. ASSUME NEW c \in Calls, RecordSend(c)
      PROVE  \E status \in {"submitted", "failed"} : RecordAnswer(c, status)
  BY <1>6 DEF RecordSend
<1>7. ASSUME NEW c \in Calls, Provider(c)
      PROVE  \E status \in ProviderStatuses : CallGoesOn(c, status)
  BY <1>7 DEF Provider
<1>. QED
  BY <1>1, <1>2, <1>3, <1>4, <1>5, <1>6, <1>7 DEF CallsNext, StatusNext

\* The invariant of the deliveries holds at the start.
LEMMA InitCalls == CallsInit => CallsInv
<1>. SUFFICES ASSUME CallsInit PROVE CallsInv
  OBVIOUS
<1>1. StatusInv /\ StatusTypeOK
  BY InitStatus DEF CallsInit, StatusInv
<1>2. /\ \A c \in Calls : Len(failures[c]) = 0 /\ delays[c] = <<>> /\ DOMAIN delays[c] = {}
      /\ 0 \in 0 .. MaxReceives
      /\ attempt = [c \in Calls |-> "processing"]
  BY RetryAssumption DEF CallsInit, StatusInit
<1>3. CallsTypeOK
  <2>1. /\ <<>> \in Seq(Causes) /\ <<>> \in Seq(Nat)
        /\ \A c \in Calls : attempt[c] = "processing"
        /\ \A c \in Calls : Len(failures[c]) <= receives[c]
    BY <1>2 DEF CallsInit
  <2>2. placed \in [Calls -> BOOLEAN]
    BY DEF CallsInit
  <2>3. receives \in [Calls -> 0 .. MaxReceives]
    BY <1>2 DEF CallsInit
  <2>4. /\ failures \in [Calls -> Seq(Causes)]
        /\ delays \in [Calls -> Seq(Nat)]
    BY <2>1 DEF CallsInit
  <2>5. /\ phase \in [Calls -> {"hidden", "weather", "send", "record", "over"}]
        /\ answer \in [Calls -> SenderErrors \cup {"none", "sid"}]
        /\ channel \in [Calls -> {"sms", "voice"}]
    BY DEF CallsInit
  <2>. QED BY <1>1, <2>1, <2>2, <2>3, <2>4, <2>5 DEF CallsTypeOK
<1>4. ASSUME NEW c \in Calls PROVE DeliveryInv(c)
  <2>1. SentOnce(c)
    BY DEF CallsInit, SentOnce
  <2>2. FailuresMatch(c)
    BY <1>2 DEF CallsInit, FailuresMatch
  <2>3. LastDelay(c) /\ DelaysGrow(c)
    BY <1>2 DEF LastDelay, DelaysGrow
  <2>. QED BY <2>1, <2>2, <2>3 DEF DeliveryInv
<1>. QED BY <1>1, <1>3, <1>4 DEF CallsInv

\* Whatever WeatherAPI answers, a class that is not retried does not come of a
\* failure that passes, nor one that is retried of a failure that lasts.
LEMMA ClassesFollowCauses ==
  ASSUME NEW a \in WeatherAnswers, WeatherError(a) # "none"
  PROVE  /\ Cause(a) \in Causes
         /\ WeatherError(a) \in RetryableWeather => Cause(a) # "lasting"
         /\ WeatherError(a) \notin RetryableWeather => Cause(a) # "passing"
<1>1. Cause(a) \in Causes
  BY DEF Cause, Causes
<1>2. CASE a.kind \in {"timeout", "unreachable"}
  <2>1. WeatherError(a) \in RetryableWeather
    BY <1>2 DEF WeatherError, RetryableWeather
  <2>2. Cause(a) = "passing"
    BY <1>2 DEF Cause, Passing
  <2>. QED BY <1>1, <2>1, <2>2
<1>3. CASE a.kind = "response"
  <2>1. /\ a.status \in {200, 400, 401, 403, 429, 500}
        /\ a.body \in {"unreadable", "incomplete", "whole"}
        /\ a.code \in {0, 1002, 1006, 2007}
    BY <1>3 DEF WeatherAnswers
  <2>2. WeatherError(a) = ResponseError(a)
    BY <1>3 DEF WeatherError
  <2>3. CASE Refusal(a)
    <3>1. a.status \in {400, 401, 403} /\ a.body # "unreadable"
      BY <2>1, <2>3 DEF Refusal
    <3>2. ResponseError(a) = ApiError(a.status, a.code)
      BY <3>1 DEF ResponseError
    <3>3. Passing(a) <=> a.code = 2007
      BY <1>3, <2>3, <3>1 DEF Passing
    <3>4. Lasting(a) <=> a.code \in {1002, 1006} \/ (a.status = 401 /\ a.code = 0)
      BY <2>3 DEF Lasting
    <3>5. CASE a.code = 2007
      BY <1>1, <2>2, <3>2, <3>3, <3>5 DEF ApiError, RetryableWeather, Cause
    <3>6. CASE Lasting(a)
      <4>1. ApiError(a.status, a.code) \in {"LocationNotFound", "AuthenticationError"}
        BY <3>4, <3>6 DEF ApiError
      <4>2. Cause(a) # "passing"
        BY <3>3, <3>4, <3>6 DEF Cause
      <4>. QED BY <1>1, <2>2, <3>2, <4>1, <4>2 DEF RetryableWeather
    <3>7. CASE ~Lasting(a) /\ a.code # 2007
      BY <1>1, <3>3, <3>7 DEF Cause
    <3>. QED BY <3>5, <3>6, <3>7
  <2>4. CASE ~Refusal(a)
    <3>1. Cause(a) # "lasting"
      BY <2>4 DEF Cause, Lasting
    <3>2. ResponseError(a) \in RetryableWeather
      <4>1. CASE a.status \in {429, 500}
        BY <4>1 DEF ResponseError, RetryableWeather
      <4>2. CASE a.status \in {400, 401, 403}
        <5>1. a.body = "unreadable"
          BY <1>3, <2>4, <4>2 DEF Refusal
        <5>. QED BY <4>2, <5>1 DEF ResponseError, RetryableWeather
      <4>3. CASE a.status = 200
        <5>1. a.body # "whole"
          BY <2>2, <4>3 DEF ResponseError
        <5>. QED BY <2>1, <4>3, <5>1 DEF ResponseError, RetryableWeather
      <4>. QED BY <2>1, <4>1, <4>2, <4>3
    <3>. QED BY <1>1, <2>2, <3>1, <3>2
  <2>. QED BY <2>3, <2>4
<1>. QED BY <1>2, <1>3 DEF WeatherAnswers

\* No answer to a request that Twilio may act on is mapped to a refusal.
LEMMA SendResultType ==
  ASSUME NEW ch \in {"sms", "voice"}, NEW a \in SendAnswers
  PROVE  /\ SendResult(ch, a) \in SenderErrors \cup {"sid"}
         /\ MayBePlaced(a) \subseteq BOOLEAN
         /\ TRUE \in MayBePlaced(a) => SendResult(ch, a) \in OpenErrors
<1>1. CASE a.kind = "rest_error"
  <2>1. /\ a.code \in {"rate_limit", "authentication", "configuration",
                       "rejection", "unavailable", "invalid", "other"}
        /\ a.status \in {400, 401, 404, 429, 500}
    BY <1>1 DEF SendAnswers
  <2>2. RestError(ch, a.code, a.status) \in SenderErrors
    BY <2>1 DEF RestError, SenderErrors
  <2>3. a.status >= 500 /\ a.code = "other" =>
          RestError(ch, a.code, a.status) = "ProviderUnavailable"
    BY <2>1 DEF RestError
  <2>4. SendResult(ch, a) = RestError(ch, a.code, a.status)
    BY <1>1 DEF SendResult
  <2>5. /\ MayBePlaced(a) \subseteq BOOLEAN
        /\ TRUE \in MayBePlaced(a) => a.status >= 500 /\ a.code = "other"
    BY <1>1 DEF MayBePlaced
  <2>. QED BY <2>2, <2>3, <2>4, <2>5 DEF OpenErrors
<1>2. CASE a.kind # "rest_error"
  <2>1. a.kind \in {"not_configured", "invalid_request", "timeout",
                    "unreachable", "unparsable", "bad_sid", "sid"}
    BY <1>2 DEF SendAnswers
  <2>. QED BY <2>1 DEF SendResult, MayBePlaced, SenderErrors, OpenErrors
<1>. QED BY <1>1, <1>2

\* A step of one delivery keeps the invariant if it keeps what is said of that
\* delivery.
LEMMA OneDeliverySafe ==
  ASSUME CallsInv, StatusInv', NEW c \in Calls,
         \A d \in Calls \ {c} : DeliveryKept(d) /\ attempt'[d] = attempt[d],
         channel' = channel,
         phase' \in [Calls -> {"hidden", "weather", "send", "record", "over"}],
         receives' \in [Calls -> 0 .. MaxReceives],
         failures' \in [Calls -> Seq(Causes)],
         delays' \in [Calls -> Seq(Nat)],
         answer' \in [Calls -> SenderErrors \cup {"none", "sid"}],
         placed' \in [Calls -> BOOLEAN],
         attempt'[c] # "processing" => phase'[c] = "over",
         Len(failures'[c]) <= receives'[c],
         DeliveryInv(c)'
  PROVE  CallsInv'
<1>1. ASSUME NEW d \in Calls
      PROVE  /\ attempt'[d] # "processing" => phase'[d] = "over"
             /\ Len(failures'[d]) <= receives'[d]
  BY DEF CallsInv, CallsTypeOK, DeliveryKept
<1>2. CallsTypeOK'
  BY <1>1 DEF CallsInv, CallsTypeOK, StatusInv
<1>3. \A d \in Calls \ {c} : DeliveryInv(d)'
  BY KeptDelivery DEF CallsInv
<1>. QED BY <1>2, <1>3 DEF CallsInv

\* A receive may be lost, so that the next delay doubles more than once.
LEMMA ReceiveSafe ==
  ASSUME CallsInv, StatusInv', NEW c \in Calls, NEW lost \in BOOLEAN,
         ReceiveMessage(c, lost)
  PROVE  CallsInv'
<1>1. /\ attempt' = attempt /\ channel' = channel /\ failures' = failures
      /\ delays' = delays /\ answer' = answer /\ placed' = placed
  BY DEF ReceiveMessage, statusVars
<1>2. /\ phase \in [Calls -> {"hidden", "weather", "send", "record", "over"}]
      /\ receives \in [Calls -> 0 .. MaxReceives] /\ MaxReceives \in Nat
      /\ failures[c] \in Seq(Causes) /\ Len(failures[c]) <= receives[c]
      /\ attempt[c] # "processing" => phase[c] = "over"
      /\ DeliveryInv(c)
  BY RetryAssumption DEF CallsInv, CallsTypeOK
<1>3. /\ phase' \in [Calls -> {"hidden", "weather", "send", "record", "over"}]
      /\ phase[c] = "hidden" /\ phase'[c] \in {"hidden", "weather"}
      /\ \A d \in Calls \ {c} : phase'[d] = phase[d]
  BY <1>2 DEF ReceiveMessage
<1>4. /\ receives' \in [Calls -> 0 .. MaxReceives]
      /\ receives[c] \in Nat /\ receives'[c] = receives[c] + 1
      /\ \A d \in Calls \ {c} : receives'[d] = receives[d]
  BY <1>2 DEF ReceiveMessage
<1>5. DeliveryInv(c)'
  <2>1. SentOnce(c)' /\ DelaysGrow(c)'
    BY <1>1, <1>2, <1>3 DEF DeliveryInv, SentOnce, DelaysGrow
  <2>2. FailuresMatch(c)'
    BY <1>1, <1>2, <1>3, <1>4 DEF DeliveryInv, FailuresMatch
  <2>3. LastDelay(c)'
    BY <1>1, <1>2, <1>3, <1>4 DEF DeliveryInv, LastDelay
  <2>. QED BY <2>1, <2>2, <2>3 DEF DeliveryInv
<1>6. \A d \in Calls \ {c} : DeliveryKept(d)
  BY <1>1, <1>3, <1>4 DEF DeliveryKept
<1>7. Len(failures'[c]) <= receives'[c] /\ (attempt'[c] # "processing" => phase'[c] = "over")
  BY <1>1, <1>2, <1>3, <1>4
<1>8. /\ failures \in [Calls -> Seq(Causes)] /\ delays \in [Calls -> Seq(Nat)]
      /\ answer \in [Calls -> SenderErrors \cup {"none", "sid"}]
      /\ placed \in [Calls -> BOOLEAN]
  BY DEF CallsInv, CallsTypeOK
<1>. QED
  BY <1>1, <1>3, <1>4, <1>5, <1>6, <1>7, <1>8, OneDeliverySafe

\* A reading takes the delivery on to its send and keeps the invariant.
LEMMA GetWeatherSafe ==
  ASSUME CallsInv, StatusInv', NEW c \in Calls, NEW a, GetWeather(c, a)
  PROVE  CallsInv'
<1>1. /\ attempt' = attempt /\ channel' = channel /\ failures' = failures
      /\ delays' = delays /\ answer' = answer /\ placed' = placed
      /\ receives' = receives
  BY DEF GetWeather, statusVars
<1>2. /\ phase \in [Calls -> {"hidden", "weather", "send", "record", "over"}]
      /\ receives \in [Calls -> 0 .. MaxReceives]
      /\ failures \in [Calls -> Seq(Causes)] /\ delays \in [Calls -> Seq(Nat)]
      /\ answer \in [Calls -> SenderErrors \cup {"none", "sid"}]
      /\ placed \in [Calls -> BOOLEAN]
      /\ Len(failures[c]) <= receives[c]
      /\ attempt[c] # "processing" => phase[c] = "over"
      /\ DeliveryInv(c)
  BY DEF CallsInv, CallsTypeOK
<1>3. /\ phase' \in [Calls -> {"hidden", "weather", "send", "record", "over"}]
      /\ phase[c] = "weather" /\ phase'[c] = "send"
      /\ \A d \in Calls \ {c} : phase'[d] = phase[d]
  BY <1>2 DEF GetWeather
<1>4. DeliveryInv(c)'
  BY <1>1, <1>2, <1>3
     DEF DeliveryInv, SentOnce, FailuresMatch, LastDelay, DelaysGrow
<1>5. \A d \in Calls \ {c} : DeliveryKept(d)
  BY <1>1, <1>3 DEF DeliveryKept
<1>. QED
  BY <1>1, <1>2, <1>3, <1>4, <1>5, OneDeliverySafe

\* A failure lengthens the list by one; the delivery goes on if there are
\* receives left and it is transient.  The delay is that of a later receive.
LEMMA WeatherFailsSafe ==
  ASSUME CallsInv, StatusInv', NEW c \in Calls, NEW a \in WeatherAnswers,
         WeatherFails(c, a)
  PROVE  CallsInv'
<1>. DEFINE error == WeatherError(a)
            n == Len(failures[c])
<1>1. /\ channel' = channel /\ answer' = answer /\ placed' = placed
      /\ receives' = receives
  BY DEF WeatherFails
<1>2. /\ phase \in [Calls -> {"hidden", "weather", "send", "record", "over"}]
      /\ receives \in [Calls -> 0 .. MaxReceives] /\ MaxReceives \in Nat
      /\ failures \in [Calls -> Seq(Causes)] /\ delays \in [Calls -> Seq(Nat)]
      /\ answer \in [Calls -> SenderErrors \cup {"none", "sid"}]
      /\ placed \in [Calls -> BOOLEAN]
      /\ attempt \in [Calls -> {"processing", "submitted", "failed"}]
      /\ attempt[c] # "processing" => phase[c] = "over"
      /\ DeliveryInv(c)
  BY RetryAssumption DEF CallsInv, CallsTypeOK, StatusTypeOK
<1>3. /\ Cause(a) \in Causes
      /\ error \in RetryableWeather => Cause(a) # "lasting"
      /\ error \notin RetryableWeather => Cause(a) # "passing"
      /\ phase[c] = "weather"
      /\ attempt[c] = "processing"
      /\ answer[c] = "none"
      /\ n \in Nat /\ receives[c] \in Nat /\ n < receives[c]
      /\ \A i \in 1 .. n : failures[c][i] # "lasting"
  BY <1>2, ClassesFollowCauses
     DEF WeatherFails, DeliveryInv, SentOnce, FailuresMatch
<1>4. /\ failures' \in [Calls -> Seq(Causes)]
      /\ Len(failures'[c]) = n + 1
      /\ failures'[c][n + 1] = Cause(a)
      /\ \A i \in 1 .. n : failures'[c][i] = failures[c][i]
      /\ \A d \in Calls \ {c} : failures'[d] = failures[d]
  <2>1. failures' = [failures EXCEPT ![c] = Append(@, Cause(a))]
    BY DEF WeatherFails
  <2>. HIDE DEF error
  <2>. QED BY <1>2, <1>3, <2>1
<1>5. \/ /\ RetriesLeft(c, error)
         /\ phase' = [phase EXCEPT ![c] = "hidden"]
         /\ attempt' = attempt
      \/ /\ ~RetriesLeft(c, error)
         /\ phase' = [phase EXCEPT ![c] = "over"]
         /\ attempt' = [attempt EXCEPT ![c] = "failed"]
  BY DEF WeatherFails, RecordAnswer, statusVars
<1>6. /\ phase' \in [Calls -> {"hidden", "weather", "send", "record", "over"}]
      /\ phase'[c] \in {"hidden", "over"}
      /\ phase'[c] = "hidden" <=> RetriesLeft(c, error)
      /\ \A d \in Calls \ {c} : phase'[d] = phase[d] /\ attempt'[d] = attempt[d]
      /\ attempt'[c] # "processing" => phase'[c] = "over"
  <2>. HIDE DEF error
  <2>. QED BY <1>2, <1>3, <1>5
<1>7. /\ SentOnce(c)'
      /\ FailuresMatch(c)'
  <2>1. SentOnce(c)'
    BY <1>1, <1>2, <1>3, <1>6 DEF DeliveryInv, SentOnce
  <2>2. ~RetriesLeft(c, error) =>
          receives[c] = MaxReceives \/ Cause(a) # "passing"
    BY <1>2, <1>3 DEF RetriesLeft
  <2>3. RetriesLeft(c, error) => Cause(a) # "lasting"
    BY <1>3 DEF RetriesLeft
  <2>. HIDE DEF error, n
  <2>4. Len(failures'[c]) - 1 = n /\ n + 1 - 1 = n
    <3>1. Len(failures'[c]) = n + 1 /\ n \in Nat
      BY <1>3, <1>4
    <3>. QED BY <3>1
  <2>5. \A i \in 1 .. Len(failures'[c]) - 1 : failures'[c][i] # "lasting"
    BY <1>3, <1>4, <2>4
  <2>6. phase'[c] # "over" \/ answer'[c] # "none" =>
          \A i \in 1 .. Len(failures'[c]) : failures'[c][i] # "lasting"
    <3>. SUFFICES ASSUME RetriesLeft(c, error), NEW i \in 1 .. n + 1
                  PROVE  failures'[c][i] # "lasting"
      BY <1>1, <1>3, <1>4, <1>6
    <3>1. CASE i = n + 1
      BY <1>4, <2>3, <3>1
    <3>2. CASE i # n + 1
      <4>1. i \in 1 .. n
        BY <1>3, <3>2
      <4>. QED BY <1>3, <1>4, <4>1
    <3>. QED BY <3>1, <3>2
  <2>7. phase'[c] = "over" =>
          \/ receives'[c] = MaxReceives
          \/ failures'[c][Len(failures'[c])] # "passing"
    BY <1>1, <1>4, <1>6, <2>2
  <2>8. FailuresMatch(c)'
    BY <1>6, <2>5, <2>6, <2>7 DEF FailuresMatch
  <2>. QED BY <2>1, <2>8
<1>8. /\ delays' \in [Calls -> Seq(Nat)]
      /\ \A d \in Calls \ {c} : delays'[d] = delays[d]
      /\ LastDelay(c)'
      /\ DelaysGrow(c)'
  <2>1. CASE UNCHANGED delays
    BY <1>1, <1>2, <1>3, <1>6, <2>1 DEF DeliveryInv, LastDelay, DelaysGrow
  <2>2. CASE HandBack(c)
    <3>. DEFINE r == receives[c]
                v == VisibilityTimeout(r)
                m == Len(delays[c])
    <3>1. r \in Nat /\ RetryBase \in Nat /\ RetryMax \in Nat
          /\ v \in RetryBase .. RetryMax
      <4>1. r \in Nat /\ RetryBase \in Nat /\ RetryMax \in Nat
        BY <1>3, RetryAssumption
      <4>. HIDE DEF r
      <4>. QED BY <4>1, TimeoutInRange
    <3>2. delays' = [delays EXCEPT ![c] = Append(@, v)]
      BY <2>2 DEF HandBack
    <3>. HIDE DEF v
    <3>3. v \in Nat /\ m \in Nat
      BY <1>2, <3>1
    <3>4. /\ delays' \in [Calls -> Seq(Nat)]
          /\ \A d \in Calls \ {c} : delays'[d] = delays[d]
          /\ Len(delays'[c]) = m + 1
          /\ DOMAIN delays'[c] = 1 .. m + 1
          /\ DOMAIN delays[c] = 1 .. m
          /\ delays'[c][m + 1] = v
          /\ \A i \in 1 .. m : delays'[c][i] = delays[c][i]
      BY <1>2, <3>2, <3>3
    <3>5. LastDelay(c)'
      <4>1. r \in 1 .. r
        BY <1>3
      <4>. QED BY <1>1, <1>6, <3>4, <4>1 DEF LastDelay, v
    <3>6. m > 0 => v >= 2 * delays[c][m] \/ v = RetryMax
      <4>. SUFFICES ASSUME m > 0 PROVE v >= 2 * delays[c][m] \/ v = RetryMax
        OBVIOUS
      <4>1. delays[c] # <<>>
        BY <1>2
      <4>2. PICK k \in 1 .. r : delays[c][m] = VisibilityTimeout(k) /\ k < r
        BY <1>2, <1>3, <4>1 DEF DeliveryInv, LastDelay
      <4>3. k \in Nat \ {0}
        BY <4>2, <3>1
      <4>. QED BY <3>1, <4>2, <4>3, TimeoutDoubles DEF v
    <3>7. DelaysGrow(c)'
      <4>0. DOMAIN delays'[c] = 1 .. m + 1
        BY <3>4
      <4>. SUFFICES ASSUME NEW i \in 1 .. m + 1
                    PROVE  /\ delays'[c][i] \in RetryBase .. RetryMax
                           /\ i > 1 => \/ delays'[c][i] >= 2 * delays'[c][i - 1]
                                       \/ delays'[c][i] = RetryMax
        <5>. HIDE DEF m
        <5>. QED BY <4>0 DEF DelaysGrow
      <4>1. CASE i = m + 1
        <5>1. delays'[c][i] = v
          BY <3>4, <4>1
        <5>2. i > 1 => m > 0 /\ delays'[c][i - 1] = delays[c][m]
          BY <3>3, <3>4, <4>1
        <5>. QED BY <3>1, <3>6, <5>1, <5>2
      <4>2. CASE i \in 1 .. m
        <5>0. i > 1 => i - 1 \in 1 .. m
          <6>. HIDE DEF m
          <6>. QED BY <3>3, <4>2
        <5>1. /\ delays'[c][i] = delays[c][i]
              /\ i > 1 => delays'[c][i - 1] = delays[c][i - 1]
          BY <3>4, <4>2, <5>0
        <5>2. /\ delays[c][i] \in RetryBase .. RetryMax
              /\ i > 1 => \/ delays[c][i] >= 2 * delays[c][i - 1]
                          \/ delays[c][i] = RetryMax
          <6>1. DelaysGrow(c) /\ i \in DOMAIN delays[c]
            BY <1>2, <3>4, <4>2 DEF DeliveryInv
          <6>. QED BY <6>1 DEF DelaysGrow
        <5>. QED BY <5>1, <5>2
      <4>. QED BY <3>3, <4>1, <4>2
    <3>. QED BY <3>4, <3>5, <3>7
  <2>. QED BY <2>1, <2>2 DEF WeatherFails
<1>9. DeliveryInv(c)'
  BY <1>7, <1>8 DEF DeliveryInv
<1>10. \A d \in Calls \ {c} : DeliveryKept(d)
  BY <1>1, <1>4, <1>6, <1>8 DEF DeliveryKept
<1>11. Len(failures'[c]) <= receives'[c]
  BY <1>1, <1>3, <1>4
<1>. QED
  BY <1>1, <1>2, <1>4, <1>6, <1>8, <1>9, <1>10, <1>11, OneDeliverySafe

\* What the sender returned is recorded with whether the request was placed.
LEMMA SendSafe ==
  ASSUME CallsInv, StatusInv', NEW c \in Calls, NEW a \in SendAnswers, Send(c, a)
  PROVE  CallsInv'
<1>. DEFINE r == SendResult(channel[c], a)
<1>1. /\ attempt' = attempt /\ channel' = channel /\ failures' = failures
      /\ delays' = delays /\ receives' = receives
  BY DEF Send, statusVars
<1>2. /\ phase \in [Calls -> {"hidden", "weather", "send", "record", "over"}]
      /\ receives \in [Calls -> 0 .. MaxReceives]
      /\ failures \in [Calls -> Seq(Causes)] /\ delays \in [Calls -> Seq(Nat)]
      /\ answer \in [Calls -> SenderErrors \cup {"none", "sid"}]
      /\ placed \in [Calls -> BOOLEAN]
      /\ Len(failures[c]) <= receives[c]
      /\ attempt[c] # "processing" => phase[c] = "over"
      /\ channel[c] \in {"sms", "voice"}
      /\ DeliveryInv(c)
  BY DEF CallsInv, CallsTypeOK
<1>3. /\ r \in SenderErrors \cup {"sid"} /\ r # "none"
      /\ MayBePlaced(a) \subseteq BOOLEAN
      /\ TRUE \in MayBePlaced(a) => r \in OpenErrors
  BY <1>2, SendResultType DEF SenderErrors
<1>4. /\ phase[c] = "send" /\ phase' = [phase EXCEPT ![c] = "record"]
      /\ answer' = [answer EXCEPT ![c] = r]
  BY DEF Send
<1>5. PICK p \in MayBePlaced(a) : placed' = [placed EXCEPT ![c] = p]
  BY DEF Send
<1>. HIDE DEF r
<1>6. /\ phase' \in [Calls -> {"hidden", "weather", "send", "record", "over"}]
      /\ phase'[c] = "record"
      /\ \A d \in Calls \ {c} : phase'[d] = phase[d]
      /\ answer' \in [Calls -> SenderErrors \cup {"none", "sid"}]
      /\ answer'[c] = r
      /\ \A d \in Calls \ {c} : answer'[d] = answer[d]
  BY <1>2, <1>3, <1>4
<1>7. /\ p \in BOOLEAN
      /\ placed' \in [Calls -> BOOLEAN]
      /\ placed'[c] = p
      /\ \A d \in Calls \ {c} : placed'[d] = placed[d]
  <2>1. p \in BOOLEAN
    BY <1>3
  <2>2. placed' \in [Calls -> BOOLEAN]
    BY <1>2, <1>5, <2>1
  <2>3. placed'[c] = p
    BY <1>2, <1>5
  <2>4. \A d \in Calls \ {c} : placed'[d] = placed[d]
    BY <1>2, <1>5
  <2>. QED BY <2>1, <2>2, <2>3, <2>4
<1>8. placed'[c] => r \in OpenErrors
  <2>1. CASE p = TRUE
    BY <1>3, <2>1
  <2>2. CASE p = FALSE
    BY <1>7, <2>2
  <2>. QED BY <1>7, <2>1, <2>2
<1>9. DeliveryInv(c)'
  <2>1. SentOnce(c)'
    BY <1>3, <1>6, <1>8 DEF SentOnce
  <2>2. FailuresMatch(c)'
    BY <1>1, <1>2, <1>4, <1>6 DEF DeliveryInv, FailuresMatch
  <2>3. LastDelay(c)' /\ DelaysGrow(c)'
    BY <1>1, <1>2, <1>6 DEF DeliveryInv, LastDelay, DelaysGrow
  <2>. QED BY <2>1, <2>2, <2>3 DEF DeliveryInv
<1>10. \A d \in Calls \ {c} : DeliveryKept(d)
  BY <1>1, <1>6, <1>7 DEF DeliveryKept
<1>. QED
  BY <1>1, <1>2, <1>4, <1>6, <1>7, <1>9, <1>10, OneDeliverySafe

\* The delivery is over with the answer that the sender returned.
LEMMA RecordSendSafe ==
  ASSUME CallsInv, StatusInv', NEW c \in Calls, RecordSend(c)
  PROVE  CallsInv'
<1>1. /\ channel' = channel /\ failures' = failures /\ delays' = delays
      /\ receives' = receives /\ answer' = answer /\ placed' = placed
  BY DEF RecordSend
<1>2. /\ phase \in [Calls -> {"hidden", "weather", "send", "record", "over"}]
      /\ receives \in [Calls -> 0 .. MaxReceives]
      /\ failures \in [Calls -> Seq(Causes)] /\ delays \in [Calls -> Seq(Nat)]
      /\ answer \in [Calls -> SenderErrors \cup {"none", "sid"}]
      /\ placed \in [Calls -> BOOLEAN]
      /\ Len(failures[c]) <= receives[c]
      /\ DeliveryInv(c)
  BY DEF CallsInv, CallsTypeOK
<1>3. /\ phase' \in [Calls -> {"hidden", "weather", "send", "record", "over"}]
      /\ phase[c] = "record" /\ phase'[c] = "over"
      /\ \A d \in Calls \ {c} : phase'[d] = phase[d]
  BY <1>2 DEF RecordSend
<1>4. \A d \in Calls \ {c} : attempt'[d] = attempt[d]
  BY DEF RecordSend, RecordAnswer, CallsInv, CallsTypeOK, StatusTypeOK
<1>5. DeliveryInv(c)'
  <2>1. SentOnce(c)'
    BY <1>1, <1>2, <1>3 DEF DeliveryInv, SentOnce
  <2>2. answer'[c] # "none"
    BY <1>1, <1>2, <1>3 DEF DeliveryInv, SentOnce
  <2>3. FailuresMatch(c)'
    BY <1>1, <1>2, <1>3, <2>2 DEF DeliveryInv, FailuresMatch
  <2>4. LastDelay(c)' /\ DelaysGrow(c)'
    BY <1>1, <1>2, <1>3 DEF DeliveryInv, LastDelay, DelaysGrow
  <2>. QED BY <2>1, <2>3, <2>4 DEF DeliveryInv
<1>6. \A d \in Calls \ {c} : DeliveryKept(d)
  BY <1>1, <1>3 DEF DeliveryKept
<1>. QED
  BY <1>1, <1>2, <1>3, <1>4, <1>5, <1>6, OneDeliverySafe

\* The call itself and its callbacks touch no delivery.
LEMMA CallbackSafe ==
  ASSUME CallsInv, StatusInv', UNCHANGED <<attempt, callVars>>
  PROVE  CallsInv'
<1>1. \A c \in Calls : DeliveryInv(c)'
  BY KeptDelivery DEF CallsInv, callVars, DeliveryKept
<1>2. /\ attempt' = attempt /\ channel' = channel /\ phase' = phase
      /\ receives' = receives /\ failures' = failures /\ delays' = delays
      /\ answer' = answer /\ placed' = placed
  BY DEF callVars
<1>3. CallsTypeOK'
  BY <1>2 DEF CallsInv, CallsTypeOK, StatusInv
<1>. QED BY <1>1, <1>3 DEF CallsInv

\* Every step of deliveries and callbacks keeps the invariant.
LEMMA NextCalls == CallsInv /\ [CallsNext]_allVars => CallsInv'
<1>. SUFFICES ASSUME CallsInv, [CallsNext]_allVars PROVE CallsInv'
  OBVIOUS
<1>0. StatusInv'
  BY CallsStep, NextStatus DEF CallsInv
<1>1. CASE UNCHANGED allVars
  BY <1>0, <1>1, CallbackSafe DEF allVars, statusVars
<1>2. CASE \E c \in Calls : \E lost \in BOOLEAN : ReceiveMessage(c, lost)
  BY <1>0, <1>2, ReceiveSafe
<1>3. CASE \E c \in Calls : \E a \in WeatherAnswers : GetWeather(c, a) \/ WeatherFails(c, a)
  BY <1>0, <1>3, GetWeatherSafe, WeatherFailsSafe
<1>4. CASE \E c \in Calls : \E a \in SendAnswers : Send(c, a)
  BY <1>0, <1>4, SendSafe
<1>5. CASE \E c \in Calls : RecordSend(c)
  BY <1>0, <1>5, RecordSendSafe
<1>6. CASE \E c \in Calls : Provider(c) /\ UNCHANGED callVars
  BY <1>0, <1>6, CallbackSafe DEF Provider, CallGoesOn
<1>7. CASE \E cb \in network : Deliver(cb) /\ UNCHANGED callVars
  BY <1>0, <1>7, CallbackSafe DEF Deliver, ApplyCallback, UnknownCall
<1>. QED BY <1>1, <1>2, <1>3, <1>4, <1>5, <1>6, <1>7 DEF CallsNext

-----------------------------------------------------------------------------
(* Theorems about the calls *)

\* The inductive invariant of the calls: each part of it needs the others.
THEOREM CallsInvariance == CallsSpec => []CallsInv
BY InitCalls, NextCalls, PTL DEF CallsSpec

\* So the newest acknowledged callback is the stored one also when the call is
\* placed, answered and recorded by the delivery it belongs to.
THEOREM CallsKeepNewestStatus == CallsSpec => []NewestIsStored
<1>1. CallsInv => NewestIsStored
  BY DEF CallsInv, StatusInv
<1>. QED BY <1>1, CallsInvariance, PTL

\* A delivery has no more weather failures than receives and is recorded only
\* when it is over, for any limits.
THEOREM CallsTypeCorrect == CallsSpec => []CallsTypeOK
<1>1. CallsInv => CallsTypeOK
  BY DEF CallsInv
<1>. QED BY <1>1, CallsInvariance, PTL

\* Each delay is within the limits and at least twice the one before, or the
\* limit, for any base, limit and number of receives, whichever were lost.
THEOREM DelaysDouble == CallsSpec => []BackoffIsOrdered
<1>1. CallsInv => BackoffIsOrdered
  BY DEF CallsInv, DeliveryInv, DelaysGrow, BackoffIsOrdered
<1>. QED BY <1>1, CallsInvariance, PTL

\* A delivery goes on after no failure that lasts, and ends without a request after
\* none that passes but on its last receive, for any limits and whichever receives
\* were lost.
THEOREM RetriesAreTransient == CallsSpec => []FailuresAreClassified
<1>1. CallsInv => FailuresAreClassified
  BY DEF CallsInv, DeliveryInv, FailuresMatch, FailuresAreClassified
<1>. QED BY <1>1, CallsInvariance, PTL

\* A request that Twilio acted on is never audited as refused, whatever it
\* answered.
THEOREM RefusalsAreTrue == CallsSpec => []PlacedIsNeverRefused
<1>1. CallsInv => PlacedIsNeverRefused
  BY DEF CallsInv, DeliveryInv, SentOnce, OpenErrors, PlacedIsNeverRefused
<1>. QED BY <1>1, CallsInvariance, PTL
=============================================================================
