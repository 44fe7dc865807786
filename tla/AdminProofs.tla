----------------------------- MODULE AdminProofs -----------------------------
(***************************************************************************)
(* Theorems about EventAdmin, for every value of its constants: what       *)
(* remains true of the workflow when forms write stale rows back and       *)
(* events are deleted under their executors.                               *)
(*                                                                         *)
(* The exclusive claims of DeliveryProofs are lost for an event whose      *)
(* status was taken back, so the argument counts: each claim of an event   *)
(* has an attempt number of its own, and the requests accepted, the claims *)
(* that may still make one and the ways to make a claim are together no    *)
(* more than the event was scheduled.                                      *)
(***************************************************************************)
EXTENDS EventAdmin, DeliveryProofs, FiniteSetTheorems

-----------------------------------------------------------------------------
(* Counting *)

\* A set within a finite one has no more elements.
LEMMA SmallerSet ==
  ASSUME NEW U, NEW V, IsFiniteSet(U), V \subseteq U
  PROVE  /\ IsFiniteSet(V)
         /\ Cardinality(U) \in Nat /\ Cardinality(V) \in Nat
         /\ Cardinality(V) <= Cardinality(U)
BY FS_Subset, FS_CardinalityType

\* A set that lacks an element of a finite one has fewer.
LEMMA OneOut ==
  ASSUME NEW U, NEW V, NEW n \in U, IsFiniteSet(U), V \subseteq U \ {n}
  PROVE  /\ IsFiniteSet(V)
         /\ Cardinality(U) \in Nat /\ Cardinality(V) \in Nat
         /\ Cardinality(V) + 1 <= Cardinality(U)
<1>1. IsFiniteSet(U \ {n}) /\ Cardinality(U \ {n}) = Cardinality(U) - 1
  BY FS_RemoveElement
<1>. QED BY <1>1, SmallerSet, FS_CardinalityType

\* A set with one element more than a finite one has at most one more.
LEMMA OneIn ==
  ASSUME NEW U, NEW V, NEW n, IsFiniteSet(U), V \subseteq U \cup {n}
  PROVE  /\ IsFiniteSet(V)
         /\ Cardinality(U) \in Nat /\ Cardinality(V) \in Nat
         /\ Cardinality(V) <= Cardinality(U) + 1
<1>1. /\ IsFiniteSet(U \cup {n})
      /\ Cardinality(U \cup {n}) \in {Cardinality(U), Cardinality(U) + 1}
  BY FS_AddElement
<1>. QED BY <1>1, SmallerSet, FS_CardinalityType

\* Attempt numbers are from a finite range.
LEMMA HistoryIsFinite ==
  ASSUME NEW s \in Seq(Attempt), NEW V, V \subseteq DOMAIN s
  PROVE  IsFiniteSet(V)
<1>1. Len(s) \in Nat /\ DOMAIN s = 1 .. Len(s)
  OBVIOUS
<1>2. IsFiniteSet(1 .. Len(s))
  BY <1>1, FS_Interval
<1>. QED BY <1>1, <1>2, SmallerSet

-----------------------------------------------------------------------------
(* The invariant *)

\* The executor is about to record that its request may have been accepted.
Counted(w, c) ==
  c \in Current(w, "record") /\ result[w] \in {Submitted, Failed("SenderError")}

\* The attempts whose executors may still make a request, or have made none
Unsent(e) ==
  UNION {{c.number : c \in {d \in held[w] : d.event = e /\ ~Counted(w, d)}} :
           w \in Workers}

\* No two claims of an event have the same attempt, and no executor has two
\* claims of it; unless the event was deleted, the attempt is there and open.
Numbered(e) ==
  /\ \A w, v \in Workers : \A c \in held[w], d \in held[v] :
       c.event = e /\ d.event = e /\ (w = v \/ c.number = d.number) =>
         w = v /\ c = d
  /\ e \notin deleted =>
       \A w \in Workers : \A c \in held[w] : c.event = e =>
         c.number \in DOMAIN attempts[e] /\ attempts[e][c.number] = Open

\* The ways to make a claim of the event: it is pending, or its latest attempt
\* may be retried.
MayBePending(e) ==
  status[e] = "scheduled" \/ (status[e] = "absent" /\ e \notin deleted)

Chances(e) ==
  (IF MayBePending(e) THEN 1 ELSE 0)
    + (IF LatestIs(e, Failed("QueueRetryable")) THEN 1 ELSE 0)

\* Requests, claims that may still make one and ways to make a claim
Bounded(e) ==
  /\ IsFiniteSet(Unsent(e))
  /\ Len(calls[e]) + Cardinality(Unsent(e)) + Chances(e) <= 1 + resets[e]

\* Every request accepted has an attempt that none will be made for.
Audited(e) ==
  e \notin deleted => Len(calls[e]) <= Cardinality(SentAttempts(e) \ Unsent(e))

\* The form being handled is not counted yet.
FormCounts == form # NoForm => saves < MaxSaves

\* The counts of every event, and every guarantee of those no form disturbed
AdminInv ==
  /\ AdminTypeOK
  /\ FormCounts
  /\ \A e \in Events : Numbered(e) /\ Bounded(e) /\ Audited(e)
  /\ \A e \in Events \ (disturbed \cup deleted) : EventSafe(e)

\* What it is to be the attempt of a claim that was not sent.
LEMMA UnsentMember ==
  ASSUME NEW e, NEW n
  PROVE  n \in Unsent(e) <=>
           \E w \in Workers : \E c \in held[w] :
             c.event = e /\ c.number = n /\ ~Counted(w, c)
BY DEF Unsent

\* There are at most two ways to make a claim.
LEMMA ChancesType ==
  ASSUME NEW e PROVE Chances(e) \in 0 .. 2
BY DEF Chances

\* A request uses up a claim, a claim a way to make it, and a save adds one.
LEMMA Balance ==
  ASSUME NEW l \in Nat, NEW u \in Nat, NEW k \in 0 .. 2, NEW r \in Nat,
         NEW l1 \in Nat, NEW u1 \in Nat, NEW k1 \in 0 .. 2, NEW r1 \in Nat,
         l + u + k <= 1 + r,
         \/ l1 = l     /\ u1 <= u     /\ k1 <= k     /\ r1 = r
         \/ l1 = l     /\ u1 <= u     /\ k1 <= k + 1 /\ r1 = r + 1
         \/ l1 = l     /\ u1 <= u + 1 /\ k1 + 1 <= k /\ r1 = r
         \/ l1 = l     /\ u1 + 1 <= u /\ k1 <= k + 1 /\ r1 = r
         \/ l1 = l + 1 /\ u1 + 1 <= u /\ k1 <= k     /\ r1 = r
  PROVE  l1 + u1 + k1 <= 1 + r1
OBVIOUS

\* The same balance, of the counts of one event.
LEMMA BalanceKept ==
  ASSUME NEW e, Bounded(e), IsFiniteSet(Unsent(e)'),
         Len(calls[e]) \in Nat, Len(calls'[e]) \in Nat,
         Cardinality(Unsent(e)) \in Nat, Cardinality(Unsent(e)') \in Nat,
         Chances(e) \in 0 .. 2, Chances(e)' \in 0 .. 2,
         resets[e] \in Nat, resets'[e] \in Nat,
         LET l  == Len(calls[e])   u  == Cardinality(Unsent(e))
             l1 == Len(calls'[e])  u1 == Cardinality(Unsent(e)')
             k  == Chances(e)      r  == resets[e]
             k1 == Chances(e)'     r1 == resets'[e]
         IN  \/ l1 = l     /\ u1 <= u     /\ k1 <= k     /\ r1 = r
             \/ l1 = l     /\ u1 <= u     /\ k1 <= k + 1 /\ r1 = r + 1
             \/ l1 = l     /\ u1 <= u + 1 /\ k1 + 1 <= k /\ r1 = r
             \/ l1 = l     /\ u1 + 1 <= u /\ k1 <= k + 1 /\ r1 = r
             \/ l1 = l + 1 /\ u1 + 1 <= u /\ k1 <= k     /\ r1 = r
  PROVE  Bounded(e)'
<1>. DEFINE l  == Len(calls[e])   u  == Cardinality(Unsent(e))
            l1 == Len(calls'[e])  u1 == Cardinality(Unsent(e)')
            k  == Chances(e)      r  == resets[e]
            k1 == Chances(e)'     r1 == resets'[e]
<1>1. /\ l \in Nat /\ l1 \in Nat /\ u \in Nat /\ u1 \in Nat
      /\ k \in 0 .. 2 /\ k1 \in 0 .. 2 /\ r \in Nat /\ r1 \in Nat
  OBVIOUS
<1>2. l + u + k <= 1 + r
  BY DEF Bounded
<1>3. \/ l1 = l     /\ u1 <= u     /\ k1 <= k     /\ r1 = r
      \/ l1 = l     /\ u1 <= u     /\ k1 <= k + 1 /\ r1 = r + 1
      \/ l1 = l     /\ u1 <= u + 1 /\ k1 + 1 <= k /\ r1 = r
      \/ l1 = l     /\ u1 + 1 <= u /\ k1 <= k + 1 /\ r1 = r
      \/ l1 = l + 1 /\ u1 + 1 <= u /\ k1 <= k     /\ r1 = r
  OBVIOUS
<1>4. l1 + u1 + k1 <= 1 + r1
  <2>. HIDE DEF l, l1, u, u1, k, k1, r, r1
  <2>. QED BY <1>1, <1>2, <1>3, Balance
<1>. QED BY <1>4 DEF Bounded

-----------------------------------------------------------------------------
(* The steps, by what they do to one event *)

\* No executor gains a claim of the event or takes back what it did for it.
ClaimsKept(e) ==
  \A w \in Workers : \A c \in held'[w] :
    c.event = e => c \in held[w] /\ (Counted(w, c) => Counted(w, c)')

\* The event is not put back.
NotPutBack(e) ==
  /\ MayBePending(e)' => MayBePending(e)
  /\ resets'[e] = resets[e]
  /\ e \in deleted' <=> e \in deleted

\* The event is left alone, or a form puts it back.
Kept(e) ==
  /\ ClaimsKept(e)
  /\ attempts'[e] = attempts[e]
  /\ calls'[e] = calls[e]
  /\ e \in deleted => e \in deleted'
  /\ \/ (MayBePending(e)' => MayBePending(e)) /\ resets'[e] = resets[e]
     \/ resets'[e] = resets[e] + 1

\* Executor w claims the event, or reports it missed.
ClaimedBy(e, w) ==
  /\ e \notin deleted /\ e \notin deleted'
  /\ resets'[e] = resets[e] /\ calls'[e] = calls[e]
  /\ MayBePending(e) \/ LatestIs(e, Failed("QueueRetryable"))
  /\ ~MayBePending(e)'
  /\ \A v \in Workers \ {w} : \A c \in held'[v] :
       c \in held[v] /\ (Counted(v, c) => Counted(v, c)')
  /\ \/ /\ attempts'[e] = Append(attempts[e], Open)
        /\ \A c \in held'[w] : c.event = e => c = ClaimOf(e)
     \/ /\ attempts'[e] = Append(attempts[e], Failed("MissedDeliveryWindow"))
        /\ \A c \in held'[w] : c.event # e

\* The provider accepts a request of w for claim c.
AcceptedFor(e, w, c) ==
  /\ c.event = e
  /\ ~Counted(w, c) /\ Counted(w, c)'
  /\ held' = held
  /\ ClaimsKept(e)
  /\ NotPutBack(e)
  /\ attempts'[e] = attempts[e]
  /\ \E ch \in Channels : calls'[e] = Append(calls[e], ch)

\* Executor w records the outcome of claim c and drops the claim.
RecordedFor(e, w, c) ==
  /\ c.event = e
  /\ e \notin deleted
  /\ c \in Current(w, "record") /\ c \notin held'[w]
  /\ ClaimsKept(e)
  /\ NotPutBack(e)
  /\ c.number \in DOMAIN attempts[e]
  /\ attempts'[e] = [attempts[e] EXCEPT ![c.number] = result[w]]
  /\ calls'[e] = calls[e]

\* The event is deleted with its attempts.
Deleted(e) ==
  /\ ClaimsKept(e)
  /\ attempts'[e] = <<>>
  /\ calls'[e] = calls[e]
  /\ e \in deleted'
  /\ ~MayBePending(e)'
  /\ resets'[e] = resets[e]

\* What a step can be to one event
StepFor(e) ==
  \/ Kept(e)
  \/ \E w \in Workers : ClaimedBy(e, w)
  \/ \E w \in Workers : \E c \in held[w] : AcceptedFor(e, w, c) \/ RecordedFor(e, w, c)
  \/ Deleted(e)

-----------------------------------------------------------------------------
(* Every kind of step keeps the counts *)

\* Without a new claim there is no new attempt to send for.
LEMMA ClaimsKeptUnsent ==
  ASSUME NEW e, ClaimsKept(e)
  PROVE  Unsent(e)' \subseteq Unsent(e)
<1>. SUFFICES ASSUME NEW n \in Unsent(e)' PROVE n \in Unsent(e)
  OBVIOUS
<1>1. PICK w \in Workers :
        \E c \in held'[w] : c.event = e /\ c.number = n /\ ~Counted(w, c)'
  BY DEF Unsent
<1>. PICK c \in held'[w] : c.event = e /\ c.number = n /\ ~Counted(w, c)'
  BY <1>1
<1>2. c \in held[w] /\ ~Counted(w, c)
  BY DEF ClaimsKept
<1>. QED BY <1>2, UnsentMember

\* A step that leaves the event alone, or puts it back, keeps the counts.
LEMMA KeptSafe ==
  ASSUME TypeOK, TypeOK', NEW e \in Events, resets[e] \in Nat,
         Numbered(e), Bounded(e), Audited(e), Kept(e)
  PROVE  Numbered(e)' /\ Bounded(e)' /\ Audited(e)'
<1>1. Unsent(e)' \subseteq Unsent(e) /\ IsFiniteSet(Unsent(e))
  BY ClaimsKeptUnsent DEF Kept, Bounded
<1>2. /\ IsFiniteSet(Unsent(e)')
      /\ Cardinality(Unsent(e)) \in Nat /\ Cardinality(Unsent(e)') \in Nat
      /\ Cardinality(Unsent(e)') <= Cardinality(Unsent(e))
  BY <1>1, SmallerSet
<1>3. Numbered(e)'
  BY DEF Kept, ClaimsKept, Numbered
<1>4. /\ Chances(e) \in 0 .. 2 /\ Chances(e)' \in 0 .. 2
      /\ resets'[e] \in Nat
      /\ \/ Chances(e)' <= Chances(e) /\ resets'[e] = resets[e]
         \/ Chances(e)' <= Chances(e) + 1 /\ resets'[e] = resets[e] + 1
  <2>1. LatestIs(e, Failed("QueueRetryable"))' <=> LatestIs(e, Failed("QueueRetryable"))
    BY DEF Kept, LatestIs, Latest
  <2>. QED BY <2>1 DEF Kept, Chances
<1>5. Bounded(e)'
  <2>1. Len(calls'[e]) = Len(calls[e]) /\ Len(calls[e]) \in Nat
    BY DEF Kept, TypeOK
  <2>. QED BY <1>2, <1>4, <2>1, BalanceKept
<1>6. Audited(e)'
  <2>. SUFFICES ASSUME e \notin deleted'
                PROVE  Len(calls'[e]) <= Cardinality((SentAttempts(e) \ Unsent(e))')
    BY DEF Audited
  <2>1. e \notin deleted /\ SentAttempts(e)' = SentAttempts(e)
    BY DEF Kept, SentAttempts
  <2>2. SentAttempts(e) \ Unsent(e) \subseteq (SentAttempts(e) \ Unsent(e))'
    BY <1>1, <2>1
  <2>3. IsFiniteSet((SentAttempts(e) \ Unsent(e))')
    BY HistoryIsFinite DEF SentAttempts, TypeOK
  <2>4. /\ Cardinality(SentAttempts(e) \ Unsent(e)) \in Nat
        /\ Cardinality((SentAttempts(e) \ Unsent(e))') \in Nat
        /\ Cardinality(SentAttempts(e) \ Unsent(e))
             <= Cardinality((SentAttempts(e) \ Unsent(e))')
    BY <2>2, <2>3, SmallerSet
  <2>5. Len(calls'[e]) = Len(calls[e]) /\ Len(calls[e]) \in Nat
    BY DEF Kept, TypeOK
  <2>. QED BY <2>1, <2>4, <2>5 DEF Audited
<1>. QED BY <1>3, <1>5, <1>6

\* A claim uses up the chance it was made by; its attempt number is new.
LEMMA ClaimedSafe ==
  ASSUME TypeOK, TypeOK', NEW e \in Events, resets[e] \in Nat,
         Numbered(e), Bounded(e), Audited(e), NEW w \in Workers, ClaimedBy(e, w)
  PROVE  Numbered(e)' /\ Bounded(e)' /\ Audited(e)'
<1>. DEFINE n == Len(attempts[e]) + 1
<1>1. /\ attempts[e] \in Seq(Attempt) /\ Len(attempts[e]) \in Nat
      /\ DOMAIN attempts[e] = 1 .. Len(attempts[e])
      /\ Len(calls'[e]) = Len(calls[e]) /\ Len(calls[e]) \in Nat
  BY DEF ClaimedBy, TypeOK
<1>2. PICK a \in {Open, Failed("MissedDeliveryWindow")} :
        /\ attempts'[e] = Append(attempts[e], a)
        /\ \A c \in held'[w] : c.event = e => a = Open /\ c.number = n /\ c = ClaimOf(e)
  BY DEF ClaimedBy, ClaimOf
<1>3. /\ DOMAIN attempts'[e] = 1 .. n
      /\ attempts'[e] # <<>>
      /\ Latest(e)' = a
      /\ attempts'[e][n] = a
      /\ \A m \in 1 .. Len(attempts[e]) : attempts'[e][m] = attempts[e][m]
  <2>1. a \in Attempt
    BY <1>2, AttemptTypes DEF Errors
  <2>. QED BY <1>1, <1>2, <2>1, AppendAttempt DEF Latest
<1>4. ASSUME NEW v \in Workers, v # w, NEW c \in held'[v], c.event = e
      PROVE  /\ c \in held[v] /\ c.number \in 1 .. Len(attempts[e])
             /\ attempts[e][c.number] = Open
             /\ c.number # n
  BY <1>1, <1>4 DEF ClaimedBy, Numbered
<1>5. Numbered(e)'
  <2>1. ASSUME NEW u \in Workers, NEW v \in Workers, NEW c \in held'[u],
               NEW d \in held'[v], c.event = e, d.event = e,
               u = v \/ c.number = d.number
        PROVE  u = v /\ c = d
    <3>1. CASE u = w /\ v = w
      BY <1>2, <2>1, <3>1
    <3>2. CASE u # w /\ v # w
      BY <1>4, <2>1, <3>2 DEF Numbered
    <3>3. CASE (u = w /\ v # w) \/ (u # w /\ v = w)
      BY <1>2, <1>4, <2>1, <3>3
    <3>. QED BY <3>1, <3>2, <3>3
  <2>2. ASSUME NEW v \in Workers, NEW c \in held'[v], c.event = e
        PROVE  c.number \in DOMAIN attempts'[e] /\ attempts'[e][c.number] = Open
    <3>1. CASE v = w
      BY <1>1, <1>2, <1>3, <2>2, <3>1
    <3>2. CASE v # w
      BY <1>1, <1>3, <1>4, <2>2, <3>2
    <3>. QED BY <3>1, <3>2
  <2>. QED BY <2>1, <2>2 DEF Numbered
<1>6. Unsent(e)' \subseteq Unsent(e) \cup {n}
  <2>. SUFFICES ASSUME NEW m \in Unsent(e)', m # n PROVE m \in Unsent(e)
    OBVIOUS
  <2>1. PICK v \in Workers :
          \E c \in held'[v] : c.event = e /\ c.number = m /\ ~Counted(v, c)'
    BY DEF Unsent
  <2>. PICK c \in held'[v] : c.event = e /\ c.number = m /\ ~Counted(v, c)'
    BY <2>1
  <2>2. v # w
    BY <1>2
  <2>3. c \in held[v] /\ ~Counted(v, c)
    BY <2>2 DEF ClaimedBy
  <2>. QED BY <2>3, UnsentMember
<1>7. /\ IsFiniteSet(Unsent(e)')
      /\ Cardinality(Unsent(e)) \in Nat /\ Cardinality(Unsent(e)') \in Nat
      /\ Cardinality(Unsent(e)') <= Cardinality(Unsent(e)) + 1
  BY <1>6, OneIn DEF Bounded
<1>8. Chances(e) \in 0 .. 2 /\ Chances(e)' \in 0 .. 2 /\ Chances(e)' + 1 <= Chances(e)
  <2>1. ~LatestIs(e, Failed("QueueRetryable"))'
    BY <1>2, <1>3 DEF LatestIs, Failed, Open
  <2>. QED BY <2>1 DEF Chances, ClaimedBy
<1>9. Bounded(e)'
  BY <1>1, <1>7, <1>8, BalanceKept DEF ClaimedBy
<1>10. Audited(e)'
  <2>1. SentAttempts(e) \ Unsent(e) \subseteq (SentAttempts(e) \ Unsent(e))'
    BY <1>1, <1>3, <1>6 DEF SentAttempts
  <2>2. IsFiniteSet((SentAttempts(e) \ Unsent(e))')
    BY HistoryIsFinite DEF SentAttempts, TypeOK
  <2>3. /\ Cardinality(SentAttempts(e) \ Unsent(e)) \in Nat
        /\ Cardinality((SentAttempts(e) \ Unsent(e))') \in Nat
        /\ Cardinality(SentAttempts(e) \ Unsent(e))
             <= Cardinality((SentAttempts(e) \ Unsent(e))')
    BY <2>1, <2>2, SmallerSet
  <2>. QED BY <1>1, <2>3 DEF Audited, ClaimedBy
<1>. QED BY <1>5, <1>9, <1>10

\* An accepted request uses up the claim it was made for, whose attempt is open.
LEMMA AcceptedSafe ==
  ASSUME TypeOK, TypeOK', NEW e \in Events, resets[e] \in Nat,
         Numbered(e), Bounded(e), Audited(e),
         NEW w \in Workers, NEW c \in held[w], AcceptedFor(e, w, c)
  PROVE  Numbered(e)' /\ Bounded(e)' /\ Audited(e)'
<1>1. /\ Len(calls[e]) \in Nat /\ Len(calls'[e]) = Len(calls[e]) + 1
      /\ attempts'[e] = attempts[e]
      /\ resets'[e] = resets[e]
      /\ e \in deleted' <=> e \in deleted
      /\ c.event = e /\ ClaimsKept(e)
  BY DEF AcceptedFor, NotPutBack, TypeOK
<1>2. Numbered(e)'
  BY <1>1 DEF ClaimsKept, Numbered
<1>3. Unsent(e)' \subseteq Unsent(e) \ {c.number} /\ c.number \in Unsent(e)
  <2>1. c.number \in Unsent(e)
    BY UnsentMember DEF AcceptedFor
  <2>2. c.number \notin Unsent(e)'
    <3>. SUFFICES ASSUME c.number \in Unsent(e)' PROVE FALSE
      OBVIOUS
    <3>1. PICK v \in Workers :
            \E d \in held'[v] : d.event = e /\ d.number = c.number /\ ~Counted(v, d)'
      BY DEF Unsent
    <3>2. PICK d \in held'[v] : d.event = e /\ d.number = c.number /\ ~Counted(v, d)'
      BY <3>1
    <3>3. v = w /\ d = c
      BY <1>1, <3>2 DEF ClaimsKept, Numbered
    <3>. QED BY <3>2, <3>3 DEF AcceptedFor
  <2>. QED BY <1>1, <2>1, <2>2, ClaimsKeptUnsent
<1>4. /\ IsFiniteSet(Unsent(e)')
      /\ Cardinality(Unsent(e)) \in Nat /\ Cardinality(Unsent(e)') \in Nat
      /\ Cardinality(Unsent(e)') + 1 <= Cardinality(Unsent(e))
  BY <1>3, OneOut DEF Bounded
<1>5. Chances(e) \in 0 .. 2 /\ Chances(e)' \in 0 .. 2 /\ Chances(e)' <= Chances(e)
  <2>1. LatestIs(e, Failed("QueueRetryable"))' <=> LatestIs(e, Failed("QueueRetryable"))
    BY <1>1 DEF LatestIs, Latest
  <2>2. MayBePending(e)' => MayBePending(e)
    BY DEF AcceptedFor, NotPutBack
  <2>. QED BY <2>1, <2>2 DEF Chances
<1>6. Bounded(e)'
  BY <1>1, <1>4, <1>5, BalanceKept
<1>7. Audited(e)'
  <2>. SUFFICES ASSUME e \notin deleted'
                PROVE  Len(calls'[e]) <= Cardinality((SentAttempts(e) \ Unsent(e))')
    BY DEF Audited
  <2>1. c.number \in DOMAIN attempts[e] /\ attempts[e][c.number] = Open
    BY <1>1 DEF Numbered
  <2>2. SentAttempts(e)' = SentAttempts(e) /\ c.number \in SentAttempts(e)
    BY <1>1, <2>1 DEF SentAttempts
  <2>3. /\ c.number \in (SentAttempts(e) \ Unsent(e))'
        /\ SentAttempts(e) \ Unsent(e)
             \subseteq (SentAttempts(e) \ Unsent(e))' \ {c.number}
    BY <1>3, <2>2
  <2>4. IsFiniteSet((SentAttempts(e) \ Unsent(e))')
    BY HistoryIsFinite DEF SentAttempts, TypeOK
  <2>5. /\ Cardinality(SentAttempts(e) \ Unsent(e)) \in Nat
        /\ Cardinality((SentAttempts(e) \ Unsent(e))') \in Nat
        /\ Cardinality(SentAttempts(e) \ Unsent(e)) + 1
             <= Cardinality((SentAttempts(e) \ Unsent(e))')
    BY <2>3, <2>4, OneOut
  <2>. QED BY <1>1, <2>5 DEF Audited
<1>. QED BY <1>2, <1>6, <1>7

\* A recorded outcome frees no chance unless no request was made.
LEMMA RecordedSafe ==
  ASSUME TypeOK, TypeOK', NEW e \in Events, resets[e] \in Nat,
         Numbered(e), Bounded(e), Audited(e),
         NEW w \in Workers, NEW c \in held[w], RecordedFor(e, w, c)
  PROVE  Numbered(e)' /\ Bounded(e)' /\ Audited(e)'
<1>. DEFINE n == c.number
<1>1. /\ attempts[e] \in Seq(Attempt) /\ Len(attempts[e]) \in Nat
      /\ DOMAIN attempts[e] = 1 .. Len(attempts[e])
      /\ n \in 1 .. Len(attempts[e])
      /\ Len(calls'[e]) = Len(calls[e]) /\ Len(calls[e]) \in Nat
      /\ resets'[e] = resets[e]
      /\ c.event = e /\ ClaimsKept(e)
      /\ e \notin deleted /\ e \notin deleted'
      /\ result[w] \in Attempt
  BY DEF RecordedFor, NotPutBack, TypeOK
<1>2. /\ Len(attempts'[e]) = Len(attempts[e])
      /\ DOMAIN attempts'[e] = 1 .. Len(attempts[e])
      /\ attempts'[e][n] = result[w]
      /\ \A m \in 1 .. Len(attempts[e]) : m # n => attempts'[e][m] = attempts[e][m]
  <2>1. attempts'[e] = [attempts[e] EXCEPT ![n] = result[w]]
    BY DEF RecordedFor
  <2>. QED BY <1>1, <2>1, ReplaceAttempt
<1>3. ASSUME NEW v \in Workers, NEW d \in held'[v], d.event = e
      PROVE  d \in held[v] /\ d.number # n
  <2>1. d \in held[v]
    BY <1>1, <1>3 DEF ClaimsKept
  <2>2. d.number = n => v = w /\ d = c
    BY <1>1, <1>3, <2>1 DEF Numbered
  <2>. QED BY <2>1, <2>2 DEF RecordedFor
<1>4. Numbered(e)'
  BY <1>1, <1>2, <1>3 DEF Numbered
<1>5. Unsent(e)' \subseteq Unsent(e) \ {n}
  <2>1. n \notin Unsent(e)'
    BY <1>3 DEF Unsent
  <2>. QED BY <1>1, <2>1, ClaimsKeptUnsent
<1>6. ~Counted(w, c) => n \in Unsent(e)
  BY <1>1, UnsentMember
<1>7. /\ IsFiniteSet(Unsent(e)')
      /\ Cardinality(Unsent(e)) \in Nat /\ Cardinality(Unsent(e)') \in Nat
      /\ Cardinality(Unsent(e)') <= Cardinality(Unsent(e))
      /\ ~Counted(w, c) => Cardinality(Unsent(e)') + 1 <= Cardinality(Unsent(e))
  BY <1>5, <1>6, SmallerSet, OneOut DEF Bounded
<1>8. /\ Chances(e) \in 0 .. 2 /\ Chances(e)' \in 0 .. 2
      /\ Chances(e)' <= Chances(e) + 1
      /\ Counted(w, c) => Chances(e)' <= Chances(e)
  <2>1. MayBePending(e)' => MayBePending(e)
    BY DEF RecordedFor, NotPutBack
  <2>2. Counted(w, c) /\ LatestIs(e, Failed("QueueRetryable"))'
          => LatestIs(e, Failed("QueueRetryable"))
    <3>. SUFFICES ASSUME Counted(w, c), LatestIs(e, Failed("QueueRetryable"))'
                  PROVE  LatestIs(e, Failed("QueueRetryable"))
      OBVIOUS
    <3>1. result[w] # Failed("QueueRetryable")
      BY DEF Counted, Submitted, Failed
    <3>2. n # Len(attempts[e]) /\ attempts[e] # <<>>
      BY <1>1, <1>2, <3>1, EmptySeq DEF LatestIs, Latest
    <3>. QED BY <1>1, <1>2, <3>2 DEF LatestIs, Latest
  <2>. QED BY <2>1, <2>2 DEF Chances
<1>9. Bounded(e)'
  BY <1>1, <1>7, <1>8, BalanceKept
<1>10. Audited(e)'
  <2>1. SentAttempts(e) \ Unsent(e) \subseteq (SentAttempts(e) \ Unsent(e))'
    <3>. SUFFICES ASSUME NEW m \in SentAttempts(e), m \notin Unsent(e)
                  PROVE  m \in SentAttempts(e)' /\ m \notin Unsent(e)'
      OBVIOUS
    <3>1. m \in 1 .. Len(attempts[e])
      BY <1>1 DEF SentAttempts
    <3>2. CASE m # n
      BY <1>1, <1>2, <1>5, <3>1, <3>2 DEF SentAttempts
    <3>3. CASE m = n
      BY <1>2, <1>5, <1>6, <3>1, <3>3 DEF SentAttempts, Counted
    <3>. QED BY <3>2, <3>3
  <2>2. IsFiniteSet((SentAttempts(e) \ Unsent(e))')
    BY HistoryIsFinite DEF SentAttempts, TypeOK
  <2>3. /\ Cardinality(SentAttempts(e) \ Unsent(e)) \in Nat
        /\ Cardinality((SentAttempts(e) \ Unsent(e))') \in Nat
        /\ Cardinality(SentAttempts(e) \ Unsent(e))
             <= Cardinality((SentAttempts(e) \ Unsent(e))')
    BY <2>1, <2>2, SmallerSet
  <2>. QED BY <1>1, <2>3 DEF Audited
<1>. QED BY <1>4, <1>9, <1>10

\* A deleted event cannot be claimed again.
LEMMA DeletedSafe ==
  ASSUME TypeOK, TypeOK', NEW e \in Events, resets[e] \in Nat,
         Numbered(e), Bounded(e), Deleted(e)
  PROVE  Numbered(e)' /\ Bounded(e)' /\ Audited(e)'
<1>1. Numbered(e)' /\ Audited(e)'
  BY DEF Deleted, ClaimsKept, Numbered, Audited
<1>2. /\ IsFiniteSet(Unsent(e)')
      /\ Cardinality(Unsent(e)) \in Nat /\ Cardinality(Unsent(e)') \in Nat
      /\ Cardinality(Unsent(e)') <= Cardinality(Unsent(e))
  BY ClaimsKeptUnsent, SmallerSet DEF Deleted, Bounded
<1>3. Chances(e) \in 0 .. 2 /\ Chances(e)' \in 0 .. 2 /\ Chances(e)' <= Chances(e)
  BY ChancesType DEF Chances, Deleted, LatestIs
<1>4. /\ Len(calls'[e]) = Len(calls[e]) /\ Len(calls[e]) \in Nat
      /\ resets'[e] = resets[e]
  BY DEF Deleted, TypeOK
<1>. QED BY <1>1, <1>2, <1>3, <1>4, BalanceKept

\* Whatever kind a step is of, it keeps the counts of the event.
LEMMA StepSafe ==
  ASSUME TypeOK, TypeOK', NEW e \in Events, resets[e] \in Nat,
         Numbered(e), Bounded(e), Audited(e), StepFor(e)
  PROVE  Numbered(e)' /\ Bounded(e)' /\ Audited(e)'
BY KeptSafe, ClaimedSafe, AcceptedSafe, RecordedSafe, DeletedSafe DEF StepFor

-----------------------------------------------------------------------------
(* Every step is of one of the kinds *)

\* An executor that does nothing is counted as before.
LEMMA ExecutorKept ==
  ASSUME NEW v \in Workers, NEW c, UNCHANGED <<held[v], step[v], result[v]>>
  PROVE  Counted(v, c)' <=> Counted(v, c)
BY DEF Counted, Current

\* When no executor does anything, its claims are kept.
LEMMA ExecutorsKept ==
  ASSUME NEW e, UNCHANGED <<held, step, result>>
  PROVE  ClaimsKept(e)
BY ExecutorKept DEF ClaimsKept

\* The services put no event back: they schedule what is new only.
LEMMA SchedulingKind ==
  ASSUME AdminTypeOK, NEW e \in Events, SchedulingNext, KeysAreNew,
         UNCHANGED <<deliveryVars, formVars, deleted>>
  PROVE  Kept(e)
<1>1. ClaimsKept(e)
  BY ExecutorsKept DEF deliveryVars
<1>2. MayBePending(e)' => MayBePending(e)
  <2>1. status'[e] = "scheduled" => status[e] \in {"scheduled", "absent"}
    BY DEF SchedulingNext, EditEvent, Tick, CreateScheduledEvent,
       CancelScheduledEvent, RescheduleScheduledEvent,
       ChangeScheduledEventChannel, AdminTypeOK, TypeOK, SchedulingTypeOK, rowVars
  <2>2. status'[e] = "absent" => status[e] = "absent"
    BY DEF SchedulingNext, EditEvent, Tick, CreateScheduledEvent,
       CancelScheduledEvent, RescheduleScheduledEvent,
       ChangeScheduledEventChannel, AdminTypeOK, TypeOK, SchedulingTypeOK, rowVars
  <2>3. e \in deleted => status'[e] = "absent"
    BY DEF KeysAreNew
  <2>. QED BY <2>1, <2>2, <2>3 DEF MayBePending
<1>. QED BY <1>1, <1>2 DEF Kept, deliveryVars, formVars

\* The first claim of a pending event, in a batch or alone.
LEMMA ClaimKind ==
  ASSUME AdminTypeOK, NEW e \in Events, NEW w \in Workers, NEW call \in Call,
         NEW S \in SUBSET Events, NEW missed \in SUBSET S,
         \A f \in S : status[f] = "scheduled",
         ClaimLocked(w, call, S, missed), UNCHANGED <<formVars, deleted>>
  PROVE  Kept(e) \/ ClaimedBy(e, w)
<1>1. /\ \A v \in Workers \ {w} : UNCHANGED <<held[v], step[v], result[v]>>
      /\ held'[w] = {ClaimOf(f) : f \in S \ missed}
      /\ calls' = calls /\ resets' = resets /\ deleted' = deleted
  BY DEF ClaimLocked, Begin, AdminTypeOK, TypeOK, formVars
<1>2. \A c \in held'[w] : c.event \in S \ missed /\ c = ClaimOf(c.event)
  BY <1>1 DEF ClaimOf
<1>3. \A v \in Workers \ {w} : \A c \in held'[v] :
        c \in held[v] /\ (Counted(v, c) => Counted(v, c)')
  BY <1>1, ExecutorKept
<1>4. CASE e \notin S
  <2>1. ClaimsKept(e)
    BY <1>2, <1>3, <1>4 DEF ClaimsKept
  <2>2. status'[e] = status[e] /\ attempts'[e] = attempts[e]
    BY <1>4 DEF ClaimLocked
  <2>. QED BY <1>1, <2>1, <2>2 DEF Kept, MayBePending
<1>5. CASE e \in S
  <2>1. status[e] = "scheduled" /\ e \notin deleted
    BY <1>5 DEF AdminTypeOK
  <2>2. status'[e] \in {"failed", "processing"}
    BY <1>5 DEF ClaimLocked
  <2>3. \/ /\ attempts'[e] = Append(attempts[e], Open)
           /\ \A c \in held'[w] : c.event = e => c = ClaimOf(e)
        \/ /\ attempts'[e] = Append(attempts[e], Failed("MissedDeliveryWindow"))
           /\ \A c \in held'[w] : c.event # e
    BY <1>2, <1>5 DEF ClaimLocked
  <2>. QED BY <1>1, <1>3, <2>1, <2>2, <2>3 DEF ClaimedBy, MayBePending
<1>. QED BY <1>4, <1>5

\* The claim of a retry.
LEMMA ReclaimKind ==
  ASSUME AdminTypeOK, NEW e \in Events, NEW w \in Workers, NEW call \in Call,
         NEW f \in Events, status[f] = "processing",
         LatestIs(f, Failed("QueueRetryable")),
         ReclaimLocked(w, call, f), UNCHANGED <<formVars, deleted>>
  PROVE  Kept(e) \/ ClaimedBy(e, w)
<1>1. /\ \A v \in Workers \ {w} : UNCHANGED <<held[v], step[v], result[v]>>
      /\ held'[w] = {ClaimOf(f)}
      /\ status' = status
      /\ calls' = calls /\ resets' = resets /\ deleted' = deleted
  BY DEF ReclaimLocked, Begin, AdminTypeOK, TypeOK, formVars, schedulingVars
<1>2. \A c \in held'[w] : c.event = f /\ c = ClaimOf(f)
  BY <1>1 DEF ClaimOf
<1>3. \A v \in Workers \ {w} : \A c \in held'[v] :
        c \in held[v] /\ (Counted(v, c) => Counted(v, c)')
  BY <1>1, ExecutorKept
<1>4. CASE e # f
  <2>1. ClaimsKept(e)
    BY <1>2, <1>3, <1>4 DEF ClaimsKept
  <2>2. attempts'[e] = attempts[e]
    BY <1>4 DEF ReclaimLocked, AdminTypeOK, TypeOK
  <2>. QED BY <1>1, <2>1, <2>2 DEF Kept, MayBePending
<1>5. CASE e = f
  <2>1. e \notin deleted
    BY <1>5 DEF AdminTypeOK
  <2>2. attempts'[e] = Append(attempts[e], Open)
    BY <1>5 DEF ReclaimLocked, AdminTypeOK, TypeOK
  <2>. QED BY <1>1, <1>2, <1>3, <1>5, <2>1, <2>2 DEF ClaimedBy, MayBePending
<1>. QED BY <1>4, <1>5

\* An executor that has nothing to record takes nothing back.
LEMMA ProceedClaims ==
  ASSUME AdminTypeOK, NEW e \in Events, NEW w \in Workers, NEW next, NEW outcome,
         Proceed(w, next, outcome), step[w] # "record"
  PROVE  ClaimsKept(e)
<1>1. /\ held' = held
      /\ \A v \in Workers \ {w} : UNCHANGED <<held[v], step[v], result[v]>>
  BY DEF Proceed, AdminTypeOK, TypeOK
<1>2. \A c : ~Counted(w, c)
  BY DEF Counted, Current
<1>. QED BY <1>1, <1>2, ExecutorKept DEF ClaimsKept

\* A step of an executor without an accepted request.
LEMMA NoCallKind ==
  ASSUME AdminTypeOK, NEW e \in Events, NEW w \in Workers, NEW next, NEW outcome,
         Proceed(w, next, outcome), step[w] # "record",
         UNCHANGED <<calls, formVars, deleted>>
  PROVE  Kept(e)
<1>1. ClaimsKept(e)
  BY ProceedClaims
<1>. QED BY <1>1 DEF Kept, Proceed, schedulingVars, formVars, MayBePending

\* The provider accepts a request for the executor's first claim.
LEMMA SendKind ==
  ASSUME AdminTypeOK, NEW e \in Events, NEW w \in Workers,
         NEW answered \in BOOLEAN, SendReal(w, answered),
         UNCHANGED <<formVars, deleted>>
  PROVE  StepFor(e)
<1>. DEFINE outcome == Answer(answered)
<1>1. PICK c \in Current(w, "send") :
        /\ calls' = [calls EXCEPT ![c.event] = Append(@, c.channel)]
        /\ Proceed(w, "record", outcome)
  BY DEF SendReal
<1>2. /\ c \in held[w] /\ c.event \in Events /\ c.channel \in Channels
      /\ step[w] = "send" /\ IsFirst(c, held[w])
  BY DEF Current, AdminTypeOK, TypeOK, Claim
<1>3. /\ UNCHANGED <<status, attempts, held, resets, deleted>>
      /\ step'[w] = "record" /\ result'[w] = outcome
  BY <1>1 DEF Proceed, schedulingVars, formVars, AdminTypeOK, TypeOK
<1>4. ClaimsKept(e)
  BY <1>1, <1>2, ProceedClaims
<1>5. CASE c.event # e
  <2>1. calls'[e] = calls[e]
    BY <1>1, <1>5 DEF AdminTypeOK, TypeOK
  <2>. QED BY <1>3, <1>4, <2>1 DEF StepFor, Kept, MayBePending
<1>6. CASE c.event = e
  <2>1. calls'[e] = Append(calls[e], c.channel)
    BY <1>1, <1>6 DEF AdminTypeOK, TypeOK
  <2>2. ~Counted(w, c) /\ Counted(w, c)'
    BY <1>2, <1>3 DEF Counted, Current, Answer
  <2>3. AcceptedFor(e, w, c)
    BY <1>2, <1>3, <1>4, <1>6, <2>1, <2>2
       DEF AcceptedFor, NotPutBack, MayBePending
  <2>. QED BY <1>2, <2>3 DEF StepFor
<1>. QED BY <1>5, <1>6

\* A finished claim was the only one of its event that its executor had.
LEMMA FinishClaims ==
  ASSUME AdminTypeOK, NEW e \in Events, Numbered(e), NEW w \in Workers,
         NEW c \in Current(w, "record"), Finish(w, c)
  PROVE  ClaimsKept(e) /\ c \notin held'[w]
<1>1. /\ c \in held[w] /\ IsFirst(c, held[w])
      /\ held'[w] = held[w] \ {c}
      /\ \A v \in Workers \ {w} : UNCHANGED <<held[v], step[v], result[v]>>
  BY DEF Current, Finish, AdminTypeOK, TypeOK
<1>2. ASSUME NEW d \in held'[w], d.event = e, Counted(w, d) PROVE FALSE
  <2>1. d \in held[w] /\ d # c /\ IsFirst(d, held[w])
    BY <1>1, <1>2 DEF Counted, Current
  <2>2. c.event = e
    BY <1>1, <1>2, <2>1, FirstIsOne DEF AdminTypeOK
  <2>. QED BY <1>1, <1>2, <2>1, <2>2 DEF Numbered
<1>. QED BY <1>1, <1>2, ExecutorKept DEF ClaimsKept

\* The outcome of the executor's first claim is written.
LEMMA RecordKind ==
  ASSUME AdminTypeOK, NEW e \in Events, Numbered(e), NEW w \in Workers,
         Record(w), UNCHANGED <<formVars, deleted>>
  PROVE  StepFor(e)
<1>1. PICK c \in Current(w, "record") :
        /\ Recordable(c, result[w])
        /\ attempts' = [attempts EXCEPT ![c.event] =
                          [@ EXCEPT ![c.number] = result[w]]]
        /\ status' = IF result[w].error = "QueueRetryable" THEN status
                     ELSE [status EXCEPT ![c.event] = result[w].status]
        /\ Finish(w, c)
  BY DEF Record
<1>2. /\ c \in held[w] /\ c.event \in Events
      /\ c.number \in DOMAIN attempts[c.event]
  BY <1>1 DEF Current, AdminTypeOK, TypeOK, Claim, Recordable, AttemptIsOpen
<1>3. c.event \notin deleted
  BY <1>2, EmptySeq DEF AdminTypeOK
<1>4. ClaimsKept(e) /\ c \notin held'[w]
  BY <1>1, FinishClaims
<1>5. /\ calls' = calls /\ resets' = resets /\ deleted' = deleted
  BY <1>1 DEF Finish, formVars
<1>6. CASE c.event # e
  <2>1. status'[e] = status[e] /\ attempts'[e] = attempts[e]
    BY <1>1, <1>6 DEF AdminTypeOK, TypeOK, SchedulingTypeOK
  <2>. QED BY <1>4, <1>5, <2>1 DEF StepFor, Kept, MayBePending
<1>7. CASE c.event = e
  <2>1. attempts'[e] = [attempts[e] EXCEPT ![c.number] = result[w]]
    BY <1>1, <1>7 DEF AdminTypeOK, TypeOK
  <2>2. MayBePending(e)' => MayBePending(e)
    <3>1. result[w].status \notin {"scheduled", "absent"}
      BY DEF AdminTypeOK, TypeOK, Attempt
    <3>2. status'[e] \in {status[e], result[w].status}
      BY <1>1, <1>7 DEF AdminTypeOK, TypeOK, SchedulingTypeOK
    <3>. QED BY <1>5, <3>1, <3>2 DEF MayBePending
  <2>3. RecordedFor(e, w, c)
    BY <1>2, <1>3, <1>4, <1>5, <1>7, <2>1, <2>2 DEF RecordedFor, NotPutBack
  <2>. QED BY <1>2, <2>3 DEF StepFor
<1>. QED BY <1>6, <1>7

\* Every step of an executor at work.
LEMMA WorkKind ==
  ASSUME AdminTypeOK, NEW e \in Events, Numbered(e), NEW w \in Workers,
         Work(w), UNCHANGED <<formVars, deleted>>
  PROVE  StepFor(e)
<1>1. CASE GetWeather(w)
  BY <1>1, NoCallKind DEF GetWeather, Current, StepFor
<1>2. CASE \E retryable \in BOOLEAN : WeatherFails(w, retryable)
  BY <1>2, NoCallKind DEF WeatherFails, Current, StepFor
<1>3. CASE SendDemo(w)
  BY <1>3, NoCallKind DEF SendDemo, Current, StepFor
<1>4. CASE SendFails(w)
  BY <1>4, NoCallKind DEF SendFails, Current, StepFor
<1>5. CASE \E answered \in BOOLEAN : SendReal(w, answered)
  BY <1>5, SendKind
<1>6. CASE Record(w)
  BY <1>6, RecordKind
<1>7. CASE RecordFails(w)
  <2>1. PICK c \in Current(w, "record") :
          Finish(w, c) /\ UNCHANGED <<status, attempts>>
    BY <1>7 DEF RecordFails
  <2>2. ClaimsKept(e)
    BY <2>1, FinishClaims
  <2>. QED BY <2>1, <2>2 DEF StepFor, Kept, Finish, formVars, MayBePending
<1>8. CASE Crash(w)
  <2>1. /\ held'[w] = {}
        /\ \A v \in Workers \ {w} : UNCHANGED <<held[v], step[v], result[v]>>
    BY <1>8 DEF Crash, AdminTypeOK, TypeOK
  <2>2. ClaimsKept(e)
    BY <2>1, ExecutorKept DEF ClaimsKept
  <2>. QED BY <1>8, <2>2
       DEF StepFor, Kept, Crash, schedulingVars, formVars, MayBePending
<1>. QED BY <1>1, <1>2, <1>3, <1>4, <1>5, <1>6, <1>7, <1>8 DEF Work

\* A saved form leaves attempts and executors alone.
LEMMA SaveKind ==
  ASSUME AdminTypeOK, NEW e \in Events, NEW due \in Times, NEW ch \in Channels,
         SaveForm(due, ch)
  PROVE  Kept(e)
<1>1. /\ UNCHANGED <<deliveryVars, deleted>>
      /\ form \in Form
      /\ status' = [status EXCEPT ![form.event] = form.status]
      /\ form.status # "absent"
  BY DEF SaveForm, AdminTypeOK, Form
<1>2. ClaimsKept(e)
  BY <1>1, ExecutorsKept DEF deliveryVars
<1>3. CASE e # form.event
  <2>1. status'[e] = status[e] /\ resets'[e] = resets[e]
    BY <1>1, <1>3 DEF SaveForm, AdminTypeOK, TypeOK, SchedulingTypeOK
  <2>. QED BY <1>1, <1>2, <2>1 DEF Kept, MayBePending, deliveryVars
<1>4. CASE e = form.event
  <2>1. status'[e] = form.status
    BY <1>1, <1>4 DEF AdminTypeOK, TypeOK, SchedulingTypeOK
  <2>2. resets'[e] = IF form.status = "scheduled" /\ status[e] # "scheduled"
                     THEN resets[e] + 1 ELSE resets[e]
    BY <1>4 DEF SaveForm, AdminTypeOK
  <2>. QED BY <1>1, <1>2, <2>1, <2>2 DEF Kept, MayBePending, deliveryVars
<1>. QED BY <1>3, <1>4

\* A deletion leaves the executors as they are.
LEMMA DeleteKind ==
  ASSUME AdminTypeOK, NEW e \in Events, NEW f \in Events, DeleteEvent(f)
  PROVE  Kept(e) \/ Deleted(e)
<1>1. ClaimsKept(e)
  BY ExecutorsKept DEF DeleteEvent, workerVars
<1>2. CASE e # f
  <2>1. status'[e] = status[e] /\ attempts'[e] = attempts[e]
    BY <1>2 DEF DeleteEvent, AdminTypeOK, TypeOK, SchedulingTypeOK
  <2>2. e \in deleted' <=> e \in deleted
    BY <1>2 DEF DeleteEvent
  <2>. QED BY <1>1, <2>1, <2>2 DEF DeleteEvent, Kept, MayBePending, formVars
<1>3. CASE e = f
  <2>1. status'[e] = "absent" /\ attempts'[e] = <<>>
    BY <1>3 DEF DeleteEvent, AdminTypeOK, TypeOK, SchedulingTypeOK
  <2>. QED BY <1>1, <1>3, <2>1 DEF DeleteEvent, Deleted, MayBePending, formVars
<1>. QED BY <1>2, <1>3

\* Every step is of one of the kinds, as one event sees it.
LEMMA StepKinds ==
  ASSUME AdminTypeOK, NEW e \in Events, Numbered(e), [AdminNext]_adminVars
  PROVE  StepFor(e)
<1>1. CASE SchedulingNext /\ UNCHANGED deliveryVars /\ KeysAreNew
             /\ UNCHANGED <<formVars, deleted>>
  BY <1>1, SchedulingKind DEF StepFor
<1>2. ASSUME NEW w \in Workers, ClaimWork(w), UNCHANGED <<formVars, deleted>>
      PROVE  StepFor(e)
  BY <1>2, ClaimWorkCases, ClaimKind, ReclaimKind DEF StepFor, AdminTypeOK
<1>3. ASSUME NEW w \in Workers, Work(w), UNCHANGED <<formVars, deleted>>
      PROVE  StepFor(e)
  BY <1>3, WorkKind
<1>4. ASSUME NEW f \in Events, SubmitForm(f) PROVE StepFor(e)
  BY <1>4, ExecutorsKept DEF SubmitForm, vars, StepFor, Kept, MayBePending
<1>5. ASSUME NEW f \in Events, DeleteEvent(f) PROVE StepFor(e)
  BY <1>5, DeleteKind DEF StepFor
<1>6. ASSUME NEW due \in Times, NEW ch \in Channels, SaveForm(due, ch)
      PROVE  StepFor(e)
  BY <1>6, SaveKind DEF StepFor
<1>7. CASE UNCHANGED adminVars
  BY <1>7, ExecutorsKept
     DEF adminVars, vars, formVars, StepFor, Kept, MayBePending
<1>. QED BY <1>1, <1>2, <1>3, <1>4, <1>5, <1>6, <1>7 DEF AdminNext, Next

-----------------------------------------------------------------------------
(* The invariant is inductive *)

\* Neither a service nor an executor removes a row.
LEMMA RowsStay ==
  ASSUME TypeOK, Next, NEW e \in Events, status'[e] = "absent"
  PROVE  status[e] = "absent"
<1>. USE DEF TypeOK, SchedulingTypeOK
<1>1. CASE SchedulingNext /\ UNCHANGED deliveryVars
  BY <1>1 DEF SchedulingNext, EditEvent, Tick, CreateScheduledEvent,
     CancelScheduledEvent, RescheduleScheduledEvent,
     ChangeScheduledEventChannel, rowVars
<1>2. ASSUME NEW w \in Workers, ClaimWork(w) PROVE status[e] = "absent"
  BY <1>2, ClaimWorkCases DEF ClaimLocked, ReclaimLocked, schedulingVars
<1>3. ASSUME NEW w \in Workers, Work(w) PROVE status[e] = "absent"
  <2>1. CASE Record(w)
    <3>1. PICK c \in Current(w, "record") :
            status' = IF result[w].error = "QueueRetryable" THEN status
                      ELSE [status EXCEPT ![c.event] = result[w].status]
      BY <2>1 DEF Record
    <3>2. result[w].status # "absent"
      BY DEF Attempt
    <3>. QED BY <3>1, <3>2
  <2>2. CASE ~Record(w)
    BY <1>3, <2>2 DEF Work, GetWeather, WeatherFails, SendDemo, SendFails,
       SendReal, RecordFails, Crash, Proceed, schedulingVars
  <2>. QED BY <2>1, <2>2
<1>. QED BY <1>1, <1>2, <1>3 DEF Next

\* The inductive step of the type invariant.
LEMMA AdminNextType ==
  ASSUME AdminTypeOK, FormCounts, \A e \in Events : Numbered(e),
         [AdminNext]_adminVars
  PROVE  AdminTypeOK' /\ FormCounts'
<1>1. TypeOK'
  <2>1. CASE Next
    BY <2>1, NextType DEF AdminTypeOK
  <2>2. CASE UNCHANGED vars
    BY <2>2, NextType DEF AdminTypeOK
  <2>3. ASSUME NEW f \in Events, DeleteEvent(f) PROVE TypeOK'
    BY <2>3, EmptySeq DEF DeleteEvent, AdminTypeOK, TypeOK, SchedulingTypeOK,
       Statuses, workerVars
  <2>4. ASSUME NEW due \in Times, NEW ch \in Channels, SaveForm(due, ch)
        PROVE  TypeOK'
    BY <2>4 DEF SaveForm, AdminTypeOK, Form, TypeOK, SchedulingTypeOK, deliveryVars
  <2>. QED BY <2>1, <2>2, <2>3, <2>4 DEF AdminNext, SubmitForm, adminVars
<1>2. /\ form' \in Form \cup {NoForm}
      /\ deleted' \subseteq Deletable
      /\ saves' \in 0 .. MaxSaves
      /\ resets' \in [Events -> 0 .. saves']
      /\ disturbed' \subseteq Events
  <2>. USE AdminAssumption DEF AdminTypeOK
  <2>1. CASE UNCHANGED <<formVars, deleted>>
    BY <2>1 DEF formVars
  <2>2. ASSUME NEW f \in Events, SubmitForm(f)
        PROVE  /\ form' \in Form /\ UNCHANGED <<deleted, saves, resets, disturbed>>
    BY <2>2 DEF SubmitForm, Form, TypeOK, SchedulingTypeOK
  <2>3. ASSUME NEW f \in Events, DeleteEvent(f)
        PROVE  deleted' \subseteq Deletable /\ UNCHANGED formVars
    BY <2>3 DEF DeleteEvent
  <2>4. ASSUME NEW due \in Times, NEW ch \in Channels, SaveForm(due, ch)
        PROVE  /\ form' = NoForm /\ deleted' = deleted
               /\ saves' \in 0 .. MaxSaves
               /\ resets' \in [Events -> 0 .. saves']
               /\ disturbed' \subseteq Events
    <3>1. form \in Form /\ form.event \in Events /\ saves < MaxSaves
      BY <2>4 DEF SaveForm, Form, FormCounts
    <3>2. saves \in Nat /\ saves' = saves + 1 /\ saves' \in 0 .. MaxSaves
      BY <2>4, <3>1 DEF SaveForm
    <3>3. resets' \in {resets, [resets EXCEPT ![form.event] = @ + 1]}
      BY <2>4 DEF SaveForm
    <3>4. \A e \in Events : resets[e] \in 0 .. saves' /\ resets[e] + 1 \in 0 .. saves'
      BY <3>2
    <3>5. resets' \in [Events -> 0 .. saves']
      BY <3>3, <3>4
    <3>6. disturbed' \subseteq Events
      BY <2>4, <3>1 DEF SaveForm
    <3>. QED BY <2>4, <3>2, <3>5, <3>6 DEF SaveForm
  <2>. QED BY <2>1, <2>2, <2>3, <2>4 DEF AdminNext, formVars, adminVars
<1>3. ASSUME form' # NoForm PROVE status'[form'.event] # "absent"
  <2>1. CASE Next /\ UNCHANGED <<formVars, deleted>>
    BY <1>3, <2>1, RowsStay DEF AdminTypeOK, Form, formVars
  <2>2. ASSUME NEW f \in Events, SubmitForm(f) PROVE status'[form'.event] # "absent"
    BY <2>2 DEF SubmitForm, vars
  <2>3. ASSUME NEW f \in Events, DeleteEvent(f) PROVE status'[form'.event] # "absent"
    BY <1>3, <2>3 DEF DeleteEvent, formVars, AdminTypeOK, TypeOK, SchedulingTypeOK
  <2>4. CASE UNCHANGED adminVars
    BY <1>3, <2>4 DEF adminVars, vars, formVars, AdminTypeOK
  <2>. QED BY <1>3, <2>1, <2>2, <2>3, <2>4 DEF AdminNext, SaveForm
<1>4. ASSUME NEW e \in deleted' PROVE status'[e] = "absent" /\ attempts'[e] = <<>>
  <2>1. e \in Events
    BY <1>2, AdminAssumption
  <2>2. StepFor(e)
    BY <2>1, StepKinds
  <2>3. CASE e \in deleted
    <3>1. status[e] = "absent" /\ attempts[e] = <<>>
      BY <2>3 DEF AdminTypeOK
    <3>2. attempts'[e] = <<>>
      BY <2>2, <2>3, <3>1
         DEF StepFor, Kept, ClaimedBy, AcceptedFor, RecordedFor, Deleted
    <3>3. status'[e] = "absent"
      <4>1. CASE Next /\ KeysAreNew
        BY <2>3, <4>1 DEF KeysAreNew
      <4>2. ASSUME NEW f \in Events, SubmitForm(f) \/ DeleteEvent(f)
            PROVE  status'[e] = "absent"
        BY <2>1, <3>1, <4>2
           DEF SubmitForm, DeleteEvent, vars, AdminTypeOK, TypeOK, SchedulingTypeOK
      <4>3. ASSUME NEW due \in Times, NEW ch \in Channels, SaveForm(due, ch)
            PROVE  status'[e] = "absent"
        BY <2>1, <3>1, <4>3 DEF SaveForm, AdminTypeOK, TypeOK, SchedulingTypeOK
      <4>4. CASE UNCHANGED adminVars
        BY <3>1, <4>4 DEF adminVars, vars
      <4>. QED BY <4>1, <4>2, <4>3, <4>4 DEF AdminNext
    <3>. QED BY <3>2, <3>3
  <2>4. CASE e \notin deleted
    <3>1. DeleteEvent(e)
      BY <1>4, <2>4 DEF AdminNext, DeleteEvent, SaveForm, SubmitForm, adminVars
    <3>. QED BY <2>1, <3>1 DEF DeleteEvent, AdminTypeOK, TypeOK, SchedulingTypeOK
  <2>. QED BY <2>3, <2>4
<1>5. FormCounts'
  BY DEF FormCounts, AdminTypeOK, AdminNext, SubmitForm, DeleteEvent, SaveForm,
     formVars, adminVars
<1>. QED BY <1>1, <1>2, <1>3, <1>4, <1>5 DEF AdminTypeOK

\* Whatever happens to other events, a row left alone stays safe.
LEMMA BystanderSafe ==
  ASSUME AdminTypeOK, TypeOK', NEW e \in Events, EventSafe(e),
         UNCHANGED <<now, status[e], scheduledFor[e], channel[e], attempts[e],
                     calls[e], held, step, result>>
  PROVE  EventSafe(e)'
<1>1. RowKept(e) /\ NoNewClaim(e)
  BY TimeAssumption
     DEF RowKept, NoNewClaim, AdminTypeOK, TypeOK, SchedulingTypeOK, Times
<1>2. \A v \in Workers : \A c \in held'[v] : c.event = e => Truthful(v, c)'
  BY <1>1, TruthfulKept DEF EventSafe
<1>. QED BY <1>1, <1>2, EventKept DEF AdminTypeOK

\* A save that finds its event pending keeps it safe, and so does any other step.
LEMMA UndisturbedSafe ==
  ASSUME AdminTypeOK, TypeOK', NEW e \in Events, EventSafe(e),
         e \notin disturbed' \cup deleted', [AdminNext]_adminVars
  PROVE  EventSafe(e)'
<1>1. CASE Next
  BY <1>1, NextEventSafe DEF AdminTypeOK
<1>2. CASE UNCHANGED vars
  BY <1>2, NextEventSafe DEF AdminTypeOK
<1>3. ASSUME NEW f \in Events, DeleteEvent(f) PROVE EventSafe(e)'
  <2>1. e # f
    BY <1>3 DEF DeleteEvent
  <2>. QED BY <1>3, <2>1, BystanderSafe
           DEF DeleteEvent, workerVars, AdminTypeOK, TypeOK, SchedulingTypeOK
<1>4. ASSUME NEW due \in Times, NEW ch \in Channels, SaveForm(due, ch)
      PROVE  EventSafe(e)'
  <2>1. CASE e # form.event
    BY <1>4, <2>1, BystanderSafe
       DEF SaveForm, deliveryVars, AdminTypeOK, TypeOK, SchedulingTypeOK
  <2>2. CASE e = form.event
    <3>1. /\ status[e] = "scheduled" /\ form.status = "scheduled"
          /\ UNCHANGED <<now, deliveryVars>>
      BY <1>4, <2>2 DEF SaveForm
    <3>2. status'[e] = "scheduled"
      BY <1>4, <2>2, <3>1 DEF SaveForm, AdminTypeOK, TypeOK, SchedulingTypeOK
    <3>3. /\ attempts[e] = <<>> /\ calls[e] = <<>>
          /\ \A w \in Workers : \A c \in held[w] : c.event # e
      BY <3>1, PendingIsUntouched
    <3>4. /\ attempts'[e] = <<>> /\ calls'[e] = <<>>
          /\ \A w \in Workers : \A c \in held'[w] : c.event # e
      BY <3>1, <3>3 DEF deliveryVars
    <3>. QED BY <3>2, <3>4, EmptySeq
             DEF EventSafe, SubmissionMatches, AuditMatches, AttemptsMatch
  <2>. QED BY <2>1, <2>2
<1>. QED BY <1>1, <1>2, <1>3, <1>4 DEF AdminNext, SubmitForm, adminVars

\* Without rows there is one chance per event and nothing to be wrong.
LEMMA AdminInitInv == AdminInit => AdminInv
<1>. SUFFICES ASSUME AdminInit PROVE AdminInv
  OBVIOUS
<1>1. AdminTypeOK /\ FormCounts
  BY InitType, AdminAssumption
     DEF AdminInit, AdminTypeOK, FormCounts, NoForm
<1>2. \A e \in Events : EventSafe(e)
  BY InitSafe DEF AdminInit
<1>3. ASSUME NEW e \in Events PROVE Numbered(e) /\ Bounded(e) /\ Audited(e)
  <2>1. /\ attempts[e] = <<>> /\ calls[e] = <<>> /\ resets[e] = 0
        /\ \A w \in Workers : held[w] = {}
    BY <1>3 DEF AdminInit, Init
  <2>2. Len(calls[e]) = 0
    BY <2>1, EmptySeq
  <2>3. Numbered(e)
    BY <2>1 DEF Numbered
  <2>4. Unsent(e) = {}
    BY <2>1 DEF Unsent
  <2>5. IsFiniteSet(Unsent(e)) /\ Cardinality(Unsent(e)) = 0
    BY <2>4, FS_EmptySet
  <2>6. Chances(e) \in 0 .. 1
    BY <2>1 DEF Chances, LatestIs
  <2>7. Bounded(e)
    BY <2>1, <2>2, <2>5, <2>6 DEF Bounded
  <2>8. Audited(e)
    <3>1. IsFiniteSet(SentAttempts(e) \ Unsent(e))
      BY <1>1, HistoryIsFinite DEF SentAttempts, AdminTypeOK, TypeOK
    <3>2. Cardinality(SentAttempts(e) \ Unsent(e)) \in Nat
      BY <3>1, FS_CardinalityType
    <3>. QED BY <2>2, <3>2 DEF Audited
  <2>. QED BY <2>3, <2>7, <2>8
<1>. QED BY <1>1, <1>2, <1>3 DEF AdminInv

\* The inductive step of AdminInv.
LEMMA AdminNextInv == AdminInv /\ [AdminNext]_adminVars => AdminInv'
<1>. SUFFICES ASSUME AdminInv, [AdminNext]_adminVars PROVE AdminInv'
  OBVIOUS
<1>1. AdminTypeOK /\ FormCounts /\ TypeOK /\ \A e \in Events : Numbered(e)
  BY DEF AdminInv, AdminTypeOK
<1>2. AdminTypeOK' /\ FormCounts' /\ TypeOK'
  BY <1>1, AdminNextType DEF AdminTypeOK
<1>3. ASSUME NEW e \in Events PROVE (Numbered(e) /\ Bounded(e) /\ Audited(e))'
  <2>1. resets[e] \in Nat
    BY <1>1 DEF AdminTypeOK
  <2>2. StepFor(e)
    BY <1>1, StepKinds
  <2>. QED BY <1>1, <1>2, <2>1, <2>2, StepSafe DEF AdminInv
<1>4. ASSUME NEW e \in Events, e \notin disturbed' \cup deleted' PROVE EventSafe(e)'
  <2>1. e \notin disturbed \cup deleted
    BY <1>4 DEF AdminNext, SubmitForm, DeleteEvent, SaveForm, formVars, adminVars
  <2>2. EventSafe(e)
    BY <2>1 DEF AdminInv
  <2>. QED BY <1>1, <1>2, <1>4, <2>2, UndisturbedSafe
<1>. QED BY <1>2, <1>3, <1>4 DEF AdminInv

\* The inductive invariant of the workflow under the admin site.
THEOREM AdminInvariance == AdminSpec => []AdminInv
BY AdminInitInv, AdminNextInv, PTL DEF AdminSpec

\* A form is about a row that is there, a deleted event keeps neither status
\* nor attempts, and forms write only values that the columns can have.
THEOREM AdminTypeCorrect == AdminSpec => []AdminTypeOK
<1>1. AdminInv => AdminTypeOK
  BY DEF AdminInv
<1>. QED BY <1>1, AdminInvariance, PTL

\* However stale the rows that forms write back, the provider accepts at most
\* one request for each time the event was put in the scheduled state.
THEOREM SubmissionsAreBounded == AdminSpec => []OneSubmissionPerReset
<1>1. AdminInv => OneSubmissionPerReset
  <2>. SUFFICES ASSUME AdminInv, NEW e \in Events
                PROVE  Len(calls[e]) <= 1 + resets[e]
    BY DEF OneSubmissionPerReset
  <2>. DEFINE l == Len(calls[e])   u == Cardinality(Unsent(e))
              k == Chances(e)      r == resets[e]
  <2>1. l \in Nat /\ u \in Nat /\ k \in 0 .. 2 /\ r \in Nat
    BY ChancesType, FS_CardinalityType DEF AdminInv, AdminTypeOK, TypeOK, Bounded
  <2>2. l + u + k <= 1 + r
    BY DEF AdminInv, Bounded
  <2>3. l <= 1 + r
    <3>. HIDE DEF l, u, k, r
    <3>. QED BY <2>1, <2>2
  <2>. QED BY <2>3
<1>. QED BY <1>1, AdminInvariance, PTL

\* An event whose forms found it pending, whatever they wrote, and that is not
\* deleted keeps every guarantee of the workflow.
THEOREM PendingSavesKeepTheWorkflow == AdminSpec => []PendingSavesAreHarmless
<1>1. AdminInv => PendingSavesAreHarmless
  BY DEF AdminInv, PendingSavesAreHarmless, EventSafe
<1>. QED BY <1>1, AdminInvariance, PTL

\* Unless the event is deleted, every request accepted for it has an attempt of
\* its own that does not deny it.
THEOREM SubmissionsAreAudited == AdminSpec => []EverySubmissionIsAudited
<1>1. AdminInv => EverySubmissionIsAudited
  <2>. SUFFICES ASSUME AdminInv, NEW e \in Events, e \notin deleted
                PROVE  Len(calls[e]) <= Cardinality(SentAttempts(e))
    BY DEF EverySubmissionIsAudited
  <2>1. Len(calls[e]) <= Cardinality(SentAttempts(e) \ Unsent(e))
    BY DEF AdminInv, Audited
  <2>2. IsFiniteSet(SentAttempts(e))
    BY HistoryIsFinite DEF SentAttempts, AdminInv, AdminTypeOK, TypeOK
  <2>3. /\ Cardinality(SentAttempts(e)) \in Nat
        /\ Cardinality(SentAttempts(e) \ Unsent(e)) \in Nat
        /\ Cardinality(SentAttempts(e) \ Unsent(e)) <= Cardinality(SentAttempts(e))
    BY <2>2, SmallerSet
  <2>4. Len(calls[e]) \in Nat
    BY DEF AdminInv, AdminTypeOK, TypeOK
  <2>. QED BY <2>1, <2>3, <2>4
<1>. QED BY <1>1, AdminInvariance, PTL
=============================================================================
