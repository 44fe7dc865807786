----------------------------- MODULE ReplyProofs -----------------------------
(***************************************************************************)
(* Theorems about ReplyControls, for any users, events, calls, messages    *)
(* and handlers.                                                           *)
(***************************************************************************)
EXTENDS ReplyControls, TLAPS, FiniteSetTheorems, SequenceTheorems

-----------------------------------------------------------------------------
(* The invariant *)

Effect == [event : Events, outcome : Outcomes]

HistoryOK ==
  /\ effects \in [Keys -> Seq(Effect)]
  /\ replies \in [Keys -> SUBSET Outcomes]

\* A transaction works for a request that has no result yet, and alone.
Undecided(h) ==
  /\ record[request[h].key] = NoResult
  /\ \A g \in Handlers \ {h} : Active(g) => request[g].key # request[h].key

\* What a handler knows of the events of its user: they are the user's; while it
\* looks for one, those that are pending and were left alone are all in its
\* list, in order; then the one it found is still pending, and next.
Listed(h) ==
  \A i \in 1 .. Len(request[h].pending) :
    EventOwner[request[h].pending[i]] = request[h].user

Complete(h) ==
  \A f \in Events \ request[h].changed :
    EventOwner[f] = request[h].user /\ status[f] = "scheduled"
      => \E i \in 1 .. Len(request[h].pending) : request[h].pending[i] = f

Sorted(h) ==
  \A i, j \in 1 .. Len(request[h].pending) :
    /\ i < j
    /\ request[h].pending[i] \notin request[h].changed
    /\ request[h].pending[j] \notin request[h].changed
    => Before(request[h].pending[i], request[h].pending[j])

Found(h) ==
  LET e == Head(request[h].pending)
  IN  /\ request[h].pending # <<>>
      /\ status[e] = "scheduled"
      /\ e \in request[h].changed \/ EarlierPending(h) \subseteq request[h].changed

View(h) ==
  /\ Listed(h)
  /\ request[h].phase = "lock" => Complete(h) /\ Sorted(h)
  /\ request[h].phase = "apply" => Found(h)

\* No row is locked for two transactions.
LocksDisjoint ==
  \A g, h \in Handlers : g # h => request[g].locks \cap request[h].locks = {}

ReplyInv ==
  /\ ReplyTypeOK
  /\ HistoryOK
  /\ EffectsMatchRecord
  /\ \A k \in Keys : record[k] = NoResult => effects[k] = <<>>
  /\ \A h \in Handlers : Active(h) => Undecided(h) /\ View(h)
  /\ LocksDisjoint

-----------------------------------------------------------------------------
(* Requests *)

\* What the type invariant says of one handler.
LEMMA RequestType ==
  ASSUME ReplyTypeOK, NEW h \in Handlers
  PROVE  /\ Active(h) => request[h] \in Request
         /\ ~Active(h) => request[h] = NoRequest
         /\ request[h].locks \subseteq Events
<1>1. request[h] \in Request => request[h].phase \in {"lock", "apply"}
  BY DEF Request
<1>2. request[h] \in Request => request[h].locks \subseteq Events
  BY DEF Request
<1>3. NoRequest.phase = "idle" /\ NoRequest.locks = {}
  BY DEF NoRequest
<1>4. request[h] \in Request \cup {NoRequest}
  BY DEF ReplyTypeOK
<1>. QED BY <1>1, <1>2, <1>3, <1>4 DEF Active

\* A step that changes the rows of S and nothing else a handler sees.
Kept(h, S) ==
  request'[h] = IF Active(h) THEN [request[h] EXCEPT !.changed = @ \cup S] ELSE request[h]

KeptFields(h, S) ==
  /\ Active(h)' = Active(h)
  /\ request'[h] \in Request \cup {NoRequest}
  /\ request'[h].locks = request[h].locks
  /\ request'[h].phase = request[h].phase
  /\ Active(h) => /\ request'[h].key = request[h].key
                  /\ request'[h].user = request[h].user
                  /\ request'[h].pending = request[h].pending
                  /\ request'[h].changed = request[h].changed \cup S

\* A request whose list of changed rows grows keeps its other fields.
LEMMA KeptRequest ==
  ASSUME ReplyTypeOK, NEW h \in Handlers, NEW S \in SUBSET Events, Kept(h, S)
  PROVE  KeptFields(h, S)
<1>1. CASE Active(h)
  <2>1. request[h] \in Request
    BY <1>1, RequestType
  <2>2. request'[h] = [request[h] EXCEPT !.changed = @ \cup S]
    BY <1>1 DEF Kept
  <2>3. request'[h] \in Request
    BY <2>1, <2>2 DEF Request
  <2>. QED BY <1>1, <2>1, <2>2, <2>3 DEF KeptFields, Request, Active
<1>2. CASE ~Active(h)
  BY <1>2 DEF Kept, KeptFields, ReplyTypeOK, Active
<1>. QED BY <1>1, <1>2

OnlyRows(S) ==
  \A f \in Events \ S : status'[f] = status[f] /\ scheduledFor'[f] = scheduledFor[f]

\* A handler whose locked rows stay as they are keeps its view: what changed is
\* in its set of changed events, and its head, once it applies, is locked.
LEMMA KeptView ==
  ASSUME ReplyTypeOK, NEW h \in Handlers, Active(h), View(h),
         NEW S \in SUBSET Events, Kept(h, S), OnlyRows(S),
         S \cap request[h].locks = {}
  PROVE  View(h)'
<1>1. request[h] \in Request
  BY RequestType
<1>2. /\ request[h].pending \in Seq(Events)
      /\ request[h].changed \subseteq Events
      /\ Len(request[h].pending) \in Nat
      /\ \A i \in 1 .. Len(request[h].pending) : request[h].pending[i] \in Events
  BY <1>1, ElementOfSeq DEF Request
<1>3. /\ request'[h].phase = request[h].phase
      /\ request'[h].user = request[h].user
      /\ request'[h].pending = request[h].pending
      /\ request'[h].changed = request[h].changed \cup S
  BY KeptRequest DEF KeptFields
<1>4. \A e, f \in Events \ S : Before(e, f)' <=> Before(e, f)
  BY DEF OnlyRows, Before
<1>5. Listed(h)'
  BY <1>3 DEF View, Listed
<1>6. ASSUME request[h].phase = "lock" PROVE Complete(h)' /\ Sorted(h)'
  <2>1. Complete(h) /\ Sorted(h)
    BY <1>6 DEF View
  <2>2. Complete(h)'
    BY <1>3, <2>1 DEF Complete, OnlyRows
  <2>3. Sorted(h)'
    BY <1>2, <1>3, <1>4, <2>1 DEF Sorted
  <2>. QED BY <2>2, <2>3
<1>7. ASSUME request[h].phase = "apply" PROVE Found(h)'
  <2>. DEFINE e == Head(request[h].pending)
  <2>1. Found(h) /\ e \in request[h].locks
    BY <1>7 DEF View, ReplyTypeOK
  <2>2. e \in Events \ S
    <3>1. e \in Events
      BY <1>2, <2>1, HeadTailProperties DEF Found
    <3>. QED BY <2>1, <3>1
  <2>3. status'[e] = "scheduled"
    BY <2>1, <2>2 DEF Found, OnlyRows
  <2>4. e \in request'[h].changed \/ EarlierPending(h)' \subseteq request'[h].changed
    BY <1>3, <1>4, <2>1, <2>2 DEF Found, EarlierPending, OnlyRows
  <2>. QED BY <1>3, <2>1, <2>3, <2>4 DEF Found
<1>. QED BY <1>3, <1>5, <1>6, <1>7 DEF View
-----------------------------------------------------------------------------
(* Handlers *)

RequestsOK ==
  /\ request \in [Handlers -> Request \cup {NoRequest}]
  /\ \A h \in Handlers :
       request[h].phase = "apply" => Head(request[h].pending) \in request[h].locks
  /\ \A h \in Handlers : Active(h) => Undecided(h) /\ View(h)
  /\ LocksDisjoint

RecordsOK ==
  /\ record \in [Keys -> Result \cup {NoResult}]
  /\ HistoryOK
  /\ EffectsMatchRecord
  /\ \A k \in Keys : record[k] = NoResult => effects[k] = <<>>

\* The invariant, in the parts that the lemmas treat.
LEMMA InvParts == ReplyInv <=> SchedulingTypeOK /\ RequestsOK /\ RecordsOK
BY DEF ReplyInv, ReplyTypeOK, RequestsOK, RecordsOK

\* The rows of S change, none of them locked for another handler than h.
OthersKeep(h, S) ==
  /\ OnlyRows(S)
  /\ \A g \in Handlers \ {h} : Kept(g, S) /\ S \cap request[g].locks = {}

\* What handler h is after its step.
MovesTo(h) ==
  /\ request'[h] \in Request \cup {NoRequest}
  /\ \A g \in Handlers \ {h} : request'[h].locks \cap request[g].locks = {}
  /\ request'[h].phase = "apply"
       => Head(request'[h].pending) \in request'[h].locks
  /\ Active(h)' => /\ View(h)'
                   /\ record'[request'[h].key] = NoResult
                   /\ \A g \in Handlers \ {h} :
                        Active(g) => request[g].key # request'[h].key

\* A step of one handler, which decides no request but its own.
LEMMA OneMoves ==
  ASSUME ReplyInv, NEW h \in Handlers, NEW S \in SUBSET Events,
         OthersKeep(h, S), MovesTo(h),
         request' \in [Handlers -> Request \cup {NoRequest}],
         \A g \in Handlers \ {h} :
           Active(g) => record'[request[g].key] = record[request[g].key]
  PROVE  RequestsOK'
<1>1. \A g \in Handlers \ {h} : KeptFields(g, S)
  BY KeptRequest DEF OthersKeep, ReplyInv
<1>2. ASSUME NEW g \in Handlers \ {h}, Active(g)
      PROVE  View(g)' /\ request'[g].key = request[g].key
  BY <1>1, <1>2, KeptView DEF OthersKeep, ReplyInv, KeptFields
<1>3. ASSUME NEW f \in Handlers, request'[f].phase = "apply"
      PROVE  Head(request'[f].pending) \in request'[f].locks
  <2>1. CASE f = h
    BY <1>3, <2>1 DEF MovesTo
  <2>2. CASE f # h
    <3>1. request[f].phase = "apply" /\ Active(f)
      BY <1>1, <1>3, <2>2 DEF KeptFields, Active
    <3>. QED BY <1>1, <2>2, <3>1 DEF KeptFields, ReplyInv, ReplyTypeOK
  <2>. QED BY <2>1, <2>2
<1>4. ASSUME NEW f \in Handlers, Active(f)'
      PROVE  Undecided(f)' /\ View(f)'
  <2>1. \A g \in Handlers \ {h} : Active(g)' => Active(g)
    BY <1>1 DEF KeptFields
  <2>2. CASE f = h
    BY <1>2, <1>4, <2>1, <2>2 DEF MovesTo, Undecided
  <2>3. CASE f # h
    <3>1. Active(f) /\ Undecided(f)
      BY <1>4, <2>1, <2>3 DEF ReplyInv
    <3>2. \A g \in Handlers \ {f} : Active(g)' => request'[g].key # request'[f].key
      BY <1>2, <2>1, <2>3, <3>1 DEF MovesTo, Undecided
    <3>. QED BY <1>2, <2>3, <3>1, <3>2 DEF Undecided
  <2>. QED BY <2>2, <2>3
<1>5. LocksDisjoint'
  BY <1>1 DEF ReplyInv, LocksDisjoint, KeptFields, MovesTo
<1>. QED BY <1>3, <1>4, <1>5 DEF RequestsOK

\* Nobody's transaction moves; other processes change the rows of S.
LEMMA RowsChange ==
  ASSUME ReplyInv, NEW S \in SUBSET Events, OnlyRows(S), SchedulingTypeOK',
         request' \in [Handlers -> Request \cup {NoRequest}],
         \A h \in Handlers : Kept(h, S) /\ S \cap request[h].locks = {},
         UNCHANGED <<record, effects>>,
         replies' \in [Keys -> SUBSET Outcomes]
  PROVE  ReplyInv'
<1>1. \A h \in Handlers : KeptFields(h, S)
  BY KeptRequest DEF ReplyInv
<1>2. \A h \in Handlers : Active(h) => View(h)'
  BY KeptView DEF ReplyInv
<1>3. \A h \in Handlers : Active(h)' => Undecided(h)' /\ View(h)'
  BY <1>1, <1>2 DEF ReplyInv, Undecided, KeptFields
<1>4. LocksDisjoint'
  BY <1>1 DEF ReplyInv, LocksDisjoint, KeptFields
<1>5. ASSUME NEW h \in Handlers, request'[h].phase = "apply"
      PROVE  Head(request'[h].pending) \in request'[h].locks
  <2>1. request[h].phase = "apply" /\ Active(h)
    BY <1>1, <1>5 DEF KeptFields, Active
  <2>. QED BY <1>1, <2>1 DEF KeptFields, ReplyInv, ReplyTypeOK
<1>6. RequestsOK'
  BY <1>3, <1>4, <1>5 DEF RequestsOK
<1>7. RecordsOK'
  BY DEF ReplyInv, ReplyTypeOK, HistoryOK, RecordsOK, EffectsMatchRecord, OneEffect
<1>. QED BY <1>6, <1>7 DEF ReplyInv, ReplyTypeOK, RequestsOK, RecordsOK
-----------------------------------------------------------------------------
(* Steps of others *)

\* Noting a change of rows in the running transactions keeps their types.
LEMMA WithChangeKeeps ==
  ASSUME ReplyTypeOK, NEW S \in SUBSET Events
  PROVE  /\ WithChange(S) \in [Handlers -> Request \cup {NoRequest}]
         /\ \A h \in Handlers :
              WithChange(S)[h] = IF Active(h)
                                 THEN [request[h] EXCEPT !.changed = @ \cup S]
                                 ELSE request[h]
<1>1. ASSUME NEW h \in Handlers, Active(h)
      PROVE  [request[h] EXCEPT !.changed = @ \cup S] \in Request
  <2>1. request[h] \in Request
    BY <1>1, RequestType
  <2>. QED BY <2>1 DEF Request
<1>. QED BY <1>1 DEF WithChange, ReplyTypeOK

\* The services for users and staff keep the types of the rows.
LEMMA ServiceTypes ==
  ASSUME SchedulingTypeOK, NEW e \in Events,
         \/ \E due \in Times, ch \in Channels : CreateScheduledEvent(e, due, ch)
         \/ CancelScheduledEvent(e)
         \/ \E due \in Times : RescheduleScheduledEvent(e, due)
         \/ \E ch \in Channels : ChangeScheduledEventChannel(e, ch)
         \/ ClaimDueEvent(e)
  PROVE  SchedulingTypeOK' /\ OnlyRows({e})
BY DEF SchedulingTypeOK, Statuses, Terminal, OnlyRows, CreateScheduledEvent,
       CancelScheduledEvent, RescheduleScheduledEvent, ChangeScheduledEventChannel,
       ClaimDueEvent

\* A service that changes a row no handler has locked keeps the invariant.
LEMMA OthersChangeSafe ==
  ASSUME ReplyInv, NEW e \in Events, OthersChange(e)
  PROVE  ReplyInv'
<1>1. SchedulingTypeOK' /\ OnlyRows({e})
  BY ServiceTypes, ReplyAssumption DEF OthersChange, ReplyInv, ReplyTypeOK
<1>2. \A h \in Handlers : Kept(h, {e}) /\ {e} \cap request[h].locks = {}
  BY WithChangeKeeps DEF OthersChange, Kept, ReplyInv
<1>3. request' \in [Handlers -> Request \cup {NoRequest}]
  BY WithChangeKeeps DEF OthersChange, ReplyInv
<1>4. replies' \in [Keys -> SUBSET Outcomes] /\ UNCHANGED <<record, effects>>
  BY DEF OthersChange, ReplyInv, HistoryOK
<1>. QED BY <1>1, <1>2, <1>3, <1>4, RowsChange

\* Nothing that handlers see changes.
LEMMA QuietSafe ==
  ASSUME ReplyInv, SchedulingTypeOK',
         UNCHANGED <<status, scheduledFor, record, request, effects>>,
         replies' \in [Keys -> SUBSET Outcomes]
  PROVE  ReplyInv'
<1>1. ASSUME NEW h \in Handlers PROVE Kept(h, {})
  <2>1. Active(h) => [request[h] EXCEPT !.changed = @ \cup {}] = request[h]
    <3>1. Active(h) => request[h] \in Request
      BY RequestType DEF ReplyInv
    <3>. QED BY <3>1 DEF Request
  <2>. QED BY <2>1 DEF Kept
<1>2. OnlyRows({})
  BY DEF OnlyRows
<1>3. request' \in [Handlers -> Request \cup {NoRequest}]
  BY DEF ReplyInv, ReplyTypeOK
<1>4. \A h \in Handlers : Kept(h, {}) /\ {} \cap request[h].locks = {}
  BY <1>1
<1>. QED BY <1>2, <1>3, <1>4, RowsChange

\* So does the clock.
LEMMA ClockSafe ==
  ASSUME ReplyInv, Clock
  PROVE  ReplyInv'
<1>1. SchedulingTypeOK'
  BY TimeAssumption DEF Clock, Tick, rowVars, ReplyInv, ReplyTypeOK, SchedulingTypeOK, Times
<1>. QED
  BY <1>1, QuietSafe DEF Clock, Tick, rowVars, handlerVars, ReplyInv, HistoryOK

\* So does the answer to a request that was decided before.
LEMMA ReplaySafe ==
  ASSUME ReplyInv, NEW k \in Keys, Replay(k), UNCHANGED schedulingVars
  PROVE  ReplyInv'
<1>1. record[k].outcome \in Outcomes
  <2>1. record[k] \in Result
    BY DEF Replay, ReplyInv, ReplyTypeOK
  <2>. QED BY <2>1 DEF Result
<1>2. SchedulingTypeOK'
  BY DEF schedulingVars, ReplyInv, ReplyTypeOK, SchedulingTypeOK
<1>3. replies' \in [Keys -> SUBSET Outcomes]
  BY <1>1 DEF Replay, Reply, ReplyInv, HistoryOK
<1>. QED BY <1>2, <1>3, QuietSafe DEF Replay, schedulingVars

-----------------------------------------------------------------------------
(* Steps of a handler *)

\* A handler that a step leaves alone is as it was.
LEMMA KeptUnchanged ==
  ASSUME ReplyTypeOK, NEW g \in Handlers, request'[g] = request[g]
  PROVE  Kept(g, {})
<1>1. Active(g) => [request[g] EXCEPT !.changed = @ \cup {}] = request[g]
  <2>1. Active(g) => request[g] \in Request
    BY RequestType
  <2>. QED BY <2>1 DEF Request
<1>. QED BY <1>1 DEF Kept

\* A handler moves alone while rows stay as they are.
LEMMA MovesAlone ==
  ASSUME ReplyInv, NEW h \in Handlers, NEW r \in Request \cup {NoRequest},
         request' = [request EXCEPT ![h] = r], UNCHANGED <<status, scheduledFor>>
  PROVE  /\ OthersKeep(h, {})
         /\ request' \in [Handlers -> Request \cup {NoRequest}]
         /\ request'[h] = r
<1>1. /\ request' \in [Handlers -> Request \cup {NoRequest}]
      /\ request'[h] = r
      /\ \A g \in Handlers \ {h} : request'[g] = request[g]
  BY DEF ReplyInv, ReplyTypeOK
<1>. QED BY <1>1, KeptUnchanged DEF OthersKeep, OnlyRows, ReplyInv

\* A handler may always end, with all its locks given back.
LEMMA IdleMove ==
  ASSUME NEW h \in Handlers, request'[h] = NoRequest
  PROVE  MovesTo(h)
<1>1. NoRequest.phase = "idle" /\ NoRequest.locks = {}
  BY DEF NoRequest
<1>. QED BY <1>1 DEF MovesTo, Active

\* A transaction that is rolled back leaves the invariant.
LEMMA RollbackSafe ==
  ASSUME ReplyInv, NEW h \in Handlers, Rollback(h)
  PROVE  ReplyInv'
<1>1. OthersKeep(h, {}) /\ request'[h] = NoRequest
      /\ request' \in [Handlers -> Request \cup {NoRequest}]
  BY MovesAlone DEF Rollback, schedulingVars
<1>2. RequestsOK'
  BY <1>1, IdleMove, OneMoves DEF Rollback
<1>3. RecordsOK'
  BY InvParts DEF Rollback, RecordsOK, HistoryOK, EffectsMatchRecord, OneEffect
<1>4. SchedulingTypeOK'
  BY InvParts DEF Rollback, schedulingVars, SchedulingTypeOK
<1>. QED BY <1>2, <1>3, <1>4 DEF ReplyInv, ReplyTypeOK, RequestsOK, RecordsOK
\* An SMS without an event to change: its handler was idle and stays so.
LEMMA RefuseSafe ==
  ASSUME ReplyInv, NEW h \in Handlers, NEW k \in Keys, NEW outcome \in Outcomes,
         outcome \notin {"cancelled", "switched_to_sms", "rescheduled"},
         ~Active(h), KeyIsFree(k), Refuse(k, outcome), UNCHANGED schedulingVars
  PROVE  ReplyInv'
<1>. DEFINE result == [outcome |-> outcome, target |-> 0]
<1>1. result \in Result /\ result # NoResult /\ result.outcome = outcome
  BY DEF Result, NoResult, Outcomes
<1>2. /\ record' \in [Keys -> Result \cup {NoResult}]
      /\ record'[k] = result
      /\ \A j \in Keys \ {k} : record'[j] = record[j]
  BY <1>1 DEF Refuse, ReplyInv, ReplyTypeOK
<1>3. request[h] = NoRequest /\ request' = request
  BY RequestType DEF ReplyInv, Refuse
<1>4. OthersKeep(h, {})
  BY <1>3, KeptUnchanged DEF OthersKeep, OnlyRows, schedulingVars, ReplyInv
<1>5. \A g \in Handlers : Active(g) => request[g].key \in Keys \ {k}
  BY RequestType DEF KeyIsFree, Request, ReplyInv
<1>6. MovesTo(h)
  BY <1>3, IdleMove
<1>7. RequestsOK'
  BY <1>2, <1>3, <1>4, <1>5, <1>6, OneMoves DEF ReplyInv, ReplyTypeOK
<1>8. effects' = effects /\ effects[k] = <<>>
  BY DEF Refuse, ReplyInv
<1>9. RecordsOK'
  <2>1. HistoryOK'
    BY DEF Refuse, Reply, ReplyInv, HistoryOK
  <2>2. EffectsMatchRecord'
    BY <1>1, <1>2, <1>8 DEF ReplyInv, EffectsMatchRecord, OneEffect
  <2>3. \A j \in Keys : record'[j] = NoResult => effects'[j] = <<>>
    BY <1>1, <1>2, <1>8 DEF ReplyInv
  <2>. QED BY <1>2, <2>1, <2>2, <2>3 DEF RecordsOK
<1>10. SchedulingTypeOK'
  BY DEF schedulingVars, ReplyInv, ReplyTypeOK, SchedulingTypeOK
<1>. QED BY <1>7, <1>9, <1>10 DEF ReplyInv, ReplyTypeOK, RequestsOK, RecordsOK

\* The ordered query returns every pending event of the user once, in order.
LEMMA SnapshotFacts ==
  ASSUME SchedulingTypeOK, NEW user \in Users, NEW s \in Snapshots(user)
  PROVE  /\ s \in Seq(Events)
         /\ \A i \in 1 .. Len(s) : EventOwner[s[i]] = user
         /\ \A f \in PendingOf(user) : \E i \in 1 .. Len(s) : s[i] = f
         /\ \A i, j \in 1 .. Len(s) : i < j => Before(s[i], s[j])
<1>. DEFINE P == PendingOf(user)
            n == Cardinality(P)
<1>1. P \subseteq Events
  BY DEF PendingOf
<1>2. n \in Nat
  BY <1>1, ReplyAssumption, FS_Subset, FS_CardinalityType
<1>3. s \in [1 .. n -> P]
  BY DEF Snapshots, Listings
<1>4. s \in Seq(P) /\ Len(s) = n /\ DOMAIN s = 1 .. Len(s)
  <2>1. s \in Seq(P)
    BY <1>2, <1>3, SeqDef
  <2>. HIDE DEF P
  <2>2. Len(s) \in Nat /\ DOMAIN s = 1 .. Len(s)
    BY <2>1, LenProperties
  <2>. QED BY <1>2, <1>3, <2>1, <2>2
<1>5. s \in Seq(Events)
  BY <1>1, <1>4, SeqMonotonic
<1>6. \A i \in 1 .. Len(s) : EventOwner[s[i]] = user
  BY <1>3, <1>4 DEF PendingOf
<1>7. \A f \in P : \E i \in 1 .. Len(s) : s[i] = f
  BY <1>4 DEF Snapshots, Listings
<1>8. \A i, j \in 1 .. Len(s) : i < j => Before(s[i], s[j])
  BY <1>4 DEF Snapshots
<1>. QED BY <1>5, <1>6, <1>7, <1>8

\* A handler that starts has read every pending row of the user, in order.
LEMMA StartSafe ==
  ASSUME ReplyInv, NEW h \in Handlers, NEW k \in Keys, NEW user \in Users,
         NEW command \in Command, ~Active(h), KeyIsFree(k),
         Start(h, k, user, command), UNCHANGED schedulingVars
  PROVE  ReplyInv'
<1>1. PICK s \in Snapshots(user) :
        request' = [request EXCEPT ![h] =
                      [phase |-> "lock", key |-> k, user |-> user,
                       command |-> command, pending |-> s,
                       locks |-> {}, changed |-> {}]]
  BY DEF Start
<1>. DEFINE r == [phase |-> "lock", key |-> k, user |-> user,
                  command |-> command, pending |-> s,
                  locks |-> {}, changed |-> {}]
<1>2. /\ s \in Seq(Events)
      /\ \A i \in 1 .. Len(s) : EventOwner[s[i]] = user
      /\ \A f \in PendingOf(user) : \E i \in 1 .. Len(s) : s[i] = f
      /\ \A i, j \in 1 .. Len(s) : i < j => Before(s[i], s[j])
  BY SnapshotFacts DEF ReplyInv, ReplyTypeOK
<1>3. r \in Request
  BY <1>2 DEF Request
<1>4. OthersKeep(h, {}) /\ request'[h] = r
      /\ request' \in [Handlers -> Request \cup {NoRequest}]
  BY <1>1, <1>3, MovesAlone DEF schedulingVars
<1>5. View(h)'
  <2>1. Listed(h)'
    BY <1>2, <1>4 DEF Listed
  <2>2. Complete(h)'
    BY <1>2, <1>4 DEF Complete, PendingOf, schedulingVars
  <2>3. Sorted(h)'
    BY <1>2, <1>4 DEF Sorted, Before, schedulingVars
  <2>. QED BY <1>4, <2>1, <2>2, <2>3 DEF View
<1>6. MovesTo(h)
  BY <1>3, <1>4, <1>5 DEF MovesTo, Start, KeyIsFree
<1>7. RequestsOK'
  BY <1>4, <1>6, OneMoves DEF Start
<1>8. RecordsOK'
  BY InvParts DEF Start, RecordsOK, HistoryOK, EffectsMatchRecord, OneEffect
<1>9. SchedulingTypeOK'
  BY DEF schedulingVars, ReplyInv, ReplyTypeOK, SchedulingTypeOK
<1>. QED BY <1>7, <1>8, <1>9 DEF ReplyInv, ReplyTypeOK, RequestsOK, RecordsOK
-----------------------------------------------------------------------------
(* Selecting the event *)

\* The order of the query has no cycles of two.
LEMMA BeforeAntisymmetric ==
  ASSUME SchedulingTypeOK, NEW e \in Events, NEW f \in Events, Before(e, f)
  PROVE  ~Before(f, e)
BY EventsAssumption, TimeAssumption DEF SchedulingTypeOK, Times, Before

\* The row is no longer pending: the rest of the list still holds every pending
\* event that was left alone.
LEMMA PassOver ==
  ASSUME ReplyInv, NEW h \in Handlers, View(h), request[h] \in Request,
         request[h].phase = "lock", request[h].pending # <<>>,
         ~StillMatches(Head(request[h].pending)),
         request'[h].phase = "lock",
         request'[h].user = request[h].user,
         request'[h].changed = request[h].changed,
         request'[h].pending = Tail(request[h].pending),
         UNCHANGED <<status, scheduledFor>>
  PROVE  View(h)'
<1>. DEFINE p == request[h].pending
            q == request'[h].pending
<1>1. p \in Seq(Events) /\ p # <<>>
  BY DEF Request
<1>2. /\ q \in Seq(Events)
      /\ Len(p) \in Nat /\ Len(q) \in Nat
      /\ Len(q) = Len(p) - 1
      /\ \A i \in 1 .. Len(q) : q[i] = p[i + 1]
  BY <1>1, HeadTailProperties, LenProperties
<1>3. Head(p) = p[1]
  BY <1>1
<1>4. Listed(h) /\ Complete(h) /\ Sorted(h)
  BY DEF View
<1>5. Listed(h)'
  BY <1>2, <1>4 DEF Listed
<1>6. ASSUME NEW f \in Events \ request[h].changed,
             EventOwner[f] = request[h].user, status[f] = "scheduled"
      PROVE  \E i \in 1 .. Len(q) : q[i] = f
  <2>1. PICK i \in 1 .. Len(p) : p[i] = f
    BY <1>4, <1>6 DEF Complete
  <2>2. i # 1
    BY <1>3, <1>6, <2>1 DEF StillMatches
  <2>3. i - 1 \in 1 .. Len(q) /\ q[i - 1] = f
    BY <1>2, <2>1, <2>2
  <2>. QED BY <2>3
<1>7. Complete(h)'
  BY <1>6 DEF Complete
<1>8. Sorted(h)'
  <2>1. SUFFICES ASSUME NEW i \in 1 .. Len(q), NEW j \in 1 .. Len(q), i < j,
                        q[i] \notin request[h].changed,
                        q[j] \notin request[h].changed
                 PROVE  Before(q[i], q[j])
    BY DEF Sorted, Before
  <2>2. /\ i + 1 \in 1 .. Len(p) /\ j + 1 \in 1 .. Len(p) /\ i + 1 < j + 1
        /\ q[i] = p[i + 1] /\ q[j] = p[j + 1]
    BY <1>2, <2>1
  <2>3. Before(p[i + 1], p[j + 1])
    BY <1>4, <2>1, <2>2 DEF Sorted
  <2>. QED BY <2>2, <2>3
<1>. QED BY <1>5, <1>7, <1>8 DEF View

\* The row is still pending: of the events that were left alone, and so are all
\* in the list and in order, none comes before its head.
LEMMA Select ==
  ASSUME ReplyInv, NEW h \in Handlers, View(h), request[h] \in Request,
         request[h].phase = "lock", request[h].pending # <<>>,
         StillMatches(Head(request[h].pending)),
         request'[h].phase = "apply",
         request'[h].user = request[h].user,
         request'[h].changed = request[h].changed,
         request'[h].pending = <<Head(request[h].pending)>>,
         UNCHANGED <<status, scheduledFor>>
  PROVE  View(h)'
<1>. DEFINE p == request[h].pending
            e == Head(p)
<1>1. p \in Seq(Events) /\ p # <<>> /\ Len(p) \in Nat \ {0} /\ e = p[1] /\ e \in Events
  <2>1. p \in Seq(Events) /\ p # <<>>
    BY DEF Request
  <2>. QED BY <2>1, EmptySeq, HeadTailProperties
<1>2. Listed(h) /\ Complete(h) /\ Sorted(h)
  BY DEF View
<1>3. ASSUME e \notin request[h].changed, NEW f \in EarlierPending(h)
      PROVE  f \in request[h].changed
  <2>1. SUFFICES ASSUME f \notin request[h].changed PROVE FALSE
    OBVIOUS
  <2>2. f \in Events /\ Before(f, e)
    BY DEF EarlierPending
  <2>3. PICK i \in 1 .. Len(p) : p[i] = f
    BY <1>2, <2>1 DEF EarlierPending, Complete
  <2>4. CASE i = 1
    BY <1>1, <2>2, <2>3, <2>4, BeforeAntisymmetric DEF ReplyInv, ReplyTypeOK
  <2>5. CASE i > 1
    <3>1. Before(p[1], p[i])
      BY <1>1, <1>2, <1>3, <2>1, <2>3, <2>5 DEF Sorted
    <3>. QED
      BY <1>1, <2>2, <2>3, <3>1, BeforeAntisymmetric DEF ReplyInv, ReplyTypeOK
  <2>. QED BY <1>1, <2>4, <2>5
<1>4. Head(request'[h].pending) = e /\ request'[h].pending # <<>>
  OBVIOUS
<1>5. Listed(h)'
  BY <1>1, <1>2 DEF Listed
<1>6. Found(h)'
  BY <1>3, <1>4 DEF Found, EarlierPending, StillMatches, Before
<1>. QED BY <1>5, <1>6 DEF View

\* Locking the next row, or passing over one that is pending no more, keeps the invariant.
LEMMA LockNextSafe ==
  ASSUME ReplyInv, NEW h \in Handlers, LockNext(h)
  PROVE  ReplyInv'
<1>. DEFINE p == request[h].pending
            e == Head(p)
            r == [request[h] EXCEPT
                    !.locks = @ \cup {e},
                    !.phase = IF StillMatches(e) THEN "apply" ELSE "lock",
                    !.pending = IF StillMatches(e) THEN <<e>> ELSE Tail(@)]
<1>1. Active(h) /\ request[h].phase = "lock" /\ p # <<>>
  BY DEF LockNext, Active
<1>2. request[h] \in Request /\ View(h) /\ Undecided(h)
  BY <1>1, RequestType DEF ReplyInv
<1>3. e \in Events /\ Tail(p) \in Seq(Events) /\ <<e>> \in Seq(Events)
  <2>1. p \in Seq(Events)
    BY <1>2 DEF Request
  <2>2. e \in Events /\ Tail(p) \in Seq(Events)
    BY <1>1, <2>1, HeadTailProperties
  <2>. QED BY <2>2
<1>4. r \in Request
  BY <1>2, <1>3 DEF Request
<1>5. /\ r.locks = request[h].locks \cup {e}
      /\ r.key = request[h].key /\ r.user = request[h].user
      /\ r.changed = request[h].changed
      /\ r.phase = IF StillMatches(e) THEN "apply" ELSE "lock"
      /\ r.pending = IF StillMatches(e) THEN <<e>> ELSE Tail(p)
  BY <1>2 DEF Request
<1>6. OthersKeep(h, {}) /\ request'[h] = r
      /\ request' \in [Handlers -> Request \cup {NoRequest}]
  <2>1. request' = [request EXCEPT ![h] = r]
    BY <1>2 DEF LockNext, Request, ReplyInv, ReplyTypeOK
  <2>. HIDE DEF r
  <2>. QED BY <1>4, <2>1, MovesAlone DEF LockNext, schedulingVars
<1>. HIDE DEF r
<1>7. View(h)'
  <2>1. CASE StillMatches(e)
    BY <1>1, <1>2, <1>5, <1>6, <2>1, Select DEF LockNext, schedulingVars
  <2>2. CASE ~StillMatches(e)
    BY <1>1, <1>2, <1>5, <1>6, <2>2, PassOver DEF LockNext, schedulingVars
  <2>. QED BY <2>1, <2>2
<1>8. \A g \in Handlers \ {h} : r.locks \cap request[g].locks = {}
  BY <1>5 DEF LockNext, LockedFor, ReplyInv, LocksDisjoint
<1>9. r.phase = "apply" => Head(r.pending) \in r.locks
  <2>1. r.phase = "apply" => r.pending = <<e>>
    BY <1>5
  <2>2. Head(<<e>>) = e
    BY <1>3
  <2>. QED BY <1>5, <2>1, <2>2
<1>10. MovesTo(h)
  BY <1>2, <1>4, <1>5, <1>6, <1>7, <1>8, <1>9 DEF MovesTo, Undecided, LockNext
<1>11. RequestsOK'
  BY <1>6, <1>10, OneMoves DEF LockNext
<1>12. RecordsOK'
  BY InvParts DEF LockNext, RecordsOK, HistoryOK, EffectsMatchRecord, OneEffect
<1>13. SchedulingTypeOK'
  BY DEF LockNext, schedulingVars, ReplyInv, ReplyTypeOK, SchedulingTypeOK
<1>. QED BY <1>11, <1>12, <1>13 DEF ReplyInv, ReplyTypeOK, RequestsOK, RecordsOK
-----------------------------------------------------------------------------
(* The end of a transaction *)

Changes == {"cancelled", "switched_to_sms", "rescheduled"}

\* The result is stored with the one effect it names, or with none, for a request
\* that had no result and no effect.
LEMMA CommitSafe ==
  ASSUME ReplyInv, NEW h \in Handlers, Active(h),
         NEW outcome \in Outcomes, NEW target \in Events \cup {0},
         NEW S \in SUBSET Events, Commit(h, outcome, target, S),
         S = {} => outcome \notin Changes,
         S # {} => target \in Events,
         OnlyRows(S), SchedulingTypeOK',
         \A g \in Handlers \ {h} : S \cap request[g].locks = {}
  PROVE  ReplyInv'
<1>. DEFINE k == request[h].key
            result == [outcome |-> outcome, target |-> target]
            effect == [event |-> target, outcome |-> outcome]
<1>1. request[h] \in Request /\ k \in Keys /\ Undecided(h)
  <2>1. request[h] \in Request
    BY RequestType DEF ReplyInv
  <2>. QED BY <2>1 DEF Request, ReplyInv
<1>2. /\ result \in Result /\ result # NoResult
      /\ result.outcome = outcome /\ result.target = target
  BY DEF Result, NoResult, Outcomes
<1>3. /\ record' \in [Keys -> Result \cup {NoResult}]
      /\ record'[k] = result
      /\ \A j \in Keys \ {k} : record'[j] = record[j]
  BY <1>1, <1>2 DEF Commit, ReplyInv, ReplyTypeOK
<1>4. /\ request' \in [Handlers -> Request \cup {NoRequest}]
      /\ request'[h] = NoRequest
      /\ \A g \in Handlers \ {h} : Kept(g, S)
  BY WithChangeKeeps DEF Commit, Kept, ReplyInv
<1>5. \A g \in Handlers \ {h} : Active(g) => request[g].key \in Keys \ {k}
  <2>1. \A g \in Handlers : Active(g) => request[g].key \in Keys
    BY RequestType DEF Request, ReplyInv
  <2>. QED BY <1>1, <2>1 DEF Undecided
<1>6. RequestsOK'
  <2>1. OthersKeep(h, S)
    BY <1>4 DEF OthersKeep
  <2>2. MovesTo(h)
    BY <1>4, IdleMove
  <2>. QED BY <1>3, <1>4, <1>5, <2>1, <2>2, OneMoves
<1>7. effects[k] = <<>>
  BY <1>1 DEF Undecided, ReplyInv
<1>8. /\ effects' \in [Keys -> Seq(Effect)]
      /\ \A j \in Keys \ {k} : effects'[j] = effects[j]
      /\ effects'[k] = IF S = {} THEN <<>> ELSE <<effect>>
  <2>1. CASE S = {}
    BY <1>7, <2>1 DEF Commit, ReplyInv, HistoryOK
  <2>2. CASE S # {}
    <3>1. effect \in Effect
      BY <2>2 DEF Effect
    <3>2. effects' = [effects EXCEPT ![k] = Append(effects[k], effect)]
      BY <2>2 DEF Commit
    <3>3. Append(effects[k], effect) = <<effect>>
      BY <1>7
    <3>4. <<effect>> \in Seq(Effect)
      BY <3>1
    <3>. QED BY <1>1, <2>2, <3>2, <3>3, <3>4 DEF ReplyInv, HistoryOK
  <2>. QED BY <2>1, <2>2
<1>9. RecordsOK'
  <2>1. HistoryOK'
    BY <1>8 DEF Commit, Reply, ReplyInv, HistoryOK
  <2>2. ASSUME NEW j \in Keys PROVE OneEffect(j)'
    <3>1. CASE j # k
      BY <1>3, <1>8, <3>1 DEF ReplyInv, EffectsMatchRecord, OneEffect
    <3>2. CASE j = k /\ S = {}
      BY <1>2, <1>3, <1>8, <3>2 DEF OneEffect, Changes
    <3>3. CASE j = k /\ S # {}
      <4>1. effects'[j] = <<effect>> /\ record'[j] = result
        BY <1>3, <1>8, <3>3
      <4>. QED BY <1>2, <4>1 DEF OneEffect
    <3>. QED BY <3>1, <3>2, <3>3
  <2>3. EffectsMatchRecord'
    BY <2>2 DEF EffectsMatchRecord
  <2>4. \A j \in Keys : record'[j] = NoResult => effects'[j] = <<>>
    BY <1>2, <1>3, <1>8 DEF ReplyInv
  <2>. QED BY <1>3, <2>1, <2>3, <2>4 DEF RecordsOK
<1>. QED BY <1>6, <1>9 DEF ReplyInv, ReplyTypeOK, RequestsOK, RecordsOK

\* Recording that nothing was pending keeps it.
LEMMA NoPendingEventSafe ==
  ASSUME ReplyInv, NEW h \in Handlers, NoPendingEvent(h)
  PROVE  ReplyInv'
<1>1. Active(h) /\ OnlyRows({}) /\ SchedulingTypeOK'
  BY DEF NoPendingEvent, Active, OnlyRows, schedulingVars, ReplyInv, ReplyTypeOK,
         SchedulingTypeOK
<1>2. "no_pending_event" \in Outcomes \ Changes
  BY DEF Outcomes, Changes
<1>. QED BY <1>1, <1>2, CommitSafe DEF NoPendingEvent

\* What a handler that applies its command has at hand.
LEMMA ApplyFacts ==
  ASSUME ReplyInv, NEW h \in Handlers, request[h].phase = "apply"
  PROVE  LET e == Head(request[h].pending)
         IN  /\ Active(h) /\ e \in Events
             /\ request[h].command \in Command /\ request[h].key \in Keys
             /\ record[request[h].key] = NoResult
             /\ effects[request[h].key] = <<>>
             /\ \A g \in Handlers \ {h} : {e} \cap request[g].locks = {}
<1>1. Active(h)
  BY DEF Active
<1>2. request[h] \in Request /\ Undecided(h)
  BY <1>1, RequestType DEF ReplyInv
<1>3. /\ Head(request[h].pending) \in Events
      /\ Head(request[h].pending) \in request[h].locks
  BY RequestType DEF ReplyInv, ReplyTypeOK
<1>4. \A g \in Handlers \ {h} : request[g].locks \cap request[h].locks = {}
  BY DEF ReplyInv, LocksDisjoint
<1>. QED BY <1>1, <1>2, <1>3, <1>4 DEF Request, Undecided, ReplyInv

\* Applying the command and committing keeps it.
LEMMA ApplyCommandSafe ==
  ASSUME ReplyInv, NEW h \in Handlers, ApplyCommand(h)
  PROVE  ReplyInv'
<1>. DEFINE e == Head(request[h].pending)
            command == request[h].command
<1>1. request[h].phase = "apply"
  BY DEF ApplyCommand
<1>2. /\ Active(h) /\ e \in Events /\ command \in Command
      /\ \A g \in Handlers \ {h} : {e} \cap request[g].locks = {}
  BY <1>1, ApplyFacts
<1>3. {"cancelled", "switched_to_sms", "rescheduled", "invalid_time"} \subseteq Outcomes
  BY DEF Outcomes
<1>4. CASE command.name = "stop" /\ CancelScheduledEvent(e) /\ Commit(h, "cancelled", e, {e})
  <2>1. SchedulingTypeOK' /\ OnlyRows({e})
    BY <1>2, <1>4, ServiceTypes DEF ReplyInv, ReplyTypeOK
  <2>. QED BY <1>2, <1>3, <1>4, <2>1, CommitSafe
<1>5. CASE /\ command.name = "sms"
           /\ ChangeScheduledEventChannel(e, "sms")
           /\ Commit(h, "switched_to_sms", e, {e})
  <2>1. SchedulingTypeOK' /\ OnlyRows({e})
    BY <1>2, <1>5, ServiceTypes DEF ReplyInv, ReplyTypeOK, Channels
  <2>. QED BY <1>2, <1>3, <1>5, <2>1, CommitSafe
<1>6. CASE /\ command.name = "time"
           /\ RescheduleScheduledEvent(e, command.due)
           /\ Commit(h, "rescheduled", e, {e})
  <2>1. command.due \in Times
    BY <1>2, <1>6, ReplyAssumption DEF Command
  <2>2. SchedulingTypeOK' /\ OnlyRows({e})
    BY <1>2, <1>6, <2>1, ServiceTypes DEF ReplyInv, ReplyTypeOK
  <2>. QED BY <1>2, <1>3, <1>6, <2>2, CommitSafe
<1>7. CASE Commit(h, "invalid_time", e, {}) /\ UNCHANGED schedulingVars
  <2>1. SchedulingTypeOK' /\ OnlyRows({})
    BY <1>7 DEF schedulingVars, OnlyRows, ReplyInv, ReplyTypeOK, SchedulingTypeOK
  <2>2. "invalid_time" \notin Changes
    BY DEF Changes
  <2>. QED BY <1>2, <1>3, <1>7, <2>1, <2>2, CommitSafe
<1>. QED BY <1>4, <1>5, <1>6, <1>7 DEF ApplyCommand
-----------------------------------------------------------------------------
(* Safety *)

\* The invariant of the replies holds at the start.
LEMMA InitReply == ReplyInit => ReplyInv
<1>. SUFFICES ASSUME ReplyInit PROVE ReplyInv
  OBVIOUS
<1>1. NoRequest.phase = "idle" /\ NoRequest.locks = {}
  BY DEF NoRequest
<1>2. ReplyTypeOK
  BY <1>1, EventsAssumption, TimeAssumption
     DEF ReplyInit, SchedulingInit, ReplyTypeOK, SchedulingTypeOK, Times, Statuses, Channels
<1>3. HistoryOK
  BY DEF ReplyInit, HistoryOK
<1>4. EffectsMatchRecord
  <2>1. NoResult.outcome = "none"
    BY DEF NoResult
  <2>. QED BY <2>1 DEF ReplyInit, EffectsMatchRecord, OneEffect
<1>. QED
  BY <1>1, <1>2, <1>3, <1>4 DEF ReplyInit, ReplyInv, Active, LocksDisjoint

\* The start of either handler keeps it.
LEMMA CallbackSafe ==
  ASSUME ReplyInv, NEW h \in Handlers, Callback(h)
  PROVE  ReplyInv'
<1>1. ASSUME NEW c \in Calls, NEW digit \in {1, 2}, VoiceMenuAction(h, c, digit)
      PROVE  ReplyInv'
  <2>1. c \in Keys /\ CallOwner[c] \in Users
    BY ReplyAssumption DEF Keys
  <2>2. [name |-> IF digit = 1 THEN "stop" ELSE "sms", due |-> 0] \in Command
    BY DEF Command
  <2>. QED BY <1>1, <2>1, <2>2, ReplaySafe, StartSafe DEF VoiceMenuAction
<1>2. ASSUME NEW s \in Sids, NEW sender \in Users \cup {Nobody}, NEW body \in Bodies,
             InboundSms(h, s, sender, body)
      PROVE  ReplyInv'
  <2>1. s \in Keys
    BY DEF Keys
  <2>2. CASE Replay(s)
    BY <1>2, <2>1, <2>2, ReplaySafe DEF InboundSms
  <2>3. CASE Refuse(s, "unknown_sender")
    <3>1. "unknown_sender" \in Outcomes \ Changes
      BY DEF Outcomes, Changes
    <3>. QED BY <1>2, <2>1, <2>3, <3>1, RefuseSafe DEF InboundSms, Changes
  <2>4. CASE body.name \in Outcomes /\ Refuse(s, body.name)
    <3>1. body.name \notin Changes
      BY DEF Bodies, Command, Changes
    <3>. QED BY <1>2, <2>1, <2>4, <3>1, RefuseSafe DEF InboundSms, Changes
  <2>5. CASE sender # Nobody /\ body \in Command /\ Start(h, s, sender, body)
    BY <1>2, <2>1, <2>5, StartSafe DEF InboundSms
  <2>. QED BY <1>2, <2>2, <2>3, <2>4, <2>5 DEF InboundSms
<1>. QED BY <1>1, <1>2 DEF Callback

\* Every step inside a transaction keeps it.
LEMMA HandleSafe ==
  ASSUME ReplyInv, NEW h \in Handlers, Handle(h)
  PROVE  ReplyInv'
<1>1. CASE LockNext(h)
  BY <1>1, LockNextSafe
<1>2. CASE NoPendingEvent(h)
  BY <1>2, NoPendingEventSafe
<1>3. CASE ApplyCommand(h)
  BY <1>3, ApplyCommandSafe
<1>4. CASE EndDeadlock(h)
  BY <1>4, RollbackSafe DEF EndDeadlock
<1>. QED BY <1>1, <1>2, <1>3, <1>4 DEF Handle

\* Every step keeps it.
LEMMA NextReply == ReplyInv /\ [ReplyNext]_replyVars => ReplyInv'
<1>. SUFFICES ASSUME ReplyInv, [ReplyNext]_replyVars PROVE ReplyInv'
  OBVIOUS
<1>1. ASSUME NEW h \in Handlers, Callback(h) \/ Handle(h) \/ Abort(h) PROVE ReplyInv'
  BY <1>1, CallbackSafe, HandleSafe, RollbackSafe DEF Abort
<1>2. ASSUME NEW e \in Events, OthersChange(e) PROVE ReplyInv'
  BY <1>2, OthersChangeSafe
<1>3. CASE Clock
  BY <1>3, ClockSafe
<1>4. CASE UNCHANGED replyVars
  <2>1. SchedulingTypeOK'
    BY <1>4 DEF replyVars, schedulingVars, ReplyInv, ReplyTypeOK, SchedulingTypeOK
  <2>. QED
    BY <1>4, <2>1, QuietSafe
       DEF replyVars, schedulingVars, handlerVars, ReplyInv, HistoryOK
<1>. QED BY <1>1, <1>2, <1>3, <1>4 DEF ReplyNext

\* So it always holds.
LEMMA AlwaysReply == ReplySpec => []ReplyInv
BY InitReply, NextReply, PTL DEF ReplySpec

\* The rows, the stored results and the transactions have their types, and a
\* handler that applies a command holds the lock of the event it applies it to.
THEOREM ReplyTypeCorrect == ReplySpec => []ReplyTypeOK
<1>1. ReplyInv => ReplyTypeOK
  BY DEF ReplyInv
<1>. QED BY AlwaysReply, <1>1, PTL

\* One call and one Message SID change at most one row once, and the stored result
\* says which and how, for any number of handlers, repetitions, deaths and
\* deadlocks.
THEOREM OneEffectPerRequest == ReplySpec => []EffectsMatchRecord
<1>1. ReplyInv => EffectsMatchRecord
  BY DEF ReplyInv
<1>. QED BY AlwaysReply, <1>1, PTL

\* The event that a handler is about to change is pending and its owner's, and
\* next in the order unless it was itself changed while its lock was waited for.
THEOREM TargetIsNextOrChanged == ReplySpec => []TargetIsNextUnlessChanged
<1>1. ASSUME ReplyInv, NEW h \in Handlers, request[h].phase = "apply"
      PROVE  LET e == Head(request[h].pending)
             IN  /\ EventOwner[e] = request[h].user
                 /\ status[e] = "scheduled"
                 /\ \/ e \in request[h].changed
                    \/ EarlierPending(h) \subseteq request[h].changed
  <2>. DEFINE p == request[h].pending
  <2>1. Active(h)
    BY <1>1 DEF Active
  <2>2. request[h] \in Request /\ Listed(h) /\ Found(h)
    BY <1>1, <2>1, RequestType DEF ReplyInv, View
  <2>3. p \in Seq(Events) /\ p # <<>>
    BY <2>2 DEF Request, Found
  <2>4. Len(p) \in Nat \ {0} /\ Head(p) = p[1]
    BY <2>3, EmptySeq
  <2>. QED BY <2>2, <2>4 DEF Listed, Found
<1>2. ReplyInv => TargetIsNextUnlessChanged
  BY <1>1 DEF TargetIsNextUnlessChanged
<1>. QED BY AlwaysReply, <1>2, PTL

-----------------------------------------------------------------------------
(* A request is decided once *)

\* What RequestOnce says of a step, told by what it leaves alone.
LEMMA OthersRefine ==
  UNCHANGED <<record, effects, replies>> => Requests!OnceNext
BY DEF Requests!OnceNext, Requests!Others, Requests!requestVars

\* An answer to a decided request repeats that decision.
LEMMA ReplayRefines ==
  ASSUME NEW k \in Keys, Replay(k), UNCHANGED schedulingVars
  PROVE  Requests!OnceNext
<1>1. Requests!Repeat(k)
  BY DEF Replay, Reply, NoResult, schedulingVars, Requests!Repeat,
         Requests!NoResult, Requests!schedulingVars
<1>. QED BY <1>1 DEF Requests!OnceNext

\* A commit that changes no row decides the request as refused.
LEMMA RefusalRefines ==
  ASSUME NEW k \in Keys, NEW outcome \in Requests!Refusals,
         NEW target \in Events \cup {0},
         record[k] = NoResult,
         record' = [record EXCEPT ![k] = [outcome |-> outcome, target |-> target]],
         Reply(k, outcome), UNCHANGED <<schedulingVars, effects>>
  PROVE  Requests!OnceNext
<1>1. Requests!Refuse(k, outcome, target)
  BY DEF Reply, NoResult, schedulingVars, Requests!Refuse, Requests!Store,
         Requests!NoResult, Requests!schedulingVars
<1>. QED BY <1>1 DEF Requests!OnceNext

\* A commit that changes a row decides the request with that change.
LEMMA ApplyRefines ==
  ASSUME ReplyInv, NEW h \in Handlers, request[h].phase = "apply",
         NEW outcome \in Changes,
         Commit(h, outcome, Head(request[h].pending), {Head(request[h].pending)}),
         Requests!Change(outcome, Head(request[h].pending))
  PROVE  Requests!OnceNext
<1>. DEFINE k == request[h].key
            e == Head(request[h].pending)
            effect == [event |-> e, outcome |-> outcome]
<1>1. k \in Keys /\ e \in Events /\ record[k] = NoResult /\ effects[k] = <<>>
  BY ApplyFacts
<1>2. effects' = [effects EXCEPT ![k] = <<effect>>]
  <2>1. effects' = [effects EXCEPT ![k] = Append(effects[k], effect)]
    BY DEF Commit
  <2>2. Append(effects[k], effect) = <<effect>>
    BY <1>1
  <2>. QED BY <2>1, <2>2
<1>3. Requests!Store(k, outcome, e)
  BY <1>1 DEF Commit, Reply, NoResult, Requests!Store, Requests!NoResult
<1>4. Requests!Apply(k, outcome, e)
  BY <1>2, <1>3 DEF Requests!Apply
<1>. QED BY <1>1, <1>4 DEF Changes, Requests!OnceNext

\* The start of a handler changes nothing that RequestOnce sees, or repeats.
LEMMA CallbackRefines ==
  ASSUME NEW h \in Handlers, Callback(h)
  PROVE  Requests!OnceNext
<1>1. ASSUME NEW c \in Calls, NEW digit \in {1, 2}, VoiceMenuAction(h, c, digit)
      PROVE  Requests!OnceNext
  <2>1. c \in Keys
    BY DEF Keys
  <2>. QED BY <1>1, <2>1, ReplayRefines, OthersRefine DEF VoiceMenuAction, Start
<1>2. ASSUME NEW s \in Sids, NEW sender \in Users \cup {Nobody}, NEW body \in Bodies,
             InboundSms(h, s, sender, body)
      PROVE  Requests!OnceNext
  <2>1. s \in Keys
    BY DEF Keys
  <2>2. ASSUME NEW outcome \in Requests!Refusals, Refuse(s, outcome)
        PROVE  Requests!OnceNext
    BY <1>2, <2>1, <2>2, RefusalRefines DEF Refuse, InboundSms
  <2>3. CASE Refuse(s, "unknown_sender")
    BY <2>2, <2>3 DEF Requests!Refusals
  <2>4. CASE body.name \in Outcomes /\ Refuse(s, body.name)
    <3>1. body.name \in {"invalid_command", "invalid_time"}
      BY <2>4 DEF Bodies, Command, Outcomes
    <3>. QED BY <2>2, <2>4, <3>1 DEF Requests!Refusals
  <2>. QED
    BY <1>2, <2>1, <2>3, <2>4, ReplayRefines, OthersRefine DEF InboundSms, Start
<1>. QED BY <1>1, <1>2 DEF Callback

\* Each way to apply a command is one of these.
LEMMA ApplyCommandRefines ==
  ASSUME ReplyInv, NEW h \in Handlers, ApplyCommand(h)
  PROVE  Requests!OnceNext
<1>. DEFINE e == Head(request[h].pending)
            command == request[h].command
<1>1. request[h].phase = "apply"
  BY DEF ApplyCommand
<1>2. /\ e \in Events /\ command \in Command
      /\ request[h].key \in Keys /\ record[request[h].key] = NoResult
  BY <1>1, ApplyFacts
<1>3. CASE CancelScheduledEvent(e) /\ Commit(h, "cancelled", e, {e})
  <2>1. Requests!Change("cancelled", e)
    BY <1>3 DEF CancelScheduledEvent, Requests!Change, Requests!CancelScheduledEvent
  <2>. QED BY <1>1, <1>3, <2>1, ApplyRefines DEF Changes
<1>4. CASE ChangeScheduledEventChannel(e, "sms") /\ Commit(h, "switched_to_sms", e, {e})
  <2>1. Requests!Change("switched_to_sms", e)
    BY <1>4 DEF ChangeScheduledEventChannel, Requests!Change,
                Requests!ChangeScheduledEventChannel
  <2>. QED BY <1>1, <1>4, <2>1, ApplyRefines DEF Changes
<1>5. CASE /\ command.name = "time"
           /\ RescheduleScheduledEvent(e, command.due)
           /\ Commit(h, "rescheduled", e, {e})
  <2>1. command.due \in Times
    BY <1>2, <1>5, ReplyAssumption DEF Command
  <2>2. Requests!Change("rescheduled", e)
    BY <1>5, <2>1
       DEF RescheduleScheduledEvent, Times, Requests!Change, Requests!Times,
           Requests!RescheduleScheduledEvent
  <2>. QED BY <1>1, <1>5, <2>2, ApplyRefines DEF Changes
<1>6. CASE Commit(h, "invalid_time", e, {}) /\ UNCHANGED schedulingVars
  BY <1>2, <1>6, RefusalRefines DEF Commit, Requests!Refusals
<1>. QED BY <1>3, <1>4, <1>5, <1>6 DEF ApplyCommand

\* Every step inside a transaction is a decision or a stutter.
LEMMA HandleRefines ==
  ASSUME ReplyInv, NEW h \in Handlers, Handle(h)
  PROVE  Requests!OnceNext
<1>1. CASE NoPendingEvent(h)
  <2>1. request[h].key \in Keys /\ record[request[h].key] = NoResult
    <3>1. Active(h)
      BY <1>1 DEF NoPendingEvent, Active
    <3>. QED BY <3>1, RequestType DEF ReplyInv, Undecided, Request
  <2>. QED
    BY <1>1, <2>1, RefusalRefines DEF NoPendingEvent, Commit, Requests!Refusals
<1>2. CASE LockNext(h) \/ EndDeadlock(h)
  BY <1>2, OthersRefine DEF LockNext, EndDeadlock, Rollback
<1>. QED BY <1>1, <1>2, ApplyCommandRefines DEF Handle

\* Every step maps to a step of RequestOnce or to a stutter.
LEMMA StepRefines ==
  ReplyInv /\ [ReplyNext]_replyVars => [Requests!OnceNext]_(Requests!onceVars)
<1>. SUFFICES ASSUME ReplyInv, [ReplyNext]_replyVars PROVE Requests!OnceNext
  OBVIOUS
<1>1. ASSUME NEW h \in Handlers, Callback(h) \/ Handle(h) \/ Abort(h)
      PROVE  Requests!OnceNext
  BY <1>1, CallbackRefines, HandleRefines, OthersRefine DEF Abort, Rollback
<1>2. CASE (\E e \in Events : OthersChange(e)) \/ Clock \/ UNCHANGED replyVars
  BY <1>2, OthersRefine DEF OthersChange, Clock, replyVars, handlerVars
<1>. QED BY <1>1, <1>2 DEF ReplyNext

\* The handlers, with their locks, waits, deaths and repeated callbacks, implement
\* a request that is decided in one step and only answered after that.
THEOREM HandlersDecideOnce == ReplySpec => RefinesRequestOnce
<1>1. ReplyInit => Requests!OnceInit
  BY DEF ReplyInit, NoResult, Requests!OnceInit, Requests!NoResult
<1>. QED
  BY <1>1, AlwaysReply, StepRefines, PTL
     DEF ReplySpec, RefinesRequestOnce, Requests!OnceSpec
=============================================================================
