--------------------------- MODULE CommerceProofs ---------------------------
(***************************************************************************)
(* The admin marketplace for any events, usage, orders and payments: the   *)
(* webhooks of one subscription with its quota ledger, the top-ups of one  *)
(* quota cycle, and the direct orders.                                     *)
(*                                                                         *)
(* Each part has an inductive invariant of its own.  The sums over the     *)
(* ledger rest on FiniteSums.                                              *)
(***************************************************************************)
EXTENDS QuotaLedger, TopUps, DirectOrders, FiniteSums

-----------------------------------------------------------------------------
(* Webhooks and the quota ledger: types                                    *)

EventRows == [kind : AllKinds, at : Nat,
              state : {"emitted", "received", "processed", "rejected"},
              reason : {"none", "stale", "mismatch"}]

Times == Nat \cup {NoTime}

RuntimeRows == [stage : {"active", "grace", "suspended", "terminated"}, at : Nat, until : Times]

DelinquencyRows ==
  [state : {"none", "grace_degraded", "account_frozen", "pending_deletion", "resolved"},
   missed : Nat, cycle : Times, until : Times]

CycleRows == [rollover : Nat, used : Nat, deadline : Int,
              state : {"available", "locked", "restored", "expired"}]

EventTypes ==
  /\ clock \in Nat
  /\ inbox \in Seq(EventRows)
  /\ applied \in Seq(EventRows)
  /\ watermark \in Times
  /\ status \in {"active", "suspended", "cancelled", "expired"}
  /\ runtime \in RuntimeRows
  /\ delinquency \in DelinquencyRows
  /\ cycles \in Seq(CycleRows) /\ 1 \in DOMAIN cycles

-----------------------------------------------------------------------------
(* What is kept beside the properties                                      *)

\* The watermark is at or after every event that was reconciled.
WatermarkIsLatest == \A i \in DOMAIN applied : applied[i].at <= watermark

Ordered == \A i, j \in DOMAIN applied : i < j => applied[i].at <= applied[j].at

\* The events of history s that moved the subscription.
Moves(s) == {i \in DOMAIN s : s[i].kind # "order"}

\* x is the status that the latest of them leaves.
StatusIs(s, x) ==
  Moves(s) # {} => \E i \in Moves(s) : /\ \A j \in Moves(s) : j <= i
                                       /\ x = EventStatus(s[i].kind)

\* The failures since the last payment, and their months.
FailedSince(s) ==
  {i \in DOMAIN s : /\ s[i].kind = "failed"
                    /\ \A p \in {k \in DOMAIN s : s[k].kind = "paid"} : p < i}

FailedMonths(s) == {Month(s[i].at) : i \in FailedSince(s)}

\* The delinquency row d counts the months in M, and remembers the last of them.
Counts(d, M) ==
  /\ IsFiniteSet(M) /\ d.missed = Cardinality(M)
  /\ d.state = "none" => M = {}
  /\ IF d.cycle = NoTime THEN M = {} ELSE d.cycle \in M /\ \A m \in M : m <= d.cycle

\* A subscription that lost its access with its grace did so at the deadline.
GraceEndedThen ==
  runtime.stage = "suspended" /\ status = "active" => runtime.at >= delinquency.until

EventInv ==
  /\ EventTypes /\ WatermarkIsLatest /\ Ordered
  /\ StatusIs(applied, status)
  /\ RuntimeMatchesBilling
  /\ Counts(delinquency, FailedMonths(applied))
  /\ GraceEndedThen

-----------------------------------------------------------------------------
(* The history grows by one event                                          *)

LEMMA HistoryGrows ==
  ASSUME NEW s \in Seq(EventRows), NEW e \in EventRows, NEW t, t = Append(s, e)
  PROVE  /\ t \in Seq(EventRows) /\ Len(s) \in Nat
         /\ DOMAIN s = 1..Len(s) /\ DOMAIN t = DOMAIN s \cup {Len(s) + 1}
         /\ t[Len(s) + 1] = e /\ \A i \in DOMAIN s : t[i] = s[i] /\ i < Len(s) + 1
  OBVIOUS

LEMMA MonthIsMonotone ==
  ASSUME NEW a \in Nat, NEW b \in Nat, a <= b
  PROVE  Month(a) \in Nat /\ Month(b) \in Nat /\ Month(a) <= Month(b)
  BY DEF Month

LEMMA MovesGrow ==
  ASSUME NEW s \in Seq(EventRows), NEW e \in EventRows, NEW x, NEW y, StatusIs(s, x),
         IF e.kind = "order" THEN y = x ELSE y = EventStatus(e.kind)
  PROVE  StatusIs(Append(s, e), y)
  <1> DEFINE t == Append(s, e)
             n == Len(s) + 1
  <1>1. /\ DOMAIN s = 1..Len(s) /\ Len(s) \in Nat /\ DOMAIN t = DOMAIN s \cup {n} /\ t[n] = e
        /\ \A i \in DOMAIN s : t[i] = s[i] /\ i < n
    BY HistoryGrows
  <1> HIDE DEF t, n
  <1>2. CASE e.kind = "order"
    <2>1. Moves(t) = Moves(s) /\ \A i \in Moves(s) : t[i] = s[i]
      BY <1>1, <1>2 DEF Moves
    <2> QED
      BY <1>2, <2>1 DEF StatusIs, t
  <1>3. CASE e.kind # "order"
    <2>1. n \in Moves(t) /\ \A j \in Moves(t) : j <= n
      BY <1>1, <1>3 DEF Moves, n
    <2> QED
      BY <1>1, <1>3, <2>1 DEF StatusIs, t
  <1> QED
    BY <1>2, <1>3

\* The months of the failures: a payment ends them, a failure adds its month.
LEMMA FailuresGrow ==
  ASSUME NEW s \in Seq(EventRows), NEW e \in EventRows
  PROVE  /\ e.kind = "paid" => FailedMonths(Append(s, e)) = {}
         /\ e.kind = "failed" => FailedMonths(Append(s, e)) = FailedMonths(s) \cup {Month(e.at)}
         /\ e.kind \notin {"paid", "failed"} => FailedMonths(Append(s, e)) = FailedMonths(s)
  <1> DEFINE t == Append(s, e)
             n == Len(s) + 1
  <1>1. /\ DOMAIN s = 1..Len(s) /\ Len(s) \in Nat /\ DOMAIN t = DOMAIN s \cup {n} /\ t[n] = e
        /\ \A i \in DOMAIN s : t[i] = s[i] /\ i < n
    BY HistoryGrows
  <1>2. n \notin DOMAIN s /\ n \in Nat /\ ~(n < n) /\ \A i \in DOMAIN s : ~(n < i)
    BY <1>1
  <1> HIDE DEF t, n
  <1>3. CASE e.kind = "paid"
    <2>1. FailedSince(t) = {}
      BY <1>1, <1>2, <1>3 DEF FailedSince
    <2> QED
      BY <1>3, <2>1 DEF FailedMonths, t
  <1>4. CASE e.kind = "failed"
    <2>1. FailedSince(t) = FailedSince(s) \cup {n}
      BY <1>1, <1>2, <1>4 DEF FailedSince
    <2>2. \A i \in FailedSince(s) : t[i] = s[i]
      BY <1>1 DEF FailedSince
    <2> QED
      BY <1>1, <1>4, <2>1, <2>2 DEF FailedMonths, t
  <1>5. CASE e.kind \notin {"paid", "failed"}
    <2>1. FailedSince(t) = FailedSince(s)
      BY <1>1, <1>2, <1>5 DEF FailedSince
    <2>2. \A i \in FailedSince(s) : t[i] = s[i]
      BY <1>1 DEF FailedSince
    <2> QED
      BY <1>5, <2>1, <2>2 DEF FailedMonths, t
  <1> QED
    BY <1>3, <1>4, <1>5

\* A month of a failure is at or before the month of a later event.
LEMMA MonthsAreEarlier ==
  ASSUME NEW s \in Seq(EventRows), NEW t \in Nat, \A i \in DOMAIN s : s[i].at <= t
  PROVE  FailedMonths(s) \subseteq Nat /\ \A m \in FailedMonths(s) : m <= Month(t)
  <1>1. \A i \in DOMAIN s : s[i] \in EventRows
    OBVIOUS
  <1>2. \A i \in DOMAIN s : s[i].at \in Nat
    BY <1>1 DEF EventRows
  <1>3. \A i \in DOMAIN s : Month(s[i].at) \in Nat /\ Month(s[i].at) <= Month(t)
    BY <1>2, MonthIsMonotone
  <1> QED
    BY <1>3 DEF FailedMonths, FailedSince

-----------------------------------------------------------------------------
(* The rows after an event                                                 *)

LEMMA FailureRow ==
  ASSUME delinquency \in DelinquencyRows, NEW t \in Nat
  PROVE  LET d == AfterFailure(t)
         IN  /\ d \in DelinquencyRows /\ d.state # "none" /\ d.cycle = Month(t)
             /\ d.missed = IF delinquency.cycle = Month(t) THEN delinquency.missed
                           ELSE delinquency.missed + 1
             /\ d.until # NoTime => d.state = "grace_degraded"
  <1> DEFINE d == delinquency
             renewed == d.cycle # Month(t)
             missed == IF renewed THEN d.missed + 1 ELSE d.missed
             until == IF renewed \/ d.until = NoTime THEN t + GraceLength ELSE d.until
             row(s, u) == [state |-> s, missed |-> missed, cycle |-> Month(t), until |-> u]
  <1>1. d.missed \in Nat /\ d.until \in Times
    BY DEF DelinquencyRows
  <1>2. missed \in Nat /\ Month(t) \in Nat /\ until \in Times /\ NoTime \in Times
    BY <1>1, MonthIsMonotone DEF Times, GraceLength
  <1>3. \/ AfterFailure(t) = row("pending_deletion", NoTime)
        \/ AfterFailure(t) = row("account_frozen", NoTime)
        \/ AfterFailure(t) = row("grace_degraded", until)
    BY DEF AfterFailure
  <1>4. missed = IF d.cycle = Month(t) THEN d.missed ELSE d.missed + 1
    OBVIOUS
  <1> HIDE DEF missed, until
  <1>5. Month(t) \in Times
    BY <1>2 DEF Times
  <1> QED
    BY <1>2, <1>3, <1>4, <1>5 DEF DelinquencyRows

LEMMA FailureCounts ==
  ASSUME delinquency \in DelinquencyRows, NEW t \in Nat, NEW M, M \subseteq Nat,
         \A m \in M : m <= Month(t), Counts(delinquency, M)
  PROVE  Counts(AfterFailure(t), M \cup {Month(t)})
  <1> DEFINE d == AfterFailure(t)
  <1>1. /\ d.state # "none" /\ d.cycle = Month(t) /\ Month(t) \in Nat /\ Month(t) # NoTime
        /\ d.missed = IF delinquency.cycle = Month(t) THEN delinquency.missed
                      ELSE delinquency.missed + 1
    BY FailureRow, MonthIsMonotone DEF NoTime
  <1> HIDE DEF d
  <1>2. IsFiniteSet(M) /\ delinquency.missed = Cardinality(M)
    BY DEF Counts
  <1>3. CASE delinquency.cycle = Month(t)
    <2>1. Month(t) \in M
      BY <1>1, <1>3 DEF Counts
    <2>2. M \cup {Month(t)} = M
      BY <2>1
    <2> QED
      BY <1>1, <1>2, <1>3, <2>1, <2>2 DEF Counts, d
  <1>4. CASE delinquency.cycle # Month(t)
    <2>1. Month(t) \notin M
      <3>1. CASE delinquency.cycle = NoTime
        BY <3>1 DEF Counts
      <3>2. CASE delinquency.cycle # NoTime
        <4>1. delinquency.cycle \in M /\ \A m \in M : m <= delinquency.cycle
          BY <3>2 DEF Counts
        <4>2. delinquency.cycle \in Nat /\ delinquency.cycle <= Month(t)
          BY <4>1
        <4>3. Month(t) \in M => Month(t) <= delinquency.cycle
          BY <4>1
        <4> QED
          BY <1>1, <1>4, <4>2, <4>3
      <3> QED
        BY <3>1, <3>2
    <2>2. IsFiniteSet(M \cup {Month(t)}) /\ Cardinality(M \cup {Month(t)}) = Cardinality(M) + 1
      BY <1>2, <2>1, FS_AddElement
    <2>3. \A m \in M \cup {Month(t)} : m <= Month(t)
      BY <1>1
    <2> QED
      BY <1>1, <1>2, <1>4, <2>2, <2>3 DEF Counts, d
  <1> QED
    BY <1>3, <1>4

LEMMA ResolvedRow ==
  ASSUME delinquency \in DelinquencyRows, NEW M, Counts(delinquency, M)
  PROVE  Resolved \in DelinquencyRows /\ Counts(Resolved, {})
  <1>1. IsFiniteSet({}) /\ Cardinality({}) = 0
    BY FS_EmptySet
  <1>2. CASE delinquency.state = "none"
    BY <1>2 DEF Resolved, Counts
  <1>3. CASE delinquency.state # "none"
    <2>1. Resolved = [state |-> "resolved", missed |-> 0, cycle |-> NoTime, until |-> NoTime]
      BY <1>3 DEF Resolved
    <2> QED
      BY <1>1, <2>1 DEF DelinquencyRows, Counts, Times
  <1> QED
    BY <1>2, <1>3

\* What an event that moves the subscription makes of its delinquency.
LEMMA DelinquencyAfter ==
  ASSUME EventInv, NEW e \in EventRows, watermark <= e.at
  PROVE  /\ AfterEvent(e) \in DelinquencyRows
         /\ Counts(AfterEvent(e), FailedMonths(Append(applied, e)))
         /\ e.kind = "failed" /\ AfterEvent(e).until # NoTime
              => AfterEvent(e).state = "grace_degraded"
  <1>1. applied \in Seq(EventRows) /\ delinquency \in DelinquencyRows /\ e.at \in Nat
    BY DEF EventInv, EventTypes, EventRows
  <1>2. Counts(delinquency, FailedMonths(applied))
    BY DEF EventInv
  <1>3. \A i \in DOMAIN applied : applied[i].at <= e.at
    <2>1. \A i \in DOMAIN applied : applied[i] \in EventRows
      BY <1>1
    <2>2. \A i \in DOMAIN applied : applied[i].at \in Nat
      BY <2>1 DEF EventRows
    <2> QED
      BY <1>1, <2>2 DEF EventInv, EventTypes, WatermarkIsLatest, Times, NoTime
  <1>4. FailedMonths(applied) \subseteq Nat /\ \A m \in FailedMonths(applied) : m <= Month(e.at)
    BY <1>1, <1>3, MonthsAreEarlier
  <1>5. CASE e.kind = "failed"
    <2>1. AfterEvent(e) = AfterFailure(e.at)
      BY <1>5 DEF AfterEvent
    <2>2. FailedMonths(Append(applied, e)) = FailedMonths(applied) \cup {Month(e.at)}
      BY <1>1, <1>5, FailuresGrow
    <2>3. Counts(AfterFailure(e.at), FailedMonths(applied) \cup {Month(e.at)})
      BY <1>1, <1>2, <1>4, FailureCounts
    <2> QED
      BY <1>1, <2>1, <2>2, <2>3, FailureRow
  <1>6. CASE e.kind = "paid"
    <2>1. AfterEvent(e) = Resolved
      BY <1>6 DEF AfterEvent
    <2>2. FailedMonths(Append(applied, e)) = {}
      BY <1>1, <1>6, FailuresGrow
    <2> QED
      BY <1>1, <1>2, <1>6, <2>1, <2>2, ResolvedRow
  <1>7. CASE e.kind \notin {"failed", "paid"}
    <2>1. AfterEvent(e) = delinquency
      BY <1>7 DEF AfterEvent
    <2>2. FailedMonths(Append(applied, e)) = FailedMonths(applied)
      BY <1>1, <1>7, FailuresGrow
    <2> QED
      BY <1>1, <1>2, <1>7, <2>1, <2>2
  <1> QED
    BY <1>5, <1>6, <1>7

\* What it makes of the status and of the stage of the runtime.
LEMMA StageAfter ==
  ASSUME NEW e \in EventRows, e.kind # "order"
  PROVE  \/ e.kind = "failed" /\ Stage(e.kind) = "grace" /\ EventStatus(e.kind) = "active"
         \/ /\ e.kind # "failed" /\ EventStatus(e.kind) = "active" /\ Stage(e.kind) = "active"
         \/ /\ e.kind # "failed" /\ EventStatus(e.kind) = "suspended"
            /\ Stage(e.kind) = "suspended"
         \/ /\ e.kind # "failed" /\ EventStatus(e.kind) \in {"cancelled", "expired"}
            /\ Stage(e.kind) = "terminated"
  <1>1. e.kind \in AllKinds
    BY DEF EventRows
  <1>2. e.kind \in {"created", "paused", "cancelled", "expired", "failed", "paid", "refunded"}
    BY <1>1 DEF AllKinds
  <1> QED
    BY <1>2 DEF Stage, EventStatus

LEMMA RuntimeRowAfter ==
  ASSUME EventInv, NEW e \in EventRows, e.kind # "order", watermark <= e.at
  PROVE  LET r == RuntimeAfter(e)
         IN  /\ r \in RuntimeRows /\ r.stage = Stage(e.kind)
             /\ r.stage = "grace" => r.until = AfterEvent(e).until
  <1>1. runtime \in RuntimeRows /\ AfterEvent(e).until \in Times /\ NoTime \in Times /\ e.at \in Nat
    <2>1. AfterEvent(e) \in DelinquencyRows
      BY DelinquencyAfter
    <2> QED
      BY <2>1 DEF EventInv, EventTypes, DelinquencyRows, EventRows, Times
  <1>2. Stage(e.kind) \in {"active", "grace", "suspended", "terminated"}
    BY StageAfter
  <1>3. CASE runtime.stage # Stage(e.kind) \/ Stage(e.kind) = "grace"
    <2> DEFINE u == IF Stage(e.kind) = "grace" THEN AfterEvent(e).until ELSE NoTime
    <2>1. RuntimeAfter(e) = [stage |-> Stage(e.kind), at |-> e.at, until |-> u]
      BY <1>3 DEF RuntimeAfter
    <2>2. u \in Times /\ (Stage(e.kind) = "grace" => u = AfterEvent(e).until)
      BY <1>1
    <2> HIDE DEF u
    <2> QED
      BY <1>1, <1>2, <2>1, <2>2 DEF RuntimeRows
  <1>4. CASE ~(runtime.stage # Stage(e.kind) \/ Stage(e.kind) = "grace")
    BY <1>1, <1>4 DEF RuntimeAfter
  <1> QED
    BY <1>3, <1>4

-----------------------------------------------------------------------------
(* The steps                                                               *)

LEMMA EventsInitInv == EventsInit => EventInv
  <1> SUFFICES ASSUME EventsInit PROVE EventInv
    OBVIOUS
  <1>1. /\ runtime = [stage |-> "active", at |-> 0, until |-> NoTime]
        /\ delinquency = [state |-> "none", missed |-> 0, cycle |-> NoTime, until |-> NoTime]
        /\ applied = <<>> /\ inbox = <<>> /\ clock = 0 /\ watermark = NoTime /\ status = "active"
    BY DEF EventsInit
  <1>2. NewCycle(Rollover) \in CycleRows
    BY EventConfig DEF NewCycle, CycleRows, NoTime
  <1>3. cycles \in Seq(CycleRows) /\ 1 \in DOMAIN cycles
    BY <1>2 DEF EventsInit
  <1>4. EventTypes
    BY <1>1, <1>3 DEF EventTypes, RuntimeRows, DelinquencyRows, Times
  <1>5. WatermarkIsLatest /\ Ordered /\ StatusIs(applied, status)
    BY <1>1 DEF WatermarkIsLatest, Ordered, StatusIs, Moves
  <1>6. RuntimeMatchesBilling /\ GraceEndedThen
    BY <1>1 DEF RuntimeMatchesBilling, GraceEndedThen
  <1>7. FailedMonths(applied) = {}
    BY <1>1 DEF FailedMonths, FailedSince
  <1>8. Counts(delinquency, FailedMonths(applied))
    BY <1>1, <1>7, FS_EmptySet DEF Counts
  <1> QED
    BY <1>4, <1>5, <1>6, <1>8 DEF EventInv

LEMMA EventQuiet ==
  ASSUME EventInv, UNCHANGED <<watermark, status, runtime, delinquency, applied>>, clock' \in Nat,
         inbox' \in Seq(EventRows), cycles' \in Seq(CycleRows), 1 \in DOMAIN cycles'
  PROVE  EventInv'
  <1>1. EventTypes'
    BY DEF EventInv, EventTypes
  <1>2. WatermarkIsLatest' /\ Ordered' /\ RuntimeMatchesBilling' /\ GraceEndedThen'
    BY DEF EventInv, WatermarkIsLatest, Ordered, RuntimeMatchesBilling, GraceEndedThen
  <1>3. StatusIs(applied', status') /\ Counts(delinquency', FailedMonths(applied'))
    BY DEF EventInv
  <1>4. StatusIs(applied, status)' /\ Counts(delinquency, FailedMonths(applied))'
    BY <1>3 DEF StatusIs, Moves, Counts, FailedMonths, FailedSince
  <1> QED
    BY <1>1, <1>2, <1>4 DEF EventInv

\* The provider emits an event, a delivery stores it, and the gate may reject it.
LEMMA InboxMoves ==
  ASSUME EventInv, \/ \E k \in Kinds : Emit(k)
                   \/ \E i \in DOMAIN inbox : Ingest(i) \/ Reject(i)
  PROVE  inbox' \in Seq(EventRows) /\ UNCHANGED <<clock, watermark, status, runtime, delinquency, cycles, applied>>
  <1>0. inbox \in Seq(EventRows) /\ clock \in Nat
    BY DEF EventInv, EventTypes
  <1>1. ASSUME NEW k \in Kinds, Emit(k) PROVE inbox' \in Seq(EventRows)
    <2> DEFINE e == [kind |-> k, at |-> clock, state |-> "emitted", reason |-> "none"]
    <2>1. e \in EventRows
      BY <1>0, EventConfig DEF EventRows
    <2> QED
      BY <1>0, <1>1, <2>1 DEF Emit
  <1>2. ASSUME NEW i \in DOMAIN inbox, Ingest(i) PROVE inbox' \in Seq(EventRows)
    <2>1. inbox[i] \in EventRows
      BY <1>0
    <2>2. [inbox[i] EXCEPT !.state = "received"] \in EventRows
      BY <2>1 DEF EventRows
    <2> QED
      BY <1>0, <1>2, <2>2 DEF Ingest
  <1>3. ASSUME NEW i \in DOMAIN inbox, Reject(i) PROVE inbox' \in Seq(EventRows)
    <2> DEFINE e == [inbox[i] EXCEPT !.state = "rejected", !.reason = Classify(inbox[i])]
    <2>1. inbox[i] \in EventRows
      BY <1>0
    <2>2. Classify(inbox[i]) \in {"stale", "mismatch"}
      BY <1>3 DEF Reject
    <2>3. e \in EventRows
      BY <2>1, <2>2 DEF EventRows
    <2>4. inbox' = [inbox EXCEPT ![i] = e]
      BY <1>3 DEF Reject
    <2> HIDE DEF e
    <2> QED
      BY <1>0, <2>3, <2>4
  <1> QED
    BY <1>1, <1>2, <1>3 DEF Emit, Ingest, Reject

\* What the two reconciliations have in common.
LEMMA ProcessedFacts ==
  ASSUME EventInv, NEW i \in DOMAIN inbox, Processed(i)
  PROVE  /\ inbox[i] \in EventRows /\ inbox[i].at \in Nat /\ watermark <= inbox[i].at
         /\ inbox' \in Seq(EventRows) /\ applied' = Append(applied, inbox[i])
         /\ applied' \in Seq(EventRows) /\ watermark' = inbox[i].at
         /\ WatermarkIsLatest' /\ Ordered'
         /\ Len(applied') = Len(applied) + 1 /\ applied'[Len(applied')] = inbox[i]
         /\ Len(applied') > Len(applied)
  <1> DEFINE e == inbox[i]
             n == Len(applied) + 1
  <1>1. inbox \in Seq(EventRows) /\ applied \in Seq(EventRows) /\ watermark \in Times
    BY DEF EventInv, EventTypes
  <1>2. e \in EventRows
    BY <1>1
  <1>3. e.at \in Nat
    BY <1>2 DEF EventRows
  <1>4. watermark <= e.at
    <2>1. ~(e.at < watermark)
      BY DEF Processed, Classify
    <2> QED
      BY <1>1, <1>3, <2>1 DEF Times, NoTime
  <1>5. inbox' \in Seq(EventRows)
    <2>1. [e EXCEPT !.state = "processed"] \in EventRows
      BY <1>2 DEF EventRows
    <2> QED
      BY <1>1, <2>1 DEF Processed
  <1>6. applied' = Append(applied, e) /\ watermark' = e.at
    BY DEF Processed
  <1> HIDE DEF e
  <1>7. /\ applied' \in Seq(EventRows) /\ DOMAIN applied = 1..Len(applied) /\ Len(applied) \in Nat
        /\ DOMAIN applied' = DOMAIN applied \cup {n} /\ applied'[n] = e
        /\ \A j \in DOMAIN applied : applied'[j] = applied[j] /\ j < n
    BY <1>1, <1>2, <1>6, HistoryGrows
  <1>8. Len(applied') = n
    BY <1>1, <1>2, <1>6
  <1>9. \A j \in DOMAIN applied : applied[j].at \in Nat
    <2>1. \A j \in DOMAIN applied : applied[j] \in EventRows
      BY <1>1
    <2> QED
      BY <2>1 DEF EventRows
  <1>10. \A j \in DOMAIN applied : applied[j].at <= e.at
    BY <1>1, <1>3, <1>4, <1>9 DEF EventInv, WatermarkIsLatest, Times, NoTime
  <1>11. WatermarkIsLatest'
    BY <1>3, <1>6, <1>7, <1>10 DEF WatermarkIsLatest
  <1>12. Ordered'
    BY <1>3, <1>7, <1>10 DEF EventInv, Ordered
  <1> QED
    BY <1>2, <1>3, <1>4, <1>5, <1>6, <1>7, <1>8, <1>11, <1>12 DEF e

LEMMA ReconcileOrderKeeps ==
  ASSUME EventInv, NEW i \in DOMAIN inbox, ReconcileOrder(i) PROVE EventInv'
  <1> DEFINE e == inbox[i]
  <1>1. /\ e \in EventRows /\ e.at \in Nat /\ watermark <= e.at /\ inbox' \in Seq(EventRows)
        /\ applied' = Append(applied, e) /\ applied' \in Seq(EventRows) /\ watermark' = e.at
        /\ WatermarkIsLatest' /\ Ordered'
    BY ProcessedFacts DEF ReconcileOrder
  <1>2. e.kind = "order" /\ UNCHANGED <<clock, status, runtime, delinquency, cycles>>
    BY DEF ReconcileOrder
  <1> HIDE DEF e
  <1>3. EventTypes'
    BY <1>1, <1>2 DEF EventInv, EventTypes, Times
  <1>4. StatusIs(applied', status')
    BY <1>1, <1>2, MovesGrow DEF EventInv, EventTypes
  <1>5. Counts(delinquency', FailedMonths(applied'))
    <2>1. FailedMonths(applied') = FailedMonths(applied)
      BY <1>1, <1>2, FailuresGrow DEF EventInv, EventTypes
    <2> QED
      BY <1>2, <2>1 DEF EventInv
  <1>6. RuntimeMatchesBilling' /\ GraceEndedThen'
    BY <1>2 DEF EventInv, RuntimeMatchesBilling, GraceEndedThen
  <1>7. StatusIs(applied, status)' /\ Counts(delinquency, FailedMonths(applied))'
    BY <1>4, <1>5 DEF StatusIs, Moves, Counts, FailedMonths, FailedSince
  <1> QED
    BY <1>1, <1>3, <1>6, <1>7 DEF EventInv

\* The events change only the state and the deadline of a quota cycle.
LEMMA CyclesKeepUnits ==
  ASSUME EventInv, NEW e \in EventRows
  PROVE  /\ CyclesAfter(e) \in Seq(CycleRows) /\ DOMAIN CyclesAfter(e) = DOMAIN cycles
         /\ \A c \in DOMAIN cycles : /\ CyclesAfter(e)[c].used = cycles[c].used
                                     /\ CyclesAfter(e)[c].rollover = cycles[c].rollover
  <1>1. cycles \in Seq(CycleRows) /\ e.at \in Nat
    BY DEF EventInv, EventTypes, EventRows
  <1>2. RolloverDeadline(e.at) \in Int
    BY <1>1 DEF RolloverDeadline, Month
  <1>3. ASSUME NEW c \in CycleRows
        PROVE  /\ Locked(c, e.at) \in CycleRows /\ Restored(c, e.at) \in CycleRows
               /\ Locked(c, e.at).used = c.used /\ Locked(c, e.at).rollover = c.rollover
               /\ Restored(c, e.at).used = c.used /\ Restored(c, e.at).rollover = c.rollover
    BY <1>2 DEF CycleRows, Locked, Restored
  <1>4. \A c \in DOMAIN cycles : cycles[c] \in CycleRows
    BY <1>1
  <1>5. ASSUME NEW c \in DOMAIN cycles
        PROVE  /\ CyclesAfter(e)[c] \in CycleRows
               /\ CyclesAfter(e)[c].used = cycles[c].used
               /\ CyclesAfter(e)[c].rollover = cycles[c].rollover
    <2>1. CyclesAfter(e)[c] \in {cycles[c], Locked(cycles[c], e.at), Restored(cycles[c], e.at)}
      BY DEF CyclesAfter
    <2> QED
      BY <1>3, <1>4, <2>1
  <1>6. DOMAIN CyclesAfter(e) = DOMAIN cycles
    BY DEF CyclesAfter
  <1>7. CyclesAfter(e) \in [1..Len(cycles) -> CycleRows]
    <2>1. DOMAIN cycles = 1..Len(cycles)
      BY <1>1
    <2>2. CyclesAfter(e) = [c \in 1..Len(cycles) |-> CyclesAfter(e)[c]]
      BY <2>1 DEF CyclesAfter
    <2> QED
      BY <1>5, <2>1, <2>2
  <1>8. CyclesAfter(e) \in Seq(CycleRows)
    BY <1>1, <1>7
  <1> QED
    BY <1>5, <1>6, <1>8

LEMMA ReconcileSubscriptionKeeps ==
  ASSUME EventInv, NEW i \in DOMAIN inbox, ReconcileSubscription(i) PROVE EventInv'
  <1> DEFINE e == inbox[i]
  <1>1. /\ e \in EventRows /\ e.at \in Nat /\ watermark <= e.at /\ inbox' \in Seq(EventRows)
        /\ applied' = Append(applied, e) /\ applied' \in Seq(EventRows) /\ watermark' = e.at
        /\ WatermarkIsLatest' /\ Ordered'
    BY ProcessedFacts DEF ReconcileSubscription
  <1>2. /\ e.kind # "order" /\ clock' = clock /\ status' = EventStatus(e.kind)
        /\ runtime' = RuntimeAfter(e) /\ delinquency' = AfterEvent(e) /\ cycles' = CyclesAfter(e)
        /\ RuntimeAfter(e).stage = "grace" => RuntimeAfter(e).until # NoTime
    BY DEF ReconcileSubscription, Applicable
  <1> HIDE DEF e
  <1>3. /\ delinquency' \in DelinquencyRows /\ Counts(delinquency', FailedMonths(applied'))
        /\ e.kind = "failed" /\ delinquency'.until # NoTime => delinquency'.state = "grace_degraded"
    BY <1>1, <1>2, DelinquencyAfter
  <1>4. /\ runtime' \in RuntimeRows /\ runtime'.stage = Stage(e.kind)
        /\ runtime'.stage = "grace" => runtime'.until = delinquency'.until /\ runtime'.until # NoTime
    BY <1>1, <1>2, RuntimeRowAfter
  <1>5. \/ e.kind = "failed" /\ runtime'.stage = "grace" /\ status' = "active"
        \/ status' = "active" /\ runtime'.stage = "active"
        \/ status' = "suspended" /\ runtime'.stage = "suspended"
        \/ status' \in {"cancelled", "expired"} /\ runtime'.stage = "terminated"
    BY <1>1, <1>2, <1>4, StageAfter
  <1>6. EventTypes'
    <2>1. cycles' \in Seq(CycleRows) /\ 1 \in DOMAIN cycles'
      BY <1>1, <1>2, CyclesKeepUnits DEF EventInv, EventTypes
    <2> QED
      BY <1>1, <1>2, <1>3, <1>4, <1>5, <2>1 DEF EventInv, EventTypes, Times
  <1>7. RuntimeMatchesBilling'
    BY <1>3, <1>4, <1>5 DEF RuntimeMatchesBilling
  <1>8. GraceEndedThen'
    BY <1>5 DEF GraceEndedThen
  <1>9. StatusIs(applied', status')
    BY <1>1, <1>2, MovesGrow DEF EventInv, EventTypes
  <1>10. StatusIs(applied, status)' /\ Counts(delinquency, FailedMonths(applied))'
    BY <1>3, <1>9 DEF StatusIs, Moves, Counts, FailedMonths, FailedSince
  <1> QED
    BY <1>1, <1>6, <1>7, <1>8, <1>10 DEF EventInv

LEMMA UsageEndsGraceKeeps ==
  ASSUME EventInv, NEW t, UsageEndsGrace(t) PROVE EventInv'
  <1>1. /\ UNCHANGED <<clock, inbox, watermark, status, delinquency, cycles, applied>>
        /\ status = "active" /\ runtime.stage = "grace"
        /\ runtime' = [stage |-> "suspended", at |-> runtime.until, until |-> NoTime]
    BY DEF UsageEndsGrace, GraceOver
  <1>2. runtime \in RuntimeRows /\ delinquency.until = runtime.until /\ runtime.until # NoTime
    BY <1>1 DEF EventInv, EventTypes, RuntimeMatchesBilling
  <1>3. runtime.until \in Nat
    BY <1>2 DEF RuntimeRows, Times
  <1>4. /\ runtime' \in RuntimeRows /\ runtime'.stage = "suspended"
        /\ runtime'.at = delinquency'.until /\ delinquency'.until \in Nat
    BY <1>1, <1>2, <1>3 DEF RuntimeRows, Times
  <1>5. EventTypes'
    BY <1>1, <1>4 DEF EventInv, EventTypes
  <1>6. RuntimeMatchesBilling' /\ GraceEndedThen'
    BY <1>1, <1>4 DEF RuntimeMatchesBilling, GraceEndedThen
  <1>7. WatermarkIsLatest' /\ Ordered'
    BY <1>1 DEF EventInv, WatermarkIsLatest, Ordered
  <1>8. StatusIs(applied', status') /\ Counts(delinquency', FailedMonths(applied'))
    BY <1>1 DEF EventInv
  <1>9. StatusIs(applied, status)' /\ Counts(delinquency, FailedMonths(applied))'
    BY <1>8 DEF StatusIs, Moves, Counts, FailedMonths, FailedSince
  <1> QED
    BY <1>5, <1>6, <1>7, <1>9 DEF EventInv

-----------------------------------------------------------------------------
(* The ledger                                                              *)

UsageRows == [cycle : Nat, units : Nat, at : Nat, grace : Int]

\* The keys of ledger u that satisfy the cycle c, and those of one grace period.
OfCycle(u, c) == {k \in DOMAIN u : u[k].cycle = c}

OfGrace(u, c, s) == {k \in DOMAIN u : u[k].cycle = c /\ u[k].grace = s}

Total(u, rows) == SumFunctionOnSet([k \in DOMAIN u |-> u[k].units], rows)

\* A row names a cycle that exists, and one of a grace period is not older than it.
LedgerTypes ==
  /\ IsFiniteSet(DOMAIN usage)
  /\ \A k \in DOMAIN usage : /\ usage[k] \in UsageRows
                             /\ usage[k].cycle \in DOMAIN cycles
                             /\ usage[k].grace # NoTime => usage[k].at >= usage[k].grace

LedgerInv ==
  /\ EventInv /\ LedgerTypes
  /\ \A c \in DOMAIN cycles : /\ cycles[c].used = Total(usage, OfCycle(usage, c))
                              /\ cycles[c].used <= Base + cycles[c].rollover
  /\ \A c \in DOMAIN cycles : \A s \in Int \ {NoTime} :
        Total(usage, OfGrace(usage, c, s)) <= GraceCap

LEMMA LedgerParts ==
  ASSUME LedgerInv PROVE LedgerBalances /\ GraceIsDegraded
  <1>1. \A rows : SumUnits(rows) = Total(usage, rows)
    BY DEF SumUnits, Total, Recorded
  <1>2. LedgerBalances
    BY <1>1 DEF LedgerInv, LedgerBalances, OfCycle, Recorded
  <1>3. ASSUME NEW c \in DOMAIN cycles, NEW k \in Recorded, usage[k].grace # NoTime
        PROVE  SumUnits({x \in Recorded : usage[x].cycle = c /\ usage[x].grace = usage[k].grace})
                 <= GraceCap
    <2> DEFINE s == usage[k].grace
    <2>1. usage[k] \in UsageRows
      BY DEF LedgerInv, LedgerTypes, Recorded
    <2>2. s \in Int \ {NoTime}
      BY <1>3, <2>1 DEF UsageRows
    <2> HIDE DEF s
    <2> QED
      BY <1>1, <2>2 DEF LedgerInv, OfGrace, Recorded, s
  <1>4. GraceIsDegraded
    BY <1>3 DEF GraceIsDegraded
  <1> QED
    BY <1>2, <1>4

LEMMA TotalOfNone == ASSUME NEW u PROVE Total(u, {}) = 0 /\ 0 <= GraceCap
  <1>1. 0 <= GraceCap
    BY LedgerConfig DEF GraceCap
  <1> QED
    BY <1>1, SumEmpty DEF Total

\* The ledger v is u with a row for a key that had none.
Grown(u, v, k) ==
  /\ IsFiniteSet(DOMAIN u) /\ k \notin DOMAIN u /\ DOMAIN v = DOMAIN u \cup {k}
  /\ \A x \in DOMAIN u : u[x].units \in Nat /\ v[x] = u[x]
  /\ v[k].units \in Nat

LEMMA TotalGrows ==
  ASSUME NEW u, NEW v, NEW k, Grown(u, v, k), NEW S, S \subseteq DOMAIN u
  PROVE  /\ Total(u, S) \in Nat /\ Total(v, S) = Total(u, S)
         /\ Total(v, S \cup {k}) = v[k].units + Total(u, S)
  <1> DEFINE f == [x \in DOMAIN u |-> u[x].units]
             g == [x \in DOMAIN v |-> v[x].units]
  <1>1. IsFiniteSet(S) /\ k \notin S
    BY FS_Subset DEF Grown
  <1>3. /\ \A x \in S : f[x] = g[x] /\ f[x] \in Nat
        /\ g[k] = v[k].units /\ \A x \in S \cup {k} : g[x] \in Nat
    BY DEF Grown
  <1>4. /\ Total(u, S) = SumFunctionOnSet(f, S) /\ Total(v, S) = SumFunctionOnSet(g, S)
        /\ Total(v, S \cup {k}) = SumFunctionOnSet(g, S \cup {k})
    BY DEF Total
  <1> HIDE DEF f, g
  <1>5. SumFunctionOnSet(f, S) \in Nat
    BY <1>1, <1>3, SumType
  <1>6. SumFunctionOnSet(f, S) = SumFunctionOnSet(g, S)
    BY <1>1, <1>3, SumSame
  <1>7. SumFunctionOnSet(g, S \cup {k}) = g[k] + SumFunctionOnSet(g, S)
    BY <1>1, <1>3, SumAdd
  <1> QED
    BY <1>3, <1>4, <1>5, <1>6, <1>7

\* A part of the ledger totals no more than the whole of it.
LEMMA TotalOfPart ==
  ASSUME NEW u, IsFiniteSet(DOMAIN u), \A x \in DOMAIN u : u[x].units \in Nat,
         NEW S, S \subseteq DOMAIN u, NEW T, T \subseteq S
  PROVE  Total(u, T) <= Total(u, S) /\ Total(u, T) \in Nat /\ Total(u, S) \in Nat
  <1> DEFINE f == [x \in DOMAIN u |-> u[x].units]
  <1>1. IsFiniteSet(S) /\ IsFiniteSet(T)
    BY FS_Subset
  <1>2. (\A x \in S : f[x] \in Nat) /\ (\A x \in T : f[x] \in Nat)
    OBVIOUS
  <1>3. Total(u, T) = SumFunctionOnSet(f, T) /\ Total(u, S) = SumFunctionOnSet(f, S)
    BY DEF Total
  <1> HIDE DEF f
  <1> QED
    BY <1>1, <1>2, <1>3, SumSubset, SumType

LEMMA AvailableFacts ==
  ASSUME NEW c \in CycleRows
  PROVE  /\ Available(c) \in Nat
         /\ \A u \in Nat \ {0} : u <= Available(c) => c.used + u <= Base + c.rollover
  <1>1. c.used \in Nat /\ c.rollover \in Nat /\ Base \in Nat
    BY LedgerConfig DEF CycleRows
  <1>2. Spendable(c) \in Nat /\ Spendable(c) <= c.rollover
    BY <1>1 DEF Spendable
  <1> QED
    BY <1>1, <1>2 DEF Available

LEMMA RecordUsageKeeps ==
  ASSUME LedgerInv, NEW t \in Nat, NEW k \in Keys, NEW c \in DOMAIN cycles, NEW u \in Units,
         RecordUsage(k, c, u, t)
  PROVE  LedgerInv'
  <1> DEFINE s == IF runtime.stage = "grace" THEN GraceStart ELSE NoTime
             row == [cycle |-> c, units |-> u, at |-> t, grace |-> s]
  <1>1. /\ k \notin DOMAIN usage /\ u <= Available(cycles[c])
        /\ cycles' = [cycles EXCEPT ![c].used = @ + u]
        /\ usage' = [x \in DOMAIN usage \cup {k} |-> IF x = k THEN row ELSE usage[x]]
        /\ UNCHANGED <<clock, inbox, watermark, status, runtime, delinquency, applied>>
    BY DEF RecordUsage, Recorded
  <1>2. /\ EventInv /\ cycles \in Seq(CycleRows) /\ u \in Nat \ {0} /\ c \in Nat
        /\ cycles[c] \in CycleRows /\ delinquency \in DelinquencyRows
    BY LedgerConfig DEF LedgerInv, EventInv, EventTypes
  <1>3. s \in Int /\ (s # NoTime => runtime.stage = "grace" /\ s = GraceStart /\ t >= s)
    <2>1. GraceStart \in Int
      BY <1>2 DEF GraceStart, GraceLength, DelinquencyRows, Times, NoTime
    <2> QED
      BY <2>1 DEF RecordUsage, WithinGraceCap, NoTime
  <1>4. /\ row \in UsageRows /\ row.cycle = c /\ row.units = u /\ row.grace = s
        /\ row.grace # NoTime => row.at >= row.grace
    BY <1>2, <1>3 DEF UsageRows
  <1>5. /\ IsFiniteSet(DOMAIN usage)
        /\ \A x \in DOMAIN usage : usage[x] \in UsageRows /\ usage[x].cycle \in DOMAIN cycles
    BY DEF LedgerInv, LedgerTypes
  <1>6. \A x \in DOMAIN usage : usage[x].units \in Nat
    BY <1>5 DEF UsageRows
  <1> HIDE DEF row, s
  <1>7. /\ DOMAIN usage' = DOMAIN usage \cup {k} /\ usage'[k] = row
        /\ \A x \in DOMAIN usage : usage'[x] = usage[x]
    BY <1>1
  <1>8. ASSUME NEW S, S \subseteq DOMAIN usage
        PROVE  /\ Total(usage, S) \in Nat /\ Total(usage', S) = Total(usage, S)
               /\ Total(usage', S \cup {k}) = u + Total(usage, S)
    <2>1. usage'[k].units = u /\ u \in Nat
      BY <1>2, <1>4, <1>7
    <2>2. IsFiniteSet(DOMAIN usage) /\ k \notin DOMAIN usage
      BY <1>1, <1>5
    <2>3. Grown(usage, usage', k)
      BY <1>6, <1>7, <2>1, <2>2 DEF Grown
    <2>4. /\ Total(usage, S) \in Nat /\ Total(usage', S) = Total(usage, S)
          /\ Total(usage', S \cup {k}) = usage'[k].units + Total(usage, S)
      BY <1>8, <2>3, TotalGrows
    <2> QED
      BY <2>1, <2>4
  <1>9. /\ cycles' \in Seq(CycleRows) /\ DOMAIN cycles' = DOMAIN cycles
        /\ cycles'[c].used = cycles[c].used + u /\ cycles'[c].rollover = cycles[c].rollover
        /\ \A d \in DOMAIN cycles \ {c} : cycles'[d] = cycles[d]
    <2> DEFINE new == [cycles[c] EXCEPT !.used = cycles[c].used + u]
    <2>0. cycles[c].used + u \in Nat
      BY <1>2 DEF CycleRows
    <2>1. new \in CycleRows /\ new.used = cycles[c].used + u /\ new.rollover = cycles[c].rollover
      BY <1>2, <2>0 DEF CycleRows
    <2>2. cycles' = [cycles EXCEPT ![c] = new]
      BY <1>1
    <2> HIDE DEF new
    <2> QED
      BY <1>2, <2>1, <2>2
  <1>10. EventInv'
    BY <1>1, <1>2, <1>9, EventQuiet DEF EventInv, EventTypes
  <1>11. LedgerTypes'
    <2>1. IsFiniteSet(DOMAIN usage')
      BY <1>5, <1>7, FS_AddElement
    <2> QED
      BY <1>4, <1>7, <1>9, <2>1 DEF LedgerInv, LedgerTypes
  <1>12. ASSUME NEW d \in DOMAIN cycles
         PROVE  /\ cycles'[d].used = Total(usage', OfCycle(usage', d))
                /\ cycles'[d].used <= Base + cycles'[d].rollover
    <2>1. OfCycle(usage, d) \subseteq DOMAIN usage /\ cycles[d].used = Total(usage, OfCycle(usage, d))
      BY DEF OfCycle, LedgerInv
    <2>2. CASE d = c
      <3>1. OfCycle(usage', d) = OfCycle(usage, d) \cup {k}
        BY <1>4, <1>7, <2>2 DEF OfCycle
      <3>2. cycles'[d].used = Total(usage', OfCycle(usage', d))
        BY <1>2, <1>8, <1>9, <2>1, <2>2, <3>1
      <3>3. cycles'[d].used <= Base + cycles'[d].rollover
        BY <1>1, <1>2, <1>9, <2>2, AvailableFacts
      <3> QED
        BY <3>2, <3>3
    <2>3. CASE d # c
      <3>1. OfCycle(usage', d) = OfCycle(usage, d)
        BY <1>1, <1>4, <1>7, <2>3 DEF OfCycle
      <3>2. cycles'[d] = cycles[d] /\ cycles[d].used <= Base + cycles[d].rollover
        BY <1>9, <2>3 DEF LedgerInv
      <3> QED
        BY <1>8, <2>1, <3>1, <3>2
    <2> QED
      BY <2>2, <2>3
  <1>13. ASSUME NEW d \in DOMAIN cycles, NEW p \in Int \ {NoTime}
         PROVE  Total(usage', OfGrace(usage', d, p)) <= GraceCap
    <2>1. OfGrace(usage, d, p) \subseteq DOMAIN usage /\ Total(usage, OfGrace(usage, d, p)) <= GraceCap
      BY DEF OfGrace, LedgerInv
    <2>2. CASE d = c /\ p = s
      <3> DEFINE since == {x \in DOMAIN usage : usage[x].cycle = c /\ usage[x].at >= GraceStart}
      <3>1. OfGrace(usage', d, p) = OfGrace(usage, d, p) \cup {k}
        BY <1>4, <1>7, <2>2 DEF OfGrace
      <3>2. Total(usage, since) + u <= GraceCap
        BY <1>3, <2>2 DEF RecordUsage, WithinGraceCap, SumUnits, Total, Recorded
      <3>3. OfGrace(usage, d, p) \subseteq since
        BY <1>3, <2>2 DEF OfGrace, LedgerInv, LedgerTypes
      <3>4. since \subseteq DOMAIN usage
        OBVIOUS
      <3> HIDE DEF since
      <3>5. /\ Total(usage, OfGrace(usage, d, p)) <= Total(usage, since)
            /\ Total(usage, OfGrace(usage, d, p)) \in Nat /\ Total(usage, since) \in Nat
        BY <1>5, <1>6, <3>3, <3>4, TotalOfPart
      <3>6. GraceCap \in Int
        BY LedgerConfig DEF GraceCap
      <3>7. Total(usage', OfGrace(usage', d, p)) = u + Total(usage, OfGrace(usage, d, p))
        BY <1>8, <2>1, <3>1
      <3> QED
        BY <1>2, <3>2, <3>5, <3>6, <3>7
    <2>3. CASE ~(d = c /\ p = s)
      <3>1. OfGrace(usage', d, p) = OfGrace(usage, d, p)
        BY <1>1, <1>4, <1>7, <2>3 DEF OfGrace
      <3> QED
        BY <1>8, <2>1, <3>1
    <2> QED
      BY <2>2, <2>3
  <1> QED
    BY <1>9, <1>10, <1>11, <1>12, <1>13 DEF LedgerInv

\* Steps that leave the ledger and the units of every cycle alone.
LEMMA LedgerQuiet ==
  ASSUME LedgerInv, EventInv', usage' = usage, DOMAIN cycles' = DOMAIN cycles,
         \A c \in DOMAIN cycles : /\ cycles'[c].used = cycles[c].used
                                 /\ cycles'[c].rollover = cycles[c].rollover
  PROVE  LedgerInv'
  <1>1. LedgerTypes'
    BY DEF LedgerInv, LedgerTypes
  <1> QED
    BY <1>1 DEF LedgerInv

LEMMA RolloverKeeps ==
  ASSUME LedgerInv, RolloverQuota PROVE LedgerInv'
  <1> DEFINE n == Len(cycles) + 1
             new == NewCycle(Available(cycles[Len(cycles)]))
  <1>1. /\ EventInv /\ cycles \in Seq(CycleRows) /\ Len(cycles) \in Nat
        /\ DOMAIN cycles = 1..Len(cycles) /\ Len(cycles) \in DOMAIN cycles
    BY DEF LedgerInv, EventInv, EventTypes
  <1>2. Available(cycles[Len(cycles)]) \in Nat
    BY <1>1, AvailableFacts
  <1>3. new \in CycleRows /\ new.used = 0 /\ new.rollover \in Nat
    BY <1>2 DEF NewCycle, CycleRows, NoTime
  <1>4. /\ cycles' = Append(cycles, new) /\ usage' = usage
        /\ UNCHANGED <<clock, inbox, watermark, status, runtime, delinquency, applied>>
    BY DEF RolloverQuota
  <1> HIDE DEF new
  <1>5. /\ cycles' \in Seq(CycleRows) /\ DOMAIN cycles' = DOMAIN cycles \cup {n}
        /\ cycles'[n] = new /\ n \notin DOMAIN cycles /\ 1 \in DOMAIN cycles'
        /\ \A c \in DOMAIN cycles : cycles'[c] = cycles[c]
    BY <1>1, <1>3, <1>4
  <1> HIDE DEF n
  <1>6. EventInv'
    BY <1>1, <1>4, <1>5, EventQuiet DEF EventInv, EventTypes
  <1>7. LedgerTypes'
    BY <1>4, <1>5 DEF LedgerInv, LedgerTypes
  <1>8. OfCycle(usage, n) = {} /\ \A s : OfGrace(usage, n, s) = {}
    BY <1>5 DEF LedgerInv, LedgerTypes, OfCycle, OfGrace
  <1>9. /\ Total(usage, OfCycle(usage, n)) = 0
        /\ \A s : Total(usage, OfGrace(usage, n, s)) <= GraceCap
    BY <1>8, TotalOfNone
  <1>10. cycles'[n].used <= Base + cycles'[n].rollover
    BY <1>3, <1>5, LedgerConfig
  <1>11. \A c \in DOMAIN cycles' : /\ cycles'[c].used = Total(usage, OfCycle(usage, c))
                                   /\ cycles'[c].used <= Base + cycles'[c].rollover
    BY <1>3, <1>5, <1>9, <1>10 DEF LedgerInv
  <1>12. \A c \in DOMAIN cycles' : \A s \in Int \ {NoTime} :
            Total(usage, OfGrace(usage, c, s)) <= GraceCap
    BY <1>5, <1>9 DEF LedgerInv
  <1> QED
    BY <1>4, <1>6, <1>7, <1>11, <1>12 DEF LedgerInv

LEMMA LedgerInitInv == LedgerInit => LedgerInv
  <1> SUFFICES ASSUME LedgerInit PROVE LedgerInv
    OBVIOUS
  <1>1. EventInv
    BY EventsInitInv DEF LedgerInit
  <1>2. DOMAIN usage = {}
    BY DEF LedgerInit
  <1>3. LedgerTypes
    BY <1>2, FS_EmptySet DEF LedgerTypes
  <1>4. \A c, s : OfCycle(usage, c) = {} /\ OfGrace(usage, c, s) = {}
    BY <1>2 DEF OfCycle, OfGrace
  <1>5. DOMAIN cycles = {1} /\ cycles[1].used = 0 /\ cycles[1].rollover = Rollover
    BY DEF LedgerInit, EventsInit, NewCycle
  <1>6. Total(usage, {}) = 0 /\ 0 <= GraceCap
    BY TotalOfNone
  <1>7. 0 <= Base + Rollover
    BY LedgerConfig, EventConfig
  <1> QED
    BY <1>1, <1>3, <1>4, <1>5, <1>6, <1>7 DEF LedgerInv

\* What the events leave alone of the ledger.
LEMMA EventsKeepLedger ==
  ASSUME LedgerInv, EventsNext, usage' = usage PROVE LedgerInv'
  <1>0. EventInv /\ clock \in Nat /\ inbox \in Seq(EventRows) /\ cycles \in Seq(CycleRows)
        /\ 1 \in DOMAIN cycles
    BY DEF LedgerInv, EventInv, EventTypes
  <1>1. CASE \/ \E k \in Kinds : Emit(k)
             \/ \E i \in DOMAIN inbox : Ingest(i) \/ Reject(i)
    <2>1. /\ inbox' \in Seq(EventRows)
          /\ UNCHANGED <<clock, watermark, status, runtime, delinquency, cycles, applied>>
      BY <1>0, <1>1, InboxMoves
    <2>2. EventInv'
      BY <1>0, <2>1, EventQuiet
    <2> QED
      BY <2>1, <2>2, LedgerQuiet
  <1>2. ASSUME NEW i \in DOMAIN inbox, ReconcileOrder(i) PROVE LedgerInv'
    <2>1. EventInv'
      BY <1>0, <1>2, ReconcileOrderKeeps
    <2> QED
      BY <1>2, <2>1, LedgerQuiet DEF ReconcileOrder
  <1>3. ASSUME NEW i \in DOMAIN inbox, ReconcileSubscription(i) PROVE LedgerInv'
    <2>1. EventInv'
      BY <1>0, <1>3, ReconcileSubscriptionKeeps
    <2>2. inbox[i] \in EventRows /\ cycles' = CyclesAfter(inbox[i])
      BY <1>0, <1>3 DEF ReconcileSubscription
    <2>3. /\ DOMAIN cycles' = DOMAIN cycles
          /\ \A c \in DOMAIN cycles : /\ cycles'[c].used = cycles[c].used
                                      /\ cycles'[c].rollover = cycles[c].rollover
      BY <1>0, <2>2, CyclesKeepUnits
    <2> QED
      BY <2>1, <2>3, LedgerQuiet
  <1>4. CASE EventsTick
    <2>1. /\ clock' \in Nat
          /\ UNCHANGED <<inbox, watermark, status, runtime, delinquency, cycles, applied>>
      BY <1>0, <1>4 DEF EventsTick
    <2>2. EventInv'
      BY <1>0, <2>1, EventQuiet
    <2> QED
      BY <2>1, <2>2, LedgerQuiet
  <1> QED
    BY <1>1, <1>2, <1>3, <1>4 DEF EventsNext

LEMMA LedgerNextInv == LedgerInv /\ [LedgerNext]_ledgerVars => LedgerInv'
  <1> SUFFICES ASSUME LedgerInv, [LedgerNext]_ledgerVars PROVE LedgerInv'
    OBVIOUS
  <1>0. EventInv /\ clock \in Nat /\ inbox \in Seq(EventRows) /\ cycles \in Seq(CycleRows)
        /\ 1 \in DOMAIN cycles
    BY DEF LedgerInv, EventInv, EventTypes
  <1>1. CASE UNCHANGED ledgerVars
    <2>1. UNCHANGED <<clock, inbox, watermark, status, runtime, delinquency, cycles, applied, usage>>
      BY <1>1 DEF ledgerVars, eventVars
    <2>2. EventInv'
      BY <1>0, <2>1, EventQuiet
    <2> QED
      BY <2>1, <2>2, LedgerQuiet
  <1>2. CASE EventsNext /\ UNCHANGED usage
    BY <1>2, EventsKeepLedger
  <1>3. CASE RolloverQuota
    BY <1>3, RolloverKeeps
  <1>4. ASSUME NEW t \in 0..clock, UsageEndsGrace(t) PROVE LedgerInv'
    <2>1. EventInv'
      BY <1>0, <1>4, UsageEndsGraceKeeps
    <2> QED
      BY <1>4, <2>1, LedgerQuiet DEF UsageEndsGrace
  <1>5. ASSUME NEW t \in 0..clock, NEW k \in Keys, NEW c \in DOMAIN cycles, NEW u \in Units,
               RecordUsage(k, c, u, t)
        PROVE  LedgerInv'
    <2>1. t \in Nat
      BY <1>0
    <2> QED
      BY <1>5, <2>1, RecordUsageKeeps
  <1> QED
    BY <1>1, <1>2, <1>3, <1>4, <1>5 DEF LedgerNext

LEMMA LedgerInvHolds == LedgerSpec => []LedgerInv
  BY LedgerInitInv, LedgerNextInv, PTL DEF LedgerSpec

-----------------------------------------------------------------------------
(* The results                                                             *)

\* However webhooks are reordered, repeated or late, the subscription has the
\* status of the latest event that was reconciled, and these are in order.
THEOREM LatestEventDecides == LedgerSpec => []StatusOfLatestEvent
  <1>1. LedgerInv => StatusOfLatestEvent
    <2> SUFFICES ASSUME LedgerInv PROVE StatusOfLatestEvent
      OBVIOUS
    <2>1. Ordered /\ StatusIs(applied, status) /\ applied \in Seq(EventRows) /\ Lifecycle = Moves(applied)
      BY DEF LedgerInv, EventInv, EventTypes, Lifecycle, Moves
    <2>2. ASSUME Lifecycle # {}
          PROVE  LET last == CHOOSE i \in Lifecycle : \A j \in Lifecycle : j <= i
                 IN status = EventStatus(applied[last].kind)
      <3> DEFINE last == CHOOSE i \in Lifecycle : \A j \in Lifecycle : j <= i
      <3>1. PICK m \in Lifecycle : /\ \A j \in Lifecycle : j <= m
                                  /\ status = EventStatus(applied[m].kind)
        BY <2>1, <2>2 DEF StatusIs
      <3>2. last \in Lifecycle /\ \A j \in Lifecycle : j <= last
        BY <3>1
      <3>3. Lifecycle \subseteq Nat
        BY <2>1 DEF Lifecycle
      <3> HIDE DEF last
      <3>4. last = m
        BY <3>1, <3>2, <3>3
      <3> QED
        BY <3>1, <3>4 DEF last
    <2> QED
      BY <2>1, <2>2 DEF StatusOfLatestEvent, Ordered
  <1> QED
    BY <1>1, LedgerInvHolds, PTL

\* The runtime row agrees with the rows of the subscription and its delinquency.
THEOREM RuntimeFollowsBilling == LedgerSpec => []RuntimeMatchesBilling
  <1>1. LedgerInv => RuntimeMatchesBilling
    BY DEF LedgerInv, EventInv
  <1> QED
    BY <1>1, LedgerInvHolds, PTL

\* The missed billing cycles are the months with a failed payment since the last
\* one that was paid.
THEOREM MissedCyclesAreMonths == LedgerSpec => []MissedCyclesCounted
  <1>1. LedgerInv => MissedCyclesCounted
    BY DEF LedgerInv, EventInv, MissedCyclesCounted, Counts, FailedMonths, FailedSince
  <1> QED
    BY <1>1, LedgerInvHolds, PTL

\* The counter of a quota cycle is the sum of its ledger rows, within what the
\* cycle ever allowed.
THEOREM LedgerStaysBalanced == LedgerSpec => []LedgerBalances
  BY LedgerParts, LedgerInvHolds, PTL

\* In one grace period no cycle gives more than the degraded share of its base.
THEOREM GraceStaysDegraded == LedgerSpec => []GraceIsDegraded
  BY LedgerParts, LedgerInvHolds, PTL

\* Access that ended with the grace period only comes back with an event that the
\* provider dated at or after the deadline.
THEOREM AccessStaysEnded == LedgerSpec => NoAccessAfterGrace
  <1> DEFINE P == runtime.stage = "suspended" /\ status = "active" /\ runtime'.stage # "suspended"
                    => /\ Len(applied') > Len(applied)
                       /\ applied'[Len(applied')].at >= delinquency.until
  <1>1. LedgerInv /\ [LedgerNext]_ledgerVars => [P]_ledgerVars
    <2> SUFFICES ASSUME LedgerInv, LedgerNext, runtime.stage = "suspended", status = "active",
                        runtime'.stage # "suspended"
                 PROVE  /\ Len(applied') > Len(applied)
                        /\ applied'[Len(applied')].at >= delinquency.until
      OBVIOUS
    <2>1. EventInv /\ runtime.at >= delinquency.until
      BY DEF LedgerInv, EventInv, GraceEndedThen
    <2>2. PICK i \in DOMAIN inbox : ReconcileSubscription(i)
      BY DEF LedgerNext, EventsNext, Emit, Ingest, Reject, ReconcileOrder, EventsTick,
             RolloverQuota, UsageEndsGrace, GraceOver, RecordUsage
    <2>3. /\ inbox[i].at \in Nat /\ Len(applied') > Len(applied)
          /\ applied'[Len(applied')] = inbox[i]
      BY <2>1, <2>2, ProcessedFacts DEF ReconcileSubscription
    <2>4. inbox[i].at >= runtime.at
      BY <2>2 DEF ReconcileSubscription, Applicable
    <2>5. runtime.at \in Int /\ delinquency.until \in Int
      BY <2>1 DEF EventInv, EventTypes, RuntimeRows, DelinquencyRows, Times, NoTime
    <2> QED
      BY <2>1, <2>3, <2>4, <2>5
  <1>2. LedgerSpec => [][P]_ledgerVars
    BY <1>1, LedgerInvHolds, PTL DEF LedgerSpec
  <1> QED
    BY <1>2 DEF NoAccessAfterGrace

-----------------------------------------------------------------------------
(* Top-ups: one checkout                                                   *)

RequestSteps == {"idle", "new", "replay", "call", "bind", "unsure", "recover", "rebind"}

CheckoutTypes ==
  /\ checkout \in [Orders -> {"not_started", "creating", "ready", "uncertain"}]
  /\ offered \in [Orders -> Nat]
  /\ step \in [Requests -> [at : RequestSteps, order : Orders \cup {Idle.order}]]
  /\ \A r \in Requests : step[r].at # "idle" => step[r].order \in Orders

\* A request that calls the provider is the first to do so for its order and the
\* only one, for the mark it left in checkout is never taken back.
CallsAreFirst ==
  /\ \A r \in Requests : step[r].at = "call" =>
        offered[step[r].order] = 0 /\ checkout[step[r].order] # "not_started"
  /\ \A q, r \in Requests :
        step[q].at = "call" /\ step[r].at = "call" /\ step[q].order = step[r].order => q = r
  /\ \A o \in Orders : checkout[o] = "not_started" => offered[o] = 0

\* A request that binds a checkout has seen it.
BindersHaveSeen ==
  \A r \in Requests : step[r].at \in {"bind", "rebind"} => offered[step[r].order] = 1

CheckoutInv == CheckoutTypes /\ CallsAreFirst /\ BindersHaveSeen /\ OneCheckoutPerOrder

LEMMA CheckoutInit == TopUpsInit => CheckoutInv
  <1> SUFFICES ASSUME TopUpsInit PROVE CheckoutInv
    OBVIOUS
  <1>1. Idle \in [at : RequestSteps, order : Orders \cup {Idle.order}] /\ Idle.at = "idle"
    BY DEF Idle, RequestSteps
  <1>2. \A r \in Requests : step[r].at = "idle"
    BY <1>1 DEF TopUpsInit
  <1>3. CheckoutTypes
    BY <1>1, <1>2 DEF TopUpsInit, CheckoutTypes
  <1>4. CallsAreFirst /\ BindersHaveSeen
    BY <1>2 DEF TopUpsInit, CallsAreFirst, BindersHaveSeen
  <1>5. OneCheckoutPerOrder
    BY DEF TopUpsInit, OneCheckoutPerOrder
  <1> QED
    BY <1>3, <1>4, <1>5 DEF CheckoutInv

\* What a request moves to: it stops, or it goes on with its order.
LEMMA RequestMoves ==
  ASSUME CheckoutInv, NEW r \in Requests, NEW s \in RequestSteps
  PROVE  /\ Stop(r) =>
              /\ step' \in [Requests -> [at : RequestSteps, order : Orders \cup {Idle.order}]]
              /\ step'[r].at = "idle"
              /\ \A q \in Requests \ {r} : step'[q] = step[q]
         /\ Goto(r, s) =>
              /\ step' \in [Requests -> [at : RequestSteps, order : Orders \cup {Idle.order}]]
              /\ step'[r].at = s /\ step'[r].order = step[r].order
              /\ \A q \in Requests \ {r} : step'[q] = step[q]
  <1>1. Idle \in [at : RequestSteps, order : Orders \cup {Idle.order}] /\ Idle.at = "idle"
    BY DEF Idle, RequestSteps
  <1>2. step[r] \in [at : RequestSteps, order : Orders \cup {Idle.order}]
    BY DEF CheckoutInv, CheckoutTypes
  <1> QED
    BY <1>1, <1>2 DEF CheckoutInv, CheckoutTypes, Stop, Goto

\* A request that neither calls the provider nor marks or binds a checkout.
LEMMA QuietRequest ==
  ASSUME CheckoutInv, NEW r \in Requests, checkout' = checkout, offered' = offered,
         step' \in [Requests -> [at : RequestSteps, order : Orders \cup {Idle.order}]],
         \A q \in Requests \ {r} : step'[q] = step[q],
         step'[r].at # "idle" => step'[r].order \in Orders,
         step'[r].at # "call",
         step'[r].at \in {"bind", "rebind"} => offered[step'[r].order] = 1
  PROVE  CheckoutInv'
  <1>1. \A q \in Requests : q = r \/ step'[q] = step[q]
    OBVIOUS
  <1>2. CheckoutTypes'
    BY <1>1 DEF CheckoutInv, CheckoutTypes
  <1>3. CallsAreFirst'
    BY <1>1 DEF CheckoutInv, CallsAreFirst
  <1>4. BindersHaveSeen'
    BY <1>1 DEF CheckoutInv, BindersHaveSeen
  <1> QED
    BY <1>2, <1>3, <1>4 DEF CheckoutInv, OneCheckoutPerOrder

\* A request stops, having bound a checkout that exists or noted that it is unsure.
LEMMA CheckoutSettles ==
  ASSUME CheckoutInv, NEW r \in Requests, Stop(r), offered' = offered, NEW o \in Orders,
         NEW s \in {"ready", "uncertain"}, s = "ready" => offered[o] = 1,
         checkout[o] # "not_started",
         checkout' = [checkout EXCEPT ![o] = s]
  PROVE  CheckoutInv'
  <1> USE DEF RequestSteps
  <1>1. /\ step' \in [Requests -> [at : RequestSteps, order : Orders \cup {Idle.order}]]
        /\ step'[r].at = "idle"
        /\ \A q \in Requests : q = r \/ step'[q] = step[q]
    BY RequestMoves
  <1>2. CheckoutTypes'
    BY <1>1 DEF CheckoutInv, CheckoutTypes
  <1>3. \A p \in Orders : checkout'[p] = IF p = o THEN s ELSE checkout[p]
    BY DEF CheckoutInv, CheckoutTypes
  <1>4. CallsAreFirst'
    <2>1. \A q \in Requests : step'[q].at = "call" =>
             step[q].at = "call" /\ step'[q] = step[q] /\ step[q].order \in Orders
      BY <1>1 DEF CheckoutInv, CheckoutTypes
    <2> QED
      BY <1>3, <2>1 DEF CheckoutInv, CallsAreFirst
  <1>5. BindersHaveSeen'
    BY <1>1 DEF CheckoutInv, BindersHaveSeen
  <1>6. OneCheckoutPerOrder'
    BY <1>3 DEF CheckoutInv, OneCheckoutPerOrder
  <1> QED
    BY <1>2, <1>4, <1>5, <1>6 DEF CheckoutInv

LEMMA PlaceOrderKeeps ==
  ASSUME CheckoutInv, NEW r \in Requests, NEW o \in Orders, PlaceOrder(r, o)
  PROVE  CheckoutInv'
  <1> DEFINE next == [at |-> IF order[o] = "none" THEN "new" ELSE "replay", order |-> o]
  <1>1. CASE o \in LocalOrders
    <2>1. checkout' = checkout /\ offered' = offered /\ step' = step
      BY <1>1 DEF PlaceOrder
    <2> QED
      BY <2>1 DEF CheckoutInv, CheckoutTypes, CallsAreFirst, BindersHaveSeen, OneCheckoutPerOrder
  <1>2. CASE o \notin LocalOrders
    <2>1. checkout' = checkout /\ offered' = offered /\ step' = [step EXCEPT ![r] = next]
      BY <1>2 DEF PlaceOrder
    <2>2. /\ next \in [at : RequestSteps, order : Orders \cup {Idle.order}]
          /\ next.at \in {"new", "replay"} /\ next.order = o
      BY DEF RequestSteps
    <2> HIDE DEF next
    <2>3. /\ step' \in [Requests -> [at : RequestSteps, order : Orders \cup {Idle.order}]]
          /\ step'[r] = next /\ \A q \in Requests \ {r} : step'[q] = step[q]
      BY <2>1, <2>2 DEF CheckoutInv, CheckoutTypes
    <2> QED
      BY <2>1, <2>2, <2>3, QuietRequest
  <1> QED
    BY <1>1, <1>2

LEMMA ReplayKeeps ==
  ASSUME CheckoutInv, NEW r \in Requests, InspectReplay(r) \/ FindCheckout(r) \/ CrashRequest(r)
  PROVE  CheckoutInv'
  <1> USE DEF RequestSteps
  <1>1. checkout' = checkout /\ offered' = offered
    BY DEF InspectReplay, FindCheckout, CrashRequest, Trade
  <1>2. step[r].at # "idle" /\ step[r].order \in Orders
    BY DEF InspectReplay, FindCheckout, CrashRequest, CheckoutInv, CheckoutTypes
  <1>3. \/ Stop(r) \/ Goto(r, "recover") \/ Goto(r, "new")
        \/ Goto(r, "rebind") /\ offered[step[r].order] = 1
    BY DEF InspectReplay, FindCheckout, CrashRequest
  <1>4. CASE Stop(r)
    <2>1. /\ step' \in [Requests -> [at : RequestSteps, order : Orders \cup {Idle.order}]]
          /\ step'[r].at = "idle" /\ \A q \in Requests \ {r} : step'[q] = step[q]
      BY <1>4, RequestMoves
    <2> QED
      BY <1>1, <2>1, QuietRequest
  <1>5. ASSUME NEW s \in {"recover", "new", "rebind"}, Goto(r, s),
               s = "rebind" => offered[step[r].order] = 1
        PROVE  CheckoutInv'
    <2>1. /\ step' \in [Requests -> [at : RequestSteps, order : Orders \cup {Idle.order}]]
          /\ step'[r].at = s /\ step'[r].order = step[r].order
          /\ \A q \in Requests \ {r} : step'[q] = step[q]
      BY <1>5, RequestMoves
    <2> QED
      BY <1>1, <1>2, <1>5, <2>1, QuietRequest
  <1> QED
    BY <1>3, <1>4, <1>5

LEMMA BeginCheckoutKeeps ==
  ASSUME CheckoutInv, NEW r \in Requests, BeginCheckout(r) PROVE CheckoutInv'
  <1> USE DEF RequestSteps
  <1> DEFINE o == step[r].order
  <1>1. o \in Orders /\ offered' = offered
    BY DEF BeginCheckout, CheckoutInv, CheckoutTypes, Trade
  <1>2. CASE checkout' = checkout /\ Stop(r)
    <2>1. /\ step' \in [Requests -> [at : RequestSteps, order : Orders \cup {Idle.order}]]
          /\ step'[r].at = "idle" /\ \A q \in Requests \ {r} : step'[q] = step[q]
      BY <1>2, RequestMoves
    <2> QED
      BY <1>1, <1>2, <2>1, QuietRequest
  <1>3. CASE /\ checkout[o] = "not_started" /\ checkout' = [checkout EXCEPT ![o] = "creating"]
             /\ Goto(r, "call")
    <2>1. /\ step' \in [Requests -> [at : RequestSteps, order : Orders \cup {Idle.order}]]
          /\ step'[r].at = "call" /\ step'[r].order = o
          /\ \A q \in Requests : q = r \/ step'[q] = step[q]
      BY <1>3, RequestMoves
    <2>2. \A p \in Orders : checkout'[p] = IF p = o THEN "creating" ELSE checkout[p]
      BY <1>3 DEF CheckoutInv, CheckoutTypes
    <2> HIDE DEF o
    <2>3. CheckoutTypes'
      BY <1>1, <1>3, <2>1 DEF CheckoutInv, CheckoutTypes
    <2>4. offered[o] = 0
      BY <1>1, <1>3 DEF CheckoutInv, CallsAreFirst
    <2>5. \A q \in Requests : q # r /\ step'[q].at = "call" =>
             /\ step'[q] = step[q] /\ step[q].order \in Orders /\ step[q].order # o
      BY <1>3, <2>1 DEF CheckoutInv, CheckoutTypes, CallsAreFirst
    <2>6. CallsAreFirst'
      BY <1>1, <2>1, <2>2, <2>4, <2>5 DEF CheckoutInv, CallsAreFirst
    <2>7. BindersHaveSeen'
      BY <1>1, <2>1 DEF CheckoutInv, BindersHaveSeen
    <2>8. OneCheckoutPerOrder'
      BY <1>1, <2>2 DEF CheckoutInv, OneCheckoutPerOrder
    <2> QED
      BY <2>3, <2>6, <2>7, <2>8 DEF CheckoutInv
  <1> QED
    BY <1>2, <1>3 DEF BeginCheckout

LEMMA CallProviderKeeps ==
  ASSUME CheckoutInv, NEW r \in Requests, CallProvider(r) PROVE CheckoutInv'
  <1> USE DEF RequestSteps
  <1> DEFINE o == step[r].order
  <1>1. /\ o \in Orders /\ checkout' = checkout /\ step[r].at = "call"
        /\ offered[o] = 0 /\ checkout[o] # "not_started"
    BY DEF CallProvider, CheckoutInv, CheckoutTypes, CallsAreFirst
  <1>2. PICK made, answered \in BOOLEAN :
          /\ answered => made
          /\ offered' = IF made THEN [offered EXCEPT ![o] = @ + 1] ELSE offered
          /\ Goto(r, IF answered THEN "bind" ELSE "unsure")
    BY DEF CallProvider
  <1>3. PICK s \in {"bind", "unsure"} : Goto(r, s) /\ (s = "bind" => made)
    <2>1. CASE answered
      BY <1>2, <2>1
    <2>2. CASE ~answered
      BY <1>2, <2>2
    <2> QED
      BY <2>1, <2>2
  <1>4. /\ step' \in [Requests -> [at : RequestSteps, order : Orders \cup {Idle.order}]]
        /\ step'[r].at = s /\ step'[r].order = o
        /\ \A q \in Requests : q = r \/ step'[q] = step[q]
    BY <1>3, RequestMoves
  <1>5. CASE ~made
    <2>1. offered' = offered /\ step'[r].at = "unsure"
      BY <1>2, <1>3, <1>4, <1>5
    <2> QED
      BY <1>1, <1>4, <2>1, QuietRequest
  <1>6. CASE made
    <2>1. offered' = [offered EXCEPT ![o] = 1]
      BY <1>1, <1>2, <1>6
    <2> HIDE DEF o
    <2>2. \A p \in Orders : offered'[p] = IF p = o THEN 1 ELSE offered[p]
      BY <2>1 DEF CheckoutInv, CheckoutTypes
    <2>3. CheckoutTypes'
      BY <1>1, <1>4, <2>1 DEF CheckoutInv, CheckoutTypes
    <2>4. \A q \in Requests : step'[q].at = "call" =>
             /\ step'[q] = step[q] /\ step[q].order \in Orders /\ step[q].order # o
      BY <1>1, <1>4 DEF CheckoutInv, CheckoutTypes, CallsAreFirst, o
    <2>5. CallsAreFirst'
      BY <1>1, <2>2, <2>4 DEF CheckoutInv, CallsAreFirst
    <2>6. BindersHaveSeen'
      BY <1>1, <1>4, <2>2 DEF CheckoutInv, CheckoutTypes, BindersHaveSeen
    <2>7. OneCheckoutPerOrder'
      BY <1>1, <2>2 DEF CheckoutInv, OneCheckoutPerOrder
    <2> QED
      BY <2>3, <2>5, <2>6, <2>7 DEF CheckoutInv
  <1> QED
    BY <1>5, <1>6

LEMMA BindKeeps ==
  ASSUME CheckoutInv, NEW r \in Requests, BindCheckout(r) \/ MarkUncertain(r) \/ RebindCheckout(r)
  PROVE  CheckoutInv'
  <1> USE DEF RequestSteps
  <1> DEFINE o == step[r].order
  <1>1. o \in Orders /\ Stop(r) /\ offered' = offered
    BY DEF BindCheckout, MarkUncertain, RebindCheckout, CheckoutInv, CheckoutTypes, Trade
  <1>2. \/ checkout' = checkout
        \/ /\ checkout[o] \in {"creating", "uncertain"}
           /\ \/ offered[o] = 1 /\ checkout' = [checkout EXCEPT ![o] = "ready"]
              \/ checkout' = [checkout EXCEPT ![o] = "uncertain"]
    BY DEF BindCheckout, MarkUncertain, RebindCheckout, CheckoutInv, BindersHaveSeen
  <1>3. CASE checkout' = checkout
    <2>1. /\ step' \in [Requests -> [at : RequestSteps, order : Orders \cup {Idle.order}]]
          /\ step'[r].at = "idle" /\ \A q \in Requests \ {r} : step'[q] = step[q]
      BY <1>1, RequestMoves
    <2> QED
      BY <1>1, <1>3, <2>1, QuietRequest
  <1> HIDE DEF o
  <1>4. CASE checkout[o] # "not_started" /\ offered[o] = 1 /\ checkout' = [checkout EXCEPT ![o] = "ready"]
    BY <1>1, <1>4, CheckoutSettles
  <1>5. CASE checkout[o] # "not_started" /\ checkout' = [checkout EXCEPT ![o] = "uncertain"]
    BY <1>1, <1>5, CheckoutSettles
  <1> QED
    BY <1>2, <1>3, <1>4, <1>5

LEMMA CheckoutNext == CheckoutInv /\ [TopUpsNext]_topUpVars => CheckoutInv'
  <1> SUFFICES ASSUME CheckoutInv, [TopUpsNext]_topUpVars PROVE CheckoutInv'
    OBVIOUS
  <1>1. ASSUME UNCHANGED <<checkout, offered, step>> PROVE CheckoutInv'
    BY <1>1 DEF CheckoutInv, CheckoutTypes, CallsAreFirst, BindersHaveSeen, OneCheckoutPerOrder
  <1>2. CASE UNCHANGED topUpVars
    BY <1>1, <1>2 DEF topUpVars
  <1>3. ASSUME NEW o \in LemonOrders, NEW n \in Payments,
               \/ Pay(o, n) \/ ProcessPayment(<<o, n>>) \/ ProcessRefund(<<o, n>>)
               \/ \E extent \in {"full", "partial"} : Refund(<<o, n>>, extent)
        PROVE  CheckoutInv'
    BY <1>1, <1>3 DEF Pay, ProcessPayment, ProcessRefund, Refund, Buying
  <1>4. CASE \/ \E o \in LocalOrders : VerifyLocalPayment(o)
             \/ \E u \in {1, Bundle} : UseUnits(u)
             \/ LockRollover \/ PeriodEnds
    BY <1>1, <1>4 DEF VerifyLocalPayment, UseUnits, LockRollover, PeriodEnds, Buying
  <1>5. ASSUME NEW r \in Requests, NEW o \in Orders, PlaceOrder(r, o) PROVE CheckoutInv'
    BY <1>5, PlaceOrderKeeps
  <1>6. ASSUME NEW r \in Requests,
               \/ InspectReplay(r) \/ BeginCheckout(r) \/ CallProvider(r) \/ BindCheckout(r)
               \/ MarkUncertain(r) \/ FindCheckout(r) \/ RebindCheckout(r) \/ CrashRequest(r)
        PROVE  CheckoutInv'
    BY <1>6, ReplayKeeps, BeginCheckoutKeeps, CallProviderKeeps, BindKeeps
  <1> QED
    BY <1>2, <1>3, <1>4, <1>5, <1>6 DEF TopUpsNext

\* Whatever is repeated, overlaps or crashes, the provider makes one checkout for
\* an order at most: the order is marked before the call (begin_checkout_creation)
\* and the mark is never taken back.
THEOREM CheckoutsAreSingle == TopUpsSpec => []OneCheckoutPerOrder
  <1>1. CheckoutInv => OneCheckoutPerOrder
    BY DEF CheckoutInv
  <1> QED
    BY <1>1, CheckoutInit, CheckoutNext, PTL DEF TopUpsSpec

-----------------------------------------------------------------------------
(* Top-ups: the units are those of the grants                              *)

GrantTypes ==
  /\ grant \in [Orders -> Nat]
  /\ reversal \in [Orders -> {"none", "reversed", "manual_review"}]
  /\ refunds \in [LemonOrders \X Payments -> {"none", "full", "partial"}]
  /\ quota \in [topUp : Nat, used : Nat, carried : 0..Carried]
  /\ \A o \in Orders : grant[o] = 0 => reversal[o] = "none"

\* The orders whose units count.
Kept == {o \in Orders : grant[o] # 0 /\ reversal[o] # "reversed"}

GrantInv == GrantTypes /\ IsFiniteSet(Kept) /\ TopUpsAreGrants

\* What TopUpsAreGrants says of the payments and the refunds.
GrantsHaveReasons ==
  \A o \in LemonOrders :
     /\ grant[o] # 0 => <<o, grant[o]>> \in paid
     /\ reversal[o] # "none" => \E n \in Payments : refunds[<<o, n>>] = "full"

LEMMA TopUpsParts ==
  /\ TopUpsAreGrants <=> /\ quota.topUp = Bundle * Cardinality(Kept)
                         /\ quota.used <= Allowance + Carried + quota.topUp
                         /\ GrantsHaveReasons
  /\ TopUpsAreGrants' <=> /\ quota'.topUp = Bundle * Cardinality(Kept')
                          /\ quota'.used <= Allowance + Carried + quota'.topUp
                          /\ GrantsHaveReasons'
  BY DEF TopUpsAreGrants, Kept, GrantsHaveReasons

LEMMA GrantInit == TopUpsInit => GrantInv
  <1> SUFFICES ASSUME TopUpsInit PROVE GrantInv
    OBVIOUS
  <1>1. /\ quota = [topUp |-> 0, used |-> 0, carried |-> Carried]
        /\ quota.topUp = 0 /\ quota.used = 0
    BY DEF TopUpsInit
  <1>2. GrantTypes
    BY <1>1, TopUpConfig DEF TopUpsInit, GrantTypes
  <1>3. Kept = {}
    BY DEF TopUpsInit, Kept
  <1>4. IsFiniteSet(Kept) /\ Cardinality(Kept) = 0
    BY <1>3, FS_EmptySet
  <1>5. GrantsHaveReasons
    BY DEF TopUpsInit, GrantsHaveReasons, Orders
  <1>6. Bundle * 0 = 0 /\ Allowance + Carried >= 0
    BY TopUpConfig
  <1>7. TopUpsAreGrants
    BY <1>1, <1>4, <1>5, <1>6, TopUpConfig, TopUpsParts
  <1> QED
    BY <1>2, <1>4, <1>7 DEF GrantInv

\* Units that are used or locked leave the grants alone.
LEMMA QuotaMoves ==
  ASSUME GrantInv, UNCHANGED <<grant, reversal>>,
         refunds' \in [LemonOrders \X Payments -> {"none", "full", "partial"}],
         \A p \in LemonOrders \X Payments : refunds[p] = "full" => refunds'[p] = "full",
         paid \subseteq paid',
         quota' \in [topUp : Nat, used : Nat, carried : 0..Carried],
         quota'.topUp = quota.topUp, quota'.used <= Allowance + Carried + quota'.topUp
  PROVE  GrantInv'
  <1>1. Kept' = Kept
    BY DEF Kept
  <1>2. GrantTypes'
    BY DEF GrantInv, GrantTypes
  <1>3. GrantsHaveReasons'
    <2>1. GrantsHaveReasons
      BY TopUpsParts DEF GrantInv
    <2> QED
      BY <2>1 DEF GrantsHaveReasons
  <1>4. TopUpsAreGrants'
    BY <1>1, <1>3, TopUpsParts DEF GrantInv
  <1> QED
    BY <1>1, <1>2, <1>4 DEF GrantInv

\* A grant is for an order that had none, and adds one bundle.
LEMMA GrantKeeps ==
  ASSUME GrantInv, NEW o \in Orders, NEW n \in Nat \ {0}, ApplyGrant(o, n),
         UNCHANGED <<paid, refunds, reversal>>, o \in LemonOrders => <<o, n>> \in paid
  PROVE  GrantInv'
  <1>1. quota \in [topUp : Nat, used : Nat, carried : 0..Carried] /\ grant[o] = 0
    BY DEF GrantInv, GrantTypes, ApplyGrant
  <1>2. /\ quota' \in [topUp : Nat, used : Nat, carried : 0..Carried]
        /\ quota'.topUp = quota.topUp + Bundle /\ quota'.used = quota.used
    BY <1>1, TopUpConfig DEF ApplyGrant
  <1>3. \A p \in Orders : grant'[p] = IF p = o THEN n ELSE grant[p]
    BY DEF GrantInv, GrantTypes, ApplyGrant
  <1>4. GrantTypes'
    BY <1>2, <1>3 DEF GrantInv, GrantTypes, ApplyGrant
  <1>5. reversal[o] = "none" /\ o \notin Kept
    BY <1>1 DEF GrantInv, GrantTypes, Kept
  <1>6. Kept' = Kept \cup {o}
    BY <1>3, <1>5 DEF Kept
  <1>7. IsFiniteSet(Kept') /\ Cardinality(Kept') = Cardinality(Kept) + 1 /\ Cardinality(Kept) \in Nat
    <2>1. IsFiniteSet(Kept)
      BY DEF GrantInv
    <2> QED
      BY <1>5, <1>6, <2>1, FS_AddElement, FS_CardinalityType
  <1>8. \A k \in Nat : Bundle * (k + 1) = Bundle * k + Bundle
    BY TopUpConfig
  <1>9. GrantsHaveReasons'
    <2>1. GrantsHaveReasons
      BY TopUpsParts DEF GrantInv
    <2> QED
      BY <1>3, <2>1 DEF GrantsHaveReasons, Orders
  <1>10. quota'.topUp = Bundle * Cardinality(Kept')
    BY <1>2, <1>7, <1>8, TopUpsParts DEF GrantInv
  <1>11. quota'.used <= Allowance + Carried + quota'.topUp
    <2>1. quota.used <= Allowance + Carried + quota.topUp
      BY TopUpsParts DEF GrantInv
    <2> QED
      BY <1>1, <1>2, <2>1, TopUpConfig
  <1>12. TopUpsAreGrants'
    BY <1>9, <1>10, <1>11, TopUpsParts
  <1> QED
    BY <1>4, <1>7, <1>12 DEF GrantInv

\* A full refund takes one bundle back, or leaves the decision to an operator
\* when its units are used.
LEMMA ReverseKeeps ==
  ASSUME GrantInv, NEW o \in LemonOrders, NEW n \in Payments, Reverse(o),
         refunds[<<o, n>>] = "full", UNCHANGED <<paid, refunds, grant>>
  PROVE  GrantInv'
  <1> DEFINE after == quota.topUp - Bundle
  <1>1. /\ quota \in [topUp : Nat, used : Nat, carried : 0..Carried] /\ o \in Orders
        /\ grant[o] # 0 /\ reversal[o] = "none" /\ after \in Nat
    BY TopUpConfig DEF GrantInv, GrantTypes, Reverse, Orders
  <1>2. GrantsHaveReasons
    BY TopUpsParts DEF GrantInv
  <1>3. ASSUME NEW s \in {"reversed", "manual_review"}, reversal' = [reversal EXCEPT ![o] = s]
        PROVE  /\ \A p \in Orders : reversal'[p] = IF p = o THEN s ELSE reversal[p]
               /\ reversal' \in [Orders -> {"none", "reversed", "manual_review"}]
               /\ GrantsHaveReasons'
    <2>1. /\ \A p \in Orders : reversal'[p] = IF p = o THEN s ELSE reversal[p]
          /\ reversal' \in [Orders -> {"none", "reversed", "manual_review"}]
      BY <1>1, <1>3 DEF GrantInv, GrantTypes
    <2> QED
      BY <1>2, <2>1 DEF GrantsHaveReasons, Orders
  <1>4. CASE quota.used <= Allowance + quota.carried + after
    <2>1. /\ reversal' = [reversal EXCEPT ![o] = "reversed"]
          /\ quota' = [quota EXCEPT !.topUp = after]
      BY <1>4 DEF Reverse
    <2>2. /\ quota' \in [topUp : Nat, used : Nat, carried : 0..Carried]
          /\ quota'.topUp = after /\ quota'.used = quota.used
      BY <1>1, <2>1
    <2>3. /\ \A p \in Orders : reversal'[p] = IF p = o THEN "reversed" ELSE reversal[p]
          /\ GrantsHaveReasons'
      BY <1>3, <2>1
    <2>4. GrantTypes'
      BY <1>1, <1>3, <2>1, <2>2, <2>3 DEF GrantInv, GrantTypes
    <2>5. o \in Kept /\ Kept' = Kept \ {o}
      BY <1>1, <2>3 DEF Kept
    <2>6. /\ IsFiniteSet(Kept') /\ Cardinality(Kept') = Cardinality(Kept) - 1
          /\ Cardinality(Kept) \in Nat
      <3>1. IsFiniteSet(Kept)
        BY DEF GrantInv
      <3> QED
        BY <2>5, <3>1, FS_RemoveElement, FS_CardinalityType
    <2>7. \A k \in Nat : Bundle * (k - 1) = Bundle * k - Bundle
      BY TopUpConfig
    <2>8. quota'.topUp = Bundle * Cardinality(Kept')
      BY <2>2, <2>6, <2>7, TopUpsParts DEF GrantInv
    <2>9. quota'.used <= Allowance + Carried + quota'.topUp
      BY <1>1, <1>4, <2>2, TopUpConfig
    <2> QED
      BY <2>3, <2>4, <2>6, <2>8, <2>9, TopUpsParts DEF GrantInv
  <1>5. CASE ~(quota.used <= Allowance + quota.carried + after)
    <2>1. reversal' = [reversal EXCEPT ![o] = "manual_review"] /\ quota' = quota
      BY <1>5 DEF Reverse
    <2>2. /\ \A p \in Orders : reversal'[p] = IF p = o THEN "manual_review" ELSE reversal[p]
          /\ GrantsHaveReasons'
      BY <1>3, <2>1
    <2>3. GrantTypes'
      BY <1>1, <1>3, <2>1, <2>2 DEF GrantInv, GrantTypes
    <2>4. Kept' = Kept
      BY <1>1, <2>2 DEF Kept
    <2> QED
      BY <2>1, <2>2, <2>3, <2>4, TopUpsParts DEF GrantInv
  <1> QED
    BY <1>4, <1>5

LEMMA GrantNext == GrantInv /\ [TopUpsNext]_topUpVars => GrantInv'
  <1> SUFFICES ASSUME GrantInv, [TopUpsNext]_topUpVars PROVE GrantInv'
    OBVIOUS
  <1>a. /\ quota \in [topUp : Nat, used : Nat, carried : 0..Carried]
        /\ quota.used <= Allowance + Carried + quota.topUp
        /\ refunds \in [LemonOrders \X Payments -> {"none", "full", "partial"}]
    BY TopUpsParts DEF GrantInv, GrantTypes
  <1>1. ASSUME UNCHANGED <<paid, refunds, grant, reversal, quota>> PROVE GrantInv'
    BY <1>a, <1>1, QuotaMoves
  <1>2. CASE UNCHANGED topUpVars
    BY <1>1, <1>2 DEF topUpVars
  <1>3. ASSUME NEW r \in Requests,
               \/ \E o \in Orders : PlaceOrder(r, o)
               \/ InspectReplay(r) \/ BeginCheckout(r) \/ CallProvider(r) \/ BindCheckout(r)
               \/ MarkUncertain(r) \/ FindCheckout(r) \/ RebindCheckout(r) \/ CrashRequest(r)
        PROVE  GrantInv'
    BY <1>1, <1>3 DEF PlaceOrder, InspectReplay, BeginCheckout, CallProvider, BindCheckout,
                      MarkUncertain, FindCheckout, RebindCheckout, CrashRequest, Trade
  <1>4. ASSUME NEW o \in LemonOrders, NEW n \in Payments, Pay(o, n) PROVE GrantInv'
    BY <1>a, <1>4, QuotaMoves DEF Pay
  <1>5. ASSUME NEW o \in LemonOrders, NEW n \in Payments, NEW extent \in {"full", "partial"},
               Refund(<<o, n>>, extent)
        PROVE  GrantInv'
    <2> DEFINE p == <<o, n>>
    <2>1. p \in LemonOrders \X Payments
      OBVIOUS
    <2>2. /\ refunds[p] = "none" /\ refunds' = [refunds EXCEPT ![p] = extent]
          /\ UNCHANGED <<paid, grant, reversal, quota>>
      BY <1>5 DEF Refund
    <2> HIDE DEF p
    <2>3. /\ refunds' \in [LemonOrders \X Payments -> {"none", "full", "partial"}]
          /\ \A q \in LemonOrders \X Payments : refunds[q] = "full" => refunds'[q] = "full"
      BY <1>a, <2>1, <2>2
    <2> QED
      BY <1>a, <2>2, <2>3, QuotaMoves
  <1>6. ASSUME NEW o \in LemonOrders, NEW n \in Payments, ProcessPayment(<<o, n>>)
        PROVE  GrantInv'
    <2>1. o \in Orders /\ n \in Nat \ {0}
      BY TopUpConfig DEF Orders
    <2>2. ApplyGrant(o, n) /\ <<o, n>> \in paid /\ UNCHANGED <<paid, refunds, reversal>>
      BY <1>6 DEF ProcessPayment
    <2> QED
      BY <2>1, <2>2, GrantKeeps
  <1>7. ASSUME NEW o \in LocalOrders, VerifyLocalPayment(o) PROVE GrantInv'
    <2>1. o \in Orders /\ o \notin LemonOrders /\ 1 \in Nat \ {0}
      BY TopUpConfig DEF Orders
    <2>2. ApplyGrant(o, 1) /\ UNCHANGED <<paid, refunds, reversal>>
      BY <1>7 DEF VerifyLocalPayment
    <2> QED
      BY <2>1, <2>2, GrantKeeps
  <1>8. ASSUME NEW o \in LemonOrders, NEW n \in Payments, ProcessRefund(<<o, n>>)
        PROVE  GrantInv'
    <2>1. UNCHANGED <<paid, refunds, grant>>
      BY <1>8 DEF ProcessRefund
    <2>2. CASE refunds[<<o, n>>] = "full"
      <3>1. Reverse(o)
        BY <1>8, <2>2 DEF ProcessRefund
      <3> QED
        BY <2>1, <2>2, <3>1, ReverseKeeps
    <2>3. CASE refunds[<<o, n>>] # "full"
      BY <1>1, <1>8, <2>1, <2>3 DEF ProcessRefund
    <2> QED
      BY <2>2, <2>3
  <1>9. ASSUME NEW u \in {1, Bundle}, UseUnits(u) PROVE GrantInv'
    <2>1. u \in Nat
      BY TopUpConfig
    <2>2. /\ quota' = [quota EXCEPT !.used = @ + u] /\ quota.used + u <= Limit
          /\ UNCHANGED <<paid, refunds, grant, reversal>>
      BY <1>9 DEF UseUnits
    <2>3. /\ quota' \in [topUp : Nat, used : Nat, carried : 0..Carried]
          /\ quota'.topUp = quota.topUp /\ quota'.used = quota.used + u
      BY <1>a, <2>1, <2>2
    <2>4. quota'.used <= Allowance + Carried + quota'.topUp
      BY <1>a, <2>1, <2>2, <2>3, TopUpConfig DEF Limit
    <2> QED
      BY <1>a, <2>2, <2>3, <2>4, QuotaMoves
  <1>10. CASE LockRollover
    <2>1. quota' = [quota EXCEPT !.carried = 0] /\ UNCHANGED <<paid, refunds, grant, reversal>>
      BY <1>10 DEF LockRollover
    <2>2. /\ quota' \in [topUp : Nat, used : Nat, carried : 0..Carried]
          /\ quota'.topUp = quota.topUp /\ quota'.used = quota.used
      BY <1>a, <2>1, TopUpConfig
    <2> QED
      BY <1>a, <2>1, <2>2, QuotaMoves
  <1>11. CASE PeriodEnds
    BY <1>1, <1>11 DEF PeriodEnds
  <1> QED
    BY <1>2, <1>3, <1>4, <1>5, <1>6, <1>7, <1>8, <1>9, <1>10, <1>11 DEF TopUpsNext

\* The units topped up are those of the grants that were not reversed, for any
\* number of orders, payments, repeated deliveries and refunds.
THEOREM TopUpsStayGrants == TopUpsSpec => []TopUpsAreGrants
  <1>1. GrantInv => TopUpsAreGrants
    BY DEF GrantInv
  <1> QED
    BY <1>1, GrantInit, GrantNext, PTL DEF TopUpsSpec

-----------------------------------------------------------------------------
(* Direct orders                                                           *)

OrderStatuses == {"none", "awaiting_contract", "awaiting_payment", "payment_under_review",
                  "ready_for_activation", "requires_review", "activated"}

OrderPayments == {"pending", "customer_reported", "requires_review", "verified", "rejected"}

OrderRows == [status : OrderStatuses, contract : {"pending", "completed"},
              payment : OrderPayments]

EvidenceStatuses == {"none", "matched", "requires_review", "rejected"}

EvidenceRows == [order : Purchases \cup {Nobody}, exact : BOOLEAN, status : EvidenceStatuses]

DirectTypeOK ==
  /\ purchase \in [Purchases -> OrderRows]
  /\ evidence \in [Transfers -> EvidenceRows]
  /\ verdict \in [Purchases -> [status : {"none", "verified", "rejected"},
                                by : Transfers \cup {Nobody}]]
  /\ case \in [Transfers -> [action : {"none", "accept_match", "review"},
                             key : DecisionKeys \cup {Nobody}]]
  /\ entitlement \in [Sources -> {"none", "active", "suspended"}]
  /\ working \subseteq Sources

\* Evidence names its order, and a verification names evidence of its own order.
EvidenceIsLinked ==
  /\ \A t \in Transfers : evidence[t] # NoEvidence => evidence[t].order \in Purchases
  /\ \A o \in Purchases : verdict[o].status = "verified" =>
        /\ verdict[o].by \in Transfers
        /\ evidence[verdict[o].by] # NoEvidence
        /\ evidence[verdict[o].by].order = o

\* What a subscription of order o rests on.
PaidFor(o) == /\ purchase[o].contract = "completed"
              /\ verdict[o].status = "verified"
              /\ evidence[verdict[o].by].exact

\* An activation under way keeps what its checks saw until it commits, and a
\* subscription keeps it for good.
ActivationsArePaid ==
  \A o \in Purchases :
    /\ o \in working => purchase[o].status = "ready_for_activation" /\ PaidFor(o)
    /\ entitlement[o] # "none" => purchase[o].status = "activated" /\ PaidFor(o)

OneActive ==
  \A r, s \in Sources : r # s /\ Owner[r] = Owner[s] =>
     ~(entitlement[r] = "active" /\ entitlement[s] = "active")

DirectInv == DirectTypeOK /\ EvidenceIsLinked /\ ActivationsArePaid /\ OneActive

\* There is nothing to pay for at the start.
LEMMA DirectInitInv == DirectInit => DirectInv
  BY DirectConfig
  DEF DirectInit, DirectInv, DirectTypeOK, EvidenceIsLinked, ActivationsArePaid, OneActive,
      OrderRows, OrderStatuses, OrderPayments, EvidenceRows, EvidenceStatuses, NoEvidence, NoVerdict, NoCase, Sources

\* The updates of one row of an order.
OrderMoves(o, st, pay) ==
  \/ purchase' = [purchase EXCEPT ![o].status = st]
  \/ purchase' = [purchase EXCEPT ![o].contract = "completed", ![o].status = st]
  \/ purchase' = [purchase EXCEPT ![o].status = st, ![o].payment = pay]

\* They leave the other orders alone.
LEMMA OrderMovesOK ==
  ASSUME DirectTypeOK, NEW o \in Purchases, NEW st \in OrderStatuses,
         NEW pay \in OrderPayments, OrderMoves(o, st, pay)
  PROVE  /\ purchase' \in [Purchases -> OrderRows]
         /\ \A q \in Purchases : q # o => purchase'[q] = purchase[q]
  <1>1. purchase[o] \in OrderRows
    BY DEF DirectTypeOK
  <1> DEFINE r1 == [purchase[o] EXCEPT !.status = st]
             r2 == [purchase[o] EXCEPT !.contract = "completed", !.status = st]
             r3 == [purchase[o] EXCEPT !.status = st, !.payment = pay]
  <1>2. {r1, r2, r3} \subseteq OrderRows
    BY <1>1 DEF OrderRows
  <1>3. \E r \in {r1, r2, r3} : purchase' = [purchase EXCEPT ![o] = r]
    BY DEF OrderMoves
  <1> HIDE DEF r1, r2, r3
  <1> QED
    BY <1>2, <1>3 DEF DirectTypeOK

\* The status of evidence moves, what it is evidence of does not.
EvidenceMoves(t, st) == evidence' = [evidence EXCEPT ![t].status = st]

LEMMA EvidenceMovesOK ==
  ASSUME DirectTypeOK, NEW t \in Transfers, NEW st \in EvidenceStatuses \ {"none"},
         EvidenceMoves(t, st), evidence[t] # NoEvidence
  PROVE  /\ evidence' \in [Transfers -> EvidenceRows]
         /\ \A u \in Transfers : /\ evidence'[u].order = evidence[u].order
                                 /\ evidence'[u].exact = evidence[u].exact
                                 /\ (evidence'[u] = NoEvidence) = (evidence[u] = NoEvidence)
  <1> DEFINE r == [evidence[t] EXCEPT !.status = st]
  <1>1. /\ r \in EvidenceRows /\ r.order = evidence[t].order /\ r.exact = evidence[t].exact
        /\ r # NoEvidence
    <2>1. evidence[t] \in EvidenceRows
      BY DEF DirectTypeOK
    <2> QED
      BY <2>1 DEF EvidenceRows, EvidenceStatuses, NoEvidence
  <1>2. evidence' = [evidence EXCEPT ![t] = r]
    BY DEF EvidenceMoves
  <1> HIDE DEF r
  <1> QED
    BY <1>1, <1>2 DEF DirectTypeOK

\* Rows of subscriptions and activations that a step leaves alone keep their
\* invariant when order o, if it is one of theirs, keeps what they rest on.
LEMMA StillPaid ==
  ASSUME DirectInv, NEW o \in Purchases, Unlocked(o),
         UNCHANGED <<entitlement, working>>,
         \A q \in Purchases : q # o => purchase'[q] = purchase[q],
         \A q \in Purchases : q # o => verdict'[q] = verdict[q],
         \A t \in Transfers : evidence[t] # NoEvidence => evidence'[t].exact = evidence[t].exact,
         entitlement[o] # "none" => /\ purchase'[o].status = "activated"
                                    /\ purchase'[o].contract = "completed"
                                    /\ verdict'[o] = verdict[o]
  PROVE  ActivationsArePaid' /\ OneActive'
  <1>1. ASSUME NEW q \in Purchases, PaidFor(q), verdict'[q] = verdict[q]
        PROVE  verdict'[q].status = "verified" /\ evidence'[verdict'[q].by].exact
    BY <1>1 DEF DirectInv, EvidenceIsLinked, PaidFor
  <1>2. ASSUME NEW q \in Purchases, q # o
        PROVE  /\ q \in working' => purchase'[q].status = "ready_for_activation" /\ PaidFor(q)'
               /\ entitlement'[q] # "none" => purchase'[q].status = "activated" /\ PaidFor(q)'
    BY <1>1, <1>2 DEF DirectInv, ActivationsArePaid, PaidFor
  <1>3. /\ o \notin working'
        /\ entitlement'[o] # "none" => purchase'[o].status = "activated" /\ PaidFor(o)'
    BY <1>1 DEF DirectInv, ActivationsArePaid, PaidFor, Unlocked
  <1>4. ActivationsArePaid'
    BY <1>2, <1>3 DEF ActivationsArePaid
  <1>5. OneActive'
    BY DEF DirectInv, OneActive
  <1> QED
    BY <1>4, <1>5

\* A new order, or its contract, is far from activation.
LEMMA OrderInv ==
  ASSUME DirectInv, NEW o \in Purchases, CreateOrder(o) \/ CompleteContract(o)
  PROVE  DirectInv'
  <1>1. \/ OrderMoves(o, "awaiting_contract", "pending")
        \/ OrderMoves(o, "awaiting_payment", "pending")
    BY DEF CreateOrder, CompleteContract, OrderMoves
  <1>2. /\ purchase' \in [Purchases -> OrderRows]
        /\ \A q \in Purchases : q # o => purchase'[q] = purchase[q]
    BY <1>1, OrderMovesOK DEF DirectInv, OrderStatuses, OrderPayments
  <1>3. UNCHANGED <<evidence, verdict, case, entitlement, working>>
    BY DEF CreateOrder, CompleteContract
  <1>4. DirectTypeOK' /\ EvidenceIsLinked'
    BY <1>2, <1>3 DEF DirectInv, DirectTypeOK, EvidenceIsLinked
  <1>5. o \notin working /\ entitlement[o] = "none"
    BY DEF DirectInv, ActivationsArePaid, CreateOrder, CompleteContract
  <1>6. ActivationsArePaid' /\ OneActive'
    BY <1>2, <1>3, <1>5, StillPaid DEF Unlocked
  <1> QED
    BY <1>4, <1>6 DEF DirectInv

\* A report is new evidence: no verification rests on it yet.
LEMMA ReportInv ==
  ASSUME DirectInv, NEW t \in Transfers, NEW o \in Purchases, NEW exact \in BOOLEAN,
         Report(t, o, exact)
  PROVE  DirectInv'
  <1> DEFINE e == [order |-> o, exact |-> exact,
                   status |-> IF exact THEN "matched" ELSE "requires_review"]
  <1>1. /\ purchase' \in [Purchases -> OrderRows]
        /\ \A q \in Purchases : q # o => purchase'[q] = purchase[q]
    <2>1. \/ OrderMoves(o, "awaiting_payment", "customer_reported")
          \/ OrderMoves(o, "payment_under_review", "requires_review")
      BY DEF Report, Reopened, OrderMoves
    <2> QED
      BY <2>1, OrderMovesOK DEF DirectInv, OrderStatuses, OrderPayments
  <1>2. e \in EvidenceRows /\ e.order = o /\ e # NoEvidence
    BY DEF EvidenceRows, EvidenceStatuses, NoEvidence
  <1>3. /\ evidence[t] = NoEvidence /\ evidence' = [evidence EXCEPT ![t] = e]
        /\ UNCHANGED <<verdict, case, entitlement, working>> /\ Unlocked(o)
    BY DEF Report
  <1> HIDE DEF e
  <1>4. DirectTypeOK'
    BY <1>1, <1>2, <1>3 DEF DirectInv, DirectTypeOK
  <1>5. EvidenceIsLinked'
    BY <1>2, <1>3 DEF DirectInv, DirectTypeOK, EvidenceIsLinked
  <1>6. entitlement[o] = "none"
    BY DEF DirectInv, ActivationsArePaid, Report
  <1>7. \A u \in Transfers : evidence[u] # NoEvidence => evidence'[u].exact = evidence[u].exact
    BY <1>3 DEF DirectInv, DirectTypeOK
  <1>8. ActivationsArePaid' /\ OneActive'
    BY <1>1, <1>3, <1>6, <1>7, StillPaid
  <1> QED
    BY <1>4, <1>5, <1>8 DEF DirectInv

\* The one verification of an order precedes its activation.
LEMMA VerdictInv ==
  ASSUME DirectInv, NEW t \in Transfers, VerifyPayment(t) \/ RejectPayment(t)
  PROVE  DirectInv'
  <1> DEFINE o == evidence[t].order
  <1>1. /\ o \in Purchases /\ evidence[t] # NoEvidence /\ Unlocked(o)
        /\ verdict[o] = NoVerdict
        /\ UNCHANGED <<case, entitlement, working>>
    BY DEF VerifyPayment, RejectPayment, DirectInv, EvidenceIsLinked
  <1>2. \/ OrderMoves(o, "ready_for_activation", "verified")
        \/ OrderMoves(o, "requires_review", "rejected")
    BY DEF VerifyPayment, RejectPayment, OrderMoves
  <1>3. PICK v \in {"verified", "rejected"} :
          verdict' = [verdict EXCEPT ![o] = [status |-> v, by |-> t]]
    BY DEF VerifyPayment, RejectPayment
  <1>4. \/ evidence' = evidence
        \/ EvidenceMoves(t, "rejected")
    BY DEF VerifyPayment, RejectPayment, EvidenceMoves
  <1> HIDE DEF o
  <1>5. /\ purchase' \in [Purchases -> OrderRows]
        /\ \A q \in Purchases : q # o => purchase'[q] = purchase[q]
    BY <1>1, <1>2, OrderMovesOK DEF DirectInv, DirectTypeOK, OrderStatuses, OrderPayments
  <1>6. /\ evidence' \in [Transfers -> EvidenceRows]
        /\ \A u \in Transfers : /\ evidence'[u].order = evidence[u].order
                                /\ evidence'[u].exact = evidence[u].exact
                                /\ (evidence'[u] = NoEvidence) = (evidence[u] = NoEvidence)
    BY <1>1, <1>4, EvidenceMovesOK DEF DirectInv, DirectTypeOK, EvidenceStatuses
  <1>7. DirectTypeOK'
    BY <1>1, <1>3, <1>5, <1>6 DEF DirectInv, DirectTypeOK
  <1>8. EvidenceIsLinked'
    BY <1>1, <1>3, <1>6 DEF DirectInv, DirectTypeOK, EvidenceIsLinked, o
  <1>9. entitlement[o] = "none"
    BY <1>1 DEF DirectInv, ActivationsArePaid, PaidFor, NoVerdict
  <1>10. \A q \in Purchases : q # o => verdict'[q] = verdict[q]
    BY <1>3 DEF DirectInv, DirectTypeOK
  <1>11. ActivationsArePaid' /\ OneActive'
    BY <1>1, <1>5, <1>6, <1>9, <1>10, StillPaid
  <1> QED
    BY <1>7, <1>8, <1>11 DEF DirectInv

\* A decision changes the status of evidence and of orders that are not activated.
LEMMA ReconcileInv ==
  ASSUME DirectInv, NEW t \in Transfers, NEW action \in {"accept_match", "review"},
         NEW k \in DecisionKeys, Reconcile(t, action, k)
  PROVE  DirectInv'
  <1> DEFINE o == evidence[t].order
  <1>1. /\ o \in Purchases /\ evidence[t] # NoEvidence /\ Unlocked(o)
        /\ UNCHANGED <<verdict, entitlement, working>>
        /\ case' = [case EXCEPT ![t] = [action |-> action, key |-> k]]
    BY DEF Reconcile, DirectInv, EvidenceIsLinked
  <1>2. /\ purchase[o].status = "activated" => purchase' = purchase
        /\ \/ purchase' = purchase
           \/ OrderMoves(o, "awaiting_payment", "customer_reported")
           \/ OrderMoves(o, "payment_under_review", "requires_review")
    BY DEF Reconcile, Reopened, OrderMoves
  <1>3. EvidenceMoves(t, "matched") \/ EvidenceMoves(t, "requires_review")
    BY DEF Reconcile, EvidenceMoves
  <1> HIDE DEF o
  <1>4. /\ purchase' \in [Purchases -> OrderRows]
        /\ \A q \in Purchases : q # o => purchase'[q] = purchase[q]
    BY <1>1, <1>2, OrderMovesOK DEF DirectInv, DirectTypeOK, OrderStatuses, OrderPayments
  <1>5. /\ evidence' \in [Transfers -> EvidenceRows]
        /\ \A u \in Transfers : /\ evidence'[u].order = evidence[u].order
                                /\ evidence'[u].exact = evidence[u].exact
                                /\ (evidence'[u] = NoEvidence) = (evidence[u] = NoEvidence)
    BY <1>1, <1>3, EvidenceMovesOK DEF DirectInv, DirectTypeOK, EvidenceStatuses
  <1>6. DirectTypeOK'
    BY <1>1, <1>4, <1>5 DEF DirectInv, DirectTypeOK
  <1>7. EvidenceIsLinked'
    BY <1>1, <1>5 DEF DirectInv, EvidenceIsLinked
  <1>8. entitlement[o] # "none" => /\ purchase'[o].status = "activated"
                                   /\ purchase'[o].contract = "completed"
    BY <1>1, <1>2 DEF DirectInv, ActivationsArePaid, PaidFor
  <1>9. ActivationsArePaid' /\ OneActive'
    BY <1>1, <1>4, <1>5, <1>8, StillPaid
  <1> QED
    BY <1>6, <1>7, <1>9 DEF DirectInv

\* The checks of an activation establish what it rests on.
LEMMA BeginInv ==
  ASSUME DirectInv,
         \/ \E o \in Purchases : BeginActivation(o)
         \/ \E a \in Assessments : BeginAssessment(a)
  PROVE  DirectInv'
  <1> USE DEF DirectInv
  <1>1. DirectTypeOK'
    BY DEF DirectTypeOK, BeginActivation, BeginAssessment, Sources
  <1>2. EvidenceIsLinked' /\ OneActive'
    BY DEF EvidenceIsLinked, OneActive, BeginActivation, BeginAssessment
  <1>3. ActivationsArePaid'
    BY DirectConfig
    DEF ActivationsArePaid, PaidFor, PaidInFull, BeginActivation, BeginAssessment
  <1> QED
    BY <1>1, <1>2, <1>3

\* An insertion never gives a customer a second active subscription.
LEMMA InsertedInv ==
  ASSUME DirectTypeOK, OneActive, NEW s \in Sources, Inserted(s)
  PROVE  /\ OneActive'
         /\ entitlement' \in [Sources -> {"none", "active", "suspended"}]
         /\ \A r \in Sources : r # s => entitlement'[r] = entitlement[r]
  BY DEF DirectTypeOK, OneActive, Inserted, HasActive

\* A commit inserts for what its own checks saw.
LEMMA CommitInv ==
  ASSUME DirectInv, NEW s \in Sources, CommitActivation(s)
  PROVE  DirectInv'
  <1> USE DEF DirectInv
  <1>1. /\ OneActive'
        /\ entitlement' \in [Sources -> {"none", "active", "suspended"}]
        /\ \A r \in Sources : r # s => entitlement'[r] = entitlement[r]
    BY InsertedInv DEF CommitActivation
  <1>2. DirectTypeOK'
    <2>1. purchase' \in [Purchases -> OrderRows]
      <3>1. \/ UNCHANGED purchase
            \/ s \in Purchases /\ OrderMoves(s, "activated", "verified")
        BY DEF CommitActivation, OrderMoves
      <3> QED
        BY <3>1, OrderMovesOK DEF DirectTypeOK, OrderStatuses, OrderPayments
    <2> QED
      BY <1>1, <2>1 DEF DirectTypeOK, CommitActivation
  <1>3. EvidenceIsLinked'
    BY DEF EvidenceIsLinked, CommitActivation
  <1>4. ASSUME NEW o \in Purchases, o # s
        PROVE  /\ o \in working' => purchase'[o].status = "ready_for_activation" /\ PaidFor(o)'
               /\ entitlement'[o] # "none" => purchase'[o].status = "activated" /\ PaidFor(o)'
    BY <1>1, <1>4 DEF ActivationsArePaid, PaidFor, CommitActivation, Sources, DirectTypeOK
  <1>5. ASSUME s \in Purchases
        PROVE  entitlement'[s] # "none" => purchase'[s].status = "activated" /\ PaidFor(s)'
    <2>1. PaidFor(s)'
      BY <1>5 DEF ActivationsArePaid, PaidFor, CommitActivation, DirectTypeOK
    <2>2. entitlement[s] = "none"
      BY <1>5 DEF ActivationsArePaid, CommitActivation
    <2> QED
      BY <1>5, <2>1, <2>2 DEF CommitActivation, DirectTypeOK
  <1>6. ActivationsArePaid'
    BY <1>4, <1>5 DEF ActivationsArePaid, CommitActivation
  <1> QED
    BY <1>1, <1>2, <1>3, <1>6

\* What ends or resumes activations and subscriptions.
LEMMA SubscriptionInv ==
  ASSUME DirectInv, NEW s \in Sources, AbortActivation(s) \/ Suspend(s) \/ Resume(s)
  PROVE  DirectInv'
  <1> USE DEF DirectInv
  <1>1. CASE AbortActivation(s)
    <2>1. DirectTypeOK' /\ EvidenceIsLinked' /\ OneActive'
      BY <1>1 DEF DirectTypeOK, EvidenceIsLinked, OneActive, AbortActivation
    <2>2. ActivationsArePaid'
      BY <1>1 DEF ActivationsArePaid, PaidFor, AbortActivation
    <2> QED
      BY <2>1, <2>2
  <1>2. CASE Suspend(s)
    <2>1. DirectTypeOK' /\ EvidenceIsLinked' /\ OneActive'
      BY <1>2 DEF DirectTypeOK, EvidenceIsLinked, OneActive, Suspend
    <2>2. ActivationsArePaid'
      BY <1>2 DEF ActivationsArePaid, PaidFor, DirectTypeOK, Suspend, Sources
    <2> QED
      BY <2>1, <2>2
  <1>3. CASE Resume(s)
    <2>1. /\ OneActive'
          /\ entitlement' \in [Sources -> {"none", "active", "suspended"}]
          /\ \A r \in Sources : r # s => entitlement'[r] = entitlement[r]
      BY <1>3, InsertedInv DEF Resume
    <2>2. DirectTypeOK' /\ EvidenceIsLinked'
      BY <1>3, <2>1 DEF DirectTypeOK, EvidenceIsLinked, Resume
    <2>3. ActivationsArePaid'
      BY <1>3, <2>1 DEF ActivationsArePaid, PaidFor, Resume, Sources
    <2> QED
      BY <2>1, <2>2, <2>3
  <1> QED
    BY <1>1, <1>2, <1>3

\* Every step keeps the invariant.
LEMMA DirectNextInv == DirectInv /\ [DirectNext]_directVars => DirectInv'
  <1> SUFFICES ASSUME DirectInv, [DirectNext]_directVars PROVE DirectInv'
    OBVIOUS
  <1>1. CASE \/ UNCHANGED directVars \/ WithdrawOffer
             \/ \E s \in Sources : ChangeEligibility(Owner[s])
    BY <1>1 DEF DirectInv, DirectTypeOK, EvidenceIsLinked, ActivationsArePaid, PaidFor,
                OneActive, directVars, WithdrawOffer, ChangeEligibility
  <1> QED
    BY <1>1, OrderInv, ReportInv, VerdictInv, ReconcileInv, BeginInv, CommitInv,
       SubscriptionInv DEF DirectNext

\* The invariant holds in every reachable state.
LEMMA DirectInvHolds == DirectSpec => []DirectInv
  BY DirectInitInv, DirectNextInv, PTL DEF DirectSpec

\* The rows of orders, evidence, verdicts, cases and subscriptions keep their types.
THEOREM DirectTypeCorrect == DirectSpec => []DirectTypeOK
  <1>1. DirectInv => DirectTypeOK
    BY DEF DirectInv
  <1> QED
    BY <1>1, DirectInvHolds, PTL

\* For any number of orders, transfers and customers: a subscription rests on a
\* verified report that matched exactly, and a customer has one active at most.
THEOREM SubscriptionsArePaid == DirectSpec => []OnePaidSubscription
  <1>1. DirectInv => OnePaidSubscription
    BY DEF DirectInv, ActivationsArePaid, PaidFor, EvidenceIsLinked, OneActive,
           OnePaidSubscription
  <1> QED
    BY <1>1, DirectInvHolds, PTL

\* A decision that another one has replaced is never brought back by a repeat.
THEOREM SupersededDecisionsStay == DirectSpec => SupersededStaysSuperseded
  <1>1. DirectInv /\ [DirectNext]_directVars =>
          [\A t \in Transfers : case'[t] # case[t] =>
             <<t, case'[t].action, case'[t].key>> \notin decided]_directVars
    <2> SUFFICES ASSUME DirectInv, DirectNext, NEW t \in Transfers, case'[t] # case[t]
                 PROVE  <<t, case'[t].action, case'[t].key>> \notin decided
      BY DEF directVars
    <2>1. PICK u \in Transfers, action \in {"accept_match", "review"}, k \in DecisionKeys :
             Reconcile(u, action, k)
      <3>1. \A o \in Purchases : CreateOrder(o) \/ CompleteContract(o) \/ BeginActivation(o)
              => UNCHANGED case
        BY DEF CreateOrder, CompleteContract, BeginActivation
      <3>2. \A u \in Transfers : VerifyPayment(u) \/ RejectPayment(u) => UNCHANGED case
        BY DEF VerifyPayment, RejectPayment
      <3>3. \A u \in Transfers, o \in Purchases, exact \in BOOLEAN :
              Report(u, o, exact) => UNCHANGED case
        BY DEF Report
      <3>4. \A s \in Sources : \/ CommitActivation(s) \/ AbortActivation(s) \/ Suspend(s)
                              \/ Resume(s) \/ ChangeEligibility(Owner[s])
              => UNCHANGED case
        BY DEF CommitActivation, AbortActivation, Suspend, Resume, ChangeEligibility
      <3>5. /\ \A a \in Assessments : BeginAssessment(a) => UNCHANGED case
            /\ WithdrawOffer => UNCHANGED case
        BY DEF BeginAssessment, WithdrawOffer
      <3> QED
        BY <3>1, <3>2, <3>3, <3>4, <3>5 DEF DirectNext
    <2>2. u = t /\ case'[t] = [action |-> action, key |-> k]
      BY <2>1 DEF Reconcile, DirectInv, DirectTypeOK
    <2>3. SUFFICES ASSUME <<t, action, k>> \in decided
                   PROVE  <<action, evidence[t].order, k>> \in Notified
      BY <2>1, <2>2 DEF Reconcile, FreshDecision
    <2> QED
      BY <2>3 DEF Notified
  <1> QED
    BY <1>1, DirectInvHolds, PTL DEF DirectSpec, SupersededStaysSuperseded
=============================================================================
