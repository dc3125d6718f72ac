--------------------------- MODULE AdmissionProofs ---------------------------
(***************************************************************************)
(* Safety of the gates that admit work, for any number of workers,         *)
(* reservations and requests and for any policy: the adaptive gate of the  *)
(* worker pool, the two backends of the domain capacity, the life cycle of *)
(* the pool and the admission of HTTP requests.                            *)
(*                                                                         *)
(* Each part has its inductive invariant: GateInv, MemoryInv, RedisInv,    *)
(* PoolInv and RequestInv.  What the limits speak of, the work under an    *)
(* unexpired lease, is never what admission counts, the live entries of a  *)
(* table: each invariant says that the former are among the latter.        *)
(***************************************************************************)
EXTENDS AdaptiveConcurrency, DomainCapacity, RedisDomainCapacity, RequestCapacity,
        PoolLifecycle, FiniteSums

-----------------------------------------------------------------------------
(* The adaptive gate                                                       *)

Inside(p) == {w \in Workers : p[w] = "inside"}

\* The streaks of the controller are streaks of samples.
StreaksAreRuns ==
  /\ healthy > 0 => run.kind = "healthy" /\ run.length >= healthy
  /\ pressure > 0 => run.kind = "soft" /\ run.length >= pressure

GateInv ==
  /\ TypeOK
  /\ LimitInBounds
  /\ ActiveIsExact
  /\ SleepersAreBlocked
  /\ StreaksAreRuns

\* floor(limit * ratio) is a natural number that is not above the limit.
LEMMA ReducedIsSmaller ==
  ASSUME NEW l \in Nat
  PROVE  /\ (l * RatioNum) \div RatioDen \in Nat
         /\ (l * RatioNum) \div RatioDen <= l
  <1>1. /\ RatioNum \in Nat /\ RatioDen \in Nat \ {0}
        /\ RatioNum <= RatioDen
    BY AdaptiveAssumption
  <1>2. l * RatioNum \in Nat /\ l * RatioNum <= l * RatioDen
    BY <1>1
  <1> DEFINE q == (l * RatioNum) \div RatioDen
             m == l * RatioNum
  <1>3. q \in Int /\ RatioDen * q <= m /\ m < RatioDen * (q + 1)
    <2>1. \A a \in Nat, b \in Nat \ {0} :
            a \div b \in Int /\ b * (a \div b) <= a /\ a < b * ((a \div b) + 1)
      OBVIOUS
    <2> QED
      BY <1>1, <1>2, <2>1
  <1>4. q >= 0
    <2>1. SUFFICES ASSUME q < 0 PROVE FALSE
      BY <1>3
    <2> HIDE DEF q, m
    <2>2. q + 1 <= 0
      BY <1>3, <2>1
    <2>3. RatioDen * (q + 1) <= 0
      <3>1. \A b \in Nat, k \in Int : k <= 0 => b * k <= 0
        OBVIOUS
      <3> QED
        BY <1>1, <1>3, <2>2, <3>1
    <2> QED
      BY <1>1, <1>2, <1>3, <2>3 DEF m
  <1>5. q <= l
    <2>1. SUFFICES ASSUME q > l PROVE FALSE
      BY <1>3
    <2> HIDE DEF q
    <2>2. q >= l + 1
      BY <1>3, <2>1
    <2>3. RatioDen * q >= RatioDen * (l + 1)
      BY <1>1, <1>3, <2>2
    <2>4. RatioDen * (l + 1) = l * RatioDen + RatioDen
      BY <1>1
    <2> QED
      BY <1>1, <1>2, <1>3, <2>3, <2>4 DEF m
  <1> QED
    BY <1>3, <1>4, <1>5

\* Both moves of the limit stay within the bounds, in the right direction.
LEMMA MovesAreBounded ==
  ASSUME limit \in Minimum..Maximum
  PROVE  /\ Increased \in Minimum..Maximum /\ Increased >= limit
         /\ Decreased \in Minimum..Maximum /\ Decreased <= limit
  <1>1. limit \in Nat /\ Minimum \in Nat /\ Maximum \in Nat
        /\ Minimum <= limit /\ limit <= Maximum /\ AdditiveStep \in Nat
    BY AdaptiveAssumption
  <1>2. Increased \in Minimum..Maximum /\ Increased >= limit
    BY <1>1 DEF Increased
  <1> DEFINE q == (limit * RatioNum) \div RatioDen
  <1>3. q \in Nat /\ q <= limit
    BY <1>1, ReducedIsSmaller
  <1>4. Decreased = IF q > Minimum THEN q ELSE Minimum
    BY DEF Decreased
  <1> HIDE DEF q
  <1>5. Decreased \in Minimum..Maximum /\ Decreased <= limit
    BY <1>1, <1>3, <1>4
  <1> QED
    BY <1>2, <1>5

\* The gate is empty and nobody sleeps at the start.
LEMMA GateInit == Init => GateInv
  <1> SUFFICES ASSUME Init PROVE GateInv
    OBVIOUS
  <1>1. TypeOK
    BY AdaptiveAssumption DEF Init, TypeOK, NewWindow, Kinds
  <1>2. LimitInBounds /\ SleepersAreBlocked /\ StreaksAreRuns
    BY AdaptiveAssumption
    DEF Init, LimitInBounds, SleepersAreBlocked, StreaksAreRuns
  <1>3. {w \in Workers : pc[w] = "inside"} = {}
    BY DEF Init
  <1>4. ActiveIsExact
    BY <1>3, FS_EmptySet DEF ActiveIsExact, Init
  <1> QED
    BY <1>1, <1>2, <1>4 DEF GateInv

\* The workers inside are finitely many.
LEMMA InsideIsFinite ==
  ASSUME NEW p PROVE IsFiniteSet(Inside(p)) /\ Cardinality(Inside(p)) \in Nat
  <1>1. Inside(p) \subseteq Workers /\ IsFiniteSet(Workers)
    BY AdaptiveAssumption DEF Inside
  <1> QED
    BY <1>1, FS_Subset, FS_CardinalityType

\* A worker that goes in is counted once.
LEMMA GoingInCounts ==
  ASSUME NEW p, NEW q, NEW w \in Workers, p[w] # "inside", q[w] = "inside",
         \A v \in Workers : v # w => (q[v] = "inside") = (p[v] = "inside")
  PROVE  Cardinality(Inside(q)) = Cardinality(Inside(p)) + 1
  <1>1. Inside(q) = Inside(p) \cup {w} /\ w \notin Inside(p)
    BY DEF Inside
  <1> QED
    BY <1>1, InsideIsFinite, FS_AddElement

\* A worker that comes out was counted, and is no longer.
LEMMA ComingOutCounts ==
  ASSUME NEW p, NEW q, NEW w \in Workers, p[w] = "inside", q[w] # "inside",
         \A v \in Workers : v # w => (q[v] = "inside") = (p[v] = "inside")
  PROVE  Cardinality(Inside(p)) = Cardinality(Inside(q)) + 1
  <1>1. \A v \in Workers : v # w => (p[v] = "inside") = (q[v] = "inside")
    OBVIOUS
  <1> QED
    BY <1>1, GoingInCounts

-----------------------------------------------------------------------------
(* The steps of the gate                                                   *)

\* What the gate's steps leave alone stays as it should be.
LEMMA ControllerAlone ==
  ASSUME GateInv, UNCHANGED <<limit, healthy, pressure, run>>
  PROVE  LimitInBounds' /\ StreaksAreRuns'
  BY DEF GateInv, LimitInBounds, StreaksAreRuns

\* A worker at the gate goes in and is counted, or sleeps at a full gate.
LEMMA GoInKeeps ==
  ASSUME GateInv, NEW w \in Workers, Acquire(w) \/ Wake(w)
  PROVE  GateInv'
  <1>1. /\ pc[w] \in {"out", "notified"}
        /\ UNCHANGED <<limit, healthy, pressure, window, sample, run>>
        /\ \/ /\ active < limit /\ active' = active + 1
              /\ pc' = [pc EXCEPT ![w] = "inside"]
           \/ /\ ~(active < limit) /\ active' = active
              /\ pc' = [pc EXCEPT ![w] = "asleep"]
    BY DEF Acquire, Wake
  <1>2. /\ active \in Nat /\ limit \in Nat
        /\ pc \in [Workers -> {"out", "asleep", "notified", "inside", "observing"}]
    BY DEF GateInv, TypeOK
  <1>3. TypeOK'
    BY <1>1, <1>2 DEF GateInv, TypeOK
  <1>4. LimitInBounds' /\ StreaksAreRuns'
    BY <1>1, ControllerAlone
  <1>5. SleepersAreBlocked'
    BY <1>1, <1>2 DEF GateInv, SleepersAreBlocked
  <1>6. active = Cardinality(Inside(pc))
    BY DEF GateInv, ActiveIsExact, Inside
  <1>7. active' = Cardinality(Inside(pc'))
    <2>1. CASE active < limit
      <3>1. /\ pc[w] # "inside" /\ pc'[w] = "inside"
            /\ \A v \in Workers :
                 v # w => (pc'[v] = "inside") = (pc[v] = "inside")
        BY <1>1, <1>2, <2>1
      <3> QED
        BY <1>1, <1>6, <2>1, <3>1, GoingInCounts
    <2>2. CASE ~(active < limit)
      <3>1. Inside(pc') = Inside(pc)
        BY <1>1, <1>2, <2>2 DEF Inside
      <3> QED
        BY <1>1, <1>6, <2>2, <3>1
    <2> QED
      BY <2>1, <2>2
  <1>8. ActiveIsExact'
    BY <1>7 DEF ActiveIsExact, Inside
  <1> QED
    BY <1>3, <1>4, <1>5, <1>8 DEF GateInv

\* A worker that comes out frees the slot it held and wakes everyone.
LEMMA ComeOutKeeps ==
  ASSUME GateInv, NEW w \in Workers, NEW next \in {"out", "observing"},
         pc[w] = "inside",
         active' = active - 1,
         pc' = NotifyAll([pc EXCEPT ![w] = next]),
         window' \in [records : Nat, errors : Nat, hard : Nat],
         sample' \in [Workers -> [records : Nat, errors : Nat, hard : Nat]],
         UNCHANGED <<limit, healthy, pressure, run>>
  PROVE  GateInv'
  <1>1. pc \in [Workers -> {"out", "asleep", "notified", "inside", "observing"}]
    BY DEF GateInv, TypeOK
  <1>2. /\ pc' \in [Workers -> {"out", "notified", "inside", "observing"}]
        /\ pc'[w] # "inside"
        /\ \A v \in Workers :
             v # w => (pc'[v] = "inside") = (pc[v] = "inside")
    BY <1>1 DEF NotifyAll
  <1>3. active = Cardinality(Inside(pc)) /\ Cardinality(Inside(pc')) \in Nat
    BY InsideIsFinite DEF GateInv, ActiveIsExact, Inside
  <1>4. Cardinality(Inside(pc)) = Cardinality(Inside(pc')) + 1
    <2> DEFINE q == pc'
    <2>1. /\ pc[w] = "inside" /\ q[w] # "inside"
          /\ \A v \in Workers :
               v # w => (q[v] = "inside") = (pc[v] = "inside")
      BY <1>2
    <2> HIDE DEF q
    <2>2. Cardinality(Inside(pc)) = Cardinality(Inside(q)) + 1
      BY ONLY <2>1, w \in Workers, ComingOutCounts
    <2> QED
      BY <2>2 DEF q
  <1>5. active' = Cardinality(Inside(pc')) /\ active' \in Nat
    BY <1>3, <1>4
  <1>6. TypeOK'
    BY <1>2, <1>5 DEF GateInv, TypeOK
  <1>7. LimitInBounds' /\ StreaksAreRuns'
    BY ControllerAlone
  <1>8. SleepersAreBlocked'
    BY <1>2 DEF SleepersAreBlocked
  <1>9. ActiveIsExact'
    BY <1>5 DEF ActiveIsExact, Inside
  <1> QED
    BY <1>6, <1>7, <1>8, <1>9 DEF GateInv

\* An iteration ends without a record.
LEMMA ReleaseUnrecordedKeeps ==
  ASSUME GateInv, NEW w \in Workers, ReleaseUnrecorded(w) PROVE GateInv'
  <1>1. /\ window' \in [records : Nat, errors : Nat, hard : Nat]
        /\ sample' \in [Workers -> [records : Nat, errors : Nat, hard : Nat]]
    BY DEF ReleaseUnrecorded, GateInv, TypeOK
  <1> QED
    BY <1>1, ComeOutKeeps DEF ReleaseUnrecorded

\* An iteration ends with a record, which may fill the window.
LEMMA ReleaseRecordedKeeps ==
  ASSUME GateInv, NEW w \in Workers, NEW o \in Outcomes, ReleaseRecorded(w, o)
  PROVE  GateInv'
  <1>1. Recorded(o) \in [records : Nat, errors : Nat, hard : Nat]
    BY DEF Recorded, GateInv, TypeOK
  <1>2. NewWindow \in [records : Nat, errors : Nat, hard : Nat]
    BY DEF NewWindow
  <1> DEFINE new == Recorded(o)
             full == new.records >= WindowSize
             next == IF full THEN "observing" ELSE "out"
  <1>3. /\ window' \in [records : Nat, errors : Nat, hard : Nat]
        /\ sample' \in [Workers -> [records : Nat, errors : Nat, hard : Nat]]
    BY <1>1, <1>2 DEF ReleaseRecorded, GateInv, TypeOK
  <1>4. /\ pc[w] = "inside" /\ active' = active - 1
        /\ pc' = NotifyAll([pc EXCEPT ![w] = next])
        /\ next \in {"out", "observing"}
        /\ UNCHANGED <<limit, healthy, pressure, run>>
    BY DEF ReleaseRecorded
  <1> HIDE DEF next
  <1> QED
    BY <1>3, <1>4, ComeOutKeeps

-----------------------------------------------------------------------------
(* The steps of the controller                                             *)

HysteresisStep ==
  /\ limit' < limit => \/ run'.kind = "hard"
                       \/ run'.kind = "soft" /\ run'.length >= PressureWindows
  /\ limit' > limit => /\ run'.kind = "healthy"
                       /\ run'.length >= RecoveryWindows

\* A streak of samples grows by one, up to the cap, or starts anew.
LEMMA RunGrows ==
  ASSUME GateInv, NEW kind \in Kinds, NEW n \in Nat,
         n > 0 => run.kind = kind /\ run.length >= n,
         n < RecoveryWindows + PressureWindows
  PROVE  /\ RunAfter(kind) \in [kind : Kinds, length : Nat]
         /\ RunAfter(kind).kind = kind
         /\ RunAfter(kind).length >= n + 1
  <1>1. run.length \in Nat /\ RecoveryWindows \in Nat /\ PressureWindows \in Nat
    BY AdaptiveAssumption DEF GateInv, TypeOK
  <1> QED
    BY <1>1 DEF RunAfter

\* What the controller makes of a sample keeps the bounds, and a streak that
\* moves the limit is a streak of samples.
LEMMA ControlIsBounded ==
  ASSUME GateInv, NEW kind \in Kinds, Control(kind), run' = RunAfter(kind)
  PROVE  /\ limit' \in Nat /\ healthy' \in Nat /\ pressure' \in Nat
         /\ run' \in [kind : Kinds, length : Nat]
         /\ LimitInBounds' /\ StreaksAreRuns' /\ HysteresisStep
  <1>1. /\ limit \in Minimum..Maximum /\ Minimum \in Nat /\ Maximum \in Nat
        /\ healthy \in Nat /\ healthy < RecoveryWindows
        /\ pressure \in Nat /\ pressure < PressureWindows
        /\ RecoveryWindows \in Nat \ {0} /\ PressureWindows \in Nat \ {0}
    BY AdaptiveAssumption DEF GateInv, TypeOK, LimitInBounds
  <1>2. /\ Increased \in Minimum..Maximum /\ Increased >= limit
        /\ Decreased \in Minimum..Maximum /\ Decreased <= limit
    BY <1>1, MovesAreBounded
  <1>3. /\ run' \in [kind : Kinds, length : Nat]
        /\ run'.kind = kind
    <2>1. 0 < RecoveryWindows + PressureWindows
      BY <1>1
    <2> QED
      BY <2>1, RunGrows
  <1>4. CASE kind = "hard"
    <2>1. healthy' = 0 /\ pressure' = 0 /\ limit' = Decreased
      BY <1>4 DEF Control
    <2> QED
      BY <1>1, <1>2, <1>3, <1>4, <2>1
      DEF LimitInBounds, StreaksAreRuns, HysteresisStep
  <1>5. CASE kind = "neutral"
    <2>1. healthy' = 0 /\ pressure' = 0 /\ limit' = limit
      BY <1>5 DEF Control
    <2> QED
      BY <1>1, <1>3, <2>1 DEF LimitInBounds, StreaksAreRuns, HysteresisStep
  <1>6. CASE kind = "soft"
    <2>1. run'.length >= pressure + 1
      <3>1. pressure > 0 => run.kind = "soft" /\ run.length >= pressure
        BY DEF GateInv, StreaksAreRuns
      <3>2. pressure < RecoveryWindows + PressureWindows
        BY <1>1
      <3> QED
        BY <1>1, <1>6, <3>1, <3>2, RunGrows
    <2>2. CASE pressure + 1 >= PressureWindows
      <3>1. healthy' = 0 /\ pressure' = 0 /\ limit' = Decreased
        BY <1>1, <1>6, <2>2 DEF Control
      <3>2. run'.length >= PressureWindows
        BY <1>1, <1>3, <2>1, <2>2
      <3> QED
        BY <1>1, <1>2, <1>3, <1>6, <3>1, <3>2
        DEF LimitInBounds, StreaksAreRuns, HysteresisStep
    <2>3. CASE ~(pressure + 1 >= PressureWindows)
      <3>1. healthy' = 0 /\ pressure' = pressure + 1 /\ limit' = limit
        BY <1>1, <1>6, <2>3 DEF Control
      <3> QED
        BY <1>1, <1>3, <1>6, <2>1, <2>3, <3>1
        DEF LimitInBounds, StreaksAreRuns, HysteresisStep
    <2> QED
      BY <2>2, <2>3
  <1>7. CASE kind = "healthy"
    <2>1. run'.length >= healthy + 1
      <3>1. healthy > 0 => run.kind = "healthy" /\ run.length >= healthy
        BY DEF GateInv, StreaksAreRuns
      <3>2. healthy < RecoveryWindows + PressureWindows
        BY <1>1
      <3> QED
        BY <1>1, <1>7, <3>1, <3>2, RunGrows
    <2>2. CASE healthy + 1 >= RecoveryWindows
      <3>1. healthy' = 0 /\ pressure' = 0 /\ limit' = Increased
        BY <1>1, <1>7, <2>2 DEF Control
      <3>2. run'.length >= RecoveryWindows
        BY <1>1, <1>3, <2>1, <2>2
      <3> QED
        BY <1>1, <1>2, <1>3, <1>7, <3>1, <3>2
        DEF LimitInBounds, StreaksAreRuns, HysteresisStep
    <2>3. CASE ~(healthy + 1 >= RecoveryWindows)
      <3>1. healthy' = healthy + 1 /\ pressure' = 0 /\ limit' = limit
        BY <1>1, <1>7, <2>3 DEF Control
      <3> QED
        BY <1>1, <1>3, <1>7, <2>1, <2>3, <3>1
        DEF LimitInBounds, StreaksAreRuns, HysteresisStep
    <2> QED
      BY <2>2, <2>3
  <1> QED
    BY <1>4, <1>5, <1>6, <1>7 DEF Kinds

\* An observation keeps the gate's count and wakes the sleepers if the limit
\* has moved.
LEMMA ObserveKeeps ==
  ASSUME GateInv, NEW w \in Workers, NEW l \in Latencies, Observe(w, l)
  PROVE  GateInv' /\ HysteresisStep
  <1> DEFINE kind == KindOf(sample[w], l)
  <1>1. kind \in Kinds
    BY DEF KindOf, Kinds
  <1>2. Control(kind) /\ run' = RunAfter(kind)
    BY DEF Observe
  <1> HIDE DEF kind
  <1>3. /\ limit' \in Nat /\ healthy' \in Nat /\ pressure' \in Nat
        /\ run' \in [kind : Kinds, length : Nat]
        /\ LimitInBounds' /\ StreaksAreRuns' /\ HysteresisStep
    BY <1>1, <1>2, ControlIsBounded
  <1>4. /\ pc \in [Workers -> {"out", "asleep", "notified", "inside", "observing"}]
        /\ pc[w] = "observing" /\ active \in Nat
        /\ active' = active /\ window' = window
        /\ sample' = [sample EXCEPT ![w] = NewWindow]
        /\ pc' = IF limit' # limit THEN NotifyAll([pc EXCEPT ![w] = "out"])
                                   ELSE [pc EXCEPT ![w] = "out"]
    BY DEF GateInv, TypeOK, Observe
  <1>5. /\ pc' \in [Workers -> {"out", "asleep", "notified", "inside", "observing"}]
        /\ Inside(pc') = Inside(pc)
        /\ \A v \in Workers :
             pc'[v] = "asleep" => pc[v] = "asleep" /\ limit' = limit
    BY <1>4 DEF NotifyAll, Inside
  <1>6. TypeOK'
    <2>1. NewWindow \in [records : Nat, errors : Nat, hard : Nat]
      BY DEF NewWindow
    <2>2. /\ sample' \in [Workers -> [records : Nat, errors : Nat, hard : Nat]]
          /\ window' \in [records : Nat, errors : Nat, hard : Nat]
      BY <1>4, <2>1 DEF GateInv, TypeOK
    <2> QED
      BY <1>3, <1>4, <1>5, <2>2 DEF TypeOK
  <1>7. SleepersAreBlocked'
    BY <1>4, <1>5 DEF GateInv, SleepersAreBlocked
  <1>8. ActiveIsExact'
    BY <1>4, <1>5 DEF GateInv, ActiveIsExact, Inside
  <1> QED
    BY <1>3, <1>6, <1>7, <1>8 DEF GateInv

-----------------------------------------------------------------------------
(* What holds of the gate                                                  *)

\* Every step keeps the invariant and moves the limit with hysteresis.
LEMMA GateNext == GateInv /\ [Next]_vars => GateInv' /\ [HysteresisStep]_vars
  <1> SUFFICES ASSUME GateInv, [Next]_vars PROVE GateInv' /\ [HysteresisStep]_vars
    OBVIOUS
  <1>1. limit \in Nat
    BY DEF GateInv, TypeOK
  <1>2. limit' = limit => HysteresisStep
    BY <1>1 DEF HysteresisStep
  <1>3. ASSUME NEW w \in Workers, Acquire(w) \/ Wake(w)
        PROVE  GateInv' /\ [HysteresisStep]_vars
    BY <1>2, <1>3, GoInKeeps DEF Acquire, Wake
  <1>4. ASSUME NEW w \in Workers, ReleaseUnrecorded(w)
        PROVE  GateInv' /\ [HysteresisStep]_vars
    BY <1>2, <1>4, ReleaseUnrecordedKeeps DEF ReleaseUnrecorded
  <1>5. ASSUME NEW w \in Workers, NEW o \in Outcomes, ReleaseRecorded(w, o)
        PROVE  GateInv' /\ [HysteresisStep]_vars
    BY <1>2, <1>5, ReleaseRecordedKeeps DEF ReleaseRecorded
  <1>6. ASSUME NEW w \in Workers, NEW l \in Latencies, Observe(w, l)
        PROVE  GateInv' /\ [HysteresisStep]_vars
    BY <1>6, ObserveKeeps
  <1>7. CASE UNCHANGED vars
    <2>1. TypeOK' /\ LimitInBounds' /\ StreaksAreRuns'
      BY <1>7 DEF vars, GateInv, TypeOK, LimitInBounds, StreaksAreRuns
    <2>2. ActiveIsExact' /\ SleepersAreBlocked'
      BY <1>7 DEF vars, GateInv, ActiveIsExact, SleepersAreBlocked
    <2> QED
      BY <1>7, <2>1, <2>2 DEF GateInv
  <1> QED
    BY <1>3, <1>4, <1>5, <1>6, <1>7 DEF Next

\* The invariant holds in every reachable state.
LEMMA GateInvHolds == Spec => []GateInv
  BY GateInit, GateNext, PTL DEF Spec

\* Controller, sampler and gate keep their types; the counter of the gate
\* never falls below zero.
THEOREM GateTypeCorrect == Spec => []TypeOK
  <1>1. GateInv => TypeOK
    BY DEF GateInv
  <1> QED
    BY <1>1, GateInvHolds, PTL

\* The limit stays within the policy's bounds, for every policy.
THEOREM LimitStaysInBounds == Spec => []LimitInBounds
  <1>1. GateInv => LimitInBounds
    BY DEF GateInv
  <1> QED
    BY <1>1, GateInvHolds, PTL

\* The gate counts exactly the iterations inside, for any number of workers.
THEOREM ActiveStaysExact == Spec => []ActiveIsExact
  <1>1. GateInv => ActiveIsExact
    BY DEF GateInv
  <1> QED
    BY <1>1, GateInvHolds, PTL

\* No wake-up is lost: a worker only sleeps while the gate is full.
THEOREM NoLostWakeUp == Spec => []SleepersAreBlocked
  <1>1. GateInv => SleepersAreBlocked
    BY DEF GateInv
  <1> QED
    BY <1>1, GateInvHolds, PTL

\* The limit only moves after the windows that the policy asks for.
THEOREM LimitHasHysteresis == Spec => Hysteresis
  <1>1. GateInv /\ [Next]_vars
          => [/\ limit' < limit =>
                   \/ run'.kind = "hard"
                   \/ run'.kind = "soft" /\ run'.length >= PressureWindows
              /\ limit' > limit => /\ run'.kind = "healthy"
                                   /\ run'.length >= RecoveryWindows]_vars
    BY GateNext DEF HysteresisStep
  <1> QED
    BY <1>1, GateInvHolds, PTL DEF Spec, Hysteresis

-----------------------------------------------------------------------------
(* The in-memory backend of the domain capacity                            *)

MemoryInv ==
  /\ MemoryTypeOK
  /\ HoldersAreKnown
  /\ RespectsPolicy(LiveIds)

-----------------------------------------------------------------------------
(* The policy                                                              *)

\* Fewer reservations respect the policy as well.
LEMMA PolicyIsMonotone ==
  ASSUME NEW M \in SUBSET Leases, NEW L \in SUBSET M, RespectsPolicy(M)
  PROVE  RespectsPolicy(L)
  <1>1. /\ IsFiniteSet(Leases) /\ GlobalLimit \in Nat
        /\ EmergencyReserve \in 0..GlobalLimit
        /\ DomainLimit \in [Domains -> Nat]
    BY PolicyAssumption
  <1>2. ASSUME NEW A \in SUBSET Leases, NEW B \in SUBSET A
        PROVE  /\ Cardinality(A) \in Nat /\ Cardinality(B) \in Nat
               /\ Cardinality(B) <= Cardinality(A)
    <2>1. IsFiniteSet(A) /\ IsFiniteSet(B)
      BY <1>1, FS_Subset
    <2> QED
      BY <2>1, FS_Subset, FS_CardinalityType
  <1>3. Cardinality(L) <= GlobalLimit
    BY <1>1, <1>2 DEF RespectsPolicy
  <1>4. ASSUME NEW d \in Domains
        PROVE  Cardinality(InDomain(L, d)) <= DomainLimit[d]
    <2>1. InDomain(L, d) \subseteq InDomain(M, d) /\ InDomain(M, d) \subseteq Leases
      BY DEF InDomain
    <2>2. Cardinality(InDomain(M, d)) <= DomainLimit[d]
      BY DEF RespectsPolicy
    <2> QED
      BY <1>1, <1>2, <2>1, <2>2
  <1>5. Cardinality(L \ Emergencies) <= GlobalLimit - EmergencyReserve
    <2>1. L \ Emergencies \subseteq M \ Emergencies /\ M \ Emergencies \subseteq Leases
      OBVIOUS
    <2>2. Cardinality(M \ Emergencies) <= GlobalLimit - EmergencyReserve
      BY DEF RespectsPolicy
    <2> QED
      BY <1>1, <1>2, <2>1, <2>2
  <1> QED
    BY <1>3, <1>4, <1>5 DEF RespectsPolicy

\* The admission test leaves room for one more reservation.
LEMMA AdmissionKeepsPolicy ==
  ASSUME NEW L \in SUBSET Leases, NEW l \in Leases, RespectsPolicy(L),
         Admits(l, Cardinality(L), Cardinality(InDomain(L, DomainOf[l])))
  PROVE  RespectsPolicy(L \cup {l})
  <1>1. /\ IsFiniteSet(Leases) /\ GlobalLimit \in Nat
        /\ EmergencyReserve \in 0..GlobalLimit
        /\ DomainLimit \in [Domains -> Nat] /\ DomainOf[l] \in Domains
    BY PolicyAssumption
  <1>2. ASSUME NEW A \in SUBSET Leases
        PROVE  /\ Cardinality(A) \in Nat
               /\ Cardinality(A \cup {l}) \in Nat
               /\ Cardinality(A \cup {l}) <= Cardinality(A) + 1
    <2>1. IsFiniteSet(A)
      BY <1>1, FS_Subset
    <2>2. Cardinality(A) \in Nat
      BY <2>1, FS_CardinalityType
    <2>3. Cardinality(A \cup {l}) =
            IF l \in A THEN Cardinality(A) ELSE Cardinality(A) + 1
      BY <2>1, FS_AddElement
    <2> QED
      BY <2>2, <2>3
  <1>3. Cardinality(L \cup {l}) <= GlobalLimit
    BY <1>1, <1>2 DEF Admits
  <1>4. ASSUME NEW d \in Domains
        PROVE  Cardinality(InDomain(L \cup {l}, d)) <= DomainLimit[d]
    <2>1. CASE d = DomainOf[l]
      <3>1. /\ InDomain(L \cup {l}, d) = InDomain(L, d) \cup {l}
            /\ InDomain(L, d) \subseteq Leases
        BY <2>1 DEF InDomain
      <3>2. Cardinality(InDomain(L, d)) < DomainLimit[d]
        BY <2>1 DEF Admits
      <3>3. DomainLimit[d] \in Nat
        BY <1>1
      <3> QED
        BY <1>2, <3>1, <3>2, <3>3
    <2>2. CASE d # DomainOf[l]
      <3>1. InDomain(L \cup {l}, d) = InDomain(L, d)
        BY <2>2 DEF InDomain
      <3> QED
        BY <3>1 DEF RespectsPolicy
    <2> QED
      BY <2>1, <2>2
  <1>5. Cardinality((L \cup {l}) \ Emergencies) <= GlobalLimit - EmergencyReserve
    <2>1. CASE l \in Emergencies
      <3>1. (L \cup {l}) \ Emergencies = L \ Emergencies
        BY <2>1
      <3> QED
        BY <3>1 DEF RespectsPolicy
    <2>2. CASE l \notin Emergencies
      <3> DEFINE B == L \ Emergencies
      <3>1. (L \cup {l}) \ Emergencies = B \cup {l} /\ B \subseteq Leases
        BY <2>2
      <3>2. Cardinality(L) < GlobalLimit - EmergencyReserve
        BY <2>2 DEF Admits
      <3>3. Cardinality(B) <= Cardinality(L)
        <4>1. IsFiniteSet(L) /\ B \subseteq L
          BY <1>1, FS_Subset
        <4> QED
          BY <4>1, FS_Subset
      <3> HIDE DEF B
      <3>4. /\ Cardinality(L) \in Nat /\ Cardinality(B) \in Nat
            /\ Cardinality(B \cup {l}) \in Nat
            /\ Cardinality(B \cup {l}) <= Cardinality(B) + 1
        BY <1>2, <3>1
      <3>5. Cardinality(B \cup {l}) <= GlobalLimit - EmergencyReserve
        BY <1>1, <3>2, <3>3, <3>4
      <3> QED
        BY <3>1, <3>5
    <2> QED
      BY <2>1, <2>2
  <1> QED
    BY <1>3, <1>4, <1>5 DEF RespectsPolicy

-----------------------------------------------------------------------------
(* The steps of the in-memory backend                                      *)

\* Nothing is reserved at the start.
LEMMA MemoryInitInv == MemoryInit => MemoryInv
  <1> SUFFICES ASSUME MemoryInit PROVE MemoryInv
    OBVIOUS
  <1>1. MemoryTypeOK
    BY DEF MemoryInit, MemoryTypeOK
  <1>2. HoldersAreKnown
    BY DEF MemoryInit, HoldersAreKnown, Working
  <1>3. LiveIds = {} /\ {} \ Emergencies = {} /\ \A d : InDomain({}, d) = {}
    BY DEF MemoryInit, LiveIds, InDomain
  <1>4. RespectsPolicy({})
    <2>1. Cardinality({}) = 0
      BY FS_EmptySet
    <2>2. /\ GlobalLimit \in Nat /\ EmergencyReserve \in 0..GlobalLimit
          /\ \A d \in Domains : DomainLimit[d] \in Nat
      BY PolicyAssumption
    <2> QED
      BY <1>3, <2>1, <2>2 DEF RespectsPolicy
  <1> QED
    BY <1>1, <1>2, <1>3, <1>4 DEF MemoryInv

\* A renewed or new entry is alive, and the clean-up drops what is not.
LEMMA LiveAfterWith ==
  ASSUME MemoryInv, NEW l \in Leases, now' = now,
         leases' = With(Cleaned, l, now + LeaseSeconds)
  PROVE  /\ DOMAIN leases' = LiveIds \cup {l}
         /\ leases'[l] = now + LeaseSeconds
         /\ \A k \in LiveIds : k # l => leases'[k] = leases[k]
         /\ leases' \in [DOMAIN leases' -> Nat]
         /\ LiveIds' = LiveIds \cup {l}
  <1>1. now \in Nat /\ now + LeaseSeconds \in Nat /\ now + LeaseSeconds > now
    BY PolicyAssumption DEF MemoryInv, MemoryTypeOK
  <1>2. DOMAIN Cleaned = LiveIds /\ \A k \in LiveIds : Cleaned[k] = leases[k]
    BY DEF Cleaned
  <1>3. \A k \in LiveIds : leases[k] \in Nat /\ leases[k] > now
    BY DEF MemoryInv, MemoryTypeOK, LiveIds
  <1>4. leases' = [k \in LiveIds \cup {l} |->
                     IF k = l THEN now + LeaseSeconds ELSE Cleaned[k]]
    BY <1>2 DEF With
  <1>5. \A k \in LiveIds \cup {l} : leases'[k] \in Nat /\ leases'[k] > now
    BY <1>1, <1>2, <1>3, <1>4
  <1>6. LiveIds' = LiveIds \cup {l}
    <2>1. LiveIds' = {k \in DOMAIN leases' : leases'[k] > now'}
      BY DEF LiveIds
    <2> QED
      BY <1>4, <1>5, <2>1
  <1> QED
    BY <1>2, <1>4, <1>5, <1>6

\* The clean-up alone changes no live entry.
LEMMA LiveAfterCleaned ==
  ASSUME MemoryInv, now' = now, leases' = Cleaned
  PROVE  /\ DOMAIN leases' = LiveIds
         /\ \A k \in LiveIds : leases'[k] = leases[k]
         /\ leases' \in [DOMAIN leases' -> Nat]
         /\ LiveIds' = LiveIds
  <1>1. leases' = [k \in LiveIds |-> leases[k]]
    BY DEF Cleaned
  <1>2. \A k \in LiveIds : leases[k] \in Nat /\ leases[k] > now
    BY DEF MemoryInv, MemoryTypeOK, LiveIds
  <1>3. LiveIds' = {k \in DOMAIN leases' : leases'[k] > now'}
    BY DEF LiveIds
  <1>4. LiveIds' = LiveIds
    BY <1>1, <1>2, <1>3
  <1> QED
    BY <1>1, <1>2, <1>4

\* A working holder has a live entry in the table.
LEMMA WorkingIsLive ==
  ASSUME MemoryInv PROVE Working \subseteq LiveIds /\ LiveIds \subseteq Leases
  BY DEF MemoryInv, MemoryTypeOK, HoldersAreKnown, Working, LiveIds

\* An admission fits the policy and is known to the table; a refusal only
\* cleans up.
LEMMA ReserveKeeps ==
  ASSUME MemoryInv, NEW l \in Leases, Reserve(l) PROVE MemoryInv'
  <1>1. now' = now /\ now \in Nat /\ now + LeaseSeconds \in Nat
    BY PolicyAssumption DEF Reserve, MemoryInv, MemoryTypeOK
  <1>2. CASE Admits(l, Cardinality(LiveIds),
                    Cardinality(InDomain(LiveIds, DomainOf[l])))
    <2>1. /\ leases' = With(Cleaned, l, now + LeaseSeconds)
          /\ issued' = issued \cup {l} /\ held' = held \cup {l}
          /\ due' = [due EXCEPT ![l] = now + LeaseSeconds]
      BY <1>2 DEF Reserve
    <2>2. /\ DOMAIN leases' = LiveIds \cup {l}
          /\ leases'[l] = now + LeaseSeconds
          /\ \A k \in LiveIds : k # l => leases'[k] = leases[k]
          /\ leases' \in [DOMAIN leases' -> Nat]
          /\ LiveIds' = LiveIds \cup {l}
      BY <1>1, <2>1, LiveAfterWith
    <2>3. MemoryTypeOK'
      BY <1>1, <2>1, <2>2, WorkingIsLive DEF MemoryInv, MemoryTypeOK
    <2>4. due \in [Leases -> Nat] /\ held \subseteq Leases
      BY DEF MemoryInv, MemoryTypeOK
    <2>5. \A k \in Working' : k = l \/ (k \in Working /\ due'[k] = due[k])
      BY <1>1, <2>1, <2>4 DEF Working
    <2>6. HoldersAreKnown'
      BY <2>1, <2>2, <2>4, <2>5, WorkingIsLive DEF MemoryInv, HoldersAreKnown
    <2>7. RespectsPolicy(LiveIds \cup {l})
      BY <1>2, AdmissionKeepsPolicy, WorkingIsLive DEF MemoryInv
    <2>8. RespectsPolicy(LiveIds)'
      BY <2>2, <2>7 DEF RespectsPolicy, InDomain
    <2> QED
      BY <2>3, <2>6, <2>8 DEF MemoryInv
  <1>3. CASE ~Admits(l, Cardinality(LiveIds),
                     Cardinality(InDomain(LiveIds, DomainOf[l])))
    <2>1. leases' = Cleaned /\ issued' = issued /\ held' = held /\ due' = due
      BY <1>3 DEF Reserve
    <2>2. /\ DOMAIN leases' = LiveIds
          /\ \A k \in LiveIds : leases'[k] = leases[k]
          /\ leases' \in [DOMAIN leases' -> Nat]
          /\ LiveIds' = LiveIds
      BY <1>1, <2>1, LiveAfterCleaned
    <2>3. MemoryTypeOK'
      BY <1>1, <2>1, <2>2, WorkingIsLive DEF MemoryInv, MemoryTypeOK
    <2>4. Working' = Working
      BY <1>1, <2>1 DEF Working
    <2>5. HoldersAreKnown'
      BY <2>1, <2>2, <2>4, WorkingIsLive DEF MemoryInv, HoldersAreKnown
    <2>6. RespectsPolicy(LiveIds)'
      BY <2>2 DEF MemoryInv, RespectsPolicy, InDomain
    <2> QED
      BY <2>3, <2>5, <2>6 DEF MemoryInv
  <1> QED
    BY <1>2, <1>3

\* A renewal moves the expiry of a live entry together with what its holder
\* believes; a refused one ends the holder.
LEMMA RenewKeeps ==
  ASSUME MemoryInv, NEW l \in Leases, Renew(l) PROVE MemoryInv'
  <1>1. /\ now' = now /\ now \in Nat /\ now + LeaseSeconds \in Nat
        /\ issued' = issued
        /\ due \in [Leases -> Nat] /\ held \subseteq Leases
    BY PolicyAssumption DEF Renew, MemoryInv, MemoryTypeOK
  <1>2. CASE l \in LiveIds
    <2>1. /\ leases' = With(Cleaned, l, now + LeaseSeconds) /\ held' = held
          /\ due' = [due EXCEPT ![l] = now + LeaseSeconds]
      BY <1>2 DEF Renew
    <2>2. /\ DOMAIN leases' = LiveIds \cup {l}
          /\ leases'[l] = now + LeaseSeconds
          /\ \A k \in LiveIds : k # l => leases'[k] = leases[k]
          /\ leases' \in [DOMAIN leases' -> Nat]
          /\ LiveIds' = LiveIds \cup {l}
      BY <1>1, <2>1, LiveAfterWith
    <2>3. MemoryTypeOK'
      BY <1>1, <2>1, <2>2, WorkingIsLive DEF MemoryInv, MemoryTypeOK
    <2>4. \A k \in Working' : k = l \/ (k \in Working /\ due'[k] = due[k])
      BY <1>1, <2>1 DEF Working
    <2>5. HoldersAreKnown'
      BY <1>1, <2>1, <2>2, <2>4, WorkingIsLive DEF MemoryInv, HoldersAreKnown
    <2>6. LiveIds' = LiveIds
      BY <1>2, <2>2
    <2>7. RespectsPolicy(LiveIds)'
      BY <2>6 DEF MemoryInv, RespectsPolicy, InDomain
    <2> QED
      BY <2>3, <2>5, <2>7 DEF MemoryInv
  <1>3. CASE l \notin LiveIds
    <2>1. leases' = Cleaned /\ held' = held \ {l} /\ due' = due
      BY <1>3 DEF Renew
    <2>2. /\ DOMAIN leases' = LiveIds
          /\ \A k \in LiveIds : leases'[k] = leases[k]
          /\ leases' \in [DOMAIN leases' -> Nat]
          /\ LiveIds' = LiveIds
      BY <1>1, <2>1, LiveAfterCleaned
    <2>3. MemoryTypeOK'
      BY <1>1, <2>1, <2>2, WorkingIsLive DEF MemoryInv, MemoryTypeOK
    <2>4. Working' \subseteq Working
      BY <1>1, <2>1 DEF Working
    <2>5. HoldersAreKnown'
      BY <2>1, <2>2, <2>4, WorkingIsLive DEF MemoryInv, HoldersAreKnown
    <2>6. RespectsPolicy(LiveIds)'
      BY <2>2 DEF MemoryInv, RespectsPolicy, InDomain
    <2> QED
      BY <2>3, <2>5, <2>6 DEF MemoryInv
  <1> QED
    BY <1>2, <1>3

\* With fewer live entries and holders the policy is still respected.
LEMMA FewerIsFine ==
  ASSUME MemoryInv, MemoryTypeOK', HoldersAreKnown', LiveIds' \subseteq LiveIds
  PROVE  MemoryInv'
  <1> DEFINE L == LiveIds'
  <1>1. RespectsPolicy(L)
    BY PolicyIsMonotone, WorkingIsLive DEF MemoryInv
  <1>2. RespectsPolicy(LiveIds)'
    BY <1>1 DEF RespectsPolicy, InDomain
  <1> QED
    BY <1>2 DEF MemoryInv

\* A released reservation leaves the table with its holder.
LEMMA ReleaseKeeps ==
  ASSUME MemoryInv, NEW l \in Leases, Release(l) PROVE MemoryInv'
  <1>1. /\ leases' = [k \in DOMAIN leases \ {l} |-> leases[k]]
        /\ held' = held \ {l} /\ now' = now /\ issued' = issued /\ due' = due
    BY DEF Release, Without
  <1>2. MemoryTypeOK'
    BY <1>1 DEF MemoryInv, MemoryTypeOK
  <1>3. HoldersAreKnown'
    BY <1>1 DEF MemoryInv, HoldersAreKnown, Working
  <1>4. LiveIds' \subseteq LiveIds
    <2>1. LiveIds' = {k \in DOMAIN leases' : leases'[k] > now'}
      BY DEF LiveIds
    <2> QED
      BY <1>1, <2>1 DEF LiveIds
  <1> QED
    BY <1>2, <1>3, <1>4, FewerIsFine

\* A holder that dies leaves its entry to expire.
LEMMA AbandonKeeps ==
  ASSUME MemoryInv, NEW l \in Leases, Abandon(l) PROVE MemoryInv'
  <1>1. MemoryTypeOK'
    BY DEF Abandon, MemoryInv, MemoryTypeOK
  <1>2. HoldersAreKnown'
    BY DEF Abandon, MemoryInv, HoldersAreKnown, Working
  <1>3. LiveIds' \subseteq LiveIds
    BY DEF Abandon, LiveIds
  <1> QED
    BY <1>1, <1>2, <1>3, FewerIsFine

\* Time only ends reservations.
LEMMA TickKeeps == ASSUME MemoryInv, Tick PROVE MemoryInv'
  <1>1. now \in Nat /\ now' = now + 1 /\ UNCHANGED <<leases, issued, held, due>>
    BY DEF Tick, MemoryInv, MemoryTypeOK
  <1>2. MemoryTypeOK'
    BY <1>1 DEF MemoryInv, MemoryTypeOK
  <1>3. Working' \subseteq Working
    BY <1>1 DEF Working, MemoryInv, MemoryTypeOK
  <1>4. HoldersAreKnown'
    BY <1>1, <1>3 DEF MemoryInv, HoldersAreKnown
  <1>5. LiveIds' \subseteq LiveIds
    BY <1>1 DEF LiveIds, MemoryInv, MemoryTypeOK
  <1> QED
    BY <1>2, <1>4, <1>5, FewerIsFine

\* Every step keeps the invariant.
LEMMA MemoryNextInv == MemoryInv /\ [MemoryNext]_memoryVars => MemoryInv'
  <1> SUFFICES ASSUME MemoryInv, [MemoryNext]_memoryVars PROVE MemoryInv'
    OBVIOUS
  <1>1. CASE UNCHANGED memoryVars
    <2>1. MemoryTypeOK' /\ HoldersAreKnown' /\ LiveIds' \subseteq LiveIds
      BY <1>1 DEF memoryVars, MemoryInv, MemoryTypeOK, HoldersAreKnown, Working, LiveIds
    <2> QED
      BY <2>1, FewerIsFine
  <1> QED
    BY <1>1, ReserveKeeps, RenewKeeps, ReleaseKeeps, AbandonKeeps, TickKeeps DEF MemoryNext

-----------------------------------------------------------------------------
(* What holds of the in-memory backend                                     *)

\* The invariant holds in every reachable state.
LEMMA MemoryInvHolds == MemorySpec => []MemoryInv
  BY MemoryInitInv, MemoryNextInv, PTL DEF MemorySpec

\* Table, clock and holders keep their types.
THEOREM MemoryTypeCorrect == MemorySpec => []MemoryTypeOK
  <1>1. MemoryInv => MemoryTypeOK
    BY DEF MemoryInv
  <1> QED
    BY <1>1, MemoryInvHolds, PTL

\* A holder is only forgotten after its lease has run out.
THEOREM HoldersStayKnown == MemorySpec => []HoldersAreKnown
  <1>1. MemoryInv => HoldersAreKnown
    BY DEF MemoryInv
  <1> QED
    BY <1>1, MemoryInvHolds, PTL

\* The workers that may work together respect the global limit, the limit of
\* each domain and the emergency reserve.
THEOREM LimitsAreRespected == MemorySpec => []LimitsRespected
  <1>1. MemoryInv => LimitsRespected
    BY PolicyIsMonotone, WorkingIsLive DEF MemoryInv, LimitsRespected
  <1> QED
    BY <1>1, MemoryInvHolds, PTL

-----------------------------------------------------------------------------
(* The Redis backend of the domain capacity                                *)

RedisTypeOK ==
  /\ DOMAIN zset = Keys /\ ends \in [Keys -> Nat] /\ redisNow \in Nat
  /\ \A k \in Keys : /\ DOMAIN zset[k] \subseteq Leases
                     /\ \A l \in DOMAIN zset[k] : zset[k][l] \in Nat
  /\ \A d \in Domains : \A l \in DOMAIN zset[d] : DomainOf[l] = d

\* The global key lives longest.
GlobalOutlives ==
  /\ ends[Global] <= redisNow + Ttl
  /\ \A d \in Domains : ends[d] <= ends[Global]

\* The live members of a set at a time.
LiveAt(z, t) == {l \in DOMAIN z : z[l] > t}

\* A live member of a domain set is a member of the global one, with the same score.
CoveredAt(zd, zg, t) == \A l \in LiveAt(zd, t) : l \in DOMAIN zg /\ zg[l] = zd[l]

RedisInv == RedisTypeOK /\ GlobalOutlives /\ AdmittedRespectsPolicy

LEMMA ZLiveIsLiveAt == \A z : ZLive(z) = LiveAt(z, redisNow)
  BY DEF ZLive, LiveAt

\* What AdmittedRespectsPolicy says, of given sets at a given time.
LEMMA AdmittedAt ==
  /\ AdmittedRespectsPolicy <=>
       /\ Cardinality(LiveAt(zset[Global], redisNow)) <= GlobalLimit
       /\ Cardinality(LiveAt(zset[Global], redisNow) \ Emergencies) <= GlobalLimit - EmergencyReserve
       /\ \A d \in Domains : /\ Cardinality(LiveAt(zset[d], redisNow)) <= DomainLimit[d]
                             /\ CoveredAt(zset[d], zset[Global], redisNow)
  /\ AdmittedRespectsPolicy' <=>
       /\ Cardinality(LiveAt(zset'[Global], redisNow')) <= GlobalLimit
       /\ Cardinality(LiveAt(zset'[Global], redisNow') \ Emergencies) <= GlobalLimit - EmergencyReserve
       /\ \A d \in Domains : /\ Cardinality(LiveAt(zset'[d], redisNow')) <= DomainLimit[d]
                             /\ CoveredAt(zset'[d], zset'[Global], redisNow')
  BY DEF AdmittedRespectsPolicy, ZLive, LiveAt, CoveredAt

LEMMA KeysAreTwo ==
  ASSUME NEW l \in Leases
  PROVE  /\ DomainOf[l] \in Domains /\ KeysOf(l) = {Global, DomainOf[l]}
         /\ KeysOf(l) \subseteq Keys /\ DomainOf[l] # Global /\ Global \in Keys
         /\ \A d \in Domains : d \in Keys /\ d # Global /\ (d \in KeysOf(l) => d = DomainOf[l])
  BY PolicyAssumption DEF KeysOf, Keys

LEMMA RedisNumbers ==
  /\ IsFiniteSet(Leases) /\ GlobalLimit \in Nat /\ EmergencyReserve \in Nat
  /\ GlobalLimit - EmergencyReserve \in Nat
  /\ \A d \in Domains : DomainLimit[d] \in Nat
  /\ LeaseSeconds \in Nat \ {0} /\ Ttl \in Nat /\ Ttl >= LeaseSeconds
  BY PolicyAssumption DEF Ttl

\* Cardinalities of reservations are numbers, grow with the set, and by at most one.
LEMMA Counts ==
  ASSUME NEW S \in SUBSET Leases
  PROVE  /\ Cardinality(S) \in Nat
         /\ \A T \in SUBSET S : Cardinality(T) \in Nat /\ Cardinality(T) <= Cardinality(S)
         /\ \A l \in Leases : /\ Cardinality(S \cup {l}) \in Nat
                              /\ Cardinality(S \cup {l}) <= Cardinality(S) + 1
  <1>1. IsFiniteSet(S)
    BY RedisNumbers, FS_Subset
  <1>2. Cardinality(S) \in Nat
    BY <1>1, FS_CardinalityType
  <1>3. ASSUME NEW T \in SUBSET S PROVE Cardinality(T) \in Nat /\ Cardinality(T) <= Cardinality(S)
    <2>1. IsFiniteSet(T) /\ Cardinality(T) <= Cardinality(S)
      BY <1>1, FS_Subset
    <2> QED
      BY <2>1, FS_CardinalityType
  <1>4. ASSUME NEW l \in Leases
        PROVE  Cardinality(S \cup {l}) \in Nat /\ Cardinality(S \cup {l}) <= Cardinality(S) + 1
    <2>1. Cardinality(S \cup {l}) = IF l \in S THEN Cardinality(S) ELSE Cardinality(S) + 1
      BY <1>1, FS_AddElement
    <2> QED
      BY <1>2, <2>1
  <1> QED
    BY <1>2, <1>3, <1>4

\* What a script that only removes, and drops nothing alive of another reservation, keeps.
RedisShrinks(gone) ==
  /\ DOMAIN zset' = Keys
  /\ \A k \in Keys :
       /\ DOMAIN zset'[k] \subseteq DOMAIN zset[k]
       /\ \A l \in DOMAIN zset'[k] : zset'[k][l] = zset[k][l]
  /\ \A l \in LiveAt(zset[Global], redisNow) :
       \/ l \in DOMAIN zset'[Global]
       \/ l = gone /\ \A d \in Domains : l \notin DOMAIN zset'[d]
  /\ ends' = ends /\ redisNow' = redisNow

LEMMA RedisShrinksKeeps ==
  ASSUME RedisInv, NEW gone, RedisShrinks(gone) PROVE RedisInv'
  <1>1. RedisTypeOK'
    BY DEF RedisInv, RedisTypeOK, RedisShrinks, Keys
  <1>2. GlobalOutlives'
    BY DEF RedisInv, GlobalOutlives, RedisShrinks, Ttl
  <1>3. ASSUME NEW k \in Keys
        PROVE  /\ LiveAt(zset'[k], redisNow') \subseteq LiveAt(zset[k], redisNow)
               /\ LiveAt(zset[k], redisNow) \in SUBSET Leases
    BY DEF RedisInv, RedisTypeOK, RedisShrinks, LiveAt
  <1>4. Global \in Keys /\ \A d \in Domains : d \in Keys
    BY DEF Keys
  <1>5. ASSUME NEW d \in Domains PROVE CoveredAt(zset'[d], zset'[Global], redisNow')
    <2>1. SUFFICES ASSUME NEW l \in LiveAt(zset'[d], redisNow')
                   PROVE  l \in DOMAIN zset'[Global] /\ zset'[Global][l] = zset'[d][l]
      BY DEF CoveredAt
    <2>2. l \in DOMAIN zset'[d] /\ l \in LiveAt(zset[d], redisNow) /\ zset'[d][l] = zset[d][l]
      BY <1>3, <1>4 DEF LiveAt, RedisShrinks
    <2>3. l \in DOMAIN zset[Global] /\ zset[Global][l] = zset[d][l]
      BY <2>2, AdmittedAt DEF RedisInv, CoveredAt
    <2>4. l \in LiveAt(zset[Global], redisNow)
      BY <2>2, <2>3 DEF LiveAt
    <2>5. l \in DOMAIN zset'[Global]
      BY <2>2, <2>4 DEF RedisShrinks
    <2> QED
      BY <1>4, <2>2, <2>3, <2>5 DEF RedisShrinks
  <1>6. ASSUME NEW d \in Domains PROVE Cardinality(LiveAt(zset'[d], redisNow')) <= DomainLimit[d]
    <2>1. Cardinality(LiveAt(zset[d], redisNow)) <= DomainLimit[d]
      BY AdmittedAt DEF RedisInv
    <2> QED
      BY <1>3, <1>4, <2>1, Counts, RedisNumbers
  <1>7. Cardinality(LiveAt(zset'[Global], redisNow')) <= GlobalLimit
    <2>1. Cardinality(LiveAt(zset[Global], redisNow)) <= GlobalLimit
      BY AdmittedAt DEF RedisInv
    <2> QED
      BY <1>3, <1>4, <2>1, Counts, RedisNumbers
  <1>8. Cardinality(LiveAt(zset'[Global], redisNow') \ Emergencies) <= GlobalLimit - EmergencyReserve
    <2>1. Cardinality(LiveAt(zset[Global], redisNow) \ Emergencies) <= GlobalLimit - EmergencyReserve
      BY AdmittedAt DEF RedisInv
    <2>2. /\ LiveAt(zset'[Global], redisNow') \ Emergencies
               \subseteq LiveAt(zset[Global], redisNow) \ Emergencies
          /\ LiveAt(zset[Global], redisNow) \ Emergencies \in SUBSET Leases
      BY <1>3, <1>4
    <2> QED
      BY <2>1, <2>2, Counts, RedisNumbers
  <1>9. AdmittedRespectsPolicy'
    BY <1>5, <1>6, <1>7, <1>8, AdmittedAt
  <1> QED
    BY <1>1, <1>2, <1>9 DEF RedisInv

\* What a script that enters l with a whole lease, and drops nothing else alive, keeps.
Enters(l) ==
  /\ DOMAIN zset' = Keys
  /\ \A k \in Keys \ KeysOf(l) : zset'[k] = zset[k]
  /\ \A k \in KeysOf(l) :
       /\ l \in DOMAIN zset'[k] /\ zset'[k][l] = redisNow + LeaseSeconds
       /\ DOMAIN zset'[k] \subseteq DOMAIN zset[k] \cup {l}
       /\ LiveAt(zset[k], redisNow) \subseteq DOMAIN zset'[k]
       /\ \A m \in DOMAIN zset'[k] : m # l => zset'[k][m] = zset[k][m]
  /\ redisNow' = redisNow

LEMMA EntersKeeps ==
  ASSUME RedisInv, NEW l \in Leases, Enters(l),
         \/ ends' = ends /\ \A k \in KeysOf(l) : l \in LiveAt(zset[k], redisNow)
         \/ /\ ends' = [k \in Keys |-> IF k \in KeysOf(l) THEN redisNow + Ttl ELSE ends[k]]
            /\ Admits(l, Cardinality(LiveAt(zset[Global], redisNow)),
                         Cardinality(LiveAt(zset[DomainOf[l]], redisNow)))
  PROVE  RedisInv'
  <1> DEFINE d0 == DomainOf[l]
             Renews == ends' = ends /\ \A k \in KeysOf(l) : l \in LiveAt(zset[k], redisNow)
             Adds == /\ ends' = [k \in Keys |-> IF k \in KeysOf(l) THEN redisNow + Ttl ELSE ends[k]]
                     /\ Admits(l, Cardinality(LiveAt(zset[Global], redisNow)),
                                  Cardinality(LiveAt(zset[d0], redisNow)))
  <1>0. Renews \/ Adds
    OBVIOUS
  <1>1. /\ redisNow \in Nat /\ LeaseSeconds \in Nat \ {0} /\ redisNow + LeaseSeconds \in Nat
        /\ redisNow + LeaseSeconds > redisNow /\ redisNow' = redisNow
    BY RedisNumbers DEF RedisInv, RedisTypeOK, Enters
  <1>2. \A k \in Keys : /\ DOMAIN zset[k] \subseteq Leases
                        /\ \A m \in DOMAIN zset[k] : zset[k][m] \in Nat
    BY DEF RedisInv, RedisTypeOK
  <1>3. /\ Global \in KeysOf(l) /\ d0 \in KeysOf(l) /\ d0 \in Domains
        /\ KeysOf(l) \subseteq Keys /\ d0 # Global
        /\ \A d \in Domains : d \in Keys /\ d # Global /\ (d # d0 => d \in Keys \ KeysOf(l))
    BY KeysAreTwo
  <1>4. ASSUME NEW k \in KeysOf(l)
        PROVE  /\ DOMAIN zset'[k] \subseteq Leases
               /\ \A m \in DOMAIN zset'[k] : zset'[k][m] \in Nat
    <2>1. /\ DOMAIN zset'[k] \subseteq DOMAIN zset[k] \cup {l}
          /\ zset'[k][l] = redisNow + LeaseSeconds
          /\ \A m \in DOMAIN zset'[k] : m # l => zset'[k][m] = zset[k][m]
      BY DEF Enters
    <2>2. k \in Keys
      BY <1>3
    <2> QED
      BY <1>1, <1>2, <2>1, <2>2
  <1>5. ASSUME NEW k \in KeysOf(l)
        PROVE  LiveAt(zset'[k], redisNow') = LiveAt(zset[k], redisNow) \cup {l}
    <2>1. /\ l \in DOMAIN zset'[k] /\ zset'[k][l] = redisNow + LeaseSeconds
          /\ DOMAIN zset'[k] \subseteq DOMAIN zset[k] \cup {l}
          /\ LiveAt(zset[k], redisNow) \subseteq DOMAIN zset'[k]
          /\ \A m \in DOMAIN zset'[k] : m # l => zset'[k][m] = zset[k][m]
      BY DEF Enters
    <2>2. l \in LiveAt(zset'[k], redisNow')
      BY <1>1, <2>1 DEF LiveAt
    <2>3. ASSUME NEW m, m # l
          PROVE  m \in LiveAt(zset'[k], redisNow') <=> m \in LiveAt(zset[k], redisNow)
      BY <1>1, <2>1, <2>3 DEF LiveAt
    <2> QED
      BY <2>2, <2>3
  <1>6. RedisTypeOK'
    <2>1. DOMAIN zset' = Keys /\ \A k \in Keys \ KeysOf(l) : zset'[k] = zset[k]
      BY DEF Enters
    <2>2. ends' \in [Keys -> Nat]
      <3>1. ends \in [Keys -> Nat]
        BY DEF RedisInv, RedisTypeOK
      <3>2. CASE Renews
        BY <3>1, <3>2
      <3>3. CASE Adds
        BY <3>1, <3>3, <1>1, RedisNumbers
      <3> QED
        BY <1>0, <3>2, <3>3
    <2>3. ASSUME NEW k \in Keys PROVE /\ DOMAIN zset'[k] \subseteq Leases
                                      /\ \A m \in DOMAIN zset'[k] : zset'[k][m] \in Nat
      BY <1>2, <1>4, <2>1
    <2>4. ASSUME NEW d \in Domains, NEW m \in DOMAIN zset'[d] PROVE DomainOf[m] = d
      <3>1. \A e \in Domains : \A n \in DOMAIN zset[e] : DomainOf[n] = e
        BY DEF RedisInv, RedisTypeOK
      <3>2. CASE d = d0
        <4>1. m = l \/ m \in DOMAIN zset[d]
          BY <3>2, <1>3 DEF Enters
        <4> QED
          BY <3>1, <3>2, <4>1
      <3>3. CASE d # d0
        BY <3>1, <3>3, <1>3, <2>1
      <3> QED
        BY <3>2, <3>3
    <2> QED
      BY <1>1, <2>1, <2>2, <2>3, <2>4 DEF RedisTypeOK
  <1>7. GlobalOutlives'
    <2>1. /\ ends \in [Keys -> Nat] /\ ends[Global] <= redisNow + Ttl
          /\ \A d \in Domains : ends[d] <= ends[Global]
      BY DEF RedisInv, RedisTypeOK, GlobalOutlives
    <2>2. CASE Renews
      BY <1>1, <2>1, <2>2 DEF GlobalOutlives, Ttl
    <2>3. CASE Adds
      <3>1. ends'[Global] = redisNow + Ttl
        BY <2>3, <1>3
      <3>2. ASSUME NEW d \in Domains PROVE ends'[d] <= redisNow + Ttl
        <4>1. ends'[d] \in {redisNow + Ttl, ends[d]} /\ ends[d] \in Nat
          BY <2>1, <2>3, <1>3
        <4>2. ends[Global] \in Nat /\ redisNow + Ttl \in Nat
          BY <1>1, <1>3, <2>1, RedisNumbers
        <4> QED
          BY <4>1, <4>2, <2>1
      <3>3. redisNow + Ttl <= redisNow' + Ttl
        BY <1>1, RedisNumbers
      <3> QED
        BY <3>1, <3>2, <3>3 DEF GlobalOutlives, Ttl
    <2> QED
      BY <1>0, <2>2, <2>3
  <1>8. ASSUME NEW d \in Domains PROVE CoveredAt(zset'[d], zset'[Global], redisNow')
    <2>1. SUFFICES ASSUME NEW m \in LiveAt(zset'[d], redisNow')
                   PROVE  m \in DOMAIN zset'[Global] /\ zset'[Global][m] = zset'[d][m]
      BY DEF CoveredAt
    <2>2. CASE m = l
      <3>1. m \in DOMAIN zset'[d] /\ d \in KeysOf(l)
        <4>1. m \in DOMAIN zset'[d]
          BY DEF LiveAt
        <4>2. DomainOf[m] = d
          BY <1>6, <4>1 DEF RedisTypeOK
        <4> QED
          BY <1>3, <2>2, <4>1, <4>2
      <3> QED
        BY <1>3, <2>2, <3>1 DEF Enters
    <2>3. CASE m # l
      <3>1. m \in LiveAt(zset[d], redisNow) /\ zset'[d][m] = zset[d][m]
        <4>1. CASE d = d0
          <5>1. m \in LiveAt(zset[d], redisNow)
            BY <1>3, <1>5, <2>3, <4>1
          <5>2. m \in DOMAIN zset'[d]
            BY DEF LiveAt
          <5> QED
            BY <1>3, <2>3, <4>1, <5>1, <5>2 DEF Enters
        <4>2. CASE d # d0
          <5>1. zset'[d] = zset[d]
            BY <4>2, <1>3 DEF Enters
          <5> QED
            BY <1>1, <5>1
        <4> QED
          BY <4>1, <4>2
      <3>2. m \in DOMAIN zset[Global] /\ zset[Global][m] = zset[d][m]
        BY <3>1, AdmittedAt DEF RedisInv, CoveredAt
      <3>3. m \in LiveAt(zset[Global], redisNow)
        BY <3>1, <3>2 DEF LiveAt
      <3>4. m \in DOMAIN zset'[Global] /\ zset'[Global][m] = zset[Global][m]
        BY <1>3, <2>3, <3>3 DEF Enters
      <3> QED
        BY <3>1, <3>2, <3>4
    <2> QED
      BY <2>2, <2>3
  <1>9. ASSUME NEW k \in KeysOf(l)
        PROVE  /\ LiveAt(zset[k], redisNow) \in SUBSET Leases
               /\ Cardinality(LiveAt(zset[k], redisNow)) \in Nat
    <2>1. LiveAt(zset[k], redisNow) \in SUBSET Leases
      BY <1>2, <1>3 DEF LiveAt
    <2> QED
      BY <2>1, Counts
  <1>10. Cardinality(LiveAt(zset'[Global], redisNow')) <= GlobalLimit
    <2> DEFINE L == LiveAt(zset[Global], redisNow)
    <2>1. Cardinality(L) <= GlobalLimit /\ LiveAt(zset'[Global], redisNow') = L \cup {l}
      BY <1>3, <1>5, AdmittedAt DEF RedisInv
    <2>2. L \in SUBSET Leases
      BY <1>3, <1>9
    <2>3. CASE Renews
      <3>1. L \cup {l} = L
        BY <1>3, <2>3
      <3> QED
        BY <2>1, <3>1
    <2>4. CASE Adds
      <3>1. Cardinality(L) < GlobalLimit
        BY <2>4 DEF Admits
      <3> HIDE DEF L
      <3> QED
        BY <2>1, <2>2, <3>1, Counts, RedisNumbers
    <2> QED
      BY <1>0, <2>3, <2>4
  <1>11. Cardinality(LiveAt(zset'[Global], redisNow') \ Emergencies) <= GlobalLimit - EmergencyReserve
    <2> DEFINE L == LiveAt(zset[Global], redisNow)
               N == L \ Emergencies
    <2>1. Cardinality(N) <= GlobalLimit - EmergencyReserve /\ LiveAt(zset'[Global], redisNow') = L \cup {l}
      BY <1>3, <1>5, AdmittedAt DEF RedisInv
    <2>2. L \in SUBSET Leases /\ N \in SUBSET L /\ N \in SUBSET Leases
      BY <1>3, <1>9
    <2>3. CASE Renews \/ l \in Emergencies
      <3>1. (L \cup {l}) \ Emergencies = N
        BY <1>3, <2>3
      <3> QED
        BY <2>1, <3>1
    <2>4. CASE Adds /\ l \notin Emergencies
      <3>1. Cardinality(L) < GlobalLimit - EmergencyReserve
        BY <2>4 DEF Admits
      <3>2. (L \cup {l}) \ Emergencies = N \cup {l}
        BY <2>4
      <3> HIDE DEF L, N
      <3>3. Cardinality(N) <= Cardinality(L) /\ Cardinality(L) \in Nat
        BY <2>2, Counts
      <3>4. Cardinality(N \cup {l}) <= Cardinality(N) + 1 /\ Cardinality(N \cup {l}) \in Nat
            /\ Cardinality(N) \in Nat
        BY <2>2, Counts
      <3>5. Cardinality(N \cup {l}) <= GlobalLimit - EmergencyReserve
        BY <3>1, <3>3, <3>4, RedisNumbers
      <3> QED
        BY <2>1, <3>2, <3>5
    <2> QED
      BY <1>0, <2>3, <2>4
  <1>12. ASSUME NEW d \in Domains PROVE Cardinality(LiveAt(zset'[d], redisNow')) <= DomainLimit[d]
    <2> DEFINE L == LiveAt(zset[d], redisNow)
    <2>1. Cardinality(L) <= DomainLimit[d]
      BY AdmittedAt DEF RedisInv
    <2>2. CASE d # d0
      <3>1. zset'[d] = zset[d]
        BY <2>2, <1>3 DEF Enters
      <3> QED
        BY <1>1, <2>1, <3>1
    <2>3. CASE d = d0
      <3>1. LiveAt(zset'[d], redisNow') = L \cup {l} /\ L \in SUBSET Leases
        BY <1>3, <1>5, <1>9, <2>3
      <3>2. CASE Renews
        <4>1. L \cup {l} = L
          BY <1>3, <2>3, <3>2
        <4> QED
          BY <2>1, <3>1, <4>1
      <3>3. CASE Adds
        <4>1. Cardinality(L) < DomainLimit[d]
          BY <2>3, <3>3 DEF Admits
        <4> HIDE DEF L
        <4> QED
          BY <3>1, <4>1, Counts, RedisNumbers
      <3> QED
        BY <1>0, <3>2, <3>3
    <2> QED
      BY <2>2, <2>3
  <1>13. AdmittedRespectsPolicy'
    BY <1>8, <1>10, <1>11, <1>12, AdmittedAt
  <1> QED
    BY <1>6, <1>7, <1>13 DEF RedisInv

-----------------------------------------------------------------------------
(* The scripts of the Redis backend                                        *)

LEMMA RedisReserveKeeps ==
  ASSUME RedisInv, NEW l \in Leases, RedisReserve(l) PROVE RedisInv'
  <1>2. /\ DOMAIN zset = Keys /\ KeysOf(l) \subseteq Keys /\ redisNow \in Nat
        /\ Global \in Keys /\ \A d \in Domains : d \in Keys
    BY KeysAreTwo DEF RedisInv, RedisTypeOK, Keys
  <1>3. CASE Admits(l, Cardinality(ZLive(zset[Global])),
                       Cardinality(ZLive(zset[DomainOf[l]])))
    <2>1. zset' = [k \in Keys |-> IF k \in KeysOf(l)
                                  THEN ZAdd(ZRemRange(zset[k]), l, redisNow + LeaseSeconds)
                                  ELSE zset[k]]
      BY <1>3 DEF RedisReserve, OnKeysOf
    <2>2. /\ ends' = [k \in Keys |-> IF k \in KeysOf(l) THEN redisNow + Ttl ELSE ends[k]]
          /\ redisNow' = redisNow
      BY <1>3 DEF RedisReserve
    <2>3. \A k \in KeysOf(l) : zset'[k] = [m \in LiveAt(zset[k], redisNow) \cup {l} |->
                                 IF m = l THEN redisNow + LeaseSeconds ELSE zset[k][m]]
      BY <1>2, <2>1 DEF ZAdd, ZRemRange, ZLive, LiveAt
    <2>4. Enters(l)
      <3>1. DOMAIN zset' = Keys /\ \A k \in Keys \ KeysOf(l) : zset'[k] = zset[k]
        BY <2>1
      <3>2. \A k \in KeysOf(l) : DOMAIN zset'[k] = LiveAt(zset[k], redisNow) \cup {l}
        BY <2>3
      <3>3. \A k \in KeysOf(l) : \A m \in LiveAt(zset[k], redisNow) \cup {l} :
              zset'[k][m] = IF m = l THEN redisNow + LeaseSeconds ELSE zset[k][m]
        BY <2>3
      <3>4. \A k \in KeysOf(l) : LiveAt(zset[k], redisNow) \subseteq DOMAIN zset[k]
        BY DEF LiveAt
      <3> QED
        BY <2>2, <3>1, <3>2, <3>3, <3>4 DEF Enters
    <2> QED
      BY <1>3, <2>2, <2>4, EntersKeeps, ZLiveIsLiveAt
  <1>4. CASE ~Admits(l, Cardinality(ZLive(zset[Global])),
                        Cardinality(ZLive(zset[DomainOf[l]])))
    <2>1. /\ zset' = [k \in Keys |-> IF k \in KeysOf(l) THEN ZRemRange(zset[k]) ELSE zset[k]]
          /\ ends' = ends /\ redisNow' = redisNow
      BY <1>4 DEF RedisReserve, OnKeysOf
    <2>2. \A k \in KeysOf(l) : zset'[k] = [m \in LiveAt(zset[k], redisNow) |-> zset[k][m]]
      BY <1>2, <2>1 DEF ZRemRange, ZLive, LiveAt
    <2>3. \A k \in Keys \ KeysOf(l) : zset'[k] = zset[k]
      BY <2>1
    <2>4. \A k \in KeysOf(l) : /\ DOMAIN zset'[k] = LiveAt(zset[k], redisNow)
                               /\ \A m \in DOMAIN zset'[k] : zset'[k][m] = zset[k][m]
      BY <2>2
    <2>5. \A k \in Keys : /\ DOMAIN zset'[k] \subseteq DOMAIN zset[k]
                          /\ \A m \in DOMAIN zset'[k] : zset'[k][m] = zset[k][m]
                          /\ LiveAt(zset[k], redisNow) \subseteq DOMAIN zset'[k]
      <3>1. \A k \in Keys : LiveAt(zset[k], redisNow) \subseteq DOMAIN zset[k]
        BY DEF LiveAt
      <3> QED
        BY <2>3, <2>4, <3>1
    <2>6. DOMAIN zset' = Keys
      BY <2>1
    <2>7. RedisShrinks(l)
      BY <1>2, <2>1, <2>5, <2>6 DEF RedisShrinks
    <2> QED
      BY <2>7, RedisShrinksKeeps
  <1> QED
    BY <1>3, <1>4

LEMMA ZRemRemoves ==
  ASSUME NEW z, NEW l
  PROVE  /\ DOMAIN ZRem(z, l) = DOMAIN z \ {l}
         /\ \A m \in DOMAIN ZRem(z, l) : ZRem(z, l)[m] = z[m]
  BY DEF ZRem

\* Removing l from its keys.
LEMMA ZRemShrinks ==
  ASSUME RedisInv, NEW l \in Leases, redisNow' = redisNow, ends' = ends,
         zset' = [k \in Keys |-> IF k \in KeysOf(l) THEN ZRem(zset[k], l) ELSE zset[k]]
  PROVE  RedisInv'
  <1>1. /\ DOMAIN zset = Keys /\ KeysOf(l) \subseteq Keys /\ Global \in Keys
        /\ Global \in KeysOf(l)
        /\ \A d \in Domains : d \in Keys /\ (d \in KeysOf(l) <=> d = DomainOf[l])
    BY KeysAreTwo DEF RedisInv, RedisTypeOK, Keys
  <1>2. \A k \in KeysOf(l) : zset'[k] = ZRem(zset[k], l)
    BY <1>1
  <1>3. \A k \in Keys \ KeysOf(l) : zset'[k] = zset[k]
    BY <1>1
  <1>4. ASSUME NEW d \in Domains PROVE l \notin DOMAIN zset'[d]
    <2>1. CASE d \in KeysOf(l)
      <3>1. DOMAIN zset'[d] = DOMAIN zset[d] \ {l}
        BY <1>2, <2>1, ZRemRemoves
      <3> QED
        BY <3>1
    <2>2. CASE d \notin KeysOf(l)
      <3>1. zset'[d] = zset[d] /\ d # DomainOf[l]
        BY <1>1, <1>3, <2>2
      <3> QED
        BY <3>1 DEF RedisInv, RedisTypeOK
    <2> QED
      BY <2>1, <2>2
  <1>5. ASSUME NEW k \in KeysOf(l)
        PROVE  /\ DOMAIN zset'[k] = DOMAIN zset[k] \ {l}
               /\ \A m \in DOMAIN zset'[k] : zset'[k][m] = zset[k][m]
    <2>1. zset'[k] = ZRem(zset[k], l)
      BY <1>2
    <2>2. DOMAIN ZRem(zset[k], l) = DOMAIN zset[k] \ {l}
      BY ZRemRemoves
    <2>3. \A m \in DOMAIN ZRem(zset[k], l) : ZRem(zset[k], l)[m] = zset[k][m]
      BY ZRemRemoves
    <2> QED
      BY <2>1, <2>2, <2>3
  <1>6. \A m \in LiveAt(zset[Global], redisNow) : m \in DOMAIN zset'[Global] \/ m = l
    BY <1>1, <1>5 DEF LiveAt
  <1>7. \A k \in Keys : /\ DOMAIN zset'[k] \subseteq DOMAIN zset[k]
                        /\ \A m \in DOMAIN zset'[k] : zset'[k][m] = zset[k][m]
    BY <1>3, <1>5
  <1>8. DOMAIN zset' = Keys
    OBVIOUS
  <1>9. RedisShrinks(l)
    BY <1>4, <1>6, <1>7, <1>8 DEF RedisShrinks
  <1> QED
    BY <1>9, RedisShrinksKeeps

LEMMA RedisRenewKeeps ==
  ASSUME RedisInv, NEW l \in Leases, RedisRenew(l) PROVE RedisInv'
  <1>1. ends' = ends /\ redisNow' = redisNow
    BY DEF RedisRenew
  <1>2. DOMAIN zset = Keys /\ KeysOf(l) \subseteq Keys
    BY KeysAreTwo DEF RedisInv, RedisTypeOK
  <1>3. CASE \A k \in KeysOf(l) : l \in ZLive(zset[k])
    <2>1. zset' = [k \in Keys |-> IF k \in KeysOf(l)
                                  THEN ZAdd(zset[k], l, redisNow + LeaseSeconds) ELSE zset[k]]
      BY <1>3 DEF RedisRenew, OnKeysOf
    <2>2. \A k \in KeysOf(l) : zset'[k] = [m \in DOMAIN zset[k] \cup {l} |->
                                 IF m = l THEN redisNow + LeaseSeconds ELSE zset[k][m]]
      BY <1>2, <2>1 DEF ZAdd
    <2>3. Enters(l)
      <3>1. DOMAIN zset' = Keys /\ \A k \in Keys \ KeysOf(l) : zset'[k] = zset[k]
        BY <2>1
      <3>2. \A k \in KeysOf(l) : DOMAIN zset'[k] = DOMAIN zset[k] \cup {l}
        BY <2>2
      <3>3. \A k \in KeysOf(l) : \A m \in DOMAIN zset[k] \cup {l} :
              zset'[k][m] = IF m = l THEN redisNow + LeaseSeconds ELSE zset[k][m]
        BY <2>2
      <3>4. \A k \in KeysOf(l) : LiveAt(zset[k], redisNow) \subseteq DOMAIN zset[k]
        BY DEF LiveAt
      <3> QED
        BY <1>1, <3>1, <3>2, <3>3, <3>4 DEF Enters
    <2> QED
      BY <1>1, <1>3, <2>3, EntersKeeps, ZLiveIsLiveAt
  <1>4. CASE ~ \A k \in KeysOf(l) : l \in ZLive(zset[k])
    <2>1. zset' = [k \in Keys |-> IF k \in KeysOf(l) THEN ZRem(zset[k], l) ELSE zset[k]]
      BY <1>4 DEF RedisRenew, OnKeysOf
    <2> QED
      BY <1>1, <2>1, ZRemShrinks
  <1> QED
    BY <1>3, <1>4

LEMMA RedisReleaseKeeps ==
  ASSUME RedisInv, NEW l \in Leases, RedisRelease(l) PROVE RedisInv'
  <1>1. /\ zset' = [k \in Keys |-> IF k \in KeysOf(l) THEN ZRem(zset[k], l) ELSE zset[k]]
        /\ ends' = ends /\ redisNow' = redisNow
    BY DEF RedisRelease, OnKeysOf
  <1> QED
    BY <1>1, ZRemShrinks

\* Time goes on: fewer are alive, and a key that dies takes no domain's cover with it,
\* because the domain's key is dead as well.
LEMMA RedisTickKeeps == ASSUME RedisInv, RedisTick PROVE RedisInv'
  <1>1. /\ redisNow' = redisNow + 1 /\ ends' = ends
        /\ zset' = [k \in Keys |-> IF ends[k] <= redisNow + 1 THEN Empty ELSE zset[k]]
    BY DEF RedisTick
  <1>2. /\ DOMAIN zset = Keys /\ ends \in [Keys -> Nat] /\ redisNow \in Nat
        /\ \A k \in Keys : /\ DOMAIN zset[k] \subseteq Leases
                           /\ \A l \in DOMAIN zset[k] : zset[k][l] \in Nat
        /\ \A d \in Domains : \A l \in DOMAIN zset[d] : DomainOf[l] = d
    BY DEF RedisInv, RedisTypeOK
  <1>3. DOMAIN Empty = {}
    BY DEF Empty
  <1>4. Global \in Keys /\ \A d \in Domains : d \in Keys
    BY DEF Keys
  <1>5. ASSUME NEW k \in Keys
        PROVE  /\ ends[k] <= redisNow + 1 => DOMAIN zset'[k] = {}
               /\ ~(ends[k] <= redisNow + 1) => zset'[k] = zset[k]
    BY <1>1, <1>3
  <1>6. RedisTypeOK'
    <2>1. DOMAIN zset' = Keys /\ redisNow' \in Nat /\ ends' \in [Keys -> Nat]
      BY <1>1, <1>2
    <2>2. ASSUME NEW k \in Keys PROVE /\ DOMAIN zset'[k] \subseteq DOMAIN zset[k]
                                      /\ \A l \in DOMAIN zset'[k] : zset'[k][l] = zset[k][l]
      BY <1>5
    <2> QED
      BY <1>2, <1>4, <2>1, <2>2 DEF RedisTypeOK
  <1>7. GlobalOutlives'
    <2>1. ends[Global] <= redisNow + Ttl /\ \A d \in Domains : ends[d] <= ends[Global]
      BY DEF RedisInv, GlobalOutlives
    <2>2. ends[Global] \in Nat /\ Ttl \in Nat
      <3>1. ends[Global] \in Nat
        BY <1>2, <1>4
      <3> QED
        BY <3>1, RedisNumbers
    <2>3. ends'[Global] <= redisNow' + Ttl
      BY <1>1, <1>2, <2>1, <2>2
    <2> QED
      BY <1>1, <2>1, <2>3 DEF GlobalOutlives, Ttl
  <1>8. ASSUME NEW k \in Keys
        PROVE  /\ LiveAt(zset'[k], redisNow') \subseteq LiveAt(zset[k], redisNow)
               /\ LiveAt(zset[k], redisNow) \in SUBSET Leases
    <2>1. ASSUME NEW l \in LiveAt(zset'[k], redisNow') PROVE l \in LiveAt(zset[k], redisNow)
      <3>1. l \in DOMAIN zset'[k] /\ zset'[k][l] > redisNow + 1
        BY <1>1 DEF LiveAt
      <3>2. l \in DOMAIN zset[k] /\ zset[k][l] > redisNow + 1
        BY <1>5, <3>1
      <3>3. zset[k][l] \in Nat
        BY <1>2, <3>2
      <3> QED
        BY <1>2, <3>2, <3>3 DEF LiveAt
    <2> QED
      BY <1>2, <2>1 DEF LiveAt
  <1>9. ASSUME NEW d \in Domains PROVE CoveredAt(zset'[d], zset'[Global], redisNow')
    <2>1. SUFFICES ASSUME NEW l \in LiveAt(zset'[d], redisNow')
                   PROVE  l \in DOMAIN zset'[Global] /\ zset'[Global][l] = zset'[d][l]
      BY DEF CoveredAt
    <2>2. l \in DOMAIN zset'[d] /\ l \in LiveAt(zset[d], redisNow)
      BY <1>4, <1>8 DEF LiveAt
    <2>3. ~(ends[d] <= redisNow + 1)
      BY <1>4, <1>5, <2>2
    <2>4. ~(ends[Global] <= redisNow + 1)
      <3>1. ends[d] <= ends[Global]
        BY DEF RedisInv, GlobalOutlives
      <3>2. ends[d] \in Nat /\ ends[Global] \in Nat
        BY <1>2, <1>4
      <3> QED
        BY <1>2, <2>3, <3>1, <3>2
    <2>5. zset'[d] = zset[d] /\ zset'[Global] = zset[Global]
      BY <1>4, <1>5, <2>3, <2>4
    <2>6. l \in DOMAIN zset[Global] /\ zset[Global][l] = zset[d][l]
      BY <2>2, AdmittedAt DEF RedisInv, CoveredAt
    <2> QED
      BY <2>5, <2>6
  <1>10. ASSUME NEW d \in Domains PROVE Cardinality(LiveAt(zset'[d], redisNow')) <= DomainLimit[d]
    <2>1. Cardinality(LiveAt(zset[d], redisNow)) <= DomainLimit[d]
      BY AdmittedAt DEF RedisInv
    <2> QED
      BY <1>8, <1>4, <2>1, Counts, RedisNumbers
  <1>11. Cardinality(LiveAt(zset'[Global], redisNow')) <= GlobalLimit
    <2>1. Cardinality(LiveAt(zset[Global], redisNow)) <= GlobalLimit
      BY AdmittedAt DEF RedisInv
    <2> QED
      BY <1>8, <1>4, <2>1, Counts, RedisNumbers
  <1>12. Cardinality(LiveAt(zset'[Global], redisNow') \ Emergencies) <= GlobalLimit - EmergencyReserve
    <2>1. Cardinality(LiveAt(zset[Global], redisNow) \ Emergencies) <= GlobalLimit - EmergencyReserve
      BY AdmittedAt DEF RedisInv
    <2>2. /\ LiveAt(zset'[Global], redisNow') \ Emergencies
               \subseteq LiveAt(zset[Global], redisNow) \ Emergencies
          /\ LiveAt(zset[Global], redisNow) \ Emergencies \in SUBSET Leases
      BY <1>8, <1>4
    <2> QED
      BY <2>1, <2>2, Counts, RedisNumbers
  <1>13. AdmittedRespectsPolicy'
    BY <1>9, <1>10, <1>11, <1>12, AdmittedAt
  <1> QED
    BY <1>6, <1>7, <1>13 DEF RedisInv

LEMMA RedisInitInv == RedisInit => RedisInv
  <1> SUFFICES ASSUME RedisInit PROVE RedisInv
    OBVIOUS
  <1>1. /\ zset = [k \in Keys |-> Empty] /\ ends = [k \in Keys |-> 0] /\ redisNow = 0
    BY DEF RedisInit
  <1>2. DOMAIN Empty = {} /\ Global \in Keys /\ \A d \in Domains : d \in Keys
    BY DEF Empty, Keys
  <1>3. RedisTypeOK
    BY <1>1, <1>2 DEF RedisTypeOK
  <1>4. GlobalOutlives
    BY <1>1, <1>2, RedisNumbers DEF GlobalOutlives
  <1>5. AdmittedRespectsPolicy
    <2>1. \A k \in Keys : LiveAt(zset[k], redisNow) = {}
      BY <1>1, <1>2 DEF LiveAt
    <2>2. Cardinality({}) = 0 /\ {} \ Emergencies = {}
      BY FS_EmptySet
    <2>3. LiveAt(zset[Global], redisNow) = {} /\ \A d \in Domains : LiveAt(zset[d], redisNow) = {}
      BY <1>2, <2>1
    <2>4. \A d \in Domains : CoveredAt(zset[d], zset[Global], redisNow)
      BY <2>3 DEF CoveredAt
    <2>5. /\ Cardinality(LiveAt(zset[Global], redisNow)) = 0
          /\ Cardinality(LiveAt(zset[Global], redisNow) \ Emergencies) = 0
          /\ \A d \in Domains : Cardinality(LiveAt(zset[d], redisNow)) = 0
      BY <2>2, <2>3
    <2>6. 0 <= GlobalLimit /\ 0 <= GlobalLimit - EmergencyReserve /\ \A d \in Domains : 0 <= DomainLimit[d]
      BY RedisNumbers
    <2> QED
      BY <2>4, <2>5, <2>6, AdmittedAt
  <1> QED
    BY <1>3, <1>4, <1>5 DEF RedisInv

LEMMA RedisNextInv == RedisInv /\ [RedisNext]_redisVars => RedisInv'
  <1> SUFFICES ASSUME RedisInv, [RedisNext]_redisVars PROVE RedisInv'
    OBVIOUS
  <1>1. ASSUME NEW l \in Leases,
               RedisReserve(l) \/ RedisRenew(l) \/ RedisRelease(l)
        PROVE  RedisInv'
    BY <1>1, RedisReserveKeeps, RedisRenewKeeps, RedisReleaseKeeps
  <1>2. CASE RedisTick
    BY <1>2, RedisTickKeeps
  <1>3. ASSUME zset' = zset, ends' = ends, redisNow' = redisNow PROVE RedisInv'
    <2>1. RedisTypeOK'
      BY <1>3 DEF RedisInv, RedisTypeOK
    <2>2. GlobalOutlives'
      BY <1>3 DEF RedisInv, GlobalOutlives
    <2>3. AdmittedRespectsPolicy'
      BY <1>3, AdmittedAt DEF RedisInv
    <2> QED
      BY <2>1, <2>2, <2>3 DEF RedisInv
  <1>4. ASSUME NEW l \in Leases, RedisAbandon(l) PROVE RedisInv'
    BY <1>3, <1>4 DEF RedisAbandon
  <1>5. CASE UNCHANGED redisVars
    BY <1>3, <1>5 DEF redisVars
  <1> QED
    BY <1>1, <1>2, <1>4, <1>5 DEF RedisNext

\* What the sorted sets of the Redis backend count respects the policy, and what counts
\* for a domain counts globally as well, whatever was renewed, lost, abandoned or deleted
\* with its key: for any policy, lease length and floor of the time to live.
THEOREM AdmissionsRespectPolicy == RedisCapacitySpec => []AdmittedRespectsPolicy
  <1>1. RedisInit => RedisInv
    BY RedisInitInv
  <1>2. RedisInv /\ [RedisNext]_redisVars => RedisInv'
    BY RedisNextInv
  <1>3. RedisInv => AdmittedRespectsPolicy
    BY DEF RedisInv
  <1> QED
    BY <1>1, <1>2, <1>3, PTL DEF RedisCapacitySpec

-----------------------------------------------------------------------------
(* The life cycle of the worker pool                                       *)

StopRows == [pc : {"out", "waiting", "joining"}, gen : 0..MaxStarts]

PoolTypeOK ==
  /\ stopSet \in BOOLEAN /\ overlapped \in BOOLEAN
  /\ started \in 0..MaxStarts /\ tasks \in 0..started
  /\ live \in [Generations -> SUBSET Loops]
  /\ stopping \in [Callers -> StopRows]

\* As long as stops do not overlap: at most one is under way, of the generation
\* in _tasks, and only loops of that generation are alive.
OneStopAtATime ==
  ~overlapped =>
    /\ \A c, d \in Callers : stopping[c].pc # "out" /\ stopping[d].pc # "out" => c = d
    /\ \A c \in Callers : stopping[c].pc # "out" => tasks # 0 /\ stopping[c].gen = tasks
    /\ \A g \in Generations : live[g] # {} => g = tasks

PoolInv == PoolTypeOK /\ OneStopAtATime

\* A caller's place in stop changes.
LEMMA CallerMoves ==
  ASSUME PoolTypeOK, NEW c \in Callers, NEW row, row \in StopRows,
         stopping' = [stopping EXCEPT ![c] = row]
  PROVE  /\ stopping' \in [Callers -> StopRows] /\ stopping'[c] = row
         /\ \A d \in Callers : d # c => stopping'[d] = stopping[d]
  BY DEF PoolTypeOK

LEMMA PoolNextInv == PoolInv /\ [LifecycleNext]_poolVars => PoolInv'
  <1> SUFFICES ASSUME PoolInv, [LifecycleNext]_poolVars PROVE PoolInv'
    OBVIOUS
  <1> USE PoolConfig
  <1>0. Outside \in StopRows /\ Outside.pc = "out"
    BY DEF Outside, StopRows
  <1>1. CASE UNCHANGED poolVars \/ RequestStop
    BY <1>1 DEF PoolInv, PoolTypeOK, OneStopAtATime, poolVars, RequestStop
  <1>2. ASSUME NEW c \in Callers, StartPool(c) PROVE PoolInv'
    <2>1. PoolTypeOK'
      <3>1. started' \in 0..MaxStarts /\ tasks' \in 0..started'
        BY <1>2 DEF PoolInv, PoolTypeOK, StartPool
      <3>2. live' \in [Generations -> SUBSET Loops]
        BY <1>2 DEF PoolInv, PoolTypeOK, StartPool
      <3> QED
        BY <1>2, <3>1, <3>2 DEF PoolInv, PoolTypeOK, StartPool
    <2>2. OneStopAtATime'
      BY <1>2 DEF PoolInv, PoolTypeOK, OneStopAtATime, StartPool, Generations
    <2> QED
      BY <2>1, <2>2 DEF PoolInv
  <1>3. ASSUME NEW c \in Callers, StopCall(c) PROVE PoolInv'
    <2>1. CASE tasks = 0
      BY <1>3, <2>1 DEF PoolInv, PoolTypeOK, OneStopAtATime, StopCall
    <2>2. CASE tasks # 0
      <3> DEFINE row == [pc |-> "waiting", gen |-> tasks]
      <3>1. row \in StopRows /\ row.gen = tasks
        BY DEF StopRows, PoolInv, PoolTypeOK
      <3>2. /\ stopSet' = TRUE /\ stopping' = [stopping EXCEPT ![c] = row]
            /\ overlapped' = (overlapped \/ \E d \in Callers : stopping[d].pc # "out")
            /\ UNCHANGED <<tasks, started, live, cancelled>>
        BY <1>3, <2>2 DEF StopCall
      <3> HIDE DEF row
      <3>3. /\ stopping' \in [Callers -> StopRows] /\ stopping'[c] = row
            /\ \A d \in Callers : d # c => stopping'[d] = stopping[d]
        BY <3>1, <3>2, CallerMoves DEF PoolInv
      <3>4. PoolTypeOK'
        BY <3>2, <3>3 DEF PoolInv, PoolTypeOK
      <3>5. OneStopAtATime'
        BY <2>2, <3>1, <3>2, <3>3 DEF PoolInv, OneStopAtATime
      <3> QED
        BY <3>4, <3>5 DEF PoolInv
    <2> QED
      BY <2>1, <2>2
  <1>4. ASSUME NEW c \in Callers, StopCancel(c) PROVE PoolInv'
    <2> DEFINE row == [stopping[c] EXCEPT !.pc = "joining"]
    <2>1. stopping[c] \in StopRows
      BY DEF PoolInv, PoolTypeOK
    <2>2. row \in StopRows /\ row.gen = stopping[c].gen
      BY <2>1 DEF StopRows
    <2>3. /\ stopping[c].pc = "waiting" /\ stopping' = [stopping EXCEPT ![c] = row]
          /\ UNCHANGED <<stopSet, tasks, started, live, overlapped>>
      BY <1>4 DEF StopCancel
    <2> HIDE DEF row
    <2>4. /\ stopping' \in [Callers -> StopRows] /\ stopping'[c] = row
          /\ \A d \in Callers : d # c => stopping'[d] = stopping[d]
      BY <2>2, <2>3, CallerMoves DEF PoolInv
    <2>5. OneStopAtATime'
      BY <2>2, <2>3, <2>4 DEF PoolInv, OneStopAtATime
    <2>6. PoolTypeOK'
      BY <2>3, <2>4 DEF PoolInv, PoolTypeOK
    <2> QED
      BY <2>5, <2>6 DEF PoolInv
  <1>5. ASSUME NEW c \in Callers, StopClear(c) \/ StopInterrupted(c) PROVE PoolInv'
    <2>1. /\ stopping[c].pc # "out" /\ stopping' = [stopping EXCEPT ![c] = Outside]
          /\ UNCHANGED <<stopSet, started, live, cancelled, overlapped>>
          /\ \/ tasks' = 0 /\ live[stopping[c].gen] = {}
             \/ UNCHANGED tasks
      BY <1>5 DEF StopClear, StopInterrupted
    <2>2. /\ stopping' \in [Callers -> StopRows] /\ stopping'[c] = Outside
          /\ \A d \in Callers : d # c => stopping'[d] = stopping[d]
      BY <1>0, <2>1, CallerMoves DEF PoolInv
    <2>3. PoolTypeOK'
      BY <2>1, <2>2 DEF PoolInv, PoolTypeOK
    <2>4. OneStopAtATime'
      BY <1>0, <2>1, <2>2 DEF PoolInv, OneStopAtATime
    <2> QED
      BY <2>3, <2>4 DEF PoolInv
  <1>6. ASSUME NEW g \in Generations, NEW l \in Loops, Ends(g, l) PROVE PoolInv'
    <2>1. PoolTypeOK'
      BY <1>6 DEF PoolInv, PoolTypeOK, Ends
    <2>2. OneStopAtATime'
      BY <1>6 DEF PoolInv, PoolTypeOK, OneStopAtATime, Ends
    <2> QED
      BY <2>1, <2>2 DEF PoolInv
  <1> QED
    BY <1>1, <1>2, <1>3, <1>4, <1>5, <1>6
    DEF LifecycleNext, LoopExits, LoopCancelled, LoopDies

\* For any number of loops, callers and restarts: while stops do not overlap,
\* only loops that the pool still knows of are alive.
THEOREM LoopsAreKnown == LifecycleSpec => []NoOrphanLoops
  <1>1. LifecycleInit => PoolInv
    <2>1. Outside \in StopRows /\ Outside.pc = "out"
      BY PoolConfig DEF Outside, StopRows
    <2>2. LifecycleInit => PoolTypeOK
      <3> SUFFICES ASSUME LifecycleInit PROVE PoolTypeOK
        OBVIOUS
      <3>1. stopSet \in BOOLEAN /\ overlapped \in BOOLEAN
        BY DEF LifecycleInit
      <3>2. started \in 0..MaxStarts /\ tasks \in 0..started
        BY PoolConfig DEF LifecycleInit
      <3>3. live \in [Generations -> SUBSET Loops]
        BY DEF LifecycleInit
      <3>4. stopping \in [Callers -> StopRows]
        BY <2>1 DEF LifecycleInit
      <3> QED
        BY <3>1, <3>2, <3>3, <3>4 DEF PoolTypeOK
    <2>3. LifecycleInit => OneStopAtATime
      BY <2>1 DEF LifecycleInit, OneStopAtATime
    <2> QED
      BY <2>2, <2>3 DEF PoolInv
  <1>2. PoolInv => NoOrphanLoops
    BY DEF PoolInv, OneStopAtATime, NoOrphanLoops
  <1> QED
    BY <1>1, <1>2, PoolNextInv, PTL DEF LifecycleSpec

-----------------------------------------------------------------------------
(* The admission of HTTP requests                                          *)

Stages == {"waiting", "running", "stopping", "rejected", "failed", "done", "cut"}

RequestTypeOK ==
  /\ DOMAIN entries = ReqKeys /\ DOMAIN keyTtl = ReqKeys
  /\ \A k \in ReqKeys : /\ DOMAIN entries[k] \subseteq HttpRequests
                        /\ \A q \in DOMAIN entries[k] : entries[k][q] \in Nat
                        /\ keyTtl[k] \in Nat
  /\ stage \in [HttpRequests -> Stages]
  /\ belief \in [HttpRequests -> 0..RequestLease]

\* What a request believes about its lease the keys grant it, and they do not die before.
Backed(k, q) ==
  /\ q \in DOMAIN entries[k]
  /\ entries[k][q] >= belief[q]
  /\ keyTtl[k] >= belief[q]

BeliefsAreBacked ==
  \A q \in WorkingRequests(HttpRequests) : \A k \in ReqKeysOf(q) : Backed(k, q)

\* What admission counts is within the limits.
KeysWithinLimits ==
  /\ Weight(LiveEntries(GlobalKey)) <= GlobalOcu
  /\ \A a \in Actors : Weight(LiveEntries(a)) <= ActorOcu

RequestInv ==
  /\ RequestTypeOK
  /\ BeliefsAreBacked
  /\ KeysWithinLimits

\* The limit of a key.
OcuOf(k) == IF k = GlobalKey THEN GlobalOcu ELSE ActorOcu

LEMMA KeysByLimit ==
  KeysWithinLimits <=> \A k \in ReqKeys : Weight(LiveEntries(k)) <= OcuOf(k)
  BY RequestConfig DEF KeysWithinLimits, OcuOf, ReqKeys

LEMMA KeysOfRequest ==
  ASSUME NEW q \in HttpRequests
  PROVE  /\ ReqKeysOf(q) \subseteq ReqKeys /\ GlobalKey \in ReqKeysOf(q)
         /\ ActorOf[q] # NoActor => ActorOf[q] \in ReqKeysOf(q)
         /\ \A k \in ReqKeysOf(q) : k # GlobalKey => k = ActorOf[q] /\ k # NoActor
  BY RequestConfig DEF ReqKeysOf, ReqKeys, Actors

\* The weight of requests is a number, grows with the set, and by one weight
\* with one request.
LEMMA Weights ==
  ASSUME NEW S \in SUBSET HttpRequests
  PROVE  /\ Weight(S) \in Nat
         /\ \A T \in SUBSET S : Weight(T) \in Nat /\ Weight(T) <= Weight(S)
         /\ \A q \in HttpRequests : Weight(S \cup {q}) <= Weight(S) + WeightOf[q]
  <1>1. IsFiniteSet(S) /\ \A q \in HttpRequests : WeightOf[q] \in Nat
    BY RequestConfig, FS_Subset
  <1>2. \A T \in SUBSET S : IsFiniteSet(T)
    BY <1>1, FS_Subset
  <1>3. \A T \in SUBSET S : Weight(T) \in Nat
    BY <1>1, <1>2, SumType DEF Weight
  <1>4. \A T \in SUBSET S : Weight(T) <= Weight(S)
    BY <1>1, SumSubset DEF Weight
  <1>5. ASSUME NEW q \in HttpRequests
        PROVE  Weight(S \cup {q}) <= Weight(S) + WeightOf[q]
    <2>1. Weight(S) \in Nat /\ WeightOf[q] \in Nat
      BY <1>1, <1>3
    <2>2. CASE q \in S
      <3>1. S \cup {q} = S
        BY <2>2
      <3> QED
        BY <3>1, <2>1
    <2>3. CASE q \notin S
      <3>1. Weight(S \cup {q}) = WeightOf[q] + Weight(S)
        BY <1>1, <2>3, SumAdd DEF Weight
      <3> QED
        BY <3>1, <2>1
    <2> QED
      BY <2>2, <2>3
  <1> QED
    BY <1>3, <1>4, <1>5

\* The entries alive of a key, of a given table.
LiveOf(e) == {q \in DOMAIN e : e[q] > 0}

LEMMA LiveIsLiveOf == \A k : LiveEntries(k) = LiveOf(entries[k]) /\ LiveEntries(k)' = LiveOf(entries'[k])
  BY DEF LiveEntries, LiveOf

\* A key in which fewer are alive is still within its limit.
LEMMA FewerAreWithin ==
  ASSUME RequestInv, NEW k \in ReqKeys, LiveOf(entries'[k]) \subseteq LiveEntries(k)
  PROVE  Weight(LiveOf(entries'[k])) <= OcuOf(k)
  <1>1. LiveEntries(k) \in SUBSET HttpRequests
    BY DEF RequestInv, RequestTypeOK, LiveEntries
  <1>2. Weight(LiveEntries(k)) <= OcuOf(k)
    BY KeysByLimit DEF RequestInv
  <1>3. OcuOf(k) \in Nat
    BY RequestConfig DEF OcuOf
  <1> QED
    BY <1>1, <1>2, <1>3, Weights

LEMMA TtlIsLonger == KeyTtl \in Nat /\ KeyTtl >= RequestLease
  BY RequestConfig DEF KeyTtl

\* A script that grants keeps the types, and keeps every other request's entry.
LEMMA GrantedKeeps ==
  ASSUME RequestInv, NEW q \in HttpRequests, Granted(q)
  PROVE  /\ DOMAIN entries' = ReqKeys /\ DOMAIN keyTtl' = ReqKeys
         /\ \A k \in ReqKeys : /\ DOMAIN entries'[k] \subseteq HttpRequests
                               /\ \A r \in DOMAIN entries'[k] : entries'[k][r] \in Nat
                               /\ keyTtl'[k] \in Nat
         /\ \A r \in WorkingRequests(HttpRequests) : \A k \in ReqKeysOf(r) :
              /\ r \in DOMAIN entries'[k] /\ entries'[k][r] >= belief[r]
              /\ keyTtl'[k] >= belief[r]
         /\ \A k \in ReqKeysOf(q) : /\ q \in DOMAIN entries'[k]
                                    /\ entries'[k][q] = RequestLease
                                    /\ keyTtl'[k] >= RequestLease
         /\ \A k \in ReqKeysOf(q) : LiveOf(entries'[k]) = LiveEntries(k) \cup {q}
         /\ \A k \in ReqKeys \ ReqKeysOf(q) : entries'[k] = entries[k]
  <1> DEFINE New(k) == [r \in LiveEntries(k) \cup {q} |->
                          IF r = q THEN RequestLease ELSE entries[k][r]]
  <1>1. /\ entries' = [k \in ReqKeys |-> IF k \notin ReqKeysOf(q) THEN entries[k] ELSE New(k)]
        /\ keyTtl' = [k \in ReqKeys |-> IF k \in ReqKeysOf(q) THEN KeyTtl ELSE keyTtl[k]]
    BY DEF Granted
  <1>2. RequestLease \in Nat \ {0}
    BY RequestConfig
  <1>3. \A k \in ReqKeys : /\ DOMAIN entries[k] \subseteq HttpRequests
                           /\ \A r \in DOMAIN entries[k] : entries[k][r] \in Nat
                           /\ keyTtl[k] \in Nat
    BY DEF RequestInv, RequestTypeOK
  <1>4. \A r \in HttpRequests : belief[r] \in 0..RequestLease
    BY DEF RequestInv, RequestTypeOK
  <1>5. \A r \in HttpRequests : ReqKeysOf(r) \subseteq ReqKeys
    BY KeysOfRequest
  <1>6. ASSUME NEW k \in ReqKeys
        PROVE  /\ DOMAIN New(k) = LiveEntries(k) \cup {q}
               /\ LiveEntries(k) \subseteq DOMAIN entries[k]
               /\ New(k)[q] = RequestLease
               /\ \A r \in LiveEntries(k) : r # q => New(k)[r] = entries[k][r] /\ entries[k][r] > 0
    BY DEF LiveEntries
  <1>7. \A k \in ReqKeysOf(q) : entries'[k] = New(k) /\ keyTtl'[k] = KeyTtl
    BY <1>1, <1>5
  <1>8. \A k \in ReqKeys \ ReqKeysOf(q) : entries'[k] = entries[k] /\ keyTtl'[k] = keyTtl[k]
    BY <1>1
  <1> HIDE DEF New
  <1>9. ASSUME NEW k \in ReqKeys
        PROVE  /\ DOMAIN entries'[k] \subseteq HttpRequests
               /\ \A r \in DOMAIN entries'[k] : entries'[k][r] \in Nat
               /\ keyTtl'[k] \in Nat
    <2>1. CASE k \in ReqKeysOf(q)
      <3>1. entries'[k] = New(k) /\ keyTtl'[k] = KeyTtl
        BY <1>7, <2>1
      <3>2. DOMAIN New(k) \subseteq HttpRequests
        BY <1>3, <1>6
      <3>3. \A r \in DOMAIN New(k) : New(k)[r] \in Nat
        BY <1>2, <1>3, <1>6
      <3> QED
        BY <3>1, <3>2, <3>3, TtlIsLonger
    <2>2. CASE k \notin ReqKeysOf(q)
      BY <1>3, <1>8, <2>2
    <2> QED
      BY <2>1, <2>2
  <1>10. ASSUME NEW r \in WorkingRequests(HttpRequests), NEW k \in ReqKeysOf(r)
         PROVE  /\ r \in DOMAIN entries'[k] /\ entries'[k][r] >= belief[r]
                /\ keyTtl'[k] >= belief[r]
    <2>1. r \in HttpRequests /\ belief[r] > 0 /\ belief[r] \in 0..RequestLease /\ k \in ReqKeys
      BY <1>4, <1>5 DEF WorkingRequests
    <2>2. r \in DOMAIN entries[k] /\ entries[k][r] >= belief[r] /\ keyTtl[k] >= belief[r]
      BY DEF RequestInv, BeliefsAreBacked, Backed
    <2>3. entries[k][r] \in Nat
      BY <1>3, <2>1, <2>2
    <2>4. r \in LiveEntries(k)
      BY <1>2, <2>1, <2>2, <2>3 DEF LiveEntries
    <2>5. CASE k \in ReqKeysOf(q)
      <3>1. entries'[k] = New(k) /\ keyTtl'[k] = KeyTtl
        BY <1>7, <2>5
      <3>2. r \in DOMAIN New(k) /\ New(k)[r] \in {RequestLease, entries[k][r]}
        BY <1>6, <2>1, <2>4
      <3> QED
        BY <3>1, <3>2, <2>1, <2>2, <1>2, TtlIsLonger
    <2>6. CASE k \notin ReqKeysOf(q)
      BY <1>8, <2>1, <2>2, <2>6
    <2> QED
      BY <2>5, <2>6
  <1>11. ASSUME NEW k \in ReqKeysOf(q)
         PROVE  /\ q \in DOMAIN entries'[k] /\ entries'[k][q] = RequestLease
                /\ keyTtl'[k] >= RequestLease
                /\ LiveOf(entries'[k]) = LiveEntries(k) \cup {q}
    <2>1. k \in ReqKeys /\ entries'[k] = New(k) /\ keyTtl'[k] = KeyTtl
      BY <1>5, <1>7
    <2>2. LiveOf(New(k)) = LiveEntries(k) \cup {q}
      <3>1. DOMAIN New(k) = LiveEntries(k) \cup {q}
        BY <1>6, <2>1
      <3>2. ASSUME NEW r \in LiveEntries(k) \cup {q} PROVE New(k)[r] > 0
        <4>1. New(k)[q] = RequestLease
          BY <1>6, <2>1
        <4>2. r # q => New(k)[r] = entries[k][r] /\ entries[k][r] > 0
          BY <1>6, <2>1
        <4> QED
          BY <1>2, <4>1, <4>2
      <3> QED
        BY <3>1, <3>2 DEF LiveOf
    <2> QED
      BY <1>6, <2>1, <2>2, TtlIsLonger
  <1>12. DOMAIN entries' = ReqKeys /\ DOMAIN keyTtl' = ReqKeys
    BY <1>1
  <1> QED
    BY <1>8, <1>9, <1>10, <1>11, <1>12

\* An admission, with the sets that the keys then hold.
LEMMA AdmittedIsWithin ==
  ASSUME RequestInv, NEW q \in HttpRequests, Granted(q),
         \/ AdmitsRequest(q)
         \/ \A k \in ReqKeysOf(q) : q \in LiveEntries(k)
  PROVE  KeysWithinLimits'
  <1>1. SUFFICES ASSUME NEW k \in ReqKeys PROVE Weight(LiveOf(entries'[k])) <= OcuOf(k)
    BY LiveIsLiveOf, RequestConfig DEF KeysWithinLimits, OcuOf, ReqKeys
  <1>2. LiveEntries(k) \in SUBSET HttpRequests
    BY DEF RequestInv, RequestTypeOK, LiveEntries
  <1>3. Weight(LiveEntries(k)) <= OcuOf(k) /\ OcuOf(k) \in Nat /\ Weight(LiveEntries(k)) \in Nat
    <2>1. Weight(LiveEntries(k)) <= OcuOf(k)
      BY KeysByLimit DEF RequestInv
    <2>2. OcuOf(k) \in Nat
      BY RequestConfig DEF OcuOf
    <2> QED
      BY <2>1, <2>2, <1>2, Weights
  <1>4. CASE k \notin ReqKeysOf(q)
    <2>1. entries'[k] = entries[k]
      BY <1>4, GrantedKeeps
    <2> QED
      BY <2>1, <1>3, LiveIsLiveOf
  <1>5. CASE k \in ReqKeysOf(q)
    <2>1. LiveOf(entries'[k]) = LiveEntries(k) \cup {q}
      BY <1>5, GrantedKeeps
    <2>2. CASE AdmitsRequest(q)
      <3>1. Weight(LiveEntries(k)) + WeightOf[q] <= OcuOf(k)
        <4>1. CASE k = GlobalKey
          BY <2>2, <4>1 DEF AdmitsRequest, OcuOf
        <4>2. CASE k # GlobalKey
          <5>1. k = ActorOf[q] /\ k # NoActor
            BY <1>5, <4>2, KeysOfRequest
          <5> QED
            BY <2>2, <4>2, <5>1 DEF AdmitsRequest, OcuOf
        <4> QED
          BY <4>1, <4>2
      <3>2. Weight(LiveEntries(k) \cup {q}) <= Weight(LiveEntries(k)) + WeightOf[q]
        BY <1>2, Weights
      <3>3. WeightOf[q] \in Nat /\ Weight(LiveEntries(k) \cup {q}) \in Nat
        <4>1. LiveEntries(k) \cup {q} \in SUBSET HttpRequests
          BY <1>2
        <4> QED
          BY <4>1, Weights, RequestConfig
      <3> QED
        BY <1>3, <2>1, <3>1, <3>2, <3>3
    <2>3. CASE \A j \in ReqKeysOf(q) : q \in LiveEntries(j)
      <3>1. LiveEntries(k) \cup {q} = LiveEntries(k)
        BY <1>5, <2>3
      <3> QED
        BY <1>3, <2>1, <3>1
    <2> QED
      BY <2>2, <2>3
  <1> QED
    BY <1>4, <1>5

\* A script that only drops dead entries, or those of a request that does not work.
Shrinks(gone) ==
  /\ DOMAIN entries' = ReqKeys
  /\ \A k \in ReqKeys :
       /\ DOMAIN entries'[k] \subseteq DOMAIN entries[k]
       /\ \A r \in DOMAIN entries'[k] : entries'[k][r] = entries[k][r]
       /\ \A r \in LiveEntries(k) : r = gone \/ r \in DOMAIN entries'[k]
  /\ keyTtl' = keyTtl

LEMMA ShrinksKeeps ==
  ASSUME RequestInv, NEW gone, Shrinks(gone)
  PROVE  /\ DOMAIN entries' = ReqKeys /\ DOMAIN keyTtl' = ReqKeys
         /\ \A k \in ReqKeys : /\ DOMAIN entries'[k] \subseteq HttpRequests
                               /\ \A r \in DOMAIN entries'[k] : entries'[k][r] \in Nat
                               /\ keyTtl'[k] \in Nat
         /\ \A r \in WorkingRequests(HttpRequests) : r # gone => \A k \in ReqKeysOf(r) :
              /\ r \in DOMAIN entries'[k] /\ entries'[k][r] >= belief[r]
              /\ keyTtl'[k] >= belief[r]
         /\ KeysWithinLimits'
  <1>1. \A k \in ReqKeys : /\ DOMAIN entries[k] \subseteq HttpRequests
                           /\ \A r \in DOMAIN entries[k] : entries[k][r] \in Nat
                           /\ keyTtl[k] \in Nat
    BY DEF RequestInv, RequestTypeOK
  <1>2. ASSUME NEW k \in ReqKeys
        PROVE  /\ DOMAIN entries'[k] \subseteq HttpRequests
               /\ \A r \in DOMAIN entries'[k] : entries'[k][r] \in Nat
               /\ keyTtl'[k] \in Nat
    BY <1>1 DEF Shrinks
  <1>3. ASSUME NEW r \in WorkingRequests(HttpRequests), r # gone, NEW k \in ReqKeysOf(r)
        PROVE  /\ r \in DOMAIN entries'[k] /\ entries'[k][r] >= belief[r]
               /\ keyTtl'[k] >= belief[r]
    <2>1. r \in HttpRequests /\ belief[r] > 0 /\ belief[r] \in Nat
      BY RequestConfig DEF WorkingRequests, RequestInv, RequestTypeOK
    <2>2. k \in ReqKeys
      BY <2>1, KeysOfRequest
    <2>3. r \in DOMAIN entries[k] /\ entries[k][r] >= belief[r] /\ keyTtl[k] >= belief[r]
      BY DEF RequestInv, BeliefsAreBacked, Backed
    <2>4. r \in LiveEntries(k)
      <3>1. entries[k][r] \in Nat
        BY <1>1, <2>2, <2>3
      <3> QED
        BY <2>1, <2>3, <3>1 DEF LiveEntries
    <2> QED
      BY <1>3, <2>2, <2>3, <2>4 DEF Shrinks
  <1>4. ASSUME NEW k \in ReqKeys PROVE Weight(LiveOf(entries'[k])) <= OcuOf(k)
    <2>1. LiveOf(entries'[k]) \subseteq LiveEntries(k)
      BY DEF Shrinks, LiveOf, LiveEntries
    <2> QED
      BY <2>1, FewerAreWithin
  <1>5. KeysWithinLimits'
    BY <1>4, LiveIsLiveOf, RequestConfig DEF KeysWithinLimits, OcuOf, ReqKeys
  <1>6. DOMAIN entries' = ReqKeys /\ DOMAIN keyTtl' = ReqKeys
    BY DEF Shrinks, RequestInv, RequestTypeOK
  <1> QED
    BY <1>2, <1>3, <1>5, <1>6

-----------------------------------------------------------------------------
(* The steps of a request                                                  *)

\* The parts of the invariant about the requests, when one of them moves.
LEMMA RequestMoves ==
  ASSUME RequestInv, NEW q \in HttpRequests, NEW st \in Stages, NEW b \in 0..RequestLease,
         stage' = [stage EXCEPT ![q] = st], belief' = [belief EXCEPT ![q] = b]
  PROVE  /\ stage' \in [HttpRequests -> Stages]
         /\ belief' \in [HttpRequests -> 0..RequestLease]
         /\ stage'[q] = st /\ belief'[q] = b
         /\ \A r \in HttpRequests \ {q} : stage'[r] = stage[r] /\ belief'[r] = belief[r]
  BY DEF RequestInv, RequestTypeOK

\* The invariant from its parts, for a step of q.
LEMMA RequestStepKeeps ==
  ASSUME RequestInv, NEW q \in HttpRequests, NEW st \in Stages, NEW b \in 0..RequestLease,
         stage' = [stage EXCEPT ![q] = st], belief' = [belief EXCEPT ![q] = b],
         DOMAIN entries' = ReqKeys, DOMAIN keyTtl' = ReqKeys,
         \A k \in ReqKeys : /\ DOMAIN entries'[k] \subseteq HttpRequests
                            /\ \A r \in DOMAIN entries'[k] : entries'[k][r] \in Nat
                            /\ keyTtl'[k] \in Nat,
         \A r \in WorkingRequests(HttpRequests) : r # q => \A k \in ReqKeysOf(r) :
              /\ r \in DOMAIN entries'[k] /\ entries'[k][r] >= belief[r]
              /\ keyTtl'[k] >= belief[r],
         st \in {"running", "stopping"} /\ b > 0 => \A k \in ReqKeysOf(q) :
              /\ q \in DOMAIN entries'[k] /\ entries'[k][q] >= b
              /\ keyTtl'[k] >= b,
         KeysWithinLimits'
  PROVE  RequestInv'
  <1>1. /\ stage' \in [HttpRequests -> Stages]
        /\ belief' \in [HttpRequests -> 0..RequestLease]
        /\ stage'[q] = st /\ belief'[q] = b
        /\ \A r \in HttpRequests \ {q} : stage'[r] = stage[r] /\ belief'[r] = belief[r]
    BY RequestMoves
  <1>2. RequestTypeOK'
    BY <1>1 DEF RequestTypeOK
  <1>3. BeliefsAreBacked'
    <2>1. SUFFICES ASSUME NEW r \in HttpRequests, stage'[r] \in {"running", "stopping"},
                          belief'[r] > 0, NEW k \in ReqKeysOf(r)
                   PROVE  /\ r \in DOMAIN entries'[k] /\ entries'[k][r] >= belief'[r]
                          /\ keyTtl'[k] >= belief'[r]
      BY DEF BeliefsAreBacked, Backed, WorkingRequests
    <2>2. CASE r = q
      BY <1>1, <2>1, <2>2
    <2>3. CASE r # q
      <3>1. stage'[r] = stage[r] /\ belief'[r] = belief[r]
        BY <1>1, <2>3
      <3>2. r \in WorkingRequests(HttpRequests)
        BY <2>1, <3>1 DEF WorkingRequests
      <3> QED
        BY <2>3, <3>1, <3>2
    <2> QED
      BY <2>2, <2>3
  <1> QED
    BY <1>2, <1>3 DEF RequestInv

\* A request that does not move changes nothing.
LEMMA Unmoved ==
  ASSUME RequestInv, NEW q \in HttpRequests
  PROVE  /\ stage[q] \in Stages /\ belief[q] \in 0..RequestLease
         /\ belief = [belief EXCEPT ![q] = belief[q]]
         /\ stage = [stage EXCEPT ![q] = stage[q]]
         /\ RequestLease \in 0..RequestLease /\ 0 \in 0..RequestLease
  BY RequestConfig DEF RequestInv, RequestTypeOK

\* Who believes in its lease has it.
LEMMA BelieverHasLease ==
  ASSUME RequestInv, NEW q \in HttpRequests, stage[q] \in {"running", "stopping"}, belief[q] > 0
  PROVE  /\ q \in WorkingRequests(HttpRequests)
         /\ \A k \in ReqKeysOf(q) : /\ q \in LiveEntries(k)
                                    /\ q \in DOMAIN entries[k] /\ entries[k][q] >= belief[q]
                                    /\ keyTtl[k] >= belief[q]
  <1>1. q \in WorkingRequests(HttpRequests)
    BY DEF WorkingRequests
  <1>2. ASSUME NEW k \in ReqKeysOf(q)
        PROVE  /\ q \in LiveEntries(k)
               /\ q \in DOMAIN entries[k] /\ entries[k][q] >= belief[q] /\ keyTtl[k] >= belief[q]
    <2>1. q \in DOMAIN entries[k] /\ entries[k][q] >= belief[q] /\ keyTtl[k] >= belief[q]
      BY <1>1 DEF RequestInv, BeliefsAreBacked, Backed
    <2>2. k \in ReqKeys
      BY KeysOfRequest
    <2>3. entries[k][q] \in Nat /\ belief[q] \in Nat
      BY <2>1, <2>2, RequestConfig DEF RequestInv, RequestTypeOK
    <2> QED
      BY <2>1, <2>3 DEF LiveEntries
  <1> QED
    BY <1>1, <1>2

LEMMA CleanedShrinks ==
  ASSUME RequestInv, NEW q \in HttpRequests, CleanedRequests(q) PROVE Shrinks(q)
  BY DEF CleanedRequests, Shrinks, LiveEntries, RequestInv, RequestTypeOK

LEMMA DroppedShrinks ==
  ASSUME RequestInv, NEW q \in HttpRequests, entries' = Dropped(q), keyTtl' = keyTtl
  PROVE  Shrinks(q)
  BY DEF Dropped, Shrinks, LiveEntries, RequestInv, RequestTypeOK

LEMMA NothingShrinks ==
  ASSUME RequestInv, NEW q \in HttpRequests, entries' = entries, keyTtl' = keyTtl
  PROVE  /\ Shrinks(q)
         /\ \A r \in WorkingRequests(HttpRequests) : \A k \in ReqKeysOf(r) :
              /\ r \in DOMAIN entries'[k] /\ entries'[k][r] >= belief[r]
              /\ keyTtl'[k] >= belief[r]
  BY DEF Shrinks, LiveEntries, RequestInv, RequestTypeOK, BeliefsAreBacked, Backed

LEMMA ReserveRequestKeeps ==
  ASSUME RequestInv, NEW q \in HttpRequests, ReserveRequest(q) PROVE RequestInv'
  <1>1. stage[q] = "waiting"
    BY DEF ReserveRequest
  <1>2. CASE AdmitsRequest(q)
    <2>1. /\ Granted(q) /\ stage' = [stage EXCEPT ![q] = "running"]
          /\ belief' = [belief EXCEPT ![q] = RequestLease]
      BY <1>2 DEF ReserveRequest
    <2>2. KeysWithinLimits'
      BY <1>2, <2>1, AdmittedIsWithin
    <2>3. \A k \in ReqKeysOf(q) :
              /\ q \in DOMAIN entries'[k] /\ entries'[k][q] >= RequestLease
              /\ keyTtl'[k] >= RequestLease
      BY <2>1, GrantedKeeps, RequestConfig
    <2>4. "running" \in Stages /\ RequestLease \in 0..RequestLease
      BY Unmoved DEF Stages
    <2> QED
      BY <2>1, <2>2, <2>3, <2>4, GrantedKeeps, RequestStepKeeps
  <1>3. CASE ~AdmitsRequest(q)
    <2>1. PICK st \in {"waiting", "rejected"} : stage' = [stage EXCEPT ![q] = st]
      BY <1>3 DEF ReserveRequest
    <2>2. CleanedRequests(q) /\ belief' = belief
      BY <1>3 DEF ReserveRequest
    <2>3. Shrinks(q)
      BY <2>2, CleanedShrinks
    <2>4. /\ st \in Stages /\ st \notin {"running", "stopping"}
          /\ belief' = [belief EXCEPT ![q] = belief[q]] /\ belief[q] \in 0..RequestLease
      BY <1>1, <2>2, Unmoved DEF Stages
    <2> QED
      BY <2>1, <2>3, <2>4, ShrinksKeeps, RequestStepKeeps
  <1> QED
    BY <1>2, <1>3

LEMMA ReserveLostKeeps ==
  ASSUME RequestInv, NEW q \in HttpRequests, ReserveLost(q) PROVE RequestInv'
  <1>1. /\ stage[q] = "waiting" /\ AdmitsRequest(q) /\ Granted(q)
        /\ stage' = [stage EXCEPT ![q] = "failed"] /\ belief' = belief
    BY DEF ReserveLost
  <1>2. KeysWithinLimits'
    BY <1>1, AdmittedIsWithin
  <1>3. /\ "failed" \in Stages /\ "failed" \notin {"running", "stopping"}
        /\ belief' = [belief EXCEPT ![q] = belief[q]] /\ belief[q] \in 0..RequestLease
    BY <1>1, Unmoved DEF Stages
  <1> QED
    BY <1>1, <1>2, <1>3, GrantedKeeps, RequestStepKeeps

LEMMA RenewRequestKeeps ==
  ASSUME RequestInv, NEW q \in HttpRequests, RenewRequest(q) PROVE RequestInv'
  <1>1. stage[q] = "running"
    BY DEF RenewRequest
  <1>2. /\ "running" \in Stages /\ "stopping" \in Stages /\ RequestLease \in 0..RequestLease
        /\ belief[q] \in 0..RequestLease
    BY <1>1, Unmoved DEF Stages
  <1>3. CASE \A k \in ReqKeysOf(q) : q \in LiveEntries(k)
    <2>1. Granted(q) /\ belief' = [belief EXCEPT ![q] = RequestLease] /\ stage' = stage
      BY <1>3 DEF RenewRequest, RenewGranted
    <2>2. KeysWithinLimits'
      BY <1>3, <2>1, AdmittedIsWithin
    <2>3. \A k \in ReqKeysOf(q) :
              /\ q \in DOMAIN entries'[k] /\ entries'[k][q] >= RequestLease
              /\ keyTtl'[k] >= RequestLease
      BY <2>1, GrantedKeeps, RequestConfig
    <2>4. stage' = [stage EXCEPT ![q] = "running"]
      BY <1>1, <2>1, Unmoved
    <2> QED
      BY <1>2, <2>1, <2>2, <2>3, <2>4, GrantedKeeps, RequestStepKeeps
  <1>4. CASE ~ \A k \in ReqKeysOf(q) : q \in LiveEntries(k)
    <2>1. /\ entries' = Dropped(q) /\ stage' = [stage EXCEPT ![q] = "stopping"]
          /\ keyTtl' = keyTtl /\ belief' = belief
      BY <1>4 DEF RenewRequest
    <2>2. ~(belief[q] > 0)
      BY <1>1, <1>4, BelieverHasLease
    <2>3. Shrinks(q)
      BY <2>1, DroppedShrinks
    <2>4. belief' = [belief EXCEPT ![q] = belief[q]]
      BY <2>1, Unmoved
    <2> QED
      BY <1>2, <2>1, <2>2, <2>3, <2>4, ShrinksKeeps, RequestStepKeeps
  <1> QED
    BY <1>3, <1>4

\* A request that stops without touching its keys.
LEMMA StopsKeeps ==
  ASSUME RequestInv, NEW q \in HttpRequests, stage[q] = "running",
         entries' = entries, keyTtl' = keyTtl, belief' = belief,
         stage' = [stage EXCEPT ![q] = "stopping"]
  PROVE  RequestInv'
  <1>1. Shrinks(q)
    BY NothingShrinks
  <1>2. /\ "stopping" \in Stages /\ belief[q] \in 0..RequestLease
        /\ belief' = [belief EXCEPT ![q] = belief[q]]
    BY Unmoved DEF Stages
  <1>3. belief[q] > 0 => \A k \in ReqKeysOf(q) :
              /\ q \in DOMAIN entries'[k] /\ entries'[k][q] >= belief[q]
              /\ keyTtl'[k] >= belief[q]
    BY BelieverHasLease
  <1> QED
    BY <1>1, <1>2, <1>3, ShrinksKeeps, RequestStepKeeps

LEMMA RenewErrorKeeps ==
  ASSUME RequestInv, NEW q \in HttpRequests, RenewError(q) PROVE RequestInv'
  <1>1. /\ stage[q] = "running" /\ stage' = [stage EXCEPT ![q] = "stopping"]
        /\ belief' = belief
    BY DEF RenewError
  <1>2. CASE entries' = entries /\ keyTtl' = keyTtl
    BY <1>1, <1>2, StopsKeeps
  <1>3. CASE (\A k \in ReqKeysOf(q) : q \in LiveEntries(k)) /\ Granted(q)
    <2>1. KeysWithinLimits'
      BY <1>3, AdmittedIsWithin
    <2>2. /\ "stopping" \in Stages /\ belief[q] \in 0..RequestLease
          /\ belief' = [belief EXCEPT ![q] = belief[q]]
      BY <1>1, Unmoved DEF Stages
    <2>3. belief[q] > 0 => \A k \in ReqKeysOf(q) :
              /\ q \in DOMAIN entries'[k] /\ entries'[k][q] >= belief[q]
              /\ keyTtl'[k] >= belief[q]
      BY <1>1, <1>3, BelieverHasLease, GrantedKeeps
    <2> QED
      BY <1>1, <1>3, <2>1, <2>2, <2>3, GrantedKeeps, RequestStepKeeps
  <1> QED
    BY <1>2, <1>3 DEF RenewError, RenewGranted

LEMMA ReturnKeeps ==
  ASSUME RequestInv, NEW q \in HttpRequests, Return(q) PROVE RequestInv'
  BY StopsKeeps DEF Return

LEMMA FinishKeeps ==
  ASSUME RequestInv, NEW q \in HttpRequests, Finish(q) \/ FinishCut(q) PROVE RequestInv'
  <1>1. PICK st \in {"done", "cut"} :
           /\ stage' = [stage EXCEPT ![q] = st] /\ belief' = [belief EXCEPT ![q] = 0]
           /\ keyTtl' = keyTtl
           /\ entries' = Dropped(q) \/ entries' = entries
    BY DEF Finish, FinishCut
  <1>2. Shrinks(q)
    BY <1>1, DroppedShrinks, NothingShrinks
  <1>3. st \in Stages /\ st \notin {"running", "stopping"} /\ 0 \in 0..RequestLease
    BY Unmoved DEF Stages
  <1> QED
    BY <1>1, <1>2, <1>3, ShrinksKeeps, RequestStepKeeps

\* A lease runs out in the belief no later than in the keys, and no key dies before.
LEMMA RequestTickKeeps ==
  ASSUME RequestInv, RequestTick PROVE RequestInv'
  <1> DEFINE Aged(k) == [q \in DOMAIN entries[k] |-> Less(entries[k][q])]
  <1>1. /\ keyTtl' = [k \in ReqKeys |-> Less(keyTtl[k])]
        /\ entries' = [k \in ReqKeys |-> IF keyTtl[k] <= 1 THEN None ELSE Aged(k)]
        /\ belief' = [q \in HttpRequests |-> Less(belief[q])]
        /\ stage' = stage
    BY DEF RequestTick
  <1>2. \A n \in Nat : Less(n) \in Nat /\ Less(n) <= n /\ (n > 0 => Less(n) = n - 1)
    BY DEF Less
  <1>3. \A k \in ReqKeys : /\ DOMAIN entries[k] \subseteq HttpRequests
                           /\ \A r \in DOMAIN entries[k] : entries[k][r] \in Nat
                           /\ keyTtl[k] \in Nat
    BY DEF RequestInv, RequestTypeOK
  <1>4. ASSUME NEW k \in ReqKeys
        PROVE  /\ DOMAIN Aged(k) = DOMAIN entries[k]
               /\ \A r \in DOMAIN entries[k] : Aged(k)[r] = Less(entries[k][r])
               /\ entries'[k] = IF keyTtl[k] <= 1 THEN None ELSE Aged(k)
               /\ keyTtl'[k] = Less(keyTtl[k])
    BY <1>1
  <1>5. DOMAIN None = {}
    BY DEF None
  <1> HIDE DEF Aged
  <1>6. ASSUME NEW k \in ReqKeys
        PROVE  /\ DOMAIN entries'[k] \subseteq DOMAIN entries[k]
               /\ \A r \in DOMAIN entries'[k] : entries'[k][r] = Less(entries[k][r])
    <2>1. CASE keyTtl[k] <= 1
      BY <1>4, <1>5, <2>1
    <2>2. CASE ~(keyTtl[k] <= 1)
      BY <1>4, <2>2
    <2> QED
      BY <2>1, <2>2
  <1>7. ASSUME NEW k \in ReqKeys
        PROVE  /\ DOMAIN entries'[k] \subseteq HttpRequests
               /\ \A r \in DOMAIN entries'[k] : entries'[k][r] \in Nat
               /\ keyTtl'[k] \in Nat
    BY <1>2, <1>3, <1>4, <1>6
  <1>8. /\ belief' \in [HttpRequests -> 0..RequestLease]
        /\ \A q \in HttpRequests : belief[q] \in Nat /\ belief'[q] = Less(belief[q])
    <2>1. \A q \in HttpRequests : belief[q] \in 0..RequestLease
      BY DEF RequestInv, RequestTypeOK
    <2>2. RequestLease \in Nat
      BY RequestConfig
    <2>3. \A n \in 0..RequestLease : Less(n) \in 0..RequestLease
      BY <2>2 DEF Less
    <2> QED
      BY <1>1, <2>1, <2>2, <2>3
  <1>9. RequestTypeOK'
    <2>1. DOMAIN entries' = ReqKeys /\ DOMAIN keyTtl' = ReqKeys
      BY <1>1
    <2> QED
      BY <1>1, <1>7, <1>8, <2>1 DEF RequestInv, RequestTypeOK
  <1>10. BeliefsAreBacked'
    <2>1. SUFFICES ASSUME NEW r \in HttpRequests, stage'[r] \in {"running", "stopping"},
                          belief'[r] > 0, NEW k \in ReqKeysOf(r)
                   PROVE  /\ r \in DOMAIN entries'[k] /\ entries'[k][r] >= belief'[r]
                          /\ keyTtl'[k] >= belief'[r]
      BY DEF BeliefsAreBacked, Backed, WorkingRequests
    <2>2. belief[r] \in Nat /\ belief'[r] = belief[r] - 1 /\ belief[r] > 1
      BY <1>2, <1>8, <2>1 DEF Less
    <2>3. stage[r] \in {"running", "stopping"} /\ belief[r] > 0
      BY <1>1, <2>1, <2>2
    <2>4. r \in DOMAIN entries[k] /\ entries[k][r] >= belief[r] /\ keyTtl[k] >= belief[r]
      BY <2>3, BelieverHasLease
    <2>5. k \in ReqKeys
      BY KeysOfRequest
    <2>6. entries[k][r] \in Nat /\ keyTtl[k] \in Nat
      BY <1>3, <2>4, <2>5
    <2>7. entries'[k] = Aged(k)
      BY <1>4, <2>2, <2>4, <2>5, <2>6
    <2>8. /\ r \in DOMAIN entries'[k] /\ entries'[k][r] = Less(entries[k][r])
          /\ keyTtl'[k] = Less(keyTtl[k])
      BY <1>4, <2>4, <2>5, <2>7
    <2>9. Less(entries[k][r]) = entries[k][r] - 1 /\ Less(keyTtl[k]) = keyTtl[k] - 1
      BY <1>2, <2>2, <2>4, <2>6
    <2> QED
      BY <2>2, <2>4, <2>6, <2>8, <2>9
  <1>11. KeysWithinLimits'
    <2>1. ASSUME NEW k \in ReqKeys PROVE Weight(LiveOf(entries'[k])) <= OcuOf(k)
      <3>1. ASSUME NEW r \in LiveOf(entries'[k]) PROVE r \in LiveEntries(k)
        <4>1. r \in DOMAIN entries'[k] /\ entries'[k][r] > 0
          BY DEF LiveOf
        <4>2. r \in DOMAIN entries[k] /\ Less(entries[k][r]) > 0
          BY <1>6, <4>1
        <4>3. entries[k][r] \in Nat
          BY <1>3, <4>2
        <4> QED
          BY <4>2, <4>3 DEF LiveEntries, Less
      <3> QED
        BY <3>1, FewerAreWithin
    <2> QED
      BY <2>1, LiveIsLiveOf, RequestConfig DEF KeysWithinLimits, OcuOf, ReqKeys
  <1> QED
    BY <1>1, <1>9, <1>10, <1>11 DEF RequestInv

LEMMA RequestInitInv == RequestInit => RequestInv
  <1> SUFFICES ASSUME RequestInit PROVE RequestInv
    OBVIOUS
  <1>1. /\ entries = [k \in ReqKeys |-> None] /\ keyTtl = [k \in ReqKeys |-> 0]
        /\ stage = [q \in HttpRequests |-> "waiting"]
        /\ belief = [q \in HttpRequests |-> 0]
    BY DEF RequestInit
  <1>2. DOMAIN None = {}
    BY DEF None
  <1>3. RequestTypeOK
    BY <1>1, <1>2, RequestConfig DEF RequestTypeOK, Stages
  <1>4. BeliefsAreBacked
    BY <1>1 DEF BeliefsAreBacked, WorkingRequests
  <1>5. KeysWithinLimits
    <2>1. \A k \in ReqKeys : LiveEntries(k) = {}
      BY <1>1, <1>2 DEF LiveEntries
    <2>2. Weight({}) = 0
      BY SumEmpty DEF Weight
    <2>3. \A k \in ReqKeys : OcuOf(k) \in Nat
      BY RequestConfig DEF OcuOf
    <2> QED
      BY <2>1, <2>2, <2>3, KeysByLimit
  <1> QED
    BY <1>3, <1>4, <1>5 DEF RequestInv

LEMMA RequestNextInv == RequestInv /\ [RequestNext]_requestVars => RequestInv'
  <1> SUFFICES ASSUME RequestInv, [RequestNext]_requestVars PROVE RequestInv'
    OBVIOUS
  <1>1. CASE RequestTick
    BY <1>1, RequestTickKeeps
  <1>2. ASSUME NEW q \in HttpRequests, RequestStep(q) PROVE RequestInv'
    BY <1>2, ReserveRequestKeeps, ReserveLostKeeps, RenewRequestKeeps, RenewErrorKeeps,
       ReturnKeeps, FinishKeeps DEF RequestStep
  <1>3. CASE UNCHANGED requestVars
    BY <1>3 DEF requestVars, RequestInv, RequestTypeOK, BeliefsAreBacked, Backed,
                WorkingRequests, KeysWithinLimits, LiveEntries
  <1> QED
    BY <1>1, <1>2, <1>3 DEF RequestNext

\* The requests that may run together fit the limits.
LEMMA RequestInvSuffices == RequestInv => RequestsWithinLimits
  <1> SUFFICES ASSUME RequestInv PROVE RequestsWithinLimits
    OBVIOUS
  <1>1. ASSUME NEW k \in ReqKeys, NEW W, W \subseteq WorkingRequests(HttpRequests),
               \A q \in W : k \in ReqKeysOf(q)
        PROVE  Weight(W) <= OcuOf(k)
    <2>1. W \subseteq LiveEntries(k)
      BY <1>1, BelieverHasLease DEF WorkingRequests
    <2>2. LiveEntries(k) \in SUBSET HttpRequests
      BY DEF RequestInv, RequestTypeOK, LiveEntries
    <2>3. Weight(LiveEntries(k)) <= OcuOf(k)
      BY KeysByLimit DEF RequestInv
    <2>4. OcuOf(k) \in Nat
      BY RequestConfig DEF OcuOf
    <2> QED
      BY <2>1, <2>2, <2>3, <2>4, Weights
  <1>2. Weight(WorkingRequests(HttpRequests)) <= GlobalOcu
    <2>1. \A q \in WorkingRequests(HttpRequests) : GlobalKey \in ReqKeysOf(q)
      BY KeysOfRequest DEF WorkingRequests
    <2>2. GlobalKey \in ReqKeys
      BY DEF ReqKeys
    <2> QED
      BY <1>1, <2>1, <2>2 DEF OcuOf
  <1>3. ASSUME NEW a \in Actors
        PROVE  Weight(WorkingRequests({q \in HttpRequests : ActorOf[q] = a})) <= ActorOcu
    <2> DEFINE W == WorkingRequests({q \in HttpRequests : ActorOf[q] = a})
    <2>1. /\ W \subseteq WorkingRequests(HttpRequests)
          /\ \A q \in W : a \in ReqKeysOf(q)
      BY DEF WorkingRequests, Actors, ReqKeysOf
    <2>2. a \in ReqKeys /\ OcuOf(a) = ActorOcu
      BY RequestConfig DEF ReqKeys, OcuOf
    <2> HIDE DEF W
    <2>3. Weight(W) <= ActorOcu
      BY <1>1, <2>1, <2>2
    <2> QED
      BY <2>3 DEF W
  <1> QED
    BY <1>2, <1>3 DEF RequestsWithinLimits

\* Whatever is admitted, renewed, refused, lost or leaked: the weights of the requests that
\* run under an unexpired lease are within the global and the actors' limits.
THEOREM RequestsFit == RequestSpec => []RequestsWithinLimits
  <1>1. RequestInit => RequestInv
    BY RequestInitInv
  <1>2. RequestInv /\ [RequestNext]_requestVars => RequestInv'
    BY RequestNextInv
  <1>3. RequestInv => RequestsWithinLimits
    BY RequestInvSuffices
  <1> QED
    BY <1>1, <1>2, <1>3, PTL DEF RequestSpec
=============================================================================
