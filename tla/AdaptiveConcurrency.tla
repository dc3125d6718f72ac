------------------------ MODULE AdaptiveConcurrency ------------------------
(***************************************************************************)
(* The adaptive concurrency of processual_api/execution/adaptive.py as the *)
(* worker pool (pool.py, _run_worker_iteration) drives it: the gate that   *)
(* admits worker iterations, the sampler that folds their outcomes into    *)
(* windows, and the controller that turns samples into the gate's limit.   *)
(*                                                                         *)
(* All run in one event loop.  Between two awaits a step is atomic: the    *)
(* release of the gate and the record of the outcome are one step, and the *)
(* observation of a finished window is a later one, because it awaits the  *)
(* condition's lock; other workers may finish windows meanwhile.           *)
(*                                                                         *)
(* The smoothed latency is left out: whether it is above the target, at or *)
(* below the healthy threshold, or between them is a free choice at every  *)
(* observation.                                                            *)
(***************************************************************************)
EXTENDS Integers, FiniteSets

CONSTANTS
  Workers,
  Minimum, Maximum,          \* bounds of the limit
  AdditiveStep,
  RatioNum, RatioDen,        \* decrease_ratio
  ErrorNum, ErrorDen,        \* error_rate_threshold
  RecoveryWindows, PressureWindows,
  WindowSize                 \* of the sampler

ASSUME AdaptiveAssumption ==
  /\ IsFiniteSet(Workers)
  /\ Minimum \in Nat \ {0}
  /\ Maximum \in Nat /\ Minimum <= Maximum
  /\ AdditiveStep \in Nat \ {0}
  /\ RatioDen \in Nat \ {0} /\ RatioNum \in 1..(RatioDen - 1)
  /\ ErrorDen \in Nat \ {0} /\ ErrorNum \in 0..ErrorDen
  /\ RecoveryWindows \in Nat \ {0}
  /\ PressureWindows \in Nat \ {0}
  /\ WindowSize \in Nat \ {0}

VARIABLES
  limit, healthy, pressure,  \* the controller: limit and streaks
  active,                    \* the gate: iterations inside
  pc,                        \* where each worker is in its iteration
  window,                    \* the sampler: counts of the current window
  sample,                    \* the finished window that a worker will observe
  run                        \* history: how many samples of one kind in a row

vars == <<limit, healthy, pressure, active, pc, window, sample, run>>

NewWindow == [records |-> 0, errors |-> 0, hard |-> 0]
Kinds == {"hard", "soft", "healthy", "neutral"}

Init ==
  /\ limit \in Minimum..Maximum
  /\ healthy = 0
  /\ pressure = 0
  /\ active = 0
  /\ pc = [w \in Workers |-> "out"]
  /\ window = NewWindow
  /\ sample = [w \in Workers |-> NewWindow]
  /\ run = [kind |-> "neutral", length |-> 0]

-----------------------------------------------------------------------------
(* The gate: a condition variable                                          *)

\* The first evaluation of wait_for's predicate: go in, or sleep.
Acquire(w) ==
  /\ pc[w] = "out"
  /\ IF active < limit
       THEN active' = active + 1 /\ pc' = [pc EXCEPT ![w] = "inside"]
       ELSE pc' = [pc EXCEPT ![w] = "asleep"] /\ UNCHANGED active
  /\ UNCHANGED <<limit, healthy, pressure, window, sample, run>>

\* A notified worker evaluates the predicate again.
Wake(w) ==
  /\ pc[w] = "notified"
  /\ IF active < limit
       THEN active' = active + 1 /\ pc' = [pc EXCEPT ![w] = "inside"]
       ELSE pc' = [pc EXCEPT ![w] = "asleep"] /\ UNCHANGED active
  /\ UNCHANGED <<limit, healthy, pressure, window, sample, run>>

\* Mutant: nobody is notified.
BugNotifyAll(p) == p

NotifyAll(p) ==
  [w \in Workers |-> IF p[w] = "asleep" THEN "notified" ELSE p[w]]

-----------------------------------------------------------------------------
(* The end of an iteration: release, then the sampler's record             *)

Outcomes == {"succeeded", "error", "timeout_or_rate_limit"}

Recorded(outcome) ==
  [records |-> window.records + 1,
   errors |-> window.errors + (IF outcome = "error" THEN 1 ELSE 0),
   hard |-> window.hard + (IF outcome = "timeout_or_rate_limit" THEN 1 ELSE 0)]

\* run_once raised, found no job, or its job was cancelled or given back.
ReleaseUnrecorded(w) ==
  /\ pc[w] = "inside"
  /\ active' = active - 1
  /\ pc' = NotifyAll([pc EXCEPT ![w] = "out"])
  /\ UNCHANGED <<limit, healthy, pressure, window, sample, run>>

ReleaseRecorded(w, outcome) ==
  LET new == Recorded(outcome)
      full == new.records >= WindowSize
  IN  /\ pc[w] = "inside"
      /\ active' = active - 1
      /\ pc' = NotifyAll([pc EXCEPT ![w] = IF full THEN "observing" ELSE "out"])
      /\ window' = IF full THEN NewWindow ELSE new
      /\ sample' = IF full THEN [sample EXCEPT ![w] = new] ELSE sample
      /\ UNCHANGED <<limit, healthy, pressure, run>>

-----------------------------------------------------------------------------
(* The controller                                                          *)

\* Which pressure a sample shows, given the smoothed latency.
KindOf(s, latency) ==
  IF s.hard > 0 THEN "hard"
  ELSE IF s.errors * ErrorDen >= ErrorNum * s.records \/ latency = "high"
    THEN "soft"
  ELSE IF latency = "low" THEN "healthy"
  ELSE "neutral"

Increased == IF limit + AdditiveStep < Maximum THEN limit + AdditiveStep
                                               ELSE Maximum

\* Mutant: the limit is left alone instead of set to the floor.
BugDecreased == LET reduced == (limit * RatioNum) \div RatioDen
                IN  IF reduced > Minimum THEN reduced ELSE limit

Decreased == LET reduced == (limit * RatioNum) \div RatioDen
             IN  IF reduced > Minimum THEN reduced ELSE Minimum

\* Mutant: soft pressure does not break the streak of healthy windows.
BugControl(kind) ==
  CASE kind = "hard" ->
         healthy' = 0 /\ pressure' = 0 /\ limit' = Decreased
    [] kind = "healthy" /\ healthy + 1 >= RecoveryWindows ->
         healthy' = 0 /\ pressure' = 0 /\ limit' = Increased
    [] kind = "healthy" /\ healthy + 1 < RecoveryWindows ->
         healthy' = healthy + 1 /\ pressure' = 0 /\ limit' = limit
    [] OTHER -> UNCHANGED <<healthy, pressure, limit>>

Control(kind) ==
  CASE kind = "hard" ->
         healthy' = 0 /\ pressure' = 0 /\ limit' = Decreased
    [] kind = "soft" /\ pressure + 1 >= PressureWindows ->
         healthy' = 0 /\ pressure' = 0 /\ limit' = Decreased
    [] kind = "soft" /\ pressure + 1 < PressureWindows ->
         healthy' = 0 /\ pressure' = pressure + 1 /\ limit' = limit
    [] kind = "healthy" /\ healthy + 1 >= RecoveryWindows ->
         healthy' = 0 /\ pressure' = 0 /\ limit' = Increased
    [] kind = "healthy" /\ healthy + 1 < RecoveryWindows ->
         healthy' = healthy + 1 /\ pressure' = 0 /\ limit' = limit
    [] OTHER ->
         healthy' = 0 /\ pressure' = 0 /\ limit' = limit

\* History: length is capped where the properties stop looking.
RunAfter(kind) ==
  LET cap == RecoveryWindows + PressureWindows
      longer == IF run.length < cap THEN run.length + 1 ELSE cap
  IN  [kind |-> kind, length |-> IF run.kind = kind THEN longer ELSE 1]

Observe(w, latency) ==
  LET kind == KindOf(sample[w], latency)
  IN  /\ pc[w] = "observing"
      /\ Control(kind)
      /\ LET q == [pc EXCEPT ![w] = "out"]
         IN  pc' = IF limit' # limit THEN NotifyAll(q) ELSE q
      /\ sample' = [sample EXCEPT ![w] = NewWindow]
      /\ run' = RunAfter(kind)
      /\ UNCHANGED <<active, window>>

Latencies == {"high", "between", "low"}

Next ==
  \E w \in Workers :
    \/ Acquire(w)
    \/ Wake(w)
    \/ ReleaseUnrecorded(w)
    \/ \E o \in Outcomes : ReleaseRecorded(w, o)
    \/ \E l \in Latencies : Observe(w, l)

Spec == Init /\ [][Next]_vars

-----------------------------------------------------------------------------
(* Properties                                                              *)

\* Every variable has its type.
TypeOK ==
  /\ limit \in Nat /\ healthy \in Nat /\ pressure \in Nat /\ active \in Nat
  /\ pc \in [Workers -> {"out", "asleep", "notified", "inside", "observing"}]
  /\ window \in [records : Nat, errors : Nat, hard : Nat]
  /\ sample \in [Workers -> [records : Nat, errors : Nat, hard : Nat]]
  /\ run \in [kind : Kinds, length : Nat]

\* The limit stays within the policy's bounds through every rounding and
\* clamping, and at most one streak runs, short of the window that acts.
LimitInBounds ==
  /\ limit \in Minimum..Maximum
  /\ healthy < RecoveryWindows /\ pressure < PressureWindows
  /\ healthy = 0 \/ pressure = 0

\* The gate counts exactly the iterations inside: a slot is neither lost nor
\* given twice.  More than limit are only inside after a decrease.
ActiveIsExact == active = Cardinality({w \in Workers : pc[w] = "inside"})

\* No wake-up is lost: a worker only sleeps while the gate is full, so every
\* release and every increase that makes room has notified it.
SleepersAreBlocked ==
  \A w \in Workers : pc[w] = "asleep" => active >= limit

\* Hysteresis: the limit falls after one window with a timeout or a rate
\* limit, or after PressureWindows windows in a row under soft pressure; it
\* grows after RecoveryWindows healthy windows in a row.
Hysteresis ==
  [][/\ limit' < limit => \/ run'.kind = "hard"
                          \/ run'.kind = "soft" /\ run'.length >= PressureWindows
     /\ limit' > limit => /\ run'.kind = "healthy"
                          /\ run'.length >= RecoveryWindows]_vars

Follows(kind, goal) ==
  <>[](run.kind = kind) /\ []<>(\E w \in Workers : pc[w] = "observing")
    => <>(limit = goal)

\* Windows with timeouts or rate limits that go on and on bring the limit
\* down to the minimum.
PressureReachesMinimum == Follows("hard", Minimum)

=============================================================================
