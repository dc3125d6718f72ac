--------------------------- MODULE DurableWorkers ---------------------------
(***************************************************************************)
(* The workers of processual_api/execution/worker.py and pool.py on top of *)
(* any store that keeps the promises of JobLifecycle: run_once, its        *)
(* heartbeats, the domain capacity it reserves, the recovery loop, forced  *)
(* shutdown and crashes.                                                   *)
(*                                                                         *)
(* A worker runs one run_once at a time; pc is where it stands in it:      *)
(*   idle        between two calls of run_once, or its loop is not running *)
(*   claimed     it holds a claim and waits for capacity, no heartbeat yet *)
(*   releasing   capacity was refused, it is calling release_unstarted     *)
(*   running     the handler and the heartbeats run                        *)
(*   succeeding  it is calling succeed                                     *)
(*   failing     it is calling fail                                        *)
(*   closing     the finally block                                         *)
(* A store call may also fail: JobLeaseLostError when its retries are      *)
(* spent, another exception when the connection breaks, before or after    *)
(* the store has done its part.                                            *)
(*                                                                         *)
(* Tokens are uuid4 values.  The model reuses a token once nobody knows it *)
(* any more (Forget), so that no bound cuts the behaviours short.          *)
(***************************************************************************)
EXTENDS JobLifecycle

CONSTANTS
  Workers,     \* the workers of all pools
  Handles,     \* for every worker, the jobs whose domain it has a handler for
  Unfiltered,  \* the workers with unfiltered_claims
  Capacity,    \* global limit of the capacity policy
  NoJob

ASSUME WorkerAssumption ==
  /\ Tokens \subseteq Nat
  /\ Handles \in [Workers -> SUBSET JobIds]
  /\ Unfiltered \subseteq Workers
  /\ Capacity \in Nat \ {0}
  /\ NoJob \notin JobIds

VARIABLES
  worker,    \* local state of run_once
  reserved,  \* the workers whose reservation is alive in the backend
  leaked,    \* live reservations that no worker will release any more
  starts     \* history: how often the handler of each job was started

store    == <<job, fate>>
capacity == <<reserved, leaked>>
poolVars == <<job, fate, worker, reserved, leaked, starts>>

Idle == [pc |-> "idle", job |-> NoJob, token |-> NoToken, broken |-> FALSE]

PoolInit ==
  /\ Init
  /\ worker = [w \in Workers |-> Idle]
  /\ reserved = {}
  /\ leaked = 0
  /\ starts = [j \in JobIds |-> 0]

GoTo(w, pc) == worker' = [worker EXCEPT ![w].pc = pc]

Unfinished == {"claimed", "releasing", "running", "succeeding", "failing",
               "closing"}

-----------------------------------------------------------------------------
(* The clients of the service, and the store on its own                    *)

Client ==
  /\ \/ \E j \in JobIds, b \in Budgets, d \in BOOLEAN : Submit(j, b, d)
     \/ \E j \in JobIds : RequestCancel(j)
  /\ UNCHANGED <<worker, capacity, starts>>

\* Mutant: a job with a pending cancellation is left to its dead worker.
BugRecover(j) ==
  /\ ~job[j].cancel
  /\ \E L \in SUBSET (Overdue \cap {j}) : RecoverExpiredLeases({j}, L)
  /\ UNCHANGED <<worker, capacity, starts>>

\* _recovery_loop
Recover(j) ==
  /\ \E L \in SUBSET (Overdue \cap {j}) : RecoverExpiredLeases({j}, L)
  /\ UNCHANGED <<worker, capacity, starts>>

\* Bookkeeping of the model: a token nobody knows stands for a fresh one.
Known(t) == \/ \E j \in JobIds : job[j].token = t
            \/ \E w \in Workers : worker[w].token = t

Forget(t) ==
  /\ fate[t] \in {"closed", "lost"}
  /\ ~Known(t)
  /\ fate' = [fate EXCEPT ![t] = "unused"]
  /\ UNCHANGED <<job, worker, capacity, starts>>

-----------------------------------------------------------------------------
(* run_once                                                                *)

\* What the domain filter of the worker's claim lets through.
Offered(w) == IF w \in Unfiltered THEN JobIds ELSE Handles[w]

\* claim; a domain without a handler raises at once and leaves the claim.
ClaimOne(w, j, t, J) ==
  /\ worker[w].pc = "idle"
  /\ j \in Offered(w)
  /\ \A u \in Tokens : u < t => fate[u] # "unused"
  /\ Claim(j, t, J)
  /\ worker' = [worker EXCEPT ![w] =
       IF j \in Handles[w]
         THEN [pc |-> "claimed", job |-> j, token |-> t, broken |-> FALSE]
         ELSE Idle]
  /\ UNCHANGED <<capacity, starts>>

Admissible == Cardinality(reserved) + leaked < Capacity

\* acquire, then create_task for the handler and for both heartbeats.
Start(w) ==
  /\ worker[w].pc = "claimed"
  /\ Admissible
  /\ reserved' = reserved \cup {w}
  /\ starts' = [starts EXCEPT ![worker[w].job] = @ + 1]
  /\ GoTo(w, "running")
  /\ UNCHANGED <<store, leaked>>

Saturated(w) ==
  /\ worker[w].pc = "claimed"
  /\ ~Admissible
  /\ GoTo(w, "releasing")
  /\ UNCHANGED <<store, capacity, starts>>

\* reserve raised: run_once ends, and the backend may have admitted it.
AcquireError(w) ==
  /\ worker[w].pc = "claimed"
  /\ worker' = [worker EXCEPT ![w] = Idle]
  /\ leaked' \in IF Admissible THEN {leaked, leaked + 1} ELSE {leaked}
  /\ UNCHANGED <<store, reserved, starts>>

\* A store call may change nothing: the lease is gone, or the call raised.
CallLost == UNCHANGED store

Release(w) ==
  /\ worker[w].pc = "releasing"
  /\ ReleaseUnstartedClaim(worker[w].job, worker[w].token) \/ CallLost
  /\ worker' = [worker EXCEPT ![w] = Idle]
  /\ UNCHANGED <<capacity, starts>>

HandlerReturns(w) ==
  /\ worker[w].pc = "running"
  /\ GoTo(w, "succeeding")
  /\ UNCHANGED <<store, capacity, starts>>

HandlerRaises(w) ==
  /\ worker[w].pc = "running"
  /\ GoTo(w, "failing")
  /\ UNCHANGED <<store, capacity, starts>>

\* succeed; an exception other than a lost lease makes the worker call fail,
\* even if the result was stored and only the answer was lost.
CallSucceed(w) ==
  /\ worker[w].pc = "succeeding"
  /\ Succeed(worker[w].job, worker[w].token) \/ CallLost
  /\ GoTo(w, "closing") \/ GoTo(w, "failing")
  /\ UNCHANGED <<capacity, starts>>

\* Mutant: a failed run gives its attempt back.
BugCallFail(w) ==
  /\ worker[w].pc = "failing"
  /\ ReleaseUnstartedClaim(worker[w].job, worker[w].token) \/ CallLost
  /\ GoTo(w, "closing")
  /\ UNCHANGED <<capacity, starts>>

CallFail(w) ==
  /\ worker[w].pc = "failing"
  /\ Fail(worker[w].job, worker[w].token) \/ CallLost
  /\ GoTo(w, "closing")
  /\ UNCHANGED <<capacity, starts>>

\* finally: awaiting a heartbeat task that has failed raises again, and the
\* reservation is not released.
Close(w) ==
  /\ worker[w].pc = "closing"
  /\ worker' = [worker EXCEPT ![w] = Idle]
  /\ reserved' = reserved \ {w}
  /\ leaked' = IF worker[w].broken /\ w \in reserved THEN leaked + 1
                                                     ELSE leaked
  /\ UNCHANGED <<store, starts>>

-----------------------------------------------------------------------------
(* The heartbeats                                                          *)

Holds(w) == HoldsClaim(worker[w].job, worker[w].token)

\* Mutant: the heartbeat of an unknown lease is accepted.
BugHeartbeatRefused(w) ==
  Holds(w) /\ job[worker[w].job].dated /\ ExpireDeadlines({worker[w].job})

\* The store no longer knows the lease, or fails the job for its deadline.
HeartbeatRefused(w) ==
  \/ ~Holds(w) /\ UNCHANGED store
  \/ Holds(w) /\ job[worker[w].job].dated /\ ExpireDeadlines({worker[w].job})

\* _heartbeat fails while the handler runs: the handler is cancelled.  A
\* lost lease ends run_once, any other exception makes it call fail.
HeartbeatLost(w) ==
  /\ worker[w].pc = "running"
  /\ HeartbeatRefused(w)
  /\ worker' = [worker EXCEPT ![w].pc = "closing", ![w].broken = TRUE]
  /\ UNCHANGED <<capacity, starts>>

HeartbeatError(w) ==
  /\ worker[w].pc = "running"
  /\ worker' = [worker EXCEPT ![w].pc = "failing", ![w].broken = TRUE]
  /\ UNCHANGED <<store, capacity, starts>>

\* _heartbeat fails while run_once waits for succeed or fail, or for the
\* answer of the call that ended the claim.
HeartbeatLate(w) ==
  /\ worker[w].pc \in {"succeeding", "failing", "closing"}
  /\ ~worker[w].broken
  /\ HeartbeatRefused(w)
  /\ worker' = [worker EXCEPT ![w].broken = TRUE]
  /\ UNCHANGED <<capacity, starts>>

\* The backend drops a reservation that was not renewed in time.
ReservationExpires(w) ==
  /\ w \in reserved
  /\ reserved' = reserved \ {w}
  /\ UNCHANGED <<store, worker, leaked, starts>>

\* _capacity_heartbeat finds it gone: the handler is cancelled and run_once
\* ends; the claim is left to the recovery loop.
CapacityLost(w) ==
  /\ worker[w].pc = "running"
  /\ w \notin reserved
  /\ GoTo(w, "closing")
  /\ UNCHANGED <<store, capacity, starts>>

LeakExpires ==
  /\ leaked > 0
  /\ leaked' = leaked - 1
  /\ UNCHANGED <<store, worker, reserved, starts>>

-----------------------------------------------------------------------------
(* Shutdown and crash: the job stays claimed until its lease expires       *)

\* pool.stop cancels the worker's task.  (A cancellation inside the finally
\* block can lose the release of the reservation, as in Crash.)
Interrupt(w) ==
  /\ worker[w].pc \in Unfinished \ {"closing"}
  /\ IF worker[w].pc \in {"claimed", "releasing"}
       THEN worker' = [worker EXCEPT ![w] = Idle]
       ELSE GoTo(w, "closing")
  /\ UNCHANGED <<store, capacity, starts>>

Crash(w) ==
  /\ worker[w].pc \in Unfinished
  /\ worker' = [worker EXCEPT ![w] = Idle]
  /\ reserved' = reserved \ {w}
  /\ leaked' = IF w \in reserved THEN leaked + 1 ELSE leaked
  /\ UNCHANGED <<store, starts>>

-----------------------------------------------------------------------------
RunOnce(w) ==
  \/ \E j \in JobIds, t \in Tokens, J \in SUBSET Overdue : ClaimOne(w, j, t, J)
  \/ Start(w)
  \/ Saturated(w)
  \/ AcquireError(w)
  \/ Release(w)
  \/ CallSucceed(w)
  \/ CallFail(w)
  \/ Close(w)

PoolNext ==
  \/ Client
  \/ \E j \in JobIds : Recover(j)
  \/ \E t \in Tokens : Forget(t)
  \/ \E w \in Workers :
       \/ RunOnce(w)
       \/ HandlerReturns(w)
       \/ HandlerRaises(w)
       \/ HeartbeatLost(w)
       \/ HeartbeatError(w)
       \/ HeartbeatLate(w)
       \/ ReservationExpires(w)
       \/ CapacityLost(w)
       \/ Interrupt(w)
       \/ Crash(w)
  \/ LeakExpires

\* A lease that no worker renews expires, and some recovery loop is running.
Orphaned(j) ==
  /\ job[j].status = "running"
  /\ \A w \in Workers : worker[w].token # job[j].token

PoolFairness ==
  /\ \A w \in Workers : WF_poolVars(RunOnce(w)) /\ WF_poolVars(HeartbeatLost(w))
  /\ \A j \in JobIds : WF_poolVars(Orphaned(j) /\ Recover(j))
  /\ \A t \in Tokens : WF_poolVars(Forget(t))
  /\ WF_poolVars(LeakExpires)

\* The handlers are the application's: no fairness is owed by them.
HandlersEnd ==
  \A w \in Workers : WF_poolVars(HandlerReturns(w) \/ HandlerRaises(w))

PoolSpec == PoolInit /\ [][PoolNext]_poolVars

FairPoolSpec == PoolSpec /\ PoolFairness

LivePoolSpec == FairPoolSpec /\ HandlersEnd

-----------------------------------------------------------------------------
(* Properties                                                              *)

\* A handler is never started more often than the retry policy of its job
\* allows, although a claim may be refused capacity and given back, its lease
\* may expire while it waits for capacity, and its owner may die: every start
\* is paid for with an attempt that is never given back.
StartsWithinBudget ==
  \A j \in JobIds :
    /\ starts[j] <= job[j].attempt
    /\ job[j].attempt <= job[j].budget

\* A worker that reaches the end of run_once gives its reservation back.
CapacityReturned ==
  [][\A w \in Workers : Close(w) => leaked' <= leaked]_poolVars

\* A result is only stored for a job whose handler was started, and an owner
\* that lost its claim does not end the claim of the next one: a job leaves
\* "running" for "succeeded" through the worker that knows its token.
ResultHasOwner ==
  [][\A j \in JobIds :
       job[j].status # "succeeded" /\ job'[j].status = "succeeded" =>
         /\ starts[j] > 0
         /\ \E w \in Workers : /\ worker[w].job = j
                               /\ worker[w].token = job[j].token
                               /\ worker[w].pc = "succeeding"]_poolVars

\* Given back to the queue while a cancellation was pending.
Parked(j) == job[j].status = "queued" /\ job[j].cancel

\* If the handlers come to an end, so does every job that workers are offered,
\* whatever crashes, refused admissions and lost answers it meets, and even if
\* workers without a handler keep claiming it, unless it was parked.
JobsFinish ==
  HandlersEnd =>
    \A j \in UNION {Offered(w) : w \in Workers} :
      job[j].status \in Live ~> job[j].status \in Terminal \/ Parked(j)

\* A job whose cancellation was requested becomes terminal.
CancelledJobsFinish ==
  \A j \in UNION {Offered(w) : w \in Workers} :
    job[j].status \in Live /\ job[j].cancel ~> job[j].status \in Terminal

\* A worker whose claim was taken away stops its handler, even a handler
\* that would never return by itself.
StaleHandlersStop ==
  \A w \in Workers :
    worker[w].pc = "running" /\ ~Holds(w) ~> worker[w].pc # "running"
=============================================================================
