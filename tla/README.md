# A TLA+ model of the Processual Maestro kernel

This directory models the parts of the repository in which concurrency, failures
and the order of events decide whether the program is right: durable execution
(`processual_api/execution`), the admission of HTTP requests
(`processual_api/middleware`), accounts and sessions (`processual_api/auth`) and the
paid subscriptions of the marketplace (`processual_api/admin_marketplace`). TLC
checks the modules on small instances (the `.cfg` files); TLAPS proves the safety
properties of all of them, and that both job stores implement the abstract life cycle
of a job, for every size (the `...Proofs` modules). `PROJECT.json` lists the
runs, the lines each definition models, the hazards and the theorems.

## 1. The system

### 1.1 Durable execution and admission

| Component | State | Operations | What is hard | What makes it correct |
|---|---|---|---|---|
| Job model and reference store, `durable.py` | jobs (status, attempt, available_at, lease, cancel flag), idempotency keys, all under one lock | submit, claim, heartbeat, release_unstarted_claim, succeed, fail, request_cancel, cancel_claimed, recover_expired_leases | leases that expire while their owner works; every `claim` also fails overdue jobs of other workers; boundaries of lease, deadline and availability | retry budgets, one open claim per running job, a finished job is final, live leases are not taken away, one job per key |
| Redis store, `redis_store.py` | one hash per job, sorted sets `queue` and `running`, idempotency keys | the same, with optimistic transactions | reads outside the transaction (clock, index, jobs), the plain `ZREM` of claim, three keys that must agree | the indexes agree with the hashes, no job is lost, the same life cycle as the reference store |
| Optimized store and repair, `redis_store_optimized.py`, `redis_index_repair.py` | the same and an index for each priority | the same, with a Lua claim (no domain filter, hash-tagged prefix) or a WATCH claim; the rebuilding of the indexes | jobs at the head of the window that cannot be claimed; the plain `ZREM`s of the WATCH claim; a repair that overlaps with clients | both indexes name every waiting job, a window starves nobody |
| Worker, `worker.py` | local variables of `run_once`, two heartbeat tasks | claim, acquire capacity, start the handler, heartbeat, succeed or fail, clean up | cancellation, lost answers, heartbeats that fail at any point, exceptions in the `finally` block | a handler starts within the retry budget, a stale handler is stopped, capacity is given back, every job ends |
| Pool and service, `pool.py`, `service.py` | worker tasks, stop flag, the recovery task | start, stop, request_stop, worker loop, recovery loop | stops that overlap, are interrupted or time out; a handler that raises `CancelledError`; crashes | no loop runs that the pool does not know, a stop returns, orphaned jobs are recovered |
| Domain capacity, `capacity.py` | reservations with expiry, per process (dict) or shared (sorted sets and a Lua script) | reserve, renew, release | expiry of a reservation whose owner still works, expiry of whole keys | global, per-domain and emergency limits |
| Adaptive concurrency, `adaptive.py` | limit and streaks, sampler window, the gate's counter and sleepers | acquire, release, record, observe | a condition variable under cancellation and barging; windows observed late | bounds, hysteresis, no lost wake-up, the limit converges |
| Request capacity, `runtime_capacity.py`, `runtime_capacity_metrics.py` | weighted reservations under a global and an actor key, a gauge | reserve, renew, release, dispatch | answers that are lost, renewals that fail while the handler runs, a release that raises or is cancelled | weights within both limits, capacity that comes back |

How they interact: a pool runs `run_once` of its workers in a loop, each iteration
inside the adaptive gate. `run_once` claims from the store, reserves capacity, runs
the handler next to two heartbeats, and ends the claim through the store. A
recovery loop per pool calls `recover_expired_leases`. Clients submit and cancel
through the service. Stores and the Redis backends are shared by processes; the
rest lives in one event loop. Every HTTP request passes the request capacity.

### 1.2 Accounts

| Component | State | Operations | What is hard | What makes it correct |
|---|---|---|---|---|
| Registration, verification, mail outbox: `registration_service.py`, `email_verification_service.py`, the recovery-address services, `delivery_*.py` | account, recovery address, action tokens, outbox rows with claims | sign-up, resend, verify, recovery address; claim a batch, send, settle, redrive | a dispatcher that dies, or outlives its lease, between sending and recording | one usable link, no row recorded as delivered without a mail, every row settles |
| Sessions, recovery and keys: `session_service.py`, `account_recovery_*.py`, `client_api_keys_18.py`, `supervisor_session_keys.py` | sessions, refresh tokens, failure counter and lock, recovery requests, keys in two files | login, refresh, logout, revocation, changes to keys, recovery in three steps | a refresh token presented twice; a recovery that clears files before its transaction commits, next to requests that write them | one token per session, reuse ends the family, no session from before a recovery and no key that it could see |
| MFA: `mfa_service.py`, `mfa_repository.py`, `totp.py` | factors, recovery codes, step-up of sessions | enrol, confirm, verify by code or recovery code, regenerate, disable, reset | overlapping enrolments, codes used twice within the window | no replay, codes die with their factor |

The parts share the user row. A completed recovery resets MFA (`RecoveryReset`) and
ends sessions; disabling MFA ends other sessions (`RevokeOtherSessions`).

### 1.3 Subscriptions

| Component | State | Operations | What is hard | What makes it correct |
|---|---|---|---|---|
| Webhooks: `lemon_squeezy_*.py`, delinquency and runtime access policies | inbox, watermark, subscription, runtime, delinquency | ingest, classify, reconcile | events repeated, late and out of order; a decision that raises and is delivered again | the status of the latest event, access never above it, missed months counted once |
| Quota: `subscription_quota_*.py` | cycles, usage ledger | record usage, roll over | usage reported late, in grace, with the same key | counters equal the ledger, degraded use in grace |
| Top-ups: `subscription_top_up_*.py`, `lemon_squeezy_top_up_*.py`, `local_tunisia_top_up_payment.py` | orders, checkouts, grants, reversals | order, checkout, recovery of a checkout, payment, refund | crashes around the call of the provider, repeated requests and payments | one checkout per order, units for payments only, once |
| Direct orders: `direct_order_service.py`, `contract_service.py`, `payment_*_service.py`, `*subscription_activation_service.py` | orders, payment evidence, verifications, reconciliation cases, subscriptions | order, contract, report a transfer, verify or reject, reconcile, activate (from an order or an assessment) | decisions revised and repeated between verification and activation; activations that each find no active subscription | a subscription for a completed contract and an exact payment, one active one per customer |

Webhooks change the subscription, its runtime and the rollover of its cycles; usage
reads all of them, and suspends the runtime when it finds grace over. The activation of
an order or an assessment makes the subscriptions that webhooks then change.

## 2. The modules

```
JobRecord ---------+--> DurableJobs ----------> MCDurableJobs         (reference store)
 (record operators)+--> RedisJobs ------------> MCRedisJobs           (Redis store)
                           +--> OptimizedRedisJobs --> MCOptimizedRedisJobs
JobLifecycle  <==== implemented by DurableJobs and RedisJobs
      +--> DurableWorkers --------------------> MCDurableWorkers      (workers, pools)
CapacityPolicy --+--> DomainCapacity -------+
                 +--> RedisDomainCapacity --+--> MCRedisCapacity
AdaptiveConcurrency, RequestCapacity,       |
PoolLifecycle ------------------------------+--> MCAdmission
AuthDelivery, IdentitySessions, MfaFactors ----> MCAccounts
SubscriptionEvents --> QuotaLedger -+
TopUps, DirectOrders ---------------+----------> MCCommerce

Proofs:  JobRecordProofs --> DurableJobsProofs, RedisJobsProofs (both Redis stores)
         FiniteSums -------> RedisJobsProofs, AdmissionProofs, AccountsProofs, CommerceProofs
         WorkerProofs
```

**JobRecord** holds what one job is and what each method does to it: `Claimed`,
`Heartbeaten`, `Released`, `Succeeded`, `Failed`, `CancelRequested`,
`ClaimCancelled`, `Recovered`, `ExpireDeadline`, what a client sees of a job
(`PublicJob`), and the tests `HasLease` (`_assert_lease`), `DeadlineExpired` and
`LeaseExpired`. Both stores share these
operators because the Redis methods repeat the reference methods field by field.
Payloads, results, error texts and `updated_at` decide nothing and are left out.
Time is integral. Backoff is `min(maxBackoff, initialBackoff * 2^(attempt-1))`.

**DurableJobs** is `InMemoryDurableJobStore`. Each method holds `_lock` from the
clock read to its return, hence one action per method. `Claim` includes the
sweep that fails every overdue job before the selection. `fate` is a history
variable: for each lease token, whether its claim is open, was ended by its
holder ("closed") or was taken away ("lost").

**JobLifecycle** is the abstract specification: which status changes a job can
make and under which claim, with no clock, order or index. Lease expiry is a
choice; so is a deadline for jobs that have one. `ImplementsLifecycle` in
`DurableJobs` and `RedisJobs` is its `Spec` under the mapping `PublicJobs`.

**RedisJobs** splits each Redis method at its awaits. A WATCH/MULTI/EXEC block
commits against exactly what it read or is retried, so it is one action with its
reads; running out of retries is an action without effect (`ClaimRetry`,
`MutateLost`, `RecoverSkip`). What precedes the WATCH is separate: `ClaimTime`
and `MutateTime` read the clock, `ClaimRange` the index, `ClaimRead` one job,
`ClaimZrem` is the plain ZREM, `RecoverRange` the list of expired ids. `pending`
holds calls between clock and transaction, by any holder of any token ever handed
out, so late and repeated calls are included. `Submit` uses the clock at its
commit; the code's slightly older value makes no difference that another call
can observe. Jobs are never deleted.

**OptimizedRedisJobs** adds to `RedisJobs` the priority indexes and replaces its claim.
A claim is one Lua script (`LuaClaim`), which cancels or fails the candidates it passes,
only when it has no domain filter *and* the prefix has a hash tag (`UsesScript`). A worker
passes its domains unless `unfiltered_claims` is set, so the default is the other path:
the round trips of `_claim_watch` (`WatchRange` to `WatchRetry`), which reads the whole
range of a priority when there is a filter and a window of it otherwise, and removes what
it read as stale with plain ZREMs. `atomic` and `domains` are free choices at the start.
Every other method is that of the plain store with the second index kept along
(`Follow`). `phase` is the deployment: clients of the plain store; their switch to the new
one (`SwitchClients`); the repair while they go on; the new store's workers.

**DurableWorkers** puts `run_once` on top of `JobLifecycle`, so its results hold
for each store that implements it. `pc` names the await at which a worker stands.
Store calls may be refused or may raise before or after the store acted
(`CallLost`; `CallSucceed` may go on to `failing` after a stored success).
Heartbeats can fail while the handler runs (`HeartbeatLost`, `HeartbeatError`)
or during the final calls (`HeartbeatLate`); `broken` remembers a failed
heartbeat task, whose exception `Close` meets again. `Interrupt` is the
cancellation by `pool.stop`, `Crash` the death of the process. `Handles` and
`Unfiltered` are the handler maps and `unfiltered_claims` of the workers. Tokens
are uuids in the code; the model recycles a token nobody knows (`Forget`), so
that no bound on claims cuts behaviours short.

**CapacityPolicy, DomainCapacity, RedisDomainCapacity** are the admission rule
and the two backends. The state includes the *holders*, the workers that believe
they may work; `LimitsRespected` is about them and not about the backend's table.
`RedisDomainCapacity` has the three sorted sets with the time to live of their
keys, which `reserve` sets and `renew` does not.

**AdaptiveConcurrency** is controller, sampler and gate as
`_run_worker_iteration` drives them: steps are the stretches between awaits.
The smoothed latency is abstracted to a free choice among high, between and low
at each observation, which includes everything the EWMA can do.

**PoolLifecycle** is what `DurableWorkers` leaves out of the pool: `start`, `stop` and
`request_stop` by several callers. A generation is the set of loops of one `start`;
`tasks` is the generation in `_tasks`. `stop` is three steps, split at its two
awaits: `StopCall`, `StopCancel` after the graceful wait, `StopClear` after the join.
`LoopDies` is a handler that raises `CancelledError` itself.

**RequestCapacity** is the middleware's `dispatch`. Each script is an action; `stage`
is where the request stands and `belief` the lease its last answer gave it, so the
limits are stated of the requests that may work and not of the table.
`ReserveLost` is a reservation that was made and whose answer never came. `Finish` is the
`finally` block to its end; `FinishCut` the block left early, by a cancellation at
`await backend.release` or by a stopped task that raises, which skips the accounting.
Leases are scored with `time.time()` of the nodes and keys expire by the clock of Redis;
the model has one clock and no skew.

**AuthDelivery** is one account with its mail. Service calls are transactions on
locked rows and hence single actions; a dispatcher is three: `ClaimBatch` (which
also takes the snapshot that `_ineligible_error` looks at), `Send`, `Settle`, with
`CrashDispatcher` and overrun leases in between. The two repositories' `where`
clauses are `Owns`.

**IdentitySessions** is one user. `Refresh` has the three outcomes of the code
(rotation, reuse, expiry). The completion of a recovery is two steps,
`RevokeExternalAuthority` for the two files and, after several awaits,
`CompleteRecovery` for the database; `RevocationFails` is a revoker that stops after no or
one file, `CompletionFails` a transaction that rolls back after both. In between the
completion holds the rows of the user and of its request (`completing`), so logins,
refreshes and new requests wait (`UserRowFree`). A request on the API keys does not: its
session is checked by a plain read (`ValidateIdentitySession`), and `ChangeApiKeys` loads,
changes and saves the file in a later step without another look. That step is one
stretch of the event loop; a second process that interleaves its own load and save on the
same file is not modelled. `password` counts passwords; sessions and keys remember the one
their user was let in with, and a key is `late` if it was written during a completion or
by a request whose password was no longer the current one.

**MfaFactors** counts TOTP steps from the current one, so the clock moves a used step
towards `Forgotten`. `EnrollCheck` and `EnrollCommit` are separate because the code
looks for an active factor before it locks the user.

**SubscriptionEvents** has the provider emit events (`Emit`), which arrive in any
order and number. `Classify` is the gate, `Applicable` what makes the transaction raise
and roll back, the database's check of a grace deadline included. Time is counted
in half months, the length of the grace period. **QuotaLedger** extends it with usage
and rollover; a usage carries the caller's time. **TopUps** splits a purchase at each
transaction and at the provider's call. `offered` and `paid` are the provider's side.

**DirectOrders** has one action for each call, on locked rows, except that an activation
is split after its checks (`BeginActivation`, `BeginAssessment`, then `CommitActivation`):
a search for an active subscription that finds none has no row to lock. What it has
locked, its order and its customer's eligibility, other actions leave alone
(`Unlocked`). The four comparisons of a report are one choice, `exact`. Evidence is
indexed by transfer because the reference of a transfer is unique. `decided` keeps the
reconciliation decisions that committed, from which `Notified` gives the
deduplication keys in the notification outbox.

**MCAdmission**, **MCAccounts** and **MCCommerce** each put components that share no state
side by side: `focus` is chosen initially and names the one that runs, while the others
stay in their initial states. The states of such a run are the sum of the parts'.

Operators called `Bug...` are deliberate faults, one for each property that a run
checks. They are used by no specification: substituting one for the definition
that follows it must make the property fail (`mutants` in `PROJECT.json`).

## 3. The runs

| Run | Instance | States | Result |
|---|---|---|---|
| DurableStore | 2 jobs, 2 workers, 3 specs (deadline, single attempt, key conflict), clock to 3, 3 claims | 249 thousand | passes |
| RedisStore | 1 job, 2 clients, 2 calls in flight, clock to 2, 3 claims | 1.6 million | passes |
| OptimizedStore | 2 jobs of two kinds, 1 worker, window of 1, 1 call in flight, both claim paths, with and without a filter | 1.1 million | passes |
| RedisLostJob | as RedisStore | | violates `NoJobLost` |
| WorkerPool | 1 job with 2 attempts, 2 workers with a handler, 1 without, 1 slot | 34 thousand | passes |
| WorkerCancel, WorkerLeak | as WorkerPool | | violate `CancelledJobsFinish`, `CapacityReturned` |
| Admission | gate: 3 workers, limit 1..3; capacity: 4 reservations, 3 domains, limits 2/1/1 reserve, clock to 5; requests: 3, two of one actor, one heavier; pool: 2 loops, 2 callers, 2 starts | 549 thousand | passes |
| RedisCapacityLimits | the Redis capacity backend, clock to 6 | | violates `RedisLimitsRespected` |
| Accounts | mail: 2 dispatchers, 2 mails, 2 attempts, a fault and a redrive; sessions: 2 sessions, 3 tokens, 2 recoveries, 1 kind of key in each file; MFA: 2 sessions, 2 labels, 2 enrolments, 2 codes | 885 thousand | passes |
| Commerce | subscription: 3 events within a month or 2 over two, 2 usage keys, 2 cycles; top-ups: an order of each channel, 2 requests, 2 payments; direct: 2 orders and an assessment of one customer, 2 transfers, 2 decision keys | 2.46 million | passes |
| WebhookGate | as Commerce, smaller, with the evidence the code extracts | | violates `OnlyStaleEventsRejected` |

*Why these bounds.* With a lease of 2 and a clock to 3, a lease can expire, be
recovered and be claimed again, a retry can land before, on and after the
deadline at 2, and three claims let two attempts and a release meet. The Redis
instances let the interesting races happen: a scan that reads a job as running,
its requeue, and the ZREM; recovery against the owner's heartbeat; two claimers
on one id. Two calls in flight suffice to have a holder and a late holder at
once. A window of 1 with 2 jobs makes a job that cannot be claimed hide one that
can. In the worker instance one job is shared by a stale and a current owner and
one slot makes admission fail. The capacity clock runs past the key lifetime. In the
adaptive instance a limit of 1 makes workers sleep, and streaks of 2 separate a
single window from a streak. Two callers of the pool let a stop overlap with a stop
or a restart. Two dispatchers let a claim be taken over; two mails let a link be
replaced; two keys let a decision be superseded and repeated; 3 refresh
tokens let a token be presented after its successor was rotated; a second recovery meets
what the first one left; one wrong code ends a recovery and one wrong password locks the
account, because the properties do not depend on how many it takes. Of the three
requests, the actor's two exceed its limit together and the third exceeds the global one
with the heavier of them.
Clocks that count down what is left (mail, sessions, MFA, requests) need no bound.
In `MCCommerce`, `Horizon` cuts the clock once three events are emitted, so that third
events meet two months only through earlier ones; `MCKinds` leaves out events that
differ in the status alone. `CHECK_DEADLOCK FALSE` is used where the system may stop:
the jobs have ended, the bounded clock has, or the callers are done.

*Fairness.* `DurableWorkers` assumes weak fairness of a worker's own steps (the
loop of `pool.py` calls `run_once` again and again), of a heartbeat that the store
refuses, of the recovery of a job whose token no worker knows (its lease runs
out, and the recovery loop of some pool runs), and of the expiry of leaked
reservations. Nothing is assumed of handlers except in `JobsFinish`, whose
hypothesis `HandlersEnd` says that they end; `StaleHandlersStop` needs no such
hypothesis. `AdmissionFairness` assumes that tasks of the event loop which can go on
do, that `run_once` returns to the gate, that the clock goes on, that a wait with a
timeout ends (`asyncio.wait(timeout=...)` in `stop`) and that a cancelled loop ends;
it assumes nothing of loops that were not cancelled. `PressureReachesMinimum` is
conditional on windows being observed again and again.
`AccountsFairness` assumes that the clock goes on and that a delivery worker goes on
with its loop. Crashes, interrupts, errors, refusals and client calls are never fair
and never excluded.

*What the failing runs show.* The `findings` of `PROJECT.json` quote the text that
each one contradicts.

- RedisLostJob: claim reads a job as running, the job is requeued, and claim
  removes it from the queue. It waits for ever in no index. `WatchZrem` is the same race
  in the optimized store, on the path of a worker with its default settings, with a hash
  tag or without; `EveryWaitingJobIsIndexed` is therefore about the script.
- WorkerCancel: a cancellation between claim and `release_unstarted_claim` leaves
  a queued job that claim skips. `JobsFinish` therefore excepts `Parked` jobs.
- WorkerLeak: awaiting a heartbeat task that failed raises in `finally` before
  `capacity.release`.
- RedisCapacityLimits: keys expire with live, renewed members in them. The request
  capacity, whose scripts renew the keys too, keeps the corresponding property.
- WebhookGate: the verified evidence of subscriptions and invoices lacks fields that
  the gate compares with the binding, so each such event goes to review. The run
  Commerce is about what happens once that is repaired: it assumes
  `CompleteEvidence`, as the gate's own tests do.

*What else the model shows, without a run of its own.*

- A handler may run again for a finished job when the lease ran out while the claim
  waited for capacity (execution is at least once; `StartsWithinBudget` bounds it), and
  the Redis store compares the lease with a clock value one round trip old.
- At a low limit a worker asleep at the gate can be overtaken for ever: a releasing
  worker acquires again before the notified one is scheduled.
- In WATCH mode the optimized claim neither ends nor skips past queued jobs with a
  pending cancellation, so they can fill the window; `EmptyClaimMakesProgress` is
  about the script.
- Two stops that overlap with a start between them can clear the tasks of the new
  generation; `NoOrphanLoops` is about stops one at a time.
- `except Exception` around `await backend.release` of the middleware does not catch a
  cancellation, and the awaits of the stopped tasks suppress nothing else: in both cases
  `released(...)` is skipped and the request stays in the gauge of active units
  (`FinishCut`). The reservation itself still ends with its lease (`ReservationsEnd`).
- Between the revocation of the key files and the commit of a recovery a signed-in
  request can create an API key, which survives the new password. So does the key of a
  request that was let in before the commit and writes after it. `RecoveryEndsOldAccess`
  says what is left: no session, and no key that was there before.
- `enroll` finds no active factor, another is confirmed, `enroll` adds its own, and that
  one is confirmed too: two factors are active, and operations use the newest.
- A delinquency can never commit as frozen or pending deletion, because the runtime
  is put in grace without a deadline, which the database refuses: the event is
  delivered again and again.
- A payment dated before a grace deadline that a usage has already enforced can never be
  applied.
- The refund of a top-up looks for the grant by its order: when a checkout was paid twice,
  the refund of the second payment reverses the grant of the first.
- Quota can be rolled over before its period ends, and what is carried then spent in
  both cycles. A checkout of which the provider knows nothing stays uncertain. A
  payment processed after the end of the cycle is not granted.
- A direct order has one verification for good. When a case of an order that is verified
  and not yet activated is decided once more, the order goes back to payment, no
  verdict can be given again and it is never activated. Neither is one whose report
  was accepted as an exception: it can be verified, but activation asks for an exact
  report. The reconciliation actions `reject`, `link`, `unlink` and `reevaluate`
  always roll back, because `_resolution` writes values that the constraint
  `resolution_allowed` does not list.

## 4. The proofs

The theorems are about the specifications the runs check, for every number of jobs,
workers, reservations, requests, mails, events and orders, every policy and every
length of a lease. Each rests on an inductive invariant that holds initially, that each
action keeps (one lemma per action, one step per part it can disturb) and that implies
the property. The assumptions are the named `ASSUME`s on the constants: the ranges that
the constructors of the code validate, and sets that are finite where cardinalities are
taken; every run evaluates those of its modules. An asterisk marks a property that only
its theorem states and no run checks.

| Property | Theorem | Invariant |
|---|---|---|
| **DurableJobsProofs**: the reference store | | |
| `TypeOK`, `AttemptsBounded`, `OpenClaimsAreLeases` | `TypeCorrect`, `AttemptsStayBounded`, `LeasesMatchClaims` | `IInv` |
| `RetryBeforeDeadline`\*, `OneJobPerKey`\* | `RetriesBeforeDeadline`, `KeysNameOneJob` | `IInv` |
| `FinishedIsFinal`\*, `ClaimEndsOnce`\*, `CommitIsTimely`\* | `FinishedStaysFinal`, `ClaimsEndOnce`, `CommitsAreTimely` | `IInv` |
| `LiveLeaseIsSafe` | `LiveLeasesAreSafe` | `IInv` |
| `ImplementsLifecycle` | `StoreImplementsLifecycle` | `IInv` |
| **RedisJobsProofs**: the Redis store and the optimized one | | |
| `LeasesAreIndexed`, `QueueHoldsWaiting` | `LeasesStayIndexed`, `QueueStaysHonest` | `RedisJobsInv` |
| `ImplementsLifecycle` | `RedisImplementsLifecycle` | `RedisJobsInv`, `TokensAreFresh` |
| `EveryWaitingJobIsIndexed` | `WaitingJobsStayIndexed` | `OptInv` |
| `ClaimsAreWaiting`, `EmptyClaimMakesProgress` | `ClaimsStayWaiting`, `EmptyClaimsProgress` | `OptInv` |
| **WorkerProofs**: the workers over the abstract store | | |
| `StartsWithinBudget`, `ResultHasOwner` | `StartsArePaidFor`, `ResultsHaveOwners` | `WorkersInv` |
| **AdmissionProofs**: gate, capacity, pool, requests | | |
| `TypeOK`\*, `LimitInBounds`\*, `ActiveIsExact`\*, `SleepersAreBlocked`, `Hysteresis` | `GateTypeCorrect`, `LimitStaysInBounds`, `ActiveStaysExact`, `NoLostWakeUp`, `LimitHasHysteresis` | `GateInv` |
| `MemoryTypeOK`\*, `HoldersAreKnown`\*, `LimitsRespected` | `MemoryTypeCorrect`, `HoldersStayKnown`, `LimitsAreRespected` | `MemoryInv` |
| `AdmittedRespectsPolicy` | `AdmissionsRespectPolicy` | `RedisInv` |
| `NoOrphanLoops` | `LoopsAreKnown` | `PoolInv` |
| `RequestsWithinLimits` | `RequestsFit` | `RequestInv` |
| **AccountsProofs**: mail, sessions, MFA | | |
| `OneUsableToken`, `SettledByItsOwner` | `OneLinkWorks`, `ClaimsAreFenced` | `TokensInv`, `OutboxInv` |
| `RefreshFamilies`, `RecoveryEndsOldAccess` | `FamiliesNeverFork`, `RecoveryIsComplete` | `FamiliesInv`, `RecoveryInv` |
| `NoCodeReplay` | `CodesWorkOnce` | `MfaInv` |
| **CommerceProofs**: subscriptions, top-ups, direct orders | | |
| `StatusOfLatestEvent`, `RuntimeMatchesBilling`, `MissedCyclesCounted` | `LatestEventDecides`, `RuntimeFollowsBilling`, `MissedCyclesAreMonths` | `EventInv` |
| `LedgerBalances`, `GraceIsDegraded`, `NoAccessAfterGrace` | `LedgerStaysBalanced`, `GraceStaysDegraded`, `AccessStaysEnded` | `LedgerInv` |
| `OneCheckoutPerOrder`, `TopUpsAreGrants` | `CheckoutsAreSingle`, `TopUpsStayGrants` | `CheckoutInv`, `GrantInv` |
| `DirectTypeOK`\*, `OnePaidSubscription`, `SupersededStaysSuperseded` | `DirectTypeCorrect`, `SubscriptionsArePaid`, `SupersededDecisionsStay` | `DirectInv` |

Why each invariant is needed:

- **Jobs.** `IInv == TypeOK /\ (\A j : RecordOK(job[j])) /\ LeaseInv /\ OneJobPerKey`.
  `RecordOK` (in `JobRecordProofs`, with a lemma for every record operator) is about one
  job: attempts against the budget by status, a retry before its deadline.
  The budget is not inductive alone: `release_unstarted_claim` gives an attempt back and
  `claim` never compares `attempt` with `max_attempts`, so a waiting job must have an
  attempt left and a running one have used one. `LeaseInv` relates jobs, tokens and
  fates: unused tokens are those above `claims`, an open claim is the token of a running
  job, and tokens of running jobs differ.
- **The refinements.** Each step is taken to a step of `JobLifecycle` or a stutter. In
  the Redis store only transactions show; what they read outside of themselves, a clock
  value, an id list, an old copy of a job, is compared with the job again by the
  transaction, and this is what the step needs. `TokensAreFresh` makes the token of a
  claim one that the life cycle has not seen.
- **The Redis indexes.** The hash, the running index and the history are changed by one
  transaction for each way to change a lease (give it up, keep it, take one); the lemmas
  are stated once per way and serve both stores. `CallTypes` says that a call in flight
  names known tokens, jobs and workers.
- **The optimized store.** That both indexes are complete is not inductive: before the
  repair the second one is empty. `RepairCovers` says that a waiting job the priority
  index lacks is still to be read or written by the repair, that the repair's copy of a
  waiting job is right, and that the repair drops no waiting job. This needs that nothing is
  claimed before the deployment (`NothingClaimed`): a job that waits has waited unchanged
  since it was read. For `EmptyClaimsProgress`, the first job that is due in the order of
  visits is always a candidate, because fewer than `Window >= 1` precede it; when the
  script takes nothing, it has ended that job or found it ended, so it removes it.
  `WaitingJobsStayIndexed` has the hypothesis of its property: every worker uses the script.
  With one that does not it is false, by the race of RedisLostJob.
- **Workers.** Starts alone are not inductive: a claim given back takes an attempt
  away. `StartsArePaid` also charges a job for the workers that hold a claim and have not
  started it.
- **Admission.** The limits speak of work under an unexpired lease; admission counts the
  live entries of a table. Each invariant says that the former are among the latter and
  that the latter respect the limits. The first half is what the Redis domain backend
  breaks when its keys expire, so that of it only the limits at admission are proved;
  there the global key outlives the domain keys (`GlobalOutlives`). Weights
  of requests are sums over finite sets. In the gate `ActiveIsExact` keeps the counter
  above zero and `StreaksAreRuns` ties the controller's counters to its samples.
- **Accounts.** The id of a claim on a mail is the number of its attempt, which is what
  makes `Owns` a fence. Every session that is not revoked has exactly one token that is
  neither consumed nor revoked, and a reused token implies that the session is revoked.
  `RecoveryInv` follows a completion: between the revocation of the files and the commit
  every key is `late` (`KeysInTime`), because the files were empty and only the step itself
  fills them; the completion holds the last request, still verified
  (`CompletionHoldsRequest`, `RequestsInOrder`), because its row is locked; and open sessions
  are of the current password (`SessionsAreCurrent`), because no login commits meanwhile.
- **Subscriptions.** The events applied are in order of their dates and the watermark is
  the last of them, so that the status is that of the latest. `GraceEndedThen` says that
  a runtime suspended by a usage was so at or after the deadline. For top-ups, a request
  that is about to call the provider is the first (`CallsAreFirst`). For direct orders, an
  activation in progress still has the evidence it was checked with, because it holds its
  locks.

**FiniteSums** proves what `SumFunctionOnSet` of the community modules computes: a sum
over a finite set with an element added, removed or changed. Induction over data is out
of the prover's reach as a rule with an operator as parameter; the lemmas look for a
smallest counterexample instead, by the well-ordering of the naturals.

Only model-checked: the liveness properties `JobsFinish`, `StaleHandlersStop`,
`PressureReachesMinimum`, `ReservationsEnd`, `StopReturns` and `EveryMailSettles`, because
fairness and `ENABLED` are outside the prover. Every invariant and every action property
of a passing run is the statement of a theorem.

## 5. The plan

Done: durable execution with its stores, workers, pool, capacity and gate; the
admission of requests; mail, sessions, recovery and MFA; webhooks, quota, top-ups and
direct orders; the proofs of section 4.

1. Proofs: finality, claims that end once and timely commits for the Redis store, by way
   of the refinement; which invariants the variants of fairness rest on.
2. The repair of the indexes next to running workers, or late clients, of the plain store.
3. The delivery of commercial notifications, the rate limiter, organisations.

### Not modelled

| Component | Why |
|---|---|
| `execution/http.py`, `routers`, `schemas`, `main.py` | parse requests and call what is modelled; no state of their own |
| rest of `middleware` | headers, logs and counters around a single request; the rate limiter is planned |
| rest of `auth` | organisations and memberships are single-row updates under one lock; passkeys, access tokens and hashing are computations of libraries; mail providers are external |
| rest of `admin_marketplace` | payment destinations, catalogue, offers and read services: validation, single-row updates and queries; the delivery of notifications repeats the claims of the mail outbox; `subscription_runtime_reconciliation_service` is a second writer of the runtime row that no production code calls |
| `billing`, `services` | pricing arithmetic, statements, and stores whose operations are one read and one write of a request |
| `integrations` | contracts of external connectors and fakes of them; their transports exist for tests |
| `cgt_governor`, `processual_kernel`, `cgtlib` | sequential evaluation of one request with floating-point scores: no interleaving, and no property of finite precision that a small instance would tell |
| `static`, `alembic`, `ops`, `scripts`, `tools`, `deployment` | user interface, migrations, one-off scripts |
