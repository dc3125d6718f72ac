----------------------------- MODULE JobRecord -----------------------------
(***************************************************************************)
(* One job of processual_api/execution/durable.py and what the methods of  *)
(* a store make of it, as functions of the job and of the clock value "at" *)
(* that the method has read.  The in-memory store (DurableJobs) applies    *)
(* them under its lock, the Redis stores inside their transactions.        *)
(*                                                                         *)
(* Data left out: payload, result, updated_at and the wording of errors.   *)
(* lease_token is a uuid4: here a number, 0 for None; lease_expires_at is  *)
(* 0 for None, which no method can tell from an expired lease.             *)
(***************************************************************************)
EXTENDS Integers, FiniteSets

CONSTANTS
  JobIds,         \* identifiers a new job may get, ordered like the uuids
  Workers,        \* worker identities that call the store
  Specs,          \* the JobSpecs that clients submit
  DomainFilters,  \* the "domains" arguments of claim; None is the full set
  LeaseSeconds,   \* lease_seconds of claim and heartbeat
  Delays,         \* delay_seconds of release_unstarted_claim
  NoWorker, NoSpec, NoDeadline, NoJob,
  MaxTime,        \* bound on the clock
  MaxClaims       \* bound on the number of claims

Keys == {s.key : s \in Specs}

(***************************************************************************)
(* A JobSpec with its RetryPolicy flattened into it.                       *)
(***************************************************************************)
SpecType ==
  [key : Keys, domain : UNION DomainFilters, priority : Nat,
   maxAttempts : Nat \ {0}, initialBackoff : Nat, maxBackoff : Nat,
   deadline : Nat \cup {NoDeadline}]

ASSUME ConstantAssumption ==
  /\ JobIds \subseteq Nat
  /\ LeaseSeconds \in Nat \ {0}
  /\ Delays \subseteq Nat
  /\ MaxTime \in Nat
  /\ MaxClaims \in Nat
  /\ NoDeadline \notin Nat
  /\ NoWorker \notin Workers
  /\ NoJob \notin JobIds
  /\ NoSpec \notin Specs
  /\ Specs \subseteq SpecType

Waiting  == {"queued", "retry_wait"}
Terminal == {"succeeded", "failed", "cancelled"}
Live     == Waiting \cup {"running"}

Tokens == 1..MaxClaims

JobType ==
  [spec : Specs \cup {NoSpec},
   status : Live \cup Terminal \cup {"absent"},
   created : Nat, available : Nat, attempt : Nat,
   worker : Workers \cup {NoWorker}, token : Tokens \cup {0}, expires : Nat,
   cancel : BOOLEAN,
   error : {"none", "error", "deadline_exceeded", "worker_lease_expired"}]

-----------------------------------------------------------------------------
(* Helpers on one job record                                               *)

Absent ==
  [spec |-> NoSpec, status |-> "absent", created |-> 0, available |-> 0,
   attempt |-> 0, worker |-> NoWorker, token |-> 0, expires |-> 0,
   cancel |-> FALSE, error |-> "none"]

NewJob(s, t) ==
  [Absent EXCEPT !.spec = s, !.status = "queued", !.created = t,
                 !.available = t]

\* RetryPolicy.delay_after_attempt
DelayAfterAttempt(s, attempt) ==
  LET delay == s.initialBackoff * 2 ^ (attempt - 1)
  IN  IF delay < s.maxBackoff THEN delay ELSE s.maxBackoff

ClearLease(r) == [r EXCEPT !.worker = NoWorker, !.token = 0, !.expires = 0]

\* Mutant: the lease token is not compared.
BugHasLease(r, w, t, at) ==
  r.status = "running" /\ r.worker = w /\ r.expires > at

HasLease(r, w, t, at) ==
  /\ r.status = "running"
  /\ r.worker = w
  /\ r.token = t
  /\ r.expires > at

DeadlineExpired(r, at) == r.spec.deadline # NoDeadline /\ r.spec.deadline <= at

DeadlineFailed(r) ==
  [ClearLease(r) EXCEPT !.status = "failed", !.error = "deadline_exceeded"]

ExpireDeadline(r, at) ==
  IF r.status \in Live /\ DeadlineExpired(r, at) THEN DeadlineFailed(r) ELSE r

-----------------------------------------------------------------------------
(* What each method makes of the job it works on                           *)

Claimed(r, w, t, at) ==
  [r EXCEPT !.status = "running", !.attempt = @ + 1, !.worker = w,
            !.token = t, !.expires = at + LeaseSeconds]

\* Mutant: the lease is renewed into the past.
BugHeartbeaten(r, at) == [r EXCEPT !.expires = at - LeaseSeconds]

Heartbeaten(r, at) ==
  IF DeadlineExpired(r, at) THEN DeadlineFailed(r)
                        ELSE [r EXCEPT !.expires = at + LeaseSeconds]

Released(r, delay, at) ==
  [ClearLease(r) EXCEPT !.status = "queued",
                        !.attempt = IF r.attempt > 0 THEN r.attempt - 1 ELSE 0,
                        !.available = at + delay]

\* Mutant: a requested cancellation does not block the commit.
BugSucceeded(r, at) ==
  [ClearLease(r) EXCEPT !.status = "succeeded", !.error = "none"]

Succeeded(r, at) ==
  IF r.cancel THEN [ClearLease(r) EXCEPT !.status = "cancelled"]
  ELSE IF DeadlineExpired(r, at) THEN DeadlineFailed(r)
  ELSE [ClearLease(r) EXCEPT !.status = "succeeded", !.error = "none"]

Failed(r, at) ==
  LET retryAt == at + DelayAfterAttempt(r.spec, r.attempt)
      tooLate == r.spec.deadline # NoDeadline /\ retryAt >= r.spec.deadline
  IN  IF r.cancel
        THEN [ClearLease(r) EXCEPT !.status = "cancelled", !.error = "error"]
      ELSE IF DeadlineExpired(r, at) THEN DeadlineFailed(r)
      ELSE IF r.attempt >= r.spec.maxAttempts
        THEN [ClearLease(r) EXCEPT !.status = "failed", !.error = "error"]
      ELSE IF tooLate THEN DeadlineFailed(r)
      ELSE [ClearLease(r) EXCEPT !.status = "retry_wait", !.error = "error",
                                 !.available = retryAt]

CancelRequested(r) ==
  [r EXCEPT !.cancel = TRUE,
            !.status = IF @ \in Waiting THEN "cancelled" ELSE @]

ClaimCancelled(r) ==
  [ClearLease(r) EXCEPT !.status = "cancelled", !.cancel = TRUE]

\* Mutant: a lease is taken one second early.
BugLeaseExpired(r, at) == r.status = "running" /\ r.expires <= at + 1

LeaseExpired(r, at) == r.status = "running" /\ r.expires <= at

\* Mutant: an expired lease is always requeued.
BugRecovered(r, at) ==
  [ClearLease(r) EXCEPT !.status = "queued", !.available = at]

Recovered(r, at) ==
  LET lost == [ClearLease(r) EXCEPT !.error = "worker_lease_expired"]
  IN  IF r.cancel THEN [lost EXCEPT !.status = "cancelled"]
      ELSE IF DeadlineExpired(r, at) THEN DeadlineFailed(r)
      ELSE IF r.attempt >= r.spec.maxAttempts
        THEN [lost EXCEPT !.status = "failed"]
      ELSE [lost EXCEPT !.status = "queued", !.available = at]

-----------------------------------------------------------------------------
(* What the abstract life cycle (JobLifecycle) keeps of a job: no clock,   *)
(* and of the spec only the attempts and whether there is a deadline.      *)

PublicJob(r) ==
  [status |-> r.status, attempt |-> r.attempt,
   budget |-> IF r.status = "absent" THEN 1 ELSE r.spec.maxAttempts,
   dated |-> r.status # "absent" /\ r.spec.deadline # NoDeadline,
   cancel |-> r.cancel, token |-> r.token]
=============================================================================
