---------------------------- MODULE DurableJobs ----------------------------
(***************************************************************************)
(* The reference job store, InMemoryDurableJobStore of                     *)
(* processual_api/execution/durable.py, with its clock.  Every method      *)
(* reads the clock and changes the jobs under one asyncio.Lock, so each    *)
(* method is one action.  A call that raises (a lost lease, an idempotency *)
(* conflict, an unknown job) or that only reads changes nothing and is a   *)
(* stuttering step, unless the code mutates the job before it raises.      *)
(*                                                                         *)
(* job_id and lease_token are uuid4 values: an id is any unused member of  *)
(* JobIds (the sort breaks ties on it), a token is a fresh number.         *)
(***************************************************************************)
EXTENDS JobRecord

VARIABLES
  job,     \* _jobs
  idem,    \* _idempotency
  now,     \* what _clock() returns
  claims,  \* how many lease tokens have been handed out
  fate     \* history: what became of each claim

vars == <<job, idem, now, claims, fate>>

-----------------------------------------------------------------------------
(* The methods                                                             *)

Init ==
  /\ job = [j \in JobIds |-> Absent]
  /\ idem = [k \in Keys |-> NoJob]
  /\ now = 0
  /\ claims = 0
  /\ fate = [t \in Tokens |-> "unused"]

\* History: the claims whose token leaves the jobs without their holder.
Taken(new) ==
  {t \in Tokens : \E j \in JobIds : job[j].token = t /\ new[j].token # t}

FateAfter(new) ==
  [t \in Tokens |-> IF t \in Taken(new) THEN "lost" ELSE fate[t]]

Submit(s) ==
  /\ idem[s.key] = NoJob
  /\ \E j \in JobIds :
       /\ job[j].status = "absent"
       /\ job' = [job EXCEPT ![j] = NewJob(s, now)]
       /\ idem' = [idem EXCEPT ![s.key] = j]
  /\ UNCHANGED <<now, claims, fate>>

\* claim first fails every job whose deadline has passed, running ones too.
Swept == [j \in JobIds |-> ExpireDeadline(job[j], now)]

Candidates(swept, domains) ==
  {j \in JobIds : /\ swept[j].status \in Waiting
                  /\ swept[j].available <= now
                  /\ ~swept[j].cancel
                  /\ swept[j].spec.domain \in domains}

\* The sort key: priority, available_at, created_at, job_id.
Before(i, j) ==
  LET a == job[i]  b == job[j]
  IN  \/ a.spec.priority < b.spec.priority
      \/ /\ a.spec.priority = b.spec.priority
         /\ \/ a.available < b.available
            \/ /\ a.available = b.available
               /\ \/ a.created < b.created
                  \/ a.created = b.created /\ i < j

ClaimNothing(domains) ==
  /\ Candidates(Swept, domains) = {}
  /\ job' = Swept
  /\ fate' = FateAfter(Swept)
  /\ UNCHANGED <<idem, now, claims>>

ClaimJob(w, domains) ==
  /\ claims < MaxClaims
  /\ \E j \in Candidates(Swept, domains) :
       /\ \A i \in Candidates(Swept, domains) \ {j} : Before(j, i)
       /\ job' = [Swept EXCEPT ![j] = Claimed(@, w, claims + 1, now)]
  /\ claims' = claims + 1
  /\ fate' = [FateAfter(Swept) EXCEPT ![claims + 1] = "open"]
  /\ UNCHANGED <<idem, now>>

Claim(w, domains) == ClaimNothing(domains) \/ ClaimJob(w, domains)

Heartbeat(j, w, t) ==
  /\ HasLease(job[j], w, t, now)
  /\ job' = [job EXCEPT ![j] = Heartbeaten(@, now)]
  /\ fate' = FateAfter(job')
  /\ UNCHANGED <<idem, now, claims>>

\* The holder of token t ends its claim on j, which becomes the record new.
EndClaim(j, w, t, new) ==
  /\ HasLease(job[j], w, t, now)
  /\ job' = [job EXCEPT ![j] = new]
  /\ fate' = [fate EXCEPT ![t] = "closed"]
  /\ UNCHANGED <<idem, now, claims>>

ReleaseUnstartedClaim(j, w, t, delay) ==
  EndClaim(j, w, t, Released(job[j], delay, now))

Succeed(j, w, t) == EndClaim(j, w, t, Succeeded(job[j], now))

Fail(j, w, t) == EndClaim(j, w, t, Failed(job[j], now))

CancelClaimed(j, w, t) == EndClaim(j, w, t, ClaimCancelled(job[j]))

RequestCancel(j) ==
  /\ job[j].status \in Live
  /\ job' = [job EXCEPT ![j] = CancelRequested(@)]
  /\ UNCHANGED <<idem, now, claims, fate>>

RecoverExpiredLeases ==
  /\ \E j \in JobIds : LeaseExpired(job[j], now)
  /\ job' = [j \in JobIds |->
               IF LeaseExpired(job[j], now) THEN Recovered(job[j], now) ELSE job[j]]
  /\ fate' = FateAfter(job')
  /\ UNCHANGED <<idem, now, claims>>

\* External: the wall clock the store reads.
Tick ==
  /\ now < MaxTime
  /\ now' = now + 1
  /\ UNCHANGED <<job, idem, claims, fate>>

Next ==
  \/ \E s \in Specs : Submit(s)
  \/ \E w \in Workers, d \in DomainFilters : Claim(w, d)
  \/ \E j \in JobIds, w \in Workers, t \in Tokens :
       \/ Heartbeat(j, w, t)
       \/ \E d \in Delays : ReleaseUnstartedClaim(j, w, t, d)
       \/ Succeed(j, w, t)
       \/ Fail(j, w, t)
       \/ CancelClaimed(j, w, t)
  \/ \E j \in JobIds : RequestCancel(j)
  \/ RecoverExpiredLeases
  \/ Tick

Spec == Init /\ [][Next]_vars
-----------------------------------------------------------------------------
(* Properties                                                              *)

\* Every variable of the store has its type.
TypeOK ==
  /\ job \in [JobIds -> JobType]
  /\ idem \in [Keys -> JobIds \cup {NoJob}]
  /\ now \in Nat
  /\ claims \in 0..MaxClaims
  /\ fate \in [Tokens -> {"unused", "open", "closed", "lost"}]

\* No job is ever claimed more often than its RetryPolicy allows, whatever
\* mix of failures, releases and lease recoveries it went through, and a job
\* that waits for a worker still has an attempt left (claim itself never
\* compares attempt with max_attempts).
AttemptsBounded ==
  \A j \in JobIds : job[j].status # "absent" =>
    /\ job[j].attempt <= job[j].spec.maxAttempts
    /\ job[j].status \in Waiting => job[j].attempt < job[j].spec.maxAttempts
    /\ job[j].status = "running" => job[j].attempt > 0

\* The claims that nobody has ended are exactly the leases of the running
\* jobs, one job per token: a worker whose lease was recovered, or whose job
\* was failed by another worker's claim, holds a token that matches nothing.
OpenClaimsAreLeases ==
  /\ \A j \in JobIds :
       IF job[j].status = "running"
         THEN /\ job[j].worker \in Workers
              /\ job[j].token \in 1..claims
              /\ fate[job[j].token] = "open"
         ELSE job[j].worker = NoWorker /\ job[j].token = 0
  /\ \A t \in Tokens :
       fate[t] = "open" => \E j \in JobIds : job[j].token = t
  /\ \A i, j \in JobIds :
       job[i].status = "running" /\ job[i].token = job[j].token => i = j

\* A retry is never parked at or past the deadline of its job: fail gives up
\* at once instead, so no retry is scheduled that can only be failed.
RetryBeforeDeadline ==
  \A j \in JobIds :
    job[j].status = "retry_wait" /\ job[j].spec.deadline # NoDeadline
      => job[j].available < job[j].spec.deadline

\* An idempotency key names one job for ever and every job is reachable
\* through its key: two submissions with one key never make two jobs.
OneJobPerKey ==
  /\ \A j \in JobIds : job[j].status # "absent" => idem[job[j].spec.key] = j
  /\ \A k \in Keys : idem[k] # NoJob =>
       job[idem[k]].status # "absent" /\ job[idem[k]].spec.key = k

\* A finished job is never touched again, and a cancellation request is
\* never forgotten by the retries, releases and recoveries that follow it.
FinishedIsFinal ==
  [][\A j \in JobIds :
       /\ job[j].status \in Terminal => job'[j] = job[j]
       /\ job[j].cancel => job'[j].cancel]_vars

\* A claim ends once: what its holder ended, and what recovery, the deadline
\* or a heartbeat took away, is not ended again by a late call.
ClaimEndsOnce ==
  [][\A t \in Tokens :
       fate[t] \in {"closed", "lost"} => fate'[t] = fate[t]]_vars

\* A result is only committed for a job nobody asked to cancel, before its
\* deadline and under an unexpired lease.
CommitIsTimely ==
  [][\A j \in JobIds :
       job[j].status # "succeeded" /\ job'[j].status = "succeeded" =>
         /\ job[j].status = "running"
         /\ job[j].expires > now
         /\ ~job[j].cancel
         /\ ~DeadlineExpired(job[j], now)]_vars

\* A live lease is only taken from its worker by the deadline of the job:
\* recovery and other workers' claims leave a heartbeating worker alone.
LiveLeaseIsSafe ==
  [][\A t \in Tokens :
       fate[t] = "open" /\ fate'[t] = "lost" =>
         \E j \in JobIds :
           /\ job[j].token = t
           /\ job[j].expires <= now \/ DeadlineExpired(job[j], now)]_vars

-----------------------------------------------------------------------------
(* The store implements the abstract life cycle.                           *)

PublicJobs == [j \in JobIds |-> PublicJob(job[j])]

Lifecycle ==
  INSTANCE JobLifecycle WITH job <- PublicJobs,
                             Budgets <- {s.maxAttempts : s \in Specs},
                             NoToken <- 0

\* Every behaviour of the in-memory store, with its clock, its claim order
\* and its sweep of overdue jobs, is a behaviour of the abstract life cycle.
ImplementsLifecycle == Lifecycle!Spec
=============================================================================
