---------------------------- MODULE JobLifecycle ----------------------------
(***************************************************************************)
(* What a DurableJobStore promises (the Protocol of                        *)
(* processual_api/execution/durable.py), without a clock, an order of      *)
(* claims or indexes: which status changes a job may make, who may cause   *)
(* them, and what becomes of the claim that was made on it.  The in-memory *)
(* store (DurableJobs) and the Redis store (RedisJobs) implement this      *)
(* specification.                                                          *)
(*                                                                         *)
(* Time only shows as choice: a lease may be recovered whenever the job    *)
(* runs, and a job that has a deadline may fail of it at any moment.       *)
(***************************************************************************)
EXTENDS Integers, FiniteSets

CONSTANTS
  JobIds,     \* job identifiers
  Budgets,    \* the max_attempts that submitted jobs carry
  Tokens,     \* lease tokens: one names one claim
  NoToken     \* lease_token None

ASSUME BudgetAssumption ==
  /\ Budgets \subseteq Nat \ {0}
  /\ NoToken \notin Tokens

VARIABLES
  job,     \* the state of every job
  fate     \* what became of the claim that each token names

vars == <<job, fate>>

Waiting  == {"queued", "retry_wait"}
Terminal == {"succeeded", "failed", "cancelled"}
Live     == Waiting \cup {"running"}

Absent == [status |-> "absent", attempt |-> 0, budget |-> 1, dated |-> FALSE,
           cancel |-> FALSE, token |-> NoToken]

Init ==
  /\ job = [j \in JobIds |-> Absent]
  /\ fate = [t \in Tokens |-> "unused"]

\* Job j stops being claimed and takes status s.
Settle(r, s) == [r EXCEPT !.status = s, !.token = NoToken]

\* The claims of the jobs in J are taken from their holders.
FateWithout(J) ==
  [t \in Tokens |->
     IF \E j \in J : job[j].token = t THEN "lost" ELSE fate[t]]

Submit(j, budget, dated) ==
  /\ job[j].status = "absent"
  /\ job' = [job EXCEPT ![j] = [Absent EXCEPT !.status = "queued",
                                  !.budget = budget, !.dated = dated]]
  /\ UNCHANGED fate

\* Jobs with a deadline that may fail of it, claimed or not.
Overdue == {j \in JobIds : job[j].status \in Live /\ job[j].dated}

SweptOf(J) ==
  [j \in JobIds |-> IF j \in J THEN Settle(job[j], "failed") ELSE job[j]]

ExpireDeadlines(J) ==
  /\ job' = SweptOf(J)
  /\ fate' = FateWithout(J)

\* One call may fail overdue jobs and claim one of the others, under a token
\* that nobody has seen yet.
Claim(j, t, J) ==
  /\ fate[t] = "unused"
  /\ j \notin J
  /\ job[j].status \in Waiting
  /\ ~job[j].cancel
  /\ job' = [SweptOf(J) EXCEPT ![j].status = "running",
                               ![j].attempt = @ + 1,
                               ![j].token = t]
  /\ fate' = [FateWithout(J) EXCEPT ![t] = "open"]

\* Mutant: any worker that knows the job may end the claim.
BugHoldsClaim(j, t) == job[j].status = "running"

HoldsClaim(j, t) == job[j].status = "running" /\ job[j].token = t

EndClaim(j, t, new) ==
  /\ HoldsClaim(j, t)
  /\ job' = [job EXCEPT ![j] = new]
  /\ fate' = [fate EXCEPT ![t] = "closed"]

ReleaseUnstartedClaim(j, t) ==
  EndClaim(j, t, [Settle(job[j], "queued") EXCEPT !.attempt = @ - 1])

\* Both outcomes of a claim give way to a requested cancellation, then to
\* the deadline; a failure is retried while attempts are left.
Succeed(j, t) ==
  \/ job[j].cancel /\ EndClaim(j, t, Settle(job[j], "cancelled"))
  \/ ~job[j].cancel /\ job[j].dated
       /\ EndClaim(j, t, Settle(job[j], "failed"))
  \/ ~job[j].cancel /\ EndClaim(j, t, Settle(job[j], "succeeded"))

Fail(j, t) ==
  \/ job[j].cancel /\ EndClaim(j, t, Settle(job[j], "cancelled"))
  \/ ~job[j].cancel /\ (job[j].dated \/ job[j].attempt >= job[j].budget)
       /\ EndClaim(j, t, Settle(job[j], "failed"))
  \/ ~job[j].cancel /\ job[j].attempt < job[j].budget
       /\ EndClaim(j, t, Settle(job[j], "retry_wait"))

CancelClaimed(j, t) ==
  EndClaim(j, t, [Settle(job[j], "cancelled") EXCEPT !.cancel = TRUE])

RequestCancel(j) ==
  /\ job[j].status \in Live
  /\ job' = [job EXCEPT
       ![j].cancel = TRUE,
       ![j].status = IF @ \in Waiting THEN "cancelled" ELSE @]
  /\ UNCHANGED fate

\* The jobs in J lost their lease; those in L are past their deadline too.
Recovered(r, late) ==
  IF r.cancel THEN Settle(r, "cancelled")
  ELSE IF late \/ r.attempt >= r.budget THEN Settle(r, "failed")
  ELSE Settle(r, "queued")

RecoverExpiredLeases(J, L) ==
  /\ \A j \in J : job[j].status = "running"
  /\ job' = [j \in JobIds |->
               IF j \in J THEN Recovered(job[j], j \in L) ELSE job[j]]
  /\ fate' = FateWithout(J)

Next ==
  \/ \E j \in JobIds, b \in Budgets, d \in BOOLEAN : Submit(j, b, d)
  \/ \E J \in SUBSET Overdue :
       \/ ExpireDeadlines(J)
       \/ \E j \in JobIds, t \in Tokens : Claim(j, t, J)
  \/ \E j \in JobIds, t \in Tokens :
       \/ ReleaseUnstartedClaim(j, t)
       \/ Succeed(j, t)
       \/ Fail(j, t)
       \/ CancelClaimed(j, t)
  \/ \E j \in JobIds : RequestCancel(j)
  \/ \E J \in SUBSET JobIds, L \in SUBSET Overdue :
       RecoverExpiredLeases(J, L)

Spec == Init /\ [][Next]_vars
=============================================================================
