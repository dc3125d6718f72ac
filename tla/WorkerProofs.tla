---------------------------- MODULE WorkerProofs ----------------------------
(***************************************************************************)
(* Theorems about the workers: what is started was paid for with an        *)
(* attempt, and a result comes from the worker that holds the claim.       *)
(*                                                                         *)
(* The count of starts alone is not inductive: a claim that is given back  *)
(* takes an attempt away.  The invariant therefore charges a job also for  *)
(* the workers that hold a claim and have not started it (PendingOf).      *)
(***************************************************************************)
EXTENDS DurableWorkers, FiniteSetTheorems, TLAPS

-----------------------------------------------------------------------------
Statuses == {"absent", "queued", "retry_wait", "running", "succeeded", "failed", "cancelled"}

JobRows == [status : Statuses, attempt : Nat, budget : Nat, dated : BOOLEAN,
            cancel : BOOLEAN, token : Tokens \cup {NoToken}]

Stages == {"idle", "claimed", "releasing", "running", "succeeding", "failing", "closing"}

WorkerRows == [pc : Stages, job : JobIds \cup {NoJob}, token : Tokens \cup {NoToken},
               broken : BOOLEAN]

\* A row of a job that is within its budget, and has an attempt left if it waits.
Budgeted(r) == /\ r \in JobRows /\ r.attempt <= r.budget
               /\ r.status \in Waiting => r.attempt < r.budget

JobsInv ==
  /\ job \in [JobIds -> JobRows]
  /\ \A j \in JobIds : Budgeted(job[j]) /\ (job[j].status = "absent" => job[j].attempt = 0)

\* The workers that hold an attempt of job j for which no handler was started.
PendingOf(ws, j) == {w \in Workers : ws[w].pc \in {"claimed", "releasing"} /\ ws[w].job = j}

WorkersTypeOK ==
  /\ worker \in [Workers -> WorkerRows] /\ starts \in [JobIds -> Nat]
  /\ \A w \in Workers : worker[w].pc # "idle" => worker[w].job \in JobIds

\* Every start, and every claim that is still to start or to be given back, has
\* used an attempt of its own.
StartsArePaid ==
  \A j \in JobIds : /\ IsFiniteSet(PendingOf(worker, j))
                    /\ starts[j] + Cardinality(PendingOf(worker, j)) <= job[j].attempt

HandlersWereStarted ==
  \A w \in Workers :
    worker[w].pc \in {"running", "succeeding", "failing", "closing"} => starts[worker[w].job] > 0

WorkersInv == JobsInv /\ WorkersTypeOK /\ StartsArePaid /\ HandlersWereStarted

-----------------------------------------------------------------------------
(* Jobs                                                                    *)

\* A job is changed and its attempts are not.
Quiet(r, n) == Budgeted(n) /\ n.attempt = r.attempt /\ n.status # "absent"

\* No result is stored.
NoResult == \A k \in JobIds : job'[k].status = "succeeded" => job[k].status = "succeeded"

QuietJobs ==
  /\ job' \in [JobIds -> JobRows]
  /\ \A k \in JobIds : job'[k] = job[k] \/ Quiet(job[k], job'[k])

LEMMA QuietKeepsJobs ==
  ASSUME JobsInv, QuietJobs
  PROVE  JobsInv' /\ \A k \in JobIds : job'[k].attempt = job[k].attempt
  BY DEF JobsInv, QuietJobs, Quiet

LEMMA UnchangedIsQuiet == ASSUME JobsInv, UNCHANGED job PROVE QuietJobs /\ NoResult
  BY DEF JobsInv, QuietJobs, NoResult

\* The row of a job whose claim ends.
LEMMA SettleRow ==
  ASSUME NEW r, Budgeted(r), NEW s \in Statuses \ {"absent"},
         s \in Waiting => r.attempt < r.budget
  PROVE  /\ Quiet(r, Settle(r, s)) /\ Settle(r, s).status = s
         /\ Settle(r, s).attempt = r.attempt /\ Settle(r, s).budget = r.budget
         /\ Settle(r, s).token = NoToken
  <1> DEFINE a == [r EXCEPT !.status = s]
  <1>1. /\ a \in JobRows /\ a.status = s /\ a.attempt = r.attempt /\ a.budget = r.budget
    BY DEF Budgeted, JobRows
  <1>2. Settle(r, s) = [a EXCEPT !.token = NoToken]
    BY DEF Settle, Budgeted, JobRows
  <1> HIDE DEF a
  <1>3. /\ Settle(r, s) \in JobRows /\ Settle(r, s).status = s
        /\ Settle(r, s).attempt = r.attempt /\ Settle(r, s).budget = r.budget
        /\ Settle(r, s).token = NoToken
    BY <1>1, <1>2 DEF JobRows
  <1> QED
    BY <1>3 DEF Quiet, Budgeted

\* One job is changed quietly.
LEMMA OneQuiet ==
  ASSUME JobsInv, NEW j \in JobIds, NEW n, Quiet(job[j], n), job' = [job EXCEPT ![j] = n]
  PROVE  QuietJobs /\ (n.status # "succeeded" => NoResult)
  <1>1. QuietJobs
    BY DEF JobsInv, QuietJobs, Quiet, Budgeted
  <1>2. n.status # "succeeded" => NoResult
    BY DEF JobsInv, NoResult
  <1> QED
    BY <1>1, <1>2

LEMMA SubmitQuiet ==
  ASSUME JobsInv, NEW j \in JobIds, NEW b \in Budgets, NEW d \in BOOLEAN, Submit(j, b, d)
  PROVE  QuietJobs /\ NoResult
  <1> DEFINE n == [Absent EXCEPT !.status = "queued", !.budget = b, !.dated = d]
  <1>1. job[j].status = "absent" /\ job' = [job EXCEPT ![j] = n]
    BY DEF Submit
  <1>2. b \in Nat /\ 0 < b
    BY BudgetAssumption
  <1> DEFINE x == [Absent EXCEPT !.status = "queued"]
             y == [x EXCEPT !.budget = b]
  <1>3. n = [y EXCEPT !.dated = d]
    BY DEF Absent
  <1>4. Absent \in JobRows /\ Absent.attempt = 0
    BY DEF Absent, JobRows, Statuses
  <1>5. x \in JobRows /\ x.attempt = 0 /\ x.status = "queued"
    BY <1>4 DEF JobRows, Statuses
  <1> HIDE DEF x, n
  <1>6. y \in JobRows /\ y.attempt = 0 /\ y.status = "queued" /\ y.budget = b
    BY <1>2, <1>5 DEF JobRows
  <1> HIDE DEF y
  <1>7. n \in JobRows /\ n.attempt = 0 /\ n.budget = b /\ n.status = "queued"
    BY <1>3, <1>6 DEF JobRows
  <1>8. job[j].attempt = 0
    BY <1>1 DEF JobsInv
  <1>9. Quiet(job[j], n)
    BY <1>2, <1>7, <1>8 DEF Quiet, Budgeted
  <1> QED
    BY <1>1, <1>7, <1>9, OneQuiet

LEMMA RequestCancelQuiet ==
  ASSUME JobsInv, NEW j \in JobIds, RequestCancel(j)
  PROVE  QuietJobs /\ NoResult
  <1> DEFINE a == [job[j] EXCEPT !.cancel = TRUE]
             st == IF job[j].status \in Waiting THEN "cancelled" ELSE job[j].status
             n == [a EXCEPT !.status = st]
  <1>1. job[j] \in JobRows /\ Budgeted(job[j]) /\ job[j].status \in Live
    BY DEF JobsInv, RequestCancel
  <1>2. a \in JobRows /\ a.attempt = job[j].attempt /\ a.budget = job[j].budget
        /\ a.status = job[j].status
    BY <1>1 DEF JobRows
  <1>3. st \in Statuses /\ st \notin {"absent", "succeeded"} /\ st \notin Waiting
    BY <1>1 DEF Live, Waiting, Statuses
  <1>4. job' = [job EXCEPT ![j] = n]
    BY <1>1 DEF RequestCancel, JobsInv, JobRows
  <1> HIDE DEF a, st
  <1>5. n \in JobRows /\ n.attempt = job[j].attempt /\ n.budget = job[j].budget /\ n.status = st
    BY <1>2, <1>3 DEF JobRows
  <1> HIDE DEF n
  <1>6. Quiet(job[j], n)
    BY <1>1, <1>3, <1>5 DEF Quiet, Budgeted
  <1> QED
    BY <1>3, <1>4, <1>5, <1>6, OneQuiet

LEMMA EndClaimQuiet ==
  ASSUME JobsInv, NEW j \in JobIds, NEW t, NEW s \in {"cancelled", "failed", "succeeded", "retry_wait"},
         s = "retry_wait" => job[j].attempt < job[j].budget,
         EndClaim(j, t, Settle(job[j], s))
  PROVE  QuietJobs /\ (s # "succeeded" => NoResult)
  <1>1. Quiet(job[j], Settle(job[j], s)) /\ Settle(job[j], s).status = s
    BY SettleRow DEF JobsInv, Statuses, Waiting
  <1> QED
    BY <1>1, OneQuiet DEF EndClaim

LEMMA OutcomeQuiet ==
  ASSUME JobsInv, NEW j \in JobIds, NEW t, Succeed(j, t) \/ Fail(j, t)
  PROVE  /\ QuietJobs /\ HoldsClaim(j, t)
         /\ Fail(j, t) => NoResult
         /\ \A k \in JobIds : k # j => job'[k] = job[k]
  <1>1. ASSUME Succeed(j, t) PROVE QuietJobs
    BY <1>1, EndClaimQuiet DEF Succeed
  <1>2. ASSUME Fail(j, t) PROVE QuietJobs /\ NoResult
    BY <1>2, EndClaimQuiet DEF Fail
  <1>3. \E n : EndClaim(j, t, n)
    BY DEF Succeed, Fail
  <1>4. HoldsClaim(j, t) /\ \A k \in JobIds : k # j => job'[k] = job[k]
    BY <1>3 DEF EndClaim, JobsInv
  <1> QED
    BY <1>1, <1>2, <1>4

LEMMA SweepQuiet ==
  ASSUME JobsInv, NEW J
  PROVE  /\ SweptOf(J) \in [JobIds -> JobRows]
         /\ \A k \in JobIds : /\ k \notin J => SweptOf(J)[k] = job[k]
                              /\ k \in J => Quiet(job[k], SweptOf(J)[k])
                              /\ k \in J => SweptOf(J)[k].status = "failed"
  <1>1. \A k \in JobIds : /\ Quiet(job[k], Settle(job[k], "failed"))
                          /\ Settle(job[k], "failed").status = "failed"
    BY SettleRow DEF JobsInv, Statuses, Waiting
  <1>2. \A k \in JobIds : Settle(job[k], "failed") \in JobRows /\ job[k] \in JobRows
    BY <1>1 DEF Quiet, Budgeted, JobsInv
  <1> QED
    BY <1>1, <1>2 DEF SweptOf

LEMMA RecoverQuiet ==
  ASSUME JobsInv, NEW J, NEW L, RecoverExpiredLeases(J, L)
  PROVE  QuietJobs /\ NoResult
  <1> DEFINE n(k) == IF k \in J THEN Recovered(job[k], k \in L) ELSE job[k]
  <1>1. \A k \in JobIds : /\ Quiet(job[k], Recovered(job[k], k \in L))
                          /\ Recovered(job[k], k \in L).status # "succeeded"
    <2> SUFFICES ASSUME NEW k \in JobIds
                 PROVE  /\ Quiet(job[k], Recovered(job[k], k \in L))
                        /\ Recovered(job[k], k \in L).status # "succeeded"
      OBVIOUS
    <2>1. Budgeted(job[k]) /\ job[k].attempt \in Nat /\ job[k].budget \in Nat
      BY DEF JobsInv, Budgeted, JobRows
    <2>2. /\ Quiet(job[k], Settle(job[k], "cancelled"))
          /\ Settle(job[k], "cancelled").status = "cancelled"
      BY <2>1, SettleRow DEF Statuses, Waiting
    <2>3. /\ Quiet(job[k], Settle(job[k], "failed"))
          /\ Settle(job[k], "failed").status = "failed"
      BY <2>1, SettleRow DEF Statuses, Waiting
    <2>4. job[k].attempt < job[k].budget =>
            /\ Quiet(job[k], Settle(job[k], "queued"))
            /\ Settle(job[k], "queued").status = "queued"
      BY <2>1, SettleRow DEF Statuses, Waiting
    <2>5. job[k].attempt >= job[k].budget \/ job[k].attempt < job[k].budget
      BY <2>1
    <2> QED
      BY <2>2, <2>3, <2>4, <2>5 DEF Recovered
  <1>2. job' = [k \in JobIds |-> n(k)]
    BY DEF RecoverExpiredLeases
  <1>3. \A k \in JobIds : /\ n(k) = job[k] \/ (Quiet(job[k], n(k)) /\ n(k).status # "succeeded")
                          /\ n(k) \in JobRows
    BY <1>1 DEF Quiet, Budgeted, JobsInv
  <1> HIDE DEF n
  <1> QED
    BY <1>2, <1>3 DEF QuietJobs, NoResult

\* A claim uses one attempt of a job that had one left.
LEMMA ClaimUsesAttempt ==
  ASSUME JobsInv, NEW j \in JobIds, NEW t \in Tokens, NEW J, Claim(j, t, J)
  PROVE  /\ JobsInv' /\ NoResult
         /\ job'[j].attempt = job[j].attempt + 1
         /\ \A k \in JobIds : k # j => job'[k].attempt = job[k].attempt
  <1> DEFINE r == job[j]
             a == [r EXCEPT !.status = "running"]
             b == [a EXCEPT !.attempt = r.attempt + 1]
             n == [b EXCEPT !.token = t]
  <1>1. Budgeted(r) /\ r.attempt < r.budget /\ j \notin J
    BY DEF JobsInv, Budgeted, Claim
  <1>2. r \in JobRows /\ r.attempt \in Nat /\ r.budget \in Nat
    BY <1>1 DEF Budgeted, JobRows
  <1>3. /\ SweptOf(J) \in [JobIds -> JobRows] /\ SweptOf(J)[j] = r
        /\ \A k \in JobIds :
             \/ SweptOf(J)[k] = job[k]
             \/ Quiet(job[k], SweptOf(J)[k]) /\ SweptOf(J)[k].status = "failed"
    <2>1. /\ SweptOf(J) \in [JobIds -> JobRows]
          /\ \A k \in JobIds : /\ k \notin J => SweptOf(J)[k] = job[k]
                               /\ k \in J => Quiet(job[k], SweptOf(J)[k])
                               /\ k \in J => SweptOf(J)[k].status = "failed"
      BY SweepQuiet
    <2>2. SweptOf(J)[j] = job[j]
      BY <1>1, <2>1
    <2>3. \A k \in JobIds :
            \/ SweptOf(J)[k] = job[k]
            \/ Quiet(job[k], SweptOf(J)[k]) /\ SweptOf(J)[k].status = "failed"
      BY <2>1
    <2> QED
      BY <2>1, <2>2, <2>3
  <1>4. job' = [SweptOf(J) EXCEPT ![j] = n]
    BY <1>2, <1>3 DEF Claim, JobRows
  <1>5. a \in JobRows /\ a.attempt = r.attempt /\ a.budget = r.budget /\ a.status = "running"
    BY <1>2 DEF JobRows, Statuses
  <1> HIDE DEF a
  <1>6. b \in JobRows /\ b.attempt = r.attempt + 1 /\ b.budget = r.budget /\ b.status = "running"
    BY <1>2, <1>5 DEF JobRows
  <1> HIDE DEF b
  <1>7. n \in JobRows /\ n.attempt = r.attempt + 1 /\ n.budget = r.budget /\ n.status = "running"
    BY <1>6 DEF JobRows
  <1>8. Budgeted(n)
    BY <1>1, <1>2, <1>7 DEF Budgeted, Waiting
  <1> HIDE DEF n
  <1>9. /\ job' \in [JobIds -> JobRows] /\ job'[j] = n
        /\ \A k \in JobIds : k # j => job'[k] = SweptOf(J)[k]
    BY <1>3, <1>4, <1>7
  <1>10. JobsInv'
    BY <1>3, <1>7, <1>8, <1>9 DEF JobsInv, Quiet
  <1>11. NoResult
    BY <1>3, <1>7, <1>9 DEF NoResult
  <1>12. \A k \in JobIds : k # j => job'[k].attempt = job[k].attempt
    BY <1>3, <1>9 DEF Quiet
  <1> QED
    BY <1>7, <1>9, <1>10, <1>11, <1>12

\* A claim that was not started gives its attempt back.
LEMMA ReleaseReturnsAttempt ==
  ASSUME JobsInv, NEW j \in JobIds, NEW t, job[j].attempt > 0, ReleaseUnstartedClaim(j, t)
  PROVE  /\ JobsInv' /\ NoResult
         /\ job'[j].attempt = job[j].attempt - 1
         /\ \A k \in JobIds : k # j => job'[k] = job[k]
  <1> DEFINE r == job[j]
             s == [r EXCEPT !.status = "queued"]
             a == [s EXCEPT !.token = NoToken]
             n == [a EXCEPT !.attempt = r.attempt - 1]
  <1>1. Budgeted(r) /\ r \in JobRows /\ r.attempt \in Nat /\ r.budget \in Nat
    BY DEF JobsInv, Budgeted, JobRows
  <1>2. job' = [job EXCEPT ![j] = n]
    BY <1>1 DEF ReleaseUnstartedClaim, EndClaim, Settle, JobRows
  <1>3. s \in JobRows /\ s.budget = r.budget /\ s.status = "queued"
    BY <1>1 DEF JobRows, Statuses
  <1> HIDE DEF s
  <1>4. a \in JobRows /\ a.budget = r.budget /\ a.status = "queued"
    BY <1>3 DEF JobRows
  <1> HIDE DEF a
  <1>5. n \in JobRows /\ n.attempt = r.attempt - 1 /\ n.budget = r.budget /\ n.status = "queued"
    BY <1>1, <1>4 DEF JobRows
  <1>6. Budgeted(n)
    BY <1>1, <1>5 DEF Budgeted
  <1> HIDE DEF n
  <1>7. /\ job' \in [JobIds -> JobRows] /\ job'[j] = n
        /\ \A k \in JobIds : k # j => job'[k] = job[k]
    BY <1>2, <1>5 DEF JobsInv
  <1>8. JobsInv'
    BY <1>5, <1>6, <1>7 DEF JobsInv
  <1>9. NoResult
    BY <1>5, <1>7 DEF NoResult
  <1> QED
    BY <1>5, <1>7, <1>8, <1>9

-----------------------------------------------------------------------------
(* Workers                                                                 *)

StartedStages == {"running", "succeeding", "failing", "closing"}
PendingStages == {"claimed", "releasing"}

\* A worker goes on with the job it has, or forgets it, and starts nothing.
Calm(w, row) ==
  /\ row \in WorkerRows
  /\ row.pc # "idle" => worker[w].pc # "idle" /\ row.job = worker[w].job
  /\ row.pc \in PendingStages => worker[w].pc \in PendingStages
  /\ row.pc \in StartedStages => worker[w].pc \in StartedStages

CalmStep ==
  /\ UNCHANGED starts
  /\ \/ UNCHANGED worker
     \/ \E w \in Workers, row \in WorkerRows : Calm(w, row) /\ worker' = [worker EXCEPT ![w] = row]

LEMMA CalmInv ==
  ASSUME WorkersInv, CalmStep, QuietJobs
  PROVE  WorkersInv'
  <1>1. JobsInv' /\ \A k \in JobIds : job'[k].attempt = job[k].attempt
    BY QuietKeepsJobs DEF WorkersInv
  <1>2. CASE UNCHANGED worker
    BY <1>1, <1>2 DEF WorkersInv, CalmStep, WorkersTypeOK, StartsArePaid, HandlersWereStarted
  <1>3. CASE ~UNCHANGED worker
    <2>1. PICK w \in Workers, row \in WorkerRows : Calm(w, row) /\ worker' = [worker EXCEPT ![w] = row]
      BY <1>3 DEF CalmStep
    <2>2. /\ worker' \in [Workers -> WorkerRows] /\ worker'[w] = row
          /\ \A v \in Workers : v # w => worker'[v] = worker[v]
          /\ UNCHANGED starts
      BY <2>1 DEF WorkersInv, WorkersTypeOK, CalmStep
    <2>3. WorkersTypeOK'
      BY <2>1, <2>2 DEF WorkersInv, WorkersTypeOK, Calm
    <2>4. ASSUME NEW j \in JobIds PROVE PendingOf(worker', j) \subseteq PendingOf(worker, j)
      BY <2>1, <2>2 DEF PendingOf, Calm, PendingStages
    <2>5. StartsArePaid'
      <3> SUFFICES ASSUME NEW j \in JobIds
                   PROVE  /\ IsFiniteSet(PendingOf(worker', j))
                          /\ starts'[j] + Cardinality(PendingOf(worker', j)) <= job'[j].attempt
        BY DEF StartsArePaid
      <3>1. /\ IsFiniteSet(PendingOf(worker, j)) /\ starts[j] \in Nat
            /\ starts[j] + Cardinality(PendingOf(worker, j)) <= job[j].attempt
        BY DEF WorkersInv, StartsArePaid, WorkersTypeOK
      <3>2. /\ IsFiniteSet(PendingOf(worker', j))
            /\ Cardinality(PendingOf(worker', j)) <= Cardinality(PendingOf(worker, j))
        BY <2>4, <3>1, FS_Subset
      <3>3. Cardinality(PendingOf(worker', j)) \in Nat /\ Cardinality(PendingOf(worker, j)) \in Nat
        BY <3>1, <3>2, FS_CardinalityType
      <3>4. job[j].attempt \in Nat /\ job'[j].attempt = job[j].attempt
        BY <1>1 DEF WorkersInv, JobsInv, JobRows
      <3> QED
        BY <2>2, <3>1, <3>2, <3>3, <3>4
    <2>6. HandlersWereStarted'
      BY <2>1, <2>2 DEF WorkersInv, HandlersWereStarted, Calm, StartedStages
    <2> QED
      BY <1>1, <2>3, <2>5, <2>6 DEF WorkersInv
  <1> QED
    BY <1>2, <1>3

\* A row with its stage, or its heartbeat, changed.
LEMMA WorkerRowChanges ==
  ASSUME NEW r \in WorkerRows, NEW p \in Stages
  PROVE  /\ [r EXCEPT !.pc = p] \in WorkerRows
         /\ [r EXCEPT !.pc = p].pc = p /\ [r EXCEPT !.pc = p].job = r.job
         /\ [r EXCEPT !.broken = TRUE] \in WorkerRows
         /\ [r EXCEPT !.broken = TRUE].pc = r.pc /\ [r EXCEPT !.broken = TRUE].job = r.job
         /\ [r EXCEPT !.pc = p, !.broken = TRUE] \in WorkerRows
         /\ [r EXCEPT !.pc = p, !.broken = TRUE].pc = p
         /\ [r EXCEPT !.pc = p, !.broken = TRUE].job = r.job
  <1> DEFINE a == [r EXCEPT !.pc = p]
  <1>1. a \in WorkerRows /\ a.pc = p /\ a.job = r.job
    BY DEF WorkerRows
  <1>2. [r EXCEPT !.pc = p, !.broken = TRUE] = [a EXCEPT !.broken = TRUE]
    BY DEF WorkerRows
  <1>3. /\ [r EXCEPT !.broken = TRUE] \in WorkerRows
        /\ [r EXCEPT !.broken = TRUE].pc = r.pc /\ [r EXCEPT !.broken = TRUE].job = r.job
    BY DEF WorkerRows
  <1> HIDE DEF a
  <1>4. /\ [a EXCEPT !.broken = TRUE] \in WorkerRows
        /\ [a EXCEPT !.broken = TRUE].pc = a.pc /\ [a EXCEPT !.broken = TRUE].job = a.job
    BY <1>1 DEF WorkerRows
  <1> QED
    BY <1>1, <1>2, <1>3, <1>4 DEF a

\* A worker that stops, and one that goes on to a stage after the start.
LEMMA CalmRows ==
  ASSUME WorkersInv, NEW w \in Workers
  PROVE  /\ Calm(w, Idle)
         /\ \A p \in StartedStages : worker[w].pc \in StartedStages =>
              Calm(w, [worker[w] EXCEPT !.pc = p]) /\ Calm(w, [worker[w] EXCEPT !.pc = p, !.broken = TRUE])
         /\ worker[w].pc \in StartedStages => Calm(w, [worker[w] EXCEPT !.broken = TRUE])
         /\ worker[w].pc = "claimed" => Calm(w, [worker[w] EXCEPT !.pc = "releasing"])
  <1>1. worker[w] \in WorkerRows
    BY DEF WorkersInv, WorkersTypeOK
  <1>2. Idle \in WorkerRows /\ Idle.pc = "idle"
    BY DEF Idle, WorkerRows, Stages
  <1>3. Calm(w, Idle)
    BY <1>2 DEF Calm, PendingStages, StartedStages
  <1>4. ASSUME NEW p \in StartedStages, worker[w].pc \in StartedStages
        PROVE  Calm(w, [worker[w] EXCEPT !.pc = p]) /\ Calm(w, [worker[w] EXCEPT !.pc = p, !.broken = TRUE])
    <2>1. p \in Stages /\ p \notin PendingStages /\ worker[w].pc # "idle"
      BY <1>4 DEF StartedStages, PendingStages, Stages
    <2> QED
      BY <1>1, <1>4, <2>1, WorkerRowChanges DEF Calm
  <1>5. ASSUME worker[w].pc \in StartedStages PROVE Calm(w, [worker[w] EXCEPT !.broken = TRUE])
    <2>1. worker[w].pc \notin PendingStages /\ worker[w].pc # "idle" /\ "idle" \in Stages
      BY <1>5 DEF StartedStages, PendingStages, Stages
    <2> QED
      BY <1>1, <1>5, <2>1, WorkerRowChanges DEF Calm
  <1>6. ASSUME worker[w].pc = "claimed" PROVE Calm(w, [worker[w] EXCEPT !.pc = "releasing"])
    <2>1. "releasing" \in Stages /\ "releasing" \in PendingStages /\ "releasing" \notin StartedStages
      BY DEF StartedStages, PendingStages, Stages
    <2> QED
      BY <1>1, <1>6, <2>1, WorkerRowChanges DEF Calm, PendingStages
  <1> QED
    BY <1>3, <1>4, <1>5, <1>6

\* The steps of a worker that neither claim, start nor release.
LEMMA RunIsCalm ==
  ASSUME WorkersInv, NEW w \in Workers,
         \/ Saturated(w) \/ AcquireError(w) \/ CallSucceed(w) \/ CallFail(w) \/ Close(w)
         \/ HandlerReturns(w) \/ HandlerRaises(w) \/ HeartbeatLost(w) \/ HeartbeatError(w)
         \/ HeartbeatLate(w) \/ ReservationExpires(w) \/ CapacityLost(w) \/ Interrupt(w)
         \/ Crash(w)
  PROVE  CalmStep
  <1> DEFINE To(row) == worker' = [worker EXCEPT ![w] = row]
  <1>1. ASSUME NEW row, Calm(w, row), To(row), UNCHANGED starts PROVE CalmStep
    BY <1>1 DEF CalmStep, Calm
  <1>2. CASE Saturated(w)
    BY <1>1, <1>2, CalmRows DEF Saturated, GoTo
  <1>3. CASE AcquireError(w) \/ Close(w) \/ Crash(w)
    BY <1>1, <1>3, CalmRows DEF AcquireError, Close, Crash
  <1>4. CASE CallSucceed(w) \/ CallFail(w) \/ HandlerReturns(w) \/ HandlerRaises(w) \/ CapacityLost(w)
    <2>1. /\ worker[w].pc \in StartedStages /\ UNCHANGED starts
          /\ \E p \in StartedStages : To([worker[w] EXCEPT !.pc = p])
      BY <1>4 DEF CallSucceed, CallFail, HandlerReturns, HandlerRaises, CapacityLost, GoTo, StartedStages
    <2> QED
      BY <1>1, <2>1, CalmRows
  <1>5. CASE HeartbeatLost(w) \/ HeartbeatError(w)
    <2>1. /\ worker[w].pc \in StartedStages /\ UNCHANGED starts
          /\ \E p \in StartedStages : To([worker[w] EXCEPT !.pc = p, !.broken = TRUE])
      BY <1>5 DEF HeartbeatLost, HeartbeatError, StartedStages
    <2> QED
      BY <1>1, <2>1, CalmRows
  <1>6. CASE HeartbeatLate(w)
    <2>1. /\ worker[w].pc \in StartedStages /\ UNCHANGED starts
          /\ To([worker[w] EXCEPT !.broken = TRUE])
      BY <1>6 DEF HeartbeatLate, StartedStages
    <2> QED
      BY <1>1, <2>1, CalmRows
  <1>7. CASE ReservationExpires(w)
    BY <1>7 DEF ReservationExpires, CalmStep
  <1>8. CASE Interrupt(w)
    <2>1. UNCHANGED starts
      BY <1>8 DEF Interrupt
    <2>2. CASE worker[w].pc \in {"claimed", "releasing"}
      BY <1>1, <1>8, <2>1, <2>2, CalmRows DEF Interrupt
    <2>3. CASE worker[w].pc \notin {"claimed", "releasing"}
      <3>1. worker[w].pc \in StartedStages /\ "closing" \in StartedStages
            /\ To([worker[w] EXCEPT !.pc = "closing"])
        BY <1>8, <2>3 DEF Interrupt, Unfinished, StartedStages, GoTo
      <3> QED
        BY <1>1, <2>1, <3>1, CalmRows
    <2> QED
      BY <2>2, <2>3
  <1> QED
    BY <1>2, <1>3, <1>4, <1>5, <1>6, <1>7, <1>8

LEMMA ExpireQuiet ==
  ASSUME JobsInv, NEW J, ExpireDeadlines(J)
  PROVE  QuietJobs /\ NoResult
  <1>1. job' = SweptOf(J)
    BY DEF ExpireDeadlines
  <1>2. /\ SweptOf(J) \in [JobIds -> JobRows]
        /\ \A k \in JobIds : /\ k \notin J => SweptOf(J)[k] = job[k]
                             /\ k \in J => Quiet(job[k], SweptOf(J)[k])
                             /\ k \in J => SweptOf(J)[k].status = "failed"
    BY SweepQuiet
  <1>3. QuietJobs
    BY <1>1, <1>2 DEF QuietJobs
  <1>4. NoResult
    BY <1>1, <1>2 DEF NoResult
  <1> QED
    BY <1>3, <1>4

\* What these steps do to jobs; only the call of succeed stores a result.
LEMMA RunIsQuiet ==
  ASSUME WorkersInv, NEW w \in Workers,
         \/ Saturated(w) \/ AcquireError(w) \/ CallSucceed(w) \/ CallFail(w) \/ Close(w)
         \/ HandlerReturns(w) \/ HandlerRaises(w) \/ HeartbeatLost(w) \/ HeartbeatError(w)
         \/ HeartbeatLate(w) \/ ReservationExpires(w) \/ CapacityLost(w) \/ Interrupt(w)
         \/ Crash(w)
  PROVE  QuietJobs /\ (CallSucceed(w) \/ NoResult)
  <1>0. JobsInv
    BY DEF WorkersInv
  <1>1. CASE UNCHANGED job
    BY <1>0, <1>1, UnchangedIsQuiet
  <1>2. CASE HeartbeatLost(w) \/ HeartbeatLate(w)
    <2>1. UNCHANGED job \/ \E J : ExpireDeadlines(J)
      BY <1>2 DEF HeartbeatLost, HeartbeatLate, HeartbeatRefused, store
    <2> QED
      BY <1>0, <1>1, <2>1, ExpireQuiet
  <1>3. CASE CallSucceed(w) \/ CallFail(w)
    <2>1. worker[w].job \in JobIds
      BY <1>3 DEF CallSucceed, CallFail, WorkersInv, WorkersTypeOK
    <2>2. CASE CallSucceed(w)
      <3>1. UNCHANGED job \/ Succeed(worker[w].job, worker[w].token)
        BY <2>2 DEF CallSucceed, CallLost, store
      <3> QED
        BY <1>0, <1>1, <2>1, <2>2, <3>1, OutcomeQuiet
    <2>3. CASE CallFail(w)
      <3>1. UNCHANGED job \/ Fail(worker[w].job, worker[w].token)
        BY <2>3 DEF CallFail, CallLost, store
      <3> QED
        BY <1>0, <1>1, <2>1, <3>1, OutcomeQuiet
    <2> QED
      BY <1>3, <2>2, <2>3
  <1>4. ASSUME Saturated(w) \/ AcquireError(w) \/ Close(w) \/ HandlerReturns(w) \/ HandlerRaises(w)
        PROVE  UNCHANGED job
    BY <1>4 DEF Saturated, AcquireError, Close, HandlerReturns, HandlerRaises, store
  <1>5. ASSUME \/ HeartbeatError(w) \/ ReservationExpires(w) \/ CapacityLost(w) \/ Interrupt(w)
               \/ Crash(w)
        PROVE  UNCHANGED job
    BY <1>5 DEF HeartbeatError, ReservationExpires, CapacityLost, Interrupt, Crash, store
  <1> QED
    BY <1>1, <1>2, <1>3, <1>4, <1>5

\* The clients, the recovery loop and the bookkeeping.
LEMMA OthersAreQuiet ==
  ASSUME WorkersInv,
         \/ Client \/ (\E j \in JobIds : Recover(j)) \/ (\E t \in Tokens : Forget(t)) \/ LeakExpires
  PROVE  QuietJobs /\ NoResult /\ CalmStep
  <1>0. JobsInv
    BY DEF WorkersInv
  <1>1. CASE Client
    <2>1. CalmStep
      BY <1>1 DEF Client, CalmStep
    <2>2. \/ \E j \in JobIds, b \in Budgets, d \in BOOLEAN : Submit(j, b, d)
          \/ \E j \in JobIds : RequestCancel(j)
      BY <1>1 DEF Client
    <2>3. QuietJobs /\ NoResult
      BY <1>0, <2>2, SubmitQuiet, RequestCancelQuiet
    <2> QED
      BY <2>1, <2>3
  <1>2. ASSUME NEW j \in JobIds, Recover(j) PROVE QuietJobs /\ NoResult /\ CalmStep
    <2>1. CalmStep
      BY <1>2 DEF Recover, CalmStep
    <2>2. \E L : RecoverExpiredLeases({j}, L)
      BY <1>2 DEF Recover
    <2>3. QuietJobs /\ NoResult
      BY <1>0, <2>2, RecoverQuiet
    <2> QED
      BY <2>1, <2>3
  <1>3. ASSUME LeakExpires \/ \E t \in Tokens : Forget(t) PROVE QuietJobs /\ NoResult /\ CalmStep
    <2>1. UNCHANGED <<job, worker, starts>>
      BY <1>3 DEF LeakExpires, Forget, store
    <2> QED
      BY <1>0, <2>1, UnchangedIsQuiet DEF CalmStep
  <1> QED
    BY <1>1, <1>2, <1>3

\* A worker whose place is replaced by a row that is given.
LEMMA WorkerMoves ==
  ASSUME WorkersTypeOK, NEW w \in Workers, NEW row \in WorkerRows,
         worker' = [worker EXCEPT ![w] = row]
  PROVE  /\ worker' \in [Workers -> WorkerRows] /\ worker'[w] = row
         /\ \A v \in Workers : v # w => worker'[v] = worker[v]
         /\ \A j : /\ row.pc \in PendingStages /\ row.job = j
                        => PendingOf(worker', j) = PendingOf(worker, j) \cup {w}
                  /\ ~(row.pc \in PendingStages /\ row.job = j)
                        => PendingOf(worker', j) = PendingOf(worker, j) \ {w}
  BY DEF WorkersTypeOK, PendingOf, PendingStages

\* What is known of the accounts of a job.
LEMMA Accounts ==
  ASSUME WorkersInv, NEW j \in JobIds
  PROVE  /\ IsFiniteSet(PendingOf(worker, j)) /\ Cardinality(PendingOf(worker, j)) \in Nat
         /\ starts[j] \in Nat /\ job[j].attempt \in Nat /\ job[j].budget \in Nat
         /\ starts[j] + Cardinality(PendingOf(worker, j)) <= job[j].attempt
         /\ job[j].attempt <= job[j].budget
  <1>1. IsFiniteSet(PendingOf(worker, j))
        /\ starts[j] + Cardinality(PendingOf(worker, j)) <= job[j].attempt
    BY DEF WorkersInv, StartsArePaid
  <1>2. starts[j] \in Nat
    BY DEF WorkersInv, WorkersTypeOK
  <1>3. job[j].attempt \in Nat /\ job[j].budget \in Nat /\ job[j].attempt <= job[j].budget
    BY DEF WorkersInv, JobsInv, JobRows, Budgeted
  <1> QED
    BY <1>1, <1>2, <1>3, FS_CardinalityType

\* One worker leaves, or joins, the pending ones of a job.
LEMMA PendingCounts ==
  ASSUME WorkersInv, NEW j \in JobIds, NEW w \in Workers
  PROVE  LET P == PendingOf(worker, j)
         IN  /\ IsFiniteSet(P \ {w}) /\ IsFiniteSet(P \cup {w})
             /\ Cardinality(P \ {w}) = IF w \in P THEN Cardinality(P) - 1 ELSE Cardinality(P)
             /\ Cardinality(P \cup {w}) = IF w \in P THEN Cardinality(P) ELSE Cardinality(P) + 1
  BY Accounts, FS_AddElement, FS_RemoveElement

LEMMA StartInv ==
  ASSUME WorkersInv, NEW w \in Workers, Start(w)
  PROVE  WorkersInv' /\ NoResult
  <1> DEFINE j == worker[w].job
             row == [worker[w] EXCEPT !.pc = "running"]
  <1>1. /\ worker[w].pc = "claimed" /\ worker' = [worker EXCEPT ![w] = row] /\ UNCHANGED job
        /\ starts' = [starts EXCEPT ![j] = starts[j] + 1]
    BY DEF Start, GoTo, store
  <1>2. j \in JobIds /\ worker[w] \in WorkerRows
    BY <1>1 DEF WorkersInv, WorkersTypeOK
  <1>3. row \in WorkerRows /\ row.pc = "running" /\ row.job = j
    BY <1>2, WorkerRowChanges DEF Stages
  <1>4. w \in PendingOf(worker, j)
    BY <1>1 DEF PendingOf
  <1> HIDE DEF row, j
  <1>5. /\ worker' \in [Workers -> WorkerRows] /\ worker'[w] = row
        /\ \A v \in Workers : v # w => worker'[v] = worker[v]
        /\ \A k : PendingOf(worker', k) = PendingOf(worker, k) \ {w}
    BY <1>1, <1>3, WorkerMoves DEF WorkersInv, PendingStages
  <1>6. JobsInv' /\ NoResult
    BY <1>1 DEF WorkersInv, JobsInv, NoResult
  <1>7. /\ starts' \in [JobIds -> Nat] /\ starts'[j] = starts[j] + 1 /\ starts[j] \in Nat
        /\ \A k \in JobIds : k # j => starts'[k] = starts[k]
    BY <1>1, <1>2 DEF WorkersInv, WorkersTypeOK
  <1>8. WorkersTypeOK'
    BY <1>2, <1>3, <1>5, <1>7 DEF WorkersInv, WorkersTypeOK
  <1>9. StartsArePaid'
    <2> SUFFICES ASSUME NEW k \in JobIds
                 PROVE  /\ IsFiniteSet(PendingOf(worker', k))
                        /\ starts'[k] + Cardinality(PendingOf(worker', k)) <= job'[k].attempt
      BY DEF StartsArePaid
    <2>1. /\ IsFiniteSet(PendingOf(worker', k))
          /\ Cardinality(PendingOf(worker', k)) =
               IF w \in PendingOf(worker, k) THEN Cardinality(PendingOf(worker, k)) - 1
               ELSE Cardinality(PendingOf(worker, k))
      BY <1>5, PendingCounts
    <2> QED
      BY <1>1, <1>4, <1>7, <2>1, Accounts
  <1>10. HandlersWereStarted'
    <2> SUFFICES ASSUME NEW v \in Workers, worker'[v].pc \in StartedStages
                 PROVE  starts'[worker'[v].job] > 0
      BY DEF HandlersWereStarted, StartedStages
    <2>1. CASE v = w
      BY <1>3, <1>5, <1>7, <2>1
    <2>2. CASE v # w
      <3>1. starts[worker[v].job] > 0 /\ worker[v].job \in JobIds /\ worker'[v] = worker[v]
        BY <1>5, <2>2 DEF WorkersInv, HandlersWereStarted, WorkersTypeOK, StartedStages
      <3> QED
        BY <1>7, <3>1
    <2> QED
      BY <2>1, <2>2
  <1> QED
    BY <1>6, <1>8, <1>9, <1>10 DEF WorkersInv

\* A claim pays for the worker that is to start it.
LEMMA ClaimOneInv ==
  ASSUME WorkersInv, NEW w \in Workers, NEW j \in JobIds, NEW t \in Tokens, NEW J,
         ClaimOne(w, j, t, J)
  PROVE  WorkersInv' /\ NoResult
  <1> DEFINE new == [pc |-> "claimed", job |-> j, token |-> t, broken |-> FALSE]
             row == IF j \in Handles[w] THEN new ELSE Idle
  <1>1. /\ worker[w].pc = "idle" /\ worker' = [worker EXCEPT ![w] = row] /\ Claim(j, t, J)
        /\ UNCHANGED starts
    BY DEF ClaimOne
  <1>2. /\ JobsInv' /\ NoResult /\ job'[j].attempt = job[j].attempt + 1
        /\ \A k \in JobIds : k # j => job'[k].attempt = job[k].attempt
    BY <1>1, ClaimUsesAttempt DEF WorkersInv
  <1>3. new \in WorkerRows /\ new.pc = "claimed" /\ new.job = j
    BY DEF WorkerRows, Stages
  <1>4. Idle \in WorkerRows /\ Idle.pc = "idle"
    BY DEF Idle, WorkerRows, Stages
  <1> HIDE DEF new
  <1>5. row \in WorkerRows /\ (row = new \/ row = Idle)
    BY <1>3, <1>4
  <1> HIDE DEF row
  <1>6. /\ worker' \in [Workers -> WorkerRows] /\ worker'[w] = row
        /\ \A v \in Workers : v # w => worker'[v] = worker[v]
    BY <1>1, <1>5, WorkerMoves DEF WorkersInv
  <1>7. \A k \in JobIds : w \notin PendingOf(worker, k)
    BY <1>1 DEF PendingOf
  <1>8. \A k \in JobIds : \/ PendingOf(worker', k) = PendingOf(worker, k)
                          \/ k = j /\ PendingOf(worker', k) = PendingOf(worker, k) \cup {w}
    <2> SUFFICES ASSUME NEW k \in JobIds
                 PROVE  \/ PendingOf(worker', k) = PendingOf(worker, k)
                        \/ k = j /\ PendingOf(worker', k) = PendingOf(worker, k) \cup {w}
      OBVIOUS
    <2>1. \/ PendingOf(worker', k) = PendingOf(worker, k) \ {w}
          \/ row.job = k /\ row.pc \in PendingStages
               /\ PendingOf(worker', k) = PendingOf(worker, k) \cup {w}
      <3>1. /\ row.pc \in PendingStages /\ row.job = k
                 => PendingOf(worker', k) = PendingOf(worker, k) \cup {w}
            /\ ~(row.pc \in PendingStages /\ row.job = k)
                 => PendingOf(worker', k) = PendingOf(worker, k) \ {w}
        <4>1. WorkersTypeOK
          BY DEF WorkersInv
        <4>2. worker' = [worker EXCEPT ![w] = row] /\ row \in WorkerRows
          BY <1>1, <1>5
        <4>3. CASE row.pc \in PendingStages /\ row.job = k
          BY <1>6, <4>3 DEF PendingOf, PendingStages
        <4>4. CASE ~(row.pc \in PendingStages /\ row.job = k)
          BY <4>1, <4>2, <4>4, WorkerMoves
        <4> QED
          BY <4>3, <4>4
      <3> QED
        BY <3>1
    <2> QED
      BY <1>3, <1>4, <1>5, <1>7, <2>1 DEF PendingStages
  <1>9. WorkersTypeOK'
    BY <1>1, <1>3, <1>4, <1>5, <1>6 DEF WorkersInv, WorkersTypeOK
  <1>10. StartsArePaid'
    <2> SUFFICES ASSUME NEW k \in JobIds
                 PROVE  /\ IsFiniteSet(PendingOf(worker', k))
                        /\ starts'[k] + Cardinality(PendingOf(worker', k)) <= job'[k].attempt
      BY DEF StartsArePaid
    <2>1. CASE PendingOf(worker', k) = PendingOf(worker, k)
      BY <1>1, <1>2, <2>1, Accounts
    <2>2. CASE k = j /\ PendingOf(worker', k) = PendingOf(worker, k) \cup {w}
      <3>1. /\ IsFiniteSet(PendingOf(worker', k))
            /\ Cardinality(PendingOf(worker', k)) = Cardinality(PendingOf(worker, k)) + 1
        BY <1>7, <2>2, PendingCounts
      <3> QED
        BY <1>1, <1>2, <2>2, <3>1, Accounts
    <2> QED
      BY <1>8, <2>1, <2>2
  <1>11. HandlersWereStarted'
    BY <1>1, <1>3, <1>4, <1>5, <1>6 DEF WorkersInv, HandlersWereStarted
  <1> QED
    BY <1>2, <1>9, <1>10, <1>11 DEF WorkersInv

\* A claim that is given back takes its worker from the pending ones.
LEMMA ReleaseInv ==
  ASSUME WorkersInv, NEW w \in Workers, Release(w)
  PROVE  WorkersInv' /\ NoResult
  <1> DEFINE j == worker[w].job
  <1>1. /\ worker[w].pc = "releasing" /\ worker' = [worker EXCEPT ![w] = Idle] /\ UNCHANGED starts
        /\ ReleaseUnstartedClaim(j, worker[w].token) \/ UNCHANGED job
    BY DEF Release, CallLost, store
  <1>2. j \in JobIds
    BY <1>1 DEF WorkersInv, WorkersTypeOK
  <1>3. CASE UNCHANGED job
    <2>1. CalmStep
      <3>1. Calm(w, Idle) /\ Idle \in WorkerRows
        BY CalmRows DEF Calm
      <3> QED
        BY <1>1, <3>1 DEF CalmStep
    <2> QED
      BY <1>3, <2>1, UnchangedIsQuiet, CalmInv DEF WorkersInv
  <1>4. CASE ReleaseUnstartedClaim(j, worker[w].token)
    <2>1. w \in PendingOf(worker, j)
      BY <1>1 DEF PendingOf
    <2> HIDE DEF j
    <2>2. /\ IsFiniteSet(PendingOf(worker, j) \ {w})
          /\ Cardinality(PendingOf(worker, j) \ {w}) = Cardinality(PendingOf(worker, j)) - 1
      BY <1>2, <2>1, PendingCounts
    <2>3. Cardinality(PendingOf(worker, j) \ {w}) \in Nat
      BY <2>2, FS_CardinalityType
    <2>4. job[j].attempt > 0
      BY <1>2, <2>2, <2>3, Accounts
    <2>5. /\ JobsInv' /\ NoResult /\ job'[j].attempt = job[j].attempt - 1
          /\ \A k \in JobIds : k # j => job'[k] = job[k]
      BY <1>2, <1>4, <2>4, ReleaseReturnsAttempt DEF WorkersInv
    <2>6. Idle \in WorkerRows /\ Idle.pc = "idle"
      BY DEF Idle, WorkerRows, Stages
    <2>7. /\ worker' \in [Workers -> WorkerRows] /\ worker'[w] = Idle
          /\ \A v \in Workers : v # w => worker'[v] = worker[v]
          /\ \A k : PendingOf(worker', k) = PendingOf(worker, k) \ {w}
      BY <1>1, <2>6, WorkerMoves DEF WorkersInv, PendingStages
    <2>8. WorkersTypeOK'
      BY <1>1, <2>6, <2>7 DEF WorkersInv, WorkersTypeOK
    <2>9. StartsArePaid'
      <3> SUFFICES ASSUME NEW k \in JobIds
                   PROVE  /\ IsFiniteSet(PendingOf(worker', k))
                          /\ starts'[k] + Cardinality(PendingOf(worker', k)) <= job'[k].attempt
        BY DEF StartsArePaid
      <3>1. /\ IsFiniteSet(PendingOf(worker', k))
            /\ Cardinality(PendingOf(worker', k)) =
                 IF w \in PendingOf(worker, k) THEN Cardinality(PendingOf(worker, k)) - 1
                 ELSE Cardinality(PendingOf(worker, k))
        BY <2>7, PendingCounts
      <3> QED
        BY <1>1, <2>1, <2>5, <3>1, Accounts
    <2>10. HandlersWereStarted'
      BY <1>1, <2>6, <2>7 DEF WorkersInv, HandlersWereStarted
    <2> QED
      BY <2>5, <2>8, <2>9, <2>10 DEF WorkersInv
  <1> QED
    BY <1>1, <1>3, <1>4

-----------------------------------------------------------------------------
(* Theorems                                                                *)

\* Every step keeps the invariant, and only a call of succeed stores a result.
LEMMA PoolStep ==
  ASSUME WorkersInv, [PoolNext]_poolVars
  PROVE  WorkersInv' /\ (NoResult \/ \E w \in Workers : CallSucceed(w))
  <1>1. CASE UNCHANGED poolVars
    <2>1. UNCHANGED <<job, worker, starts>>
      BY <1>1 DEF poolVars
    <2> QED
      BY <2>1, UnchangedIsQuiet, CalmInv DEF WorkersInv, CalmStep
  <1>2. CASE \/ Client \/ (\E j \in JobIds : Recover(j)) \/ (\E t \in Tokens : Forget(t)) \/ LeakExpires
    BY <1>2, OthersAreQuiet, CalmInv
  <1>3. ASSUME NEW w \in Workers, NEW j \in JobIds, NEW t \in Tokens, NEW J, ClaimOne(w, j, t, J)
        PROVE  WorkersInv' /\ NoResult
    BY <1>3, ClaimOneInv
  <1>4. ASSUME NEW w \in Workers, Start(w) \/ Release(w) PROVE WorkersInv' /\ NoResult
    BY <1>4, StartInv, ReleaseInv
  <1>5. ASSUME NEW w \in Workers,
               \/ Saturated(w) \/ AcquireError(w) \/ CallSucceed(w) \/ CallFail(w) \/ Close(w)
               \/ HandlerReturns(w) \/ HandlerRaises(w) \/ HeartbeatLost(w) \/ HeartbeatError(w)
               \/ HeartbeatLate(w) \/ ReservationExpires(w) \/ CapacityLost(w) \/ Interrupt(w)
               \/ Crash(w)
        PROVE  WorkersInv' /\ (NoResult \/ CallSucceed(w))
    BY <1>5, RunIsCalm, RunIsQuiet, CalmInv
  <1> QED
    BY <1>1, <1>2, <1>3, <1>4, <1>5 DEF PoolNext, RunOnce

\* The invariant holds in every reachable state.
LEMMA WorkersInvHolds == PoolSpec => []WorkersInv
  <1>1. PoolInit => WorkersInv
    <2> SUFFICES ASSUME PoolInit PROVE WorkersInv
      OBVIOUS
    <2>1. Absent \in JobRows /\ Absent.attempt = 0 /\ Absent.budget = 1 /\ Absent.status = "absent"
      BY DEF Absent, JobRows, Statuses
    <2>2. JobsInv
      BY <2>1 DEF PoolInit, Init, JobsInv, Budgeted, Waiting
    <2>3. Idle \in WorkerRows /\ Idle.pc = "idle"
      BY DEF Idle, WorkerRows, Stages
    <2>4. WorkersTypeOK /\ HandlersWereStarted
      BY <2>3 DEF PoolInit, WorkersTypeOK, HandlersWereStarted
    <2>5. \A j \in JobIds : PendingOf(worker, j) = {} /\ starts[j] = 0 /\ job[j].attempt = 0
      BY <2>1, <2>3 DEF PoolInit, Init, PendingOf
    <2>6. StartsArePaid
      BY <2>5, FS_EmptySet DEF StartsArePaid
    <2> QED
      BY <2>2, <2>4, <2>6 DEF WorkersInv
  <1>2. WorkersInv /\ [PoolNext]_poolVars => WorkersInv'
    BY PoolStep
  <1> QED
    BY <1>1, <1>2, PTL DEF PoolSpec

\* For any number of workers and jobs, and however claims are refused, lost or
\* abandoned: the handler of a job is started at most as often as its budget.
THEOREM StartsArePaidFor == PoolSpec => []StartsWithinBudget
  <1>1. WorkersInv => StartsWithinBudget
    BY Accounts DEF StartsWithinBudget
  <1> QED
    BY <1>1, WorkersInvHolds, PTL

\* For any number of workers and jobs: a result is stored only by the worker
\* that holds the claim of the job, after the handler was started.
THEOREM ResultsHaveOwners == PoolSpec => ResultHasOwner
  <1> DEFINE Owned(j) == /\ starts[j] > 0
                         /\ \E w \in Workers : /\ worker[w].job = j
                                               /\ worker[w].token = job[j].token
                                               /\ worker[w].pc = "succeeding"
  <1>1. ASSUME WorkersInv, [PoolNext]_poolVars, NEW j \in JobIds,
               job[j].status # "succeeded", job'[j].status = "succeeded"
        PROVE  Owned(j)
    <2>1. PICK w \in Workers : CallSucceed(w)
      BY <1>1, PoolStep DEF NoResult
    <2>2. worker[w].pc = "succeeding" /\ worker[w].job \in JobIds /\ starts[worker[w].job] > 0
      BY <1>1, <2>1 DEF CallSucceed, WorkersInv, WorkersTypeOK, HandlersWereStarted
    <2>3. Succeed(worker[w].job, worker[w].token)
      BY <1>1, <2>1 DEF CallSucceed, CallLost, store
    <2>4. /\ HoldsClaim(worker[w].job, worker[w].token)
          /\ \A k \in JobIds : k # worker[w].job => job'[k] = job[k]
      BY <1>1, <2>2, <2>3, OutcomeQuiet DEF WorkersInv
    <2>5. worker[w].job = j
      BY <1>1, <2>4
    <2> QED
      BY <2>2, <2>4, <2>5 DEF HoldsClaim
  <1>2. WorkersInv /\ [PoolNext]_poolVars
          => [\A j \in JobIds : job[j].status # "succeeded" /\ job'[j].status = "succeeded"
                                => Owned(j)]_poolVars
    BY <1>1
  <1> QED
    BY <1>2, WorkersInvHolds, PTL DEF PoolSpec, ResultHasOwner
=============================================================================
