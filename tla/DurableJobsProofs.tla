------------------------- MODULE DurableJobsProofs -------------------------
(***************************************************************************)
(* Proofs about the reference job store.  The inductive invariant IInv has *)
(* three layers: what holds of each record by itself (RecordOK), the link  *)
(* between leases and the history of claims (LeaseInv), and the link       *)
(* between jobs and idempotency keys (OneJobPerKey).  The last part shows  *)
(* that the store implements the abstract life cycle.                      *)
(***************************************************************************)
EXTENDS DurableJobs, JobRecordProofs

USE DEF Waiting, Terminal, Live

LeaseInv ==
  /\ OpenClaimsAreLeases
  /\ \A t \in Tokens : t > claims => fate[t] = "unused"

IInv ==
  /\ TypeOK
  /\ \A j \in JobIds : RecordOK(job[j])
  /\ LeaseInv
  /\ OneJobPerKey

-----------------------------------------------------------------------------
(* A step that changes existing jobs and claims nothing                    *)

\* What such a step may make of one job.
JobStep(r, s) ==
  \/ s = r
  \/ /\ r.status \in Live
     /\ RecordOK(s) /\ SameJob(r, s)
     /\ SameLease(r, s) \/ NoLease(s)
     /\ r.cancel => s.cancel

\* The claims that leave the jobs are ended, the others stay as they are.
FateStep ==
  /\ fate' \in [Tokens -> {"unused", "open", "closed", "lost"}]
  /\ \A t \in Tokens :
       IF \E i \in JobIds : job[i].token = t /\ job'[i].token # t
         THEN fate'[t] \in {"closed", "lost"}
         ELSE fate'[t] = fate[t]

StoreStep ==
  /\ job' = [i \in JobIds |-> job'[i]]
  /\ \A i \in JobIds : JobStep(job[i], job'[i])
  /\ FateStep
  /\ UNCHANGED <<idem, now, claims>>

\* The history kept by a sweep or a recovery is such a change of fate.
LEMMA FateAfterStep ==
  ASSUME TypeOK, fate' = FateAfter(job') PROVE FateStep
  <1>1. fate' \in [Tokens -> {"unused", "open", "closed", "lost"}]
    BY DEF TypeOK, FateAfter
  <1>2. ASSUME NEW t \in Tokens
        PROVE  IF \E i \in JobIds : job[i].token = t /\ job'[i].token # t
                 THEN fate'[t] \in {"closed", "lost"}
                 ELSE fate'[t] = fate[t]
    BY DEF FateAfter, Taken
  <1> QED
    BY <1>1, <1>2 DEF FateStep

\* A step that changes existing jobs and lets claims end accordingly keeps
\* the open claims and the leases of the running jobs the same.
LEMMA LeaseInvStep ==
  ASSUME IInv, StoreStep PROVE LeaseInv'
  <1>1. ASSUME NEW i \in JobIds
        PROVE  \/ job'[i].token = job[i].token /\ SameLease(job[i], job'[i])
               \/ NoLease(job'[i])
    BY <1>1 DEF StoreStep, JobStep, SameLease
  <1>2. ASSUME NEW i \in JobIds
        PROVE  IF job'[i].status = "running"
                 THEN /\ job'[i].worker \in Workers
                      /\ job'[i].token \in 1..claims'
                      /\ fate'[job'[i].token] = "open"
                      /\ job[i].status = "running"
                      /\ job'[i].token = job[i].token
                 ELSE job'[i].worker = NoWorker /\ job'[i].token = 0
    <2>1. CASE NoLease(job'[i])
      BY <2>1 DEF NoLease
    <2>2. CASE /\ job'[i].token = job[i].token /\ SameLease(job[i], job'[i])
               /\ job[i].status # "running"
      BY <2>2 DEF SameLease, IInv, LeaseInv, OpenClaimsAreLeases
    <2>3. CASE /\ job'[i].token = job[i].token /\ SameLease(job[i], job'[i])
               /\ job[i].status = "running"
      <3> DEFINE t == job[i].token
      <3>1. /\ t \in 1..claims /\ fate[t] = "open" /\ job[i].worker \in Workers
            /\ t \in Tokens
        BY <2>3, ConstantAssumption
           DEF IInv, LeaseInv, OpenClaimsAreLeases, TypeOK, Tokens
      <3>2. ~ \E k \in JobIds : job[k].token = t /\ job'[k].token # t
        BY <2>3 DEF IInv, LeaseInv, OpenClaimsAreLeases
      <3>3. fate'[t] = fate[t]
        BY <3>1, <3>2 DEF StoreStep, FateStep
      <3> QED
        BY <2>3, <3>1, <3>3 DEF SameLease, StoreStep
    <2> QED
      BY <1>1, <2>1, <2>2, <2>3
  <1>3. ASSUME NEW t \in Tokens, fate'[t] = "open"
        PROVE  \E i \in JobIds : job'[i].token = t
    BY <1>3 DEF IInv, LeaseInv, OpenClaimsAreLeases, StoreStep, FateStep
  <1>4. ASSUME NEW i \in JobIds, NEW k \in JobIds,
               job'[i].status = "running", job'[i].token = job'[k].token
        PROVE  i = k
    <2>1. job'[i].token \in 1..claims' /\ claims' \in Nat
      BY <1>2, <1>4, ConstantAssumption DEF StoreStep, IInv, TypeOK
    <2>2. job'[k].status = "running"
      BY <1>2, <1>4, <2>1
    <2> QED
      BY <1>2, <1>4, <2>2 DEF IInv, LeaseInv, OpenClaimsAreLeases
  <1>5. ASSUME NEW t \in Tokens, t > claims'
        PROVE  fate'[t] = "unused"
    <2>1. ~ \E i \in JobIds : job[i].token = t /\ job'[i].token # t
      <3>1. \A i \in JobIds : job[i].token # t
        BY <1>5, ConstantAssumption
           DEF IInv, LeaseInv, OpenClaimsAreLeases, TypeOK, StoreStep, Tokens
      <3> QED
        BY <3>1
    <2> QED
      BY <1>5, <2>1 DEF StoreStep, FateStep, IInv, LeaseInv
  <1> QED
    BY <1>2, <1>3, <1>4, <1>5 DEF LeaseInv, OpenClaimsAreLeases

\* Every such step keeps the invariant.
LEMMA StoreStepKeepsIInv ==
  ASSUME IInv, StoreStep PROVE IInv'
  <1>1. ASSUME NEW i \in JobIds PROVE RecordOK(job'[i])
    BY <1>1 DEF IInv, StoreStep, JobStep
  <1>2. (\A i \in JobIds : RecordOK(job[i]))'
    BY <1>1 DEF RecordOK, AttemptsOK, RetryOK
  <1>3. TypeOK'
    BY <1>1 DEF IInv, TypeOK, StoreStep, FateStep, RecordOK
  <1>4. LeaseInv'
    BY LeaseInvStep
  <1>5. OneJobPerKey'
    <2>1. ASSUME NEW i \in JobIds
          PROVE  /\ job'[i].spec = job[i].spec
                 /\ job'[i].status = "absent" <=> job[i].status = "absent"
      BY <2>1 DEF StoreStep, JobStep, SameJob
    <2>2. idem' = idem /\ idem \in [Keys -> JobIds \cup {NoJob}]
      BY DEF StoreStep, IInv, TypeOK
    <2> QED
      BY <2>1, <2>2 DEF IInv, OneJobPerKey
  <1> QED
    BY <1>2, <1>3, <1>4, <1>5 DEF IInv

-----------------------------------------------------------------------------
(* The actions                                                             *)

\* The sweep of claim is a change of existing jobs.
LEMMA SweptStep ==
  ASSUME IInv, NEW i \in JobIds
  PROVE  JobStep(job[i], Swept[i]) /\ RecordOK(Swept[i])
  <1>1. RecordOK(job[i]) /\ now \in Nat
    BY DEF IInv, TypeOK
  <1>2. Swept[i] = ExpireDeadline(job[i], now)
    BY DEF Swept
  <1> QED
    BY <1>1, <1>2, ExpireDeadlineOK DEF JobStep

\* A claim that finds no candidate is the sweep alone.
LEMMA ClaimNothingStep ==
  ASSUME IInv, NEW d \in DomainFilters, ClaimNothing(d) PROVE StoreStep
  <1>1. job' = [i \in JobIds |-> job'[i]]
    BY DEF ClaimNothing, Swept
  <1>2. ASSUME NEW i \in JobIds PROVE JobStep(job[i], job'[i])
    BY SweptStep DEF ClaimNothing
  <1>3. FateStep
    BY FateAfterStep DEF ClaimNothing, IInv
  <1> QED
    BY <1>1, <1>2, <1>3 DEF StoreStep, ClaimNothing

\* A step that replaces the record of one job.
LEMMA OneJobStep ==
  ASSUME IInv, NEW j \in JobIds, NEW new,
         job' = [job EXCEPT ![j] = new],
         JobStep(job[j], new), FateStep, UNCHANGED <<idem, now, claims>>
  PROVE  StoreStep
  BY DEF IInv, TypeOK, StoreStep, JobStep

\* A heartbeat changes the one job whose lease it renews or fails.
LEMMA HeartbeatStep ==
  ASSUME IInv, NEW j \in JobIds, NEW w \in Workers, NEW t \in Tokens,
         Heartbeat(j, w, t)
  PROVE  StoreStep
  <1> DEFINE new == Heartbeaten(job[j], now)
  <1>1. RecordOK(job[j]) /\ job[j].status = "running" /\ now \in Nat
    BY DEF IInv, TypeOK, Heartbeat, HasLease
  <1>2. JobStep(job[j], new)
    BY <1>1, HeartbeatenOK DEF JobStep
  <1>3. FateStep
    BY FateAfterStep DEF Heartbeat, IInv
  <1> QED
    BY <1>2, <1>3, OneJobStep DEF Heartbeat

\* Ending a claim with a well-formed record that holds no lease.
LEMMA EndClaimStep ==
  ASSUME IInv, NEW j \in JobIds, NEW w \in Workers, NEW t \in Tokens,
         NEW new, EndClaim(j, w, t, new), JobStep(job[j], new), NoLease(new)
  PROVE  StoreStep
  <1>1. /\ job[j].token = t /\ job[j].status = "running"
        /\ fate' = [fate EXCEPT ![t] = "closed"]
        /\ job' = [job EXCEPT ![j] = new] /\ job'[j] = new
    BY DEF EndClaim, HasLease, IInv, TypeOK
  <1>2. t # 0
    BY DEF Tokens
  <1>3. fate' \in [Tokens -> {"unused", "open", "closed", "lost"}]
    BY <1>1 DEF IInv, TypeOK
  <1>4. ASSUME NEW u \in Tokens
        PROVE  IF \E i \in JobIds : job[i].token = u /\ job'[i].token # u
                 THEN fate'[u] \in {"closed", "lost"}
                 ELSE fate'[u] = fate[u]
    <2>1. CASE u = t
      BY <1>1, <1>2, <2>1 DEF NoLease, IInv, TypeOK
    <2>2. CASE u # t
      BY <1>1, <2>2 DEF IInv, TypeOK
    <2> QED
      BY <2>1, <2>2
  <1>5. FateStep
    BY <1>3, <1>4 DEF FateStep
  <1> QED
    BY <1>1, <1>5, OneJobStep DEF EndClaim

\* Every method that ends a claim leaves a well-formed record without lease.
LEMMA HolderStep ==
  ASSUME IInv, NEW j \in JobIds, NEW w \in Workers, NEW t \in Tokens,
         \/ \E d \in Delays : ReleaseUnstartedClaim(j, w, t, d)
         \/ Succeed(j, w, t)
         \/ Fail(j, w, t)
         \/ CancelClaimed(j, w, t)
  PROVE  StoreStep
  <1>1. RecordOK(job[j]) /\ now \in Nat
    BY DEF IInv, TypeOK
  <1>2. job[j].status = "running"
    BY DEF ReleaseUnstartedClaim, Succeed, Fail, CancelClaimed, EndClaim,
           HasLease
  <1>3. CASE \E d \in Delays : ReleaseUnstartedClaim(j, w, t, d)
    <2>1. PICK d \in Delays : EndClaim(j, w, t, Released(job[j], d, now))
      BY <1>3 DEF ReleaseUnstartedClaim
    <2>2. JobStep(job[j], Released(job[j], d, now)) /\ NoLease(Released(job[j], d, now))
      BY <1>1, <1>2, ReleasedOK DEF JobStep
    <2> QED
      BY <2>1, <2>2, EndClaimStep
  <1>4. CASE Succeed(j, w, t)
    <2>1. JobStep(job[j], Succeeded(job[j], now)) /\ NoLease(Succeeded(job[j], now))
      BY <1>1, <1>2, SucceededOK DEF JobStep
    <2> QED
      BY <1>4, <2>1, EndClaimStep DEF Succeed
  <1>5. CASE Fail(j, w, t)
    <2>1. JobStep(job[j], Failed(job[j], now)) /\ NoLease(Failed(job[j], now))
      BY <1>1, <1>2, FailedOK DEF JobStep
    <2> QED
      BY <1>5, <2>1, EndClaimStep DEF Fail
  <1>6. CASE CancelClaimed(j, w, t)
    <2>1. JobStep(job[j], ClaimCancelled(job[j]))
          /\ NoLease(ClaimCancelled(job[j]))
      BY <1>1, <1>2, ClaimCancelledOK DEF JobStep
    <2> QED
      BY <1>6, <2>1, EndClaimStep DEF CancelClaimed
  <1> QED
    BY <1>3, <1>4, <1>5, <1>6

\* A cancellation request changes one job and ends no claim.
LEMMA RequestCancelStep ==
  ASSUME IInv, NEW j \in JobIds, RequestCancel(j) PROVE StoreStep
  <1>1. /\ RecordOK(job[j]) /\ job[j].status \in Live
        /\ job[j].status # "running" => NoLease(job[j])
    BY DEF IInv, LeaseInv, OpenClaimsAreLeases, RequestCancel, NoLease
  <1>2. JobStep(job[j], CancelRequested(job[j]))
        /\ SameLease(job[j], CancelRequested(job[j]))
    BY <1>1, CancelRequestedOK DEF JobStep
  <1>3. FateStep
    BY <1>2 DEF RequestCancel, FateStep, IInv, TypeOK, SameLease
  <1> QED
    BY <1>2, <1>3, OneJobStep DEF RequestCancel

\* Recovery changes the jobs with an expired lease and loses their claims.
LEMMA RecoverStep ==
  ASSUME IInv, RecoverExpiredLeases PROVE StoreStep
  <1>1. job' = [i \in JobIds |-> job'[i]]
    BY DEF RecoverExpiredLeases
  <1>2. ASSUME NEW i \in JobIds PROVE JobStep(job[i], job'[i])
    <2>1. RecordOK(job[i]) /\ now \in Nat
      BY DEF IInv, TypeOK
    <2>2. CASE LeaseExpired(job[i], now)
      <3>1. job'[i] = Recovered(job[i], now) /\ job[i].status = "running"
        BY <2>2 DEF RecoverExpiredLeases, LeaseExpired
      <3> QED
        BY <2>1, <3>1, RecoveredOK DEF JobStep
    <2>3. CASE ~LeaseExpired(job[i], now)
      BY <2>3 DEF RecoverExpiredLeases, JobStep
    <2> QED
      BY <2>2, <2>3
  <1>3. FateStep
    BY FateAfterStep DEF RecoverExpiredLeases, IInv
  <1> QED
    BY <1>1, <1>2, <1>3 DEF StoreStep, RecoverExpiredLeases

\* The empty store satisfies the invariant.
LEMMA InitIInv == Init => IInv
  <1> SUFFICES ASSUME Init PROVE IInv
    OBVIOUS
  <1>1. Absent \in JobType /\ Absent.status = "absent"
    BY DEF Absent, JobType
  <1>2. TypeOK
    BY <1>1, ConstantAssumption DEF Init, TypeOK, Tokens
  <1>3. \A j \in JobIds : RecordOK(job[j])
    BY <1>1 DEF Init, RecordOK, AttemptsOK, RetryOK
  <1>4. LeaseInv
    BY DEF Init, LeaseInv, OpenClaimsAreLeases, Absent
  <1>5. OneJobPerKey
    BY <1>1 DEF Init, OneJobPerKey
  <1> QED
    BY <1>2, <1>3, <1>4, <1>5 DEF IInv

\* A new job under a free idempotency key keeps the invariant.
LEMMA SubmitIInv ==
  ASSUME IInv, NEW s \in Specs, Submit(s) PROVE IInv'
  <1>1. PICK j \in JobIds :
          /\ job[j].status = "absent"
          /\ job' = [job EXCEPT ![j] = NewJob(s, now)]
          /\ idem' = [idem EXCEPT ![s.key] = j]
    BY DEF Submit
  <1> DEFINE new == NewJob(s, now)
  <1>2. s.key \in Keys /\ s.maxAttempts \in Nat /\ s.maxAttempts > 0
    BY ConstantAssumption DEF Keys, SpecType
  <1>3. /\ new \in JobType /\ new.status = "queued" /\ new.spec = s
        /\ new.attempt = 0 /\ new.token = 0 /\ new.worker = NoWorker
    BY DEF IInv, TypeOK, NewJob, Absent, JobType
  <1> HIDE DEF new
  <1>4. RecordOK(new)
    BY <1>2, <1>3 DEF RecordOK, AttemptsOK, RetryOK
  <1>5. job' = [job EXCEPT ![j] = new]
    BY <1>1 DEF new
  <1>6. \A i \in JobIds : job'[i] = IF i = j THEN new ELSE job[i]
    BY <1>5 DEF IInv, TypeOK
  <1>7. TypeOK'
    BY <1>1, <1>2, <1>3, <1>5 DEF IInv, TypeOK, Submit
  <1>8. (\A i \in JobIds : RecordOK(job[i]))'
    <2>1. ASSUME NEW i \in JobIds PROVE RecordOK(job'[i])
      BY <1>4, <1>6 DEF IInv
    <2> QED
      BY <2>1 DEF RecordOK, AttemptsOK, RetryOK
  <1>9. job[j].token = 0 /\ job[j].worker = NoWorker
    BY <1>1 DEF IInv, LeaseInv, OpenClaimsAreLeases
  <1>10. LeaseInv'
    <2>1. /\ claims' = claims /\ fate' = fate
          /\ \A i \in JobIds :
               /\ job'[i].token = job[i].token /\ job'[i].worker = job[i].worker
               /\ job'[i].status = "running" <=> job[i].status = "running"
      BY <1>1, <1>3, <1>6, <1>9 DEF Submit
    <2> QED
      BY <2>1 DEF IInv, LeaseInv, OpenClaimsAreLeases
  <1>11. OneJobPerKey'
    <2>1. idem[s.key] = NoJob /\ idem \in [Keys -> JobIds \cup {NoJob}]
          /\ NoJob \notin JobIds
      BY ConstantAssumption DEF Submit, IInv, TypeOK
    <2>2. \A k \in Keys : idem'[k] = IF k = s.key THEN j ELSE idem[k]
      BY <1>1, <2>1
    <2>3. ASSUME NEW i \in JobIds, job'[i].status # "absent"
          PROVE  idem'[job'[i].spec.key] = i
      <3>1. CASE i = j
        BY <1>2, <1>3, <1>6, <2>2, <3>1
      <3>2. CASE i # j
        <4>1. job'[i] = job[i] /\ job[i].status # "absent"
          BY <1>6, <2>3, <3>2
        <4>2. idem[job[i].spec.key] = i /\ job[i].spec.key \in Keys
          BY <4>1, ConstantAssumption DEF IInv, OneJobPerKey, RecordOK, Keys
        <4> QED
          BY <2>1, <2>2, <4>1, <4>2
      <3> QED
        BY <3>1, <3>2
    <2>4. ASSUME NEW k \in Keys, idem'[k] # NoJob
          PROVE  /\ job'[idem'[k]].status # "absent"
                 /\ job'[idem'[k]].spec.key = k
      <3>1. CASE k = s.key
        BY <1>3, <1>6, <2>2, <3>1
      <3>2. CASE k # s.key
        <4>1. /\ idem'[k] = idem[k] /\ idem[k] \in JobIds
              /\ job[idem[k]].status # "absent" /\ job[idem[k]].spec.key = k
          BY <2>1, <2>2, <2>4, <3>2 DEF IInv, OneJobPerKey
        <4> QED
          BY <1>1, <1>6, <4>1
      <3> QED
        BY <3>1, <3>2
    <2> QED
      BY <2>3, <2>4 DEF OneJobPerKey
  <1> QED
    BY <1>7, <1>8, <1>10, <1>11 DEF IInv

\* What a successful claim does: the sweep, and one waiting job claimed.
LEMMA ClaimJobFacts ==
  ASSUME IInv, NEW w \in Workers, NEW d \in DomainFilters, ClaimJob(w, d)
  PROVE  \E j \in JobIds :
           /\ job[j].status \in Waiting /\ ~job[j].cancel
           /\ claims + 1 \in Tokens
           /\ Swept[j] = job[j]
           /\ job' = [Swept EXCEPT ![j] = Claimed(job[j], w, claims + 1, now)]
           /\ \A i \in JobIds :
                job'[i] = IF i = j THEN Claimed(job[j], w, claims + 1, now)
                                   ELSE Swept[i]
  <1>1. PICK j \in Candidates(Swept, d) :
          job' = [Swept EXCEPT ![j] = Claimed(@, w, claims + 1, now)]
    BY DEF ClaimJob
  <1>2. j \in JobIds /\ Swept[j].status \in Waiting /\ ~Swept[j].cancel
    BY <1>1 DEF Candidates
  <1>3. /\ RecordOK(job[j]) /\ now \in Nat
        /\ Swept[j] = ExpireDeadline(job[j], now)
    BY <1>2 DEF IInv, TypeOK, Swept
  <1>4. Swept[j] = job[j]
    BY <1>2, <1>3, ExpireDeadlineOK
  <1>5. claims + 1 \in Tokens
    BY ConstantAssumption DEF ClaimJob, IInv, TypeOK, Tokens
  <1>6. job' = [Swept EXCEPT ![j] = Claimed(job[j], w, claims + 1, now)]
    BY <1>1, <1>2, <1>4 DEF Swept
  <1>7. \A i \in JobIds :
          job'[i] = IF i = j THEN Claimed(job[j], w, claims + 1, now) ELSE Swept[i]
    BY <1>2, <1>6 DEF Swept
  <1> QED
    BY <1>2, <1>4, <1>5, <1>6, <1>7

\* A successful claim keeps the invariant: its token is new, so that no other
\* job carries it and no ended claim is revived.
LEMMA ClaimJobIInv ==
  ASSUME IInv, NEW w \in Workers, NEW d \in DomainFilters, ClaimJob(w, d)
  PROVE  IInv'
  <1> DEFINE c == claims + 1
  <1>1. PICK j \in JobIds :
          /\ job[j].status \in Waiting /\ ~job[j].cancel
          /\ c \in Tokens
          /\ Swept[j] = job[j]
          /\ job' = [Swept EXCEPT ![j] = Claimed(job[j], w, c, now)]
          /\ \A i \in JobIds :
               job'[i] = IF i = j THEN Claimed(job[j], w, c, now) ELSE Swept[i]
    BY ClaimJobFacts
  <1> DEFINE new == Claimed(job[j], w, c, now)
  <1>2. /\ RecordOK(new) /\ SameJob(job[j], new) /\ new.status = "running"
        /\ new.token = c /\ new.worker = w
    BY <1>1, ClaimedOK DEF IInv, TypeOK
  <1>3. /\ claims' = c /\ claims \in Nat /\ c \in Nat /\ c > claims
        /\ c \in 0..MaxClaims /\ c # 0
    BY <1>1, ConstantAssumption DEF ClaimJob, IInv, TypeOK, Tokens
  <1>4. /\ idem' = idem /\ now' = now
        /\ fate' = [FateAfter(Swept) EXCEPT ![c] = "open"]
    BY DEF ClaimJob
  <1> HIDE DEF new, c
  <1>5. \A i \in JobIds : job'[i] = IF i = j THEN new ELSE Swept[i]
    BY <1>1 DEF new
  <1>6. \A i \in JobIds : JobStep(job[i], Swept[i]) /\ RecordOK(Swept[i])
    BY SweptStep
  <1>7. \A t \in Tokens : fate'[t] = IF t = c THEN "open"
                              ELSE IF t \in Taken(Swept) THEN "lost"
                              ELSE fate[t]
    BY <1>1, <1>4 DEF FateAfter
  <1>8. (\A i \in JobIds : RecordOK(job[i]))'
    <2>1. ASSUME NEW i \in JobIds PROVE RecordOK(job'[i])
      BY <1>2, <1>5, <1>6
    <2> QED
      BY <2>1 DEF RecordOK, AttemptsOK, RetryOK
  <1>9. TypeOK'
    <2>1. job' \in [JobIds -> JobType]
      BY <1>1, <1>2, <1>6 DEF Swept, RecordOK, new
    <2>2. fate' \in [Tokens -> {"unused", "open", "closed", "lost"}]
      BY <1>4 DEF IInv, TypeOK, FateAfter
    <2> QED
      BY <1>3, <1>4, <2>1, <2>2 DEF IInv, TypeOK
  <1>10. OneJobPerKey'
    <2>1. ASSUME NEW i \in JobIds
          PROVE  /\ job'[i].spec = job[i].spec
                 /\ job'[i].status = "absent" <=> job[i].status = "absent"
      BY <1>2, <1>5, <1>6 DEF JobStep, SameJob
    <2>2. idem' = idem /\ idem \in [Keys -> JobIds \cup {NoJob}]
      BY <1>4 DEF IInv, TypeOK
    <2> QED
      BY <2>1, <2>2 DEF IInv, OneJobPerKey
  <1>11. ASSUME NEW i \in JobIds, i # j
         PROVE  IF job'[i].status = "running"
                  THEN /\ job'[i] = job[i]
                       /\ job[i].status = "running"
                       /\ job[i].worker \in Workers
                       /\ job[i].token \in 1..claims
                       /\ job[i].token # c
                       /\ job[i].token \in Tokens
                       /\ fate'[job[i].token] = "open"
                  ELSE job'[i].worker = NoWorker /\ job'[i].token = 0
    <2>1. /\ job'[i] = Swept[i] /\ RecordOK(job[i]) /\ now \in Nat
          /\ Swept[i] = ExpireDeadline(job[i], now)
      BY <1>5, <1>11 DEF IInv, TypeOK, Swept
    <2>2. CASE Swept[i] # job[i]
      BY <2>1, <2>2, ExpireDeadlineOK DEF NoLease
    <2>3. CASE Swept[i] = job[i] /\ job[i].status # "running"
      BY <2>1, <2>3 DEF IInv, LeaseInv, OpenClaimsAreLeases
    <2>4. CASE Swept[i] = job[i] /\ job[i].status = "running"
      <3>1. /\ job[i].worker \in Workers /\ job[i].token \in 1..claims
            /\ fate[job[i].token] = "open"
        BY <2>4 DEF IInv, LeaseInv, OpenClaimsAreLeases
      <3>2. job[i].token # c /\ job[i].token \in Tokens
        BY <1>3, <3>1, ConstantAssumption DEF IInv, TypeOK, Tokens
      <3>3. job[i].token \notin Taken(Swept)
        BY <2>4 DEF Taken, IInv, LeaseInv, OpenClaimsAreLeases
      <3> QED
        BY <1>7, <2>1, <2>4, <3>1, <3>2, <3>3
    <2> QED
      BY <2>2, <2>3, <2>4
  <1>12. fate'[c] = "open" /\ job'[j] = new
    BY <1>1, <1>5, <1>7
  <1>13. ASSUME NEW t \in Tokens, fate'[t] = "open"
         PROVE  \E i \in JobIds : job'[i].token = t
    <2>1. CASE t = c
      BY <1>2, <1>12, <2>1
    <2>2. CASE t # c
      <3>1. fate[t] = "open" /\ t \notin Taken(Swept)
        BY <1>7, <1>13, <2>2
      <3>2. PICK i \in JobIds : job[i].token = t
        BY <3>1 DEF IInv, LeaseInv, OpenClaimsAreLeases
      <3>3. Swept[i].token = t
        BY <3>1, <3>2 DEF Taken
      <3>4. i # j
        BY <1>1, <3>2 DEF IInv, LeaseInv, OpenClaimsAreLeases, Tokens
      <3> QED
        BY <1>5, <3>3, <3>4
    <2> QED
      BY <2>1, <2>2
  <1>14. ASSUME NEW i \in JobIds, NEW k \in JobIds,
                job'[i].status = "running", job'[i].token = job'[k].token
         PROVE  i = k
    <2>1. CASE i = j /\ k # j
      BY <1>2, <1>3, <1>11, <1>12, <1>14, <2>1
    <2>2. CASE i # j /\ k = j
      BY <1>2, <1>11, <1>12, <1>14, <2>2
    <2>3. CASE i # j /\ k # j
      <3>1. job'[i] = job[i] /\ job[i].status = "running"
            /\ job[i].token \in 1..claims
        BY <1>11, <1>14, <2>3
      <3>2. job'[k].token # 0
        BY <1>14, <3>1
      <3>3. job'[k] = job[k]
        BY <1>11, <2>3, <3>2
      <3> QED
        BY <1>14, <3>1, <3>3 DEF IInv, LeaseInv, OpenClaimsAreLeases
    <2> QED
      BY <2>1, <2>2, <2>3
  <1>15. ASSUME NEW t \in Tokens, t > claims'
         PROVE  fate'[t] = "unused"
    <2>1. t > claims /\ t # c /\ fate[t] = "unused"
      BY <1>3, <1>15 DEF IInv, LeaseInv, Tokens
    <2>2. \A i \in JobIds : job[i].token # t
      BY <2>1, ConstantAssumption
         DEF IInv, LeaseInv, OpenClaimsAreLeases, TypeOK, Tokens
    <2> QED
      BY <1>7, <2>1, <2>2 DEF Taken
  <1>16. ASSUME NEW i \in JobIds
         PROVE  IF job'[i].status = "running"
                  THEN /\ job'[i].worker \in Workers
                       /\ job'[i].token \in 1..claims'
                       /\ fate'[job'[i].token] = "open"
                  ELSE job'[i].worker = NoWorker /\ job'[i].token = 0
    <2>1. CASE i = j
      BY <1>2, <1>3, <1>12, <2>1
    <2>2. CASE i # j
      <3>1. 1..claims \subseteq 1..claims'
        BY <1>3 DEF c
      <3> QED
        BY <1>11, <2>2, <3>1
    <2> QED
      BY <2>1, <2>2
  <1>17. LeaseInv'
    BY <1>13, <1>14, <1>15, <1>16 DEF LeaseInv, OpenClaimsAreLeases
  <1> QED
    BY <1>8, <1>9, <1>10, <1>17 DEF IInv

\* The clock alone does not disturb the invariant.
LEMMA TickIInv == ASSUME IInv, Tick PROVE IInv'
  <1>1. TypeOK'
    BY DEF IInv, TypeOK, Tick
  <1>2. (\A i \in JobIds : RecordOK(job[i]))'
    BY DEF IInv, Tick, RecordOK, AttemptsOK, RetryOK
  <1>3. LeaseInv' /\ OneJobPerKey'
    BY DEF IInv, Tick, LeaseInv, OpenClaimsAreLeases, OneJobPerKey
  <1> QED
    BY <1>1, <1>2, <1>3 DEF IInv

\* Every step of the store keeps the invariant.
LEMMA NextIInv == IInv /\ [Next]_vars => IInv'
  <1> SUFFICES ASSUME IInv, [Next]_vars PROVE IInv'
    OBVIOUS
  <1>1. CASE \E s \in Specs : Submit(s)
    BY <1>1, SubmitIInv
  <1>2. ASSUME NEW w \in Workers, NEW d \in DomainFilters, Claim(w, d)
        PROVE  IInv'
    <2>1. CASE ClaimNothing(d)
      BY <2>1, ClaimNothingStep, StoreStepKeepsIInv
    <2>2. CASE ClaimJob(w, d)
      BY <2>2, ClaimJobIInv
    <2> QED
      BY <1>2, <2>1, <2>2 DEF Claim
  <1>3. ASSUME NEW j \in JobIds, NEW w \in Workers, NEW t \in Tokens,
               \/ Heartbeat(j, w, t)
               \/ \E d \in Delays : ReleaseUnstartedClaim(j, w, t, d)
               \/ Succeed(j, w, t)
               \/ Fail(j, w, t)
               \/ CancelClaimed(j, w, t)
        PROVE  IInv'
    BY <1>3, HeartbeatStep, HolderStep, StoreStepKeepsIInv
  <1>4. CASE \E j \in JobIds : RequestCancel(j)
    BY <1>4, RequestCancelStep, StoreStepKeepsIInv
  <1>5. CASE RecoverExpiredLeases
    BY <1>5, RecoverStep, StoreStepKeepsIInv
  <1>6. CASE Tick
    BY <1>6, TickIInv
  <1>7. CASE UNCHANGED vars
    <2>1. TypeOK'
      BY <1>7 DEF vars, IInv, TypeOK
    <2>2. (\A i \in JobIds : RecordOK(job[i]))'
      BY <1>7 DEF vars, IInv, RecordOK, AttemptsOK, RetryOK
    <2>3. LeaseInv' /\ OneJobPerKey'
      BY <1>7 DEF vars, IInv, LeaseInv, OpenClaimsAreLeases, OneJobPerKey
    <2> QED
      BY <2>1, <2>2, <2>3 DEF IInv
  <1> QED
    BY <1>1, <1>2, <1>3, <1>4, <1>5, <1>6, <1>7 DEF Next

-----------------------------------------------------------------------------
(* The theorems                                                            *)

\* The invariant holds in every reachable state.
LEMMA IInvHolds == Spec => []IInv
  BY InitIInv, NextIInv, PTL DEF Spec

\* Every variable of the store keeps its type.
THEOREM TypeCorrect == Spec => []TypeOK
  <1>1. IInv => TypeOK
    BY DEF IInv
  <1> QED
    BY <1>1, IInvHolds, PTL

\* No job is claimed more often than its retry policy allows.
THEOREM AttemptsStayBounded == Spec => []AttemptsBounded
  <1>1. IInv => AttemptsBounded
    BY DEF IInv, RecordOK, AttemptsOK, AttemptsBounded
  <1> QED
    BY <1>1, IInvHolds, PTL

\* The open claims are exactly the leases of the running jobs.
THEOREM LeasesMatchClaims == Spec => []OpenClaimsAreLeases
  <1>1. IInv => OpenClaimsAreLeases
    BY DEF IInv, LeaseInv
  <1> QED
    BY <1>1, IInvHolds, PTL

\* No retry is parked at or past its deadline.
THEOREM RetriesBeforeDeadline == Spec => []RetryBeforeDeadline
  <1>1. IInv => RetryBeforeDeadline
    BY DEF IInv, RecordOK, RetryOK, RetryBeforeDeadline
  <1> QED
    BY <1>1, IInvHolds, PTL

\* An idempotency key never names two jobs.
THEOREM KeysNameOneJob == Spec => []OneJobPerKey
  <1>1. IInv => OneJobPerKey
    BY DEF IInv
  <1> QED
    BY <1>1, IInvHolds, PTL

-----------------------------------------------------------------------------
(* What a step may never do                                                *)

FinalStep ==
  \A j \in JobIds : /\ job[j].status \in Terminal => job'[j] = job[j]
                    /\ job[j].cancel => job'[j].cancel

EndOnceStep ==
  \A t \in Tokens : fate[t] \in {"closed", "lost"} => fate'[t] = fate[t]

\* The token of a job is an open claim, so no ended claim is on a job.
LEMMA EndedClaimsAreGone ==
  ASSUME IInv, NEW t \in Tokens, fate[t] \in {"closed", "lost"},
         NEW i \in JobIds
  PROVE  job[i].token # t
  <1>1. t # 0
    BY DEF Tokens
  <1> QED
    BY <1>1 DEF IInv, LeaseInv, OpenClaimsAreLeases

\* A change of existing jobs leaves finished jobs and ended claims alone.
LEMMA StoreStepIsFinal ==
  ASSUME IInv, StoreStep PROVE FinalStep /\ EndOnceStep
  <1>1. FinalStep
    BY DEF StoreStep, JobStep, FinalStep
  <1>2. EndOnceStep
    BY EndedClaimsAreGone DEF StoreStep, FateStep, EndOnceStep
  <1> QED
    BY <1>1, <1>2

\* Submission uses an absent job and no claim.
LEMMA SubmitIsFinal ==
  ASSUME IInv, NEW s \in Specs, Submit(s) PROVE FinalStep /\ EndOnceStep
  <1>1. PICK j \in JobIds : /\ job[j].status = "absent"
                            /\ job' = [job EXCEPT ![j] = NewJob(s, now)]
    BY DEF Submit
  <1>2. job[j] = Absent /\ ~Absent.cancel
    BY <1>1 DEF IInv, RecordOK, Absent
  <1>3. \A i \in JobIds : i # j => job'[i] = job[i]
    BY <1>1 DEF IInv, TypeOK
  <1> QED
    BY <1>1, <1>2, <1>3 DEF FinalStep, EndOnceStep, Submit

\* A claim changes waiting and overdue jobs, and opens a token never used.
LEMMA ClaimJobIsFinal ==
  ASSUME IInv, NEW w \in Workers, NEW d \in DomainFilters, ClaimJob(w, d)
  PROVE  FinalStep /\ EndOnceStep
  <1>1. PICK j \in JobIds :
          /\ job[j].status \in Waiting /\ ~job[j].cancel
          /\ claims + 1 \in Tokens
          /\ \A i \in JobIds :
               job'[i] = IF i = j THEN Claimed(job[j], w, claims + 1, now)
                                  ELSE Swept[i]
    BY ClaimJobFacts
  <1>2. \A i \in JobIds : JobStep(job[i], Swept[i])
    BY SweptStep
  <1>3. FinalStep
    BY <1>1, <1>2 DEF FinalStep, JobStep
  <1>4. fate[claims + 1] = "unused"
    BY <1>1 DEF IInv, LeaseInv, TypeOK
  <1>5. \A t \in Tokens : t # claims + 1 =>
          fate'[t] = IF t \in Taken(Swept) THEN "lost" ELSE fate[t]
    BY DEF ClaimJob, FateAfter
  <1>6. EndOnceStep
    BY <1>4, <1>5, EndedClaimsAreGone DEF EndOnceStep, Taken
  <1> QED
    BY <1>3, <1>6

\* Every step leaves finished jobs and ended claims alone.
LEMMA NextIsFinal == IInv /\ [Next]_vars => FinalStep /\ EndOnceStep
  <1> SUFFICES ASSUME IInv, [Next]_vars PROVE FinalStep /\ EndOnceStep
    OBVIOUS
  <1>1. CASE \E s \in Specs : Submit(s)
    BY <1>1, SubmitIsFinal
  <1>2. ASSUME NEW w \in Workers, NEW d \in DomainFilters, Claim(w, d)
        PROVE  FinalStep /\ EndOnceStep
    BY <1>2, ClaimNothingStep, StoreStepIsFinal, ClaimJobIsFinal DEF Claim
  <1>3. ASSUME NEW j \in JobIds, NEW w \in Workers, NEW t \in Tokens,
               \/ Heartbeat(j, w, t)
               \/ \E d \in Delays : ReleaseUnstartedClaim(j, w, t, d)
               \/ Succeed(j, w, t)
               \/ Fail(j, w, t)
               \/ CancelClaimed(j, w, t)
        PROVE  FinalStep /\ EndOnceStep
    BY <1>3, HeartbeatStep, HolderStep, StoreStepIsFinal
  <1>4. CASE \E j \in JobIds : RequestCancel(j)
    BY <1>4, RequestCancelStep, StoreStepIsFinal
  <1>5. CASE RecoverExpiredLeases
    BY <1>5, RecoverStep, StoreStepIsFinal
  <1>6. CASE Tick \/ UNCHANGED vars
    BY <1>6 DEF Tick, vars, FinalStep, EndOnceStep
  <1> QED
    BY <1>1, <1>2, <1>3, <1>4, <1>5, <1>6 DEF Next

\* A finished job never changes, a cancellation request is never forgotten.
THEOREM FinishedStaysFinal == Spec => FinishedIsFinal
  <1>1. IInv /\ [Next]_vars
          => [\A j \in JobIds :
                /\ job[j].status \in Terminal => job'[j] = job[j]
                /\ job[j].cancel => job'[j].cancel]_vars
    BY NextIsFinal DEF FinalStep
  <1> QED
    BY <1>1, IInvHolds, PTL DEF Spec, FinishedIsFinal

\* A claim that was ended or taken away is never ended again.
THEOREM ClaimsEndOnce == Spec => ClaimEndsOnce
  <1>1. IInv /\ [Next]_vars
          => [\A t \in Tokens :
                fate[t] \in {"closed", "lost"} => fate'[t] = fate[t]]_vars
    BY NextIsFinal DEF EndOnceStep
  <1> QED
    BY <1>1, IInvHolds, PTL DEF Spec, ClaimEndsOnce

-----------------------------------------------------------------------------
(* When a result is committed, and when a lease is taken away              *)

CommitStep ==
  \A j \in JobIds :
    job[j].status # "succeeded" /\ job'[j].status = "succeeded" =>
      /\ job[j].status = "running"
      /\ job[j].expires > now
      /\ ~job[j].cancel
      /\ ~DeadlineExpired(job[j], now)

TakeStep ==
  \A t \in Tokens :
    fate[t] = "open" /\ fate'[t] = "lost" =>
      \E j \in JobIds :
        /\ job[j].token = t
        /\ job[j].expires <= now \/ DeadlineExpired(job[j], now)

\* What the deadline does to a job: it fails a late one and its lease goes,
\* and leaves the others alone.
LEMMA ExpiryEffect ==
  ASSUME NEW r \in JobType, NEW at \in Nat
  PROVE  /\ ExpireDeadline(r, at).status = "succeeded" => r.status = "succeeded"
         /\ ExpireDeadline(r, at).token # r.token => DeadlineExpired(r, at)
  <1>1. CASE r.status \in Live /\ DeadlineExpired(r, at)
    <2>1. DeadlineFailed(r).status = "failed"
      BY DEF DeadlineFailed, ClearLease, JobType
    <2> QED
      BY <1>1, <2>1 DEF ExpireDeadline
  <1>2. CASE ~(r.status \in Live /\ DeadlineExpired(r, at))
    BY <1>2 DEF ExpireDeadline
  <1> QED
    BY <1>1, <1>2

\* A claim without a candidate only lets deadlines act.
LEMMA ClaimNothingIsSafe ==
  ASSUME IInv, NEW d \in DomainFilters, ClaimNothing(d)
  PROVE  CommitStep /\ TakeStep
  <1>1. \A i \in JobIds : job[i] \in JobType /\ now \in Nat
    BY DEF IInv, TypeOK
  <1>2. \A i \in JobIds : job'[i] = ExpireDeadline(job[i], now)
    BY DEF ClaimNothing, Swept
  <1>3. CommitStep
    BY <1>1, <1>2, ExpiryEffect DEF CommitStep
  <1>4. \A t \in Tokens : fate'[t] = "lost" /\ fate[t] = "open" =>
          \E i \in JobIds : job[i].token = t /\ Swept[i].token # t
    BY DEF ClaimNothing, FateAfter, Taken
  <1>5. TakeStep
    BY <1>1, <1>4, ExpiryEffect DEF TakeStep, Swept
  <1> QED
    BY <1>3, <1>5

\* A claim lets deadlines act and starts one waiting job.
LEMMA ClaimJobIsSafe ==
  ASSUME IInv, NEW w \in Workers, NEW d \in DomainFilters, ClaimJob(w, d)
  PROVE  CommitStep /\ TakeStep
  <1>1. \A i \in JobIds : job[i] \in JobType /\ now \in Nat
    BY DEF IInv, TypeOK
  <1>2. PICK j \in JobIds :
          /\ claims + 1 \in Tokens
          /\ \A i \in JobIds :
               job'[i] = IF i = j THEN Claimed(job[j], w, claims + 1, now)
                                  ELSE Swept[i]
    BY ClaimJobFacts
  <1>3. Claimed(job[j], w, claims + 1, now).status = "running"
    BY <1>1 DEF Claimed, JobType
  <1>4. CommitStep
    BY <1>1, <1>2, <1>3, ExpiryEffect DEF CommitStep, Swept
  <1>5. fate'[claims + 1] = "open"
    BY <1>2 DEF ClaimJob, FateAfter
  <1>6. \A t \in Tokens : t # claims + 1 =>
          fate'[t] = IF t \in Taken(Swept) THEN "lost" ELSE fate[t]
    BY DEF ClaimJob, FateAfter
  <1>7. TakeStep
    BY <1>1, <1>5, <1>6, ExpiryEffect DEF TakeStep, Swept, Taken
  <1> QED
    BY <1>4, <1>7

\* A heartbeat commits nothing and only gives a lease up to the deadline.
LEMMA HeartbeatIsSafe ==
  ASSUME IInv, NEW j \in JobIds, NEW w \in Workers, NEW t \in Tokens,
         Heartbeat(j, w, t)
  PROVE  CommitStep /\ TakeStep
  <1>1. job[j] \in JobType /\ job[j].status = "running"
    BY DEF IInv, TypeOK, Heartbeat, HasLease
  <1>2. \A i \in JobIds :
          job'[i] = IF i = j THEN Heartbeaten(job[j], now) ELSE job[i]
    BY DEF IInv, TypeOK, Heartbeat
  <1>3. /\ Heartbeaten(job[j], now).status # "succeeded"
        /\ Heartbeaten(job[j], now).token # job[j].token
             => DeadlineExpired(job[j], now)
    BY <1>1 DEF Heartbeaten, DeadlineFailed, ClearLease, JobType
  <1>4. CommitStep
    BY <1>2, <1>3 DEF CommitStep
  <1>5. \A u \in Tokens : fate'[u] = "lost" /\ fate[u] = "open" =>
          \E i \in JobIds : job[i].token = u /\ job'[i].token # u
    BY DEF Heartbeat, FateAfter, Taken
  <1>6. TakeStep
    BY <1>2, <1>3, <1>5 DEF TakeStep
  <1> QED
    BY <1>4, <1>6

\* Only succeed commits, and only what it may; no holder's call loses a lease.
LEMMA EndClaimIsSafe ==
  ASSUME IInv, NEW j \in JobIds, NEW w \in Workers, NEW t \in Tokens,
         \/ \E d \in Delays : ReleaseUnstartedClaim(j, w, t, d)
         \/ Succeed(j, w, t)
         \/ Fail(j, w, t)
         \/ CancelClaimed(j, w, t)
  PROVE  CommitStep /\ TakeStep
  <1>1. PICK new :
          /\ EndClaim(j, w, t, new)
          /\ \/ \E d \in Delays : new = Released(job[j], d, now)
             \/ new = Succeeded(job[j], now)
             \/ new = Failed(job[j], now)
             \/ new = ClaimCancelled(job[j])
    BY DEF ReleaseUnstartedClaim, Succeed, Fail, CancelClaimed
  <1>2. job[j] \in JobType /\ HasLease(job[j], w, t, now)
    BY <1>1 DEF IInv, TypeOK, EndClaim
  <1>3. \A i \in JobIds : job'[i] = IF i = j THEN new ELSE job[i]
    BY <1>1 DEF IInv, TypeOK, EndClaim
  <1>4. new.status = "succeeded"
          => ~job[j].cancel /\ ~DeadlineExpired(job[j], now)
    <2>1. \A d \in Delays : Released(job[j], d, now).status = "queued"
      BY <1>2 DEF Released, ClearLease, JobType
    <2>2. Failed(job[j], now).status # "succeeded"
      BY <1>2 DEF Failed, DeadlineFailed, ClearLease, JobType
    <2>3. ClaimCancelled(job[j]).status = "cancelled"
      BY <1>2 DEF ClaimCancelled, ClearLease, JobType
    <2>4. Succeeded(job[j], now).status = "succeeded"
            => ~job[j].cancel /\ ~DeadlineExpired(job[j], now)
      BY <1>2 DEF Succeeded, DeadlineFailed, ClearLease, JobType
    <2> QED
      BY <1>1, <2>1, <2>2, <2>3, <2>4
  <1>5. CommitStep
    BY <1>2, <1>3, <1>4 DEF CommitStep, HasLease
  <1>6. \A u \in Tokens : fate'[u] = IF u = t THEN "closed" ELSE fate[u]
    BY <1>1 DEF IInv, TypeOK, EndClaim
  <1>7. TakeStep
    BY <1>6 DEF TakeStep
  <1> QED
    BY <1>5, <1>7

\* Recovery takes expired leases only and commits nothing.
LEMMA RecoverIsSafe ==
  ASSUME IInv, RecoverExpiredLeases PROVE CommitStep /\ TakeStep
  <1>1. \A i \in JobIds :
          /\ job[i] \in JobType
          /\ job'[i] = IF LeaseExpired(job[i], now) THEN Recovered(job[i], now)
                                                    ELSE job[i]
    BY DEF IInv, TypeOK, RecoverExpiredLeases
  <1>2. \A r \in JobType : Recovered(r, now).status # "succeeded"
    BY DEF Recovered, DeadlineFailed, ClearLease, JobType
  <1>3. CommitStep
    BY <1>1, <1>2 DEF CommitStep
  <1>4. \A u \in Tokens : fate'[u] = "lost" /\ fate[u] = "open" =>
          \E i \in JobIds : job[i].token = u /\ job'[i].token # u
    BY DEF RecoverExpiredLeases, FateAfter, Taken
  <1>5. TakeStep
    BY <1>1, <1>4 DEF TakeStep, LeaseExpired
  <1> QED
    BY <1>3, <1>5

\* Submission, cancellation and the clock commit nothing and take no lease.
LEMMA OthersAreSafe ==
  ASSUME IInv,
         \/ \E s \in Specs : Submit(s)
         \/ \E j \in JobIds : RequestCancel(j)
         \/ Tick
         \/ UNCHANGED vars
  PROVE  CommitStep /\ TakeStep
  <1>1. fate' = fate
    BY DEF Submit, RequestCancel, Tick, vars
  <1>2. TakeStep
    BY <1>1 DEF TakeStep
  <1>3. ASSUME NEW s \in Specs, Submit(s) PROVE CommitStep
    <2>1. NewJob(s, now).status = "queued"
      BY DEF NewJob, Absent
    <2>2. PICK j \in JobIds : job' = [job EXCEPT ![j] = NewJob(s, now)]
      BY <1>3 DEF Submit
    <2> QED
      BY <2>1, <2>2 DEF CommitStep, IInv, TypeOK
  <1>4. ASSUME NEW j \in JobIds, RequestCancel(j) PROVE CommitStep
    <2>1. job[j] \in JobType /\ job[j].status \in Live
      BY <1>4 DEF RequestCancel, IInv, TypeOK
    <2>2. CancelRequested(job[j]).status # "succeeded"
      BY <2>1 DEF CancelRequested, JobType, Live, Waiting
    <2>3. job' = [job EXCEPT ![j] = CancelRequested(job[j])]
      BY <1>4 DEF RequestCancel
    <2> QED
      BY <2>2, <2>3 DEF CommitStep, IInv, TypeOK
  <1>5. CASE Tick \/ UNCHANGED vars
    BY <1>2, <1>5 DEF Tick, vars, CommitStep
  <1> QED
    BY <1>2, <1>3, <1>4, <1>5

\* Every step commits only what it may, and takes only what it may.
LEMMA NextIsSafe == IInv /\ [Next]_vars => CommitStep /\ TakeStep
  <1> SUFFICES ASSUME IInv, [Next]_vars PROVE CommitStep /\ TakeStep
    OBVIOUS
  <1>1. ASSUME NEW w \in Workers, NEW d \in DomainFilters, Claim(w, d)
        PROVE  CommitStep /\ TakeStep
    BY <1>1, ClaimNothingIsSafe, ClaimJobIsSafe DEF Claim
  <1>2. ASSUME NEW j \in JobIds, NEW w \in Workers, NEW t \in Tokens,
               \/ Heartbeat(j, w, t)
               \/ \E d \in Delays : ReleaseUnstartedClaim(j, w, t, d)
               \/ Succeed(j, w, t)
               \/ Fail(j, w, t)
               \/ CancelClaimed(j, w, t)
        PROVE  CommitStep /\ TakeStep
    BY <1>2, HeartbeatIsSafe, EndClaimIsSafe
  <1>3. CASE RecoverExpiredLeases
    BY <1>3, RecoverIsSafe
  <1>4. CASE \/ \E s \in Specs : Submit(s)
             \/ \E j \in JobIds : RequestCancel(j)
             \/ Tick
             \/ UNCHANGED vars
    BY <1>4, OthersAreSafe
  <1> QED
    BY <1>1, <1>2, <1>3, <1>4 DEF Next

\* A result is only committed for a job that nobody asked to cancel, before
\* its deadline and under an unexpired lease.
THEOREM CommitsAreTimely == Spec => CommitIsTimely
  <1>1. IInv /\ [Next]_vars
          => [\A j \in JobIds :
                job[j].status # "succeeded" /\ job'[j].status = "succeeded" =>
                  /\ job[j].status = "running"
                  /\ job[j].expires > now
                  /\ ~job[j].cancel
                  /\ ~DeadlineExpired(job[j], now)]_vars
    BY NextIsSafe DEF CommitStep
  <1> QED
    BY <1>1, IInvHolds, PTL DEF Spec, CommitIsTimely

\* A live lease is only taken from its worker by the deadline of its job.
THEOREM LiveLeasesAreSafe == Spec => LiveLeaseIsSafe
  <1>1. IInv /\ [Next]_vars
          => [\A t \in Tokens :
                fate[t] = "open" /\ fate'[t] = "lost" =>
                  \E j \in JobIds :
                    /\ job[j].token = t
                    /\ job[j].expires <= now \/ DeadlineExpired(job[j], now)
             ]_vars
    BY NextIsSafe DEF TakeStep
  <1> QED
    BY <1>1, IInvHolds, PTL DEF Spec, LiveLeaseIsSafe

-----------------------------------------------------------------------------
(* The store implements the abstract life cycle: what each method makes of *)
(* a record (JobRecordProofs) is what the life cycle makes of its public   *)
(* part, and the sweeps name the jobs that the life cycle may choose.      *)

USE DEF Lifecycle!Waiting, Lifecycle!Live

\* Giving up a claim is the same idea in both.
LEMMA SettleIsUnclaimed ==
  ASSUME NEW p, NEW s PROVE Lifecycle!Settle(p, s) = Unclaimed(p, s)
  BY DEF Lifecycle!Settle, Unclaimed

\* What the life cycle sees of a stored job.
LEMMA PublicAt ==
  ASSUME IInv, NEW i \in JobIds
  PROVE  /\ RecordOK(job[i]) /\ PublicJobs[i] = PublicJob(job[i])
         /\ PublicJobs[i] \in PublicType
  BY PublicFields DEF IInv, PublicJobs

\* It sees a change of one record as a change of one job.
LEMMA PublicOneJob ==
  ASSUME IInv, NEW j \in JobIds, NEW new, job' = [job EXCEPT ![j] = new]
  PROVE  PublicJobs' = [PublicJobs EXCEPT ![j] = PublicJob(new)]
  <1>1. \A i \in JobIds : job'[i] = IF i = j THEN new ELSE job[i]
    BY DEF IInv, TypeOK
  <1>2. PublicJobs' = [i \in JobIds |-> PublicJob(job'[i])]
    BY DEF PublicJobs
  <1>3. \A i \in JobIds :
          PublicJobs'[i] = IF i = j THEN PublicJob(new) ELSE PublicJobs[i]
    <2> TAKE i \in JobIds
    <2>1. PublicJobs'[i] = PublicJob(job'[i]) /\ PublicJobs[i] = PublicJob(job[i])
      BY <1>2 DEF PublicJobs
    <2>2. CASE i = j
      BY <1>1, <2>1, <2>2
    <2>3. CASE i # j
      BY <1>1, <2>1, <2>3
    <2> QED
      BY <2>2, <2>3
  <1>4. PublicJobs = [i \in JobIds |-> PublicJobs[i]]
        /\ PublicJobs' = [i \in JobIds |-> PublicJobs'[i]]
    BY DEF PublicJobs
  <1> QED
    BY <1>3, <1>4

\* The claims that a sweep takes away are those of the jobs it changes.
LEMMA FateMaps ==
  ASSUME IInv, NEW J \in SUBSET JobIds, NEW new,
         \A i \in J : new[i].token = 0,
         \A i \in JobIds \ J : new[i].token = job[i].token
  PROVE  FateAfter(new) = Lifecycle!FateWithout(J)
  <1>1. \A i \in JobIds : PublicJobs[i].token = job[i].token
    BY PublicAt, PublicFields
  <1>2. ASSUME NEW t \in Tokens
        PROVE  (t \in Taken(new)) <=> (\E j \in J : PublicJobs[j].token = t)
    <2>1. t # 0
      BY DEF Tokens
    <2> QED
      BY <1>1, <2>1 DEF Taken
  <1> QED
    BY <1>2, Zenon DEF FateAfter, Lifecycle!FateWithout

\* A holder that ends its claim ends it in the life cycle.
LEMMA EndClaimMaps ==
  ASSUME IInv, NEW j \in JobIds, NEW w \in Workers, NEW t \in Tokens,
         NEW new, EndClaim(j, w, t, new)
  PROVE  Lifecycle!EndClaim(j, t, PublicJob(new))
  <1>1. PublicJobs[j].status = "running" /\ PublicJobs[j].token = t
    BY PublicAt, PublicFields DEF EndClaim, HasLease
  <1>2. PublicJobs' = [PublicJobs EXCEPT ![j] = PublicJob(new)]
    BY PublicOneJob DEF EndClaim
  <1> QED
    BY <1>1, <1>2 DEF EndClaim, Lifecycle!EndClaim, Lifecycle!HoldsClaim

\* A release gives the attempt back in both.
LEMMA ReleaseMaps ==
  ASSUME IInv, NEW j \in JobIds, NEW w \in Workers, NEW t \in Tokens,
         NEW d \in Delays, ReleaseUnstartedClaim(j, w, t, d)
  PROVE  Lifecycle!ReleaseUnstartedClaim(j, t)
  <1>1. EndClaim(j, w, t, Released(job[j], d, now))
    BY DEF ReleaseUnstartedClaim
  <1>2. job[j].status = "running" /\ now \in Nat
    BY <1>1 DEF EndClaim, HasLease, IInv, TypeOK
  <1>3. PublicJob(Released(job[j], d, now)) =
          [Lifecycle!Settle(PublicJobs[j], "queued") EXCEPT !.attempt = @ - 1]
    BY <1>2, PublicAt, ReleasedPublic, SettleIsUnclaimed
  <1> QED
    BY <1>1, <1>3, EndClaimMaps DEF Lifecycle!ReleaseUnstartedClaim

\* A result gives way to a cancellation and to the deadline in both.
LEMMA SucceedMaps ==
  ASSUME IInv, NEW j \in JobIds, NEW w \in Workers, NEW t \in Tokens,
         Succeed(j, w, t)
  PROVE  Lifecycle!Succeed(j, t)
  <1> DEFINE new == Succeeded(job[j], now)
  <1>1. EndClaim(j, w, t, new)
    BY DEF Succeed
  <1>2. job[j].status = "running" /\ now \in Nat
    BY <1>1 DEF EndClaim, HasLease, IInv, TypeOK
  <1>3. /\ RecordOK(new) /\ NoLease(new) /\ SameJob(job[j], new)
        /\ new.cancel = job[j].cancel /\ new.attempt = job[j].attempt
        /\ \/ job[j].cancel /\ new.status = "cancelled"
           \/ /\ ~job[j].cancel /\ new.status = "failed"
              /\ DeadlineExpired(job[j], now)
           \/ ~job[j].cancel /\ new.status = "succeeded"
    BY <1>2, PublicAt, SucceededOK
  <1> HIDE DEF new
  <1>4. Lifecycle!EndClaim(j, t, Lifecycle!Settle(PublicJobs[j], new.status))
    BY <1>1, <1>3, EndClaimMaps, PublicAt, SettledPublic,
       SettleIsUnclaimed
  <1>5. /\ PublicJobs[j].cancel = job[j].cancel
        /\ DeadlineExpired(job[j], now) => PublicJobs[j].dated
    BY <1>2, PublicAt, PublicFields DEF DeadlineExpired
  <1> QED
    BY <1>3, <1>4, <1>5 DEF Lifecycle!Succeed

\* A failure that the deadline or the budget ends is final in both.
LEMMA FailMaps ==
  ASSUME IInv, NEW j \in JobIds, NEW w \in Workers, NEW t \in Tokens,
         Fail(j, w, t)
  PROVE  Lifecycle!Fail(j, t)
  <1> DEFINE new == Failed(job[j], now)
  <1>1. EndClaim(j, w, t, new)
    BY DEF Fail
  <1>2. job[j].status = "running" /\ now \in Nat
    BY <1>1 DEF EndClaim, HasLease, IInv, TypeOK
  <1>3. /\ RecordOK(new) /\ NoLease(new) /\ SameJob(job[j], new)
        /\ new.cancel = job[j].cancel /\ new.attempt = job[j].attempt
        /\ \/ job[j].cancel /\ new.status = "cancelled"
           \/ /\ ~job[j].cancel /\ new.status = "failed"
              /\ \/ job[j].attempt >= job[j].spec.maxAttempts
                 \/ job[j].spec.deadline # NoDeadline
           \/ /\ ~job[j].cancel /\ new.status = "retry_wait"
              /\ job[j].attempt < job[j].spec.maxAttempts
    BY <1>2, PublicAt, FailedOK
  <1> HIDE DEF new
  <1>4. Lifecycle!EndClaim(j, t, Lifecycle!Settle(PublicJobs[j], new.status))
    BY <1>1, <1>3, EndClaimMaps, PublicAt, SettledPublic,
       SettleIsUnclaimed
  <1>5. /\ PublicJobs[j].cancel = job[j].cancel
        /\ PublicJobs[j].attempt = job[j].attempt
        /\ PublicJobs[j].budget = job[j].spec.maxAttempts
        /\ job[j].spec.deadline # NoDeadline => PublicJobs[j].dated
    BY <1>2, PublicAt, PublicFields
  <1> QED
    BY <1>3, <1>4, <1>5 DEF Lifecycle!Fail

\* The holder cancels its job in both.
LEMMA CancelClaimedMaps ==
  ASSUME IInv, NEW j \in JobIds, NEW w \in Workers, NEW t \in Tokens,
         CancelClaimed(j, w, t)
  PROVE  Lifecycle!CancelClaimed(j, t)
  <1>1. EndClaim(j, w, t, ClaimCancelled(job[j]))
    BY DEF CancelClaimed
  <1>2. job[j].status = "running"
    BY <1>1 DEF EndClaim, HasLease
  <1>3. PublicJob(ClaimCancelled(job[j])) =
          [Lifecycle!Settle(PublicJobs[j], "cancelled") EXCEPT !.cancel = TRUE]
    BY <1>2, PublicAt, ClaimCancelledPublic, SettleIsUnclaimed
  <1> QED
    BY <1>1, <1>3, EndClaimMaps DEF Lifecycle!CancelClaimed

\* A request ends a waiting job and marks a running one in both.
LEMMA RequestCancelMaps ==
  ASSUME IInv, NEW j \in JobIds, RequestCancel(j)
  PROVE  Lifecycle!RequestCancel(j)
  <1>1. /\ RecordOK(job[j]) /\ job[j].status \in Live
        /\ job[j].status # "running" => NoLease(job[j])
    BY DEF IInv, LeaseInv, OpenClaimsAreLeases, RequestCancel, NoLease
  <1> DEFINE q == [PublicJobs[j] EXCEPT
                     !.cancel = TRUE,
                     !.status = IF @ \in Lifecycle!Waiting THEN "cancelled"
                                                           ELSE @]
  <1>2. PublicJob(CancelRequested(job[j])) = q
    BY <1>1, CancelRequestedPublic, PublicAt
  <1>3. PublicJobs' = [PublicJobs EXCEPT ![j] = q]
    <2>1. job' = [job EXCEPT ![j] = CancelRequested(job[j])]
      BY DEF RequestCancel
    <2>2. PublicJobs' = [PublicJobs EXCEPT ![j] = PublicJob(CancelRequested(job[j]))]
      BY <2>1, PublicOneJob
    <2> QED
      BY <1>2, <2>2, Zenon
  <1>4. [PublicJobs EXCEPT ![j] = q] =
        [PublicJobs EXCEPT ![j].cancel = TRUE,
           ![j].status = IF @ \in Lifecycle!Waiting THEN "cancelled" ELSE @]
    BY DEF PublicJobs
  <1>5. PublicJobs[j].status \in Lifecycle!Live
    BY <1>1, PublicAt, PublicFields
  <1> HIDE DEF q
  <1> QED
    BY <1>3, <1>4, <1>5, Zenon DEF RequestCancel, Lifecycle!RequestCancel

\* A recovered job gets the same status in both.
LEMMA RecoveredMaps ==
  ASSUME NEW r, RecordOK(r), r.status = "running", NEW at \in Nat,
         NEW late, late = DeadlineExpired(r, at)
  PROVE  PublicJob(Recovered(r, at)) = Lifecycle!Recovered(PublicJob(r), late)
  BY RecoveredPublic, SettleIsUnclaimed, Zenon DEF Lifecycle!Recovered

\* Recovery takes the jobs with an expired lease, of which some are late.
LEMMA RecoverMaps ==
  ASSUME IInv, RecoverExpiredLeases
  PROVE  \E J \in SUBSET JobIds, L \in SUBSET Lifecycle!Overdue :
           Lifecycle!RecoverExpiredLeases(J, L)
  <1> DEFINE J == {i \in JobIds : LeaseExpired(job[i], now)}
             L == {i \in J : DeadlineExpired(job[i], now)}
  <1>1. ASSUME NEW i \in JobIds
        PROVE  /\ RecordOK(job[i])
               /\ i \in J => job[i].status = "running"
               /\ PublicJobs[i] = PublicJob(job[i])
               /\ PublicJobs[i].status = job[i].status
               /\ i \in J /\ job[i].spec.deadline # NoDeadline => PublicJobs[i].dated
               /\ now \in Nat
               /\ job'[i] = IF i \in J THEN Recovered(job[i], now) ELSE job[i]
    BY PublicAt, PublicFields
       DEF LeaseExpired, RecoverExpiredLeases, IInv, TypeOK
  <1>2. L \in SUBSET Lifecycle!Overdue
    BY <1>1 DEF Lifecycle!Overdue, DeadlineExpired
  <1>3. \A i \in J : PublicJobs[i].status = "running"
    BY <1>1
  <1>4. ASSUME NEW i \in JobIds
        PROVE  PublicJob(job'[i]) = IF i \in J
                                      THEN Lifecycle!Recovered(PublicJobs[i], i \in L)
                                      ELSE PublicJobs[i]
    <2>1. CASE i \in J
      <3>1. (i \in L) = DeadlineExpired(job[i], now)
        BY <2>1 DEF DeadlineExpired
      <3> QED
        BY <1>1, <2>1, <3>1, RecoveredMaps
    <2>2. CASE i \notin J
      BY <1>1, <2>2
    <2> QED
      BY <2>1, <2>2
  <1>5. PublicJobs' = [i \in JobIds |-> PublicJob(job'[i])]
    BY DEF PublicJobs
  <1> HIDE DEF J, L
  <1>6. PublicJobs' = [i \in JobIds |->
                         IF i \in J THEN Lifecycle!Recovered(PublicJobs[i], i \in L)
                                    ELSE PublicJobs[i]]
    BY <1>4, <1>5, Zenon
  <1>7. fate' = Lifecycle!FateWithout(J)
    <2>1. J \in SUBSET JobIds
      BY DEF J
    <2>2. \A i \in J : job'[i].token = 0
      BY <1>1, <2>1, RecoveredOK DEF NoLease
    <2>3. \A i \in JobIds \ J : job'[i].token = job[i].token
      BY <1>1
    <2> QED
      BY <2>1, <2>2, <2>3, FateMaps DEF RecoverExpiredLeases
  <1>8. J \in SUBSET JobIds
    BY DEF J
  <1> QED
    BY <1>2, <1>3, <1>6, <1>7, <1>8 DEF Lifecycle!RecoverExpiredLeases

\* The jobs that the sweep of a claim fails.
SweptJobs == {i \in JobIds : job[i].status \in Live /\ DeadlineExpired(job[i], now)}

\* The sweep of a claim fails overdue jobs and loses their claims.
LEMMA SweepMaps ==
  ASSUME IInv
  PROVE  /\ SweptJobs \in SUBSET Lifecycle!Overdue
         /\ \A i \in JobIds : PublicJob(Swept[i]) = Lifecycle!SweptOf(SweptJobs)[i]
         /\ FateAfter(Swept) = Lifecycle!FateWithout(SweptJobs)
  <1>1. ASSUME NEW i \in JobIds
        PROVE  /\ RecordOK(job[i]) /\ now \in Nat
               /\ PublicJobs[i] = PublicJob(job[i])
               /\ PublicJobs[i].status = job[i].status
               /\ i \in SweptJobs => PublicJobs[i].dated
               /\ Swept[i] = IF i \in SweptJobs THEN DeadlineFailed(job[i])
                                                ELSE job[i]
    BY PublicAt, PublicFields
       DEF SweptJobs, DeadlineExpired, ExpireDeadline, Swept, IInv, TypeOK
  <1>2. SweptJobs \in SUBSET Lifecycle!Overdue
    BY <1>1 DEF Lifecycle!Overdue, SweptJobs
  <1>3. ASSUME NEW i \in JobIds, i \in SweptJobs
        PROVE  /\ Swept[i].token = 0
               /\ PublicJob(Swept[i]) = Lifecycle!Settle(PublicJobs[i], "failed")
    <2>1. job[i].status # "absent"
      BY <1>3 DEF SweptJobs
    <2> QED
      BY <1>1, <1>3, <2>1, DeadlineFailedOK, SettledPublic,
         SettleIsUnclaimed DEF NoLease
  <1>4. \A i \in JobIds : PublicJob(Swept[i]) = Lifecycle!SweptOf(SweptJobs)[i]
    BY <1>1, <1>3 DEF Lifecycle!SweptOf
  <1>5. SweptJobs \in SUBSET JobIds
    BY DEF SweptJobs
  <1>6. FateAfter(Swept) = Lifecycle!FateWithout(SweptJobs)
    BY <1>1, <1>3, <1>5, FateMaps
  <1> QED
    BY <1>2, <1>4, <1>6

\* A claim without a candidate is that sweep.
LEMMA ClaimNothingMaps ==
  ASSUME IInv, NEW d \in DomainFilters, ClaimNothing(d)
  PROVE  \E J \in SUBSET Lifecycle!Overdue : Lifecycle!ExpireDeadlines(J)
  <1>1. job' = Swept /\ fate' = FateAfter(Swept)
    BY DEF ClaimNothing
  <1>2. PublicJobs' = [i \in JobIds |-> PublicJob(Swept[i])]
    BY <1>1 DEF PublicJobs
  <1>3. Lifecycle!SweptOf(SweptJobs) =
          [i \in JobIds |-> Lifecycle!SweptOf(SweptJobs)[i]]
    BY DEF Lifecycle!SweptOf
  <1>4. PublicJobs' = Lifecycle!SweptOf(SweptJobs)
    BY <1>2, <1>3, SweepMaps, Zenon
  <1> QED
    BY <1>1, <1>4, SweepMaps DEF Lifecycle!ExpireDeadlines

\* A heartbeat shows only when it comes after the deadline.
LEMMA HeartbeatMaps ==
  ASSUME IInv, NEW j \in JobIds, NEW w \in Workers, NEW t \in Tokens,
         Heartbeat(j, w, t)
  PROVE  \/ \E J \in SUBSET Lifecycle!Overdue : Lifecycle!ExpireDeadlines(J)
         \/ UNCHANGED Lifecycle!vars
  <1> DEFINE new == Heartbeaten(job[j], now)
  <1>1. job[j].status = "running" /\ now \in Nat /\ RecordOK(job[j])
    BY DEF Heartbeat, HasLease, IInv, TypeOK
  <1>2. job' = [job EXCEPT ![j] = new] /\ fate' = FateAfter(job')
    BY DEF Heartbeat
  <1>3. PublicJobs' = [PublicJobs EXCEPT ![j] = PublicJob(new)]
    BY <1>2, PublicOneJob
  <1>4. \A i \in JobIds : job'[i] = IF i = j THEN new ELSE job[i]
    BY <1>2 DEF IInv, TypeOK
  <1>5. CASE DeadlineExpired(job[j], now)
    <2>1. PublicJob(new) = Lifecycle!Settle(PublicJobs[j], "failed")
      BY <1>1, <1>5, PublicAt, HeartbeatenPublic, SettleIsUnclaimed
    <2>2. new.token = 0
      BY <1>1, <1>5, DeadlineFailedOK DEF Heartbeaten, NoLease
    <2> HIDE DEF new
    <2>3. {j} \in SUBSET Lifecycle!Overdue
      <3>1. PublicJobs[j].status = "running"
        BY <1>1, PublicAt, PublicFields
      <3>2. PublicJobs[j].dated
        BY <1>1, <1>5, PublicAt, PublicFields DEF DeadlineExpired
      <3> QED
        BY <3>1, <3>2 DEF Lifecycle!Overdue
    <2>4. PublicJobs' = Lifecycle!SweptOf({j})
      BY <1>3, <2>1 DEF Lifecycle!SweptOf, PublicJobs
    <2>5. fate' = Lifecycle!FateWithout({j})
      BY <1>2, <1>4, <2>2, FateMaps
    <2> QED
      BY <2>3, <2>4, <2>5 DEF Lifecycle!ExpireDeadlines
  <1>6. CASE ~DeadlineExpired(job[j], now)
    <2>1. PublicJob(new) = PublicJobs[j]
      BY <1>1, <1>6, PublicAt, HeartbeatenPublic
    <2>2. new.token = job[j].token
      BY <1>1, <1>6, HeartbeatenOK DEF SameLease
    <2> HIDE DEF new
    <2>3. PublicJobs' = PublicJobs
      BY <1>3, <2>1 DEF PublicJobs
    <2>4. Taken(job') = {}
      BY <1>4, <2>2 DEF Taken
    <2>5. fate' = fate
      BY <1>2, <2>4 DEF FateAfter, IInv, TypeOK
    <2> QED
      BY <2>3, <2>5 DEF Lifecycle!vars
  <1> QED
    BY <1>5, <1>6

\* A claim sweeps, and claims a job it did not sweep under a token that
\* nobody has seen.
LEMMA ClaimJobMaps ==
  ASSUME IInv, NEW w \in Workers, NEW d \in DomainFilters, ClaimJob(w, d)
  PROVE  \E J \in SUBSET Lifecycle!Overdue, j \in JobIds, t \in Tokens :
           Lifecycle!Claim(j, t, J)
  <1> DEFINE c == claims + 1
             F == Lifecycle!SweptOf(SweptJobs)
  <1>1. PICK j \in JobIds :
          /\ job[j].status \in Waiting /\ ~job[j].cancel
          /\ c \in Tokens
          /\ Swept[j] = job[j]
          /\ job' = [Swept EXCEPT ![j] = Claimed(job[j], w, c, now)]
          /\ \A i \in JobIds :
               job'[i] = IF i = j THEN Claimed(job[j], w, c, now) ELSE Swept[i]
    BY ClaimJobFacts
  <1> DEFINE p == PublicJobs[j]
             q == PublicClaimed(p, c)
  <1>2. PublicJob(Claimed(job[j], w, c, now)) = q
    <2>1. RecordOK(job[j]) /\ now \in Nat /\ PublicJobs[j] = PublicJob(job[j])
      BY PublicAt DEF IInv, TypeOK
    <2> HIDE DEF c
    <2> QED
      BY <1>1, <2>1, ClaimedPublic
  <1>3. fate[c] = "unused"
    BY <1>1 DEF IInv, LeaseInv, TypeOK
  <1>4. j \notin SweptJobs
    <2>1. SUFFICES ASSUME j \in SweptJobs PROVE FALSE
      OBVIOUS
    <2>2. Swept[j] = DeadlineFailed(job[j]) /\ RecordOK(job[j])
      BY <2>1 DEF SweptJobs, Swept, ExpireDeadline, IInv
    <2>3. Swept[j].status = "failed"
      BY <1>1, <2>2, DeadlineFailedOK
    <2> QED
      BY <1>1, <2>3
  <1>5. p.status \in Lifecycle!Waiting /\ ~p.cancel
    BY <1>1, PublicAt, PublicFields
  <1> HIDE DEF q, p, c, F
  <1>6. F = [i \in JobIds |-> F[i]] /\ F[j] = p
    BY <1>4 DEF F, Lifecycle!SweptOf, p
  <1>7. \A i \in JobIds : i # j => PublicJob(job'[i]) = F[i]
    BY <1>1, SweepMaps DEF F
  <1>8. PublicJob(job'[j]) = q
    BY <1>1, <1>2
  <1>9. PublicJobs' = [i \in JobIds |-> PublicJob(job'[i])]
    BY DEF PublicJobs
  <1>10. PublicJobs' = [F EXCEPT ![j] = q]
    BY <1>6, <1>7, <1>8, <1>9
  <1>11. [F EXCEPT ![j] = q] =
         [F EXCEPT ![j].status = "running", ![j].attempt = @ + 1,
                   ![j].token = c]
    BY <1>6 DEF q, PublicClaimed
  <1>12. PublicJobs' = [F EXCEPT ![j].status = "running",
                                 ![j].attempt = @ + 1, ![j].token = c]
    BY <1>10, <1>11, Zenon
  <1>13. fate' = [Lifecycle!FateWithout(SweptJobs) EXCEPT ![c] = "open"]
    BY SweepMaps DEF ClaimJob, c
  <1>14. Lifecycle!Claim(j, c, SweptJobs)
    BY <1>3, <1>4, <1>5, <1>12, <1>13, Zenon DEF Lifecycle!Claim, F, p
  <1> QED
    BY <1>1, <1>14, SweepMaps

\* The two modules mean the same by an absent job.
LEMMA AbsentMaps == PublicJob(Absent) = Lifecycle!Absent
  BY DEF PublicJob, Absent, Lifecycle!Absent

\* A submission makes an absent job wait.
LEMMA SubmitMaps ==
  ASSUME IInv, NEW s \in Specs, Submit(s)
  PROVE  \E j \in JobIds, b \in {x.maxAttempts : x \in Specs}, d \in BOOLEAN :
           Lifecycle!Submit(j, b, d)
  <1>1. PICK j \in JobIds : /\ job[j].status = "absent"
                            /\ job' = [job EXCEPT ![j] = NewJob(s, now)]
    BY DEF Submit
  <1> DEFINE b == s.maxAttempts
             d == (s.deadline # NoDeadline)
  <1>2. PublicJob(NewJob(s, now)) =
          [Lifecycle!Absent EXCEPT !.status = "queued", !.budget = b,
                                   !.dated = d]
    BY NewJobPublic, AbsentMaps DEF IInv, TypeOK
  <1>3. PublicJobs' = [PublicJobs EXCEPT ![j] = PublicJob(NewJob(s, now))]
    BY <1>1, PublicOneJob
  <1>4. PublicJobs[j].status = "absent"
    BY <1>1, PublicAt, PublicFields
  <1>5. d \in BOOLEAN /\ b \in {x.maxAttempts : x \in Specs}
    OBVIOUS
  <1> HIDE DEF b, d
  <1>6. Lifecycle!Submit(j, b, d)
    BY <1>2, <1>3, <1>4, Zenon DEF Submit, Lifecycle!Submit
  <1> QED
    BY <1>5, <1>6

\* Every step of the store is a step of the life cycle or shows nothing.
LEMMA NextMaps == IInv /\ [Next]_vars => [Lifecycle!Next]_(Lifecycle!vars)
  <1> SUFFICES ASSUME IInv, [Next]_vars
               PROVE  Lifecycle!Next \/ UNCHANGED Lifecycle!vars
    OBVIOUS
  <1>1. ASSUME NEW s \in Specs, Submit(s) PROVE Lifecycle!Next
    BY <1>1, SubmitMaps DEF Lifecycle!Next
  <1>2. ASSUME NEW w \in Workers, NEW d \in DomainFilters, Claim(w, d)
        PROVE  Lifecycle!Next
    BY <1>2, ClaimNothingMaps, ClaimJobMaps DEF Claim, Lifecycle!Next
  <1>3. ASSUME NEW j \in JobIds, NEW w \in Workers, NEW t \in Tokens,
               Heartbeat(j, w, t)
        PROVE  Lifecycle!Next \/ UNCHANGED Lifecycle!vars
    BY <1>3, HeartbeatMaps DEF Lifecycle!Next
  <1>4. ASSUME NEW j \in JobIds, NEW w \in Workers, NEW t \in Tokens,
               \/ \E d \in Delays : ReleaseUnstartedClaim(j, w, t, d)
               \/ Succeed(j, w, t)
               \/ Fail(j, w, t)
               \/ CancelClaimed(j, w, t)
        PROVE  Lifecycle!Next
    BY <1>4, ReleaseMaps, SucceedMaps, FailMaps, CancelClaimedMaps
       DEF Lifecycle!Next
  <1>5. ASSUME NEW j \in JobIds, RequestCancel(j) PROVE Lifecycle!Next
    BY <1>5, RequestCancelMaps DEF Lifecycle!Next
  <1>6. ASSUME RecoverExpiredLeases PROVE Lifecycle!Next
    BY <1>6, RecoverMaps DEF Lifecycle!Next
  <1>7. ASSUME Tick \/ UNCHANGED vars PROVE UNCHANGED Lifecycle!vars
    BY <1>7 DEF Tick, vars, Lifecycle!vars, PublicJobs
  <1> QED
    BY <1>1, <1>2, <1>3, <1>4, <1>5, <1>6, <1>7 DEF Next

\* An empty store is an empty life cycle.
LEMMA InitMaps == Init => Lifecycle!Init
  BY AbsentMaps DEF Init, Lifecycle!Init, PublicJobs

\* Every behaviour of the in-memory store, with its clock, its order of claims
\* and its sweeps of overdue jobs, is a behaviour of the abstract life cycle.
THEOREM StoreImplementsLifecycle == Spec => ImplementsLifecycle
  BY InitMaps, NextMaps, IInvHolds, PTL
     DEF Spec, ImplementsLifecycle, Lifecycle!Spec
=============================================================================
