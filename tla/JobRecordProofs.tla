-------------------------- MODULE JobRecordProofs --------------------------
(***************************************************************************)
(* What each method of a job store keeps true of the job it changes: the   *)
(* record stays well formed, its attempts stay within its retry policy and *)
(* its lease is kept, taken or given up as a whole.                        *)
(***************************************************************************)
EXTENDS JobRecord, FiniteSetTheorems, TLAPS

AttemptsOK(r) ==
  r.status # "absent" =>
    /\ r.attempt <= r.spec.maxAttempts
    /\ r.status \in Waiting => r.attempt < r.spec.maxAttempts
    /\ r.status = "running" => r.attempt > 0

RetryOK(r) ==
  r.status = "retry_wait" /\ r.spec.deadline # NoDeadline
    => r.available < r.spec.deadline

RecordOK(r) ==
  /\ r \in JobType
  /\ r.status = "absent" => r = Absent
  /\ r.status # "absent" => r.spec \in Specs
  /\ AttemptsOK(r)
  /\ RetryOK(r)

-----------------------------------------------------------------------------
(* Arithmetic of the retry delay                                           *)

\* A power of two counts the subsets of an interval, hence is a natural.
LEMMA PowerOfTwoIsNat == ASSUME NEW n \in Nat PROVE 2 ^ n \in Nat
  <1>1. IsFiniteSet(1..n) /\ Cardinality(1..n) = n
    BY FS_Interval
  <1>2. /\ IsFiniteSet(SUBSET (1..n))
        /\ Cardinality(SUBSET (1..n)) = 2 ^ Cardinality(1..n)
    BY <1>1, FS_SUBSET
  <1>3. Cardinality(SUBSET (1..n)) \in Nat
    BY <1>2, FS_CardinalityType
  <1> QED
    BY <1>1, <1>2, <1>3, Zenon

\* The backoff of a job that has been attempted is a natural number.
LEMMA DelayIsNat ==
  ASSUME NEW s \in SpecType, NEW a \in Nat, a > 0
  PROVE  DelayAfterAttempt(s, a) \in Nat
  <1>1. 2 ^ (a - 1) \in Nat
    BY PowerOfTwoIsNat
  <1>2. \A x \in Nat : s.initialBackoff * x \in Nat
    BY DEF SpecType
  <1>3. s.initialBackoff * 2 ^ (a - 1) \in Nat
    BY <1>1, <1>2, Zenon
  <1>4. s.maxBackoff \in Nat
    BY DEF SpecType
  <1> QED
    BY <1>3, <1>4, Zenon DEF DelayAfterAttempt

-----------------------------------------------------------------------------
(* What each method makes of one record                                    *)

USE DEF Waiting, Terminal, Live

\* s is r with its lease kept ...
SameLease(r, s) ==
  /\ s.token = r.token /\ s.worker = r.worker
  /\ s.status = "running" <=> r.status = "running"

\* ... or given up.
NoLease(s) == s.token = 0 /\ s.worker = NoWorker /\ s.status # "running"

SameJob(r, s) == s.spec = r.spec /\ r.status # "absent" /\ s.status # "absent"

\* The types that the lemmas below need of a job in the store.
RecordTypes(r) ==
  /\ r \in JobType
  /\ r.attempt \in Nat /\ r.cancel \in BOOLEAN
  /\ r.spec \in Specs /\ r.spec \in SpecType
  /\ r.spec.maxAttempts \in Nat
  /\ NoSpec \notin Specs /\ NoWorker \notin Workers

\* The fields of a well-formed record have their types.
LEMMA RecordTypesHold ==
  ASSUME NEW r, RecordOK(r), r.status # "absent" PROVE RecordTypes(r)
  BY ConstantAssumption DEF RecordOK, RecordTypes, JobType, SpecType

\* Failing a record for its deadline keeps it well formed.
LEMMA DeadlineFailedOK ==
  ASSUME NEW r, RecordOK(r), r.status # "absent"
  PROVE  LET s == DeadlineFailed(r)
         IN RecordOK(s) /\ NoLease(s) /\ SameJob(r, s) /\ s.cancel = r.cancel
                        /\ s.status = "failed" /\ s.attempt = r.attempt
  BY ConstantAssumption
     DEF RecordOK, JobType, AttemptsOK, RetryOK, DeadlineFailed, ClearLease,
         NoLease, SameJob, SpecType

\* The sweep of claim fails overdue jobs and leaves the others alone.
LEMMA ExpireDeadlineOK ==
  ASSUME NEW r, RecordOK(r), NEW at \in Nat
  PROVE  LET s == ExpireDeadline(r, at)
         IN  \/ s = r
             \/ /\ r.status \in Live /\ DeadlineExpired(r, at)
                /\ s.status = "failed"
                /\ RecordOK(s) /\ NoLease(s) /\ SameJob(r, s)
                /\ s.cancel = r.cancel /\ s.attempt = r.attempt
  BY DeadlineFailedOK DEF ExpireDeadline

\* A claimed job has used one attempt more, within its budget.
LEMMA ClaimedOK ==
  ASSUME NEW r, RecordOK(r), r.status \in Waiting, NEW at \in Nat,
         NEW w \in Workers, NEW t \in Tokens
  PROVE  LET s == Claimed(r, w, t, at)
         IN  /\ RecordOK(s) /\ SameJob(r, s) /\ s.cancel = r.cancel
             /\ s.status = "running" /\ s.token = t /\ s.worker = w
             /\ s.attempt = r.attempt + 1
  <1>1. RecordTypes(r) /\ at + LeaseSeconds \in Nat
    BY RecordTypesHold, ConstantAssumption
  <1> DEFINE s == Claimed(r, w, t, at)
  <1>2a. \A a, e \in Nat :
           [r EXCEPT !.status = "running", !.attempt = a, !.worker = w,
                     !.token = t, !.expires = e] \in JobType
    BY <1>1 DEF RecordTypes, JobType
  <1>2b. s \in JobType
    <2>1. r.attempt + 1 \in Nat
      BY <1>1 DEF RecordTypes
    <2> QED
      BY <1>1, <1>2a, <2>1, Zenon DEF Claimed
  <1>2. /\ s \in JobType
        /\ s.spec = r.spec /\ s.cancel = r.cancel
        /\ s.status = "running" /\ s.token = t /\ s.worker = w
        /\ s.attempt = r.attempt + 1
    BY <1>1, <1>2b DEF RecordTypes, JobType, Claimed
  <1>3. r.attempt < r.spec.maxAttempts
    BY DEF RecordOK, AttemptsOK
  <1> HIDE DEF s
  <1>4. AttemptsOK(s)
    BY <1>1, <1>2, <1>3 DEF RecordTypes, AttemptsOK
  <1> QED
    BY <1>1, <1>2, <1>4 DEF RecordOK, RecordTypes, RetryOK, SameJob, s

\* A heartbeat renews the lease, or fails an overdue job.
LEMMA HeartbeatenOK ==
  ASSUME NEW r, RecordOK(r), r.status = "running", NEW at \in Nat
  PROVE  LET s == Heartbeaten(r, at)
         IN  /\ RecordOK(s) /\ SameJob(r, s) /\ s.cancel = r.cancel
             /\ s.attempt = r.attempt
             /\ \/ SameLease(r, s) /\ s.status = "running"
                \/ NoLease(s) /\ s.status = "failed" /\ DeadlineExpired(r, at)
  <1>1. CASE DeadlineExpired(r, at)
    BY <1>1, DeadlineFailedOK DEF Heartbeaten
  <1>2. CASE ~DeadlineExpired(r, at)
    BY <1>2, ConstantAssumption
       DEF RecordOK, JobType, AttemptsOK, RetryOK, Heartbeaten, SameJob,
           SameLease, SpecType
  <1> QED
    BY <1>1, <1>2

\* A released claim gives its attempt back and waits with one left.
LEMMA ReleasedOK ==
  ASSUME NEW r, RecordOK(r), r.status = "running", NEW at \in Nat,
         NEW delay \in Delays
  PROVE  LET s == Released(r, delay, at)
         IN  /\ RecordOK(s) /\ NoLease(s) /\ SameJob(r, s)
             /\ s.cancel = r.cancel
             /\ s.status = "queued" /\ s.attempt = r.attempt - 1
  <1>1. RecordTypes(r) /\ at + delay \in Nat
    BY RecordTypesHold, ConstantAssumption
  <1>2. r.attempt > 0 /\ r.attempt <= r.spec.maxAttempts
    BY DEF RecordOK, AttemptsOK
  <1> DEFINE s == Released(r, delay, at)
  <1>3a. \A a, b \in Nat :
           [ClearLease(r) EXCEPT !.status = "queued", !.attempt = a,
                                 !.available = b] \in JobType
    BY <1>1 DEF RecordTypes, JobType, ClearLease
  <1>3b. s \in JobType
    <2>1. /\ r.attempt - 1 \in Nat
          /\ r.attempt - 1 = IF r.attempt > 0 THEN r.attempt - 1 ELSE 0
      BY <1>1, <1>2 DEF RecordTypes
    <2> QED
      BY <1>1, <1>3a, <2>1, Zenon DEF Released
  <1>3. /\ s \in JobType
        /\ s.spec = r.spec /\ s.cancel = r.cancel /\ s.status = "queued"
        /\ s.token = 0 /\ s.worker = NoWorker
        /\ s.attempt = r.attempt - 1
    BY <1>1, <1>2, <1>3b DEF RecordTypes, JobType, Released, ClearLease
  <1> HIDE DEF s
  <1>4. AttemptsOK(s)
    BY <1>1, <1>2, <1>3 DEF RecordTypes, AttemptsOK
  <1> QED
    BY <1>1, <1>3, <1>4
       DEF RecordOK, RecordTypes, RetryOK, SameJob, NoLease, s

\* A success is committed only without a cancellation and in time.
LEMMA SucceededOK ==
  ASSUME NEW r, RecordOK(r), r.status = "running", NEW at \in Nat
  PROVE  LET s == Succeeded(r, at)
         IN  /\ RecordOK(s) /\ NoLease(s) /\ SameJob(r, s)
             /\ s.cancel = r.cancel
             /\ \/ r.cancel /\ s.status = "cancelled"
                \/ ~r.cancel /\ DeadlineExpired(r, at) /\ s.status = "failed"
                \/ ~r.cancel /\ ~DeadlineExpired(r, at) /\ s.status = "succeeded"
             /\ s.attempt = r.attempt
  <1>0. r.cancel \in BOOLEAN
    BY DEF RecordOK, JobType
  <1>1. CASE ~r.cancel /\ DeadlineExpired(r, at)
    BY <1>1, DeadlineFailedOK DEF Succeeded
  <1>2. CASE r.cancel \/ ~DeadlineExpired(r, at)
    BY <1>0, <1>2, ConstantAssumption
       DEF RecordOK, JobType, AttemptsOK, RetryOK, Succeeded, ClearLease,
           NoLease, SameJob, SpecType
  <1> QED
    BY <1>1, <1>2

\* A failure is retried only with an attempt left and before the deadline.
LEMMA FailedOK ==
  ASSUME NEW r, RecordOK(r), r.status = "running", NEW at \in Nat
  PROVE  LET s == Failed(r, at)
         IN  /\ RecordOK(s) /\ NoLease(s) /\ SameJob(r, s)
             /\ s.cancel = r.cancel
             /\ \/ r.cancel /\ s.status = "cancelled"
                \/ /\ ~r.cancel /\ s.status = "failed"
                   /\ \/ r.attempt >= r.spec.maxAttempts
                      \/ r.spec.deadline # NoDeadline
                \/ /\ ~r.cancel /\ s.status = "retry_wait"
                   /\ r.attempt < r.spec.maxAttempts
             /\ s.attempt = r.attempt
  <1> DEFINE retryAt == at + DelayAfterAttempt(r.spec, r.attempt)
             tooLate == /\ r.spec.deadline # NoDeadline
                        /\ retryAt >= r.spec.deadline
  <1>1. /\ r.cancel \in BOOLEAN /\ r.attempt \in Nat /\ r.attempt > 0
        /\ r.spec \in SpecType /\ r.spec.maxAttempts \in Nat
    BY ConstantAssumption DEF RecordOK, JobType, AttemptsOK, SpecType
  <1>2. retryAt \in Nat
    BY <1>1, DelayIsNat
  <1> HIDE DEF retryAt
  <1>3. CASE ~r.cancel /\ DeadlineExpired(r, at)
    BY <1>3, DeadlineFailedOK DEF Failed, DeadlineExpired
  <1>4. CASE r.cancel
    BY <1>1, <1>4, ConstantAssumption
       DEF RecordOK, JobType, AttemptsOK, RetryOK, Failed, ClearLease,
           NoLease, SameJob
  <1>5. CASE ~r.cancel /\ ~DeadlineExpired(r, at)
             /\ r.attempt >= r.spec.maxAttempts
    BY <1>1, <1>5, ConstantAssumption
       DEF RecordOK, JobType, AttemptsOK, RetryOK, Failed, ClearLease,
           NoLease, SameJob
  <1>6. CASE ~r.cancel /\ ~DeadlineExpired(r, at)
             /\ r.attempt < r.spec.maxAttempts /\ tooLate
    <2>1. Failed(r, at) = DeadlineFailed(r)
      BY <1>1, <1>6 DEF Failed, retryAt
    <2> QED
      BY <1>6, <2>1, DeadlineFailedOK
  <1>7. CASE ~r.cancel /\ ~DeadlineExpired(r, at)
             /\ r.attempt < r.spec.maxAttempts /\ ~tooLate
    <2>1. Failed(r, at) = [ClearLease(r) EXCEPT !.status = "retry_wait",
                         !.error = "error", !.available = retryAt]
      BY <1>1, <1>7 DEF Failed, retryAt
    <2>2. r.spec.deadline # NoDeadline => retryAt < r.spec.deadline
      BY <1>1, <1>2, <1>7 DEF SpecType
    <2> DEFINE s == Failed(r, at)
    <2>3. RecordTypes(r)
      BY RecordTypesHold
    <2>4a. \A a \in Nat :
             [ClearLease(r) EXCEPT !.status = "retry_wait",
                !.error = "error", !.available = a] \in JobType
      BY <2>3 DEF RecordTypes, JobType, ClearLease
    <2>4b. s \in JobType
      BY <1>2, <2>1, <2>4a, Zenon
    <2>4. /\ s \in JobType
          /\ s.spec = r.spec /\ s.cancel = r.cancel
          /\ s.status = "retry_wait" /\ s.token = 0 /\ s.worker = NoWorker
          /\ s.attempt = r.attempt /\ s.available = retryAt
      BY <1>2, <2>1, <2>3, <2>4b DEF RecordTypes, JobType, ClearLease
    <2> HIDE DEF s
    <2>5. AttemptsOK(s) /\ RetryOK(s)
      BY <1>7, <2>2, <2>3, <2>4 DEF RecordTypes, AttemptsOK, RetryOK
    <2> QED
      BY <1>7, <2>3, <2>4, <2>5
         DEF RecordOK, RecordTypes, SameJob, NoLease, s
  <1> QED
    BY <1>1, <1>3, <1>4, <1>5, <1>6, <1>7

\* A cancellation request ends a waiting job and marks a running one.
LEMMA CancelRequestedOK ==
  ASSUME NEW r, RecordOK(r), r.status \in Live,
         r.status # "running" => NoLease(r)
  PROVE  LET s == CancelRequested(r)
         IN  /\ RecordOK(s) /\ SameLease(r, s) /\ SameJob(r, s)
             /\ s.cancel /\ s.attempt = r.attempt
             /\ s.status = IF r.status \in Waiting THEN "cancelled"
                                                   ELSE r.status
  BY ConstantAssumption
     DEF RecordOK, JobType, AttemptsOK, RetryOK, CancelRequested, SameLease,
         SameJob, SpecType

\* The holder of a claim may cancel its job.
LEMMA ClaimCancelledOK ==
  ASSUME NEW r, RecordOK(r), r.status = "running"
  PROVE  LET s == ClaimCancelled(r)
         IN  /\ RecordOK(s) /\ NoLease(s) /\ SameJob(r, s)
             /\ s.cancel /\ s.status = "cancelled" /\ s.attempt = r.attempt
  BY ConstantAssumption
     DEF RecordOK, JobType, AttemptsOK, RetryOK, ClaimCancelled, ClearLease,
         NoLease, SameJob, SpecType

\* Recovery requeues a job only when an attempt is left.
LEMMA RecoveredOK ==
  ASSUME NEW r, RecordOK(r), r.status = "running", NEW at \in Nat
  PROVE  LET s == Recovered(r, at)
         IN  /\ RecordOK(s) /\ NoLease(s) /\ SameJob(r, s)
             /\ s.cancel = r.cancel /\ s.attempt = r.attempt
             /\ \/ r.cancel /\ s.status = "cancelled"
                \/ /\ ~r.cancel /\ s.status = "failed"
                   /\ DeadlineExpired(r, at) \/ r.attempt >= r.spec.maxAttempts
                \/ /\ ~r.cancel /\ s.status = "queued"
                   /\ ~DeadlineExpired(r, at) /\ r.attempt < r.spec.maxAttempts
  <1>0. RecordTypes(r)
    BY RecordTypesHold
  <1>1. CASE ~r.cancel /\ DeadlineExpired(r, at)
    BY <1>1, DeadlineFailedOK DEF Recovered
  <1>2. CASE r.cancel
    BY <1>0, <1>2
       DEF RecordOK, RecordTypes, JobType, AttemptsOK, RetryOK, Recovered,
           ClearLease, NoLease, SameJob
  <1>3. CASE /\ ~r.cancel /\ ~DeadlineExpired(r, at)
             /\ r.attempt >= r.spec.maxAttempts
    BY <1>0, <1>3
       DEF RecordOK, RecordTypes, JobType, AttemptsOK, RetryOK, Recovered,
           ClearLease, NoLease, SameJob
  <1>4. CASE /\ ~r.cancel /\ ~DeadlineExpired(r, at)
             /\ r.attempt < r.spec.maxAttempts
    BY <1>0, <1>4
       DEF RecordOK, RecordTypes, JobType, AttemptsOK, RetryOK, Recovered,
           ClearLease, NoLease, SameJob
  <1> QED
    BY <1>0, <1>1, <1>2, <1>3, <1>4 DEF RecordTypes

-----------------------------------------------------------------------------
(* What the methods make of the public part of a job                       *)

PublicType ==
  [status : Live \cup Terminal \cup {"absent"}, attempt : Nat, budget : Nat,
   dated : BOOLEAN, cancel : BOOLEAN, token : Nat]

\* The fields of the public part of a well-formed record.
LEMMA PublicFields ==
  ASSUME NEW r, RecordOK(r)
  PROVE  LET p == PublicJob(r)
         IN  /\ p \in PublicType
             /\ p.status = r.status /\ p.attempt = r.attempt
             /\ p.budget = IF r.status = "absent" THEN 1 ELSE r.spec.maxAttempts
             /\ p.dated = (r.status # "absent" /\ r.spec.deadline # NoDeadline)
             /\ p.cancel = r.cancel /\ p.token = r.token
  <1>1. /\ r.status \in Live \cup Terminal \cup {"absent"} /\ r.attempt \in Nat
        /\ r.cancel \in BOOLEAN /\ r.token \in Nat
    BY DEF RecordOK, JobType, Tokens
  <1>2. (IF r.status = "absent" THEN 1 ELSE r.spec.maxAttempts) \in Nat
    BY ConstantAssumption DEF RecordOK, SpecType
  <1>3. (r.status # "absent" /\ r.spec.deadline # NoDeadline) \in BOOLEAN
    OBVIOUS
  <1> QED
    BY <1>1, <1>2, <1>3, Zenon DEF PublicJob, PublicType

\* Public parts with the same fields are the same.
LEMMA SamePublic ==
  ASSUME NEW p \in PublicType, NEW q \in PublicType,
         p.status = q.status, p.attempt = q.attempt, p.budget = q.budget,
         p.dated = q.dated, p.cancel = q.cancel, p.token = q.token
  PROVE  p = q
  BY DEF PublicType

\* p stops being claimed and takes status s.
Unclaimed(p, s) == [p EXCEPT !.status = s, !.token = 0]

LEMMA UnclaimedFields ==
  ASSUME NEW p \in PublicType, NEW s \in Live \cup Terminal
  PROVE  LET q == Unclaimed(p, s)
         IN  /\ q \in PublicType
             /\ q.status = s /\ q.attempt = p.attempt /\ q.budget = p.budget
             /\ q.dated = p.dated /\ q.cancel = p.cancel /\ q.token = 0
  BY DEF PublicType, Unclaimed

\* A record that loses its lease and changes its status loses nothing else.
LEMMA SettledPublic ==
  ASSUME NEW r, NEW s, RecordOK(r), RecordOK(s), SameJob(r, s), NoLease(s),
         s.attempt = r.attempt, s.cancel = r.cancel
  PROVE  PublicJob(s) = Unclaimed(PublicJob(r), s.status)
  <1>1. s.status \in Live \cup Terminal
    BY DEF RecordOK, JobType, SameJob
  <1> QED
    BY <1>1, PublicFields, UnclaimedFields, SamePublic DEF SameJob, NoLease

\* A release also gives the attempt back.
LEMMA ReleasedPublic ==
  ASSUME NEW r, RecordOK(r), r.status = "running", NEW at \in Nat,
         NEW d \in Delays
  PROVE  PublicJob(Released(r, d, at)) =
           [Unclaimed(PublicJob(r), "queued") EXCEPT !.attempt = @ - 1]
  <1> DEFINE new == Released(r, d, at)
             p == Unclaimed(PublicJob(r), "queued")
             q == [p EXCEPT !.attempt = @ - 1]
  <1>1. /\ RecordOK(new) /\ NoLease(new) /\ SameJob(r, new)
        /\ new.cancel = r.cancel
        /\ new.status = "queued" /\ new.attempt = r.attempt - 1
    BY ReleasedOK
  <1> HIDE DEF new, p
  <1>2. /\ p \in PublicType /\ p.status = "queued" /\ p.attempt = r.attempt
        /\ p.budget = PublicJob(r).budget /\ p.dated = PublicJob(r).dated
        /\ p.cancel = r.cancel /\ p.token = 0
    <2>1. "queued" \in Live \cup Terminal
      OBVIOUS
    <2> QED
      BY <2>1, PublicFields, UnclaimedFields DEF p
  <1>3. PublicJob(new).attempt \in Nat /\ new.attempt \in Nat
    BY <1>1, PublicFields DEF PublicType
  <1>4. /\ q \in PublicType /\ q.status = "queued" /\ q.attempt = new.attempt
        /\ q.budget = p.budget /\ q.dated = p.dated /\ q.cancel = p.cancel
        /\ q.token = 0
    BY <1>1, <1>2, <1>3 DEF PublicType
  <1> HIDE DEF q
  <1>5. PublicJob(new) = q
    BY <1>1, <1>2, <1>4, PublicFields, SamePublic DEF SameJob, NoLease
  <1> QED
    BY <1>5 DEF q, p, new

\* A cancellation by the holder also leaves the mark of a request.
LEMMA ClaimCancelledPublic ==
  ASSUME NEW r, RecordOK(r), r.status = "running"
  PROVE  PublicJob(ClaimCancelled(r)) =
           [Unclaimed(PublicJob(r), "cancelled") EXCEPT !.cancel = TRUE]
  <1> DEFINE new == ClaimCancelled(r)
             p == Unclaimed(PublicJob(r), "cancelled")
             q == [p EXCEPT !.cancel = TRUE]
  <1>1. /\ RecordOK(new) /\ NoLease(new) /\ SameJob(r, new)
        /\ new.cancel /\ new.status = "cancelled" /\ new.attempt = r.attempt
    BY ClaimCancelledOK
  <1> HIDE DEF new, p
  <1>2. /\ p \in PublicType /\ p.status = "cancelled" /\ p.attempt = r.attempt
        /\ p.budget = PublicJob(r).budget /\ p.dated = PublicJob(r).dated
        /\ p.token = 0
    <2>1. "cancelled" \in Live \cup Terminal
      OBVIOUS
    <2> QED
      BY <2>1, PublicFields, UnclaimedFields DEF p
  <1>3. /\ q \in PublicType /\ q.status = p.status /\ q.attempt = p.attempt
        /\ q.budget = p.budget /\ q.dated = p.dated /\ q.cancel = TRUE
        /\ q.token = 0
    BY <1>2 DEF PublicType
  <1> HIDE DEF q
  <1>4. PublicJob(new).cancel = TRUE
    BY <1>1, PublicFields DEF PublicType
  <1>5. PublicJob(new) = q
    <2>1. /\ PublicJob(new) \in PublicType
          /\ PublicJob(new).status = "cancelled"
          /\ PublicJob(new).attempt = r.attempt
          /\ PublicJob(new).budget = PublicJob(r).budget
          /\ PublicJob(new).dated = PublicJob(r).dated
          /\ PublicJob(new).token = 0
      BY <1>1, PublicFields DEF SameJob, NoLease
    <2> QED
      BY <1>2, <1>3, <1>4, <2>1, SamePublic
  <1> QED
    BY <1>5 DEF q, p, new

\* A request marks the job, and ends it when it waits.
LEMMA CancelRequestedPublic ==
  ASSUME NEW r, RecordOK(r), r.status \in Live,
         r.status # "running" => NoLease(r)
  PROVE  PublicJob(CancelRequested(r)) =
           [PublicJob(r) EXCEPT
              !.cancel = TRUE,
              !.status = IF @ \in Waiting THEN "cancelled" ELSE @]
  <1> DEFINE new == CancelRequested(r)
             p == PublicJob(r)
             q == [p EXCEPT !.cancel = TRUE,
                            !.status = IF @ \in Waiting THEN "cancelled" ELSE @]
  <1>1. /\ RecordOK(new) /\ SameLease(r, new) /\ SameJob(r, new)
        /\ new.cancel /\ new.attempt = r.attempt
        /\ new.status = IF r.status \in Waiting THEN "cancelled" ELSE r.status
    BY CancelRequestedOK
  <1> HIDE DEF new, p
  <1>2. /\ p \in PublicType /\ p.status = r.status
        /\ p.attempt = r.attempt /\ p.token = r.token
    BY PublicFields DEF p
  <1>3. /\ q \in PublicType /\ q.attempt = p.attempt
        /\ q.status = IF p.status \in Waiting THEN "cancelled" ELSE p.status
        /\ q.budget = p.budget /\ q.dated = p.dated /\ q.cancel = TRUE
        /\ q.token = p.token
    BY <1>2 DEF PublicType
  <1> HIDE DEF q
  <1>4. PublicJob(new).cancel = TRUE
    BY <1>1, PublicFields DEF PublicType
  <1>5. PublicJob(new) = q
    <2>1. /\ PublicJob(new) \in PublicType
          /\ PublicJob(new).status = new.status
          /\ PublicJob(new).attempt = p.attempt
          /\ PublicJob(new).budget = p.budget
          /\ PublicJob(new).dated = p.dated
          /\ PublicJob(new).token = p.token
      BY <1>1, PublicFields DEF SameJob, SameLease, p
    <2>2. q.status = new.status
      BY <1>1, <1>2, <1>3
    <2> QED
      BY <1>3, <1>4, <2>1, <2>2, SamePublic
  <1> QED
    BY <1>5 DEF q, p, new

\* A claim uses an attempt and sets the token.
PublicClaimed(p, t) ==
  [p EXCEPT !.status = "running", !.attempt = @ + 1, !.token = t]

LEMMA ClaimedPublic ==
  ASSUME NEW r, RecordOK(r), r.status \in Waiting, NEW at \in Nat,
         NEW w \in Workers, NEW t \in Tokens
  PROVE  PublicJob(Claimed(r, w, t, at)) = PublicClaimed(PublicJob(r), t)
  <1> DEFINE new == Claimed(r, w, t, at)
             p == PublicJob(r)
             q == PublicClaimed(p, t)
  <1>1. /\ RecordOK(new) /\ SameJob(r, new) /\ new.cancel = r.cancel
        /\ new.status = "running" /\ new.token = t
        /\ new.attempt = r.attempt + 1
    BY ClaimedOK
  <1>2. t \in Nat /\ p.attempt \in Nat /\ p \in PublicType
    BY PublicFields DEF Tokens, PublicType
  <1> HIDE DEF new
  <1>3. /\ PublicJob(new) \in PublicType
        /\ PublicJob(new).status = "running"
        /\ PublicJob(new).attempt = p.attempt + 1
        /\ PublicJob(new).budget = p.budget
        /\ PublicJob(new).dated = p.dated
        /\ PublicJob(new).cancel = p.cancel
        /\ PublicJob(new).token = t
    BY <1>1, PublicFields DEF SameJob
  <1> HIDE DEF p
  <1>4. /\ q \in PublicType /\ q.status = "running" /\ q.attempt = p.attempt + 1
        /\ q.budget = p.budget /\ q.dated = p.dated /\ q.cancel = p.cancel
        /\ q.token = t
    <2>1. \A a \in Nat :
            LET x == [p EXCEPT !.status = "running", !.attempt = a, !.token = t]
            IN  /\ x \in PublicType /\ x.status = "running" /\ x.attempt = a
                /\ x.budget = p.budget /\ x.dated = p.dated
                /\ x.cancel = p.cancel /\ x.token = t
      BY <1>2 DEF PublicType
    <2>2. p.attempt + 1 \in Nat
      BY <1>2
    <2> QED
      BY <2>1, <2>2, Zenon DEF PublicClaimed
  <1> HIDE DEF q
  <1>5. PublicJob(new) = q
    BY <1>3, <1>4, SamePublic
  <1> QED
    BY <1>5 DEF q, p, new

\* A heartbeat in time shows nothing.
LEMMA HeartbeatenPublic ==
  ASSUME NEW r, RecordOK(r), r.status = "running", NEW at \in Nat
  PROVE  PublicJob(Heartbeaten(r, at)) =
           IF DeadlineExpired(r, at) THEN Unclaimed(PublicJob(r), "failed")
                                     ELSE PublicJob(r)
  <1> DEFINE s == Heartbeaten(r, at)
  <1>1. CASE DeadlineExpired(r, at)
    <2>1. s = DeadlineFailed(r)
      BY <1>1 DEF Heartbeaten
    <2>2. s.status = "failed" /\ PublicJob(s) = Unclaimed(PublicJob(r), s.status)
      BY <2>1, DeadlineFailedOK, SettledPublic
    <2> QED
      BY <1>1, <2>2, Zenon
  <1>2. CASE ~DeadlineExpired(r, at)
    <2>1. /\ RecordOK(s) /\ SameJob(r, s) /\ s.cancel = r.cancel
          /\ s.attempt = r.attempt /\ SameLease(r, s) /\ s.status = "running"
      BY <1>2, HeartbeatenOK
    <2> HIDE DEF s
    <2>2. PublicJob(s) = PublicJob(r)
      BY <2>1, PublicFields, SamePublic DEF SameJob, SameLease
    <2> QED
      BY <1>2, <2>2, Zenon DEF s
  <1> QED
    BY <1>1, <1>2

\* A recovery gives way to a cancellation, to the deadline and to the budget.
LEMMA RecoveredPublic ==
  ASSUME NEW r, RecordOK(r), r.status = "running", NEW at \in Nat
  PROVE  LET p == PublicJob(r)
         IN  PublicJob(Recovered(r, at)) =
               IF p.cancel THEN Unclaimed(p, "cancelled")
               ELSE IF DeadlineExpired(r, at) \/ p.attempt >= p.budget
                 THEN Unclaimed(p, "failed")
               ELSE Unclaimed(p, "queued")
  <1> DEFINE s == Recovered(r, at)
             p == PublicJob(r)
             late == DeadlineExpired(r, at) \/ p.attempt >= p.budget
  <1>1. /\ RecordOK(s) /\ NoLease(s) /\ SameJob(r, s)
        /\ s.cancel = r.cancel /\ s.attempt = r.attempt
        /\ \/ r.cancel /\ s.status = "cancelled"
           \/ /\ ~r.cancel /\ s.status = "failed"
              /\ DeadlineExpired(r, at) \/ r.attempt >= r.spec.maxAttempts
           \/ /\ ~r.cancel /\ s.status = "queued"
              /\ ~DeadlineExpired(r, at) /\ r.attempt < r.spec.maxAttempts
    BY RecoveredOK
  <1>2. /\ p.cancel = r.cancel /\ p.attempt = r.attempt
        /\ p.budget = r.spec.maxAttempts
        /\ p.attempt \in Nat /\ p.budget \in Nat
    BY PublicFields DEF PublicType
  <1>3. PublicJob(s) = Unclaimed(p, s.status)
    BY <1>1, SettledPublic
  <1>4. /\ p.cancel => s.status = "cancelled"
        /\ ~p.cancel /\ late => s.status = "failed"
        /\ ~p.cancel /\ ~late => s.status = "queued"
    BY <1>1, <1>2
  <1> HIDE DEF s, p, late
  <1>5. PublicJob(s) = IF p.cancel THEN Unclaimed(p, "cancelled")
                       ELSE IF late THEN Unclaimed(p, "failed")
                       ELSE Unclaimed(p, "queued")
    BY <1>3, <1>4, Zenon
  <1> QED
    BY <1>5, Zenon DEF s, p, late

\* A new job is well formed, and its public part is that of an absent job
\* with the budget and the deadline of its spec.
LEMMA NewJobPublic ==
  ASSUME NEW s \in Specs, NEW at \in Nat
  PROVE  /\ RecordOK(NewJob(s, at)) /\ s.maxAttempts \in Nat
         /\ PublicJob(NewJob(s, at)) =
              [PublicJob(Absent) EXCEPT
                 !.status = "queued", !.budget = s.maxAttempts,
                 !.dated = (s.deadline # NoDeadline)]
  <1> DEFINE new == NewJob(s, at)
             b == s.maxAttempts
             d == (s.deadline # NoDeadline)
             a == PublicJob(Absent)
             q == [a EXCEPT !.status = "queued", !.budget = b, !.dated = d]
  <1>1. s.maxAttempts \in Nat /\ s.maxAttempts > 0
    BY ConstantAssumption DEF SpecType
  <1>2. /\ new \in JobType /\ new.status = "queued" /\ new.spec = s
        /\ new.attempt = 0 /\ new.token = 0 /\ new.cancel = FALSE
    BY DEF NewJob, Absent, JobType
  <1>3. Absent \in JobType /\ Absent.status = "absent" /\ Absent.attempt = 0
        /\ Absent.cancel = FALSE /\ Absent.token = 0
    BY DEF Absent, JobType
  <1>4. RecordOK(Absent)
    BY <1>3 DEF RecordOK, AttemptsOK, RetryOK
  <1>5. d \in BOOLEAN
    OBVIOUS
  <1> HIDE DEF new
  <1>6. RecordOK(new)
    BY <1>1, <1>2 DEF RecordOK, AttemptsOK, RetryOK
  <1>7. a \in PublicType /\ a.attempt = 0 /\ a.cancel = FALSE /\ a.token = 0
    BY <1>3, <1>4, PublicFields
  <1> HIDE DEF b, d, a
  <1>8. /\ q \in PublicType /\ q.status = "queued" /\ q.attempt = a.attempt
        /\ q.budget = b /\ q.dated = d /\ q.cancel = a.cancel
        /\ q.token = a.token
    BY <1>1, <1>5, <1>7 DEF PublicType, b
  <1> HIDE DEF q
  <1>9. /\ PublicJob(new) \in PublicType
        /\ PublicJob(new).status = "queued"
        /\ PublicJob(new).attempt = 0
        /\ PublicJob(new).budget = b
        /\ PublicJob(new).dated = d
        /\ PublicJob(new).cancel = FALSE
        /\ PublicJob(new).token = 0
    BY <1>2, <1>6, PublicFields DEF b, d
  <1>10. PublicJob(new) = q
    BY <1>7, <1>8, <1>9, SamePublic
  <1> QED
    BY <1>1, <1>6, <1>10 DEF q, a, b, d, new
=============================================================================
