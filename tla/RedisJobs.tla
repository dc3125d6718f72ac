----------------------------- MODULE RedisJobs -----------------------------
(***************************************************************************)
(* RedisDurableJobStore of processual_api/execution/redis_store.py: the    *)
(* jobs are hashes, the waiting ones are indexed in a sorted set "queue"   *)
(* by available_at and the running ones in a sorted set "running" by       *)
(* lease_expires_at.  Every await on the Redis client is a round trip      *)
(* during which other clients act.                                         *)
(*                                                                         *)
(* WATCH ... MULTI ... EXEC either commits against the very values it read *)
(* or is retried: such a transaction is one action, together with the      *)
(* reads under the WATCH, and losing it to contention until the retry      *)
(* budget is spent is an action that changes nothing.  What the code does  *)
(* outside the WATCH is separate: reading the server clock (_now), reading *)
(* the indexes, reading jobs one by one (get), and the plain ZREM of claim.*)
(* Jobs are never deleted, so "job not found" does not arise.              *)
(***************************************************************************)
EXTENDS JobRecord

CONSTANT MaxPending   \* bound on the mutations in flight at one time

ASSUME PendingAssumption == MaxPending \in Nat

VARIABLES
  job,      \* the job hashes
  queue,    \* sorted set: member -> score
  running,  \* sorted set: member -> score
  idem,     \* the idempotency keys
  now,      \* the clock of the Redis server
  claims,   \* how many lease tokens have been handed out
  fate,     \* history: what became of each claim
  pending,  \* calls of _mutate_claimed that have read the clock
  scan,     \* where each worker is in claim
  sweep     \* where recover_expired_leases is

vars == <<job, queue, running, idem, now, claims, fate, pending, scan, sweep>>

store == <<job, queue, running, idem, claims, fate>>

Zadd(z, j, score) ==
  [i \in DOMAIN z \cup {j} |-> IF i = j THEN score ELSE z[i]]
Zrem(z, j) == [i \in DOMAIN z \ {j} |-> z[i]]
ZrangeUpTo(z, score) == {i \in DOMAIN z : z[i] <= score}

Nothing == [i \in {} |-> 0]   \* the empty sorted set
Idle == [pc |-> "idle", at |-> 0, domains |-> {}, ids |-> {},
         found |-> Nothing, cur |-> NoJob]
NoSweep == [at |-> 0, ids |-> {}]

Init ==
  /\ job = [j \in JobIds |-> Absent]
  /\ queue = Nothing
  /\ running = Nothing
  /\ idem = [k \in Keys |-> NoJob]
  /\ now = 0
  /\ claims = 0
  /\ fate = [t \in Tokens |-> "unused"]
  /\ pending = {}
  /\ scan = [w \in Workers |-> Idle]
  /\ sweep = NoSweep

\* EXEC: job j becomes new, the indexes z (queue) and y (running).
Commit(j, new, z, y) ==
  /\ job' = [job EXCEPT ![j] = new]
  /\ queue' = z
  /\ running' = y

\* History: the claim that j gives up without a call of its holder.
FateTaken(j, new) ==
  [t \in Tokens |->
     IF job[j].token = t /\ new.token # t THEN "lost" ELSE fate[t]]

Submit(s) ==
  /\ idem[s.key] = NoJob
  /\ \E j \in JobIds :
       /\ job[j].status = "absent"
       /\ Commit(j, NewJob(s, now), Zadd(queue, j, now), running)
       /\ idem' = [idem EXCEPT ![s.key] = j]
  /\ UNCHANGED <<now, claims, fate, pending, scan, sweep>>

-----------------------------------------------------------------------------
(* claim                                                                   *)

ClaimTime(w, domains) ==
  /\ scan[w].pc = "idle"
  /\ scan' = [scan EXCEPT ![w] = [Idle EXCEPT !.pc = "range", !.at = now,
                                              !.domains = domains]]
  /\ UNCHANGED <<store, now, pending, sweep>>

ClaimRange(w) ==
  /\ scan[w].pc = "range"
  /\ scan' = [scan EXCEPT ![w].pc = "read",
                          ![w].ids = ZrangeUpTo(queue, scan[w].at)]
  /\ UNCHANGED <<store, now, pending, sweep>>

\* One iteration of the loop over candidate_ids, up to its next round trip.
\* (The model lets the loop visit the ids in any order.)
ClaimRead(w, j) ==
  LET r == job[j]  me == scan[w]
      rest == [me EXCEPT !.ids = @ \ {j}]
      next == IF r.status \notin Waiting
                THEN [rest EXCEPT !.pc = "zrem", !.cur = j]
              ELSE IF r.cancel THEN rest
              ELSE IF DeadlineExpired(r, me.at)
                THEN [rest EXCEPT !.pc = "expire", !.cur = j]
              ELSE IF r.spec.domain \notin me.domains THEN rest
              ELSE [rest EXCEPT !.found = Zadd(@, j, r.available)]
  IN  /\ me.pc = "read"
      /\ j \in me.ids
      /\ scan' = [scan EXCEPT ![w] = next]
      /\ UNCHANGED <<store, now, pending, sweep>>

\* The plain ZREM of a member that was read as no longer waiting.
ClaimZrem(w) ==
  /\ scan[w].pc = "zrem"
  /\ queue' = Zrem(queue, scan[w].cur)
  /\ scan' = [scan EXCEPT ![w].pc = "read", ![w].cur = NoJob]
  /\ UNCHANGED <<job, running, idem, claims, fate, now, pending, sweep>>

\* _expire_queued_deadline, which reads the job again in its transaction.
ClaimExpire(w) ==
  LET j == scan[w].cur  r == job[j]
  IN  /\ scan[w].pc = "expire"
      /\ IF r.status \in Waiting /\ DeadlineExpired(r, scan[w].at)
           THEN Commit(j, DeadlineFailed(r), Zrem(queue, j), running)
           ELSE UNCHANGED <<job, queue, running>>
      /\ scan' = [scan EXCEPT ![w].pc = "read", ![w].cur = NoJob]
      /\ UNCHANGED <<idem, claims, fate, now, pending, sweep>>

\* The sort key, with available_at as it was read.
Before(found, i, j) ==
  LET a == job[i]  b == job[j]
  IN  \/ a.spec.priority < b.spec.priority
      \/ /\ a.spec.priority = b.spec.priority
         /\ \/ found[i] < found[j]
            \/ /\ found[i] = found[j]
               /\ \/ a.created < b.created
                  \/ a.created = b.created /\ i < j

ClaimSelect(w) ==
  LET me == scan[w]
  IN  /\ me.pc = "read" /\ me.ids = {}
      /\ \/ DOMAIN me.found = {} /\ scan' = [scan EXCEPT ![w] = Idle]
         \/ \E j \in DOMAIN me.found :
              /\ \A i \in DOMAIN me.found \ {j} : Before(me.found, j, i)
              /\ scan' = [scan EXCEPT ![w].pc = "exec", ![w].cur = j,
                                      ![w].found = Nothing]
      /\ UNCHANGED <<store, now, pending, sweep>>

Claimable(r, at, domains) ==
  /\ r.status \in Waiting
  /\ r.available <= at
  /\ ~r.cancel
  /\ ~DeadlineExpired(r, at)
  /\ r.spec.domain \in domains

ClaimExec(w) ==
  LET me == scan[w]  j == me.cur
      new == Claimed(job[j], w, claims + 1, me.at)
  IN  /\ me.pc = "exec"
      /\ claims < MaxClaims
      /\ Claimable(job[j], me.at, me.domains)
      /\ Commit(j, new, Zrem(queue, j), Zadd(running, j, new.expires))
      /\ claims' = claims + 1
      /\ fate' = [fate EXCEPT ![claims + 1] = "open"]
      /\ scan' = [scan EXCEPT ![w] = Idle]
      /\ UNCHANGED <<idem, now, pending, sweep>>

\* The job changed or EXEC lost to contention: try again with a new clock
\* value, or return None when the budget of 12 tries is spent.
ClaimRetry(w) ==
  /\ scan[w].pc = "exec"
  /\ \/ scan' = [scan EXCEPT ![w] = [Idle EXCEPT !.pc = "range", !.at = now,
                                                 !.domains = scan[w].domains]]
     \/ scan' = [scan EXCEPT ![w] = Idle]
  /\ UNCHANGED <<store, now, pending, sweep>>

-----------------------------------------------------------------------------
(* _mutate_claimed and the methods built on it                             *)

\* The holder of token t calls a method, which reads the clock.
MutateTime(t) ==
  /\ t <= claims
  /\ Cardinality(pending) < MaxPending
  /\ pending' = pending \cup {[token |-> t, at |-> now]}
  /\ UNCHANGED <<store, now, scan, sweep>>

\* The record a method asks for, at the clock value it has read.
Mutations(r, at) ==
  {Heartbeaten(r, at), Succeeded(r, at), Failed(r, at), ClaimCancelled(r)}
    \cup {Released(r, d, at) : d \in Delays}

MutateQueue(j, new) ==
  CASE new.status = "running" -> queue
    [] new.status \in Waiting -> Zadd(queue, j, new.available)
    [] OTHER                  -> Zrem(queue, j)

\* Mutant: the running index keeps a job that has ended.
BugMutateRunning(j, new) ==
  IF new.status = "running" THEN Zadd(running, j, new.expires) ELSE running

MutateRunning(j, new) ==
  IF new.status = "running" THEN Zadd(running, j, new.expires)
                            ELSE Zrem(running, j)

MutateExec(p, j, w) ==
  /\ HasLease(job[j], w, p.token, p.at)
  /\ \E new \in Mutations(job[j], p.at) :
       /\ Commit(j, new, MutateQueue(j, new), MutateRunning(j, new))
       /\ fate' = [fate EXCEPT
            ![p.token] = IF new.token = job[j].token THEN @
                         ELSE IF new = Heartbeaten(job[j], p.at) THEN "lost"
                         ELSE "closed"]
  /\ pending' = pending \ {p}
  /\ UNCHANGED <<idem, claims, now, scan, sweep>>

\* The lease is lost, or the budget of 8 tries is spent: JobLeaseLostError.
MutateLost(p) ==
  /\ pending' = pending \ {p}
  /\ UNCHANGED <<store, now, scan, sweep>>

\* Mutant: a cancelled job stays in the queue.
BugRequestCancel(j) ==
  /\ job[j].status \in Live
  /\ Commit(j, CancelRequested(job[j]), queue, running)
  /\ UNCHANGED <<idem, claims, fate, now, pending, scan, sweep>>

RequestCancel(j) ==
  LET new == CancelRequested(job[j])
  IN  /\ job[j].status \in Live
      /\ Commit(j, new,
                IF new.status = "cancelled" THEN Zrem(queue, j) ELSE queue,
                running)
      /\ UNCHANGED <<idem, claims, fate, now, pending, scan, sweep>>

-----------------------------------------------------------------------------
(* recover_expired_leases                                                  *)

RecoverRange ==
  /\ sweep.ids = {}
  /\ ZrangeUpTo(running, now) # {}
  /\ sweep' = [at |-> now, ids |-> ZrangeUpTo(running, now)]
  /\ UNCHANGED <<store, now, pending, scan>>

RecoverOne(j) ==
  LET new == Recovered(job[j], sweep.at)
  IN  /\ j \in sweep.ids
      /\ LeaseExpired(job[j], sweep.at)
      /\ Commit(j, new,
                IF new.status = "queued" THEN Zadd(queue, j, sweep.at)
                                         ELSE queue,
                Zrem(running, j))
      /\ fate' = FateTaken(j, new)
      /\ sweep' = [sweep EXCEPT !.ids = @ \ {j}]
      /\ UNCHANGED <<idem, claims, now, pending, scan>>

\* The lease was renewed or ended meanwhile, or 8 tries lost to contention.
RecoverSkip(j) ==
  /\ j \in sweep.ids
  /\ sweep' = [sweep EXCEPT !.ids = @ \ {j}]
  /\ UNCHANGED <<store, now, pending, scan>>

\* External: the clock of the Redis server.
Tick ==
  /\ now < MaxTime
  /\ now' = now + 1
  /\ UNCHANGED <<store, pending, scan, sweep>>

Next ==
  \/ \E s \in Specs : Submit(s)
  \/ \E w \in Workers :
       \/ \E d \in DomainFilters : ClaimTime(w, d)
       \/ ClaimRange(w)
       \/ \E j \in JobIds : ClaimRead(w, j)
       \/ ClaimZrem(w)
       \/ ClaimExpire(w)
       \/ ClaimSelect(w)
       \/ ClaimExec(w)
       \/ ClaimRetry(w)
  \/ \E t \in Tokens : MutateTime(t)
  \/ \E p \in pending :
       \/ \E j \in JobIds, w \in Workers : MutateExec(p, j, w)
       \/ MutateLost(p)
  \/ \E j \in JobIds : RequestCancel(j)
  \/ RecoverRange
  \/ \E j \in JobIds : RecoverOne(j) \/ RecoverSkip(j)
  \/ Tick

Spec == Init /\ [][Next]_vars

-----------------------------------------------------------------------------
(* Properties                                                              *)

\* The three keys of a running job agree: its hash has a lease with an open
\* token of its own, and it is in the running index under the expiry of that
\* lease, so that the recovery of a dead worker cannot overlook it.
LeasesAreIndexed ==
  /\ \A j \in JobIds :
       IF job[j].status = "running"
         THEN /\ job[j].token \in 1..claims
              /\ fate[job[j].token] = "open"
              /\ j \in DOMAIN running /\ running[j] = job[j].expires
         ELSE job[j].token = 0 /\ j \notin DOMAIN running
  /\ \A i, j \in JobIds :
       job[i].status = "running" /\ job[i].token = job[j].token => i = j

\* A member of the queue is a waiting job under its own available_at: no
\* claimed, finished or cancelled job is ever offered to a worker.
QueueHoldsWaiting ==
  \A j \in DOMAIN queue :
    job[j].status \in Waiting /\ queue[j] = job[j].available

\* Every waiting job is in the queue, where a worker can find it.
NoJobLost ==
  \A j \in JobIds : job[j].status \in Waiting => j \in DOMAIN queue

PublicJobs == [j \in JobIds |-> PublicJob(job[j])]

Lifecycle ==
  INSTANCE JobLifecycle WITH job <- PublicJobs,
                             Budgets <- {s.maxAttempts : s \in Specs},
                             NoToken <- 0

\* Whatever the interleaving of round trips, the hashes go through the
\* status changes of the abstract life cycle and no others.
ImplementsLifecycle == Lifecycle!Spec
=============================================================================
