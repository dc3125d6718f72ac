------------------------- MODULE OptimizedRedisJobs -------------------------
(***************************************************************************)
(* OptimizedRedisDurableJobStore of execution/redis_store_optimized.py: a  *)
(* subclass of the Redis store that keeps, beside the shared queue, an     *)
(* index for each priority, and claims from those; and the repair of these *)
(* indexes, execution/redis_index_repair.py.                               *)
(*                                                                         *)
(* The jobs of one priority are indexed by "prio"; a job is only ever put  *)
(* in the index of its own priority, so one sorted set stands for all.     *)
(* A claim without a domain filter on a prefix with a hash tag is one Lua  *)
(* script; every other claim, those of a worker with its default settings  *)
(* included, is a series of round trips around a WATCH.  The clock is read *)
(* before either.                                                          *)
(*                                                                         *)
(* The store is put in the place of the plain one, with its jobs: clients  *)
(* submit and cancel through the plain one, then they are switched to the  *)
(* new one, then the repair runs while they go on, then the workers of the *)
(* new one start.  (A client of the plain store that outlives the start of *)
(* the repair writes jobs that no priority index gets.)  Workers of the    *)
(* plain store are not modelled again here.                                *)
(***************************************************************************)
EXTENDS RedisJobs

CONSTANTS
  Window,   \* candidate_window
  None      \* the "domains" of a claim without a filter

ASSUME WindowAssumption == Window \in Nat \ {0}

VARIABLES
  prio,     \* the priority indexes
  atomic,   \* whether the prefix has a hash tag
  domains,  \* what each worker passes to claim: its handlers, or None
  phase,    \* which store is deployed
  look,     \* where each worker is in claim
  fix       \* where the repair is

optVars == <<vars, prio, atomic, domains, phase, look, fix>>

Levels == {s.priority : s \in Specs}

NoLook == [pc |-> "idle", at |-> 0, left |-> {}, ids |-> {}, seen |-> Nothing, cur |-> NoJob]
NoFix == [pc |-> "scan", ids |-> {}, seen |-> Nothing]

OptInit == /\ Init
           /\ prio = Nothing /\ phase = "plain"
           /\ atomic \in BOOLEAN /\ domains \in [Workers -> DomainFilters \cup {None}]
           /\ look = [w \in Workers |-> NoLook]
           /\ fix = NoFix

Settings == <<atomic, domains>>
Deployed == <<Settings, phase, fix>>

BugFollow(j) == UNCHANGED prio

\* _queue_job and _dequeue_job: in the new store the second index follows the first.
Follow(j) == prio' = IF phase = "plain" THEN prio
                     ELSE IF j \in DOMAIN queue' THEN Zadd(prio, j, queue'[j])
                     ELSE Zrem(prio, j)

OptSubmit(s) == /\ Submit(s)
                /\ \E j \in JobIds : job[j] # job'[j] /\ Follow(j)
                /\ UNCHANGED <<Deployed, look>>

OptRequestCancel(j) == RequestCancel(j) /\ Follow(j) /\ UNCHANGED <<Deployed, look>>

OptMutateTime(t) == MutateTime(t) /\ UNCHANGED <<prio, Deployed, look>>

OptMutateExec(p, j, w) ==
    /\ MutateExec(p, j, w)
    /\ IF job'[j].status = "running" THEN UNCHANGED prio ELSE Follow(j)
    /\ UNCHANGED <<Deployed, look>>

OptMutateLost(p) == MutateLost(p) /\ UNCHANGED <<prio, Deployed, look>>

OptRecover == \/ RecoverRange /\ UNCHANGED <<prio, Deployed, look>>
              \/ \E j \in JobIds :
                    \/ RecoverOne(j) /\ Follow(j) /\ UNCHANGED <<Deployed, look>>
                    \/ RecoverSkip(j) /\ UNCHANGED <<prio, Deployed, look>>

-----------------------------------------------------------------------------
(* claim                                                                   *)

\* The condition of claim for _claim_atomic.
UsesScript(w) == atomic /\ domains[w] = None

OptClaimTime(w) ==
  /\ phase = "optimized" /\ look[w].pc = "idle"
  /\ look' = [look EXCEPT ![w] = [NoLook EXCEPT !.pc = IF UsesScript(w) THEN "lua" ELSE "range",
                                                !.at = now, !.left = Levels]]
  /\ UNCHANGED <<vars, prio, Deployed>>

Priority(j) == job[j].spec.priority

\* The order of a sorted set.
Earlier(i, j) == prio[i] < prio[j] \/ (prio[i] = prio[j] /\ i < j)

\* ZRANGEBYSCORE of one priority index, and the same with LIMIT.
Due(level, at) == {j \in ZrangeUpTo(prio, at) : Priority(j) = level}

Candidates(level, at) ==
  {j \in Due(level, at) : Cardinality({i \in Due(level, at) : Earlier(i, j)}) < Window}

AllCandidates(at) == UNION {Candidates(p, at) : p \in Levels}

Visited(i, j) == \/ Priority(i) < Priority(j)
                 \/ Priority(i) = Priority(j) /\ Earlier(i, j)

BugPassed(r, at) == r

\* What the script makes of a candidate it passes on the way.
Passed(r, at) == IF r.status \notin Waiting THEN r
                 ELSE IF r.cancel THEN [ClearLease(r) EXCEPT !.status = "cancelled"]
                 ELSE IF DeadlineExpired(r, at) THEN DeadlineFailed(r)
                 ELSE r

BugTakeable(j, at) == job[j].available <= at /\ job[j].attempt < job[j].spec.maxAttempts

Takeable(j, at) == Claimable(job[j], at, UNION DomainFilters)

\* The whole script: the first candidate that can be taken, and those it passed.
LuaClaim(w) ==
  LET at == look[w].at
      takeable == {j \in AllCandidates(at) : Takeable(j, at)}
      taken == {j \in takeable : \A i \in takeable \ {j} : Visited(j, i)}
      passed == {i \in AllCandidates(at) \ taken : \A j \in taken : Visited(i, j)}
      removed == taken \cup {i \in passed : Passed(job[i], at).status \notin Waiting}
      new == [j \in JobIds |->
                IF j \in taken THEN Claimed(job[j], w, claims + 1, at)
                ELSE IF j \in passed THEN Passed(job[j], at) ELSE job[j]]
  IN  /\ look[w].pc = "lua"
      /\ taken # {} => claims < MaxClaims
      /\ job' = new
      /\ queue' = [j \in DOMAIN queue \ removed |-> queue[j]]
      /\ prio' = [j \in DOMAIN prio \ removed |-> prio[j]]
      /\ running' = [j \in DOMAIN running \cup taken |->
                       IF j \in taken THEN new[j].expires ELSE running[j]]
      /\ claims' = claims + Cardinality(taken)
      /\ fate' = [t \in Tokens |-> IF taken # {} /\ t = claims + 1 THEN "open" ELSE fate[t]]
      /\ look' = [look EXCEPT ![w] = NoLook]
      /\ UNCHANGED <<idem, now, pending, scan, sweep, Deployed>>

Lowest(S) == CHOOSE x \in S : \A y \in S : x <= y

\* The next priority, or None when there is none left.  Only a claim without a
\* filter is bounded.
WatchRange(w) ==
  LET me == look[w]
      level == Lowest(me.left)
  IN  /\ me.pc = "range"
      /\ look' = [look EXCEPT ![w] =
            IF me.left = {} THEN NoLook
            ELSE [me EXCEPT !.pc = "read", !.left = @ \ {level}, !.seen = Nothing,
                            !.ids = IF domains[w] = None THEN Candidates(level, me.at)
                                    ELSE Due(level, me.at)]]
      /\ UNCHANGED <<vars, prio, Deployed>>

WatchRead(w, j) ==
  LET me == look[w]
  IN  /\ me.pc = "read" /\ j \in me.ids
      /\ look' = [look EXCEPT ![w].ids = @ \ {j}, ![w].seen = Zadd(@, j, job[j])]
      /\ UNCHANGED <<vars, prio, Deployed>>

StaleSeen(me) == {j \in DOMAIN me.seen : me.seen[j].status \notin Waiting}

\* The pipeline that removes what was read as stale: the shared queue, then the
\* priority indexes, with no transaction around them.
WatchZrem(w) ==
  LET me == look[w]  stale == StaleSeen(me)
  IN  /\ \/ /\ me.pc = "read" /\ me.ids = {}
            /\ queue' = [j \in DOMAIN queue \ stale |-> queue[j]]
            /\ look' = [look EXCEPT ![w].pc = "zrem"]
            /\ UNCHANGED prio
         \/ /\ me.pc = "zrem"
            /\ prio' = [j \in DOMAIN prio \ stale |-> prio[j]]
            /\ look' = [look EXCEPT ![w].pc = "select"]
            /\ UNCHANGED queue
      /\ UNCHANGED <<job, running, idem, claims, fate, now, pending, scan, sweep, Deployed>>

SeenBefore(s, i, j) ==
  \/ s[i].available < s[j].available
  \/ /\ s[i].available = s[j].available
     /\ s[i].created < s[j].created \/ (s[i].created = s[j].created /\ i < j)

Allowed(w) == IF domains[w] = None THEN UNION DomainFilters ELSE domains[w]

\* The loop over the candidates, up to the first to expire or to claim.  The deadline
\* is looked at before the domain.
WatchSelect(w) ==
  LET me == look[w]
      open == {j \in DOMAIN me.seen \ StaleSeen(me) :
                 /\ ~me.seen[j].cancel
                 /\ \/ DeadlineExpired(me.seen[j], me.at)
                    \/ me.seen[j].spec.domain \in Allowed(w)}
      first == {j \in open : \A i \in open \ {j} : SeenBefore(me.seen, j, i)}
  IN  /\ me.pc = "select"
      /\ look' = [look EXCEPT ![w] =
            IF first = {} THEN [me EXCEPT !.pc = "range"]
            ELSE LET j == CHOOSE i \in first : TRUE
                 IN [me EXCEPT !.cur = j,
                       !.pc = IF DeadlineExpired(me.seen[j], me.at) THEN "expire" ELSE "exec"]]
      /\ UNCHANGED <<vars, prio, Deployed>>

\* _expire_queued_deadline
WatchExpire(w) ==
  LET me == look[w]  j == me.cur
  IN  /\ me.pc = "expire"
      /\ IF job[j].status \in Waiting /\ DeadlineExpired(job[j], me.at)
           THEN Commit(j, DeadlineFailed(job[j]), Zrem(queue, j), running) /\ prio' = Zrem(prio, j)
           ELSE UNCHANGED <<job, queue, running, prio>>
      /\ look' = [look EXCEPT ![w].pc = "select", ![w].seen = Zrem(@, j), ![w].cur = NoJob]
      /\ UNCHANGED <<idem, claims, fate, now, pending, scan, sweep, Deployed>>

WatchExec(w) ==
  LET me == look[w]  j == me.cur
      new == Claimed(job[j], w, claims + 1, me.at)
  IN  /\ me.pc = "exec" /\ claims < MaxClaims
      /\ Claimable(job[j], me.at, Allowed(w))
      /\ Commit(j, new, Zrem(queue, j), Zadd(running, j, new.expires))
      /\ prio' = Zrem(prio, j)
      /\ claims' = claims + 1
      /\ fate' = [fate EXCEPT ![claims + 1] = "open"]
      /\ look' = [look EXCEPT ![w] = NoLook]
      /\ UNCHANGED <<idem, now, pending, scan, sweep, Deployed>>

\* The job changed, or EXEC lost: again with a new clock value, or give up.
WatchRetry(w) ==
  /\ look[w].pc = "exec"
  /\ \/ look' = [look EXCEPT ![w] = [NoLook EXCEPT !.pc = "range", !.at = now, !.left = Levels]]
     \/ look' = [look EXCEPT ![w] = NoLook]
  /\ UNCHANGED <<vars, prio, Deployed>>

-----------------------------------------------------------------------------
(* rebuild_priority_indexes                                                *)

\* External: the operator puts the new store into the clients.
SwitchClients ==
  /\ phase = "plain" /\ phase' = "switched"
  /\ UNCHANGED <<vars, prio, Settings, fix, look>>

RepairScan ==
  /\ phase = "switched" /\ phase' = "repair"
  /\ fix' = [NoFix EXCEPT !.pc = "read", !.ids = DOMAIN queue]
  /\ UNCHANGED <<vars, prio, Settings, look>>

RepairRead ==
  /\ phase = "repair" /\ fix.pc = "read"
  /\ fix' = IF fix.ids = {} THEN [fix EXCEPT !.pc = "write"]
            ELSE LET j == Lowest(fix.ids)
                 IN [fix EXCEPT !.ids = @ \ {j}, !.seen = Zadd(@, j, job[j])]
  /\ UNCHANGED <<vars, prio, Settings, phase, look>>

\* One job at a time: the pipeline has no transaction.
RepairWrite ==
  /\ phase = "repair" /\ fix.pc = "write" /\ DOMAIN fix.seen # {}
  /\ LET j == Lowest(DOMAIN fix.seen)  r == fix.seen[j]
     IN  /\ fix' = [fix EXCEPT !.seen = Zrem(@, j)]
         /\ queue' = IF r.status \in Waiting THEN Zadd(queue, j, r.available) ELSE Zrem(queue, j)
         /\ prio' = IF r.status \in Waiting THEN Zadd(prio, j, r.available) ELSE Zrem(prio, j)
  /\ UNCHANGED <<job, running, idem, claims, fate, now, pending, scan, sweep, Settings, phase, look>>

\* The second pass: members of a priority index that the shared queue lacks.
RepairRange ==
  /\ phase = "repair" /\ fix.pc = "write" /\ DOMAIN fix.seen = {}
  /\ fix' = [fix EXCEPT !.pc = "score", !.ids = DOMAIN prio]
  /\ UNCHANGED <<vars, prio, Settings, phase, look>>

RepairScore ==
  /\ phase = "repair" /\ fix.pc = "score"
  /\ fix' = [fix EXCEPT !.pc = "drop", !.ids = @ \ DOMAIN queue]
  /\ UNCHANGED <<vars, prio, Settings, phase, look>>

RepairDrop ==
  /\ phase = "repair" /\ fix.pc = "drop"
  /\ prio' = [j \in DOMAIN prio \ fix.ids |-> prio[j]]
  /\ phase' = "optimized" /\ fix' = NoFix
  /\ UNCHANGED <<vars, Settings, look>>

Repair == \/ SwitchClients
          \/ RepairScan \/ RepairRead \/ RepairWrite
          \/ RepairRange \/ RepairScore \/ RepairDrop

-----------------------------------------------------------------------------
OptTick == Tick /\ UNCHANGED <<prio, Deployed, look>>

OptNext ==
  \/ \E s \in Specs : OptSubmit(s)
  \/ \E j \in JobIds : OptRequestCancel(j)
  \/ \E w \in Workers :
       \/ OptClaimTime(w) \/ LuaClaim(w)
       \/ WatchRange(w) \/ WatchZrem(w) \/ WatchSelect(w)
       \/ \E j \in JobIds : WatchRead(w, j)
       \/ WatchExpire(w) \/ WatchExec(w) \/ WatchRetry(w)
  \/ \E t \in Tokens : OptMutateTime(t)
  \/ \E p \in pending : \/ \E j \in JobIds, w \in Workers : OptMutateExec(p, j, w)
                        \/ OptMutateLost(p)
  \/ OptRecover
  \/ Repair
  \/ OptTick

OptSpec == OptInit /\ [][OptNext]_optVars

-----------------------------------------------------------------------------
(* Properties                                                              *)

\* Where all workers claim through the script (a hash tag in the prefix and
\* unfiltered_claims) no job is out of reach: after the repair, which clients of the
\* new store overlap with, every waiting job is in both indexes under its available_at.
EveryWaitingJobIsIndexed ==
  phase = "optimized" /\ (\A w \in Workers : UsesScript(w)) =>
    \A j \in JobIds : job[j].status \in Waiting =>
       /\ j \in DOMAIN queue /\ queue[j] = job[j].available
       /\ j \in DOMAIN prio /\ prio[j] = job[j].available

\* A bounded window starves nobody: a script that returns no job although one
\* could be claimed has made the index shorter, so the job moves up.
EmptyClaimMakesProgress ==
  [][\A w \in Workers :
       LET at == look[w].at
       IN  /\ look[w].pc = "lua" /\ look'[w].pc = "idle" /\ claims' = claims
           /\ \E j \in ZrangeUpTo(prio, at) : Takeable(j, at)
           => Cardinality(DOMAIN prio') < Cardinality(DOMAIN prio)]_optVars

\* No worker is given a job that its client saw cancelled or finished, whatever
\* the indexes say and however old the clock value or the read of the claim.
ClaimsAreWaiting ==
  [][\A j \in JobIds :
       job'[j].token # 0 /\ job'[j].token # job[j].token
         => job[j].status \in Waiting /\ ~job[j].cancel]_optVars
=============================================================================
