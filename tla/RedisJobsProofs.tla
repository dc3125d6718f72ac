-------------------------- MODULE RedisJobsProofs --------------------------
(***************************************************************************)
(* The Redis store for any jobs, workers and lease length, with every      *)
(* interleaving of its round trips: the running index cannot overlook a    *)
(* lease, the queue offers nothing but waiting jobs, and what a client can *)
(* see of the store is a behaviour of the abstract life cycle.  And the    *)
(* optimized store: through the repair and after it no waiting job is out  *)
(* of reach, no claim is given a job that does not wait, and the window    *)
(* starves nobody.                                                         *)
(*                                                                         *)
(* The leases, the queue and the calls in flight are three parts of the    *)
(* invariant.  What the actions do to a lease is stated once for each way  *)
(* of changing it: a job gives its lease up, keeps it, or takes a new one. *)
(***************************************************************************)
EXTENDS OptimizedRedisJobs, JobRecordProofs, FiniteSums

USE DEF Waiting, Terminal, Live

Fates == {"unused", "open", "lost", "closed"}

\* What the hashes, the running index and the history say of the leases.
LeaseTypes ==
  /\ job \in [JobIds -> JobType]
  /\ DOMAIN running \subseteq JobIds
  /\ claims \in 0..MaxClaims
  /\ fate \in [Tokens -> Fates]

RecordsOK ==
  \A j \in JobIds : RecordOK(job[j]) /\ (job[j].status # "running" => NoLease(job[j]))

LeaseInv == LeaseTypes /\ RecordsOK /\ LeasesAreIndexed

-----------------------------------------------------------------------------
(* The ways to change a lease                                              *)

\* What LeasesAreIndexed says of one job.
Indexed(r, j, index, n, history) ==
  IF r.status = "running"
    THEN /\ r.token \in 1..n
         /\ history[r.token] = "open"
         /\ j \in DOMAIN index /\ index[j] = r.expires
    ELSE r.token = 0 /\ j \notin DOMAIN index

LEMMA IndexedParts ==
  /\ LeasesAreIndexed <=>
       /\ \A j \in JobIds : Indexed(job[j], j, running, claims, fate)
       /\ \A i, j \in JobIds : job[i].status = "running" /\ job[i].token = job[j].token => i = j
  /\ LeasesAreIndexed' <=>
       /\ \A j \in JobIds : Indexed(job'[j], j, running', claims', fate')
       /\ \A i, j \in JobIds : job'[i].status = "running" /\ job'[i].token = job'[j].token => i = j
  BY DEF LeasesAreIndexed, Indexed

LEMMA LeaseFacts ==
  ASSUME LeaseInv, NEW j \in JobIds
  PROVE  /\ RecordOK(job[j]) /\ job[j] \in JobType
         /\ job[j].status = "running" => /\ job[j].token \in 1..claims
                                         /\ job[j].token \in Tokens
                                         /\ job[j].token # 0
                                         /\ j \in DOMAIN running
                                         /\ running[j] = job[j].expires
         /\ job[j].status # "running" => NoLease(job[j]) /\ j \notin DOMAIN running
  <1>1. Indexed(job[j], j, running, claims, fate)
    BY IndexedParts DEF LeaseInv
  <1>2. RecordOK(job[j]) /\ (job[j].status # "running" => NoLease(job[j]))
    BY DEF LeaseInv, RecordsOK
  <1>3. claims \in 0..MaxClaims /\ job[j] \in JobType /\ MaxClaims \in Nat
    BY ConstantAssumption DEF LeaseInv, LeaseTypes
  <1>4. \A t \in 1..claims : t \in Tokens /\ t # 0
    BY <1>3 DEF Tokens
  <1> QED
    BY <1>1, <1>2, <1>3, <1>4 DEF Indexed

\* A lease is given up, or a job without one changes.
LEMMA GivesUp ==
  ASSUME LeaseInv, NEW j \in JobIds, NEW new, RecordOK(new), NoLease(new),
         job' = [job EXCEPT ![j] = new],
         DOMAIN running' = DOMAIN running \ {j},
         \A i \in DOMAIN running \ {j} : running'[i] = running[i],
         claims' = claims, fate' \in [Tokens -> Fates],
         \A t \in Tokens : t # job[j].token => fate'[t] = fate[t]
  PROVE  LeaseInv'
  <1>1. /\ job'[j] = new /\ new \in JobType
        /\ \A i \in JobIds : i # j => job'[i] = job[i]
        /\ job' \in [JobIds -> JobType]
    BY DEF LeaseInv, LeaseTypes, RecordOK
  <1>2. LeaseTypes'
    BY <1>1 DEF LeaseInv, LeaseTypes
  <1>3. RecordsOK'
    BY <1>1 DEF LeaseInv, RecordsOK
  <1>4. ASSUME NEW i \in JobIds PROVE Indexed(job'[i], i, running', claims', fate')
    <2>1. CASE i = j
      BY <1>1, <2>1 DEF Indexed, NoLease
    <2>2. CASE i # j
      <3>1. job'[i] = job[i] /\ Indexed(job[i], i, running, claims, fate)
        BY <1>1, <2>2, IndexedParts DEF LeaseInv
      <3>2. CASE job[i].status = "running"
        <4>1. job[i].token \in Tokens /\ job[i].token # job[j].token
          BY <2>2, <3>2, LeaseFacts, IndexedParts DEF LeaseInv
        <4>2. fate'[job[i].token] = fate[job[i].token]
          BY <4>1
        <4> QED
          BY <2>2, <3>1, <3>2, <4>2 DEF Indexed
      <3>3. CASE job[i].status # "running"
        BY <3>1, <3>3 DEF Indexed
      <3> QED
        BY <3>2, <3>3
    <2> QED
      BY <2>1, <2>2
  <1>5. ASSUME NEW i \in JobIds, NEW k \in JobIds,
               job'[i].status = "running", job'[i].token = job'[k].token
        PROVE  i = k
    <2>1. i # j /\ job'[i] = job[i] /\ job[i].status = "running" /\ job[i].token # 0
      <3>1. i # j
        BY <1>1, <1>5 DEF NoLease
      <3> QED
        BY <1>1, <1>5, <3>1, LeaseFacts
    <2>2. k # j
      BY <1>1, <1>5, <2>1 DEF NoLease
    <2> QED
      BY <1>1, <1>5, <2>1, <2>2, IndexedParts DEF LeaseInv
  <1>6. LeasesAreIndexed'
    BY <1>4, <1>5, IndexedParts
  <1> QED
    BY <1>2, <1>3, <1>6 DEF LeaseInv

\* A lease is renewed or only its job marked.
LEMMA KeepsLease ==
  ASSUME LeaseInv, NEW j \in JobIds, NEW new, RecordOK(new),
         job[j].status = "running", new.status = "running", new.token = job[j].token,
         job' = [job EXCEPT ![j] = new],
         DOMAIN running' = DOMAIN running, running'[j] = new.expires,
         \A i \in DOMAIN running \ {j} : running'[i] = running[i],
         claims' = claims, fate' = fate
  PROVE  LeaseInv'
  <1>1. /\ job'[j] = new /\ new \in JobType
        /\ \A i \in JobIds : i # j => job'[i] = job[i]
        /\ job' \in [JobIds -> JobType]
    BY DEF LeaseInv, LeaseTypes, RecordOK
  <1>2. LeaseTypes'
    BY <1>1 DEF LeaseInv, LeaseTypes
  <1>3. RecordsOK'
    BY <1>1 DEF LeaseInv, RecordsOK
  <1>4. ASSUME NEW i \in JobIds PROVE Indexed(job'[i], i, running', claims', fate')
    <2>1. Indexed(job[i], i, running, claims, fate)
      BY IndexedParts DEF LeaseInv
    <2>2. CASE i = j
      BY <1>1, <2>1, <2>2 DEF Indexed
    <2>3. CASE i # j
      BY <1>1, <2>1, <2>3 DEF Indexed
    <2> QED
      BY <2>2, <2>3
  <1>6. \A i, k \in JobIds : job'[i].status = "running" /\ job'[i].token = job'[k].token => i = k
    <2>1. \A i \in JobIds : /\ job'[i].token = job[i].token
                            /\ job'[i].status = "running" <=> job[i].status = "running"
      BY <1>1
    <2>2. \A i, k \in JobIds : job[i].status = "running" /\ job[i].token = job[k].token => i = k
      BY IndexedParts DEF LeaseInv
    <2> QED
      BY <2>1, <2>2
  <1>7. LeasesAreIndexed'
    BY <1>4, <1>6, IndexedParts
  <1> QED
    BY <1>2, <1>3, <1>7 DEF LeaseInv

\* A waiting job is claimed.
LEMMA TakesLease ==
  ASSUME LeaseInv, NEW j \in JobIds, NEW new, RecordOK(new), claims < MaxClaims,
         job[j].status # "running", new.status = "running", new.token = claims + 1,
         job' = [job EXCEPT ![j] = new],
         DOMAIN running' = DOMAIN running \cup {j}, running'[j] = new.expires,
         \A i \in DOMAIN running \ {j} : running'[i] = running[i],
         claims' = claims + 1, fate' = [fate EXCEPT ![claims + 1] = "open"]
  PROVE  LeaseInv'
  <1>0. /\ claims \in Nat /\ MaxClaims \in Nat /\ claims + 1 \in 0..MaxClaims
        /\ claims + 1 \in Tokens /\ claims + 1 \in 1..(claims + 1) /\ claims + 1 # 0
        /\ claims + 1 \notin 1..claims /\ 1..claims \subseteq 1..(claims + 1)
        /\ 1..claims \subseteq Tokens
    BY ConstantAssumption DEF LeaseInv, LeaseTypes, Tokens
  <1>1. /\ job'[j] = new /\ new \in JobType
        /\ \A i \in JobIds : i # j => job'[i] = job[i]
        /\ job' \in [JobIds -> JobType]
    BY DEF LeaseInv, LeaseTypes, RecordOK
  <1>f. /\ fate \in [Tokens -> Fates] /\ fate' \in [Tokens -> Fates]
        /\ fate'[claims + 1] = "open"
        /\ \A t \in 1..claims : fate'[t] = fate[t]
    <2>1. fate \in [Tokens -> Fates] /\ "open" \in Fates
      BY DEF LeaseInv, LeaseTypes, Fates
    <2> QED
      BY <1>0, <2>1
  <1>2. LeaseTypes'
    <2>1. DOMAIN running' \subseteq JobIds
      BY DEF LeaseInv, LeaseTypes
    <2> QED
      BY <1>0, <1>1, <1>f, <2>1 DEF LeaseTypes
  <1>3. RecordsOK'
    BY <1>1 DEF LeaseInv, RecordsOK
  <1>4. ASSUME NEW i \in JobIds PROVE Indexed(job'[i], i, running', claims', fate')
    <2>1. Indexed(job[i], i, running, claims, fate)
      BY IndexedParts DEF LeaseInv
    <2>2. CASE i = j
      BY <1>0, <1>1, <1>f, <2>2 DEF Indexed
    <2>3. CASE i # j
      <3>1. job'[i] = job[i]
        BY <1>1, <2>3
      <3>2. CASE job[i].status = "running"
        BY <1>0, <1>f, <2>1, <2>3, <3>1, <3>2 DEF Indexed
      <3>3. CASE job[i].status # "running"
        BY <2>1, <2>3, <3>1, <3>3 DEF Indexed
      <3> QED
        BY <3>2, <3>3
    <2> QED
      BY <2>2, <2>3
  <1>5. ASSUME NEW i \in JobIds, NEW k \in JobIds,
               job'[i].status = "running", job'[i].token = job'[k].token
        PROVE  i = k
    <2>1. \A m \in JobIds : m # j => job'[m] = job[m] /\ job[m].token # claims + 1
      <3>1. \A m \in JobIds : job[m].token = 0 \/ job[m].token \in 1..claims
        BY LeaseFacts DEF NoLease
      <3> QED
        BY <1>0, <1>1, <3>1
    <2>2. \A m, n \in JobIds : job[m].status = "running" /\ job[m].token = job[n].token => m = n
      BY IndexedParts DEF LeaseInv
    <2>3. CASE i = j \/ k = j
      BY <1>1, <1>5, <2>1, <2>3
    <2>4. CASE i # j /\ k # j
      BY <1>5, <2>1, <2>2, <2>4
    <2> QED
      BY <2>3, <2>4
  <1>6. LeasesAreIndexed'
    BY <1>4, <1>5, IndexedParts
  <1> QED
    BY <1>2, <1>3, <1>6 DEF LeaseInv

-----------------------------------------------------------------------------
(* The queue of the plain store                                            *)

QueueInv == DOMAIN queue \subseteq JobIds /\ QueueHoldsWaiting

\* One job changes and the queue follows.
LEMMA QueueFollows ==
  ASSUME LeaseInv, QueueInv, NEW j \in JobIds, NEW new, job' = [job EXCEPT ![j] = new],
         DOMAIN queue' \subseteq DOMAIN queue \cup {j},
         \A i \in DOMAIN queue' : i # j => queue'[i] = queue[i],
         j \in DOMAIN queue' => new.status \in Waiting /\ queue'[j] = new.available
  PROVE  QueueInv'
  <1>1. job'[j] = new /\ \A i \in JobIds : i # j => job'[i] = job[i]
    BY DEF LeaseInv, LeaseTypes
  <1>2. DOMAIN queue' \subseteq JobIds
    BY DEF QueueInv
  <1>3. ASSUME NEW i \in DOMAIN queue'
        PROVE  job'[i].status \in Waiting /\ queue'[i] = job'[i].available
    <2>1. CASE i = j
      BY <1>1, <2>1
    <2>2. CASE i # j
      <3>1. i \in DOMAIN queue /\ i \in JobIds /\ queue'[i] = queue[i] /\ job'[i] = job[i]
        BY <1>1, <1>2, <2>2
      <3>2. job[i].status \in Waiting /\ queue[i] = job[i].available
        BY <3>1 DEF QueueInv, QueueHoldsWaiting
      <3> QED
        BY <3>1, <3>2
    <2> QED
      BY <2>1, <2>2
  <1> QED
    BY <1>2, <1>3 DEF QueueInv, QueueHoldsWaiting

\* A running job is not in the queue.
LEMMA RunningIsNotQueued ==
  ASSUME QueueInv, NEW j \in JobIds, job[j].status \notin Waiting PROVE j \notin DOMAIN queue
  BY DEF QueueInv, QueueHoldsWaiting

-----------------------------------------------------------------------------
(* What the round trips carry                                              *)

ScanType ==
  [pc : {"idle", "range", "read", "zrem", "expire", "exec"}, at : Nat,
   domains : DomainFilters \cup {{}}, ids : SUBSET JobIds,
   found : UNION {[S -> Nat] : S \in SUBSET JobIds}, cur : JobIds \cup {NoJob}]

ScanOK(me) == me \in ScanType /\ (me.pc \in {"expire", "exec"} => me.cur \in JobIds)

CallTypes ==
  /\ now \in Nat
  /\ \A p \in pending : p.token \in Tokens /\ p.at \in Nat
  /\ scan \in [Workers -> ScanType]
  /\ \A w \in Workers : ScanOK(scan[w])
  /\ sweep \in [at : Nat, ids : SUBSET JobIds]

RedisJobsInv == LeaseInv /\ QueueInv /\ CallTypes

LEMMA NothingIsFound == Nothing \in UNION {[S -> Nat] : S \in SUBSET JobIds}
  <1>1. Nothing \in [{} -> Nat] /\ {} \in SUBSET JobIds
    BY DEF Nothing
  <1> QED
    BY <1>1

LEMMA IdleOK == ScanOK(Idle)
  BY NothingIsFound DEF Idle, ScanOK, ScanType

\* A call of claim begins.
LEMMA BeginsOK ==
  ASSUME NEW at \in Nat, NEW d \in DomainFilters \cup {{}}
  PROVE  ScanOK([Idle EXCEPT !.pc = "range", !.at = at, !.domains = d])
  <1> DEFINE one == [Idle EXCEPT !.pc = "range"]
             two == [one EXCEPT !.at = at]
             new == [two EXCEPT !.domains = d]
  <1>1. Idle \in ScanType
    BY IdleOK DEF ScanOK
  <1>2. one \in ScanType /\ one.pc = "range"
    BY <1>1 DEF ScanType
  <1>3. two \in ScanType /\ two.pc = "range"
    BY <1>2 DEF ScanType
  <1>4. new \in ScanType /\ new.pc = "range"
    BY <1>3 DEF ScanType
  <1>5. [Idle EXCEPT !.pc = "range", !.at = at, !.domains = d] = new
    BY <1>1 DEF ScanType
  <1> QED
    BY <1>4, <1>5 DEF ScanOK

\* A step of one worker through claim.
LEMMA ScanMoves ==
  ASSUME CallTypes, NEW w \in Workers, NEW me, ScanOK(me), scan' = [scan EXCEPT ![w] = me],
         now' = now, pending' = pending, sweep' = sweep
  PROVE  CallTypes'
  <1>1. scan' \in [Workers -> ScanType]
    BY DEF CallTypes, ScanOK
  <1>2. \A v \in Workers : ScanOK(scan'[v])
    BY DEF CallTypes
  <1> QED
    BY <1>1, <1>2 DEF CallTypes

\* The jobs that a range of an index names.
LEMMA RangeIsMembers == ASSUME NEW z, NEW score PROVE ZrangeUpTo(z, score) \subseteq DOMAIN z
  BY DEF ZrangeUpTo

LEMMA FoundGrows ==
  ASSUME NEW f \in UNION {[S -> Nat] : S \in SUBSET JobIds}, NEW j \in JobIds, NEW n \in Nat
  PROVE  Zadd(f, j, n) \in UNION {[S -> Nat] : S \in SUBSET JobIds}
  <1>1. PICK S \in SUBSET JobIds : f \in [S -> Nat]
    OBVIOUS
  <1>2. Zadd(f, j, n) \in [S \cup {j} -> Nat] /\ S \cup {j} \in SUBSET JobIds
    BY <1>1 DEF Zadd
  <1> QED
    BY <1>2

-----------------------------------------------------------------------------
(* The steps of claim                                                      *)

StoreUnchanged ==
  job' = job /\ queue' = queue /\ running' = running /\ claims' = claims /\ fate' = fate

LEMMA LeaseUnchanged ==
  ASSUME LeaseInv, job' = job, running' = running, claims' = claims, fate' = fate PROVE LeaseInv'
  BY DEF LeaseInv, LeaseTypes, RecordsOK, LeasesAreIndexed

LEMMA QueueUnchanged ==
  ASSUME QueueInv, job' = job, queue' = queue PROVE QueueInv'
  BY DEF QueueInv, QueueHoldsWaiting

LEMMA MeOK ==
  ASSUME CallTypes, NEW w \in Workers
  PROVE  /\ scan[w] \in ScanType /\ scan[w].at \in Nat /\ scan[w].ids \in SUBSET JobIds
         /\ scan[w].domains \in DomainFilters \cup {{}}
         /\ scan[w].found \in UNION {[S -> Nat] : S \in SUBSET JobIds}
         /\ scan[w].pc \in {"expire", "exec"} => scan[w].cur \in JobIds
         /\ now \in Nat
  <1>1. ScanOK(scan[w]) /\ now \in Nat
    BY DEF CallTypes
  <1>2. scan[w] \in ScanType
    BY <1>1 DEF ScanOK
  <1>3. scan[w].at \in Nat /\ scan[w].ids \in SUBSET JobIds
        /\ scan[w].domains \in DomainFilters \cup {{}}
        /\ scan[w].found \in UNION {[S -> Nat] : S \in SUBSET JobIds}
    BY <1>2 DEF ScanType
  <1> QED
    BY <1>1, <1>2, <1>3 DEF ScanOK

LEMMA ClaimTimeKeeps ==
  ASSUME RedisJobsInv, NEW w \in Workers, NEW d \in DomainFilters, ClaimTime(w, d)
  PROVE  RedisJobsInv'
  <1>1. ScanOK([Idle EXCEPT !.pc = "range", !.at = now, !.domains = d])
    BY BeginsOK, MeOK DEF RedisJobsInv
  <1>2. CallTypes'
    BY <1>1, ScanMoves DEF RedisJobsInv, ClaimTime
  <1> QED
    BY <1>2, LeaseUnchanged, QueueUnchanged DEF RedisJobsInv, ClaimTime, store

LEMMA ClaimRangeKeeps ==
  ASSUME RedisJobsInv, NEW w \in Workers, ClaimRange(w) PROVE RedisJobsInv'
  <1> DEFINE me == scan[w]
             found == ZrangeUpTo(queue, me.at)
             one == [me EXCEPT !.pc = "read"]
             two == [one EXCEPT !.ids = found]
  <1>1. me \in ScanType /\ found \in SUBSET JobIds
    BY MeOK, RangeIsMembers DEF RedisJobsInv, QueueInv
  <1>2. scan' = [scan EXCEPT ![w] = two]
    <2>1. scan' = [scan EXCEPT ![w].pc = "read", ![w].ids = found]
      BY DEF ClaimRange
    <2> QED
      BY <2>1 DEF RedisJobsInv, CallTypes
  <1> HIDE DEF found
  <1>3. one \in ScanType /\ one.pc = "read"
    BY <1>1 DEF ScanType
  <1>4. two \in ScanType /\ two.pc = "read"
    BY <1>1, <1>3 DEF ScanType
  <1>5. CallTypes'
    BY <1>2, <1>4, ScanMoves DEF RedisJobsInv, ClaimRange, ScanOK
  <1> QED
    BY <1>5, LeaseUnchanged, QueueUnchanged DEF RedisJobsInv, ClaimRange, store

LEMMA ClaimReadKeeps ==
  ASSUME RedisJobsInv, NEW w \in Workers, NEW j \in JobIds, ClaimRead(w, j) PROVE RedisJobsInv'
  <1> DEFINE me == scan[w]
             rest == [me EXCEPT !.ids = @ \ {j}]
             zrem == [rest EXCEPT !.pc = "zrem", !.cur = j]
             expire == [rest EXCEPT !.pc = "expire", !.cur = j]
             more == [rest EXCEPT !.found = Zadd(@, j, job[j].available)]
  <1>1. /\ me \in ScanType /\ me.pc = "read" /\ me.ids \in SUBSET JobIds
        /\ me.found \in UNION {[S -> Nat] : S \in SUBSET JobIds}
    BY MeOK DEF RedisJobsInv, ClaimRead
  <1>2. job[j].available \in Nat
    <2>1. job[j] \in JobType
      BY DEF RedisJobsInv, LeaseInv, LeaseTypes
    <2> QED
      BY <2>1 DEF JobType
  <1>3. rest \in ScanType /\ rest.pc = "read" /\ rest.found = me.found
    BY <1>1 DEF ScanType
  <1>4. \E new \in {rest, zrem, expire, more} : scan' = [scan EXCEPT ![w] = new]
    BY DEF ClaimRead
  <1> HIDE DEF rest
  <1>5. zrem \in ScanType /\ zrem.pc = "zrem"
    BY <1>3 DEF ScanType
  <1>6. expire \in ScanType /\ expire.pc = "expire" /\ expire.cur = j
    BY <1>3 DEF ScanType
  <1>7. more \in ScanType /\ more.pc = "read"
    <2>1. Zadd(rest.found, j, job[j].available) \in UNION {[S -> Nat] : S \in SUBSET JobIds}
      BY <1>1, <1>2, <1>3, FoundGrows
    <2> QED
      BY <1>3, <2>1 DEF ScanType
  <1>8. ScanOK(rest) /\ ScanOK(zrem) /\ ScanOK(expire) /\ ScanOK(more)
    BY <1>3, <1>5, <1>6, <1>7 DEF ScanOK
  <1> HIDE DEF zrem, expire, more
  <1>9. CallTypes'
    <2>1. now' = now /\ pending' = pending /\ sweep' = sweep
      BY DEF ClaimRead
    <2> QED
      BY <1>4, <1>8, <2>1, ScanMoves DEF RedisJobsInv
  <1> QED
    BY <1>9, LeaseUnchanged, QueueUnchanged DEF RedisJobsInv, ClaimRead, store

\* Back to the loop over the candidates.
LEMMA BackToReading ==
  ASSUME CallTypes, NEW w \in Workers,
         scan' = [scan EXCEPT ![w].pc = "read", ![w].cur = NoJob],
         now' = now, pending' = pending, sweep' = sweep
  PROVE  CallTypes'
  <1> DEFINE me == scan[w]
             one == [me EXCEPT !.pc = "read"]
             two == [one EXCEPT !.cur = NoJob]
  <1>1. me \in ScanType
    BY MeOK
  <1>2. one \in ScanType /\ one.pc = "read"
    BY <1>1 DEF ScanType
  <1>3. two \in ScanType /\ two.pc = "read"
    BY <1>2 DEF ScanType
  <1>4. scan' = [scan EXCEPT ![w] = two]
    BY DEF CallTypes
  <1> QED
    BY <1>3, <1>4, ScanMoves DEF ScanOK

LEMMA ClaimZremKeeps ==
  ASSUME RedisJobsInv, NEW w \in Workers, ClaimZrem(w) PROVE RedisJobsInv'
  <1>1. CallTypes'
    BY BackToReading DEF RedisJobsInv, ClaimZrem
  <1>2. QueueInv'
    <2>1. DOMAIN queue' \subseteq DOMAIN queue /\ \A i \in DOMAIN queue' : queue'[i] = queue[i]
      BY DEF ClaimZrem, Zrem
    <2> QED
      BY <2>1 DEF RedisJobsInv, QueueInv, QueueHoldsWaiting, ClaimZrem
  <1> QED
    BY <1>1, <1>2, LeaseUnchanged DEF RedisJobsInv, ClaimZrem

LEMMA ClaimSelectKeeps ==
  ASSUME RedisJobsInv, NEW w \in Workers, ClaimSelect(w) PROVE RedisJobsInv'
  <1> DEFINE me == scan[w]
  <1>1. /\ me \in ScanType /\ me.found \in UNION {[S -> Nat] : S \in SUBSET JobIds}
    BY MeOK DEF RedisJobsInv
  <1>2. now' = now /\ pending' = pending /\ sweep' = sweep
    BY DEF ClaimSelect
  <1>3. ASSUME scan' = [scan EXCEPT ![w] = Idle] PROVE CallTypes'
    BY <1>2, <1>3, IdleOK, ScanMoves DEF RedisJobsInv
  <1>4. ASSUME NEW j \in DOMAIN me.found,
               scan' = [scan EXCEPT ![w].pc = "exec", ![w].cur = j, ![w].found = Nothing]
        PROVE  CallTypes'
    <2> DEFINE one == [me EXCEPT !.pc = "exec"]
               two == [one EXCEPT !.cur = j]
               new == [two EXCEPT !.found = Nothing]
    <2>1. j \in JobIds
      BY <1>1
    <2>2. one \in ScanType /\ one.pc = "exec"
      BY <1>1 DEF ScanType
    <2>3. two \in ScanType /\ two.pc = "exec" /\ two.cur = j
      BY <2>1, <2>2 DEF ScanType
    <2>4. new \in ScanType /\ new.pc = "exec" /\ new.cur = j
      BY <2>3, NothingIsFound DEF ScanType
    <2>5. scan' = [scan EXCEPT ![w] = new]
      BY <1>4 DEF RedisJobsInv, CallTypes
    <2> HIDE DEF new
    <2> QED
      BY <1>2, <2>1, <2>4, <2>5, ScanMoves DEF RedisJobsInv, ScanOK
  <1>5. CallTypes'
    BY <1>3, <1>4 DEF ClaimSelect, RedisJobsInv
  <1> QED
    BY <1>5, LeaseUnchanged, QueueUnchanged DEF RedisJobsInv, ClaimSelect, store

LEMMA ClaimRetryKeeps ==
  ASSUME RedisJobsInv, NEW w \in Workers, ClaimRetry(w) PROVE RedisJobsInv'
  <1>1. ScanOK([Idle EXCEPT !.pc = "range", !.at = now, !.domains = scan[w].domains])
    BY BeginsOK, MeOK DEF RedisJobsInv
  <1>2. CallTypes'
    BY <1>1, IdleOK, ScanMoves DEF RedisJobsInv, ClaimRetry
  <1> QED
    BY <1>2, LeaseUnchanged, QueueUnchanged DEF RedisJobsInv, ClaimRetry, store

\* A waiting job fails for its deadline.
LEMMA ExpiresWaiting ==
  ASSUME LeaseInv, NEW j \in JobIds, job[j].status \in Waiting,
         job' = [job EXCEPT ![j] = DeadlineFailed(job[j])],
         running' = running, claims' = claims, fate' = fate
  PROVE  LeaseInv'
  <1> DEFINE r == job[j]
             new == DeadlineFailed(r)
  <1>1. RecordOK(r) /\ r.status # "absent" /\ j \notin DOMAIN running
    BY LeaseFacts
  <1>2. RecordOK(new) /\ NoLease(new)
    BY <1>1, DeadlineFailedOK
  <1>3. fate' \in [Tokens -> Fates]
    BY DEF LeaseInv, LeaseTypes
  <1>4. DOMAIN running' = DOMAIN running \ {j}
    BY <1>1
  <1> HIDE DEF new
  <1>5. job' = [job EXCEPT ![j] = new]
    BY DEF new
  <1> QED
    BY <1>2, <1>3, <1>4, <1>5, GivesUp

LEMMA ClaimExpireKeeps ==
  ASSUME RedisJobsInv, NEW w \in Workers, ClaimExpire(w) PROVE RedisJobsInv'
  <1> DEFINE j == scan[w].cur
  <1>1. CallTypes'
    BY BackToReading DEF RedisJobsInv, ClaimExpire
  <1>2. j \in JobIds /\ claims' = claims /\ fate' = fate
    BY MeOK DEF RedisJobsInv, ClaimExpire
  <1>3. \/ /\ job[j].status \in Waiting /\ job' = [job EXCEPT ![j] = DeadlineFailed(job[j])]
           /\ queue' = Zrem(queue, j) /\ running' = running
        \/ job' = job /\ queue' = queue /\ running' = running
    BY DEF ClaimExpire, Commit
  <1> HIDE DEF j
  <1>4. CASE /\ job[j].status \in Waiting /\ job' = [job EXCEPT ![j] = DeadlineFailed(job[j])]
             /\ queue' = Zrem(queue, j) /\ running' = running
    <2>1. LeaseInv'
      BY <1>2, <1>4, ExpiresWaiting DEF RedisJobsInv
    <2>2. DOMAIN queue' = DOMAIN queue \ {j} /\ \A i \in DOMAIN queue' : queue'[i] = queue[i]
      BY <1>4 DEF Zrem
    <2>3. QueueInv'
      BY <1>2, <1>4, <2>2, QueueFollows DEF RedisJobsInv
    <2> QED
      BY <1>1, <2>1, <2>3 DEF RedisJobsInv
  <1>5. CASE job' = job /\ queue' = queue /\ running' = running
    BY <1>1, <1>2, <1>5, LeaseUnchanged, QueueUnchanged DEF RedisJobsInv
  <1> QED
    BY <1>3, <1>4, <1>5

LEMMA ClaimExecKeeps ==
  ASSUME RedisJobsInv, NEW w \in Workers, ClaimExec(w) PROVE RedisJobsInv'
  <1> DEFINE j == scan[w].cur
             new == Claimed(job[j], w, claims + 1, scan[w].at)
  <1>1. /\ j \in JobIds /\ scan[w].at \in Nat /\ claims < MaxClaims /\ claims + 1 \in Tokens
        /\ job[j].status \in Waiting
    BY MeOK, ConstantAssumption
       DEF RedisJobsInv, ClaimExec, Claimable, LeaseInv, LeaseTypes, Tokens
  <1>2. /\ job' = [job EXCEPT ![j] = new] /\ queue' = Zrem(queue, j)
        /\ running' = Zadd(running, j, new.expires)
        /\ claims' = claims + 1 /\ fate' = [fate EXCEPT ![claims + 1] = "open"]
        /\ scan' = [scan EXCEPT ![w] = Idle]
        /\ now' = now /\ pending' = pending /\ sweep' = sweep
    BY DEF ClaimExec, Commit
  <1>3. RecordOK(new) /\ new.status = "running" /\ new.token = claims + 1
    BY <1>1, LeaseFacts, ClaimedOK DEF RedisJobsInv
  <1> HIDE DEF new, j
  <1>4. /\ DOMAIN running' = DOMAIN running \cup {j} /\ running'[j] = new.expires
        /\ \A i \in DOMAIN running \ {j} : running'[i] = running[i]
    BY <1>2 DEF Zadd
  <1>5. LeaseInv'
    BY <1>1, <1>2, <1>3, <1>4, TakesLease DEF RedisJobsInv
  <1>6. QueueInv'
    <2>1. DOMAIN queue' = DOMAIN queue \ {j} /\ \A i \in DOMAIN queue' : queue'[i] = queue[i]
      BY <1>2 DEF Zrem
    <2> QED
      BY <1>1, <1>2, <2>1, QueueFollows DEF RedisJobsInv
  <1>7. CallTypes'
    BY <1>2, IdleOK, ScanMoves DEF RedisJobsInv
  <1> QED
    BY <1>5, <1>6, <1>7 DEF RedisJobsInv

-----------------------------------------------------------------------------
(* The other methods                                                       *)

\* A new job waits without a lease.
LEMMA SubmitKeepsLeases ==
  ASSUME LeaseInv, now \in Nat, NEW s \in Specs, NEW j \in JobIds, job[j].status = "absent",
         job' = [job EXCEPT ![j] = NewJob(s, now)],
         running' = running, claims' = claims, fate' = fate
  PROVE  LeaseInv'
  <1> DEFINE new == NewJob(s, now)
  <1>2. /\ new \in JobType /\ new.spec \in Specs /\ new.status = "queued" /\ new.attempt = 0
        /\ new.token = 0 /\ new.worker = NoWorker
    BY DEF NewJob, Absent, JobType
  <1>3. new.spec.maxAttempts \in Nat \ {0}
    BY <1>2, ConstantAssumption DEF SpecType
  <1> HIDE DEF new
  <1>4. RecordOK(new) /\ NoLease(new)
    BY <1>2, <1>3 DEF RecordOK, AttemptsOK, RetryOK, NoLease
  <1>5. DOMAIN running' = DOMAIN running \ {j} /\ fate' \in [Tokens -> Fates]
    BY LeaseFacts DEF LeaseInv, LeaseTypes
  <1>6. job' = [job EXCEPT ![j] = new]
    BY DEF new
  <1> QED
    BY <1>4, <1>5, <1>6, GivesUp

LEMMA SubmitKeeps ==
  ASSUME RedisJobsInv, NEW s \in Specs, Submit(s) PROVE RedisJobsInv'
  <1>1. PICK j \in JobIds : /\ job[j].status = "absent"
                            /\ Commit(j, NewJob(s, now), Zadd(queue, j, now), running)
    BY DEF Submit
  <1>2. /\ job' = [job EXCEPT ![j] = NewJob(s, now)] /\ queue' = Zadd(queue, j, now)
        /\ running' = running
    BY <1>1 DEF Commit
  <1>3. /\ now' = now /\ claims' = claims /\ fate' = fate /\ pending' = pending
        /\ scan' = scan /\ sweep' = sweep
    BY DEF Submit
  <1>4. LeaseInv'
    BY <1>1, <1>2, <1>3, SubmitKeepsLeases DEF RedisJobsInv, CallTypes
  <1>5. DOMAIN queue' = DOMAIN queue \cup {j} /\ queue'[j] = now
        /\ \A i \in DOMAIN queue' : i # j => queue'[i] = queue[i]
    BY <1>2 DEF Zadd
  <1>6. NewJob(s, now).status = "queued" /\ NewJob(s, now).available = now
    BY DEF NewJob, Absent
  <1>7. QueueInv'
    BY <1>2, <1>5, <1>6, QueueFollows DEF RedisJobsInv
  <1>8. CallTypes'
    BY <1>3 DEF RedisJobsInv, CallTypes
  <1> QED
    BY <1>4, <1>7, <1>8 DEF RedisJobsInv

\* What a holder may make of its running job: renew the lease, or give it up.
LEMMA MutationsOK ==
  ASSUME NEW r, RecordOK(r), r.status = "running", NEW at \in Nat, NEW new \in Mutations(r, at)
  PROVE  /\ RecordOK(new) /\ SameJob(r, new)
         /\ \/ new.status = "running" /\ new.token = r.token
            \/ NoLease(new)
  <1>1. CASE new = Heartbeaten(r, at)
    BY <1>1, HeartbeatenOK DEF SameLease
  <1>2. CASE new = Succeeded(r, at)
    BY <1>2, SucceededOK
  <1>3. CASE new = Failed(r, at)
    BY <1>3, FailedOK
  <1>4. CASE new = ClaimCancelled(r)
    BY <1>4, ClaimCancelledOK
  <1>5. ASSUME NEW d \in Delays, new = Released(r, d, at)
        PROVE  RecordOK(new) /\ NoLease(new) /\ SameJob(r, new)
    BY <1>5, ReleasedOK
  <1> QED
    BY <1>1, <1>2, <1>3, <1>4, <1>5 DEF Mutations

\* The effect of MutateExec on the lease of job j.
MutatesTo(j, new, t) ==
  /\ job' = [job EXCEPT ![j] = new]
  /\ running' = MutateRunning(j, new)
  /\ claims' = claims
  /\ \E f \in {"lost", "closed"} :
       fate' = [fate EXCEPT ![t] = IF new.token = job[j].token THEN @ ELSE f]

LEMMA MutateKeepsLeases ==
  ASSUME LeaseInv, NEW j \in JobIds, NEW at \in Nat, job[j].status = "running",
         NEW new \in Mutations(job[j], at), MutatesTo(j, new, job[j].token)
  PROVE  LeaseInv'
  <1>1. /\ RecordOK(job[j]) /\ job[j].token \in Tokens /\ job[j].token # 0
        /\ j \in DOMAIN running
    BY LeaseFacts
  <1>2. /\ RecordOK(new) /\ SameJob(job[j], new)
        /\ \/ new.status = "running" /\ new.token = job[j].token
           \/ NoLease(new)
    BY <1>1, MutationsOK
  <1>3. PICK f \in {"lost", "closed"} :
          fate' = [fate EXCEPT ![job[j].token] = IF new.token = job[j].token THEN @ ELSE f]
    BY DEF MutatesTo
  <1>4. job' = [job EXCEPT ![j] = new] /\ running' = MutateRunning(j, new) /\ claims' = claims
    BY DEF MutatesTo
  <1>5. fate \in [Tokens -> Fates]
    BY DEF LeaseInv, LeaseTypes
  <1>6. CASE new.status = "running" /\ new.token = job[j].token
    <2>1. running' = Zadd(running, j, new.expires)
      BY <1>4, <1>6 DEF MutateRunning
    <2>2. /\ DOMAIN running' = DOMAIN running /\ running'[j] = new.expires
          /\ \A i \in DOMAIN running \ {j} : running'[i] = running[i]
      BY <1>1, <2>1 DEF Zadd
    <2>3. fate' = fate
      BY <1>3, <1>5, <1>6
    <2> QED
      BY <1>2, <1>4, <1>6, <2>2, <2>3, KeepsLease
  <1>7. CASE NoLease(new)
    <2>1. running' = Zrem(running, j)
      BY <1>4, <1>7 DEF MutateRunning, NoLease
    <2>2. /\ DOMAIN running' = DOMAIN running \ {j}
          /\ \A i \in DOMAIN running \ {j} : running'[i] = running[i]
      BY <2>1 DEF Zrem
    <2>3. /\ fate' \in [Tokens -> Fates]
          /\ \A t \in Tokens : t # job[j].token => fate'[t] = fate[t]
      BY <1>3, <1>5 DEF Fates
    <2> QED
      BY <1>2, <1>4, <1>7, <2>2, <2>3, GivesUp
  <1> QED
    BY <1>2, <1>6, <1>7

LEMMA MutateExecMutates ==
  ASSUME CallTypes, NEW p \in pending, NEW j \in JobIds, NEW w \in Workers, MutateExec(p, j, w)
  PROVE  \E new \in Mutations(job[j], p.at) :
           /\ p.at \in Nat /\ job[j].status = "running"
           /\ MutatesTo(j, new, job[j].token)
           /\ queue' = MutateQueue(j, new)
           /\ pending' = pending \ {p}
           /\ now' = now /\ scan' = scan /\ sweep' = sweep
  <1>1. PICK new \in Mutations(job[j], p.at) :
          /\ Commit(j, new, MutateQueue(j, new), MutateRunning(j, new))
          /\ fate' = [fate EXCEPT
               ![p.token] = IF new.token = job[j].token THEN @
                            ELSE IF new = Heartbeaten(job[j], p.at) THEN "lost"
                            ELSE "closed"]
    BY DEF MutateExec
  <1>2. /\ p.at \in Nat /\ job[j].status = "running" /\ job[j].token = p.token
        /\ pending' = pending \ {p} /\ now' = now /\ scan' = scan /\ sweep' = sweep
        /\ claims' = claims
    BY DEF CallTypes, MutateExec, HasLease
  <1> DEFINE f == IF new = Heartbeaten(job[j], p.at) THEN "lost" ELSE "closed"
  <1>3. /\ f \in {"lost", "closed"}
        /\ fate' = [fate EXCEPT ![p.token] = IF new.token = job[j].token THEN @ ELSE f]
    BY <1>1
  <1> HIDE DEF f
  <1>4. MutatesTo(j, new, job[j].token) /\ queue' = MutateQueue(j, new)
    BY <1>1, <1>2, <1>3 DEF MutatesTo, Commit
  <1> QED
    BY <1>2, <1>4

LEMMA MutateExecKeeps ==
  ASSUME RedisJobsInv, NEW p \in pending, NEW j \in JobIds, NEW w \in Workers, MutateExec(p, j, w)
  PROVE  RedisJobsInv'
  <1>1. PICK new \in Mutations(job[j], p.at) :
           /\ p.at \in Nat /\ job[j].status = "running"
           /\ MutatesTo(j, new, job[j].token)
           /\ queue' = MutateQueue(j, new)
           /\ pending' = pending \ {p}
           /\ now' = now /\ scan' = scan /\ sweep' = sweep
    BY MutateExecMutates DEF RedisJobsInv
  <1>2. LeaseInv'
    BY <1>1, MutateKeepsLeases DEF RedisJobsInv
  <1>3. j \notin DOMAIN queue
    BY <1>1, RunningIsNotQueued DEF RedisJobsInv
  <1>4. /\ DOMAIN queue' \subseteq DOMAIN queue \cup {j}
        /\ \A i \in DOMAIN queue' : i # j => queue'[i] = queue[i]
        /\ j \in DOMAIN queue' => new.status \in Waiting /\ queue'[j] = new.available
    <2>1. CASE new.status = "running"
      <3>1. queue' = queue
        BY <1>1, <2>1 DEF MutateQueue
      <3> QED
        BY <1>3, <3>1
    <2>2. CASE new.status \in Waiting
      <3>1. queue' = Zadd(queue, j, new.available)
        BY <1>1, <2>2 DEF MutateQueue
      <3> QED
        BY <2>2, <3>1 DEF Zadd
    <2>3. CASE new.status # "running" /\ new.status \notin Waiting
      <3>1. queue' = Zrem(queue, j)
        BY <1>1, <2>3 DEF MutateQueue
      <3> QED
        BY <3>1 DEF Zrem
    <2> QED
      BY <2>1, <2>2, <2>3
  <1>5. job' = [job EXCEPT ![j] = new]
    BY <1>1 DEF MutatesTo
  <1>6. QueueInv'
    BY <1>4, <1>5, QueueFollows DEF RedisJobsInv
  <1>7. CallTypes'
    BY <1>1 DEF RedisJobsInv, CallTypes
  <1> QED
    BY <1>2, <1>6, <1>7 DEF RedisJobsInv

LEMMA CancelKeepsLeases ==
  ASSUME LeaseInv, NEW j \in JobIds, job[j].status \in Live,
         job' = [job EXCEPT ![j] = CancelRequested(job[j])],
         running' = running, claims' = claims, fate' = fate
  PROVE  LeaseInv'
  <1> DEFINE r == job[j]
             new == CancelRequested(r)
  <1>1. /\ RecordOK(r) /\ r \in JobType
        /\ r.status # "running" => NoLease(r) /\ j \notin DOMAIN running
        /\ r.status = "running" => j \in DOMAIN running /\ running[j] = r.expires
    BY LeaseFacts
  <1>2. /\ RecordOK(new) /\ SameLease(r, new)
        /\ new.status = IF r.status \in Waiting THEN "cancelled" ELSE r.status
    BY <1>1, CancelRequestedOK
  <1>3. new.expires = r.expires
    BY <1>1 DEF CancelRequested, JobType
  <1>4. fate' \in [Tokens -> Fates]
    BY DEF LeaseInv, LeaseTypes
  <1>5. job' = [job EXCEPT ![j] = new]
    OBVIOUS
  <1> HIDE DEF new
  <1>6. CASE r.status = "running"
    BY <1>1, <1>2, <1>3, <1>5, <1>6, KeepsLease DEF SameLease
  <1>7. CASE r.status # "running"
    <2>1. NoLease(new) /\ DOMAIN running' = DOMAIN running \ {j}
      BY <1>1, <1>2, <1>7 DEF SameLease, NoLease
    <2> QED
      BY <1>2, <1>4, <1>5, <2>1, GivesUp
  <1> QED
    BY <1>6, <1>7

LEMMA RequestCancelKeeps ==
  ASSUME RedisJobsInv, NEW j \in JobIds, RequestCancel(j) PROVE RedisJobsInv'
  <1> DEFINE new == CancelRequested(job[j])
  <1>1. /\ job[j].status \in Live /\ job' = [job EXCEPT ![j] = new]
        /\ queue' = IF new.status = "cancelled" THEN Zrem(queue, j) ELSE queue
        /\ running' = running /\ claims' = claims /\ fate' = fate
        /\ now' = now /\ pending' = pending /\ scan' = scan /\ sweep' = sweep
    BY DEF RequestCancel, Commit
  <1>2. LeaseInv'
    BY <1>1, CancelKeepsLeases DEF RedisJobsInv
  <1>3. job[j].status \in Waiting => new.status = "cancelled"
    <2>1. job[j] \in JobType
      BY DEF RedisJobsInv, LeaseInv, LeaseTypes
    <2> QED
      BY <2>1 DEF CancelRequested, JobType
  <1> HIDE DEF new
  <1>4. /\ DOMAIN queue' \subseteq DOMAIN queue
        /\ \A i \in DOMAIN queue' : queue'[i] = queue[i]
        /\ j \notin DOMAIN queue'
    <2>1. CASE new.status = "cancelled"
      <3>1. queue' = Zrem(queue, j)
        BY <1>1, <2>1
      <3> QED
        BY <3>1 DEF Zrem
    <2>2. CASE new.status # "cancelled"
      <3>1. j \notin DOMAIN queue
        BY <1>3, <2>2, RunningIsNotQueued DEF RedisJobsInv
      <3> QED
        BY <1>1, <2>2, <3>1
    <2> QED
      BY <2>1, <2>2
  <1>5. QueueInv'
    BY <1>1, <1>4, QueueFollows DEF RedisJobsInv
  <1>6. CallTypes'
    BY <1>1 DEF RedisJobsInv, CallTypes
  <1> QED
    BY <1>2, <1>5, <1>6 DEF RedisJobsInv

\* A recovered job that waits again is available at once.
LEMMA RecoveredIsAvailable ==
  ASSUME NEW r, RecordOK(r), r.status = "running", NEW at \in Nat,
         Recovered(r, at).status = "queued"
  PROVE  Recovered(r, at).available = at
  <1>1. r \in JobType
    BY DEF RecordOK
  <1>2. CASE r.cancel
    BY <1>1, <1>2 DEF Recovered, ClearLease, JobType
  <1>3. CASE ~r.cancel /\ DeadlineExpired(r, at)
    BY <1>1, <1>3 DEF Recovered, DeadlineFailed, ClearLease, JobType
  <1>4. CASE ~r.cancel /\ ~DeadlineExpired(r, at)
    <2>1. CASE r.attempt >= r.spec.maxAttempts
      BY <1>1, <1>4, <2>1 DEF Recovered, ClearLease, JobType
    <2>2. CASE ~(r.attempt >= r.spec.maxAttempts)
      BY <1>1, <1>4, <2>2 DEF Recovered, ClearLease, JobType
    <2> QED
      BY <2>1, <2>2
  <1> QED
    BY <1>2, <1>3, <1>4

LEMMA RecoverKeepsLeases ==
  ASSUME LeaseInv, NEW j \in JobIds, NEW at \in Nat, job[j].status = "running",
         job' = [job EXCEPT ![j] = Recovered(job[j], at)], running' = Zrem(running, j),
         claims' = claims, fate' = FateTaken(j, Recovered(job[j], at))
  PROVE  LeaseInv'
  <1> DEFINE new == Recovered(job[j], at)
  <1>1. RecordOK(job[j])
    BY LeaseFacts
  <1>2. RecordOK(new) /\ NoLease(new)
    BY <1>1, RecoveredOK
  <1>3. job' = [job EXCEPT ![j] = new] /\ fate' = FateTaken(j, new)
    OBVIOUS
  <1> HIDE DEF new
  <1>4. fate \in [Tokens -> Fates] /\ "lost" \in Fates
    BY DEF LeaseInv, LeaseTypes, Fates
  <1>5. /\ fate' \in [Tokens -> Fates]
        /\ \A t \in Tokens : t # job[j].token => fate'[t] = fate[t]
    BY <1>3, <1>4 DEF FateTaken
  <1>6. /\ DOMAIN running' = DOMAIN running \ {j}
        /\ \A i \in DOMAIN running \ {j} : running'[i] = running[i]
    BY DEF Zrem
  <1> QED
    BY <1>2, <1>3, <1>5, <1>6, GivesUp

LEMMA RecoverOneKeeps ==
  ASSUME RedisJobsInv, NEW j \in JobIds, RecoverOne(j) PROVE RedisJobsInv'
  <1> DEFINE at == sweep.at
             new == Recovered(job[j], at)
  <1>1. sweep \in [at : Nat, ids : SUBSET JobIds]
    BY DEF RedisJobsInv, CallTypes
  <1>2. at \in Nat
    BY <1>1
  <1>3. /\ job[j].status = "running" /\ job' = [job EXCEPT ![j] = new]
        /\ queue' = IF new.status = "queued" THEN Zadd(queue, j, at) ELSE queue
        /\ running' = Zrem(running, j) /\ claims' = claims /\ fate' = FateTaken(j, new)
        /\ sweep' = [sweep EXCEPT !.ids = @ \ {j}]
        /\ now' = now /\ pending' = pending /\ scan' = scan
    BY DEF RecoverOne, Commit, LeaseExpired
  <1>4. LeaseInv'
    BY <1>2, <1>3, RecoverKeepsLeases DEF RedisJobsInv
  <1>5. new.status = "queued" => new.available = at
    BY <1>2, <1>3, LeaseFacts, RecoveredIsAvailable DEF RedisJobsInv
  <1>6. j \notin DOMAIN queue
    BY <1>3, RunningIsNotQueued DEF RedisJobsInv
  <1> HIDE DEF new, at
  <1>7. /\ DOMAIN queue' \subseteq DOMAIN queue \cup {j}
        /\ \A i \in DOMAIN queue' : i # j => queue'[i] = queue[i]
        /\ j \in DOMAIN queue' => new.status \in Waiting /\ queue'[j] = new.available
    <2>1. CASE new.status = "queued"
      <3>1. queue' = Zadd(queue, j, new.available)
        BY <1>3, <1>5, <2>1
      <3> QED
        BY <2>1, <3>1 DEF Zadd
    <2>2. CASE new.status # "queued"
      BY <1>3, <1>6, <2>2
    <2> QED
      BY <2>1, <2>2
  <1>8. QueueInv'
    BY <1>3, <1>7, QueueFollows DEF RedisJobsInv
  <1>9. sweep' \in [at : Nat, ids : SUBSET JobIds]
    BY <1>1, <1>3
  <1>10. CallTypes'
    BY <1>3, <1>9 DEF RedisJobsInv, CallTypes
  <1> QED
    BY <1>4, <1>8, <1>10 DEF RedisJobsInv

-----------------------------------------------------------------------------
(* The plain store                                                         *)

LEMMA RedisJobsInit == Init => RedisJobsInv
  <1> SUFFICES ASSUME Init PROVE RedisJobsInv
    OBVIOUS
  <1>1. DOMAIN Nothing = {}
    BY DEF Nothing
  <1>2. Absent \in JobType /\ Absent.status = "absent" /\ NoLease(Absent)
    BY DEF Absent, JobType, NoLease
  <1>3. LeaseTypes
    BY <1>1, <1>2, ConstantAssumption DEF Init, LeaseTypes, Fates
  <1>4. RecordsOK
    BY <1>2 DEF Init, RecordsOK, RecordOK, AttemptsOK, RetryOK
  <1>5. LeasesAreIndexed
    BY <1>1, <1>2 DEF Init, LeasesAreIndexed, NoLease
  <1>6. QueueInv
    BY <1>1 DEF Init, QueueInv, QueueHoldsWaiting
  <1>7. CallTypes
    <2>1. scan \in [Workers -> ScanType] /\ \A w \in Workers : ScanOK(scan[w])
      BY IdleOK DEF Init, ScanOK
    <2> QED
      BY <2>1 DEF Init, CallTypes, NoSweep
  <1> QED
    BY <1>3, <1>4, <1>5, <1>6, <1>7 DEF RedisJobsInv, LeaseInv

LEMMA RedisJobsNext == RedisJobsInv /\ [Next]_vars => RedisJobsInv'
  <1> SUFFICES ASSUME RedisJobsInv, [Next]_vars PROVE RedisJobsInv'
    OBVIOUS
  <1>1. ASSUME NEW s \in Specs, Submit(s) PROVE RedisJobsInv'
    BY <1>1, SubmitKeeps
  <1>2. ASSUME NEW w \in Workers, \E d \in DomainFilters : ClaimTime(w, d) PROVE RedisJobsInv'
    BY <1>2, ClaimTimeKeeps
  <1>3. ASSUME NEW w \in Workers, \E j \in JobIds : ClaimRead(w, j) PROVE RedisJobsInv'
    BY <1>3, ClaimReadKeeps
  <1>4. ASSUME NEW w \in Workers,
               \/ ClaimRange(w) \/ ClaimZrem(w) \/ ClaimExpire(w) \/ ClaimSelect(w)
               \/ ClaimExec(w) \/ ClaimRetry(w)
        PROVE  RedisJobsInv'
    BY <1>4, ClaimRangeKeeps, ClaimZremKeeps, ClaimExpireKeeps, ClaimSelectKeeps,
       ClaimExecKeeps, ClaimRetryKeeps
  <1>5. ASSUME NEW t \in Tokens, MutateTime(t) PROVE RedisJobsInv'
    <2>1. CallTypes'
      BY <1>5 DEF RedisJobsInv, CallTypes, MutateTime
    <2> QED
      BY <1>5, <2>1, LeaseUnchanged, QueueUnchanged DEF RedisJobsInv, MutateTime, store
  <1>6. ASSUME NEW p \in pending, NEW j \in JobIds, NEW w \in Workers, MutateExec(p, j, w)
        PROVE  RedisJobsInv'
    BY <1>6, MutateExecKeeps
  <1>7. ASSUME NEW p \in pending, MutateLost(p) PROVE RedisJobsInv'
    <2>1. CallTypes'
      BY <1>7 DEF RedisJobsInv, CallTypes, MutateLost
    <2> QED
      BY <1>7, <2>1, LeaseUnchanged, QueueUnchanged DEF RedisJobsInv, MutateLost, store
  <1>8. ASSUME NEW j \in JobIds, RequestCancel(j) PROVE RedisJobsInv'
    BY <1>8, RequestCancelKeeps
  <1>9. ASSUME RecoverRange PROVE RedisJobsInv'
    <2>1. ZrangeUpTo(running, now) \in SUBSET JobIds
      BY RangeIsMembers DEF RedisJobsInv, LeaseInv, LeaseTypes
    <2>2. sweep' \in [at : Nat, ids : SUBSET JobIds]
      BY <1>9, <2>1 DEF RecoverRange, RedisJobsInv, CallTypes
    <2>3. CallTypes'
      BY <1>9, <2>2 DEF RedisJobsInv, CallTypes, RecoverRange
    <2> QED
      BY <1>9, <2>3, LeaseUnchanged, QueueUnchanged DEF RedisJobsInv, RecoverRange, store
  <1>10. ASSUME NEW j \in JobIds, RecoverOne(j) PROVE RedisJobsInv'
    BY <1>10, RecoverOneKeeps
  <1>11. ASSUME NEW j \in JobIds, RecoverSkip(j) PROVE RedisJobsInv'
    <2>1. sweep' \in [at : Nat, ids : SUBSET JobIds]
      BY <1>11 DEF RecoverSkip, RedisJobsInv, CallTypes
    <2>2. CallTypes'
      BY <1>11, <2>1 DEF RedisJobsInv, CallTypes, RecoverSkip
    <2> QED
      BY <1>11, <2>2, LeaseUnchanged, QueueUnchanged DEF RedisJobsInv, RecoverSkip, store
  <1>12. CASE Tick
    <2>1. CallTypes'
      BY <1>12 DEF RedisJobsInv, CallTypes, Tick
    <2> QED
      BY <1>12, <2>1, LeaseUnchanged, QueueUnchanged DEF RedisJobsInv, Tick, store
  <1>13. CASE UNCHANGED vars
    <2>1. CallTypes'
      BY <1>13 DEF RedisJobsInv, CallTypes, vars
    <2> QED
      BY <1>13, <2>1, LeaseUnchanged, QueueUnchanged DEF RedisJobsInv, vars
  <1> QED
    BY <1>1, <1>2, <1>3, <1>4, <1>5, <1>6, <1>7, <1>8, <1>9, <1>10, <1>11, <1>12, <1>13 DEF Next

LEMMA RedisJobsInvHolds == Spec => []RedisJobsInv
  <1>1. Init => RedisJobsInv
    BY RedisJobsInit
  <1>2. RedisJobsInv /\ [Next]_vars => RedisJobsInv'
    BY RedisJobsNext
  <1> QED
    BY <1>1, <1>2, PTL DEF Spec

\* However the round trips of claims, heartbeats, results, cancellations and recoveries
\* interleave, a running job has an open token of its own and stands in the running index
\* under the expiry of its lease.
THEOREM LeasesStayIndexed == Spec => []LeasesAreIndexed
  <1>1. RedisJobsInv => LeasesAreIndexed
    BY DEF RedisJobsInv, LeaseInv
  <1> QED
    BY <1>1, RedisJobsInvHolds, PTL

\* The queue only ever offers waiting jobs, under their available_at, although claim removes
\* members without a transaction around its read.
THEOREM QueueStaysHonest == Spec => []QueueHoldsWaiting
  <1>1. RedisJobsInv => QueueHoldsWaiting
    BY DEF RedisJobsInv, QueueInv
  <1> QED
    BY <1>1, RedisJobsInvHolds, PTL

-----------------------------------------------------------------------------
(* The store implements the abstract life cycle: of the round trips only   *)
(* the transactions show, and each is one step of the life cycle.          *)

USE DEF Lifecycle!Waiting, Lifecycle!Live

\* No token has a history before it is handed out.
TokensAreFresh == \A t \in Tokens : t > claims => fate[t] = "unused"

\* A step that changes nothing but the history of a job's token keeps that.
LEMMA FreshStep ==
  ASSUME RedisJobsInv, TokensAreFresh, NEW j \in JobIds,
         job[j].status = "running", claims' = claims,
         \A t \in Tokens : t # job[j].token => fate'[t] = fate[t]
  PROVE  TokensAreFresh'
  <1>1. job[j].token \in 1..claims /\ claims \in Nat
    BY LeaseFacts DEF RedisJobsInv, LeaseInv, LeaseTypes
  <1>2. \A t \in Tokens : t > claims => t # job[j].token
    BY <1>1
  <1> QED
    BY <1>2 DEF TokensAreFresh

\* A claim takes the first fresh token.
LEMMA ClaimExecFresh ==
  ASSUME RedisJobsInv, TokensAreFresh, NEW w \in Workers, ClaimExec(w)
  PROVE  TokensAreFresh'
  <1>1. claims \in Nat /\ claims' = claims + 1
        /\ fate \in [Tokens -> Fates] /\ fate' = [fate EXCEPT ![claims + 1] = "open"]
    BY DEF ClaimExec, RedisJobsInv, LeaseInv, LeaseTypes
  <1>2. \A t \in Tokens : t \in Nat
    BY DEF Tokens
  <1>3. ASSUME NEW t \in Tokens, t > claims + 1 PROVE fate'[t] = "unused"
    <2>1. t # claims + 1 /\ t > claims
      BY <1>1, <1>2, <1>3
    <2> QED
      BY <1>1, <2>1 DEF TokensAreFresh
  <1> QED
    BY <1>1, <1>3 DEF TokensAreFresh

\* What the life cycle sees of a stored job.
LEMMA PublicAt ==
  ASSUME RedisJobsInv, NEW i \in JobIds
  PROVE  /\ RecordOK(job[i]) /\ PublicJobs[i] = PublicJob(job[i])
         /\ PublicJobs[i] \in PublicType
  BY LeaseFacts, PublicFields DEF RedisJobsInv, PublicJobs

\* It sees a change of one hash as a change of one job.
LEMMA PublicOneJob ==
  ASSUME RedisJobsInv, NEW j \in JobIds, NEW new, job' = [job EXCEPT ![j] = new]
  PROVE  PublicJobs' = [PublicJobs EXCEPT ![j] = PublicJob(new)]
  <1>1. \A i \in JobIds : job'[i] = IF i = j THEN new ELSE job[i]
    BY DEF RedisJobsInv, LeaseInv, LeaseTypes
  <1>2. PublicJobs' = [i \in JobIds |-> PublicJob(job'[i])]
    BY DEF PublicJobs
  <1>3. \A i \in JobIds :
          PublicJobs'[i] = IF i = j THEN PublicJob(new) ELSE PublicJobs[i]
    <2> TAKE i \in JobIds
    <2>1. PublicJobs'[i] = PublicJob(job'[i]) /\ PublicJobs[i] = PublicJob(job[i])
      BY <1>2 DEF PublicJobs
    <2>2. CASE i = j
      BY <1>1, <2>1, <2>2
    <2>3. CASE i # j
      BY <1>1, <2>1, <2>3
    <2> QED
      BY <2>2, <2>3
  <1>4. PublicJobs = [i \in JobIds |-> PublicJobs[i]]
        /\ PublicJobs' = [i \in JobIds |-> PublicJobs'[i]]
    BY DEF PublicJobs
  <1> QED
    BY <1>3, <1>4

\* Giving up a claim is the same idea in both.
LEMMA SettleIsUnclaimed ==
  ASSUME NEW p, NEW s PROVE Lifecycle!Settle(p, s) = Unclaimed(p, s)
  BY DEF Lifecycle!Settle, Unclaimed

\* The claims that leave with the jobs in J.
LEMMA FateMaps ==
  ASSUME RedisJobsInv
  PROVE  /\ Lifecycle!FateWithout({}) = fate
         /\ \A j \in JobIds :
              Lifecycle!FateWithout({j}) =
                [t \in Tokens |-> IF job[j].token = t THEN "lost" ELSE fate[t]]
  <1>1. fate \in [Tokens -> Fates]
    BY DEF RedisJobsInv, LeaseInv, LeaseTypes
  <1>2. \A j \in JobIds : PublicJobs[j].token = job[j].token
    BY PublicAt, PublicFields
  <1>3. Lifecycle!FateWithout({}) = fate
    BY <1>1 DEF Lifecycle!FateWithout
  <1>4. ASSUME NEW j \in JobIds
        PROVE  Lifecycle!FateWithout({j}) =
                [t \in Tokens |-> IF job[j].token = t THEN "lost" ELSE fate[t]]
    BY <1>2 DEF Lifecycle!FateWithout
  <1> QED
    BY <1>3, <1>4

\* A job that fails for its deadline, alone.
LEMMA ExpiresAlone ==
  ASSUME RedisJobsInv, NEW j \in JobIds, job[j].status \in Live, NEW at \in Nat,
         DeadlineExpired(job[j], at), NEW new,
         PublicJob(new) = Unclaimed(PublicJob(job[j]), "failed"),
         job' = [job EXCEPT ![j] = new],
         fate' = [t \in Tokens |-> IF job[j].token = t THEN "lost" ELSE fate[t]]
  PROVE  \E J \in SUBSET Lifecycle!Overdue : Lifecycle!ExpireDeadlines(J)
  <1>1. PublicJobs[j].status \in Live /\ PublicJobs[j].dated
    BY PublicAt, PublicFields DEF DeadlineExpired
  <1>2. {j} \in SUBSET Lifecycle!Overdue
    BY <1>1 DEF Lifecycle!Overdue
  <1>3. PublicJobs' = [PublicJobs EXCEPT ![j] = Lifecycle!Settle(PublicJobs[j], "failed")]
    <2>1. PublicJobs' = [PublicJobs EXCEPT ![j] = PublicJob(new)]
      BY PublicOneJob
    <2>2. PublicJob(new) = Lifecycle!Settle(PublicJobs[j], "failed")
      BY PublicAt, SettleIsUnclaimed
    <2> QED
      BY <2>1, <2>2
  <1>4. PublicJobs' = Lifecycle!SweptOf({j})
    BY <1>3 DEF Lifecycle!SweptOf, PublicJobs
  <1>5. fate' = Lifecycle!FateWithout({j})
    BY FateMaps
  <1> QED
    BY <1>2, <1>4, <1>5 DEF Lifecycle!ExpireDeadlines

\* A claim may fail an overdue waiting job on its way.
LEMMA ClaimExpireMaps ==
  ASSUME RedisJobsInv, NEW w \in Workers, ClaimExpire(w)
  PROVE  \/ \E J \in SUBSET Lifecycle!Overdue : Lifecycle!ExpireDeadlines(J)
         \/ UNCHANGED Lifecycle!vars
  <1> DEFINE j == scan[w].cur
             at == scan[w].at
  <1>1. j \in JobIds /\ at \in Nat /\ fate' = fate
    BY MeOK DEF RedisJobsInv, ClaimExpire
  <1>2. CASE job[j].status \in Waiting /\ DeadlineExpired(job[j], at)
    <2>1. job' = [job EXCEPT ![j] = DeadlineFailed(job[j])]
      BY <1>2 DEF ClaimExpire, Commit
    <2> HIDE DEF j, at
    <2>2. RecordOK(job[j]) /\ job[j].status # "absent" /\ job[j].token = 0
      BY <1>1, <1>2, LeaseFacts DEF RedisJobsInv, NoLease
    <2>3. PublicJob(DeadlineFailed(job[j])) = Unclaimed(PublicJob(job[j]), "failed")
      BY <2>2, DeadlineFailedOK, SettledPublic
    <2>4. \A t \in Tokens : t # 0
      BY DEF Tokens
    <2>5. fate' = [t \in Tokens |-> IF job[j].token = t THEN "lost" ELSE fate[t]]
      BY <1>1, <2>2, <2>4 DEF RedisJobsInv, LeaseInv, LeaseTypes
    <2> QED
      BY <1>1, <1>2, <2>1, <2>3, <2>5, ExpiresAlone
  <1>3. CASE ~(job[j].status \in Waiting /\ DeadlineExpired(job[j], at))
    BY <1>1, <1>3 DEF ClaimExpire, Lifecycle!vars, PublicJobs
  <1> QED
    BY <1>2, <1>3

\* The transaction of a claim opens a fresh token.
LEMMA ClaimExecMaps ==
  ASSUME RedisJobsInv, TokensAreFresh, NEW w \in Workers, ClaimExec(w)
  PROVE  \E J \in SUBSET Lifecycle!Overdue, j \in JobIds, t \in Tokens :
           Lifecycle!Claim(j, t, J)
  <1> DEFINE j == scan[w].cur
             at == scan[w].at
             c == claims + 1
             q == PublicClaimed(PublicJobs[j], c)
             F == Lifecycle!SweptOf({})
  <1>1. /\ j \in JobIds /\ at \in Nat /\ claims < MaxClaims /\ claims \in Nat
        /\ c \in Tokens /\ job[j].status \in Waiting /\ ~job[j].cancel
    BY MeOK, ConstantAssumption
       DEF RedisJobsInv, ClaimExec, Claimable, LeaseInv, LeaseTypes, Tokens
  <1>2. job' = [job EXCEPT ![j] = Claimed(job[j], w, c, at)]
    BY DEF ClaimExec, Commit
  <1>3. fate[c] = "unused"
    <2>1. c > claims
      BY <1>1
    <2> QED
      BY <1>1, <2>1 DEF TokensAreFresh
  <1>4. fate' = [Lifecycle!FateWithout({}) EXCEPT ![c] = "open"]
    BY FateMaps DEF ClaimExec
  <1> HIDE DEF j, at, c
  <1>5. PublicJobs[j].status \in Lifecycle!Waiting /\ ~PublicJobs[j].cancel
    BY <1>1, PublicAt, PublicFields
  <1>6. PublicJob(Claimed(job[j], w, c, at)) = q
    BY <1>1, PublicAt, ClaimedPublic
  <1>7. F = PublicJobs /\ PublicJobs = [i \in JobIds |-> PublicJobs[i]]
    BY DEF Lifecycle!SweptOf, PublicJobs
  <1> HIDE DEF q, F
  <1>8. PublicJobs' = [F EXCEPT ![j] = q]
    <2>1. PublicJobs' = [PublicJobs EXCEPT ![j] = PublicJob(Claimed(job[j], w, c, at))]
      BY <1>1, <1>2, PublicOneJob
    <2> QED
      BY <1>6, <1>7, <2>1, Zenon
  <1>9. [F EXCEPT ![j] = q] =
        [F EXCEPT ![j].status = "running", ![j].attempt = @ + 1, ![j].token = c]
    BY <1>1, <1>7 DEF q, PublicClaimed
  <1>10. PublicJobs' = [F EXCEPT ![j].status = "running",
                                 ![j].attempt = @ + 1, ![j].token = c]
    BY <1>8, <1>9, Zenon
  <1>11. j \notin {} /\ {} \in SUBSET Lifecycle!Overdue
    OBVIOUS
  <1>12. Lifecycle!Claim(j, c, {})
    BY <1>3, <1>4, <1>5, <1>10, <1>11, Zenon DEF Lifecycle!Claim, F
  <1> QED
    BY <1>1, <1>11, <1>12

\* The two modules mean the same by an absent job.
LEMMA AbsentMaps == PublicJob(Absent) = Lifecycle!Absent
  BY DEF PublicJob, Absent, Lifecycle!Absent

\* A submission makes an absent job wait.
LEMMA SubmitMaps ==
  ASSUME RedisJobsInv, NEW s \in Specs, Submit(s)
  PROVE  \E j \in JobIds, b \in {x.maxAttempts : x \in Specs}, d \in BOOLEAN :
           Lifecycle!Submit(j, b, d)
  <1>1. PICK j \in JobIds : /\ job[j].status = "absent"
                            /\ job' = [job EXCEPT ![j] = NewJob(s, now)]
    BY DEF Submit, Commit
  <1> DEFINE b == s.maxAttempts
             d == (s.deadline # NoDeadline)
  <1>2. PublicJob(NewJob(s, now)) =
          [Lifecycle!Absent EXCEPT !.status = "queued", !.budget = b,
                                   !.dated = d]
    BY NewJobPublic, AbsentMaps DEF RedisJobsInv, CallTypes
  <1>3. PublicJobs' = [PublicJobs EXCEPT ![j] = PublicJob(NewJob(s, now))]
    BY <1>1, PublicOneJob
  <1>4. PublicJobs[j].status = "absent"
    BY <1>1, PublicAt, PublicFields
  <1>5. d \in BOOLEAN /\ b \in {x.maxAttempts : x \in Specs}
    OBVIOUS
  <1> HIDE DEF b, d
  <1>6. Lifecycle!Submit(j, b, d)
    BY <1>2, <1>3, <1>4, Zenon DEF Submit, Lifecycle!Submit
  <1> QED
    BY <1>5, <1>6

\* A request ends a waiting job and marks a running one in both.
LEMMA RequestCancelMaps ==
  ASSUME RedisJobsInv, NEW j \in JobIds, RequestCancel(j)
  PROVE  Lifecycle!RequestCancel(j)
  <1>1. /\ RecordOK(job[j]) /\ job[j].status \in Live
        /\ job[j].status # "running" => NoLease(job[j])
    BY LeaseFacts DEF RedisJobsInv, RequestCancel
  <1> DEFINE q == [PublicJobs[j] EXCEPT
                     !.cancel = TRUE,
                     !.status = IF @ \in Lifecycle!Waiting THEN "cancelled"
                                                           ELSE @]
  <1>2. PublicJob(CancelRequested(job[j])) = q
    BY <1>1, CancelRequestedPublic, PublicAt
  <1>3. PublicJobs' = [PublicJobs EXCEPT ![j] = q]
    <2>1. job' = [job EXCEPT ![j] = CancelRequested(job[j])]
      BY DEF RequestCancel, Commit
    <2>2. PublicJobs' = [PublicJobs EXCEPT ![j] = PublicJob(CancelRequested(job[j]))]
      BY <2>1, PublicOneJob
    <2> QED
      BY <1>2, <2>2, Zenon
  <1>4. [PublicJobs EXCEPT ![j] = q] =
        [PublicJobs EXCEPT ![j].cancel = TRUE,
           ![j].status = IF @ \in Lifecycle!Waiting THEN "cancelled" ELSE @]
    BY DEF PublicJobs
  <1>5. PublicJobs[j].status \in Lifecycle!Live
    BY <1>1, PublicAt, PublicFields
  <1>6. fate' = fate
    BY DEF RequestCancel
  <1> HIDE DEF q
  <1> QED
    BY <1>3, <1>4, <1>5, <1>6, Zenon DEF Lifecycle!RequestCancel

\* What the history says of the call that a holder commits.
LEMMA MutateExecFate ==
  ASSUME RedisJobsInv, NEW p \in pending, NEW j \in JobIds, NEW w \in Workers,
         MutateExec(p, j, w)
  PROVE  \E new \in Mutations(job[j], p.at) :
           /\ RecordOK(job[j]) /\ job[j].status = "running" /\ p.at \in Nat
           /\ job[j].token = p.token /\ p.token \in Tokens /\ p.token # 0
           /\ job' = [job EXCEPT ![j] = new]
           /\ claims' = claims
           /\ fate' = [fate EXCEPT
                ![p.token] = IF new.token = job[j].token THEN @
                             ELSE IF new = Heartbeaten(job[j], p.at) THEN "lost"
                             ELSE "closed"]
  <1>1. job[j].status = "running" /\ job[j].token = p.token /\ p.at \in Nat
    BY DEF MutateExec, HasLease, RedisJobsInv, CallTypes
  <1>2. RecordOK(job[j]) /\ p.token \in Tokens /\ p.token # 0
    BY <1>1, LeaseFacts DEF RedisJobsInv
  <1> QED
    BY <1>1, <1>2 DEF MutateExec, Commit

\* A holder that ends its claim ends it in the life cycle.
LEMMA EndClaimMaps ==
  ASSUME RedisJobsInv, NEW j \in JobIds, NEW new,
         job[j].status = "running",
         job' = [job EXCEPT ![j] = new],
         fate' = [fate EXCEPT ![job[j].token] = "closed"]
  PROVE  Lifecycle!EndClaim(j, job[j].token, PublicJob(new))
  <1>1. PublicJobs[j].status = "running" /\ PublicJobs[j].token = job[j].token
    BY PublicAt, PublicFields
  <1>2. PublicJobs' = [PublicJobs EXCEPT ![j] = PublicJob(new)]
    BY PublicOneJob
  <1> QED
    BY <1>1, <1>2 DEF Lifecycle!EndClaim, Lifecycle!HoldsClaim

\* The methods that end a claim, by what they make of the job.
LEMMA EndingMaps ==
  ASSUME RedisJobsInv, NEW j \in JobIds, NEW at \in Nat,
         job[j].status = "running", NEW new,
         \/ new = Succeeded(job[j], at)
         \/ new = Failed(job[j], at)
         \/ new = ClaimCancelled(job[j])
         \/ \E d \in Delays : new = Released(job[j], d, at),
         Lifecycle!EndClaim(j, job[j].token, PublicJob(new))
  PROVE  LET t == job[j].token
         IN  \/ Lifecycle!ReleaseUnstartedClaim(j, t)
             \/ Lifecycle!Succeed(j, t)
             \/ Lifecycle!Fail(j, t)
             \/ Lifecycle!CancelClaimed(j, t)
  <1> DEFINE t == job[j].token
             p == PublicJobs[j]
  <1>1. RecordOK(job[j]) /\ p = PublicJob(job[j])
    BY PublicAt
  <1>2. /\ p.cancel = job[j].cancel /\ p.attempt = job[j].attempt
        /\ p.budget = job[j].spec.maxAttempts
        /\ job[j].spec.deadline # NoDeadline => p.dated
    BY <1>1, PublicFields
  <1>3. CASE new = Succeeded(job[j], at)
    <2>1. /\ RecordOK(new) /\ NoLease(new) /\ SameJob(job[j], new)
          /\ new.cancel = job[j].cancel /\ new.attempt = job[j].attempt
          /\ \/ job[j].cancel /\ new.status = "cancelled"
             \/ /\ ~job[j].cancel /\ new.status = "failed"
                /\ DeadlineExpired(job[j], at)
             \/ ~job[j].cancel /\ new.status = "succeeded"
      BY <1>1, <1>3, SucceededOK
    <2>2. Lifecycle!EndClaim(j, t, Lifecycle!Settle(p, new.status))
      BY <1>1, <2>1, SettledPublic, SettleIsUnclaimed
    <2> QED
      BY <1>2, <2>1, <2>2 DEF Lifecycle!Succeed, DeadlineExpired
  <1>4. CASE new = Failed(job[j], at)
    <2>1. /\ RecordOK(new) /\ NoLease(new) /\ SameJob(job[j], new)
          /\ new.cancel = job[j].cancel /\ new.attempt = job[j].attempt
          /\ \/ job[j].cancel /\ new.status = "cancelled"
             \/ /\ ~job[j].cancel /\ new.status = "failed"
                /\ \/ job[j].attempt >= job[j].spec.maxAttempts
                   \/ job[j].spec.deadline # NoDeadline
             \/ /\ ~job[j].cancel /\ new.status = "retry_wait"
                /\ job[j].attempt < job[j].spec.maxAttempts
      BY <1>1, <1>4, FailedOK
    <2>2. Lifecycle!EndClaim(j, t, Lifecycle!Settle(p, new.status))
      BY <1>1, <2>1, SettledPublic, SettleIsUnclaimed
    <2> QED
      BY <1>2, <2>1, <2>2 DEF Lifecycle!Fail
  <1>5. CASE new = ClaimCancelled(job[j])
    <2>1. PublicJob(new) =
            [Lifecycle!Settle(p, "cancelled") EXCEPT !.cancel = TRUE]
      BY <1>1, <1>5, ClaimCancelledPublic, SettleIsUnclaimed
    <2> QED
      BY <2>1 DEF Lifecycle!CancelClaimed
  <1>6. ASSUME NEW d \in Delays, new = Released(job[j], d, at)
        PROVE  Lifecycle!ReleaseUnstartedClaim(j, t)
    <2>1. PublicJob(new) = [Lifecycle!Settle(p, "queued") EXCEPT !.attempt = @ - 1]
      BY <1>1, <1>6, ReleasedPublic, SettleIsUnclaimed
    <2> QED
      BY <2>1 DEF Lifecycle!ReleaseUnstartedClaim
  <1> QED
    BY <1>3, <1>4, <1>5, <1>6

\* The transaction of a holder's call.
LEMMA MutateExecMaps ==
  ASSUME RedisJobsInv, NEW p \in pending, NEW j \in JobIds, NEW w \in Workers,
         MutateExec(p, j, w)
  PROVE  \/ \E t \in Tokens :
              \/ Lifecycle!ReleaseUnstartedClaim(j, t)
              \/ Lifecycle!Succeed(j, t)
              \/ Lifecycle!Fail(j, t)
              \/ Lifecycle!CancelClaimed(j, t)
         \/ \E J \in SUBSET Lifecycle!Overdue : Lifecycle!ExpireDeadlines(J)
         \/ UNCHANGED Lifecycle!vars
  <1> DEFINE at == p.at
             beat == Heartbeaten(job[j], at)
  <1>1. PICK new \in Mutations(job[j], at) :
           /\ RecordOK(job[j]) /\ job[j].status = "running" /\ at \in Nat
           /\ job[j].token = p.token /\ p.token \in Tokens /\ p.token # 0
           /\ job' = [job EXCEPT ![j] = new]
           /\ fate' = [fate EXCEPT
                ![p.token] = IF new.token = job[j].token THEN @
                             ELSE IF new = beat THEN "lost" ELSE "closed"]
    BY MutateExecFate
  <1>2. fate \in [Tokens -> Fates]
    BY DEF RedisJobsInv, LeaseInv, LeaseTypes
  <1>3. PublicJobs' = [PublicJobs EXCEPT ![j] = PublicJob(new)]
    BY <1>1, PublicOneJob
  <1>4. CASE new = beat /\ ~DeadlineExpired(job[j], at)
    <2>1. PublicJob(new) = PublicJobs[j] /\ new.token = job[j].token
      BY <1>1, <1>4, PublicAt, HeartbeatenPublic, HeartbeatenOK DEF SameLease
    <2>2. PublicJobs' = PublicJobs
      BY <1>3, <2>1 DEF PublicJobs
    <2>3. fate' = fate
      BY <1>1, <1>2, <2>1
    <2> QED
      BY <2>2, <2>3 DEF Lifecycle!vars
  <1>5. CASE new = beat /\ DeadlineExpired(job[j], at)
    <2>1. PublicJob(new) = Unclaimed(PublicJob(job[j]), "failed")
      BY <1>1, <1>5, HeartbeatenPublic
    <2>2. new.token = 0
      BY <1>1, <1>5, DeadlineFailedOK DEF Heartbeaten, NoLease
    <2>3. fate' = [t \in Tokens |-> IF job[j].token = t THEN "lost" ELSE fate[t]]
      BY <1>1, <1>2, <1>5, <2>2
    <2> QED
      BY <1>1, <1>5, <2>1, <2>3, ExpiresAlone
  <1>6. CASE new # beat
    <2>1. \/ new = Succeeded(job[j], at)
          \/ new = Failed(job[j], at)
          \/ new = ClaimCancelled(job[j])
          \/ \E d \in Delays : new = Released(job[j], d, at)
      BY <1>1, <1>6 DEF Mutations
    <2>2. new.token = 0
      BY <1>1, <2>1, SucceededOK, FailedOK, ClaimCancelledOK, ReleasedOK DEF NoLease
    <2>3. fate' = [fate EXCEPT ![job[j].token] = "closed"]
      BY <1>1, <1>2, <1>6, <2>2
    <2>4. Lifecycle!EndClaim(j, job[j].token, PublicJob(new))
      BY <1>1, <2>3, EndClaimMaps
    <2> QED
      BY <1>1, <2>1, <2>4, EndingMaps
  <1> QED
    BY <1>4, <1>5, <1>6

\* A recovery takes one job at a time.
LEMMA RecoverOneMaps ==
  ASSUME RedisJobsInv, NEW j \in JobIds, RecoverOne(j)
  PROVE  \E J \in SUBSET JobIds, L \in SUBSET Lifecycle!Overdue :
           Lifecycle!RecoverExpiredLeases(J, L)
  <1> DEFINE at == sweep.at
             late == DeadlineExpired(job[j], at)
             L == {i \in {j} : late}
             new == Recovered(job[j], at)
  <1>1. sweep \in [at : Nat, ids : SUBSET JobIds]
    BY DEF RedisJobsInv, CallTypes
  <1>2. at \in Nat
    BY <1>1
  <1>3. /\ job[j].status = "running" /\ job' = [job EXCEPT ![j] = new]
        /\ fate' = FateTaken(j, new)
    BY DEF RecoverOne, Commit, LeaseExpired
  <1>4. RecordOK(job[j]) /\ PublicJobs[j] = PublicJob(job[j])
    BY PublicAt
  <1> HIDE DEF at
  <1>5. new.token = 0
    BY <1>2, <1>3, <1>4, RecoveredOK DEF NoLease
  <1>6. PublicJob(new) = Lifecycle!Recovered(PublicJobs[j], j \in L)
    <2>1. (j \in L) = late
      BY DEF DeadlineExpired
    <2> QED
      BY <1>2, <1>3, <1>4, <2>1, RecoveredPublic, SettleIsUnclaimed, Zenon
         DEF Lifecycle!Recovered
  <1>7. L \in SUBSET Lifecycle!Overdue
    <2>1. PublicJobs[j].status = "running"
      BY <1>3, <1>4, PublicFields
    <2>2. late => PublicJobs[j].dated
      BY <1>3, <1>4, PublicFields DEF DeadlineExpired
    <2> QED
      BY <2>1, <2>2 DEF Lifecycle!Overdue
  <1> HIDE DEF L, new
  <1>8. PublicJobs' = [i \in JobIds |->
                         IF i \in {j} THEN Lifecycle!Recovered(PublicJobs[i], i \in L)
                                      ELSE PublicJobs[i]]
    <2>1. PublicJobs' = [PublicJobs EXCEPT ![j] = PublicJob(new)]
      BY <1>3, PublicOneJob
    <2> DEFINE q == PublicJob(new)
    <2> HIDE DEF q
    <2>2. PublicJobs' = [i \in JobIds |-> IF i \in {j} THEN q ELSE PublicJobs[i]]
      BY <2>1 DEF q, PublicJobs
    <2>3. \A i \in {j} : q = Lifecycle!Recovered(PublicJobs[i], i \in L)
      BY <1>6 DEF q
    <2> QED
      BY <2>2, <2>3, Zenon
  <1>9. fate' = Lifecycle!FateWithout({j})
    <2>1. \A t \in Tokens : t # 0
      BY DEF Tokens
    <2> QED
      BY <1>3, <1>5, <2>1, FateMaps DEF FateTaken
  <1>10. \A i \in {j} : PublicJobs[i].status = "running"
    BY <1>3, <1>4, PublicFields
  <1>11. Lifecycle!RecoverExpiredLeases({j}, L)
    BY <1>8, <1>9, <1>10 DEF Lifecycle!RecoverExpiredLeases
  <1> QED
    BY <1>7, <1>11

\* The round trips between the transactions change neither jobs nor claims.
LEMMA QuietSteps ==
  ASSUME \/ \E w \in Workers, d \in DomainFilters : ClaimTime(w, d)
         \/ \E w \in Workers, j \in JobIds : ClaimRead(w, j)
         \/ \E w \in Workers :
              ClaimRange(w) \/ ClaimZrem(w) \/ ClaimSelect(w) \/ ClaimRetry(w)
         \/ \E t \in Tokens : MutateTime(t)
         \/ \E p \in pending : MutateLost(p)
         \/ RecoverRange
         \/ \E j \in JobIds : RecoverSkip(j)
         \/ Tick
         \/ UNCHANGED vars
  PROVE  job' = job /\ claims' = claims /\ fate' = fate
  BY DEF ClaimTime, ClaimRead, ClaimRange, ClaimZrem, ClaimSelect, ClaimRetry,
         MutateTime, MutateLost, RecoverRange, RecoverSkip, Tick, vars, store

\* Every step keeps fresh tokens fresh.
LEMMA FreshNext == RedisJobsInv /\ TokensAreFresh /\ [Next]_vars => TokensAreFresh'
  <1> SUFFICES ASSUME RedisJobsInv, TokensAreFresh, [Next]_vars PROVE TokensAreFresh'
    OBVIOUS
  <1>1. ASSUME job' = job, claims' = claims, fate' = fate PROVE TokensAreFresh'
    BY <1>1 DEF TokensAreFresh
  <1>2. ASSUME claims' = claims, fate' = fate PROVE TokensAreFresh'
    BY <1>2 DEF TokensAreFresh
  <1>3. ASSUME \/ \E s \in Specs : Submit(s)
               \/ \E w \in Workers : ClaimExpire(w)
               \/ \E j \in JobIds : RequestCancel(j)
        PROVE  claims' = claims /\ fate' = fate
    BY <1>3 DEF Submit, ClaimExpire, RequestCancel
  <1>4. ASSUME NEW p \in pending, NEW j \in JobIds, NEW w \in Workers, MutateExec(p, j, w)
        PROVE  TokensAreFresh'
    <2>1. /\ job[j].status = "running" /\ claims' = claims
          /\ \A t \in Tokens : t # job[j].token => fate'[t] = fate[t]
      BY <1>4, MutateExecFate DEF RedisJobsInv, LeaseInv, LeaseTypes
    <2> QED
      BY <2>1, FreshStep
  <1>5. ASSUME NEW j \in JobIds, RecoverOne(j) PROVE TokensAreFresh'
    <2>1. /\ job[j].status = "running" /\ claims' = claims
          /\ \A t \in Tokens : t # job[j].token => fate'[t] = fate[t]
      BY <1>5 DEF RecoverOne, LeaseExpired, FateTaken
    <2> QED
      BY <2>1, FreshStep
  <1>6. ASSUME NEW w \in Workers, ClaimExec(w) PROVE TokensAreFresh'
    BY <1>6, ClaimExecFresh
  <1> QED
    BY <1>1, <1>2, <1>3, <1>4, <1>5, <1>6, QuietSteps DEF Next

\* Every step of the store is a step of the life cycle or shows nothing.
LEMMA NextMaps ==
  RedisJobsInv /\ TokensAreFresh /\ [Next]_vars => [Lifecycle!Next]_(Lifecycle!vars)
  <1> SUFFICES ASSUME RedisJobsInv, TokensAreFresh, [Next]_vars
               PROVE  Lifecycle!Next \/ UNCHANGED Lifecycle!vars
    OBVIOUS
  <1>1. ASSUME job' = job, fate' = fate PROVE UNCHANGED Lifecycle!vars
    BY <1>1 DEF Lifecycle!vars, PublicJobs
  <1>2. ASSUME NEW s \in Specs, Submit(s) PROVE Lifecycle!Next
    BY <1>2, SubmitMaps DEF Lifecycle!Next
  <1>3. ASSUME NEW w \in Workers, ClaimExpire(w)
        PROVE  Lifecycle!Next \/ UNCHANGED Lifecycle!vars
    BY <1>3, ClaimExpireMaps DEF Lifecycle!Next
  <1>4. ASSUME NEW w \in Workers, ClaimExec(w) PROVE Lifecycle!Next
    BY <1>4, ClaimExecMaps DEF Lifecycle!Next
  <1>5. ASSUME NEW p \in pending, NEW j \in JobIds, NEW w \in Workers, MutateExec(p, j, w)
        PROVE  Lifecycle!Next \/ UNCHANGED Lifecycle!vars
    BY <1>5, MutateExecMaps DEF Lifecycle!Next
  <1>6. ASSUME NEW j \in JobIds, RequestCancel(j) PROVE Lifecycle!Next
    BY <1>6, RequestCancelMaps DEF Lifecycle!Next
  <1>7. ASSUME NEW j \in JobIds, RecoverOne(j) PROVE Lifecycle!Next
    BY <1>7, RecoverOneMaps DEF Lifecycle!Next
  <1> QED
    BY <1>1, <1>2, <1>3, <1>4, <1>5, <1>6, <1>7, QuietSteps DEF Next

\* An empty store is an empty life cycle.
LEMMA InitMaps == Init => Lifecycle!Init /\ TokensAreFresh
  BY AbsentMaps DEF Init, Lifecycle!Init, PublicJobs, TokensAreFresh

\* Whatever the interleaving of round trips of claims, calls of holders (late ones too),
\* cancellations and recoveries, the hashes go through the status changes of the abstract
\* life cycle and no others, and every claim ends as it does there.
THEOREM RedisImplementsLifecycle == Spec => ImplementsLifecycle
  <1>1. Spec => [](RedisJobsInv /\ TokensAreFresh)
    <2>1. Init => RedisJobsInv /\ TokensAreFresh
      BY RedisJobsInit, InitMaps
    <2>2. RedisJobsInv /\ TokensAreFresh /\ [Next]_vars => (RedisJobsInv /\ TokensAreFresh)'
      BY RedisJobsNext, FreshNext
    <2> QED
      BY <2>1, <2>2, PTL DEF Spec
  <1>2. Init => Lifecycle!Init
    BY InitMaps
  <1> QED
    BY <1>1, <1>2, NextMaps, PTL DEF Spec, ImplementsLifecycle, Lifecycle!Spec

-----------------------------------------------------------------------------
(* The optimized store.  Its leases are those of the plain one.  An index  *)
(* names known jobs only; before the new store is deployed no job is ever  *)
(* claimed, so a job that waits has waited unchanged since it was read.    *)

Known == {j \in JobIds : job[j].status # "absent"}

\* What every index is, also when it names jobs that no longer wait.
IndexOK(z, known) ==
  /\ DOMAIN z \subseteq known /\ IsFiniteSet(DOMAIN z)
  /\ \A j \in DOMAIN z : z[j] \in Nat

\* Copies of jobs.
Copies == UNION {[S -> JobType] : S \in SUBSET JobIds}

LookType ==
  [pc : {"idle", "lua", "range", "read", "zrem", "select", "expire", "exec"}, at : Nat,
   left : SUBSET Levels, ids : SUBSET JobIds, seen : Copies, cur : JobIds \cup {NoJob}]

\* A claim through the script takes no other steps, and nobody claims before the
\* new store is deployed.
LookOK(me, script, deployed) ==
  /\ me \in LookType
  /\ me.pc \in {"expire", "exec"} => me.cur \in JobIds
  /\ script => me.pc \in {"idle", "lua"}
  /\ me.pc = "lua" => script
  /\ ~deployed => me.pc = "idle"

FixType == [pc : {"scan", "read", "write", "score", "drop"}, ids : SUBSET JobIds, seen : Copies]

\* Where the deployment, the claims and the repair are.
LookTypes ==
  /\ atomic \in BOOLEAN /\ phase \in {"plain", "switched", "repair", "optimized"}
  /\ look \in [Workers -> LookType]
  /\ \A w \in Workers : LookOK(look[w], UsesScript(w), phase = "optimized")
  /\ fix \in FixType

IndexTypes == IndexOK(queue, Known) /\ IndexOK(prio, Known)

\* Nothing has been claimed before the new store is deployed.
NothingClaimed == phase # "optimized" => claims = 0 /\ pending = {} /\ sweep.ids = {}

\* Job j, whose record is r, stands in index z under its own time.
ListedIn(z, j, r) == j \in DOMAIN z /\ z[j] = r.available

\* No worker takes the WATCH path.
ScriptOnly == \A w \in Workers : UsesScript(w)

QueueIsComplete ==
  phase # "optimized" \/ ScriptOnly =>
    \A j \in JobIds : job[j].status \in Waiting => ListedIn(queue, j, job[j])

PrioIsComplete ==
  phase = "optimized" /\ ScriptOnly =>
    \A j \in JobIds : job[j].status \in Waiting => ListedIn(prio, j, job[j])

\* Whatever path the workers take, a waiting job is listed under its own time if at all.
PrioIsRight ==
  phase = "optimized" =>
    \A j \in JobIds : job[j].status \in Waiting /\ j \in DOMAIN prio => ListedIn(prio, j, job[j])

\* What the priority index lacks the repair has still to read or to write, its copies
\* are right about the jobs that wait, and it drops none of them.
RepairCovers(f, z, j, r) ==
  /\ j \in DOMAIN f.seen => f.seen[j].status \in Waiting /\ f.seen[j].available = r.available
  /\ \/ ListedIn(z, j, r)
     \/ j \in DOMAIN f.seen
     \/ f.pc = "read" /\ j \in f.ids
  /\ f.pc = "drop" => j \notin f.ids

Repairing ==
  phase = "repair" =>
    /\ fix.pc # "scan"
    /\ fix.ids \subseteq Known /\ DOMAIN fix.seen \subseteq Known
    /\ fix.pc \in {"score", "drop"} => DOMAIN fix.seen = {}
    /\ \A j \in JobIds : job[j].status \in Waiting => RepairCovers(fix, prio, j, job[j])

IndexInv == QueueIsComplete /\ PrioIsComplete /\ PrioIsRight /\ Repairing

OptInv == LeaseInv /\ CallTypes /\ LookTypes /\ IndexTypes /\ NothingClaimed /\ IndexInv

-----------------------------------------------------------------------------
(* A method changes one job, and both indexes follow                       *)

\* Job j becomes new, in a transaction that keeps the queue for the others.
Follows(j, new) ==
  /\ job' = [job EXCEPT ![j] = new] /\ new.status # "absent"
  /\ new.status \in Waiting => ListedIn(queue', j, new)
  /\ DOMAIN queue' \subseteq DOMAIN queue \cup {j} /\ DOMAIN queue \subseteq DOMAIN queue' \cup {j}
  /\ \A i \in DOMAIN queue' : i # j => queue'[i] = queue[i]
  /\ j \in DOMAIN queue' => queue'[j] \in Nat
  /\ Follow(j) \/ (prio' = prio /\ new.status \notin Waiting)
  /\ phase # "optimized" /\ new.status \in Waiting => job[j].status = "absent"
  /\ atomic' = atomic /\ domains' = domains /\ phase' = phase /\ fix' = fix

LEMMA SettingsKept ==
  ASSUME atomic' = atomic, domains' = domains
  PROVE  (ScriptOnly' <=> ScriptOnly) /\ \A w \in Workers : UsesScript(w)' = UsesScript(w)
  BY DEF ScriptOnly, UsesScript

LEMMA IndexGrows ==
  ASSUME NEW z, NEW known, IndexOK(z, known), NEW y, NEW j,
         NEW wider, known \subseteq wider, j \in wider,
         DOMAIN y \subseteq DOMAIN z \cup {j},
         \A i \in DOMAIN y : i # j => y[i] = z[i],
         j \in DOMAIN y => y[j] \in Nat
  PROVE  IndexOK(y, wider)
  <1>1. IsFiniteSet(DOMAIN z \cup {j})
    BY FS_AddElement DEF IndexOK
  <1>2. IsFiniteSet(DOMAIN y)
    <2>1. DOMAIN y \in SUBSET (DOMAIN z \cup {j})
      OBVIOUS
    <2> QED
      BY <1>1, <2>1, FS_Subset
  <1>3. \A i \in DOMAIN y : y[i] \in Nat
    BY DEF IndexOK
  <1>4. DOMAIN y \subseteq wider
    BY DEF IndexOK
  <1> QED
    BY <1>2, <1>3, <1>4 DEF IndexOK

LEMMA IndexShrinks ==
  ASSUME NEW z, NEW known, IndexOK(z, known), NEW y, NEW wider, known \subseteq wider,
         DOMAIN y \subseteq DOMAIN z, \A i \in DOMAIN y : y[i] = z[i]
  PROVE  IndexOK(y, wider)
  <1>1. IsFiniteSet(DOMAIN y)
    BY FS_Subset DEF IndexOK
  <1> QED
    BY <1>1 DEF IndexOK

\* What the priority index makes of it.
LEMMA PrioFollows ==
  ASSUME IndexTypes, NEW j \in JobIds, NEW new, Follows(j, new)
  PROVE  /\ DOMAIN prio' \subseteq DOMAIN prio \cup {j}
         /\ DOMAIN prio \subseteq DOMAIN prio' \cup {j}
         /\ \A i \in DOMAIN prio' : i # j => prio'[i] = prio[i]
         /\ j \in DOMAIN prio' => prio'[j] \in Nat
         /\ phase # "plain" /\ new.status \in Waiting => ListedIn(prio', j, new)
  <1>1. \A i \in DOMAIN prio : prio[i] \in Nat
    BY DEF IndexTypes, IndexOK
  <1>2. CASE prio' = prio /\ (new.status \in Waiting => phase = "plain")
    BY <1>1, <1>2
  <1>3. CASE prio' = Zadd(prio, j, queue'[j]) /\ j \in DOMAIN queue'
    <2>1. queue'[j] \in Nat /\ (new.status \in Waiting => queue'[j] = new.available)
      BY <1>3 DEF Follows, ListedIn
    <2> QED
      BY <1>3, <2>1 DEF ListedIn, Zadd
  <1>4. CASE prio' = Zrem(prio, j) /\ j \notin DOMAIN queue'
    <2>1. new.status \notin Waiting
      BY <1>4 DEF Follows, ListedIn
    <2> QED
      BY <1>1, <1>4, <2>1 DEF Zrem
  <1> QED
    BY <1>2, <1>3, <1>4 DEF Follows, Follow

LEMMA FollowsKeepsIndexes ==
  ASSUME LeaseInv, IndexTypes, IndexInv, NEW j \in JobIds, NEW new, Follows(j, new)
  PROVE  IndexTypes' /\ IndexInv'
  <1>1. /\ job'[j] = new /\ \A i \in JobIds : i # j => job'[i] = job[i]
    BY DEF LeaseInv, LeaseTypes, Follows
  <1>2. Known \subseteq Known' /\ j \in Known'
    BY <1>1 DEF Known, Follows
  <1>3. /\ DOMAIN queue' \subseteq DOMAIN queue \cup {j}
        /\ DOMAIN queue \subseteq DOMAIN queue' \cup {j}
        /\ \A i \in DOMAIN queue' : i # j => queue'[i] = queue[i]
        /\ j \in DOMAIN queue' => queue'[j] \in Nat
        /\ new.status \in Waiting => ListedIn(queue', j, new)
        /\ phase # "optimized" /\ new.status \in Waiting => job[j].status = "absent"
        /\ atomic' = atomic /\ domains' = domains /\ phase' = phase /\ fix' = fix
    BY DEF Follows
  <1>4. /\ DOMAIN prio' \subseteq DOMAIN prio \cup {j}
        /\ DOMAIN prio \subseteq DOMAIN prio' \cup {j}
        /\ \A i \in DOMAIN prio' : i # j => prio'[i] = prio[i]
        /\ j \in DOMAIN prio' => prio'[j] \in Nat
        /\ phase # "plain" /\ new.status \in Waiting => ListedIn(prio', j, new)
    BY PrioFollows
  <1>5. IndexOK(queue', Known')
    BY <1>2, <1>3, IndexGrows DEF IndexTypes
  <1>6. IndexOK(prio', Known')
    BY <1>2, <1>4, IndexGrows DEF IndexTypes
  <1>7. IndexTypes'
    BY <1>5, <1>6 DEF IndexTypes
  <1>8. ASSUME NEW i \in JobIds, job'[i].status \in Waiting
        PROVE  /\ phase # "optimized" \/ ScriptOnly => ListedIn(queue', i, job'[i])
               /\ phase = "optimized" /\ ScriptOnly => ListedIn(prio', i, job'[i])
               /\ phase = "optimized" /\ i \in DOMAIN prio' => ListedIn(prio', i, job'[i])
    <2>1. CASE i = j
      BY <1>1, <1>3, <1>4, <1>8, <2>1
    <2>2. CASE i # j
      <3>1. job'[i] = job[i] /\ job[i].status \in Waiting
        BY <1>1, <1>8, <2>2
      <3> QED
        BY <1>3, <1>4, <2>2, <3>1
           DEF IndexInv, QueueIsComplete, PrioIsComplete, PrioIsRight, ListedIn
    <2> QED
      BY <2>1, <2>2
  <1>9. QueueIsComplete' /\ PrioIsComplete' /\ PrioIsRight'
    BY <1>3, <1>8, SettingsKept DEF QueueIsComplete, PrioIsComplete, PrioIsRight, ListedIn
  <1>10. ASSUME phase = "repair", NEW i \in JobIds, job'[i].status \in Waiting
         PROVE  RepairCovers(fix', prio', i, job'[i])
    <2>0. /\ fix.ids \subseteq Known /\ DOMAIN fix.seen \subseteq Known
      BY <1>10 DEF IndexInv, Repairing
    <2>1. CASE i = j
      <3>1. job[j].status = "absent" /\ job'[i] = new /\ ListedIn(prio', j, new)
        BY <1>1, <1>3, <1>4, <1>10, <2>1
      <3>2. j \notin fix.ids /\ j \notin DOMAIN fix.seen
        BY <2>0, <3>1 DEF Known
      <3> QED
        BY <1>3, <2>1, <3>1, <3>2 DEF RepairCovers, ListedIn
    <2>2. CASE i # j
      <3>1. job'[i] = job[i] /\ job[i].status \in Waiting
        BY <1>1, <1>10, <2>2
      <3>2. RepairCovers(fix, prio, i, job[i])
        BY <1>10, <3>1 DEF IndexInv, Repairing
      <3>3. ListedIn(prio, i, job[i]) => ListedIn(prio', i, job'[i])
        BY <1>4, <2>2, <3>1 DEF ListedIn
      <3> QED
        BY <1>3, <3>1, <3>2, <3>3 DEF RepairCovers, ListedIn
    <2> QED
      BY <2>1, <2>2
  <1>11. Repairing'
    <2>1. CASE phase = "repair"
      <3>1. /\ fix.pc # "scan" /\ fix.ids \subseteq Known /\ DOMAIN fix.seen \subseteq Known
            /\ fix.pc \in {"score", "drop"} => DOMAIN fix.seen = {}
        BY <2>1 DEF IndexInv, Repairing
      <3>2. \A i \in JobIds : job'[i].status \in Waiting => RepairCovers(fix', prio', i, job'[i])
        BY <1>10, <2>1
      <3> QED
        BY <1>2, <1>3, <3>1, <3>2 DEF Repairing
    <2>2. CASE phase # "repair"
      BY <1>3, <2>2 DEF Repairing
    <2> QED
      BY <2>1, <2>2
  <1> QED
    BY <1>7, <1>9, <1>11 DEF IndexInv

LEMMA NoneRuns ==
  ASSUME LeaseInv, NothingClaimed, phase # "optimized"
  PROVE  DOMAIN running = {} /\ \A j \in JobIds : job[j].status # "running"
  <1>1. claims = 0 /\ 1..0 = {}
    BY DEF NothingClaimed
  <1>2. \A j \in JobIds : job[j].status # "running" /\ j \notin DOMAIN running
    BY <1>1, LeaseFacts
  <1> QED
    BY <1>2 DEF LeaseInv, LeaseTypes

\* The claims in progress and the repair stand where they were.
Paused == look' = look /\ atomic' = atomic /\ domains' = domains /\ phase' = phase /\ fix' = fix

LEMMA PausedTypes == ASSUME LookTypes, Paused PROVE LookTypes'
  BY SettingsKept DEF LookTypes, Paused

LEMMA OptSubmitKeeps ==
  ASSUME OptInv, NEW s \in Specs, OptSubmit(s) PROVE OptInv'
  <1> DEFINE new == NewJob(s, now)
  <1>1. PICK j \in JobIds : /\ job[j].status = "absent"
                            /\ Commit(j, new, Zadd(queue, j, now), running)
    BY DEF OptSubmit, Submit
  <1>2. /\ job' = [job EXCEPT ![j] = new] /\ queue' = Zadd(queue, j, now) /\ running' = running
    BY <1>1 DEF Commit
  <1>3. /\ now' = now /\ claims' = claims /\ fate' = fate /\ pending' = pending
        /\ scan' = scan /\ sweep' = sweep /\ Paused
    BY DEF OptSubmit, Submit, Deployed, Settings, Paused
  <1>4. LeaseInv'
    BY <1>1, <1>2, <1>3, SubmitKeepsLeases DEF OptInv, CallTypes
  <1>5. new.status = "queued" /\ new.available = now /\ now \in Nat
    BY DEF NewJob, Absent, OptInv, CallTypes
  <1> HIDE DEF new
  <1>6. Follow(j)
    <2>1. PICK i \in JobIds : job[i] # job'[i] /\ Follow(i)
      BY DEF OptSubmit
    <2>2. i = j
      BY <1>2, <2>1 DEF OptInv, LeaseInv, LeaseTypes
    <2> QED
      BY <2>1, <2>2
  <1>7. Follows(j, new)
    <2>1. DOMAIN queue' = DOMAIN queue \cup {j} /\ queue'[j] = now
          /\ \A i \in DOMAIN queue' : i # j => queue'[i] = queue[i]
      BY <1>2 DEF Zadd
    <2> QED
      BY <1>1, <1>2, <1>3, <1>5, <1>6, <2>1 DEF Follows, ListedIn, Paused
  <1>8. IndexTypes' /\ IndexInv'
    BY <1>7, FollowsKeepsIndexes DEF OptInv
  <1>9. CallTypes' /\ LookTypes' /\ NothingClaimed'
    BY <1>3, PausedTypes DEF OptInv, CallTypes, NothingClaimed, Paused
  <1> QED
    BY <1>4, <1>8, <1>9 DEF OptInv

LEMMA OptRequestCancelKeeps ==
  ASSUME OptInv, NEW j \in JobIds, OptRequestCancel(j) PROVE OptInv'
  <1> DEFINE new == CancelRequested(job[j])
  <1>1. /\ job[j].status \in Live /\ job' = [job EXCEPT ![j] = new]
        /\ queue' = IF new.status = "cancelled" THEN Zrem(queue, j) ELSE queue
        /\ running' = running /\ claims' = claims /\ fate' = fate
        /\ now' = now /\ pending' = pending /\ scan' = scan /\ sweep' = sweep
        /\ Follow(j) /\ Paused
    BY DEF OptRequestCancel, RequestCancel, Commit, Deployed, Settings, Paused
  <1>2. LeaseInv'
    BY <1>1, CancelKeepsLeases DEF OptInv
  <1>3. new.status = IF job[j].status \in Waiting THEN "cancelled" ELSE job[j].status
    <2>1. job[j] \in JobType
      BY DEF OptInv, LeaseInv, LeaseTypes
    <2> QED
      BY <2>1 DEF CancelRequested, JobType
  <1>4. new.status \notin Waiting /\ new.status # "absent"
    BY <1>1, <1>3
  <1> HIDE DEF new
  <1>5. /\ DOMAIN queue' \subseteq DOMAIN queue /\ DOMAIN queue \subseteq DOMAIN queue' \cup {j}
        /\ \A i \in DOMAIN queue' : queue'[i] = queue[i]
    BY <1>1 DEF Zrem
  <1>6. \A i \in DOMAIN queue : queue[i] \in Nat
    BY DEF OptInv, IndexTypes, IndexOK
  <1>7. Follows(j, new)
    BY <1>1, <1>4, <1>5, <1>6 DEF Follows, Paused
  <1>8. IndexTypes' /\ IndexInv'
    BY <1>7, FollowsKeepsIndexes DEF OptInv
  <1>9. CallTypes' /\ LookTypes' /\ NothingClaimed'
    BY <1>1, PausedTypes DEF OptInv, CallTypes, NothingClaimed, Paused
  <1> QED
    BY <1>2, <1>8, <1>9 DEF OptInv

LEMMA OptMutateExecKeeps ==
  ASSUME OptInv, NEW p \in pending, NEW j \in JobIds, NEW w \in Workers, OptMutateExec(p, j, w)
  PROVE  OptInv'
  <1>1. PICK new \in Mutations(job[j], p.at) :
           /\ p.at \in Nat /\ job[j].status = "running"
           /\ MutatesTo(j, new, job[j].token)
           /\ queue' = MutateQueue(j, new)
           /\ pending' = pending \ {p}
           /\ now' = now /\ scan' = scan /\ sweep' = sweep
    BY MutateExecMutates DEF OptInv, OptMutateExec
  <1>2. LeaseInv'
    BY <1>1, MutateKeepsLeases DEF OptInv
  <1>3. /\ job' = [job EXCEPT ![j] = new] /\ claims' = claims /\ Paused
        /\ IF job'[j].status = "running" THEN prio' = prio ELSE Follow(j)
    BY <1>1 DEF MutatesTo, OptMutateExec, Deployed, Settings, Paused
  <1>4. job'[j] = new /\ new \in JobType /\ SameJob(job[j], new)
    <2>1. RecordOK(new) /\ SameJob(job[j], new)
      BY <1>1, LeaseFacts, MutationsOK DEF OptInv
    <2> QED
      BY <1>3, <2>1 DEF OptInv, LeaseInv, LeaseTypes, RecordOK
  <1>5. new.status # "absent" /\ new.available \in Nat
    BY <1>4 DEF SameJob, JobType
  <1>6. /\ DOMAIN queue' \subseteq DOMAIN queue \cup {j}
        /\ DOMAIN queue \subseteq DOMAIN queue' \cup {j}
        /\ \A i \in DOMAIN queue' : i # j => queue'[i] = queue[i]
        /\ new.status \in Waiting => ListedIn(queue', j, new)
        /\ j \in DOMAIN queue' => queue'[j] \in Nat
    <2>0. \A i \in DOMAIN queue : queue[i] \in Nat
      BY DEF OptInv, IndexTypes, IndexOK
    <2>1. CASE new.status = "running"
      BY <1>1, <2>0, <2>1 DEF MutateQueue
    <2>2. CASE new.status \in Waiting
      <3>1. queue' = Zadd(queue, j, new.available)
        BY <1>1, <2>2 DEF MutateQueue
      <3> QED
        BY <1>5, <3>1 DEF Zadd, ListedIn
    <2>3. CASE new.status # "running" /\ new.status \notin Waiting
      <3>1. queue' = Zrem(queue, j)
        BY <1>1, <2>3 DEF MutateQueue
      <3> QED
        BY <2>3, <3>1 DEF Zrem
    <2> QED
      BY <2>1, <2>2, <2>3
  <1>7. phase = "optimized"
    BY <1>1, NoneRuns DEF OptInv
  <1>8. Follows(j, new)
    BY <1>3, <1>4, <1>5, <1>6, <1>7 DEF Follows, Paused
  <1>9. IndexTypes' /\ IndexInv'
    BY <1>8, FollowsKeepsIndexes DEF OptInv
  <1>10. CallTypes' /\ LookTypes' /\ NothingClaimed'
    BY <1>1, <1>3, <1>7, PausedTypes DEF OptInv, CallTypes, NothingClaimed, Paused
  <1> QED
    BY <1>2, <1>9, <1>10 DEF OptInv

LEMMA OptRecoverOneKeeps ==
  ASSUME OptInv, NEW j \in JobIds, RecoverOne(j), Follow(j), UNCHANGED <<Deployed, look>>
  PROVE  OptInv'
  <1> DEFINE at == sweep.at
             new == Recovered(job[j], at)
  <1>1. sweep \in [at : Nat, ids : SUBSET JobIds]
    BY DEF OptInv, CallTypes
  <1>2. at \in Nat
    BY <1>1
  <1>3. /\ job[j].status = "running" /\ job' = [job EXCEPT ![j] = new]
        /\ queue' = IF new.status = "queued" THEN Zadd(queue, j, at) ELSE queue
        /\ running' = Zrem(running, j) /\ claims' = claims /\ fate' = FateTaken(j, new)
        /\ sweep' = [sweep EXCEPT !.ids = @ \ {j}]
        /\ now' = now /\ pending' = pending /\ scan' = scan /\ Paused
    BY DEF RecoverOne, Commit, LeaseExpired, Deployed, Settings, Paused
  <1>4. LeaseInv'
    BY <1>2, <1>3, RecoverKeepsLeases DEF OptInv
  <1>5. new.status = "queued" => new.available = at
    BY <1>2, <1>3, LeaseFacts, RecoveredIsAvailable DEF OptInv
  <1>6. /\ new.status \in Waiting => new.status = "queued"
        /\ new.status # "absent"
    <2>1. RecordOK(job[j])
      BY LeaseFacts DEF OptInv
    <2> QED
      BY <1>2, <1>3, <2>1, RecoveredOK
  <1> HIDE DEF new, at
  <1>7. /\ DOMAIN queue' \subseteq DOMAIN queue \cup {j}
        /\ DOMAIN queue \subseteq DOMAIN queue' \cup {j}
        /\ \A i \in DOMAIN queue' : i # j => queue'[i] = queue[i]
        /\ new.status \in Waiting => ListedIn(queue', j, new)
        /\ j \in DOMAIN queue' => queue'[j] \in Nat
    <2>0. \A i \in DOMAIN queue : queue[i] \in Nat
      BY DEF OptInv, IndexTypes, IndexOK
    <2>1. CASE new.status = "queued"
      <3>1. queue' = Zadd(queue, j, new.available) /\ new.available \in Nat
        BY <1>2, <1>3, <1>5, <2>1
      <3> QED
        BY <3>1 DEF Zadd, ListedIn
    <2>2. CASE new.status # "queued"
      BY <1>3, <1>6, <2>0, <2>2
    <2> QED
      BY <2>1, <2>2
  <1>8. phase = "optimized"
    BY <1>3, NoneRuns DEF OptInv
  <1>9. Follows(j, new)
    BY <1>3, <1>6, <1>7, <1>8 DEF Follows, Paused
  <1>10. IndexTypes' /\ IndexInv'
    BY <1>9, FollowsKeepsIndexes DEF OptInv
  <1>11. sweep' \in [at : Nat, ids : SUBSET JobIds]
    BY <1>1, <1>3
  <1>12. CallTypes' /\ LookTypes' /\ NothingClaimed'
    BY <1>3, <1>8, <1>11, PausedTypes DEF OptInv, CallTypes, NothingClaimed, Paused
  <1> QED
    BY <1>4, <1>10, <1>12 DEF OptInv

-----------------------------------------------------------------------------
(* The steps of a claim                                                    *)

LEMMA IndexesUnchanged ==
  ASSUME IndexTypes, IndexInv, job' = job, queue' = queue, prio' = prio,
         atomic' = atomic /\ domains' = domains, phase' = phase, fix' = fix
  PROVE  IndexTypes' /\ IndexInv'
  <1>1. Known' = Known
    BY DEF Known
  <1>2. IndexTypes'
    BY <1>1 DEF IndexTypes
  <1>3. QueueIsComplete' /\ PrioIsComplete' /\ PrioIsRight'
    BY SettingsKept DEF IndexInv, QueueIsComplete, PrioIsComplete, PrioIsRight
  <1>4. Repairing'
    BY <1>1 DEF IndexInv, Repairing
  <1> QED
    BY <1>2, <1>3, <1>4 DEF IndexInv

LEMMA NothingIsCopied == Nothing \in Copies
  <1>1. Nothing \in [{} -> JobType] /\ {} \in SUBSET JobIds
    BY DEF Nothing
  <1> QED
    BY <1>1 DEF Copies

LEMMA CopiesGrow ==
  ASSUME NEW f \in Copies, NEW j \in JobIds, NEW r \in JobType PROVE Zadd(f, j, r) \in Copies
  <1>1. PICK S \in SUBSET JobIds : f \in [S -> JobType]
    BY DEF Copies
  <1>2. Zadd(f, j, r) \in [S \cup {j} -> JobType] /\ S \cup {j} \in SUBSET JobIds
    BY <1>1 DEF Zadd
  <1> QED
    BY <1>2 DEF Copies

LEMMA CopiesShrink ==
  ASSUME NEW f \in Copies, NEW j PROVE Zrem(f, j) \in Copies
  <1>1. PICK S \in SUBSET JobIds : f \in [S -> JobType]
    BY DEF Copies
  <1>2. Zrem(f, j) \in [S \ {j} -> JobType] /\ S \ {j} \in SUBSET JobIds
    BY <1>1 DEF Zrem
  <1> QED
    BY <1>2 DEF Copies

LEMMA CopiesOfJobs ==
  ASSUME NEW f \in Copies PROVE DOMAIN f \subseteq JobIds /\ \A j \in DOMAIN f : f[j] \in JobType
  BY DEF Copies

LEMMA NoLookOK == ASSUME NEW script, NEW deployed PROVE LookOK(NoLook, script, deployed)
  BY NothingIsCopied DEF NoLook, LookOK, LookType

\* A claim begins with the script or with the first index.
LEMMA BeginsToLook ==
  ASSUME NEW script \in BOOLEAN, NEW at \in Nat, NEW pc,
         pc = IF script THEN "lua" ELSE "range"
  PROVE  LookOK([NoLook EXCEPT !.pc = pc, !.at = at, !.left = Levels], script, TRUE)
  <1> DEFINE one == [NoLook EXCEPT !.pc = pc]
             two == [one EXCEPT !.at = at]
             new == [two EXCEPT !.left = Levels]
  <1>1. NoLook \in LookType
    BY NoLookOK DEF LookOK
  <1>2. one \in LookType /\ one.pc = pc
    BY <1>1 DEF LookType
  <1>3. two \in LookType /\ two.pc = pc
    BY <1>2 DEF LookType
  <1>4. new \in LookType /\ new.pc = pc
    BY <1>3 DEF LookType
  <1>5. [NoLook EXCEPT !.pc = pc, !.at = at, !.left = Levels] = new
    BY <1>1 DEF LookType
  <1> HIDE DEF new
  <1> QED
    BY <1>4, <1>5 DEF LookOK

LEMMA LookFacts ==
  ASSUME LookTypes, NEW w \in Workers
  PROVE  /\ LookOK(look[w], UsesScript(w), phase = "optimized")
         /\ look[w] \in LookType /\ look[w].at \in Nat /\ look[w].ids \in SUBSET JobIds
         /\ look[w].left \in SUBSET Levels /\ look[w].seen \in Copies
         /\ look[w].pc \in {"expire", "exec"} => look[w].cur \in JobIds
         /\ look[w].pc # "idle" => phase = "optimized"
         /\ look[w].pc = "lua" => UsesScript(w)
         /\ look[w].pc \notin {"idle", "lua"} => UsesScript(w) = FALSE
         /\ UsesScript(w) \in BOOLEAN
  <1>1. LookOK(look[w], UsesScript(w), phase = "optimized") /\ UsesScript(w) \in BOOLEAN
    BY DEF LookTypes, UsesScript
  <1>2. look[w] \in LookType
    BY <1>1 DEF LookOK
  <1>3. /\ look[w].at \in Nat /\ look[w].ids \in SUBSET JobIds
        /\ look[w].left \in SUBSET Levels /\ look[w].seen \in Copies
    BY <1>2 DEF LookType
  <1>4. /\ look[w].pc \in {"expire", "exec"} => look[w].cur \in JobIds
        /\ look[w].pc # "idle" => phase = "optimized"
        /\ look[w].pc = "lua" => UsesScript(w)
        /\ look[w].pc \notin {"idle", "lua"} => ~UsesScript(w)
    BY <1>1 DEF LookOK
  <1> QED
    BY <1>1, <1>2, <1>3, <1>4

\* A step of one worker through claim.
LEMMA LookMoves ==
  ASSUME LookTypes, NEW w \in Workers, NEW me, LookOK(me, UsesScript(w), phase = "optimized"),
         look' = [look EXCEPT ![w] = me], atomic' = atomic /\ domains' = domains, phase' = phase, fix' = fix
  PROVE  LookTypes'
  <1>1. look' \in [Workers -> LookType]
    BY DEF LookTypes, LookOK
  <1>2. \A v \in Workers : LookOK(look'[v], UsesScript(v), phase = "optimized")
    BY DEF LookTypes
  <1>3. \A v \in Workers : LookOK(look'[v], UsesScript(v)', phase' = "optimized")
    BY <1>2, SettingsKept
  <1> QED
    BY <1>1, <1>3 DEF LookTypes

\* A step of one worker that only looks.
LEMMA OnlyLooks ==
  ASSUME OptInv, NEW w \in Workers, NEW me, LookOK(me, UsesScript(w), phase = "optimized"),
         look' = [look EXCEPT ![w] = me], UNCHANGED <<vars, prio, Deployed>>
  PROVE  OptInv'
  <1>1. /\ job' = job /\ queue' = queue /\ running' = running /\ now' = now
        /\ claims' = claims /\ fate' = fate /\ pending' = pending /\ scan' = scan
        /\ sweep' = sweep /\ prio' = prio /\ atomic' = atomic /\ domains' = domains /\ phase' = phase /\ fix' = fix
    BY DEF vars, Deployed, Settings
  <1>2. LookTypes'
    BY <1>1, LookMoves DEF OptInv
  <1>3. IndexTypes' /\ IndexInv' /\ LeaseInv'
    BY <1>1, IndexesUnchanged, LeaseUnchanged DEF OptInv
  <1>4. CallTypes' /\ NothingClaimed'
    BY <1>1 DEF OptInv, CallTypes, NothingClaimed
  <1> QED
    BY <1>2, <1>3, <1>4 DEF OptInv

LEMMA OptClaimTimeKeeps ==
  ASSUME OptInv, NEW w \in Workers, OptClaimTime(w) PROVE OptInv'
  <1> DEFINE pc == IF UsesScript(w) THEN "lua" ELSE "range"
             me == [NoLook EXCEPT !.pc = pc, !.at = now, !.left = Levels]
  <1>1. phase = "optimized" /\ look' = [look EXCEPT ![w] = me] /\ UNCHANGED <<vars, prio, Deployed>>
    BY DEF OptClaimTime
  <1>2. LookOK(me, UsesScript(w), TRUE)
    BY BeginsToLook, LookFacts DEF OptInv, CallTypes
  <1> HIDE DEF me
  <1>3. LookOK(me, UsesScript(w), phase = "optimized")
    BY <1>1, <1>2
  <1> QED
    BY <1>1, <1>3, OnlyLooks

LEMMA WatchRetryKeeps ==
  ASSUME OptInv, NEW w \in Workers, WatchRetry(w) PROVE OptInv'
  <1> DEFINE me == [NoLook EXCEPT !.pc = "range", !.at = now, !.left = Levels]
  <1>1. phase = "optimized" /\ UsesScript(w) = FALSE /\ now \in Nat
    BY LookFacts DEF OptInv, WatchRetry, CallTypes
  <1>2. LookOK(me, FALSE, TRUE)
    BY <1>1, BeginsToLook
  <1>3. /\ look' = [look EXCEPT ![w] = me] \/ look' = [look EXCEPT ![w] = NoLook]
        /\ UNCHANGED <<vars, prio, Deployed>>
    BY DEF WatchRetry
  <1> HIDE DEF me
  <1>4. LookOK(me, UsesScript(w), phase = "optimized")
    BY <1>1, <1>2
  <1> QED
    BY <1>3, <1>4, NoLookOK, OnlyLooks

LEMMA CandidatesAreIndexed ==
  ASSUME NEW level, NEW at
  PROVE  Candidates(level, at) \subseteq DOMAIN prio /\ Due(level, at) \subseteq DOMAIN prio
  BY DEF Candidates, Due, ZrangeUpTo

LEMMA WatchRangeKeeps ==
  ASSUME OptInv, NEW w \in Workers, WatchRange(w) PROVE OptInv'
  <1> DEFINE me == look[w]
             level == Lowest(me.left)
             left == me.left \ {level}
             ids == IF domains[w] = None THEN Candidates(level, me.at) ELSE Due(level, me.at)
             one == [me EXCEPT !.pc = "read"]
             two == [one EXCEPT !.left = left]
             three == [two EXCEPT !.seen = Nothing]
             new == [three EXCEPT !.ids = ids]
  <1>1. /\ me \in LookType /\ left \in SUBSET Levels
        /\ phase = "optimized" /\ UsesScript(w) = FALSE
    BY LookFacts DEF OptInv, WatchRange
  <1>2. ids \in SUBSET JobIds
    BY CandidatesAreIndexed DEF OptInv, IndexTypes, IndexOK, Known
  <1>3. \/ look' = [look EXCEPT ![w] = NoLook]
        \/ look' = [look EXCEPT ![w] = new]
    <2>1. \/ look' = [look EXCEPT ![w] = NoLook]
          \/ look' = [look EXCEPT ![w] =
               [me EXCEPT !.pc = "read", !.left = left, !.seen = Nothing, !.ids = ids]]
      BY <1>1 DEF WatchRange, LookType
    <2> HIDE DEF left, ids
    <2>2. [me EXCEPT !.pc = "read", !.left = left, !.seen = Nothing, !.ids = ids] = new
      BY <1>1 DEF LookType
    <2> QED
      BY <2>1, <2>2
  <1> HIDE DEF left, ids
  <1>4. one \in LookType /\ one.pc = "read"
    BY <1>1 DEF LookType
  <1>5. two \in LookType /\ two.pc = "read"
    BY <1>1, <1>4 DEF LookType
  <1> HIDE DEF two
  <1>6. three \in LookType /\ three.pc = "read"
    BY <1>5, NothingIsCopied DEF LookType
  <1> HIDE DEF three
  <1>7. new \in LookType /\ new.pc = "read"
    BY <1>2, <1>6 DEF LookType
  <1> HIDE DEF new
  <1>8. LookOK(new, UsesScript(w), phase = "optimized")
    BY <1>1, <1>7 DEF LookOK
  <1>9. UNCHANGED <<vars, prio, Deployed>>
    BY DEF WatchRange
  <1> QED
    BY <1>3, <1>8, <1>9, NoLookOK, OnlyLooks

LEMMA WatchReadKeeps ==
  ASSUME OptInv, NEW w \in Workers, NEW j \in JobIds, WatchRead(w, j) PROVE OptInv'
  <1> DEFINE me == look[w]
             ids == me.ids \ {j}
             seen == Zadd(me.seen, j, job[j])
             one == [me EXCEPT !.ids = ids]
             new == [one EXCEPT !.seen = seen]
  <1>1. /\ me \in LookType /\ ids \in SUBSET JobIds /\ me.pc = "read"
        /\ phase = "optimized" /\ UsesScript(w) = FALSE
    BY LookFacts DEF OptInv, WatchRead
  <1>2. seen \in Copies
    BY LookFacts, CopiesGrow DEF OptInv, LeaseInv, LeaseTypes
  <1>3. look' = [look EXCEPT ![w] = new]
    <2>1. look \in [Workers -> LookType]
      BY DEF OptInv, LookTypes
    <2>2. look' = [look EXCEPT ![w].ids = @ \ {j}, ![w].seen = Zadd(@, j, job[j])]
      BY DEF WatchRead
    <2> QED
      BY <2>1, <2>2 DEF LookType
  <1> HIDE DEF ids, seen
  <1>4. one \in LookType /\ one.pc = "read"
    BY <1>1 DEF LookType
  <1>5. new \in LookType /\ new.pc = "read"
    BY <1>2, <1>4 DEF LookType
  <1> HIDE DEF new
  <1>6. LookOK(new, UsesScript(w), phase = "optimized")
    BY <1>1, <1>5 DEF LookOK
  <1>7. UNCHANGED <<vars, prio, Deployed>>
    BY DEF WatchRead
  <1> QED
    BY <1>3, <1>6, <1>7, OnlyLooks

LEMMA WatchSelectKeeps ==
  ASSUME OptInv, NEW w \in Workers, WatchSelect(w) PROVE OptInv'
  <1> DEFINE me == look[w]
             none == [me EXCEPT !.pc = "range"]
             some(j, pc) == [me EXCEPT !.cur = j, !.pc = pc]
  <1>1. /\ me \in LookType /\ phase = "optimized" /\ UsesScript(w) = FALSE
        /\ DOMAIN me.seen \subseteq JobIds
    BY LookFacts, CopiesOfJobs DEF OptInv, WatchSelect
  <1>2. \/ look' = [look EXCEPT ![w] = none]
        \/ \E j \in DOMAIN me.seen, pc \in {"expire", "exec"} :
             look' = [look EXCEPT ![w] = some(j, pc)]
    <2> DEFINE open == {j \in DOMAIN me.seen \ StaleSeen(me) :
                          /\ ~me.seen[j].cancel
                          /\ \/ DeadlineExpired(me.seen[j], me.at)
                             \/ me.seen[j].spec.domain \in Allowed(w)}
               first == {j \in open : \A i \in open \ {j} : SeenBefore(me.seen, j, i)}
               c == CHOOSE i \in first : TRUE
               pc == IF DeadlineExpired(me.seen[c], me.at) THEN "expire" ELSE "exec"
    <2>1. first \subseteq DOMAIN me.seen
      OBVIOUS
    <2>2. look' = [look EXCEPT ![w] = IF first = {} THEN none ELSE some(c, pc)]
      BY DEF WatchSelect
    <2>3. first # {} => c \in first
      OBVIOUS
    <2>4. pc \in {"expire", "exec"}
      OBVIOUS
    <2> HIDE DEF first, c, pc, none, some
    <2> QED
      BY <2>1, <2>2, <2>3, <2>4
  <1>3. LookOK(none, UsesScript(w), phase = "optimized")
    <2>1. none \in LookType /\ none.pc = "range"
      BY <1>1 DEF LookType
    <2> QED
      BY <1>1, <2>1 DEF LookOK
  <1>4. ASSUME NEW j \in JobIds, NEW pc \in {"expire", "exec"}
        PROVE  LookOK(some(j, pc), UsesScript(w), phase = "optimized")
    <2> DEFINE one == [me EXCEPT !.cur = j]
               two == [one EXCEPT !.pc = pc]
    <2>1. one \in LookType /\ one.cur = j
      BY <1>1 DEF LookType
    <2>2. two \in LookType /\ two.cur = j /\ two.pc = pc
      BY <2>1 DEF LookType
    <2>3. some(j, pc) = two
      BY <1>1 DEF LookType
    <2> HIDE DEF two, some
    <2> QED
      BY <1>1, <2>2, <2>3 DEF LookOK
  <1>5. UNCHANGED <<vars, prio, Deployed>>
    BY DEF WatchSelect
  <1> HIDE DEF none, some
  <1>6. CASE look' = [look EXCEPT ![w] = none]
    BY <1>3, <1>5, <1>6, OnlyLooks
  <1>7. ASSUME NEW j \in DOMAIN me.seen, NEW pc \in {"expire", "exec"},
               look' = [look EXCEPT ![w] = some(j, pc)]
        PROVE  OptInv'
    <2>1. LookOK(some(j, pc), UsesScript(w), phase = "optimized")
      BY <1>1, <1>4
    <2> QED
      BY <1>5, <1>7, <2>1, OnlyLooks
  <1> QED
    BY <1>2, <1>6, <1>7

\* Without the script the indexes promise only not to be wrong.
LEMMA WatchPromisesLittle ==
  ASSUME IndexInv, NEW w \in Workers, phase = "optimized", UsesScript(w) = FALSE,
         phase' = phase, atomic' = atomic, domains' = domains,
         DOMAIN prio' \subseteq DOMAIN prio, \A i \in DOMAIN prio' : prio'[i] = prio[i],
         \A j \in JobIds : job'[j].status \in Waiting => job'[j] = job[j]
  PROVE  IndexInv'
  <1>1. ~ScriptOnly'
    BY SettingsKept DEF ScriptOnly
  <1>2. PrioIsRight'
    BY DEF IndexInv, PrioIsRight, ListedIn
  <1> QED
    BY <1>1, <1>2 DEF IndexInv, QueueIsComplete, PrioIsComplete, Repairing

\* Field by field, what the last steps of the WATCH path make of a claim in progress.
LEMMA LookAgain ==
  ASSUME NEW me \in LookType, NEW pc \in {"zrem", "select"}, NEW seen \in Copies, NEW cur,
         cur \in JobIds \cup {NoJob}
  PROVE  LET new == [me EXCEPT !.pc = pc, !.seen = seen, !.cur = cur]
         IN  LookOK(new, FALSE, TRUE)
  <1> DEFINE one == [me EXCEPT !.pc = pc]
             two == [one EXCEPT !.seen = seen]
             three == [two EXCEPT !.cur = cur]
  <1>1. one \in LookType /\ one.pc = pc
    BY DEF LookType
  <1>2. two \in LookType /\ two.pc = pc
    BY <1>1 DEF LookType
  <1>3. three \in LookType /\ three.pc = pc
    BY <1>2 DEF LookType
  <1>4. [me EXCEPT !.pc = pc, !.seen = seen, !.cur = cur] = three
    BY DEF LookType
  <1> HIDE DEF three
  <1> QED
    BY <1>3, <1>4 DEF LookOK

LEMMA WatchZremKeeps ==
  ASSUME OptInv, NEW w \in Workers, WatchZrem(w) PROVE OptInv'
  <1> DEFINE me == look[w]
             stale == StaleSeen(me)
  <1>1. /\ me \in LookType /\ phase = "optimized" /\ UsesScript(w) = FALSE
    BY LookFacts DEF OptInv, WatchZrem
  <1>2. /\ job' = job /\ running' = running /\ now' = now
        /\ claims' = claims /\ fate' = fate /\ pending' = pending /\ scan' = scan
        /\ sweep' = sweep /\ atomic' = atomic /\ domains' = domains /\ phase' = phase /\ fix' = fix
    BY DEF WatchZrem, Deployed, Settings
  <1>3. PICK pc \in {"zrem", "select"} : look' = [look EXCEPT ![w].pc = pc]
    BY DEF WatchZrem
  <1>4. LookTypes'
    <2> DEFINE new == [me EXCEPT !.pc = pc]
    <2>1. new \in LookType /\ new.pc = pc
      BY <1>1 DEF LookType
    <2>2. look' = [look EXCEPT ![w] = new]
      BY <1>3 DEF OptInv, LookTypes
    <2> HIDE DEF new
    <2>3. LookOK(new, UsesScript(w), phase = "optimized")
      BY <1>1, <2>1 DEF LookOK
    <2> QED
      BY <1>2, <2>2, <2>3, LookMoves DEF OptInv
  <1>5. /\ DOMAIN queue' \subseteq DOMAIN queue /\ \A i \in DOMAIN queue' : queue'[i] = queue[i]
        /\ DOMAIN prio' \subseteq DOMAIN prio /\ \A i \in DOMAIN prio' : prio'[i] = prio[i]
    <2> HIDE DEF stale
    <2>1. \/ queue' = [j \in DOMAIN queue \ stale |-> queue[j]] /\ prio' = prio
          \/ prio' = [j \in DOMAIN prio \ stale |-> prio[j]] /\ queue' = queue
      BY DEF WatchZrem, stale
    <2> QED
      BY <2>1
  <1>6. IndexTypes'
    <2>1. Known' = Known
      BY <1>2 DEF Known
    <2>2. IndexOK(queue', Known) /\ IndexOK(prio', Known)
      BY <1>5, IndexShrinks DEF OptInv, IndexTypes
    <2> QED
      BY <2>1, <2>2 DEF IndexTypes
  <1>7. IndexInv' /\ LeaseInv'
    BY <1>1, <1>2, <1>5, WatchPromisesLittle, LeaseUnchanged DEF OptInv
  <1>8. CallTypes' /\ NothingClaimed'
    BY <1>2 DEF OptInv, CallTypes, NothingClaimed
  <1> QED
    BY <1>4, <1>6, <1>7, <1>8 DEF OptInv

LEMMA WatchExpireKeeps ==
  ASSUME OptInv, NEW w \in Workers, WatchExpire(w) PROVE OptInv'
  <1> DEFINE me == look[w]
             j == me.cur
  <1>1. /\ me \in LookType /\ phase = "optimized" /\ UsesScript(w) = FALSE /\ j \in JobIds
        /\ me.seen \in Copies
    BY LookFacts DEF OptInv, WatchExpire
  <1>2. /\ now' = now /\ claims' = claims /\ fate' = fate /\ pending' = pending
        /\ scan' = scan /\ sweep' = sweep /\ atomic' = atomic /\ domains' = domains /\ phase' = phase /\ fix' = fix
    BY DEF WatchExpire, Deployed, Settings
  <1>3. \/ /\ job[j].status \in Waiting /\ job' = [job EXCEPT ![j] = DeadlineFailed(job[j])]
           /\ queue' = Zrem(queue, j) /\ running' = running /\ prio' = Zrem(prio, j)
        \/ job' = job /\ queue' = queue /\ running' = running /\ prio' = prio
    BY DEF WatchExpire, Commit
  <1>4. LookTypes'
    <2> DEFINE seen == Zrem(me.seen, j)
               new == [me EXCEPT !.pc = "select", !.seen = seen, !.cur = NoJob]
    <2>1. seen \in Copies
      BY <1>1, CopiesShrink
    <2>2. look' = [look EXCEPT ![w] = new]
      <3>1. look' = [look EXCEPT ![w].pc = "select", ![w].seen = Zrem(@, j), ![w].cur = NoJob]
        BY DEF WatchExpire
      <3>2. look \in [Workers -> LookType]
        BY DEF OptInv, LookTypes
      <3> HIDE DEF j
      <3> QED
        BY <3>1, <3>2 DEF LookType
    <2> HIDE DEF seen
    <2>3. LookOK(new, FALSE, TRUE)
      BY <1>1, <2>1, LookAgain
    <2> HIDE DEF new
    <2>4. LookOK(new, UsesScript(w), phase = "optimized")
      BY <1>1, <2>3
    <2> QED
      BY <1>2, <2>2, <2>4, LookMoves DEF OptInv
  <1> HIDE DEF j
  <1>5. LeaseInv'
    BY <1>1, <1>2, <1>3, ExpiresWaiting, LeaseUnchanged DEF OptInv
  <1>6. IndexTypes'
    <2>1. Known \subseteq Known'
      <3>1. job[j].status \in Waiting => DeadlineFailed(job[j]).status = "failed"
        BY <1>1, LeaseFacts, DeadlineFailedOK DEF OptInv
      <3> QED
        BY <1>1, <1>3, <3>1 DEF Known, OptInv, LeaseInv, LeaseTypes
    <2>2. /\ DOMAIN queue' \subseteq DOMAIN queue /\ \A i \in DOMAIN queue' : queue'[i] = queue[i]
          /\ DOMAIN prio' \subseteq DOMAIN prio /\ \A i \in DOMAIN prio' : prio'[i] = prio[i]
      BY <1>3 DEF Zrem
    <2>3. IndexOK(queue', Known') /\ IndexOK(prio', Known')
      BY <2>1, <2>2, IndexShrinks DEF OptInv, IndexTypes
    <2> QED
      BY <2>3 DEF IndexTypes
  <1>7. IndexInv'
    <2>1. DOMAIN prio' \subseteq DOMAIN prio /\ \A i \in DOMAIN prio' : prio'[i] = prio[i]
      BY <1>3 DEF Zrem
    <2>2. job[j].status \in Waiting => DeadlineFailed(job[j]).status = "failed"
      BY <1>1, LeaseFacts, DeadlineFailedOK DEF OptInv
    <2>3. \A i \in JobIds : job'[i].status \in Waiting => job'[i] = job[i]
      BY <1>1, <1>3, <2>2 DEF OptInv, LeaseInv, LeaseTypes
    <2> QED
      BY <1>1, <1>2, <2>1, <2>3, WatchPromisesLittle DEF OptInv
  <1>8. CallTypes' /\ NothingClaimed'
    BY <1>2 DEF OptInv, CallTypes, NothingClaimed
  <1> QED
    BY <1>4, <1>5, <1>6, <1>7, <1>8 DEF OptInv

LEMMA WatchExecKeeps ==
  ASSUME OptInv, NEW w \in Workers, WatchExec(w) PROVE OptInv'
  <1> DEFINE j == look[w].cur
             new == Claimed(job[j], w, claims + 1, look[w].at)
  <1>1. /\ j \in JobIds /\ look[w].at \in Nat /\ claims < MaxClaims /\ claims + 1 \in Tokens
        /\ job[j].status \in Waiting /\ phase = "optimized" /\ UsesScript(w) = FALSE
    <2>1. look[w].pc = "exec" /\ claims < MaxClaims /\ job[j].status \in Waiting
      BY DEF WatchExec, Claimable
    <2>2. claims \in Nat /\ claims + 1 \in Tokens
      BY <2>1, ConstantAssumption DEF OptInv, LeaseInv, LeaseTypes, Tokens
    <2> QED
      BY <2>1, <2>2, LookFacts DEF OptInv
  <1>2. /\ job' = [job EXCEPT ![j] = new] /\ queue' = Zrem(queue, j)
        /\ running' = Zadd(running, j, new.expires) /\ prio' = Zrem(prio, j)
        /\ claims' = claims + 1 /\ fate' = [fate EXCEPT ![claims + 1] = "open"]
        /\ look' = [look EXCEPT ![w] = NoLook]
        /\ now' = now /\ pending' = pending /\ scan' = scan /\ sweep' = sweep
        /\ atomic' = atomic /\ domains' = domains /\ phase' = phase /\ fix' = fix
    BY DEF WatchExec, Commit, Deployed, Settings
  <1>3. RecordOK(new) /\ new.status = "running" /\ new.token = claims + 1
    BY <1>1, LeaseFacts, ClaimedOK DEF OptInv
  <1> HIDE DEF new, j
  <1>4. /\ DOMAIN running' = DOMAIN running \cup {j} /\ running'[j] = new.expires
        /\ \A i \in DOMAIN running \ {j} : running'[i] = running[i]
    BY <1>2 DEF Zadd
  <1>5. LeaseInv'
    BY <1>1, <1>2, <1>3, <1>4, TakesLease DEF OptInv
  <1>6. IndexTypes'
    <2>1. Known \subseteq Known'
      BY <1>1, <1>2, <1>3 DEF Known, OptInv, LeaseInv, LeaseTypes
    <2>2. /\ DOMAIN queue' \subseteq DOMAIN queue /\ \A i \in DOMAIN queue' : queue'[i] = queue[i]
          /\ DOMAIN prio' \subseteq DOMAIN prio /\ \A i \in DOMAIN prio' : prio'[i] = prio[i]
      BY <1>2 DEF Zrem
    <2>3. IndexOK(queue', Known') /\ IndexOK(prio', Known')
      BY <2>1, <2>2, IndexShrinks DEF OptInv, IndexTypes
    <2> QED
      BY <2>3 DEF IndexTypes
  <1>7. IndexInv' /\ NothingClaimed'
    <2>1. DOMAIN prio' \subseteq DOMAIN prio /\ \A i \in DOMAIN prio' : prio'[i] = prio[i]
      BY <1>2 DEF Zrem
    <2>2. \A i \in JobIds : job'[i].status \in Waiting => job'[i] = job[i]
      BY <1>1, <1>2, <1>3 DEF OptInv, LeaseInv, LeaseTypes
    <2>3. IndexInv'
      BY <1>1, <1>2, <2>1, <2>2, WatchPromisesLittle DEF OptInv
    <2> QED
      BY <1>1, <1>2, <2>3 DEF NothingClaimed
  <1>8. LookTypes'
    BY <1>2, NoLookOK, LookMoves DEF OptInv
  <1>9. CallTypes'
    BY <1>2 DEF OptInv, CallTypes
  <1> QED
    BY <1>5, <1>6, <1>7, <1>8, <1>9 DEF OptInv

-----------------------------------------------------------------------------
(* The repair                                                              *)

LEMMA LowestIsMember ==
  ASSUME NEW S, S \subseteq Nat, S # {} PROVE Lowest(S) \in S
  <1>1. \E x \in S : \A y \in S : x <= y
    BY NatHasMin
  <1> QED
    BY <1>1 DEF Lowest

\* The repair moves to f, and the jobs and the claims do not.
RepairMoves(f) ==
  /\ fix' = f /\ job' = job /\ running' = running /\ now' = now /\ claims' = claims
  /\ fate' = fate /\ pending' = pending /\ scan' = scan /\ sweep' = sweep
  /\ atomic' = atomic /\ domains' = domains /\ look' = look

LEMMA RepairStep ==
  ASSUME OptInv, NEW f, RepairMoves(f), f \in FixType, phase # "optimized",
         phase' \in {"switched", "repair", "optimized"}, IndexTypes', IndexInv'
  PROVE  OptInv'
  <1>1. LeaseInv' /\ CallTypes'
    BY LeaseUnchanged DEF OptInv, CallTypes, RepairMoves
  <1>2. NothingClaimed'
    BY DEF OptInv, NothingClaimed, RepairMoves
  <1>3. \A w \in Workers : LookOK(look[w], UsesScript(w), phase' = "optimized")
    <2>1. \A w \in Workers : LookOK(look[w], UsesScript(w), phase = "optimized")
      BY DEF OptInv, LookTypes
    <2> QED
      BY <2>1 DEF LookOK
  <1>4. LookTypes'
    BY <1>3, SettingsKept DEF OptInv, LookTypes, RepairMoves
  <1> QED
    BY <1>1, <1>2, <1>4 DEF OptInv

LEMMA SwitchClientsKeeps ==
  ASSUME OptInv, SwitchClients PROVE OptInv'
  <1>1. /\ phase = "plain" /\ phase' = "switched" /\ RepairMoves(fix) /\ fix \in FixType
        /\ queue' = queue /\ prio' = prio /\ job' = job
    BY DEF SwitchClients, RepairMoves, vars, Settings, OptInv, LookTypes
  <1>2. IndexTypes'
    BY <1>1 DEF OptInv, IndexTypes, Known
  <1>3. IndexInv'
    BY <1>1 DEF OptInv, IndexInv, QueueIsComplete, PrioIsComplete, PrioIsRight, Repairing
  <1> QED
    BY <1>1, <1>2, <1>3, RepairStep

LEMMA RepairScanKeeps ==
  ASSUME OptInv, RepairScan PROVE OptInv'
  <1> DEFINE ids == DOMAIN queue
             f == [NoFix EXCEPT !.pc = "read", !.ids = ids]
  <1>1. /\ phase = "switched" /\ phase' = "repair" /\ RepairMoves(f) /\ queue' = queue /\ prio' = prio
    BY DEF RepairScan, RepairMoves, vars, Settings
  <1>2. ids \subseteq Known
    BY DEF OptInv, IndexTypes, IndexOK
  <1>3. \A j \in JobIds : job[j].status \in Waiting => j \in ids /\ ListedIn(queue, j, job[j])
    BY <1>1 DEF OptInv, IndexInv, QueueIsComplete, ListedIn
  <1> HIDE DEF ids
  <1>4. NoFix \in FixType /\ NoFix.seen = Nothing
    BY NothingIsCopied DEF NoFix, FixType
  <1>5. DOMAIN Nothing = {} /\ ids \in SUBSET JobIds
    BY <1>2 DEF Nothing, Known
  <1>6. f \in FixType /\ f.pc = "read" /\ f.ids = ids /\ f.seen = Nothing
    BY <1>4, <1>5 DEF FixType
  <1> HIDE DEF f
  <1>7. Known' = Known /\ job' = job /\ fix' = f
    BY <1>1 DEF Known, RepairMoves
  <1>8. IndexTypes'
    BY <1>1, <1>7 DEF OptInv, IndexTypes
  <1>9. \A j \in JobIds : job[j].status \in Waiting => RepairCovers(f, prio, j, job[j])
    BY <1>3, <1>5, <1>6 DEF RepairCovers
  <1>10. IndexInv'
    <2>1. QueueIsComplete' /\ PrioIsComplete' /\ PrioIsRight'
      BY <1>1, <1>3, <1>7 DEF QueueIsComplete, PrioIsComplete, PrioIsRight
    <2>2. Repairing'
      BY <1>1, <1>2, <1>5, <1>6, <1>7, <1>9 DEF Repairing
    <2> QED
      BY <2>1, <2>2 DEF IndexInv
  <1> QED
    BY <1>1, <1>6, <1>8, <1>10, RepairStep

\* A step within the repair.
LEMMA RepairGoesOn ==
  ASSUME OptInv, NEW f, RepairMoves(f), f \in FixType, phase = "repair", phase' = phase,
         IndexOK(queue', Known), IndexOK(prio', Known),
         \A j \in JobIds : job[j].status \in Waiting => ListedIn(queue', j, job[j]),
         f.pc # "scan", f.ids \subseteq Known, DOMAIN f.seen \subseteq Known,
         f.pc \in {"score", "drop"} => DOMAIN f.seen = {},
         \A j \in JobIds : job[j].status \in Waiting => RepairCovers(f, prio', j, job[j])
  PROVE  OptInv'
  <1>1. Known' = Known /\ job' = job /\ fix' = f
    BY DEF Known, RepairMoves
  <1>2. IndexTypes'
    BY <1>1 DEF IndexTypes
  <1>3. QueueIsComplete' /\ PrioIsComplete' /\ PrioIsRight'
    BY <1>1 DEF QueueIsComplete, PrioIsComplete, PrioIsRight
  <1>4. Repairing'
    BY <1>1 DEF Repairing
  <1>5. IndexInv'
    BY <1>3, <1>4 DEF IndexInv
  <1> QED
    BY <1>2, <1>5, RepairStep

\* What the repair may rely on.
LEMMA RepairFacts ==
  ASSUME OptInv, phase = "repair"
  PROVE  /\ fix \in FixType /\ fix.seen \in Copies /\ fix.ids \in SUBSET JobIds
         /\ fix.pc # "scan" /\ fix.ids \subseteq Known /\ DOMAIN fix.seen \subseteq Known
         /\ Known \subseteq JobIds /\ JobIds \subseteq Nat
         /\ fix.pc \in {"score", "drop"} => DOMAIN fix.seen = {}
         /\ IndexOK(queue, Known) /\ IndexOK(prio, Known)
         /\ \A j \in JobIds : job[j].status \in Waiting =>
              ListedIn(queue, j, job[j]) /\ RepairCovers(fix, prio, j, job[j])
  <1>1. fix \in FixType
    BY DEF OptInv, LookTypes
  <1>2. fix.seen \in Copies /\ fix.ids \in SUBSET JobIds
    BY <1>1 DEF FixType
  <1> QED
    BY <1>1, <1>2, ConstantAssumption
       DEF OptInv, IndexTypes, IndexInv, QueueIsComplete, Repairing, Known

LEMMA RepairReadKeeps ==
  ASSUME OptInv, RepairRead PROVE OptInv'
  <1> DEFINE j == Lowest(fix.ids)
             ids == fix.ids \ {j}
             seen == Zadd(fix.seen, j, job[j])
             last == [fix EXCEPT !.pc = "write"]
             more == [fix EXCEPT !.ids = ids, !.seen = seen]
  <1>0. phase = "repair" /\ fix.pc = "read" /\ phase' = phase /\ queue' = queue /\ prio' = prio
    BY DEF RepairRead, vars
  <1>1. \/ fix.ids = {} /\ RepairMoves(last)
        \/ fix.ids # {} /\ RepairMoves(more)
    <2>1. fix \in FixType
      BY <1>0, RepairFacts
    <2>2. [fix EXCEPT !.ids = @ \ {j}, !.seen = Zadd(@, j, job[j])] = more
      BY <2>1 DEF FixType
    <2> HIDE DEF more, j
    <2>3. fix' = IF fix.ids = {} THEN last ELSE more
      BY <2>2 DEF RepairRead, j
    <2> QED
      BY <2>3 DEF RepairRead, RepairMoves, vars, Settings
  <1>2. CASE fix.ids = {} /\ RepairMoves(last)
    <2>1. last \in FixType /\ last.pc = "write" /\ last.ids = {} /\ last.seen = fix.seen
      BY <1>0, <1>2, RepairFacts DEF FixType
    <2> HIDE DEF last
    <2>2. \A i \in JobIds : job[i].status \in Waiting => RepairCovers(last, prio, i, job[i])
      BY <1>0, <1>2, <2>1, RepairFacts DEF RepairCovers
    <2> QED
      BY <1>0, <1>2, <2>1, <2>2, RepairFacts, RepairGoesOn
  <1>3. CASE fix.ids # {} /\ RepairMoves(more)
    <2>1. j \in fix.ids /\ j \in Known /\ j \in JobIds
      BY <1>0, <1>3, RepairFacts, LowestIsMember
    <2>2. job[j] \in JobType
      BY <2>1 DEF OptInv, LeaseInv, LeaseTypes
    <2>3. seen \in Copies /\ ids \in SUBSET JobIds
      BY <1>0, <2>1, <2>2, RepairFacts, CopiesGrow
    <2>4. /\ DOMAIN seen = DOMAIN fix.seen \cup {j} /\ seen[j] = job[j]
          /\ \A i \in DOMAIN fix.seen : i # j => seen[i] = fix.seen[i]
      BY DEF Zadd
    <2> HIDE DEF seen
    <2>5. more \in FixType /\ more.pc = "read" /\ more.ids = ids /\ more.seen = seen
      BY <1>0, <2>3, RepairFacts DEF FixType
    <2> HIDE DEF more, j
    <2>6. ASSUME NEW i \in JobIds, job[i].status \in Waiting
          PROVE  RepairCovers(more, prio, i, job[i])
      <3>1. RepairCovers(fix, prio, i, job[i])
        BY <1>0, <2>6, RepairFacts
      <3>2. CASE i = j
        BY <2>4, <2>5, <2>6, <3>2 DEF RepairCovers
      <3>3. CASE i # j
        BY <1>0, <2>4, <2>5, <3>1, <3>3 DEF RepairCovers
      <3> QED
        BY <3>2, <3>3
    <2>7. more.ids \subseteq Known /\ DOMAIN more.seen \subseteq Known
      BY <1>0, <2>1, <2>4, <2>5, RepairFacts
    <2> QED
      BY <1>0, <1>3, <2>5, <2>6, <2>7, RepairFacts, RepairGoesOn
  <1> QED
    BY <1>1, <1>2, <1>3

LEMMA RepairWriteKeeps ==
  ASSUME OptInv, RepairWrite PROVE OptInv'
  <1> DEFINE j == Lowest(DOMAIN fix.seen)
             r == fix.seen[j]
             seen == Zrem(fix.seen, j)
             f == [fix EXCEPT !.seen = seen]
  <1>0. phase = "repair" /\ fix.pc = "write" /\ phase' = phase /\ DOMAIN fix.seen # {}
    BY DEF RepairWrite
  <1>1. /\ fix' = f
        /\ queue' = IF r.status \in Waiting THEN Zadd(queue, j, r.available) ELSE Zrem(queue, j)
        /\ prio' = IF r.status \in Waiting THEN Zadd(prio, j, r.available) ELSE Zrem(prio, j)
    <2>1. fix \in FixType
      BY <1>0, RepairFacts
    <2> QED
      BY <2>1 DEF RepairWrite, FixType
  <1>2. RepairMoves(f)
    <2> HIDE DEF f
    <2> QED
      BY <1>1 DEF RepairWrite, RepairMoves, Settings
  <1>3. j \in DOMAIN fix.seen /\ j \in Known /\ j \in JobIds
    <2>1. DOMAIN fix.seen \subseteq Nat
      BY <1>0, RepairFacts
    <2> QED
      BY <1>0, <2>1, RepairFacts, LowestIsMember
  <1>4. r \in JobType /\ seen \in Copies
    BY <1>0, <1>3, RepairFacts, CopiesOfJobs, CopiesShrink
  <1>5. r.available \in Nat
    BY <1>4 DEF JobType
  <1>6. f \in FixType /\ f.pc = "write" /\ f.ids = fix.ids /\ f.seen = seen
    <2> HIDE DEF seen
    <2> QED
      BY <1>0, <1>4, RepairFacts DEF FixType
  <1>7. /\ DOMAIN seen = DOMAIN fix.seen \ {j}
        /\ \A i \in DOMAIN seen : seen[i] = fix.seen[i]
    BY DEF Zrem
  <1> HIDE DEF f, seen, j
  <1>8. /\ DOMAIN queue' \subseteq DOMAIN queue \cup {j} /\ DOMAIN queue \subseteq DOMAIN queue' \cup {j}
        /\ \A i \in DOMAIN queue' : i # j => queue'[i] = queue[i]
        /\ j \in DOMAIN queue' => queue'[j] \in Nat
        /\ DOMAIN prio' \subseteq DOMAIN prio \cup {j} /\ DOMAIN prio \subseteq DOMAIN prio' \cup {j}
        /\ \A i \in DOMAIN prio' : i # j => prio'[i] = prio[i]
        /\ j \in DOMAIN prio' => prio'[j] \in Nat
        /\ r.status \in Waiting => /\ j \in DOMAIN queue' /\ queue'[j] = r.available
                                   /\ j \in DOMAIN prio' /\ prio'[j] = r.available
    <2>1. CASE r.status \in Waiting
      BY <1>1, <1>5, <2>1 DEF Zadd
    <2>2. CASE r.status \notin Waiting
      BY <1>1, <2>2 DEF Zrem
    <2> QED
      BY <2>1, <2>2
  <1>9. IndexOK(queue', Known) /\ IndexOK(prio', Known)
    <2>1. IndexOK(queue, Known) /\ IndexOK(prio, Known)
      BY <1>0, RepairFacts
    <2> QED
      BY <1>3, <1>8, <2>1, IndexGrows
  <1>10. ASSUME NEW i \in JobIds, job[i].status \in Waiting
         PROVE  ListedIn(queue', i, job[i]) /\ RepairCovers(f, prio', i, job[i])
    <2>1. ListedIn(queue, i, job[i]) /\ RepairCovers(fix, prio, i, job[i])
      BY <1>0, <1>10, RepairFacts
    <2>2. CASE i = j
      <3>1. r.status \in Waiting /\ r.available = job[i].available
        BY <1>3, <2>1, <2>2 DEF RepairCovers
      <3> QED
        BY <1>6, <1>7, <1>8, <2>2, <3>1 DEF ListedIn, RepairCovers
    <2>3. CASE i # j
      BY <1>0, <1>6, <1>7, <1>8, <2>1, <2>3 DEF ListedIn, RepairCovers
    <2> QED
      BY <2>2, <2>3
  <1>11. f.ids \subseteq Known /\ DOMAIN f.seen \subseteq Known
    BY <1>0, <1>6, <1>7, RepairFacts
  <1> QED
    BY <1>0, <1>2, <1>6, <1>9, <1>10, <1>11, RepairGoesOn

LEMMA RepairRangeKeeps ==
  ASSUME OptInv, RepairRange PROVE OptInv'
  <1> DEFINE ids == DOMAIN prio
             f == [fix EXCEPT !.pc = "score", !.ids = ids]
  <1>0. /\ phase = "repair" /\ fix.pc = "write" /\ phase' = phase /\ DOMAIN fix.seen = {}
        /\ queue' = queue /\ prio' = prio
    BY DEF RepairRange, vars
  <1>1. RepairMoves(f)
    BY DEF RepairRange, RepairMoves, vars, Settings
  <1>2. ids \subseteq Known /\ ids \in SUBSET JobIds
    BY <1>0, RepairFacts DEF IndexOK
  <1> HIDE DEF ids
  <1>3. f \in FixType /\ f.pc = "score" /\ f.ids = ids /\ f.seen = fix.seen
    BY <1>0, <1>2, RepairFacts DEF FixType
  <1> HIDE DEF f
  <1>4. \A i \in JobIds : job[i].status \in Waiting => RepairCovers(f, prio, i, job[i])
    BY <1>0, <1>3, RepairFacts DEF RepairCovers
  <1> QED
    BY <1>0, <1>1, <1>2, <1>3, <1>4, RepairFacts, RepairGoesOn

LEMMA RepairScoreKeeps ==
  ASSUME OptInv, RepairScore PROVE OptInv'
  <1> DEFINE ids == fix.ids \ DOMAIN queue
             f == [fix EXCEPT !.pc = "drop", !.ids = ids]
  <1>0. /\ phase = "repair" /\ fix.pc = "score" /\ phase' = phase
        /\ queue' = queue /\ prio' = prio
    BY DEF RepairScore, vars
  <1>1. RepairMoves(f)
    <2>1. fix' = f
      BY <1>0, RepairFacts DEF RepairScore, FixType
    <2> HIDE DEF f
    <2> QED
      BY <2>1 DEF RepairScore, RepairMoves, vars, Settings
  <1>2. ids \subseteq Known /\ ids \in SUBSET JobIds /\ ids \cap DOMAIN queue = {}
    BY <1>0, RepairFacts
  <1> HIDE DEF ids
  <1>3. f \in FixType /\ f.pc = "drop" /\ f.ids = ids /\ f.seen = fix.seen
    BY <1>0, <1>2, RepairFacts DEF FixType
  <1> HIDE DEF f
  <1>4. ASSUME NEW i \in JobIds, job[i].status \in Waiting
        PROVE  RepairCovers(f, prio, i, job[i])
    <2>1. RepairCovers(fix, prio, i, job[i]) /\ i \in DOMAIN queue
      BY <1>0, <1>4, RepairFacts DEF ListedIn
    <2> QED
      BY <1>0, <1>2, <1>3, <2>1 DEF RepairCovers
  <1> QED
    BY <1>0, <1>1, <1>2, <1>3, <1>4, RepairFacts, RepairGoesOn

LEMMA RepairDropKeeps ==
  ASSUME OptInv, RepairDrop PROVE OptInv'
  <1>0. /\ phase = "repair" /\ fix.pc = "drop" /\ phase' = "optimized" /\ queue' = queue
        /\ prio' = [j \in DOMAIN prio \ fix.ids |-> prio[j]]
        /\ RepairMoves(NoFix) /\ job' = job
    BY DEF RepairDrop, vars, RepairMoves, Settings
  <1>1. NoFix \in FixType
    BY NothingIsCopied DEF NoFix, FixType
  <1>2. DOMAIN prio' = DOMAIN prio \ fix.ids /\ \A i \in DOMAIN prio' : prio'[i] = prio[i]
    BY <1>0
  <1>3. IndexTypes'
    <2>1. Known' = Known
      BY <1>0 DEF Known
    <2>2. IndexOK(prio', Known) /\ IndexOK(queue', Known)
      BY <1>0, <1>2, IndexShrinks DEF OptInv, IndexTypes
    <2> QED
      BY <2>1, <2>2 DEF IndexTypes
  <1>4. ASSUME NEW i \in JobIds, job[i].status \in Waiting
        PROVE  ListedIn(queue', i, job[i]) /\ ListedIn(prio', i, job[i])
    <2>1. ListedIn(queue, i, job[i]) /\ RepairCovers(fix, prio, i, job[i]) /\ DOMAIN fix.seen = {}
      BY <1>0, <1>4, RepairFacts
    <2>2. ListedIn(prio, i, job[i]) /\ i \notin fix.ids
      BY <1>0, <2>1 DEF RepairCovers
    <2> QED
      BY <1>0, <1>2, <2>1, <2>2 DEF ListedIn
  <1>5. IndexInv'
    BY <1>0, <1>4 DEF IndexInv, QueueIsComplete, PrioIsComplete, PrioIsRight, Repairing
  <1> QED
    BY <1>0, <1>1, <1>3, <1>5, RepairStep

-----------------------------------------------------------------------------
(* The script                                                              *)

LuaTakeable(at) == {j \in AllCandidates(at) : Takeable(j, at)}
LuaTaken(at) == {j \in LuaTakeable(at) : \A i \in LuaTakeable(at) \ {j} : Visited(j, i)}
LuaPassed(at) == {i \in AllCandidates(at) \ LuaTaken(at) : \A j \in LuaTaken(at) : Visited(i, j)}
LuaRemoved(at) ==
  LuaTaken(at) \cup {i \in LuaPassed(at) : Passed(job[i], at).status \notin Waiting}
LuaJob(w, at, j) ==
  IF j \in LuaTaken(at) THEN Claimed(job[j], w, claims + 1, at)
  ELSE IF j \in LuaPassed(at) THEN Passed(job[j], at) ELSE job[j]

LEMMA LuaClaimDoes ==
  ASSUME NEW w \in Workers, LuaClaim(w)
  PROVE  LET at == look[w].at
             taken == LuaTaken(at)
         IN  /\ look[w].pc = "lua"
             /\ taken # {} => claims < MaxClaims
             /\ job' = [j \in JobIds |-> LuaJob(w, at, j)]
             /\ queue' = [j \in DOMAIN queue \ LuaRemoved(at) |-> queue[j]]
             /\ prio' = [j \in DOMAIN prio \ LuaRemoved(at) |-> prio[j]]
             /\ running' = [j \in DOMAIN running \cup taken |->
                              IF j \in taken THEN job'[j].expires ELSE running[j]]
             /\ claims' = claims + Cardinality(taken)
             /\ fate' = [t \in Tokens |->
                           IF taken # {} /\ t = claims + 1 THEN "open" ELSE fate[t]]
             /\ look' = [look EXCEPT ![w] = NoLook]
             /\ now' = now /\ pending' = pending /\ scan' = scan /\ sweep' = sweep
             /\ atomic' = atomic /\ domains' = domains /\ phase' = phase /\ fix' = fix
  BY DEF LuaClaim, LuaTakeable, LuaTaken, LuaPassed, LuaRemoved, LuaJob, Deployed, Settings

LEMMA AllCandidatesIndexed ==
  ASSUME NEW at PROVE AllCandidates(at) \subseteq DOMAIN prio
  BY CandidatesAreIndexed DEF AllCandidates

\* What orders the members of a sorted set.
LEMMA IndexedFacts ==
  ASSUME LeaseInv, IndexTypes, NEW j \in DOMAIN prio
  PROVE  /\ j \in Known /\ j \in JobIds /\ j \in Nat
         /\ prio[j] \in Nat /\ Priority(j) \in Nat
         /\ RecordOK(job[j]) /\ job[j].status # "absent"
         /\ job[j].spec \in Specs /\ job[j].spec \in SpecType
  <1>1. j \in Known /\ prio[j] \in Nat
    BY DEF IndexTypes, IndexOK
  <1>2. j \in JobIds /\ job[j].status # "absent"
    BY <1>1 DEF Known
  <1>3. RecordOK(job[j])
    BY <1>2, LeaseFacts
  <1>4. job[j].spec \in Specs /\ job[j].spec \in SpecType
    BY <1>2, <1>3, ConstantAssumption DEF RecordOK
  <1>5. Priority(j) \in Nat
    BY <1>4 DEF Priority, SpecType
  <1> QED
    BY <1>1, <1>2, <1>3, <1>4, <1>5, ConstantAssumption

LEMMA VisitedIsAnOrder ==
  ASSUME LeaseInv, IndexTypes, NEW i \in DOMAIN prio, NEW j \in DOMAIN prio,
         Visited(i, j), Visited(j, i)
  PROVE  FALSE
  <1>1. /\ i \in Nat /\ j \in Nat /\ prio[i] \in Nat /\ prio[j] \in Nat
        /\ Priority(i) \in Nat /\ Priority(j) \in Nat
    BY IndexedFacts
  <1> QED
    BY <1>1 DEF Visited, Earlier

\* The script takes one job at most.
LEMMA LuaTakesOne ==
  ASSUME LeaseInv, IndexTypes, NEW at
  PROVE  /\ LuaTaken(at) \subseteq DOMAIN prio
         /\ LuaTaken(at) = {} \/ \E t \in LuaTaken(at) : LuaTaken(at) = {t}
         /\ Cardinality(LuaTaken(at)) = IF LuaTaken(at) = {} THEN 0 ELSE 1
  <1>1. LuaTaken(at) \subseteq LuaTakeable(at) /\ LuaTakeable(at) \subseteq DOMAIN prio
    BY AllCandidatesIndexed DEF LuaTaken, LuaTakeable
  <1>2. ASSUME NEW i \in LuaTaken(at), NEW j \in LuaTaken(at), i # j PROVE FALSE
    <2>1. i \in LuaTakeable(at) \ {j} /\ j \in LuaTakeable(at) \ {i}
      BY <1>1, <1>2
    <2>2. Visited(i, j) /\ Visited(j, i)
      BY <2>1 DEF LuaTaken
    <2> QED
      BY <1>1, <2>2, VisitedIsAnOrder
  <1>3. LuaTaken(at) = {} \/ \E t \in LuaTaken(at) : LuaTaken(at) = {t}
    BY <1>2
  <1>4. Cardinality(LuaTaken(at)) = IF LuaTaken(at) = {} THEN 0 ELSE 1
    BY <1>3, FS_EmptySet, FS_Singleton
  <1> QED
    BY <1>1, <1>3, <1>4

\* A candidate that the script passes is left alone or ended.
LEMMA PassedOK ==
  ASSUME NEW r, RecordOK(r), r.status # "absent", NEW at
  PROVE  LET s == Passed(r, at)
         IN  \/ s = r
             \/ /\ r.status \in Waiting /\ RecordOK(s) /\ NoLease(s)
                /\ s.status \in Terminal
  <1>1. CASE r.status \in Waiting /\ r.cancel
    <2> DEFINE s == [ClearLease(r) EXCEPT !.status = "cancelled"]
    <2>1. Passed(r, at) = s
      BY <1>1 DEF Passed
    <2>2. RecordOK(s) /\ NoLease(s) /\ s.status \in Terminal
      BY <1>1, ConstantAssumption
         DEF RecordOK, JobType, AttemptsOK, RetryOK, ClearLease, NoLease, SpecType
    <2> QED
      BY <1>1, <2>1, <2>2
  <1>2. CASE r.status \in Waiting /\ ~r.cancel /\ DeadlineExpired(r, at)
    BY <1>2, DeadlineFailedOK DEF Passed
  <1>3. CASE r.status \notin Waiting \/ (~r.cancel /\ ~DeadlineExpired(r, at))
    BY <1>3 DEF Passed
  <1> QED
    BY <1>1, <1>2, <1>3

\* The script claims the jobs in taken, one at most, and gives up no lease.
Scripted(taken) ==
  /\ taken \subseteq JobIds /\ (taken = {} \/ \E t \in taken : taken = {t})
  /\ taken # {} => claims < MaxClaims
  /\ job' \in [JobIds -> JobType]
  /\ \A j \in taken : /\ job[j].status \in Waiting /\ ~job[j].cancel
                      /\ RecordOK(job'[j]) /\ job'[j].status = "running"
                      /\ job'[j].token = claims + 1
  /\ \A j \in JobIds \ taken :
       \/ job'[j] = job[j]
       \/ /\ job[j].status \in Waiting /\ RecordOK(job'[j]) /\ NoLease(job'[j])
          /\ job'[j].status \in Terminal
  /\ DOMAIN running' = DOMAIN running \cup taken
  /\ \A j \in DOMAIN running' :
       running'[j] = IF j \in taken THEN job'[j].expires ELSE running[j]
  /\ claims' = IF taken = {} THEN claims ELSE claims + 1
  /\ fate' = [t \in Tokens |-> IF taken # {} /\ t = claims + 1 THEN "open" ELSE fate[t]]

LEMMA ScriptKeepsLeases ==
  ASSUME LeaseInv, NEW taken, Scripted(taken) PROVE LeaseInv'
  <1>0. /\ claims \in Nat /\ claims \in 0..MaxClaims /\ MaxClaims \in Nat
        /\ fate \in [Tokens -> Fates] /\ "open" \in Fates
        /\ DOMAIN running \subseteq JobIds /\ job \in [JobIds -> JobType]
        /\ 1..claims \subseteq Tokens
    BY ConstantAssumption DEF LeaseInv, LeaseTypes, Fates, Tokens
  <1>1. claims' \in 0..MaxClaims /\ 1..claims \subseteq 1..claims'
    BY <1>0 DEF Scripted
  <1>2. /\ fate' \in [Tokens -> Fates]
        /\ \A t \in 1..claims : fate'[t] = fate[t]
    BY <1>0 DEF Scripted
  <1>3. taken # {} => /\ claims + 1 \in Tokens /\ fate'[claims + 1] = "open"
                      /\ claims + 1 \in 1..claims' /\ claims + 1 # 0 /\ claims + 1 \notin 1..claims
    BY <1>0 DEF Scripted, Tokens
  <1>4. LeaseTypes'
    BY <1>0, <1>1, <1>2 DEF LeaseTypes, Scripted
  <1>5. ASSUME NEW j \in JobIds
        PROVE  /\ RecordOK(job'[j]) /\ (job'[j].status # "running" => NoLease(job'[j]))
               /\ Indexed(job'[j], j, running', claims', fate')
               /\ \/ j \notin taken /\ job'[j] = job[j]
                  \/ j \notin taken /\ job'[j].status # "running" /\ job'[j].token = 0
                  \/ j \in taken /\ job'[j].status = "running" /\ job'[j].token = claims + 1
    <2>1. RecordOK(job[j]) /\ (job[j].status # "running" => NoLease(job[j]))
      BY DEF LeaseInv, RecordsOK
    <2>2. Indexed(job[j], j, running, claims, fate)
      BY IndexedParts DEF LeaseInv
    <2>3. CASE j \in taken
      <3>1. /\ RecordOK(job'[j]) /\ job'[j].status = "running" /\ job'[j].token = claims + 1
            /\ j \in DOMAIN running' /\ running'[j] = job'[j].expires
        BY <2>3 DEF Scripted
      <3> QED
        BY <1>3, <2>3, <3>1 DEF Indexed
    <2>4. CASE j \notin taken /\ job'[j] = job[j]
      <3>1. /\ j \in DOMAIN running' <=> j \in DOMAIN running
            /\ j \in DOMAIN running => running'[j] = running[j]
        BY <2>4 DEF Scripted
      <3>2. Indexed(job'[j], j, running', claims', fate')
        <4>1. CASE job[j].status = "running"
          BY <1>1, <1>2, <2>2, <2>4, <3>1, <4>1 DEF Indexed
        <4>2. CASE job[j].status # "running"
          BY <2>2, <2>4, <3>1, <4>2 DEF Indexed
        <4> QED
          BY <4>1, <4>2
      <3> QED
        BY <2>1, <2>4, <3>2
    <2>5. CASE /\ j \notin taken /\ job[j].status \in Waiting
               /\ RecordOK(job'[j]) /\ NoLease(job'[j])
      <3>1. j \notin DOMAIN running'
        BY <2>2, <2>5 DEF Scripted, Indexed
      <3> QED
        BY <2>5, <3>1 DEF Indexed, NoLease
    <2> QED
      BY <2>3, <2>4, <2>5 DEF Scripted
  <1>6. ASSUME NEW i \in JobIds, NEW k \in JobIds,
               job'[i].status = "running", job'[i].token = job'[k].token
        PROVE  i = k
    <2>1. \A m, n \in JobIds : job[m].status = "running" /\ job[m].token = job[n].token => m = n
      BY IndexedParts DEF LeaseInv
    <2>2. \A m \in JobIds : /\ job[m].token = 0 \/ job[m].token \in 1..claims
                            /\ job[m].status = "running" => job[m].token # 0
      BY LeaseFacts DEF NoLease
    <2>3. CASE i \in taken
      <3>1. claims + 1 # 0 /\ claims + 1 \notin 1..claims /\ job'[i].token = claims + 1
        BY <1>3, <1>5, <2>3
      <3>2. k \in taken
        BY <1>5, <1>6, <2>2, <3>1
      <3> QED
        BY <2>3, <3>2 DEF Scripted
    <2>4. CASE i \notin taken
      <3>1. job'[i] = job[i]
        BY <1>5, <1>6, <2>4
      <3>2. k \notin taken
        <4>1. k \in taken => claims + 1 # 0 /\ claims + 1 \notin 1..claims
          BY <1>3
        <4> QED
          BY <1>5, <1>6, <2>2, <3>1, <4>1
      <3>3. job'[k] = job[k]
        BY <1>5, <1>6, <2>2, <3>1, <3>2
      <3> QED
        BY <1>6, <2>1, <3>1, <3>3
    <2> QED
      BY <2>3, <2>4
  <1>7. RecordsOK' /\ LeasesAreIndexed'
    BY <1>5, <1>6, IndexedParts DEF RecordsOK
  <1> QED
    BY <1>4, <1>7 DEF LeaseInv

LEMMA LuaJobOK ==
  ASSUME LeaseInv, IndexTypes, NEW w \in Workers, NEW at \in Nat, NEW j \in JobIds,
         LuaTaken(at) # {} => claims + 1 \in Tokens
  PROVE  LET new == LuaJob(w, at, j)
         IN  /\ RecordOK(new)
             /\ j \in LuaTaken(at) => /\ job[j].status \in Waiting /\ ~job[j].cancel
                                      /\ new.status = "running" /\ new.token = claims + 1
             /\ j \notin LuaTaken(at) =>
                  \/ new = job[j]
                  \/ /\ job[j].status \in Waiting /\ NoLease(new) /\ new.status \in Terminal
                     /\ j \in LuaRemoved(at)
  <1>1. RecordOK(job[j])
    BY LeaseFacts
  <1>2. CASE j \in LuaTaken(at)
    <2>1. job[j].status \in Waiting /\ ~job[j].cancel
      BY <1>2 DEF LuaTaken, LuaTakeable, Takeable, Claimable
    <2>2. LuaJob(w, at, j) = Claimed(job[j], w, claims + 1, at)
      BY <1>2 DEF LuaJob
    <2> QED
      BY <1>1, <1>2, <2>1, <2>2, ClaimedOK
  <1>3. CASE j \notin LuaTaken(at) /\ j \in LuaPassed(at)
    <2>1. LuaJob(w, at, j) = Passed(job[j], at)
      BY <1>3 DEF LuaJob
    <2>2. job[j].status # "absent"
      <3>1. j \in DOMAIN prio
        BY <1>3, AllCandidatesIndexed DEF LuaPassed
      <3> QED
        BY <3>1, IndexedFacts
    <2>3. \/ Passed(job[j], at) = job[j]
          \/ /\ job[j].status \in Waiting /\ RecordOK(Passed(job[j], at))
             /\ NoLease(Passed(job[j], at)) /\ Passed(job[j], at).status \in Terminal
      BY <1>1, <2>2, PassedOK
    <2>4. Passed(job[j], at).status \in Terminal => j \in LuaRemoved(at)
      BY <1>3 DEF LuaRemoved
    <2> QED
      BY <1>1, <1>3, <2>1, <2>3, <2>4
  <1>4. CASE j \notin LuaTaken(at) /\ j \notin LuaPassed(at)
    BY <1>1, <1>4 DEF LuaJob
  <1> QED
    BY <1>2, <1>3, <1>4

LEMMA LuaIsScripted ==
  ASSUME OptInv, NEW w \in Workers, LuaClaim(w)
  PROVE  /\ Scripted(LuaTaken(look[w].at))
         /\ \A j \in JobIds : job'[j].status \in Waiting =>
              job'[j] = job[j] /\ j \notin LuaRemoved(look[w].at)
  <1> DEFINE at == look[w].at
             taken == LuaTaken(at)
  <1>1. /\ taken # {} => claims < MaxClaims
        /\ job' = [j \in JobIds |-> LuaJob(w, at, j)]
        /\ running' = [j \in DOMAIN running \cup taken |->
                         IF j \in taken THEN job'[j].expires ELSE running[j]]
        /\ claims' = claims + Cardinality(taken)
        /\ fate' = [t \in Tokens |-> IF taken # {} /\ t = claims + 1 THEN "open" ELSE fate[t]]
    BY LuaClaimDoes
  <1>2. at \in Nat /\ claims \in Nat
    <2>1. claims \in Nat
      BY ConstantAssumption DEF OptInv, LeaseInv, LeaseTypes
    <2> QED
      BY <2>1, LookFacts DEF OptInv
  <1>3. taken # {} => claims + 1 \in Tokens
    BY <1>1, <1>2, ConstantAssumption DEF Tokens
  <1>4. /\ taken \subseteq JobIds /\ (taken = {} \/ \E t \in taken : taken = {t})
        /\ Cardinality(taken) = IF taken = {} THEN 0 ELSE 1
    <2>1. DOMAIN prio \subseteq JobIds
      BY DEF OptInv, IndexTypes, IndexOK, Known
    <2> QED
      BY <2>1, LuaTakesOne DEF OptInv
  <1>5. ASSUME NEW j \in JobIds
        PROVE  /\ RecordOK(job'[j])
               /\ j \in taken => /\ job[j].status \in Waiting /\ ~job[j].cancel
                                 /\ job'[j].status = "running" /\ job'[j].token = claims + 1
               /\ j \notin taken =>
                    \/ job'[j] = job[j]
                    \/ /\ job[j].status \in Waiting /\ NoLease(job'[j])
                       /\ job'[j].status \in Terminal /\ j \in LuaRemoved(at)
    <2>1. job'[j] = LuaJob(w, at, j)
      BY <1>1
    <2> QED
      BY <1>2, <1>3, <2>1, LuaJobOK DEF OptInv
  <1>6. job' \in [JobIds -> JobType]
    BY <1>1, <1>5 DEF RecordOK
  <1> HIDE DEF at
  <1>7. Scripted(taken)
    <2> HIDE DEF taken
    <2>1. claims' = IF taken = {} THEN claims ELSE claims + 1
      BY <1>1, <1>2, <1>4
    <2>2. /\ DOMAIN running' = DOMAIN running \cup taken
          /\ \A j \in DOMAIN running' :
               running'[j] = IF j \in taken THEN job'[j].expires ELSE running[j]
      BY <1>1
    <2> QED
      BY <1>1, <1>4, <1>5, <1>6, <2>1, <2>2 DEF Scripted
  <1>8. ASSUME NEW j \in JobIds, job'[j].status \in Waiting
        PROVE  job'[j] = job[j] /\ j \notin LuaRemoved(at)
    <2>1. job'[j] = job[j] /\ j \notin taken
      BY <1>5, <1>8
    <2>2. j \in LuaPassed(at) => Passed(job[j], at).status \in Waiting
      <3>1. job'[j] = LuaJob(w, at, j)
        BY <1>1
      <3> QED
        BY <1>8, <2>1, <3>1 DEF LuaJob
    <2> QED
      BY <2>1, <2>2 DEF LuaRemoved
  <1> QED
    BY <1>7, <1>8 DEF at

LEMMA LuaClaimKeeps ==
  ASSUME OptInv, NEW w \in Workers, LuaClaim(w) PROVE OptInv'
  <1> DEFINE at == look[w].at
             removed == LuaRemoved(at)
             taken == LuaTaken(at)
  <1>1. /\ queue' = [j \in DOMAIN queue \ removed |-> queue[j]]
        /\ prio' = [j \in DOMAIN prio \ removed |-> prio[j]]
        /\ look' = [look EXCEPT ![w] = NoLook]
        /\ now' = now /\ pending' = pending /\ scan' = scan /\ sweep' = sweep
        /\ atomic' = atomic /\ domains' = domains /\ phase' = phase /\ fix' = fix
    BY LuaClaimDoes
  <1>2. phase = "optimized"
    BY LookFacts, LuaClaimDoes DEF OptInv
  <1>3. /\ Scripted(taken)
        /\ \A j \in JobIds : job'[j].status \in Waiting => job'[j] = job[j] /\ j \notin removed
    BY LuaIsScripted
  <1> HIDE DEF removed, taken
  <1>4. LeaseInv'
    BY <1>3, ScriptKeepsLeases DEF OptInv
  <1>5. /\ DOMAIN queue' = DOMAIN queue \ removed /\ \A i \in DOMAIN queue' : queue'[i] = queue[i]
        /\ DOMAIN prio' = DOMAIN prio \ removed /\ \A i \in DOMAIN prio' : prio'[i] = prio[i]
    BY <1>1
  <1>6. IndexTypes'
    <2>1. Known \subseteq Known'
      BY <1>3 DEF Known, Scripted
    <2>2. IndexOK(queue', Known') /\ IndexOK(prio', Known')
      BY <1>5, <2>1, IndexShrinks DEF OptInv, IndexTypes
    <2> QED
      BY <2>2 DEF IndexTypes
  <1>7. IndexInv'
    <2>1. ScriptOnly' <=> ScriptOnly
      BY <1>1, SettingsKept
    <2> QED
      BY <1>1, <1>2, <1>3, <1>5, <2>1
         DEF OptInv, IndexInv, QueueIsComplete, PrioIsComplete, PrioIsRight, Repairing, ListedIn
  <1>8. LookTypes'
    BY <1>1, NoLookOK, LookMoves DEF OptInv
  <1>9. CallTypes' /\ NothingClaimed'
    BY <1>1, <1>2 DEF OptInv, CallTypes, NothingClaimed
  <1> QED
    BY <1>4, <1>6, <1>7, <1>8, <1>9 DEF OptInv

-----------------------------------------------------------------------------
(* Every step of the optimized store                                       *)

\* Steps that change neither the jobs nor an index.
LEMMA OptQuiet ==
  ASSUME OptInv, Paused, prio' = prio, StoreUnchanged, CallTypes', NothingClaimed'
  PROVE  OptInv'
  BY IndexesUnchanged, LeaseUnchanged, PausedTypes DEF OptInv, Paused, StoreUnchanged

LEMMA OptMutateTimeKeeps ==
  ASSUME OptInv, NEW t \in Tokens, OptMutateTime(t) PROVE OptInv'
  <1>1. /\ t <= claims /\ pending' = pending \cup {[token |-> t, at |-> now]}
        /\ StoreUnchanged /\ now' = now /\ scan' = scan /\ sweep' = sweep
        /\ prio' = prio /\ Paused
    BY DEF OptMutateTime, MutateTime, store, StoreUnchanged, Deployed, Settings, Paused
  <1>2. CallTypes'
    BY <1>1 DEF OptInv, CallTypes
  <1>3. phase = "optimized"
    <2>1. t \in Nat /\ t >= 1 /\ claims \in Nat
      BY ConstantAssumption DEF Tokens, OptInv, LeaseInv, LeaseTypes
    <2> QED
      BY <1>1, <2>1 DEF OptInv, NothingClaimed
  <1>4. NothingClaimed'
    BY <1>1, <1>3 DEF NothingClaimed, Paused
  <1> QED
    BY <1>1, <1>2, <1>4, OptQuiet

LEMMA OptMutateLostKeeps ==
  ASSUME OptInv, NEW p \in pending, OptMutateLost(p) PROVE OptInv'
  <1>1. /\ pending' = pending \ {p}
        /\ StoreUnchanged /\ now' = now /\ scan' = scan /\ sweep' = sweep
        /\ prio' = prio /\ Paused
    BY DEF OptMutateLost, MutateLost, store, StoreUnchanged, Deployed, Settings, Paused
  <1>2. CallTypes' /\ NothingClaimed'
    BY <1>1 DEF OptInv, CallTypes, NothingClaimed, Paused, StoreUnchanged
  <1> QED
    BY <1>1, <1>2, OptQuiet

LEMMA OptRecoverKeeps ==
  ASSUME OptInv, OptRecover PROVE OptInv'
  <1>1. CASE RecoverRange /\ UNCHANGED <<prio, Deployed, look>>
    <2>1. /\ sweep' = [at |-> now, ids |-> ZrangeUpTo(running, now)]
          /\ ZrangeUpTo(running, now) # {} /\ pending' = pending
          /\ StoreUnchanged /\ now' = now /\ scan' = scan
          /\ prio' = prio /\ Paused
      BY <1>1 DEF RecoverRange, store, StoreUnchanged, Deployed, Settings, Paused
    <2>2. ZrangeUpTo(running, now) \in SUBSET JobIds
      BY RangeIsMembers DEF OptInv, LeaseInv, LeaseTypes
    <2>3. sweep' \in [at : Nat, ids : SUBSET JobIds]
      BY <2>1, <2>2 DEF OptInv, CallTypes
    <2>4. CallTypes'
      BY <2>1, <2>3 DEF OptInv, CallTypes
    <2>5. phase = "optimized"
      <3>1. DOMAIN running # {}
        BY <2>1, RangeIsMembers
      <3> QED
        BY <3>1, NoneRuns DEF OptInv
    <2>6. NothingClaimed'
      BY <2>1, <2>5 DEF NothingClaimed, Paused
    <2> QED
      BY <2>1, <2>4, <2>6, OptQuiet
  <1>2. ASSUME NEW j \in JobIds, RecoverOne(j), Follow(j), UNCHANGED <<Deployed, look>>
        PROVE  OptInv'
    BY <1>2, OptRecoverOneKeeps
  <1>3. ASSUME NEW j \in JobIds, RecoverSkip(j), UNCHANGED <<prio, Deployed, look>>
        PROVE  OptInv'
    <2>1. /\ sweep' = [sweep EXCEPT !.ids = @ \ {j}] /\ pending' = pending
          /\ StoreUnchanged /\ now' = now /\ scan' = scan /\ prio' = prio /\ Paused
          /\ j \in sweep.ids
      BY <1>3 DEF RecoverSkip, store, StoreUnchanged, Deployed, Settings, Paused
    <2>2. sweep' \in [at : Nat, ids : SUBSET JobIds]
      BY <2>1 DEF OptInv, CallTypes
    <2>3. CallTypes'
      BY <2>1, <2>2 DEF OptInv, CallTypes
    <2>4. NothingClaimed'
      BY <2>1 DEF OptInv, NothingClaimed, Paused, StoreUnchanged
    <2> QED
      BY <2>1, <2>3, <2>4, OptQuiet
  <1> QED
    BY <1>1, <1>2, <1>3 DEF OptRecover

LEMMA OptTickKeeps ==
  ASSUME OptInv, OptTick PROVE OptInv'
  <1>1. /\ now' = now + 1 /\ pending' = pending /\ sweep' = sweep
        /\ StoreUnchanged /\ scan' = scan /\ prio' = prio /\ Paused
    BY DEF OptTick, Tick, store, StoreUnchanged, Deployed, Settings, Paused
  <1>2. CallTypes' /\ NothingClaimed'
    BY <1>1 DEF OptInv, CallTypes, NothingClaimed, Paused, StoreUnchanged
  <1> QED
    BY <1>1, <1>2, OptQuiet

LEMMA OptInvInit == OptInit => OptInv
  <1> SUFFICES ASSUME OptInit PROVE OptInv
    OBVIOUS
  <1>1. LeaseInv /\ CallTypes
    BY RedisJobsInit DEF OptInit, RedisJobsInv
  <1>2. /\ prio = Nothing /\ queue = Nothing /\ claims = 0 /\ pending = {} /\ sweep.ids = {}
        /\ phase = "plain" /\ atomic \in BOOLEAN /\ fix = NoFix
        /\ look = [w \in Workers |-> NoLook] /\ job = [j \in JobIds |-> Absent]
    BY DEF OptInit, Init, NoSweep
  <1>3. DOMAIN Nothing = {}
    BY DEF Nothing
  <1>4. LookTypes
    <2>1. NoFix \in FixType /\ NoLook \in LookType
      BY NothingIsCopied, NoLookOK DEF NoFix, FixType, LookOK
    <2>2. \A w \in Workers : LookOK(look[w], UsesScript(w), phase = "optimized")
      BY <1>2, NoLookOK
    <2> QED
      BY <1>2, <2>1, <2>2 DEF LookTypes
  <1>5. IndexTypes
    BY <1>2, <1>3, FS_EmptySet DEF IndexTypes, IndexOK
  <1>6. NothingClaimed
    BY <1>2 DEF NothingClaimed
  <1>7. IndexInv
    <2>1. \A j \in JobIds : job[j].status \notin Waiting
      BY <1>2 DEF Absent
    <2> QED
      BY <1>2, <2>1 DEF IndexInv, QueueIsComplete, PrioIsComplete, PrioIsRight, Repairing
  <1> QED
    BY <1>1, <1>4, <1>5, <1>6, <1>7 DEF OptInv

LEMMA OptInvNext == OptInv /\ [OptNext]_optVars => OptInv'
  <1> SUFFICES ASSUME OptInv, [OptNext]_optVars PROVE OptInv'
    OBVIOUS
  <1>1. ASSUME NEW s \in Specs, OptSubmit(s) PROVE OptInv'
    BY <1>1, OptSubmitKeeps
  <1>2. ASSUME NEW j \in JobIds, OptRequestCancel(j) PROVE OptInv'
    BY <1>2, OptRequestCancelKeeps
  <1>3. ASSUME NEW w \in Workers, OptClaimTime(w) \/ LuaClaim(w) PROVE OptInv'
    BY <1>3, OptClaimTimeKeeps, LuaClaimKeeps
  <1>4. ASSUME NEW w \in Workers,
               \/ WatchRange(w) \/ WatchZrem(w) \/ WatchSelect(w)
               \/ WatchExpire(w) \/ WatchExec(w) \/ WatchRetry(w)
        PROVE  OptInv'
    BY <1>4, WatchRangeKeeps, WatchZremKeeps, WatchSelectKeeps, WatchExpireKeeps,
       WatchExecKeeps, WatchRetryKeeps
  <1>5. ASSUME NEW w \in Workers, NEW j \in JobIds, WatchRead(w, j) PROVE OptInv'
    BY <1>5, WatchReadKeeps
  <1>6. ASSUME NEW t \in Tokens, OptMutateTime(t) PROVE OptInv'
    BY <1>6, OptMutateTimeKeeps
  <1>7. ASSUME NEW p \in pending, NEW j \in JobIds, NEW w \in Workers, OptMutateExec(p, j, w)
        PROVE  OptInv'
    BY <1>7, OptMutateExecKeeps
  <1>8. ASSUME NEW p \in pending, OptMutateLost(p) PROVE OptInv'
    BY <1>8, OptMutateLostKeeps
  <1>9. ASSUME OptRecover PROVE OptInv'
    BY <1>9, OptRecoverKeeps
  <1>10. ASSUME Repair PROVE OptInv'
    BY <1>10, SwitchClientsKeeps, RepairScanKeeps, RepairReadKeeps, RepairWriteKeeps, RepairRangeKeeps,
       RepairScoreKeeps, RepairDropKeeps DEF Repair
  <1>11. ASSUME OptTick PROVE OptInv'
    BY <1>11, OptTickKeeps
  <1>12. CASE UNCHANGED optVars
    <2>1. CallTypes' /\ NothingClaimed' /\ Paused /\ prio' = prio /\ StoreUnchanged
      BY <1>12 DEF OptInv, CallTypes, NothingClaimed, optVars, vars, Paused, StoreUnchanged
    <2> QED
      BY <2>1, OptQuiet
  <1> QED
    BY <1>1, <1>2, <1>3, <1>4, <1>5, <1>6, <1>7, <1>8, <1>9, <1>10, <1>11, <1>12 DEF OptNext

LEMMA OptInvHolds == OptSpec => []OptInv
  <1>1. OptInit => OptInv
    BY OptInvInit
  <1>2. OptInv /\ [OptNext]_optVars => OptInv'
    BY OptInvNext
  <1> QED
    BY <1>1, <1>2, PTL DEF OptSpec

\* Where all workers claim through the script, and whatever the clients of the new store do
\* while the repair runs, every waiting job is in the shared queue and in its priority index,
\* under its available_at.
THEOREM WaitingJobsStayIndexed == OptSpec => []EveryWaitingJobIsIndexed
  <1>1. OptInv => EveryWaitingJobIsIndexed
    BY DEF OptInv, IndexInv, QueueIsComplete, PrioIsComplete, ScriptOnly, ListedIn,
           EveryWaitingJobIsIndexed
  <1> QED
    BY <1>1, OptInvHolds, PTL

-----------------------------------------------------------------------------
(* Who is given a job                                                      *)

\* What ClaimsAreWaiting says of a step.
GivenToClaims ==
  \A j \in JobIds : job'[j].token # 0 /\ job'[j].token # job[j].token
                      => job[j].status \in Waiting /\ ~job[j].cancel

\* A step that changes one job and gives it to nobody, or to a claim that may have it.
LEMMA OneIsGiven ==
  ASSUME LeaseInv, NEW j \in JobIds, NEW new, job' = [job EXCEPT ![j] = new],
         \/ new.token = 0 \/ new.token = job[j].token
         \/ job[j].status \in Waiting /\ ~job[j].cancel
  PROVE  GivenToClaims
  <1>1. job'[j] = new /\ \A i \in JobIds : i # j => job'[i] = job[i]
    BY DEF LeaseInv, LeaseTypes
  <1> QED
    BY <1>1 DEF GivenToClaims

LEMMA ClaimsStep == OptInv /\ [OptNext]_optVars => GivenToClaims
  <1> SUFFICES ASSUME OptInv, [OptNext]_optVars PROVE GivenToClaims
    OBVIOUS
  <1>0. LeaseInv
    BY DEF OptInv
  <1>u. ASSUME job' = job PROVE GivenToClaims
    BY <1>u DEF GivenToClaims
  <1>1. ASSUME NEW s \in Specs, OptSubmit(s) PROVE GivenToClaims
    <2>1. PICK j \in JobIds : Commit(j, NewJob(s, now), Zadd(queue, j, now), running)
      BY <1>1 DEF OptSubmit, Submit
    <2>2. NewJob(s, now).token = 0
      BY DEF NewJob, Absent
    <2> QED
      BY <1>0, <2>1, <2>2, OneIsGiven DEF Commit
  <1>2. ASSUME NEW j \in JobIds, OptRequestCancel(j) PROVE GivenToClaims
    <2>1. job' = [job EXCEPT ![j] = CancelRequested(job[j])] /\ job[j].status \in Live
      BY <1>2 DEF OptRequestCancel, RequestCancel, Commit
    <2>2. CancelRequested(job[j]).token = job[j].token
      BY <1>0, <2>1, LeaseFacts, CancelRequestedOK DEF SameLease
    <2> QED
      BY <1>0, <2>1, <2>2, OneIsGiven
  <1>3. ASSUME NEW w \in Workers, LuaClaim(w) PROVE GivenToClaims
    <2>1. Scripted(LuaTaken(look[w].at))
      BY <1>3, LuaIsScripted
    <2> QED
      BY <2>1 DEF Scripted, GivenToClaims, NoLease
  <1>4. ASSUME NEW w \in Workers, WatchExpire(w) PROVE GivenToClaims
    <2>1. look[w].cur \in JobIds
      BY <1>4, LookFacts DEF OptInv, WatchExpire
    <2> DEFINE j == look[w].cur
    <2>2. \/ /\ job[j].status \in Waiting /\ job' = [job EXCEPT ![j] = DeadlineFailed(job[j])]
          \/ job' = job
      BY <1>4 DEF WatchExpire, Commit
    <2>3. job[j].status \in Waiting => DeadlineFailed(job[j]).token = 0
      BY <1>0, <2>1, LeaseFacts, DeadlineFailedOK DEF NoLease
    <2> QED
      BY <1>0, <1>u, <2>1, <2>2, <2>3, OneIsGiven
  <1>5. ASSUME NEW w \in Workers, WatchExec(w) PROVE GivenToClaims
    <2> DEFINE j == look[w].cur
    <2>1. j \in JobIds
      BY <1>5, LookFacts DEF OptInv, WatchExec
    <2>2. /\ job' = [job EXCEPT ![j] = Claimed(job[j], w, claims + 1, look[w].at)]
          /\ job[j].status \in Waiting /\ ~job[j].cancel
      BY <1>5 DEF WatchExec, Commit, Claimable
    <2> QED
      BY <1>0, <2>1, <2>2, OneIsGiven
  <1>6. ASSUME NEW w \in Workers,
               \/ OptClaimTime(w) \/ WatchRange(w) \/ WatchZrem(w) \/ WatchSelect(w)
               \/ WatchRetry(w) \/ \E j \in JobIds : WatchRead(w, j)
        PROVE  GivenToClaims
    <2>1. job' = job
      BY <1>6 DEF OptClaimTime, WatchRange, WatchZrem, WatchSelect, WatchRetry, WatchRead, vars
    <2> QED
      BY <1>u, <2>1
  <1>7. ASSUME NEW p \in pending, NEW j \in JobIds, NEW w \in Workers, OptMutateExec(p, j, w)
        PROVE  GivenToClaims
    <2>1. PICK new \in Mutations(job[j], p.at) :
             /\ p.at \in Nat /\ job[j].status = "running" /\ MutatesTo(j, new, job[j].token)
      BY <1>7, MutateExecMutates DEF OptInv, OptMutateExec
    <2>2. new.token = job[j].token \/ new.token = 0
      BY <1>0, <2>1, LeaseFacts, MutationsOK DEF NoLease
    <2> QED
      BY <1>0, <2>1, <2>2, OneIsGiven DEF MutatesTo
  <1>8. ASSUME NEW j \in JobIds, RecoverOne(j) PROVE GivenToClaims
    <2> DEFINE at == sweep.at
    <2>1. at \in Nat
      BY DEF OptInv, CallTypes
    <2>2. job' = [job EXCEPT ![j] = Recovered(job[j], at)] /\ job[j].status = "running"
      BY <1>8 DEF RecoverOne, Commit, LeaseExpired
    <2>3. Recovered(job[j], at).token = 0
      BY <1>0, <2>1, <2>2, LeaseFacts, RecoveredOK DEF NoLease
    <2> QED
      BY <1>0, <2>2, <2>3, OneIsGiven
  <1>9. ASSUME \/ \E t \in Tokens : OptMutateTime(t)
               \/ \E p \in pending : OptMutateLost(p)
               \/ RecoverRange \/ (\E j \in JobIds : RecoverSkip(j))
               \/ Repair \/ OptTick \/ UNCHANGED optVars
        PROVE  GivenToClaims
    <2>1. job' = job
      BY <1>9 DEF OptMutateTime, MutateTime, OptMutateLost, MutateLost, RecoverRange, RecoverSkip,
                  Repair, SwitchClients, RepairScan, RepairRead, RepairWrite, RepairRange, RepairScore,
                  RepairDrop, OptTick, Tick, optVars, vars, store
    <2> QED
      BY <1>u, <2>1
  <1> QED
    BY <1>1, <1>2, <1>3, <1>4, <1>5, <1>6, <1>7, <1>8, <1>9 DEF OptNext, OptRecover

\* No worker is given a job that is cancelled or finished, whatever the indexes say and however
\* old the clock value or the copies of the claim.
THEOREM ClaimsStayWaiting == OptSpec => ClaimsAreWaiting
  <1>1. OptInv /\ [OptNext]_optVars => [GivenToClaims]_optVars
    BY ClaimsStep
  <1>2. OptSpec => [][GivenToClaims]_optVars
    BY <1>1, OptInvHolds, PTL DEF OptSpec
  <1> QED
    BY <1>2, Zenon DEF ClaimsAreWaiting, GivenToClaims

-----------------------------------------------------------------------------
(* The script and its window                                               *)

\* A set of indexed jobs of which one is visited first.
LEMMA FirstVisited ==
  ASSUME LeaseInv, IndexTypes, NEW S, S \subseteq DOMAIN prio, S # {}
  PROVE  \E j \in S : \A i \in S \ {j} : Visited(j, i)
  <1>1. \A j \in S : j \in Nat /\ prio[j] \in Nat /\ Priority(j) \in Nat
    BY IndexedFacts
  <1> DEFINE levels == {Priority(j) : j \in S}
  <1>2. levels \subseteq Nat /\ levels # {}
    BY <1>1
  <1>3. PICK l \in levels : \A y \in levels : l <= y
    <2> HIDE DEF levels
    <2> QED
      BY <1>2, NatHasMin
  <1> DEFINE A == {j \in S : Priority(j) = l}
             scores == {prio[j] : j \in A}
  <1>4. scores \subseteq Nat /\ scores # {}
    BY <1>1, <1>3
  <1>5. PICK s \in scores : \A y \in scores : s <= y
    <2> HIDE DEF scores
    <2> QED
      BY <1>4, NatHasMin
  <1> DEFINE B == {j \in A : prio[j] = s}
  <1>6. B \subseteq Nat /\ B # {}
    BY <1>1, <1>5
  <1>7. PICK j \in B : \A i \in B : j <= i
    <2> HIDE DEF B
    <2> QED
      BY <1>6, NatHasMin
  <1>8. ASSUME NEW i \in S, i # j PROVE Visited(j, i)
    <2>1. /\ j \in S /\ Priority(j) = l /\ prio[j] = s /\ j \in Nat /\ i \in Nat
          /\ l \in Nat /\ s \in Nat /\ prio[i] \in Nat /\ Priority(i) \in Nat
      BY <1>1, <1>7
    <2>2. l <= Priority(i)
      BY <1>3
    <2>3. Priority(i) = l => s <= prio[i]
      BY <1>5
    <2>4. Priority(i) = l /\ prio[i] = s => j <= i
      BY <1>7
    <2> HIDE DEF levels, A, scores, B
    <2> QED
      BY <1>8, <2>1, <2>2, <2>3, <2>4 DEF Visited, Earlier
  <1>9. j \in S
    BY <1>7
  <1> QED
    BY <1>8, <1>9

\* The first job that is due in a priority index is always a candidate.
LEMMA FirstIsCandidate ==
  ASSUME LeaseInv, IndexTypes, NEW at, NEW c \in ZrangeUpTo(prio, at),
         \A i \in ZrangeUpTo(prio, at) \ {c} : Visited(c, i)
  PROVE  c \in AllCandidates(at)
  <1> DEFINE due == Due(Priority(c), at)
             before == {i \in due : Earlier(i, c)}
  <1>1. c \in DOMAIN prio
    BY RangeIsMembers
  <1>2. Priority(c) \in Levels
    <2>1. job[c].spec \in Specs
      BY <1>1, IndexedFacts
    <2> QED
      BY <2>1 DEF Levels, Priority
  <1>3. ASSUME NEW i \in before PROVE FALSE
    <2>1. i \in ZrangeUpTo(prio, at) /\ Priority(i) = Priority(c) /\ Earlier(i, c)
      BY <1>3 DEF Due
    <2>2. i \in DOMAIN prio
      BY <2>1, RangeIsMembers
    <2>3. /\ c \in Nat /\ i \in Nat /\ prio[c] \in Nat /\ prio[i] \in Nat
      BY <1>1, <2>2, IndexedFacts
    <2>4. i # c
      BY <2>1, <2>3 DEF Earlier
    <2>5. Visited(c, i) /\ Visited(i, c)
      BY <2>1, <2>4 DEF Visited
    <2> QED
      BY <1>1, <2>2, <2>5, VisitedIsAnOrder
  <1>4. Cardinality(before) < Window
    <2>1. before = {}
      BY <1>3
    <2> QED
      BY <2>1, FS_EmptySet, WindowAssumption
  <1>5. c \in Candidates(Priority(c), at)
    BY <1>4 DEF Candidates, Due
  <1> QED
    BY <1>2, <1>5 DEF AllCandidates

\* A script that takes no job removes the first one that is due.
LEMMA EmptyScriptRemoves ==
  ASSUME OptInv, NEW w \in Workers, look[w].pc = "lua", LuaTaken(look[w].at) = {},
         ZrangeUpTo(prio, look[w].at) # {}
  PROVE  \E c \in DOMAIN prio : c \in LuaRemoved(look[w].at)
  <1> DEFINE at == look[w].at
  <1>0. /\ LeaseInv /\ IndexTypes /\ phase = "optimized" /\ at \in Nat
    BY LookFacts DEF OptInv
  <1>1. ZrangeUpTo(prio, at) # {} /\ LuaTaken(at) = {}
    OBVIOUS
  <1> HIDE DEF at
  <1>2. PICK c \in ZrangeUpTo(prio, at) : \A i \in ZrangeUpTo(prio, at) \ {c} : Visited(c, i)
    BY <1>0, <1>1, RangeIsMembers, FirstVisited
  <1>3. c \in AllCandidates(at) /\ c \in DOMAIN prio /\ prio[c] <= at
    BY <1>0, <1>2, FirstIsCandidate DEF ZrangeUpTo
  <1>4. ~Takeable(c, at)
    <2>1. LuaTakeable(at) = {}
      <3>1. LuaTakeable(at) \subseteq DOMAIN prio
        BY AllCandidatesIndexed DEF LuaTakeable
      <3>2. LuaTakeable(at) # {} => LuaTaken(at) # {}
        BY <1>0, <3>1, FirstVisited DEF LuaTaken
      <3> QED
        BY <1>1, <3>2
    <2> QED
      BY <1>3, <2>1 DEF LuaTakeable
  <1>5. c \in LuaPassed(at)
    BY <1>1, <1>3 DEF LuaPassed
  <1>6. Passed(job[c], at).status \notin Waiting
    <2>1. RecordOK(job[c]) /\ job[c].spec \in SpecType /\ c \in JobIds /\ job[c].status # "absent"
      BY <1>0, <1>3, IndexedFacts
    <2>2. job[c].spec.domain \in UNION DomainFilters
      BY <2>1 DEF SpecType
    <2>3. job[c].status \in Waiting => job[c].available <= at
      BY <1>0, <1>3, <2>1 DEF OptInv, IndexInv, PrioIsRight, ListedIn
    <2>4. job[c].status \in Waiting => job[c].cancel \/ DeadlineExpired(job[c], at)
      BY <1>4, <2>2, <2>3 DEF Takeable, Claimable
    <2>5. CASE job[c].status \notin Waiting
      BY <2>5 DEF Passed
    <2>6. CASE job[c].status \in Waiting /\ job[c].cancel
      <3>1. ClearLease(job[c]) \in JobType
        BY <2>1, ConstantAssumption DEF RecordOK, JobType, ClearLease
      <3>2. Passed(job[c], at).status = "cancelled"
        BY <2>6, <3>1 DEF Passed, JobType
      <3> QED
        BY <3>2
    <2>7. CASE job[c].status \in Waiting /\ ~job[c].cancel /\ DeadlineExpired(job[c], at)
      <3>1. Passed(job[c], at) = DeadlineFailed(job[c])
        BY <2>7 DEF Passed
      <3> QED
        BY <2>1, <3>1, DeadlineFailedOK
    <2> QED
      BY <2>4, <2>5, <2>6, <2>7
  <1> QED
    BY <1>3, <1>5, <1>6 DEF LuaRemoved, at

\* What EmptyClaimMakesProgress says of a step.
Progresses ==
  \A w \in Workers :
    LET at == look[w].at
    IN  /\ look[w].pc = "lua" /\ look'[w].pc = "idle" /\ claims' = claims
        /\ \E j \in ZrangeUpTo(prio, at) : Takeable(j, at)
        => Cardinality(DOMAIN prio') < Cardinality(DOMAIN prio)

LEMMA ScriptProgresses ==
  ASSUME OptInv, NEW w \in Workers, LuaClaim(w), claims' = claims,
         ZrangeUpTo(prio, look[w].at) # {}
  PROVE  Cardinality(DOMAIN prio') < Cardinality(DOMAIN prio)
  <1> DEFINE at == look[w].at
             removed == LuaRemoved(at)
  <1>1. /\ look[w].pc = "lua" /\ claims' = claims + Cardinality(LuaTaken(at))
        /\ prio' = [j \in DOMAIN prio \ removed |-> prio[j]]
    BY LuaClaimDoes
  <1>2. claims \in Nat
    BY ConstantAssumption DEF OptInv, LeaseInv, LeaseTypes
  <1>3. Cardinality(LuaTaken(at)) = IF LuaTaken(at) = {} THEN 0 ELSE 1
    BY LuaTakesOne DEF OptInv
  <1>4. LuaTaken(at) = {}
    BY <1>1, <1>2, <1>3
  <1>5. PICK c \in DOMAIN prio : c \in removed
    BY <1>1, <1>4, EmptyScriptRemoves
  <1> HIDE DEF removed
  <1>6. DOMAIN prio' = DOMAIN prio \ removed
    BY <1>1
  <1>7. IsFiniteSet(DOMAIN prio)
    BY DEF OptInv, IndexTypes, IndexOK
  <1>8. /\ IsFiniteSet(DOMAIN prio \ {c})
        /\ Cardinality(DOMAIN prio) \in Nat
        /\ Cardinality(DOMAIN prio \ {c}) = Cardinality(DOMAIN prio) - 1
    BY <1>7, OneLess
  <1>9. /\ Cardinality(DOMAIN prio') <= Cardinality(DOMAIN prio \ {c})
        /\ Cardinality(DOMAIN prio') \in Nat
    <2>1. DOMAIN prio' \in SUBSET (DOMAIN prio \ {c})
      BY <1>5, <1>6
    <2>2. IsFiniteSet(DOMAIN prio')
      BY <1>8, <2>1, FS_Subset
    <2> QED
      BY <1>8, <2>1, <2>2, FS_Subset, FS_CardinalityType
  <1> QED
    BY <1>8, <1>9

\* Only the script itself takes a worker out of the script.
LEMMA OtherStepsStay ==
  ASSUME OptInv, [OptNext]_optVars, NEW w \in Workers, look[w].pc = "lua",
         look'[w].pc = "idle", ~LuaClaim(w)
  PROVE  FALSE
  <1>0. look \in [Workers -> LookType]
    BY DEF OptInv, LookTypes
  <1>1. ASSUME look' = look PROVE FALSE
    BY <1>1
  <1>3. ASSUME NEW v \in Workers,
               \/ OptClaimTime(v) \/ LuaClaim(v) \/ WatchRange(v) \/ WatchZrem(v)
               \/ WatchSelect(v) \/ WatchRetry(v) \/ WatchExec(v) \/ WatchExpire(v)
               \/ \E j \in JobIds : WatchRead(v, j)
        PROVE  FALSE
    <2>1. v # w
      BY <1>3 DEF OptClaimTime, WatchRange, WatchZrem, WatchSelect, WatchRetry, WatchExec,
                  WatchExpire, WatchRead
    <2>2. look'[w] = look[w]
      <3>1. CASE OptClaimTime(v)
        BY <1>0, <2>1, <3>1 DEF OptClaimTime
      <3>2. CASE LuaClaim(v)
        BY <1>0, <2>1, <3>2 DEF LuaClaim
      <3>3. CASE WatchRange(v)
        BY <1>0, <2>1, <3>3 DEF WatchRange
      <3>4. CASE WatchZrem(v)
        BY <1>0, <2>1, <3>4 DEF WatchZrem
      <3>5. CASE WatchSelect(v)
        BY <1>0, <2>1, <3>5 DEF WatchSelect
      <3>6. CASE WatchRetry(v)
        BY <1>0, <2>1, <3>6 DEF WatchRetry
      <3>7. CASE WatchExec(v)
        BY <1>0, <2>1, <3>7 DEF WatchExec
      <3>8. CASE WatchExpire(v)
        BY <1>0, <2>1, <3>8 DEF WatchExpire
      <3>9. CASE \E j \in JobIds : WatchRead(v, j)
        BY <1>0, <2>1, <3>9 DEF WatchRead
      <3> QED
        BY <1>3, <3>1, <3>2, <3>3, <3>4, <3>5, <3>6, <3>7, <3>8, <3>9
    <2> QED
      BY <2>2
  <1>4. ASSUME \/ \E s \in Specs : OptSubmit(s)
               \/ \E j \in JobIds : OptRequestCancel(j)
               \/ \E t \in Tokens : OptMutateTime(t)
               \/ \E p \in pending : \/ \E j \in JobIds, v \in Workers : OptMutateExec(p, j, v)
                                     \/ OptMutateLost(p)
               \/ OptRecover \/ Repair \/ OptTick \/ UNCHANGED optVars
        PROVE  FALSE
    <2>1. look' = look
      BY <1>4 DEF OptSubmit, OptRequestCancel, OptMutateTime, OptMutateExec, OptMutateLost,
                  OptRecover, Repair, SwitchClients, RepairScan, RepairRead, RepairWrite, RepairRange,
                  RepairScore, RepairDrop, OptTick, optVars
    <2> QED
      BY <1>1, <2>1
  <1> QED
    BY <1>3, <1>4 DEF OptNext

\* A bounded window starves nobody: when the script returns no job although one could be
\* claimed, it has made the index shorter, so that the job moves up.
THEOREM EmptyClaimsProgress == OptSpec => EmptyClaimMakesProgress
  <1>1. OptInv /\ [OptNext]_optVars => [Progresses]_optVars
    <2> SUFFICES ASSUME OptInv, [OptNext]_optVars, NEW w \in Workers,
                        look[w].pc = "lua", look'[w].pc = "idle", claims' = claims,
                        \E j \in ZrangeUpTo(prio, look[w].at) : Takeable(j, look[w].at)
                 PROVE  Cardinality(DOMAIN prio') < Cardinality(DOMAIN prio)
      BY DEF Progresses
    <2>1. LuaClaim(w)
      BY OtherStepsStay
    <2> QED
      BY <2>1, ScriptProgresses
  <1>2. OptSpec => [][Progresses]_optVars
    BY <1>1, OptInvHolds, PTL DEF OptSpec
  <1> QED
    BY <1>2, Zenon DEF EmptyClaimMakesProgress, Progresses
=============================================================================
