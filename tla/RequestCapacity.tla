-------------------------- MODULE RequestCapacity --------------------------
(***************************************************************************)
(* Weighted admission of HTTP requests: RuntimeCapacityMiddleware of       *)
(* middleware/runtime_capacity.py with its Redis backend, and the          *)
(* process-local accounting of middleware/runtime_capacity_metrics.py.     *)
(*                                                                         *)
(* A reservation has an entry under the global key and, if the request has *)
(* an actor, under the actor's key; each key stands for the pair of sorted *)
(* set and hash that the scripts keep together.  Each script is atomic.    *)
(* Unlike the scripts of the workers' capacity, renew extends the time to  *)
(* live of the keys.  Times are kept as what is left of them.  The scores  *)
(* of the leases come from the clocks of the nodes and the life of a key   *)
(* from Redis: one clock stands for all of them, without skew.  The        *)
(* in-memory backend has the same admissions and no keys that expire.      *)
(***************************************************************************)
EXTENDS Integers, FiniteSets, Functions

CONSTANTS HttpRequests,
          WeightOf,          \* _request_weight
          ActorOf,           \* _request_actor_key, or NoActor
          NoActor,
          GlobalOcu, ActorOcu,
          RequestLease,      \* lease_seconds
          KeyTtlFloor        \* the 10 seconds of the scripts

Actors == {ActorOf[q] : q \in HttpRequests} \ {NoActor}
GlobalKey == "global"

ASSUME RequestConfig ==
    /\ IsFiniteSet(HttpRequests)
    /\ GlobalKey \notin Actors \cup {NoActor}
    /\ WeightOf \in [HttpRequests -> Nat \ {0}]
    /\ {GlobalOcu, ActorOcu, RequestLease} \subseteq Nat \ {0}
    /\ KeyTtlFloor \in Nat

VARIABLES entries,   \* key -> (reservation -> what is left of its lease)
          keyTtl,    \* key -> what is left of its time to live
          stage,     \* where each request is in dispatch
          belief,    \* what is left of the lease that its last answer gave it
          accounted  \* RUNTIME_CAPACITY_ACCOUNTING

requestVars == <<entries, keyTtl, stage, belief, accounted>>

ReqKeys == {GlobalKey} \cup Actors
None == [q \in {} |-> 0]

RequestInit == /\ entries = [k \in ReqKeys |-> None]
               /\ keyTtl = [k \in ReqKeys |-> 0]
               /\ stage = [q \in HttpRequests |-> "waiting"]
               /\ belief = [q \in HttpRequests |-> 0]
               /\ accounted = {}

ReqKeysOf(q) == {GlobalKey, ActorOf[q]} \ {NoActor}

Weight(Q) == SumFunctionOnSet(WeightOf, Q)

BugLiveEntries(k) == DOMAIN entries[k]

\* cleanup and total
LiveEntries(k) == {q \in DOMAIN entries[k] : entries[k][q] > 0}

AdmitsRequest(q) ==
    /\ Weight(LiveEntries(GlobalKey)) + WeightOf[q] <= GlobalOcu
    /\ ActorOf[q] # NoActor =>
          Weight(LiveEntries(ActorOf[q])) + WeightOf[q] <= ActorOcu

KeyTtl == IF 2 * RequestLease > KeyTtlFloor THEN 2 * RequestLease ELSE KeyTtlFloor

\* The entries of q set to a whole lease, the keys touched to a whole life.
Granted(q) == /\ entries' = [k \in ReqKeys |->
                    IF k \notin ReqKeysOf(q) THEN entries[k]
                    ELSE [r \in LiveEntries(k) \cup {q} |->
                            IF r = q THEN RequestLease ELSE entries[k][r]]]
              /\ keyTtl' = [k \in ReqKeys |-> IF k \in ReqKeysOf(q) THEN KeyTtl ELSE keyTtl[k]]

\* A script that refuses has cleaned the keys it looked at.
CleanedRequests(q) ==
    /\ entries' = [k \in ReqKeys |->
                     IF k \in ReqKeysOf(q) THEN [r \in LiveEntries(k) |-> entries[k][r]]
                     ELSE entries[k]]
    /\ UNCHANGED keyTtl

Dropped(q) == [k \in ReqKeys |-> IF k \in ReqKeysOf(q)
                                 THEN [r \in DOMAIN entries[k] \ {q} |-> entries[k][r]]
                                 ELSE entries[k]]

-----------------------------------------------------------------------------
\* One turn of the loop around reserve; the wait may be over or not.
ReserveRequest(q) ==
    /\ stage[q] = "waiting"
    /\ IF AdmitsRequest(q)
       THEN /\ Granted(q)
            /\ stage' = [stage EXCEPT ![q] = "running"]
            /\ belief' = [belief EXCEPT ![q] = RequestLease]
            /\ accounted' = accounted \cup {q}
       ELSE /\ CleanedRequests(q)
            /\ \E st \in {"waiting", "rejected"} : stage' = [stage EXCEPT ![q] = st]
            /\ UNCHANGED <<belief, accounted>>

\* reserve is executed and raises, or the client is gone before its answer:
\* dispatch ends with a reservation that nobody knows of.
ReserveLost(q) == /\ stage[q] = "waiting" /\ AdmitsRequest(q)
                  /\ Granted(q)
                  /\ stage' = [stage EXCEPT ![q] = "failed"]
                  /\ UNCHANGED <<belief, accounted>>

BugRenewGranted(q) ==
    /\ entries' = [k \in ReqKeys |-> IF k \in ReqKeysOf(q)
                                     THEN [entries[k] EXCEPT ![q] = RequestLease]
                                     ELSE entries[k]]
    /\ UNCHANGED keyTtl

RenewGranted(q) == Granted(q)

\* _lease_heartbeat.  A renewal that is refused stops the request.
RenewRequest(q) ==
    /\ stage[q] = "running"
    /\ IF \A k \in ReqKeysOf(q) : q \in LiveEntries(k)
       THEN /\ RenewGranted(q)
            /\ belief' = [belief EXCEPT ![q] = RequestLease]
            /\ UNCHANGED stage
       ELSE /\ entries' = Dropped(q)
            /\ stage' = [stage EXCEPT ![q] = "stopping"]
            /\ UNCHANGED <<keyTtl, belief>>
    /\ UNCHANGED accounted

\* renew raises, executed or not: the request is stopped all the same.
RenewError(q) ==
    /\ stage[q] = "running"
    /\ \/ UNCHANGED <<entries, keyTtl>>
       \/ (\A k \in ReqKeysOf(q) : q \in LiveEntries(k)) /\ RenewGranted(q)
    /\ stage' = [stage EXCEPT ![q] = "stopping"]
    /\ UNCHANGED <<belief, accounted>>

\* The handler returns or raises.
Return(q) == /\ stage[q] = "running"
             /\ stage' = [stage EXCEPT ![q] = "stopping"]
             /\ UNCHANGED <<entries, keyTtl, belief, accounted>>

\* The finally block to its end: the accounting is popped whether release raises an
\* Exception, executed or not, or returns.
Finish(q) == /\ stage[q] = "stopping"
             /\ \E released \in BOOLEAN :
                   entries' = IF released THEN Dropped(q) ELSE entries
             /\ accounted' = accounted \ {q}
             /\ stage' = [stage EXCEPT ![q] = "done"]
             /\ belief' = [belief EXCEPT ![q] = 0]
             /\ UNCHANGED keyTtl

\* The finally block is left before its end: a task that it cancelled raises something
\* else, or it is itself cancelled at the await of release, which may have been executed.
\* CancelledError is no Exception, and the accounting is not reached.
FinishCut(q) == /\ stage[q] = "stopping"
                /\ \E released \in BOOLEAN :
                      entries' = IF released THEN Dropped(q) ELSE entries
                /\ stage' = [stage EXCEPT ![q] = "cut"]
                /\ belief' = [belief EXCEPT ![q] = 0]
                /\ UNCHANGED <<keyTtl, accounted>>

\* External: time.time() of the nodes, by which a script judges the leases, and the keys
\* that Redis deletes.
Less(n) == IF n > 0 THEN n - 1 ELSE 0

RequestTick ==
    /\ \/ \E k \in ReqKeys : DOMAIN entries[k] # {}
       \/ \E q \in HttpRequests : belief[q] > 0
    /\ keyTtl' = [k \in ReqKeys |-> Less(keyTtl[k])]
    /\ entries' = [k \in ReqKeys |->
          IF keyTtl[k] <= 1 THEN None ELSE [q \in DOMAIN entries[k] |-> Less(entries[k][q])]]
    /\ belief' = [q \in HttpRequests |-> Less(belief[q])]
    /\ UNCHANGED <<stage, accounted>>

RequestStep(q) == ReserveRequest(q) \/ ReserveLost(q) \/ RenewRequest(q) \/ RenewError(q)
                  \/ Return(q) \/ Finish(q) \/ FinishCut(q)

RequestNext == RequestTick \/ \E q \in HttpRequests : RequestStep(q)

RequestSpec == RequestInit /\ [][RequestNext]_requestVars

-----------------------------------------------------------------------------
(* Properties *)

WorkingRequests(S) == {q \in S : stage[q] \in {"running", "stopping"} /\ belief[q] > 0}

\* The requests that hold an unexpired lease, whichever renewed and whichever
\* were forgotten, stay within the global and the actor's limit together.
RequestsWithinLimits ==
    /\ Weight(WorkingRequests(HttpRequests)) <= GlobalOcu
    /\ \A a \in Actors : Weight(WorkingRequests({q \in HttpRequests : ActorOf[q] = a})) <= ActorOcu

\* Capacity is never lost for good: a reservation that its request gave up
\* without a release stops counting, however often the others renew theirs and
\* wherever its finally block was left.
ReservationsEnd ==
    \A q \in HttpRequests :
        stage[q] \in {"failed", "done", "cut"} ~> q \notin LiveEntries(GlobalKey)
=============================================================================
