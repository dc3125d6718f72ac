------------------------ MODULE RedisDomainCapacity ------------------------
(***************************************************************************)
(* RedisDomainCapacityBackend of processual_api/execution/capacity.py.     *)
(* The reservations are members of a global sorted set and of one sorted   *)
(* set per domain, scored by their expiry.  Each Lua script is atomic.     *)
(* reserve gives both keys a time to live (EXPIRE); renew does not extend  *)
(* it, and Redis deletes a key whose time is over with all its members.    *)
(* A sorted set that becomes empty is deleted, its time to live with it.   *)
(***************************************************************************)
EXTENDS CapacityPolicy

Keys == {Global} \cup Domains

VARIABLES
  zset,        \* the sorted sets: key -> (member -> score)
  ends,        \* when the time to live of each key is over
  redisNow,    \* the clock of the Redis server
  redisIssued, redisHeld, redisDue   \* as issued, held and due in DomainCapacity

redisVars == <<zset, ends, redisNow, redisIssued, redisHeld, redisDue>>

Empty == [l \in {} |-> 0]

RedisInit ==
  /\ zset = [k \in Keys |-> Empty]
  /\ ends = [k \in Keys |-> 0]
  /\ redisNow = 0
  /\ redisIssued = {}
  /\ redisHeld = {}
  /\ redisDue = [l \in Leases |-> 0]

ZAdd(z, l, score) ==
  [k \in DOMAIN z \cup {l} |-> IF k = l THEN score ELSE z[k]]
ZRem(z, l) == [k \in DOMAIN z \ {l} |-> z[k]]
ZLive(z) == {l \in DOMAIN z : z[l] > redisNow}
ZRemRange(z) == [l \in ZLive(z) |-> z[l]]

KeysOf(l) == {Global, DomainOf[l]}

Ttl == LET twice == 2 * LeaseSeconds
       IN  IF twice > TtlFloor THEN twice ELSE TtlFloor

\* Both keys of l changed by f.
OnKeysOf(l, f(_)) ==
  [k \in Keys |-> IF k \in KeysOf(l) THEN f(zset[k]) ELSE zset[k]]

\* The answer may be lost on its way to the worker.
RedisReserve(l) ==
  /\ l \notin redisIssued
  /\ IF Admits(l, Cardinality(ZLive(zset[Global])),
               Cardinality(ZLive(zset[DomainOf[l]])))
       THEN /\ zset' = OnKeysOf(l, LAMBDA z :
                         ZAdd(ZRemRange(z), l, redisNow + LeaseSeconds))
            /\ ends' = [k \in Keys |->
                          IF k \in KeysOf(l) THEN redisNow + Ttl ELSE ends[k]]
            /\ redisIssued' = redisIssued \cup {l}
            /\ redisHeld' \in {redisHeld, redisHeld \cup {l}}
            /\ redisDue' = [redisDue EXCEPT ![l] = redisNow + LeaseSeconds]
       ELSE zset' = OnKeysOf(l, ZRemRange) /\ UNCHANGED <<ends, redisIssued, redisHeld, redisDue>>
  /\ UNCHANGED redisNow

RedisRenew(l) ==
  /\ l \in redisHeld
  /\ IF \A k \in KeysOf(l) : l \in ZLive(zset[k])
       THEN /\ zset' = OnKeysOf(l, LAMBDA z : ZAdd(z, l, redisNow + LeaseSeconds))
            /\ redisDue' = [redisDue EXCEPT ![l] = redisNow + LeaseSeconds]
            /\ UNCHANGED redisHeld
       ELSE /\ zset' = OnKeysOf(l, LAMBDA z : ZRem(z, l))
            /\ redisHeld' = redisHeld \ {l}
            /\ UNCHANGED redisDue
  /\ UNCHANGED <<ends, redisNow, redisIssued>>

RedisRelease(l) ==
  /\ l \in redisHeld
  /\ zset' = OnKeysOf(l, LAMBDA z : ZRem(z, l))
  /\ redisHeld' = redisHeld \ {l}
  /\ UNCHANGED <<ends, redisNow, redisIssued, redisDue>>

\* External: the worker dies or leaks its reservation.
RedisAbandon(l) ==
  /\ l \in redisHeld
  /\ redisHeld' = redisHeld \ {l}
  /\ UNCHANGED <<zset, ends, redisNow, redisIssued, redisDue>>

\* External: the server clock, and the keys whose time to live is over.
RedisTick ==
  /\ redisNow < MaxTime
  /\ redisNow' = redisNow + 1
  /\ zset' = [k \in Keys |-> IF ends[k] <= redisNow + 1 THEN Empty ELSE zset[k]]
  /\ UNCHANGED <<ends, redisIssued, redisHeld, redisDue>>

RedisNext ==
  \/ \E l \in Leases : RedisReserve(l) \/ RedisRenew(l) \/ RedisRelease(l) \/ RedisAbandon(l)
  \/ RedisTick

RedisCapacitySpec == RedisInit /\ [][RedisNext]_redisVars

-----------------------------------------------------------------------------
(* Properties                                                              *)

\* What each key has admitted and not yet lost respects the policy, with
\* renewals and expiries between the admissions and members of a dead domain
\* key still in the global one.  The global set covers the domain sets, although
\* the scripts touch two keys of many and each key dies at its own time: a
\* reservation that counts for its domain counts globally until the same moment.
AdmittedRespectsPolicy ==
  /\ Cardinality(ZLive(zset[Global])) <= GlobalLimit
  /\ Cardinality(ZLive(zset[Global]) \ Emergencies)
       <= GlobalLimit - EmergencyReserve
  /\ \A d \in Domains :
       /\ Cardinality(ZLive(zset[d])) <= DomainLimit[d]
       /\ \A l \in ZLive(zset[d]) :
            l \in DOMAIN zset[Global] /\ zset[Global][l] = zset[d][l]

\* The reservations whose holders may still work.
RedisWorking == {l \in redisHeld : redisDue[l] > redisNow}

\* The workers that may work at the same time, on all nodes, respect the
\* global limit, the limit of each domain and the emergency reserve.
RedisLimitsRespected == RespectsPolicy(RedisWorking)
=============================================================================
