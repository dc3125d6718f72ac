--------------------------- MODULE DomainCapacity ---------------------------
(***************************************************************************)
(* InMemoryDomainCapacityBackend of processual_api/execution/capacity.py   *)
(* and the workers that hold its reservations through the controller.  The *)
(* backend's methods run under one lock and read the clock in it.          *)
(*                                                                         *)
(* A refused acquire is retried with the same reservation until its wait   *)
(* is over: each try is one Reserve.  A worker that dies simply stops      *)
(* renewing.                                                               *)
(***************************************************************************)
EXTENDS CapacityPolicy

VARIABLES
  leases,  \* _leases: lease_id -> expiry
  now,     \* time.monotonic()
  issued,  \* the reservations that were admitted at some time
  held,    \* the reservations that some worker still works under
  due      \* until when the last answer allows its holder to work

memoryVars == <<leases, now, issued, held, due>>

MemoryInit ==
  /\ leases = [l \in {} |-> 0]
  /\ now = 0
  /\ issued = {}
  /\ held = {}
  /\ due = [l \in Leases |-> 0]

\* _cleanup
LiveIds == {l \in DOMAIN leases : leases[l] > now}
Cleaned == [l \in LiveIds |-> leases[l]]

With(table, l, expiry) ==
  [k \in DOMAIN table \cup {l} |-> IF k = l THEN expiry ELSE table[k]]

Without(table, l) == [k \in DOMAIN table \ {l} |-> table[k]]

Reserve(l) ==
  /\ l \notin issued
  /\ IF Admits(l, Cardinality(LiveIds),
               Cardinality(InDomain(LiveIds, DomainOf[l])))
       THEN /\ leases' = With(Cleaned, l, now + LeaseSeconds)
            /\ issued' = issued \cup {l}
            /\ held' = held \cup {l}
            /\ due' = [due EXCEPT ![l] = now + LeaseSeconds]
       ELSE leases' = Cleaned /\ UNCHANGED <<issued, held, due>>
  /\ UNCHANGED now

\* renew; on False the controller raises and the worker stops.
Renew(l) ==
  /\ l \in held
  /\ IF l \in LiveIds
       THEN /\ leases' = With(Cleaned, l, now + LeaseSeconds)
            /\ due' = [due EXCEPT ![l] = now + LeaseSeconds]
            /\ UNCHANGED held
       ELSE /\ leases' = Cleaned
            /\ held' = held \ {l}
            /\ UNCHANGED due
  /\ UNCHANGED <<now, issued>>

Release(l) ==
  /\ l \in held
  /\ leases' = Without(leases, l)
  /\ held' = held \ {l}
  /\ UNCHANGED <<now, issued, due>>

\* External: the worker dies or leaks its reservation.
Abandon(l) ==
  /\ l \in held
  /\ held' = held \ {l}
  /\ UNCHANGED <<leases, now, issued, due>>

\* External: the monotonic clock.
Tick ==
  /\ now < MaxTime
  /\ now' = now + 1
  /\ UNCHANGED <<leases, issued, held, due>>

MemoryNext ==
  \/ \E l \in Leases : Reserve(l) \/ Renew(l) \/ Release(l) \/ Abandon(l)
  \/ Tick

MemorySpec == MemoryInit /\ [][MemoryNext]_memoryVars

-----------------------------------------------------------------------------
(* Properties                                                              *)

\* Every variable has its type.
MemoryTypeOK ==
  /\ DOMAIN leases \subseteq Leases
  /\ leases \in [DOMAIN leases -> Nat]
  /\ now \in Nat
  /\ issued \subseteq Leases
  /\ held \subseteq issued
  /\ due \in [Leases -> Nat]

\* The reservations whose holders may still work: the backend answered them
\* and the lease it answered with has not run out.
Working == {l \in held : due[l] > now}

\* However admissions, renewals, expiries and deaths interleave, the workers
\* that may work at the same time respect the global limit, the limit of
\* each domain and the emergency reserve.
LimitsRespected == RespectsPolicy(Working)

\* The table has what every working holder believes: a holder is only
\* forgotten after its lease has run out.
HoldersAreKnown ==
  \A l \in Working : l \in DOMAIN leases /\ leases[l] = due[l]
=============================================================================
