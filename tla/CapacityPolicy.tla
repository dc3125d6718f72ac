--------------------------- MODULE CapacityPolicy ---------------------------
(***************************************************************************)
(* The domain capacity policy of processual_api/execution/capacity.py: the *)
(* constants of DomainCapacityPolicy, the admission test that both         *)
(* backends apply, and the reservations that workers ask for.              *)
(***************************************************************************)
EXTENDS Integers, FiniteSets

CONSTANTS
  Leases,            \* reservations, one lease_id each
  Domains,
  DomainOf,          \* the domain of each reservation
  Emergencies,       \* the reservations of priority EMERGENCY
  GlobalLimit, DomainLimit, EmergencyReserve,
  LeaseSeconds,
  TtlFloor,          \* the 10 seconds of the Redis reserve script
  MaxTime            \* bound on the clock

\* The Redis key that counts the reservations of all domains.
Global == "global"

ASSUME PolicyAssumption ==
  /\ IsFiniteSet(Leases)
  /\ DomainOf \in [Leases -> Domains]
  /\ Emergencies \subseteq Leases
  /\ GlobalLimit \in Nat \ {0}
  /\ EmergencyReserve \in 0..(GlobalLimit - 1)
  /\ DomainLimit \in [Domains -> Nat \ {0}]
  /\ LeaseSeconds \in Nat \ {0}
  /\ TtlFloor \in Nat
  /\ Global \notin Domains
  /\ MaxTime \in Nat

\* Mutant: off by one at the global limit, and no emergency reserve.
BugAdmits(l, globalUsed, domainUsed) ==
  globalUsed <= GlobalLimit /\ domainUsed < DomainLimit[DomainOf[l]]

\* reserve's three refusals: global, domain, emergency_reserve.
Admits(l, globalUsed, domainUsed) ==
  /\ globalUsed < GlobalLimit
  /\ domainUsed < DomainLimit[DomainOf[l]]
  /\ l \in Emergencies \/ globalUsed < GlobalLimit - EmergencyReserve

InDomain(L, d) == {l \in L : DomainOf[l] = d}

\* What the policy promises of the reservations L that are alive together.
RespectsPolicy(L) ==
  /\ Cardinality(L) <= GlobalLimit
  /\ \A d \in Domains : Cardinality(InDomain(L, d)) <= DomainLimit[d]
  /\ Cardinality(L \ Emergencies) <= GlobalLimit - EmergencyReserve
=============================================================================
