SPECIFICATION RedisCapacitySpec
CONSTANTS
  Leases = {1, 2, 3, 4}
  Domains = {"oss", "billing", "noc"}
  DomainOf <- MCDomainOf
  Emergencies = {4}
  GlobalLimit = 2
  DomainLimit <- MCDomainLimit
  EmergencyReserve = 1
  LeaseSeconds = 2
  MaxTime = 6
  TtlFloor = 3
INVARIANT
  RedisLimitsRespected
CHECK_DEADLOCK FALSE
