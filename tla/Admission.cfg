SPECIFICATION AdmissionSpec
CONSTANTS
  Workers = {w1, w2, w3}
  Minimum = 1
  Maximum = 3
  AdditiveStep = 1
  RatioNum = 1
  RatioDen = 2
  ErrorNum = 1
  ErrorDen = 2
  RecoveryWindows = 2
  PressureWindows = 2
  WindowSize = 2
  Leases = {1, 2, 3, 4}
  Domains = {"oss", "billing", "noc"}
  DomainOf <- MCDomainOf
  Emergencies = {4}
  GlobalLimit = 2
  DomainLimit <- MCDomainLimit
  EmergencyReserve = 1
  LeaseSeconds = 2
  MaxTime = 5
  TtlFloor = 3
  HttpRequests = {1, 2, 3}
  WeightOf <- MCWeightOf
  ActorOf <- MCActorOf
  NoActor = NoActor
  GlobalOcu = 3
  ActorOcu = 2
  RequestLease = 2
  KeyTtlFloor = 3
  Loops = {l1, l2}
  Callers = {c1, c2}
  MaxStarts = 2
INVARIANTS
  SleepersAreBlocked
  LimitsRespected
  AdmittedRespectsPolicy
  RequestsWithinLimits
  NoOrphanLoops
PROPERTIES
  Hysteresis
  PressureReachesMinimum
  ReservationsEnd
  StopReturns
CHECK_DEADLOCK FALSE
