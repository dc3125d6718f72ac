SPECIFICATION Spec
CONSTANTS
  JobIds = {1, 2}
  Workers = {w1, w2}
  Specs <- MCSpecs
  DomainFilters <- MCDomainFilters
  LeaseSeconds = 2
  Delays = {0, 1}
  NoWorker = NoWorker
  NoSpec = NoSpec
  NoDeadline = NoDeadline
  NoJob = NoJob
  MaxTime = 3
  MaxClaims = 3
SYMMETRY WorkerSymmetry
INVARIANTS
  TypeOK
  AttemptsBounded
  OpenClaimsAreLeases
PROPERTIES
  LiveLeaseIsSafe
  ImplementsLifecycle
CHECK_DEADLOCK FALSE
