SPECIFICATION Spec
CONSTANTS
  JobIds = {1}
  Workers = {w1, w2}
  Specs <- OneSpec
  DomainFilters <- MCDomainFilters
  LeaseSeconds = 1
  Delays = {0}
  NoWorker = NoWorker
  NoSpec = NoSpec
  NoDeadline = NoDeadline
  NoJob = NoJob
  MaxTime = 2
  MaxClaims = 3
  MaxPending = 2
SYMMETRY WorkerSymmetry
INVARIANTS
  LeasesAreIndexed
  QueueHoldsWaiting
PROPERTIES
  ImplementsLifecycle
CHECK_DEADLOCK FALSE
