SPECIFICATION OptSpec
CONSTANTS
  JobIds = {1, 2}
  Workers = {w1}
  Specs <- TwoSpecs
  DomainFilters <- MCDomainFilters
  LeaseSeconds = 1
  Delays = {0}
  NoWorker = NoWorker
  NoSpec = NoSpec
  NoDeadline = NoDeadline
  NoJob = NoJob
  None = None
  MaxTime = 1
  MaxClaims = 2
  MaxPending = 1
  Window = 1
INVARIANTS
  EveryWaitingJobIsIndexed
PROPERTIES
  EmptyClaimMakesProgress
  ClaimsAreWaiting
CHECK_DEADLOCK FALSE
