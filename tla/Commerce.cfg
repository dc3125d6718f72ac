SPECIFICATION CommerceSpec
CONSTANTS
  Kinds <- MCKinds
  Evidence <- CompleteEvidence
  MaxEvents = 3
  MaxClock = 4
  Rollover = 1
  FreezeAfter = 3
  DeletionAfter = 4
  Keys = {k1, k2}
  Units = {1}
  Base = 4
  GracePercent = 25
  MaxCycles = 2
  LemonOrders = {"o1"}
  LocalOrders = {"o2"}
  Requests = {r1, r2}
  Payments = {1, 2}
  Allowance = 2
  Carried = 1
  Bundle = 2
  ThresholdPercent = 80
  Purchases = {d1, d2}
  Assessments = {a1}
  Owner <- MCOwner
  Transfers = {r1, r2}
  DecisionKeys = {k1, k2}
  Nobody = Nobody
CONSTRAINT Horizon
SYMMETRY KeySymmetry
INVARIANTS
  StatusOfLatestEvent
  RuntimeMatchesBilling
  MissedCyclesCounted
  LedgerBalances
  GraceIsDegraded
  OneCheckoutPerOrder
  TopUpsAreGrants
  OnePaidSubscription
PROPERTIES
  NoAccessAfterGrace
  SupersededStaysSuperseded
CHECK_DEADLOCK FALSE
