SPECIFICATION CommerceSpec
CONSTANTS
  Kinds <- MCKinds
  Evidence <- ExtractedEvidence
  MaxEvents = 2
  MaxClock = 2
  Rollover = 1
  FreezeAfter = 2
  DeletionAfter = 4
  Keys = {k1}
  Units = {1}
  Base = 4
  GracePercent = 25
  MaxCycles = 2
  LemonOrders = {"o1"}
  LocalOrders = {"o2"}
  Requests = {r1}
  Payments = {1}
  Allowance = 2
  Carried = 1
  Bundle = 2
  ThresholdPercent = 80
  Purchases = {d1}
  Assessments = {a1}
  Owner <- MCOwner
  Transfers = {r1}
  DecisionKeys = {k1}
  Nobody = Nobody
INVARIANT
  OnlyStaleEventsRejected
CHECK_DEADLOCK FALSE
