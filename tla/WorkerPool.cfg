SPECIFICATION FairPoolSpec
CONSTANTS
  JobIds = {1}
  Budgets = {2}
  Tokens = {1, 2, 3}
  NoToken = NoToken
  w1 = w1
  w2 = w2
  w3 = w3
  Workers = {w1, w2, w3}
  Handles <- MCHandles
  Unfiltered = {w3}
  Capacity = 1
  NoJob = NoJob
INVARIANTS
  StartsWithinBudget
PROPERTIES
  ResultHasOwner
  StaleHandlersStop
  JobsFinish
CHECK_DEADLOCK FALSE
