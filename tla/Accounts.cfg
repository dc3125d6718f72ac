SPECIFICATION AccountsSpec
CONSTANTS
  Dispatchers = {d1, d2}
  MaxMail = 2
  MaxFaults = 1
  MaxRedrives = 1
  MaxAttempts = 2
  Lease = 1
  RetryBase = 1
  RetryMax = 1
  TokenTtl = 2
  Cooldown = 1
  MaxSessions = 2
  MaxTokens = 3
  MaxRequests = 2
  MaxFailures = 1
  MaxKeys = 1
  SessionTtl = 1
  FailedLoginLimit = 1
  LockoutDuration = 1
  RequestTtl = 1
  MaxCodeAttempts = 1
  MfaSessions = {s1, s2}
  Labels = {"phone", "laptop"}
  Enrolments = {e1, e2}
  Codes = {"c1", "c2"}
  StepUpTtl = 1
  RequiredByRole = FALSE
INVARIANTS
  OneUsableToken
  NoCodeReplay
  RefreshFamilies
  RecoveryEndsOldAccess
PROPERTIES
  SettledByItsOwner
  EveryMailSettles
CHECK_DEADLOCK FALSE
