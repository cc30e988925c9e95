CONSTANTS
  a = a
  b = b
  Requests = {a, b}
  Ids = {a, b}
  IdOf <- FreshIds
  Republisher = Republisher
  AutoTask = AutoTask
  ManualTask = ManualTask
  FailFast = FALSE
  BrokerTimeout = TRUE
  MaxAttempts = 2
  MaxLosses = 2
  MaxEpoch = 0
  Cancellable = {}
  CanBlock = FALSE
  CanReset = FALSE
  CanClose = FALSE
  Coalesced = TRUE
  QuietReconnect = TRUE
SPECIFICATION FairSpec
PROPERTY WaitEnds
CHECK_DEADLOCK FALSE
