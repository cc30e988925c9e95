CONSTANTS
  a = a
  b = b
  Requests = {a, b}
  Ids = {a, b}
  IdOf <- FreshIds
  Republisher = Republisher
  AutoTask = AutoTask
  ManualTask = ManualTask
  FailFast = FALSE
  BrokerTimeout = TRUE
  MaxAttempts = 2
  MaxLosses = 2
  MaxEpoch = 1
  Cancellable = {}
  CanBlock = FALSE
  CanReset = TRUE
  CanClose = FALSE
  Coalesced = FALSE
  QuietReconnect = TRUE
SPECIFICATION FairSpec
INVARIANT EpochCarriesAll
PROPERTIES CallEnds ReconnectEnds
CHECK_DEADLOCK FALSE
