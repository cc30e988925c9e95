CONSTANTS
  a = a
  b = b
  Requests = {a, b}
  Ids = {a, b}
  IdOf <- FreshIds
  Republisher = Republisher
  AutoTask = AutoTask
  ManualTask = ManualTask
  FailFast = FALSE
  BrokerTimeout = FALSE
  MaxAttempts = 2
  MaxLosses = 2
  MaxEpoch = 0
  Cancellable = {a, b}
  CanBlock = TRUE
  CanReset = TRUE
  CanClose = TRUE
  Coalesced = TRUE
  QuietReconnect = FALSE
SYMMETRY Calls
SPECIFICATION Spec
INVARIANTS TypeOK FutureTracked Recoverable TableClean OpenIsLive
PROPERTY ImplementsRpcCall
CHECK_DEADLOCK FALSE
