CONSTANTS
  a = a
  b = b
  c = c
  Publishers = {a, c}
  Nobody = Nobody
  Durable = {a}
  Unconfirmed = {c}
  Mandatory = {}
  Malformed = {}
  Cancellable = {}
  Coalesced = FALSE
  AfterLoss = FALSE
SPECIFICATION Spec
INVARIANT ConfirmedIsAnswered
CHECK_DEADLOCK FALSE
