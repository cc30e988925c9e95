CONSTANTS
  a = a
  b = b
  c = c
  Publishers = {a, b, c}
  Nobody = Nobody
  Durable = {a, b}
  Unconfirmed = {c}
  Mandatory = {a, c}
  Malformed = {}
  Cancellable = {a}
  Coalesced = TRUE
  AfterLoss = TRUE
SPECIFICATION FairSpec
INVARIANTS ConfirmTracked TagsInStep ConfirmIsOwn ReturnIsOwn
PROPERTY PublishEnds
CHECK_DEADLOCK FALSE
