SPECIFICATION FairSpec
CONSTANTS
  None = None
  Publishers = {"p", "q"}
  Subscribers = {"s", "t"}
  Kinds = {"events", "registry"}
  Durable = {"q"}
  service <- MCservice
  methods <- MCmethods
  Ttl = 2
  MaxSends = 2
  MaxStops = 2
INVARIANTS MissedOnlyAlone AdvertisedIsBound
PROPERTY PublishReturns
CHECK_DEADLOCK FALSE
