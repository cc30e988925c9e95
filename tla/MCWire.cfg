CONSTANTS
  MaxShort = 9
  Ceiling = 80
  MaxDepth = 4
  MaxInt = 20000
  Channels = {1, 2}
  Script <- script
  Programs <- programs
  Consumer = 1
  Bound <- bound
  Tuned = {72}
  FrameMax = 96
  ServerProperties <- server_properties
  ServerMeans <- server_means
  Window = 12
  Cuts = {11}
  Noise <- noises
  PLAIN <- plain
  Response <- plain
  EN_US <- plain
  Slash <- plain
SPECIFICATION Spec
INVARIANTS BrokerUnderstands NothingStays
CHECK_DEADLOCK FALSE
