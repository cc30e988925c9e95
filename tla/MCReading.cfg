CONSTANTS
  MaxShort = 1
  Ceiling = 1
  Channels = {1, 2}
  frame_max = 10
  Sayings <- sayings
  MaxSaid <- most
  MaxStream = 1
  Window = 9
  decode_method <- method
  decode_content_header <- content_header
SPECIFICATION Spec
INVARIANTS TypeOK GotIsSaid NothingStays
CHECK_DEADLOCK FALSE
