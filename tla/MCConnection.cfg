CONSTANTS
  declare = declare
  rotate = rotate
  Calls = {declare, rotate}
  Secrets = {rotate}
  KeyOf <- Awaits
  Opener = Opener
  Closer = Closer
  Nobody = Nobody
  Tls = TRUE
  Slow = FALSE
  Stalls = FALSE
  MissLimit = 4
  MaxSilence = 6
SPECIFICATION FairSpec
INVARIANTS TypeOK AnswerIsOwn SilenceNoticed LossEndsReading
PROPERTIES LossFailsWaiters ReadingEnds ConsumerEnds CloseEnds
CHECK_DEADLOCK FALSE
