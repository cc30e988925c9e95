CONSTANTS
  a = a
  b = b
  s = s
  t = t
  Requests = {a, b}
  Servers = {s, t}
  Processor = Processor
  Nothing = Nothing
  OneWay = {b}
  Limit = 1
  Blocks = TRUE
  MaxStops = 1
SPECIFICATION FairSpec
INVARIANTS TypeOK HeldIsHandled
PROPERTIES ImplementsWorkQueue RequestSettles
CHECK_DEADLOCK FALSE
