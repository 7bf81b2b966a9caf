SPECIFICATION FairSpec
CONSTANTS
  Workers = {w1}
  Conns = {c1, c2}
  NoConn = NoConn
  MAX_KEEPALIVE_REQUESTS = 1
  MaxRequests = 1
  ShutdownTimeout = 0
  OtherChildren = FALSE
  Spurious = FALSE
  Failures = FALSE
PROPERTIES
  QueueDrains
  ListenerWoken
  FatherHeard
  ImmediateStops
CHECK_DEADLOCK FALSE
