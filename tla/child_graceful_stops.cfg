SPECIFICATION FairSpec
CONSTANTS
  Workers = {w1}
  Conns = {c1}
  NoConn = NoConn
  MAX_KEEPALIVE_REQUESTS = 1
  MaxRequests = 1
  ShutdownTimeout = 0
  OtherChildren = TRUE
  Spurious = FALSE
  Failures = FALSE
PROPERTY GracefulStops
