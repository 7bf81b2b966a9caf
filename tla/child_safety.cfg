SPECIFICATION Spec
CONSTANTS
  Workers = {w1}
  Conns = {c1, c2, c3}
  NoConn = NoConn
  MAX_KEEPALIVE_REQUESTS = 1
  MaxRequests = 2
  ShutdownTimeout = 1
  OtherChildren = TRUE
  Spurious = TRUE
  Failures = TRUE
SYMMETRY WorkerSymmetry
INVARIANTS
  TypeOK
  ConnOwnedOnce
  UsedServersExact
  AcceptMutexHeld
  WorkersJoined
