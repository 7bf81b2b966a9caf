SPECIFICATION Spec
CONSTANTS
  Pids = {p1, p2, p3}
  NoPid = NoPid
  MAX_SERVERS = 1
  START_SERVERS = 1
  THREADS_PER_CHILD = 1
  MIN_SPARE_THREADS = 0
  MAX_SPARE_THREADS = 1
  MAX_REQUESTS_PER_CHILD = 0
  MaxReconfigures = 1
  MaxCrashes = 1
  Failures = TRUE
SYMMETRY PidSymmetry
INVARIANT SlotsAreChildren
PROPERTY DestroyedUnused
CHECK_DEADLOCK FALSE
