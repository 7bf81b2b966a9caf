SPECIFICATION FairSpec
CONSTANTS
  Pids = {p1, p2}
  NoPid = NoPid
  MAX_SERVERS = 1
  START_SERVERS = 1
  THREADS_PER_CHILD = 1
  MIN_SPARE_THREADS = 0
  MAX_SPARE_THREADS = 1
  MAX_REQUESTS_PER_CHILD = 1
  MaxReconfigures = 0
  MaxCrashes = 1
  Failures = FALSE
PROPERTIES
  ChildrenEnd
  ChildrenReplaced
CHECK_DEADLOCK FALSE
