SPECIFICATION Spec
CONSTANTS
  Requests <- AllowRequests
  Configurations <- OneOff
  MaxRequests = 1
  MaxData = 1
  MAX_CHUNK_SIZE = 2
  RingSize = 2
  PipeliningClient = FALSE
  EagerServices = TRUE
INVARIANTS OneResponse
