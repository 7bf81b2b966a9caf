SPECIFICATION FairSpec
CONSTANTS
  Requests <- AllRequests
  Configurations <- OneOff
  MaxRequests = 2
  MaxData = 2
  MAX_CHUNK_SIZE = 2
  RingSize = 2
  PipeliningClient = FALSE
  EagerServices = FALSE
INVARIANTS InSync OneResponse BodyInOrder ResponseComplete
PROPERTIES RequestEnds
