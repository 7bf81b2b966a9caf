SPECIFICATION Spec
CONSTANTS
  Data = {d1, d2}
  Junk = Junk
  Size = 3
  MaxSize = 4
  CI_BODY_MAX_MEM = 2
  MaxStore = 3
  MaxUnits = 5
  MaxLen = 3
  IoFailures = TRUE
  CacheThreads = {t1, t2}
  CacheKeys = {"k1", "k2"}
  CacheValues = {1, 2}
  CacheHash <- MCCacheHash
  Items = 2
  CacheTTL = 2
  CacheMaxTime = 6
  NoKey = NoKey
  NoVal = NoVal
  MtxThreads = {"a1", "a2", "b"}
  ProcOf <- MCProcOf
  Mutexes = {"m1", "m2"}
  TableSize = 2
  LockingSchemes = {"sysv", "posix", "file", "pthread"}
  Free = Free
  BufSizes = {1024, 1025, 32768, 32769}
  MaxBlocks = 3
  SerialSizes = {100, 32768, 32776}
  PieceSizes = {1, 16, 24, 88, 96, 32736, 32744}
  PackSize = 60
  MaxPieces = 4
  SerialHeader = 32
  AllocatorSize = 56
  ListItems = {1, 2}
  MaxNodes = 3
  VecSize = 19
  ALIGN = 2
  ItemSizes = {1, 3}
  HdrNames = {"a", "b"}
  HdrLines <- MCHdrLines
  MaxHdrs = 3
  NULL = NULL
  Garbage = Garbage
  ServiceMethods <- MCServiceMethods
  ServiceAliases <- MCServiceAliases
  DefaultService = "echo"
  NoService = "none"
  RequestLines <- MCRequestLines
  Messages <- MCMessages
  MaxEdits = 2
  MaxMessages = 2
  TmplThreads = {t1, t2, t3}
  Languages = {"el", "en"}
  TEMPLATE_DEF_LANG = "en"
  AcceptLanguages <- MCAcceptLanguages
  TEMPLATE_CACHE_SIZE = 2
  MaxVersion = 2
  MaxBuilds = 3
  LogWorkers = {w1, w2}
  LogNames = {"f"}
  FormatNames = {"n"}
  MaxLogLines = 2
  MaxLogReads = 2
  MaxOpened = 7
  NoFile = 0
  LdapThreads = {w1, w2}
  LdapUris <- MCLdapUris
  NoUser = NoUser
  LdapKeys = {"k"}
  Directory <- MCDirectory
  NoRow = "norow"
  MaxTries = 3
  Limits = {1}
  MaxPools = 2
  MaxConns = 2
  LdapMaxTime = 2
  SocketRoom = 1
  ReadSize = 2
  MaxNetUnits = 3
INVARIANTS GivenInOrder LocalSearchIsLatest MutexSound
  MemoryIsOwn ContainersAreSequences HeadersAreLines MessageIsOfRequest
  TemplatesHeld LogsToOpenFiles PoolsExact TransfersExact
PROPERTY RingIsFifo
CHECK_DEADLOCK FALSE
