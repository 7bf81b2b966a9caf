SPECIFICATION Spec
CONSTANTS
  ShProcs = {p1, p2}
  ShKeys = {"k1", "k2"}
  ShValues = {1, 2}
  ShHash <- MCShHash
  PageSize = 2
  Pages = 1
  ShTTL = 1
  ShMaxTime = 2
  NoShKey = NoShKey
  Torn = Torn
  StatNames = {"la", "lb"}
  StatType <- MCStatType
  StatSlots = 2
  StatMod = 4
  MaxEntries = 2
  MaxAdded = 2
  MaxStarted = 2
  HistoSpecs <- MCHistoSpecs
  HistoValues = {0, 1, 2, 3, 4, 5, 6, 7, 8, 9, 10, 11, 12, 31}
  MaxUpdates = 2
  CmdNames = {ca}
  CmdTypes = {ondemand, monitor}
  LoopType = ondemand
  CmdThreads = {w1}
  MainThread = main
  QueueNodes = 3
  CmdMaxTime = 1
  MaxPushed = 2
  NoNode = NoNode
  NoCmd = NoCmd
  ConfParams = {p1}
  ConfValues = {1, 2}
  ServiceNames = {echo, clam}
  AliasNames = {av, clam}
  AliasArgs = {x}
  STEP = 3
  MaxLines = 4
  MaxReads = 2
  Unset = Unset
  NoVals = NoVals
  RowHash <- MCRowHash
  AclLines <- MCAclLines
  AccessLines <- MCAccessLines
  GroupLines <- MCGroupLines
  AclRequests <- MCAclRequests
  UsersDb <- MCUsersDb
  RemoteUsers = FALSE
  MaxConfLines = 4
  MaxConfs = 2
  NoData = NoData
  BadValue = BadValue
  BodyLen = 2
  Previews <- MCPreviews
  Responses <- MCResponses
  MaxChunk = 1
  NetRoom = 3
  MaxClientReqs = 2
  Shorts = TRUE
  NoBytes = NoBytes
  Libraries <- MCLibraries
  LoggerLines <- MCLoggerLines
  ControllerLines <- MCControllerLines
  AuthLines <- MCAuthLines
  MaxModLines = 4
  MaxModReads = 2
  Null = Null
  PortLines <- MCPortLines
  BadCerts = {"bad"}
  NoCert = "none"
  MaxPorts = 2
  MaxConfigs = 2
  SIXTY = 4
  HourSlots = 2
  BACKSECS = 2
  LongWindows <- MCLongWindows
  MaxKids = 1
  MaxPerSecond = 1
  MaxSeconds = 7
  StatServices = {"s1", "s2"}
  NoStatService = "none"
  Durations = {2, 5}
  MaxProcessed = 4
INVARIANTS SharedHitIsLatest StatsConserved BinsTellValues RequestsRunOnce
  ReconfiguredAsFresh AccessAsWritten ClientRelays
  SelectedAreLoaded PortsAsConfigured ReportsTellTheTruth
CHECK_DEADLOCK FALSE
