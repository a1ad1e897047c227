SPECIFICATION Spec
CHECK_DEADLOCK FALSE
CONSTANTS
  TxRing = 3
  TxFrames = 5
  RxRing = 3
  RxFrames = 3
  RxBudget = 2
  RxStuckMax = 2
  RxZeroMax = 2
  LinkNet <- MCNet1
  LinkGw <- MCGw
  ArpSlots = 2
  LinkTicks = 1
  AuthPeers = {"a", "b", "c"}
  AuthSlots = 2
  AuthTimeout = 1
  AuthTicks = 4
  SkPids = {1, 2}
  SkFds = 2
  SkPcbs = 2
  SkRxCap = 2
  SkConns = 1
  SkBytes = 3
  DcServers = {"s", "t"}
  DcAddr <- MCAddr
  DcAttempts = 2
  DcCommands = 1
  DnsNames = {"a", "b"}
  DnsQueries = 4
  NsMacs = {"m", "n", "o"}
  NsLeases = 3
  NsPool = 2
  NsNets = {1, 2}
  NsPackets = 5
  TcPage = 4
  TcCap = 3
  TcRxMax = 6
  NcPcbs = 2
  NcConns = 2
  NcAnswer = 3
  NcHead = 1
  NcRxCap = 2
  PrDests = {"a", "b"}
  PrFar = 2
  PrHops = 2
  PrProbes = 1
  PrPings = 1
  PrRuns = 2
  PrTicks = 3
INVARIANTS
  TxSound
  
  LinkSound
  
  
  ClientsShowAnswers
