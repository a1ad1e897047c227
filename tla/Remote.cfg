SPECIFICATION Spec
CHECK_DEADLOCK FALSE
CONSTANTS
  SshPending = 2
  SshWindow = 1
  SshCredit = 2
  SshLines = 3
  SshOutputs = 2
  SshAdjusts = 1
  SshExec = TRUE
  SshOther = TRUE
  SlSlots = 2
  SlPcbs = 2
  SlConns = 3
  SfConns = {"c1"}
  SfSlots = 1
  SfHandles = 1
  SfNames = {"a", "b"}
  SfFlags = {{"W", "T", "C"}, {"W", "A"}}
  SfMaxFile = 2
  SfRxMax = 1
  SfDelta = 1
  SfOpens = 1
  SfChanges = 2
  TlsConns = {1, 2}
  TlsParts = 2
  TlsTickets = 1
  P64Slots = 3
  P64Frames = 6
  P64Pids = 3
  P64Ticks = 1
  P64Steps = 1
  T64Clients = {"c", "d"}
  T64Conns = 3
  T64Page = 3
  T64RxCap = 2
  T64Request = 2
  T64SrvCap = 3
  T64Retries = 2
INVARIANTS
  SshSound
  SshSlotsSound
  
  HttpsSound
  
  Tcp64Sound

  
