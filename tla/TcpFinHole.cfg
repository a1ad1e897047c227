CONSTANTS
  l = l  p1 = p1  p2 = p2  q1 = q1  q3 = q3
  Pcbs = {l, p1}
  Listens <- AppListener
  Clients = {q1}
  Servers = {}
  PortOf <- AllApp
  SeqMod = 16
  AcceptIsn = 6
  ConnectIsn = 1
  PeerIsn = 14
  RxMax = 2
  MSS = 1
  RtxDataMax = 1
  RtxMax = 1
  PeerBuf = 2
  Sizes = {1, 2}
  MaxIn <- TwoEach
  MaxOut <- TwoEach
SPECIFICATION Spec
CHECK_DEADLOCK FALSE
INVARIANTS ClosedIsDelivered
