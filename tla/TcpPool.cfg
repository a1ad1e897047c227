CONSTANTS
  l = l  p1 = p1  p2 = p2  q1 = q1  q3 = q3
  Pcbs = {l, p1}
  Listens <- SshListener
  Clients = {q1}
  Servers = {q3}
  PortOf <- AllSsh
  SeqMod = 16
  AcceptIsn = 6
  ConnectIsn = 1
  PeerIsn = 14
  RxMax = 2
  MSS = 1
  RtxDataMax = 1
  RtxMax = 1
  PeerBuf = 2
  Sizes = {1}
  MaxIn <- OneEach
  MaxOut <- ToServers
SPECIFICATION FairSpec
CHECK_DEADLOCK FALSE
INVARIANTS SendSpaceRight
PROPERTIES HalfOpenEnds
