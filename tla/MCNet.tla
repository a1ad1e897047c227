-------------------------------- MODULE MCNet -------------------------------
(***************************************************************************)
(* The network for TLC: the receive and transmit rings of the e1000, ARP   *)
(* and routing, web sessions, socket calls, the DHCP and DNS clients and   *)
(* servers, a page fetched over TLS, the shell's clients and probes. A     *)
(* behaviour is one of the component in part.                              *)
(***************************************************************************)
EXTENDS NicTx, NicRx, Link, Auth, Sockets, DhcpClient, DnsClient, NetServers, TlsClient,
        NetClients, Probes, TLC

VARIABLE part      \* the component that runs in this behaviour

MCNet1 == "gw" :> 0 @@ "gx" :> 1 @@ "h" :> 0 @@ "far" :> 2
MCGw == 0 :> "gw" @@ 1 :> "gx"
MCAddr == "s" :> 5 @@ "t" :> 6

Init ==
  /\ part \in {"NicTx", "NicRx", "Link", "Auth", "Sockets", "DhcpClient",
               "DnsClient", "NetServers", "TlsClient", "NetClients", "Probes"}
  /\ TxInit /\ RxInit /\ LinkInit /\ AuthInit /\ SkInit /\ DcInit
  /\ DnsInit /\ NsInit /\ TcInit /\ NcInit /\ PrInit
  /\ part # "DhcpClient" => dcIp = 0
  /\ part # "NetServers" => nsNet = 1
  /\ part # "TlsClient" => peer.notify

Next ==
  \/ part = "NicTx" /\ NicTxNext
     /\ UNCHANGED <<part, rxVars, linkVars, authVars, skVars, dcVars, dnsVars, nsVars,
                    tcVars, ncVars, prVars>>
  \/ part = "NicRx" /\ NicRxNext
     /\ UNCHANGED <<part, txVars, linkVars, authVars, skVars, dcVars, dnsVars, nsVars,
                    tcVars, ncVars, prVars>>
  \/ part = "Link" /\ LinkNext
     /\ UNCHANGED <<part, txVars, rxVars, authVars, skVars, dcVars, dnsVars, nsVars,
                    tcVars, ncVars, prVars>>
  \/ part = "Auth" /\ AuthNext
     /\ UNCHANGED <<part, txVars, rxVars, linkVars, skVars, dcVars, dnsVars, nsVars,
                    tcVars, ncVars, prVars>>
  \/ part = "Sockets" /\ SkNext
     /\ UNCHANGED <<part, txVars, rxVars, linkVars, authVars, dcVars, dnsVars, nsVars,
                    tcVars, ncVars, prVars>>
  \/ part = "DhcpClient" /\ DcNext
     /\ UNCHANGED <<part, txVars, rxVars, linkVars, authVars, skVars, dnsVars, nsVars,
                    tcVars, ncVars, prVars>>
  \/ part = "DnsClient" /\ DnsNext
     /\ UNCHANGED <<part, txVars, rxVars, linkVars, authVars, skVars, dcVars, nsVars,
                    tcVars, ncVars, prVars>>
  \/ part = "NetServers" /\ NsNext
     /\ UNCHANGED <<part, txVars, rxVars, linkVars, authVars, skVars, dcVars, dnsVars,
                    tcVars, ncVars, prVars>>
  \/ part = "TlsClient" /\ TcNext
     /\ UNCHANGED <<part, txVars, rxVars, linkVars, authVars, skVars, dcVars, dnsVars,
                    nsVars, ncVars, prVars>>
  \/ part = "NetClients" /\ NcNext
     /\ UNCHANGED <<part, txVars, rxVars, linkVars, authVars, skVars, dcVars, dnsVars,
                    nsVars, tcVars, prVars>>
  \/ part = "Probes" /\ PrNext
     /\ UNCHANGED <<part, txVars, rxVars, linkVars, authVars, skVars, dcVars, dnsVars,
                    nsVars, tcVars, ncVars>>

netVars == <<part, txVars, rxVars, linkVars, authVars, skVars, dcVars, dnsVars, nsVars,
             tcVars, ncVars, prVars>>
Spec == Init /\ [][Next]_netVars

-----------------------------------------------------------------------------
(* Each property is asked of the behaviours of its component; in the others  *)
(* the component's variables do not change.                                  *)

(* As long as the interrupt does not send from inside the shell's            *)
(* e1000_tx_send_raw: what is on the wire is what was announced, in order    *)
(* and once, a call that returned 1 had its frame sent, and unless the ring  *)
(* once filled up it is never wedged. The indexes stay in the ring in any    *)
(* case.                                                                     *)
TxSound ==
  part = "NicTx" =>
    /\ TxTypeOK
    /\ TxFaithful
    /\ TxNoWedge

(* As long as the timer does not poll inside the shell's poll: the stack     *)
(* gets what the device took, in order and once, and a ring the driver has   *)
(* emptied has room for a frame. In any case a masked device has a poll      *)
(* scheduled, and the indexes stay in the ring.                              *)
RxSound ==
  part = "NicRx" =>
    /\ RxTypeOK
    /\ RxInOrder
    /\ RxNeverDeaf
    /\ RxNotLeftMasked

(* An address is cached once, with the MAC it announced last, and the        *)
(* gateway stays; a frame leaves by the device of its route, with its MAC,   *)
(* unless the interrupt handled a frame between ip4_output's choice and its  *)
(* use; every pbuf is freed once on each path.                               *)
LinkSound ==
  part = "Link" =>
    /\ LinkTypeOK
    /\ ArpTellsLatest /\ GatewayStays
    /\ LeavesByItsRoute
    /\ PbufsFreedOnce

(* recv returns the bytes that arrived, in order, although segments arrive   *)
(* while it moves the buffer down byte by byte, but for the window           *)
(* RecvFaithful names; a connection that connect opened never stays open     *)
(* with no socket naming it (close, process_free).                           *)
SocketsSound ==
  part = "Sockets" =>
    /\ SkTypeOK
    /\ RecvFaithful
    /\ NoOrphanConnection

(* Late, repeated and foreign answers are not taken for the one waited for,  *)
(* but for the cases the parts name: an address in use was granted to this   *)
(* machine or put back, a name's address is that name's, no two clients are  *)
(* told one address, and a source is authorised only while granted.          *)
GrantsRight ==
  /\ part = "DhcpClient" => DcTypeOK /\ LeaseWasGranted /\ FailureRestores
  /\ part = "DnsClient" => DnsTypeOK /\ AnswersTheQuestion
  /\ part = "NetServers" => NsTypeOK /\ LeasesApart
  /\ part = "Auth" => AuthTypeOK /\ AuthorisedOnlyWhileGranted

(* What the browser, wget, whois, nc, ping and traceroute show is what their *)
(* server or hop sent, in order, but for the cases the parts name; the       *)
(* browser announces all its room again, and wget and whois give their pcb   *)
(* back.                                                                     *)
ClientsShowAnswers ==
  /\ part = "TlsClient" => TcTypeOK /\ PageIsPrefix /\ ShortOnlyTheseWays /\ RoomAnnounced
  /\ part = "NetClients" => NcTypeOK /\ ShownIsAnswer /\ NcFreesItsPcb
  /\ part = "Probes" => PrTypeOK /\ PingCountsOwn /\ TraceAtDistance
=============================================================================
