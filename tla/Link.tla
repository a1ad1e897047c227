-------------------------------- MODULE Link ---------------------------------
(***************************************************************************)
(* Addresses and routes of the two interfaces: the ARP cache (src/src/arp.c), *)
(* IPv4 input, policy filter and output (ip4.c), Ethernet framing (eth.c),   *)
(* ICMP and UDP dispatch (icmp.c, udp.c).                                    *)
(* Frames are received in the interrupt, as one step; the shell sends with   *)
(* interrupts enabled, in steps.  The device a frame leaves on is a global.  *)
(***************************************************************************)
EXTENDS Integers, FiniteSets

CONSTANTS
  LinkNet,       \* peers' addresses to the interface their subnet is on; 2: on none
  LinkGw,        \* an interface to its gateway, a peer
  ArpSlots,      \* ARP_CACHE_SIZE
  LinkTicks      \* bound: pit_ticks

ASSUME LinkAssumption ==
  /\ LinkNet \in [DOMAIN LinkNet -> 0 .. 2]
  /\ LinkGw \in [{0, 1} -> DOMAIN LinkNet]
  /\ {"none", "bcast", "me1"} \cap DOMAIN LinkNet = {}
  /\ ArpSlots \in Nat /\ LinkTicks \in Nat

VARIABLES
  arpCache,      \* arp_cache: slot to address, MAC and last_tick
  defDev,        \* e1000_default_device
  if0Up,         \* interface 0 has its address (ajos_ip[0] # 0)
  linkNow,       \* pit_ticks
  linkOut,       \* the shell's packet between routing and e1000_tx_send_raw
  pbLive,        \* pbufs allocated and not yet freed
  linkWrong,     \* history: what was wrong with frames sent outside the race
  arpSaid,       \* history: the MAC each peer announced last
  gwKnown,       \* history: interface 0's gateway was once in the cache
  loopLost       \* history: an echo request to an address of ours found no answer

linkVars == <<arpCache, defDev, if0Up, linkNow, linkOut, pbLive,
              linkWrong, arpSaid, gwKnown, loopLost>>

Peers  == DOMAIN LinkNet
Neighbours == {p \in Peers : LinkNet[p] < 2}
Macs   == {1, 2}
Own    == {"me0", "me1"}
NoOut  == [at |-> "idle"]
NoSlot == [ip |-> "none", mac |-> 0, tick |-> 0]

LinkInit ==
  /\ arpCache = [i \in 1 .. ArpSlots |-> NoSlot]
  /\ defDev = 0 /\ if0Up = FALSE
  /\ linkNow = 0 /\ linkOut = NoOut /\ pbLive = 0
  /\ linkWrong = {}
  /\ arpSaid = [p \in Peers |-> 0] /\ gwKnown = FALSE
  /\ loopLost = FALSE

(* arp_update_cache: the address's own entry, else a free one, else the      *)
(* least recently refreshed (the last of them) that is not the gateway's.    *)
Keeps(i) == arpCache[i].ip = LinkGw[0]
ArpVictim ==
  LET may == {i \in DOMAIN arpCache : ~Keeps(i)}
      old == {i \in may : \A j \in may : arpCache[i].tick <= arpCache[j].tick}
  IN  IF may = {} THEN 0 ELSE CHOOSE i \in old : \A j \in old : j <= i
ArpSlotFor(ip) ==
  LET own  == {i \in DOMAIN arpCache : arpCache[i].ip = ip}
      free == {i \in DOMAIN arpCache : arpCache[i] = NoSlot}
      pick == IF own # {} THEN own ELSE free
  IN  IF pick # {} THEN CHOOSE i \in pick : \A j \in pick : i <= j ELSE ArpVictim
arp_update_cache(ip, mac) ==
  LET i == ArpSlotFor(ip)
  IN  IF i = 0 THEN arpCache
      ELSE [arpCache EXCEPT ![i] = [ip |-> ip, mac |-> mac, tick |-> linkNow]]
MacOf(ip) == {arpCache[i].mac : i \in {j \in DOMAIN arpCache : arpCache[j].ip = ip}}

(* ip4_policy_filter: authorised sources (auth_is_authenticated, see Auth),  *)
(* anything for interface 0's address, the ports of DHCP, DNS, HTTP and SSH  *)
(* ("open").                                                                 *)
Filter(what, dst) ==
  what = "authed" \/ (dst = "me0" /\ if0Up) \/ what = "open"
(* the destinations ip4_input then accepts; interface 1 always has an address *)
ForUs(dst) == dst \in {"me1", "bcast", "lo"} \/ (dst = "me0" /\ if0Up)

(* ip4_output: the interface whose subnet holds the destination, 0 by        *)
(* default, 1 if only 1 has an address; off the subnet by way of its gateway. *)
Route(dst) ==
  LET net == IF dst \in Peers THEN LinkNet[dst] ELSE IF dst = "me1" THEN 1 ELSE 0
      r   == IF net = 1 THEN 1 ELSE 0
  IN  IF r = 0 /\ ~if0Up THEN 1 ELSE r
SrcOf(r) == IF r = 1 THEN "me1" ELSE "me0"
NextHop(dst) == IF LinkNet[dst] = Route(dst) THEN dst ELSE LinkGw[Route(dst)]

(* The device is chosen before the MAC is looked up; a broadcast leaves on   *)
(* whatever device is current.                                               *)
DevFor_Kept(dst) == defDev                       \* mutant: the device is not chosen
DevFor(dst) == IF dst = "bcast" THEN defDev ELSE Route(dst)

(* What is wrong with a frame sent on dev with the MAC of NIC smac, for the  *)
(* next hop of a packet to dst.                                              *)
Faults(dst, hop, dev, smac, want) ==
  (IF dev # want THEN {"device"} ELSE {}) \cup (IF smac # dev THEN {"mac"} ELSE {})
  \cup (IF LinkNet[hop] = want \/ (LinkNet[dst] # want /\ hop = LinkGw[want]) THEN {} ELSE {"hop"})

(* A whole ip4_output in the interrupt: sent, or an ARP request in its place. *)
AnswerTo(ip) ==
  /\ defDev' = DevFor(ip)
  /\ linkWrong' = linkWrong \cup Faults(ip, NextHop(ip), defDev', defDev', Route(ip))

(* icmp_input: an echo request goes back to its source; udp_input: so does a *)
(* datagram for port 7.  Replies and other datagrams end here.               *)
icmp_input(src, proto) == proto = "ping" /\ AnswerTo(src)
udp_input(src, proto)  == proto = "echo7" /\ AnswerTo(src)
Consumed(proto) == proto = "data" /\ UNCHANGED <<defDev, linkWrong>>

Mid == linkOut.at # "idle"
Interrupted == IF Mid THEN [linkOut EXCEPT !.raced = TRUE] ELSE linkOut

(* ethernet_input and arp_input: the cache learns from every packet; a       *)
(* request for one of our addresses is answered on the device it came in by. *)
ArpPbuf(op, forUs) == 0
ReplyDev(dev) == dev
arp_input(src, mac, op, dst, dev) ==
  LET forUs == dst = "me1" \/ (dst = "me0" /\ if0Up)
  IN  /\ arpCache' = arp_update_cache(src, mac)
      /\ arpSaid' = [arpSaid EXCEPT ![src] = mac]
      /\ gwKnown' = (gwKnown \/ \E i \in DOMAIN arpCache' : arpCache'[i].ip = LinkGw[0])
      /\ pbLive' = pbLive + ArpPbuf(op, forUs)
      /\ IF forUs /\ op # "reply" THEN defDev' = ReplyDev(dev) ELSE UNCHANGED defDev
      /\ linkWrong' = IF forUs /\ op = "request" /\ defDev' # dev
                        THEN linkWrong \cup {"reply"} ELSE linkWrong
      /\ linkOut' = Interrupted
      /\ UNCHANGED <<if0Up, linkNow, loopLost>>

(* ethernet_input, ip4_input, and icmp_input, udp_input or tcp_input.  An    *)
(* echo request and a datagram for port 7 go back to their source.  What     *)
(* happens to a packet depends on its filter class and destination only in   *)
(* whether it gets that far.                                                 *)
Packets == {"authed", "open", "ping"} \X (Own \cup {"bcast", "other"})
Accepted == {k \in Packets : Filter(k[1], k[2]) /\ ForUs(k[2])}
ip4_input(src, proto) ==
  /\ linkOut' = Interrupted
  /\ \/ Accepted # {} /\ (icmp_input(src, proto) \/ udp_input(src, proto) \/ Consumed(proto))
     \/ Accepted # Packets /\ UNCHANGED <<defDev, linkWrong>>
  /\ UNCHANGED <<arpCache, if0Up, linkNow, pbLive, arpSaid, gwKnown, loopLost>>

(* The shell's ip4_output up to the choice of device; a packet for one of    *)
(* our own addresses goes to ip4_input and is answered the same way.         *)
ShellRoutes(dst) ==
  /\ ~Mid
  /\ defDev' = DevFor(dst)
  /\ linkOut' = [at |-> "routed", dst |-> dst, hop |-> IF dst = "bcast" THEN dst ELSE NextHop(dst),
                 want |-> IF dst = "bcast" THEN 2 ELSE Route(dst), smac |-> 2, raced |-> FALSE]
  /\ pbLive' = pbLive + 1
  /\ UNCHANGED <<arpCache, if0Up, linkNow, linkWrong, arpSaid, gwKnown, loopLost>>
ShellLoops(dst) ==
  LET r   == Route(dst)
      src == SrcOf(r)
  IN  /\ ~Mid /\ dst \in Own \cup {"lo"} /\ dst = "me0" => if0Up
      /\ loopLost' = (loopLost \/ ~(Filter("ping", dst) /\ ForUs(dst)
                                     /\ Filter("ping", src) /\ ForUs(src)))
      /\ UNCHANGED <<arpCache, defDev, if0Up, linkNow, linkOut, pbLive,
                     linkWrong, arpSaid, gwKnown>>

(* ... the MAC: with none, arp_query asks (if a pbuf is had) and the packet  *)
(* is dropped; otherwise ethernet_output writes the source MAC ...           *)
ShellResolves(mem) ==
  /\ linkOut.at = "routed"
  /\ IF linkOut.dst = "bcast" \/ MacOf(linkOut.hop) # {}
       THEN /\ linkOut' = [linkOut EXCEPT !.at = "framed", !.smac = defDev]
            /\ UNCHANGED <<linkWrong, pbLive>>
       ELSE /\ linkOut' = NoOut
            /\ pbLive' = pbLive - 1
            /\ linkWrong' = IF mem /\ ~linkOut.raced
                              THEN linkWrong \cup Faults(linkOut.dst, linkOut.hop, defDev, defDev, linkOut.want)
                              ELSE linkWrong
  /\ UNCHANGED <<arpCache, defDev, if0Up, linkNow, arpSaid, gwKnown, loopLost>>

(* ... and e1000_tx_send_raw reads the device again.                         *)
FramePbuf == 1
ShellSends ==
  /\ linkOut.at = "framed"
  /\ linkWrong' = IF linkOut.raced \/ linkOut.dst = "bcast" THEN linkWrong
       ELSE linkWrong \cup Faults(linkOut.dst, linkOut.hop, defDev, linkOut.smac, linkOut.want)
  /\ linkOut' = NoOut
  /\ pbLive' = pbLive - FramePbuf
  /\ UNCHANGED <<arpCache, defDev, if0Up, linkNow, arpSaid, gwKnown, loopLost>>

(* DHCP or netcfg gives interface 0 its address, or takes it away.           *)
SetIf0 ==
  /\ ~Mid /\ if0Up' = ~if0Up
  /\ UNCHANGED <<arpCache, defDev, linkNow, linkOut, pbLive, linkWrong, arpSaid,
                 gwKnown, loopLost>>

LinkTick ==
  /\ linkNow < LinkTicks
  /\ linkNow' = linkNow + 1
  /\ UNCHANGED <<arpCache, defDev, if0Up, linkOut, pbLive, linkWrong, arpSaid,
                 gwKnown, loopLost>>

LinkNext ==
  \/ \E p \in Neighbours, mac \in Macs, op \in {"request", "reply"}, dst \in Own \cup {"other"},
        dev \in {0, 1} : arp_input(p, mac, op, dst, dev)
  \/ \E p \in Peers, proto \in {"ping", "echo7", "data"} : ip4_input(p, proto)
  \/ \E p \in Peers : ShellRoutes(p)
  \/ ShellRoutes("bcast")
  \/ \E dst \in Own \cup {"lo"} : ShellLoops(dst)
  \/ \E mem \in BOOLEAN : ShellResolves(mem)
  \/ ShellSends \/ SetIf0 \/ LinkTick

(* The cache holds peers only, a device is 0 or 1.                           *)
LinkTypeOK ==
  /\ \A i \in DOMAIN arpCache : arpCache[i].ip \in Peers \cup {"none"} /\ arpCache[i].tick <= linkNow
  /\ defDev \in {0, 1}
  /\ linkOut.at \in {"idle", "routed", "framed"}

(* An address is in the cache once, with the MAC it announced last, so that  *)
(* arp_get_mac_for_ip, which stops at the first entry, is never out of date. *)
ArpTellsLatest ==
  /\ \A i, j \in DOMAIN arpCache :
        (arpCache[i].ip = arpCache[j].ip /\ arpCache[i].ip # "none") => i = j
  /\ \A i \in DOMAIN arpCache : arpCache[i].ip # "none" => arpCache[i].mac = arpSaid[arpCache[i].ip]

(* Once learned, interface 0's gateway stays in the cache however many       *)
(* neighbours announce themselves (arp_update_cache).                        *)
GatewayStays == gwKnown => MacOf(LinkGw[0]) # {}

(* A unicast frame leaves on the device of its route, with that device's MAC *)
(* and for the right next hop, unless the interrupt handled a frame while    *)
(* the shell was between ip4_output's choice and e1000_tx_send_raw's use of  *)
(* it.                                                                       *)
LeavesByItsRoute == linkWrong = {}

(* Every pbuf is freed once on each path: none is left but the shell's.      *)
PbufsFreedOnce == pbLive = IF Mid THEN 1 ELSE 0

(* ip4.c:310: our own addresses loop back locally, so an echo request to one *)
(* is answered.                                                              *)
OwnAddressAnswers == ~loopLost
=============================================================================
