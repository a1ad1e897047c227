------------------------------ MODULE NetServers -----------------------------
(***************************************************************************)
(* The DHCP server (src/src/dhcpd.c) and the DNS server (src/src/dnsd.c),    *)
(* with the pbufs of the packets they handle: the one received, which        *)
(* udp_input hands over, and the reply, which udp_output consumes.           *)
(* Addresses are a subnet and a number in it.                                *)
(***************************************************************************)
EXTENDS Integers, FiniteSets

CONSTANTS
  NsMacs,        \* clients
  NsLeases,      \* MAX_LEASES
  NsPool,        \* addresses of the pool, from the first
  NsNets,        \* subnets our own address may be on
  NsPackets      \* bound: packets handled

ASSUME NsAssumption ==
  /\ NsLeases \in Nat /\ NsPool \in Nat /\ NsPackets \in Nat
  /\ "none" \notin NsMacs

VARIABLES
  leases,        \* leases: slot to client and address, or free
  nsNet,         \* our subnet (arp_get_ajos_ip)
  nsPool,        \* the subnet config's pool is on
  nsCount,       \* packets so far
  nsGiven,       \* history: the addresses each client was told
  nsLeft,        \* history: pbufs nobody will free
  nsTwice        \* history: pbufs freed twice

nsVars == <<leases, nsNet, nsPool, nsCount, nsGiven, nsLeft, nsTwice>>

NoLease == [mac |-> "none", ip |-> <<0, 0>>]

(* dhcpd_init *)
NsInit ==
  /\ nsNet \in NsNets /\ nsPool = nsNet
  /\ leases = [i \in 1 .. NsLeases |-> NoLease]
  /\ nsCount = 0 /\ nsGiven = [m \in NsMacs |-> {}] /\ nsLeft = 0 /\ nsTwice = 0

(* dhcpd_find_lease: the client's own, else the first free slot, whose       *)
(* number gives the address if it is in the pool.                            *)
LeaseAddr(i) == <<nsPool, i>>
LeaseOf(mac) ==
  LET own  == {i \in DOMAIN leases : leases[i].mac = mac}
      free == {i \in DOMAIN leases : leases[i] = NoLease}
      pick == IF own # {} THEN own ELSE free
  IN  IF pick # {} THEN CHOOSE i \in pick : \A j \in pick : i <= j ELSE 0
dhcpd_find_lease(mac) ==
  LET i == LeaseOf(mac)
  IN  IF i = 0 \/ (leases[i] = NoLease /\ i > NsPool) THEN <<0, leases>>
      ELSE IF leases[i].mac = mac THEN <<i, leases>>
      ELSE <<i, [leases EXCEPT ![i] = [mac |-> mac, ip |-> LeaseAddr(i)]]>>

(* dhcpd_handle_packet: a DISCOVER is answered on interface 0 only, a        *)
(* REQUEST on either.  The packet is not freed; dhcpd_send_reply frees the   *)
(* reply that udp_output has freed.  mem: a pbuf for the reply was had.      *)
dhcpd_handle_packet(type, mac, dev, mem) ==
  LET serve == type = "REQUEST" \/ (type = "DISCOVER" /\ dev = 0)
      r == dhcpd_find_lease(mac)
      reply == serve /\ r[1] # 0 /\ mem
  IN  /\ nsCount < NsPackets /\ nsCount' = nsCount + 1
      /\ leases' = IF serve THEN r[2] ELSE leases
      /\ nsGiven' = IF reply THEN [nsGiven EXCEPT ![mac] = @ \cup {r[2][r[1]].ip}] ELSE nsGiven
      /\ nsLeft' = nsLeft + 1
      /\ nsTwice' = IF reply THEN nsTwice + 1 ELSE nsTwice
      /\ UNCHANGED <<nsNet, nsPool>>

(* dnsd_handle_packet: a single question is answered with our address.  The  *)
(* query is not freed, the reply only by udp_output.                         *)
dnsd_handle_packet(query, mem) ==
  /\ nsCount < NsPackets /\ nsCount' = nsCount + 1
  /\ nsLeft' = nsLeft + 1
  /\ UNCHANGED <<leases, nsNet, nsPool, nsGiven, nsTwice>>

(* Our address changes; netcfg's "ip" line calls dhcpd_reinit, the DHCP      *)
(* client does not.  Leases stay as they are.                                *)
NewAddress(net, reinit) ==
  /\ net # nsNet /\ nsNet' = net
  /\ nsPool' = IF reinit THEN net ELSE nsPool
  /\ UNCHANGED <<leases, nsCount, nsGiven, nsLeft, nsTwice>>

NsNext ==
  \/ \E type \in {"DISCOVER", "REQUEST", "other"}, mac \in NsMacs, dev \in {0, 1}, mem \in BOOLEAN :
        dhcpd_handle_packet(type, mac, dev, mem)
  \/ \E query, mem \in BOOLEAN : dnsd_handle_packet(query, mem)
  \/ \E net \in NsNets, reinit \in BOOLEAN : NewAddress(net, reinit)

(* A lease in use is a client's, with an address of the pool.                *)
NsTypeOK ==
  \A i \in DOMAIN leases : leases[i] = NoLease \/
     (leases[i].mac \in NsMacs /\ leases[i].ip[1] \in NsNets /\ leases[i].ip[2] \in 1 .. NsPool)

(* No two clients are told the same address, and a client is told the same   *)
(* one every time, whatever packets are repeated or reordered.               *)
LeasesApart ==
  /\ \A m, n \in NsMacs : m # n => nsGiven[m] \cap nsGiven[n] = {}
  /\ \A m \in NsMacs : Cardinality(nsGiven[m]) <= 1

(* dnsd.c:134: udp_output frees the pbuf it is given, so nobody else does.   *)
RepliesFreedOnce == nsTwice = 0
=============================================================================
