------------------------------ MODULE NetProofs -----------------------------
(***************************************************************************)
(* Proofs about the network for every value of the constants: the ARP      *)
(* cache, routing and pbufs of Link, the parties that grant something and  *)
(* those that are granted it (Auth, NetServers, DhcpClient, DnsClient),    *)
(* and the rings of the e1000, NicRx and NicTx.  Each component has its    *)
(* inductive invariant; a behaviour of MCNet is one of the component in    *)
(* part, whose invariant it keeps.                                         *)
(***************************************************************************)
EXTENDS MCNet, WellFoundedInduction, FiniteSetTheorems, TLAPS

(* The least number principle for sets, which needs no induction over an     *)
(* operator: the order of the naturals is well founded.                      *)
LEMMA LeastNat ==
  ASSUME NEW S \in SUBSET Nat, S # {}
  PROVE  \E m \in S : \A k \in S : m <= k
<1>1. PICK R : R = {p \in Nat \X Nat : p[1] < p[2]}
  OBVIOUS
<1>2. IsWellFoundedOn(R, Nat)
  BY <1>1, NatLessThanWellFounded DEF OpToRel
<1>3. PICK m \in S : \A k \in S : ~ (<<k, m>> \in R)
  BY <1>2, WFMin
<1>4. ASSUME NEW k \in S PROVE m <= k
  <2>1. k \in Nat /\ m \in Nat
    OBVIOUS
  <2>2. <<k, m>> \in Nat \X Nat /\ <<k, m>>[1] = k /\ <<k, m>>[2] = m
    BY <2>1
  <2>3. ~(k < m)
    BY <1>1, <1>3, <2>2, Zenon
  <2> QED BY <2>1, <2>3
<1> QED BY <1>4

(* A nonempty set of slots has a first one and a last one: what the loops    *)
(* that stop at a match return, written CHOOSE in the modules.               *)
LEMMA FirstOf ==
  ASSUME NEW n \in Nat, NEW S \in SUBSET (1 .. n), S # {}
  PROVE  \E i \in S : /\ i = (CHOOSE k \in S : \A j \in S : k <= j)
                      /\ \A j \in S : i <= j
<1>1. S \in SUBSET Nat
  OBVIOUS
<1>2. \E k \in S : \A j \in S : k <= j
  BY <1>1, LeastNat
<1> QED BY <1>2

LEMMA LastOf ==
  ASSUME NEW n \in Nat, NEW S \in SUBSET (1 .. n), S # {}
  PROVE  \E i \in S : /\ i = (CHOOSE k \in S : \A j \in S : j <= k)
                      /\ \A j \in S : j <= i
<1>1. PICK D : D = {n - i : i \in S}
  OBVIOUS
<1>2. D \in SUBSET Nat /\ D # {}
  <2>1. \A i \in S : i \in 1 .. n /\ n - i \in Nat
    OBVIOUS
  <2>2. D \in SUBSET Nat
    BY <1>1, <2>1
  <2> QED BY <1>1, <2>2
<1>3. PICK d \in D : \A e \in D : d <= e
  BY <1>2, LeastNat
<1>4. PICK k \in S : d = n - k
  BY <1>1, <1>3
<1>5. ASSUME NEW j \in S PROVE j <= k
  <2>0. j \in 1 .. n /\ k \in 1 .. n
    OBVIOUS
  <2>1. n - j \in D /\ j \in Nat /\ k \in Nat
    BY <1>1, <2>0
  <2>2. d <= n - j
    BY <1>3, <2>1
  <2> QED BY <1>4, <2>0, <2>2
<1> QED BY <1>5

-----------------------------------------------------------------------------
(* Auth: a session in use is of an address that logged in, last seen no      *)
(* later than the history has it.                                            *)
SessionType == [ip : AuthPeers \cup {"none"}, seen : Nat]
Timely == \A i \in 1 .. AuthSlots : sessions[i].seen <= authNow
OneEach ==
  \A i, j \in 1 .. AuthSlots :
     sessions[i].ip = sessions[j].ip /\ sessions[i].ip # "none" => i = j
Earned ==
  \A i \in 1 .. AuthSlots : sessions[i].ip # "none" =>
     sessions[i].ip \in granted /\ sessions[i].seen <= active[sessions[i].ip]
AuthTypes ==
  /\ sessions \in [1 .. AuthSlots -> SessionType]
  /\ authNow \in Nat /\ granted \in SUBSET AuthPeers /\ active \in [AuthPeers -> Nat]
AuthRight == AuthTypes /\ Timely /\ OneEach /\ Earned

LEMMA AuthStarts == AuthInit => AuthRight
BY AuthAssumption DEF AuthInit, AuthRight, AuthTypes, Timely, OneEach, Earned, SessionType, Free

LEMMA AuthSlotRight ==
  ASSUME AuthRight, NEW ip \in AuthPeers, AuthSlotFor(ip) # 0
  PROVE  /\ AuthSlotFor(ip) \in 1 .. AuthSlots
         /\ AuthOf(ip) # {} => AuthSlotFor(ip) \in AuthOf(ip)
<1> DEFINE own  == AuthOf(ip)
           free == {i \in DOMAIN sessions : sessions[i] = Free}
           idle == {i \in DOMAIN sessions : ~Live(i)}
           pick == IF own # {} THEN own ELSE IF free # {} THEN free ELSE idle
<1>1. DOMAIN sessions = 1 .. AuthSlots
  BY DEF AuthRight, AuthTypes
<1>2. pick \in SUBSET (1 .. AuthSlots)
  BY <1>1 DEF AuthOf
<1>3. pick # {} /\ AuthSlotFor(ip) = CHOOSE i \in pick : \A j \in pick : i <= j
  BY DEF AuthSlotFor
<1> HIDE DEF pick
<1>4. AuthSlotFor(ip) \in pick
  BY <1>2, <1>3, FirstOf, AuthAssumption
<1> QED BY <1>2, <1>4 DEF pick

LEMMA AuthKept ==
  ASSUME AuthRight, [AuthNext]_authVars
  PROVE  AuthRight'
<1> USE AuthAssumption DEF AuthRight
<1>1. ASSUME NEW p \in AuthPeers, auth_is_authenticated(p) PROVE AuthRight'
  <2>1. \A i \in 1 .. AuthSlots :
           sessions'[i] = IF sessions[i].ip # p THEN sessions[i]
                          ELSE IF Live(i) THEN [ip |-> p, seen |-> authNow] ELSE Free
    BY <1>1 DEF auth_is_authenticated, Refreshed, AuthOf, AuthTypes
  <2>2. sessions' \in [1 .. AuthSlots -> SessionType] /\ authNow' = authNow
    BY <1>1 DEF auth_is_authenticated, Refreshed, AuthOf, AuthTypes, SessionType, Free
  <2>3. Timely'
    <3>1. ASSUME NEW i \in 1 .. AuthSlots PROVE sessions'[i].seen <= authNow
      <4>1. sessions[i].seen <= authNow /\ authNow \in Nat
        BY DEF Timely, AuthTypes
      <4> QED BY <2>1, <4>1 DEF Free
    <3> QED BY <2>2, <3>1 DEF Timely
  <2>4. \A i \in 1 .. AuthSlots : sessions'[i].ip # "none" => sessions'[i].ip = sessions[i].ip
    BY <2>1 DEF Free
  <2>5. OneEach'
    BY <2>4 DEF OneEach
  <2>6. CASE Authed(p)
    <3>1. active' = [active EXCEPT ![p] = authNow] /\ granted' = granted
      BY <1>1, <2>6 DEF auth_is_authenticated
    <3>2. ASSUME NEW i \in 1 .. AuthSlots, sessions'[i].ip # "none"
          PROVE  sessions'[i].ip \in granted' /\ sessions'[i].seen <= active'[sessions'[i].ip]
      <4>1. sessions[i].ip \in granted /\ sessions[i].seen <= active[sessions[i].ip]
            /\ sessions[i].ip \in AuthPeers /\ authNow \in Nat
        BY <2>4, <3>2 DEF Earned, AuthTypes, SessionType
      <4>2. CASE sessions[i].ip = p
        <5>1. /\ sessions'[i].ip = p /\ sessions'[i].seen = authNow
              /\ active'[p] = authNow /\ p \in granted'
          <6>1. Live(i)
            BY <2>1, <3>2, <4>2 DEF Free
          <6>2. sessions'[i] = [ip |-> p, seen |-> authNow]
            BY <2>1, <4>2, <6>1
          <6> QED BY <3>1, <4>1, <4>2, <6>2 DEF AuthTypes
        <5> QED BY <4>1, <5>1
      <4>3. CASE sessions[i].ip # p
        BY <2>1, <3>1, <4>1, <4>3 DEF AuthTypes
      <4> QED BY <4>2, <4>3
    <3> QED BY <2>2, <2>3, <2>5, <3>1, <3>2 DEF AuthTypes, Earned
  <2>7. CASE ~Authed(p)
    <3>1. active' = active /\ granted' = granted \ {p}
      BY <1>1, <2>7 DEF auth_is_authenticated
    <3>2. \A i \in 1 .. AuthSlots : sessions[i].ip = p => ~Live(i)
      BY <2>7 DEF Authed, AuthOf, AuthTypes
    <3>3. \A i \in 1 .. AuthSlots : sessions'[i].ip # "none" =>
             sessions[i].ip # p /\ sessions'[i] = sessions[i]
      BY <2>1, <3>2 DEF Free
    <3> QED BY <2>2, <2>3, <2>5, <3>1, <3>3 DEF AuthTypes, Earned
  <2> QED BY <2>6, <2>7
<1>2. ASSUME NEW p \in AuthPeers, auth_set_authenticated(p) PROVE AuthRight'
  <2>1. /\ granted' = granted \cup {p} /\ active' = [active EXCEPT ![p] = authNow]
        /\ authNow' = authNow
    BY <1>2 DEF auth_set_authenticated
  <2>2. \A q \in AuthPeers : active[q] <= authNow => active[q] <= active'[q]
    BY <2>1 DEF AuthTypes
  <2>3. \A i \in 1 .. AuthSlots : sessions[i].ip # "none" =>
           sessions[i].ip \in granted' /\ sessions[i].seen <= active'[sessions[i].ip]
    BY <2>1 DEF Earned, Timely, AuthTypes, SessionType
  <2>4. CASE AuthSlotFor(p) = 0
    <3>1. sessions' = sessions
      BY <1>2, <2>4 DEF auth_set_authenticated
    <3> QED BY <2>1, <2>3, <3>1 DEF AuthTypes, Timely, OneEach, Earned
  <2>5. CASE AuthSlotFor(p) # 0
    <3>1. PICK i \in 1 .. AuthSlots : /\ i = AuthSlotFor(p)
                                      /\ AuthOf(p) # {} => i \in AuthOf(p)
      BY <2>5, AuthSlotRight
    <3>2. sessions' = [sessions EXCEPT ![i] = [ip |-> p, seen |-> authNow]]
      BY <1>2, <2>5, <3>1 DEF auth_set_authenticated
    <3>3. \A j \in 1 .. AuthSlots : sessions[j].ip = p => j = i
      BY <3>1 DEF OneEach, AuthOf, AuthTypes
    <3>4. /\ sessions'[i].ip = p /\ sessions'[i].seen = authNow
          /\ \A j \in 1 .. AuthSlots \ {i} : sessions'[j] = sessions[j]
          /\ sessions' \in [1 .. AuthSlots -> SessionType]
      BY <3>2 DEF AuthTypes, SessionType
    <3>5. Timely'
      BY <2>1, <3>4 DEF Timely, AuthTypes
    <3>6. OneEach'
      BY <3>3, <3>4 DEF OneEach
    <3>7. Earned'
      BY <2>1, <2>3, <3>4 DEF Earned, AuthTypes
    <3> QED BY <2>1, <3>4, <3>5, <3>6, <3>7 DEF AuthTypes
  <2> QED BY <2>4, <2>5
<1>3. ASSUME NEW p \in AuthPeers, auth_logout(p) PROVE AuthRight'
  <2>1. \A i \in 1 .. AuthSlots :
           sessions'[i] = IF sessions[i].ip = p THEN Free ELSE sessions[i]
    BY <1>3 DEF auth_logout, AuthOf, AuthTypes
  <2>2. sessions' \in [1 .. AuthSlots -> SessionType] /\ authNow' = authNow
        /\ granted' = granted \ {p} /\ active' = active
    BY <1>3 DEF auth_logout, AuthOf, AuthTypes, SessionType, Free
  <2>3. Timely'
    BY <2>1, <2>2 DEF Timely, AuthTypes, Free
  <2>4. OneEach' /\ Earned'
    BY <2>1, <2>2 DEF OneEach, Earned, Free
  <2> QED BY <2>2, <2>3, <2>4 DEF AuthTypes
<1>4. CASE AuthTick
  BY <1>4 DEF AuthTick, AuthTypes, Timely, OneEach, Earned, SessionType
<1>5. CASE UNCHANGED authVars
  BY <1>5 DEF authVars, AuthTypes, Timely, OneEach, Earned
<1> QED BY <1>1, <1>2, <1>3, <1>4, <1>5 DEF AuthNext

LEMMA AuthShown == AuthRight => AuthTypeOK /\ AuthorisedOnlyWhileGranted
<1> SUFFICES ASSUME AuthRight PROVE AuthTypeOK /\ AuthorisedOnlyWhileGranted
  OBVIOUS
<1>1. AuthTypeOK
  BY AuthAssumption DEF AuthRight, AuthTypes, Timely, OneEach, AuthTypeOK, AuthOf
<1>2. ASSUME NEW p \in AuthPeers, Authed(p) PROVE p \in granted /\ authNow - active[p] <= AuthTimeout
  <2>1. PICK i \in 1 .. AuthSlots : sessions[i].ip = p /\ Live(i)
    BY <1>2 DEF Authed, AuthOf, AuthRight, AuthTypes
  <2> QED BY <2>1, AuthAssumption DEF Live, AuthRight, AuthTypes, SessionType, Earned
<1> QED BY <1>1, <1>2 DEF AuthorisedOnlyWhileGranted

-----------------------------------------------------------------------------
(* NetServers: the lease of slot i has address i of the pool, a client has   *)
(* one lease, and what it was told is its lease's address.                   *)
LeaseType == [mac : NsMacs \cup {"none"}, ip : ({0} \cup NsNets) \X Nat]
NsTypes ==
  /\ leases \in [1 .. NsLeases -> LeaseType]
  /\ nsPool \in NsNets /\ nsGiven \in [NsMacs -> SUBSET (({0} \cup NsNets) \X Nat)]
SlotGivesAddress(l) ==
  \A i \in 1 .. NsLeases : l[i] = NoLease \/
     /\ l[i].mac \in NsMacs /\ i <= NsPool
     /\ l[i].ip[1] \in NsNets /\ l[i].ip[2] = i
LeasePerClient(l) ==
  \A i, j \in 1 .. NsLeases : l[i].mac = l[j].mac /\ l[i].mac \in NsMacs => i = j
LeasesStay(l) == \A i \in 1 .. NsLeases : leases[i] # NoLease => l[i] = leases[i]
ToldTheLease ==
  \A m \in NsMacs : \A a \in nsGiven[m] :
     \E i \in 1 .. NsLeases : leases[i].mac = m /\ leases[i].ip = a
NsRight == NsTypes /\ SlotGivesAddress(leases) /\ LeasePerClient(leases) /\ ToldTheLease

LEMMA NsStarts == NsInit => NsRight
<1> SUFFICES ASSUME NsInit PROVE NsRight
  OBVIOUS
<1>1. NoLease \in LeaseType /\ NoLease.mac \notin NsMacs
  BY NsAssumption DEF NoLease, LeaseType
<1> QED BY <1>1, NsAssumption
    DEF NsInit, NsRight, NsTypes, SlotGivesAddress, LeasePerClient, ToldTheLease

(* dhcpd_find_lease finds no slot, or the client's own, or fills a free one. *)
LEMMA FoundLease ==
  ASSUME NsRight, NEW mac \in NsMacs, NEW r, r = dhcpd_find_lease(mac)
  PROVE  \/ r[1] = 0 /\ r[2] = leases
         \/ \E i \in 1 .. NsLeases :
              /\ r[1] = i
              /\ \/ leases[i].mac = mac /\ r[2] = leases
                 \/ /\ leases[i] = NoLease /\ i <= NsPool
                    /\ \A j \in 1 .. NsLeases : leases[j].mac # mac
                    /\ r[2] = [leases EXCEPT ![i] = [mac |-> mac, ip |-> <<nsPool, i>>]]
<1> DEFINE own  == {i \in DOMAIN leases : leases[i].mac = mac}
           free == {i \in DOMAIN leases : leases[i] = NoLease}
           pick == IF own # {} THEN own ELSE free
<1>1. DOMAIN leases = 1 .. NsLeases
  BY DEF NsRight, NsTypes
<1>2. CASE pick = {}
  BY <1>2 DEF dhcpd_find_lease, LeaseOf
<1>3. CASE pick # {}
  <2>1. LeaseOf(mac) = CHOOSE i \in pick : \A j \in pick : i <= j
    BY <1>3 DEF LeaseOf
  <2>2. pick \in SUBSET (1 .. NsLeases)
    BY <1>1
  <2> HIDE DEF pick
  <2>3. PICK i \in pick : i = LeaseOf(mac)
    BY <1>3, <2>1, <2>2, FirstOf, NsAssumption
  <2>4. i \in 1 .. NsLeases /\ i # 0
    BY <2>2
  <2>5. CASE own # {}
    <3>1. leases[i].mac = mac /\ leases[i] # NoLease
      BY <2>5, NsAssumption DEF pick, NoLease
    <3>2. r = <<i, leases>>
      BY <2>3, <2>4, <3>1 DEF dhcpd_find_lease
    <3> QED BY <2>4, <3>1, <3>2
  <2>6. CASE own = {}
    <3>1. leases[i] = NoLease /\ leases[i].mac # mac
      BY <2>6, NsAssumption DEF pick, NoLease
    <3>2. \A j \in 1 .. NsLeases : leases[j].mac # mac
      BY <1>1, <2>6
    <3>3. CASE i > NsPool
      BY <2>3, <3>1, <3>3 DEF dhcpd_find_lease
    <3>4. CASE ~(i > NsPool)
      <4>1. r = <<i, [leases EXCEPT ![i] = [mac |-> mac, ip |-> <<nsPool, i>>]]>>
        BY <2>3, <2>4, <3>1, <3>4 DEF dhcpd_find_lease, LeaseAddr
      <4>2. r[1] = i /\ r[2] = [leases EXCEPT ![i] = [mac |-> mac, ip |-> <<nsPool, i>>]]
        BY <4>1
      <4>3. i <= NsPool
        BY <2>4, <3>4, NsAssumption
      <4> QED BY <2>4, <3>1, <3>2, <4>2, <4>3
    <3> QED BY <3>3, <3>4
  <2> QED BY <2>5, <2>6
<1> QED BY <1>2, <1>3

(* The table after a lease is added: old leases stay where they were.        *)
LEMMA LeaseAdded ==
  ASSUME NsRight, NEW mac \in NsMacs, NEW i \in 1 .. NsLeases, NEW l,
         leases[i] = NoLease, i <= NsPool,
         \A j \in 1 .. NsLeases : leases[j].mac # mac,
         l = [leases EXCEPT ![i] = [mac |-> mac, ip |-> <<nsPool, i>>]]
  PROVE  /\ l \in [1 .. NsLeases -> LeaseType] /\ LeasesStay(l)
         /\ SlotGivesAddress(l) /\ LeasePerClient(l) /\ l[i].mac = mac
<1>1. PICK e : e = [mac |-> mac, ip |-> <<nsPool, i>>]
  OBVIOUS
<1>2. /\ e \in LeaseType /\ e.mac = mac /\ e.ip[1] = nsPool /\ e.ip[2] = i /\ nsPool \in NsNets
  BY <1>1 DEF NsRight, NsTypes, LeaseType
<1>3. l[i] = e /\ \A j \in 1 .. NsLeases : j # i => l[j] = leases[j]
  BY <1>1 DEF NsRight, NsTypes
<1>4. l \in [1 .. NsLeases -> LeaseType]
  BY <1>1, <1>2 DEF NsRight, NsTypes
<1>5. SlotGivesAddress(l)
  BY <1>2, <1>3 DEF NsRight, SlotGivesAddress
<1>6. LeasePerClient(l)
  BY <1>2, <1>3 DEF NsRight, LeasePerClient
<1>7. LeasesStay(l)
  BY <1>3 DEF LeasesStay
<1> QED BY <1>2, <1>3, <1>4, <1>5, <1>6, <1>7

LEMMA NsKept ==
  ASSUME NsRight, [NsNext]_nsVars
  PROVE  NsRight'
<1>1. ASSUME NEW type, NEW mac \in NsMacs, NEW dev, NEW mem,
             dhcpd_handle_packet(type, mac, dev, mem)
      PROVE  NsRight'
  <2>1. PICK r : r = dhcpd_find_lease(mac)
    OBVIOUS
  <2>2. /\ nsPool' = nsPool
        /\ \/ leases' = leases /\ nsGiven' = nsGiven
           \/ leases' = r[2] /\ nsGiven' = nsGiven
           \/ /\ leases' = r[2] /\ r[1] # 0
              /\ nsGiven' = [nsGiven EXCEPT ![mac] = @ \cup {r[2][r[1]].ip}]
    BY <1>1, <2>1 DEF dhcpd_handle_packet
  <2>3. CASE r[2] = leases /\ (r[1] # 0 => \E i \in 1 .. NsLeases : r[1] = i /\ leases[i].mac = mac)
    <3>1. leases' = leases
      BY <2>2, <2>3
    <3>2. CASE nsGiven' = nsGiven
      BY <2>2, <3>1, <3>2 DEF NsRight, NsTypes, SlotGivesAddress, LeasePerClient, ToldTheLease
    <3>3. CASE nsGiven' # nsGiven
      <4>1. PICK i \in 1 .. NsLeases : r[1] = i /\ leases[i].mac = mac
        BY <2>2, <2>3, <3>3
      <4>2. PICK a : a = leases[i].ip
        OBVIOUS
      <4>3. a \in ({0} \cup NsNets) \X Nat
        BY <4>2 DEF NsRight, NsTypes, LeaseType
      <4>4. nsGiven' = [nsGiven EXCEPT ![mac] = @ \cup {a}]
        BY <2>2, <2>3, <3>3, <4>1, <4>2
      <4> QED BY <2>2, <3>1, <4>1, <4>2, <4>3, <4>4
          DEF NsRight, NsTypes, SlotGivesAddress, LeasePerClient, ToldTheLease
    <3> QED BY <3>2, <3>3
  <2>4. ASSUME NEW i \in 1 .. NsLeases, r[1] = i, leases[i] = NoLease, i <= NsPool,
               \A j \in 1 .. NsLeases : leases[j].mac # mac,
               r[2] = [leases EXCEPT ![i] = [mac |-> mac, ip |-> <<nsPool, i>>]]
        PROVE  NsRight'
    <3>1. CASE leases' = leases /\ nsGiven' = nsGiven
      BY <2>2, <3>1 DEF NsRight, NsTypes, SlotGivesAddress, LeasePerClient, ToldTheLease
    <3>2. CASE leases' = r[2]
      <4>1. /\ leases' \in [1 .. NsLeases -> LeaseType]
            /\ \A j \in 1 .. NsLeases : leases[j] # NoLease => leases'[j] = leases[j]
            /\ SlotGivesAddress(leases') /\ LeasePerClient(leases') /\ leases'[i].mac = mac
        <5>1. PICK l : l = r[2]
          OBVIOUS
        <5>2. /\ l \in [1 .. NsLeases -> LeaseType] /\ LeasesStay(l)
              /\ SlotGivesAddress(l) /\ LeasePerClient(l) /\ l[i].mac = mac
          BY <2>4, <5>1, LeaseAdded
        <5>3. leases' = l
          BY <3>2, <5>1
        <5> QED BY <5>2, <5>3 DEF LeasesStay
      <4>2. PICK a : a = leases'[i].ip
        OBVIOUS
      <4>3. a \in ({0} \cup NsNets) \X Nat
        BY <4>1, <4>2 DEF LeaseType
      <4>4. ASSUME NEW m \in NsMacs, NEW b \in nsGiven[m]
            PROVE  \E j \in 1 .. NsLeases : leases'[j].mac = m /\ leases'[j].ip = b
        <5>1. PICK j \in 1 .. NsLeases : leases[j].mac = m /\ leases[j].ip = b
          BY DEF NsRight, ToldTheLease
        <5>2. leases[j] # NoLease
          BY <5>1, NsAssumption DEF NoLease
        <5> QED BY <4>1, <5>1, <5>2
      <4>5. \/ nsGiven' = nsGiven \/ nsGiven' = [nsGiven EXCEPT ![mac] = @ \cup {a}]
        BY <2>2, <2>4, <3>2, <4>2
      <4>6. nsGiven' \in [NsMacs -> SUBSET (({0} \cup NsNets) \X Nat)]
        BY <4>3, <4>5 DEF NsRight, NsTypes
      <4>7. ToldTheLease'
        <5>1. ASSUME NEW m \in NsMacs, NEW b \in nsGiven'[m]
              PROVE  \E j \in 1 .. NsLeases : leases'[j].mac = m /\ leases'[j].ip = b
          <6>1. b \in nsGiven[m] \/ (m = mac /\ b = a)
            BY <4>5 DEF NsRight, NsTypes
          <6> QED BY <4>1, <4>2, <4>4, <6>1
        <5> QED BY <5>1 DEF ToldTheLease
      <4> QED BY <2>2, <4>1, <4>6, <4>7 DEF NsRight, NsTypes
    <3> QED BY <2>2, <3>1, <3>2
  <2>5. \/ r[1] = 0 /\ r[2] = leases
        \/ \E i \in 1 .. NsLeases :
              /\ r[1] = i
              /\ \/ leases[i].mac = mac /\ r[2] = leases
                 \/ /\ leases[i] = NoLease /\ i <= NsPool
                    /\ \A j \in 1 .. NsLeases : leases[j].mac # mac
                    /\ r[2] = [leases EXCEPT ![i] = [mac |-> mac, ip |-> <<nsPool, i>>]]
    BY <2>1, FoundLease
  <2>6. CASE r[1] = 0 /\ r[2] = leases
    BY <2>3, <2>6
  <2>7. ASSUME NEW i \in 1 .. NsLeases, r[1] = i, leases[i].mac = mac, r[2] = leases
        PROVE  NsRight'
    BY <2>3, <2>7
  <2> QED BY <2>4, <2>5, <2>6, <2>7
<1>2. ASSUME NEW query, NEW mem, dnsd_handle_packet(query, mem) PROVE NsRight'
  BY <1>2 DEF dnsd_handle_packet, NsRight, NsTypes, SlotGivesAddress, LeasePerClient, ToldTheLease
<1>3. ASSUME NEW net \in NsNets, NEW reinit, NewAddress(net, reinit) PROVE NsRight'
  BY <1>3 DEF NewAddress, NsRight, NsTypes, SlotGivesAddress, LeasePerClient, ToldTheLease
<1>4. CASE UNCHANGED nsVars
  BY <1>4 DEF nsVars, NsRight, NsTypes, SlotGivesAddress, LeasePerClient, ToldTheLease
<1> QED BY <1>1, <1>2, <1>3, <1>4 DEF NsNext

LEMMA NsShown == NsRight => NsTypeOK /\ LeasesApart
<1> SUFFICES ASSUME NsRight PROVE NsTypeOK /\ LeasesApart
  OBVIOUS
<1>1. NsTypeOK
  BY NsAssumption DEF NsRight, NsTypes, SlotGivesAddress, NsTypeOK
<1>2. ASSUME NEW m \in NsMacs, NEW n \in NsMacs, NEW a \in nsGiven[m], NEW b \in nsGiven[n], a = b
      PROVE  m = n
  <2>1. PICK i \in 1 .. NsLeases : leases[i].mac = m /\ leases[i].ip = a
    BY DEF NsRight, ToldTheLease
  <2>2. PICK j \in 1 .. NsLeases : leases[j].mac = n /\ leases[j].ip = b
    BY DEF NsRight, ToldTheLease
  <2>3. leases[i].ip[2] = i /\ leases[j].ip[2] = j
    BY <2>1, <2>2, NsAssumption DEF NsRight, SlotGivesAddress, NoLease
  <2> QED BY <1>2, <2>1, <2>2, <2>3
<1>3. ASSUME NEW m \in NsMacs, NEW a \in nsGiven[m], NEW b \in nsGiven[m]
      PROVE  a = b
  <2>1. PICK i \in 1 .. NsLeases : leases[i].mac = m /\ leases[i].ip = a
    BY DEF NsRight, ToldTheLease
  <2>2. PICK j \in 1 .. NsLeases : leases[j].mac = m /\ leases[j].ip = b
    BY DEF NsRight, ToldTheLease
  <2> QED BY <2>1, <2>2 DEF NsRight, LeasePerClient
<1>4. ASSUME NEW m \in NsMacs PROVE Cardinality(nsGiven[m]) <= 1
  <2>1. CASE nsGiven[m] = {}
    BY <2>1, FS_EmptySet
  <2>2. CASE nsGiven[m] # {}
    <3>1. PICK a : a \in nsGiven[m]
      BY <2>2
    <3>2. nsGiven[m] = {a}
      BY <1>3, <3>1
    <3>3. Cardinality({a}) = 1
      BY FS_Singleton
    <3> QED BY <3>2, <3>3
  <2> QED BY <2>1, <2>2
<1> QED BY <1>1, <1>2, <1>4 DEF LeasesApart

-----------------------------------------------------------------------------
(* DhcpClient: what an OFFER or a REQUEST on the network names is its        *)
(* server's address, an ACK of ours was preceded by the grant of it, and the *)
(* address offered is that of the last OFFER's server.                       *)
Addrs == {DcAddr[s] : s \in DcServers}
CmdType == [at : {"none", "wait", "giveup", "got", "failed"}, try : 0 .. DcAttempts,
            prev : {0, 1} \cup Addrs]
FromType == [srv : DcServers \cup {"none"}, mixed : BOOLEAN]
DcTypes ==
  /\ dcIp \in {0, 1} \cup Addrs /\ dcOffered \in {0} \cup Addrs /\ dcAck \in BOOLEAN
  /\ dcCmd \in CmdType /\ dcFrom \in FromType
  /\ dcXid \in Nat \ {0} /\ dcRuns \in 0 .. DcCommands
  /\ dcLate \in BOOLEAN /\ dcGranted \in SUBSET Addrs

(* Transactions so far, of the attempts of the commands so far.              *)
TransactionsCounted ==
  IF dcCmd.at = "none" THEN dcXid = 1 /\ dcRuns = 0
  ELSE dcRuns >= 1 /\ dcXid <= 1 + (dcRuns - 1) * DcAttempts + dcCmd.try

MessageRight(m, given) ==
  /\ m.type \in {"OFFER", "REQUEST"} => m.srv \in DcServers /\ m.ip = DcAddr[m.srv]
  /\ m.type = "ACK" => m.xid = 0 \/ /\ m.srv \in DcServers /\ DcAddr[m.srv] \in given
                                    /\ m.ip \in {0, DcAddr[m.srv]}
OfferRemembered ==
  dcOffered = IF dcFrom.srv = "none" THEN 0 ELSE DcAddr[dcFrom.srv]
LeaseRight ==
  /\ dcCmd.at = "wait" /\ ~dcAck => dcIp = 0
  /\ dcCmd.at \in {"wait", "got"} /\ (dcAck \/ dcCmd.at = "got") /\ ~dcFrom.mixed
       => dcIp \in dcGranted
DcRight ==
  /\ DcTypes /\ TransactionsCounted /\ OfferRemembered /\ LeaseRight /\ FailureRestores
  /\ \A m \in dcNet : MessageRight(m, dcGranted)

LEMMA AddrFacts ==
  /\ \A s \in DcServers : DcAddr[s] \in Addrs /\ DcAddr[s] \in Nat /\ DcAddr[s] # 0
  /\ 0 \notin Addrs
BY DcAssumption DEF Addrs

LEMMA CmdMade ==
  ASSUME NEW a \in {"none", "wait", "giveup", "got", "failed"}, NEW n \in 0 .. DcAttempts,
         NEW ip \in {0, 1} \cup Addrs
  PROVE  [at |-> a, try |-> n, prev |-> ip] \in CmdType
BY DEF CmdType

LEMMA DcStarts == DcInit => DcRight
<1> SUFFICES ASSUME DcInit PROVE DcRight
  OBVIOUS
<1>1. DcTypes
  <2>1. dcCmd \in CmdType
    BY CmdMade, DcAssumption DEF DcInit, NoCmd
  <2>2. dcFrom \in FromType
    BY DEF DcInit, FromType
  <2>3. dcAck \in BOOLEAN /\ dcLate \in BOOLEAN
    BY DEF DcInit
  <2>4. dcIp \in {0, 1} \cup Addrs /\ dcOffered \in {0} \cup Addrs /\ dcGranted \in SUBSET Addrs
    BY DEF DcInit
  <2>5. dcXid \in Nat \ {0} /\ dcRuns \in 0 .. DcCommands
    BY DcAssumption DEF DcInit
  <2> QED BY <2>1, <2>2, <2>3, <2>4, <2>5 DEF DcTypes
<1>2. \A m \in dcNet : MessageRight(m, dcGranted)
  BY DEF DcInit, DMsg, MessageRight
<1> QED BY <1>1, <1>2 DEF DcInit, DcRight, TransactionsCounted, OfferRemembered, LeaseRight,
                          FailureRestores, NoCmd

LEMMA DcCounts ==
  ASSUME NEW a \in Nat, NEW r \in Nat, r >= 1
  PROVE  /\ (r - 1) * a + a = r * a
         /\ \A c \in Nat : r <= c => r * a <= a * c
<1>1. (r - 1) * a + a = r * a
  OBVIOUS
<1>2. ASSUME NEW c \in Nat, r <= c PROVE r * a <= a * c
  <2>1. PICK d \in Nat : c = r + d
    <3>1. c - r \in Nat /\ c = r + (c - r)
      BY <1>2
    <3> QED BY <3>1
  <2>2. a * c = r * a + d * a /\ d * a \in Nat
    BY <2>1
  <2> QED BY <2>2
<1> QED BY <1>1, <1>2

(* The command's own steps.                                                  *)
LEMMA DcCommandKeeps ==
  ASSUME DcRight, DhcpCommand \/ DhcpSees \/ DhcpTimeout \/ DhcpFails
  PROVE  DcRight'
<1> USE DcAssumption DEF DcRight
<1>1. CASE DhcpCommand
  <2>1. /\ dcRuns' = dcRuns + 1 /\ dcRuns < DcCommands /\ dcIp' = 0 /\ dcOffered' = 0
        /\ dcXid' = dcXid + 1 /\ dcAck' = FALSE /\ dcLate' = FALSE
        /\ dcNet' = dcNet \cup {DMsg("DISCOVER", dcXid + 1, "all", 0)}
        /\ dcCmd' = [at |-> "wait", try |-> 1, prev |-> dcIp]
        /\ dcFrom' = [srv |-> "none", mixed |-> FALSE] /\ dcGranted' = dcGranted
    BY <1>1 DEF DhcpCommand, dhcp_start
  <2>2. DcTypes'
    <3>1. dcCmd' \in CmdType
      <4>1. dcIp \in {0, 1} \cup Addrs /\ 1 \in 0 .. DcAttempts
        BY DEF DcTypes
      <4> QED BY <2>1, <4>1, CmdMade
    <3>2. dcFrom' \in FromType
      BY <2>1 DEF FromType
    <3>3. dcAck' \in BOOLEAN /\ dcLate' \in BOOLEAN
      BY <2>1
    <3>4. dcXid' \in Nat \ {0} /\ dcRuns' \in 0 .. DcCommands
      BY <2>1 DEF DcTypes
    <3>5. dcIp' \in {0, 1} \cup Addrs /\ dcOffered' \in {0} \cup Addrs
      BY <2>1
    <3> QED BY <2>1, <3>1, <3>2, <3>3, <3>4, <3>5 DEF DcTypes
  <2>3. TransactionsCounted'
    <3>1. CASE dcCmd.at = "none"
      BY <2>1, <3>1 DEF TransactionsCounted, DcTypes, CmdType, FromType
    <3>2. CASE dcCmd.at # "none"
      <4>1. /\ dcRuns \in Nat /\ dcRuns >= 1 /\ dcCmd.try \in 0 .. DcAttempts /\ dcXid \in Nat
            /\ dcXid <= 1 + (dcRuns - 1) * DcAttempts + dcCmd.try
        BY <3>2 DEF DcTypes, CmdType, FromType, TransactionsCounted
      <4>2. (dcRuns - 1) * DcAttempts + DcAttempts = dcRuns * DcAttempts
        BY <4>1, DcCounts
      <4>3. dcXid + 1 <= 1 + dcRuns * DcAttempts + 1
        <5>1. PICK y \in Int : y = (dcRuns - 1) * DcAttempts
          BY <4>1
        <5>2. PICK z \in Int : z = dcRuns * DcAttempts
          BY <4>1
        <5> QED BY <4>1, <4>2, <5>1, <5>2
      <4>4. (dcRuns + 1) - 1 = dcRuns
        BY <4>1
      <4> QED BY <2>1, <4>1, <4>3, <4>4 DEF TransactionsCounted
    <3> QED BY <3>1, <3>2
  <2>4. \A m \in dcNet' : MessageRight(m, dcGranted')
    BY <2>1 DEF DMsg, MessageRight
  <2> QED BY <2>1, <2>2, <2>3, <2>4 DEF OfferRemembered, LeaseRight, FailureRestores
<1>2. CASE DhcpSees
  <2>1. dcIp \in dcGranted \/ dcFrom.mixed
    BY <1>2 DEF DhcpSees, LeaseRight
  <2>2. 0 \notin dcGranted
    BY AddrFacts DEF DcTypes, CmdType, FromType
  <2>3. DcTypes' /\ TransactionsCounted'
    BY <1>2 DEF DhcpSees, DcTypes, CmdType, FromType, TransactionsCounted
  <2> QED BY <1>2, <2>1, <2>2, <2>3
      DEF DhcpSees, OfferRemembered, LeaseRight, FailureRestores, DcTypes, CmdType, FromType
<1>3. CASE DhcpTimeout
  <2>1. CASE Again(dcCmd.try)
    <3>1. /\ dcXid' = dcXid + 1 /\ dcAck' = FALSE
          /\ dcNet' = dcNet \cup {DMsg("DISCOVER", dcXid + 1, "all", 0)}
          /\ dcCmd' = [at |-> "wait", try |-> dcCmd.try + 1, prev |-> dcCmd.prev]
          /\ UNCHANGED <<dcIp, dcOffered, dcSettings, dcRuns, dcGranted, dcLate, dcFrom>>
          /\ dcCmd.at = "wait" /\ ~dcAck /\ dcCmd.try < DcAttempts
      BY <1>3, <2>1 DEF DhcpTimeout, dhcp_start, Again
    <3>2. DcTypes'
      <4>1. dcCmd' \in CmdType
        <5>1. dcCmd.try + 1 \in 0 .. DcAttempts /\ dcCmd.prev \in {0, 1} \cup Addrs
          BY <3>1 DEF DcTypes, CmdType
        <5> QED BY <3>1, <5>1, CmdMade
      <4>2. dcAck' \in BOOLEAN
        BY <3>1
      <4>3. dcXid' \in Nat \ {0}
        BY <3>1 DEF DcTypes
      <4> QED BY <3>1, <4>1, <4>2, <4>3 DEF DcTypes
    <3>3. TransactionsCounted'
      <4>1. PICK y \in Int : y = (dcRuns - 1) * DcAttempts
        BY DEF DcTypes, CmdType, FromType
      <4>2. dcRuns >= 1 /\ dcXid <= 1 + y + dcCmd.try /\ dcXid \in Nat /\ dcCmd.try \in Nat
        BY <3>1, <4>1 DEF TransactionsCounted, DcTypes, CmdType, FromType
      <4>3. dcXid + 1 <= 1 + y + (dcCmd.try + 1)
        BY <4>2
      <4> QED BY <3>1, <4>1, <4>2, <4>3 DEF TransactionsCounted
    <3>4. \A m \in dcNet' : MessageRight(m, dcGranted')
      BY <3>1 DEF DMsg, MessageRight
    <3> QED BY <3>1, <3>2, <3>3, <3>4 DEF OfferRemembered, LeaseRight, FailureRestores
  <2>2. CASE ~Again(dcCmd.try)
    <3>1. /\ dcCmd' = [dcCmd EXCEPT !.at = "giveup"] /\ dcCmd.at = "wait"
          /\ UNCHANGED <<dcXid, dcAck, dcNet, dcIp, dcOffered, dcRuns, dcGranted, dcLate, dcFrom>>
      BY <1>3, <2>2 DEF DhcpTimeout
    <3> QED BY <3>1 DEF DcTypes, CmdType, FromType, TransactionsCounted, OfferRemembered, LeaseRight, FailureRestores
  <2> QED BY <2>1, <2>2
<1>4. CASE DhcpFails
  <2>1. /\ dcCmd' = [dcCmd EXCEPT !.at = "failed"] /\ dcCmd.at = "giveup"
        /\ dcIp' = IF dcCmd.prev # 0 THEN dcCmd.prev ELSE dcIp
        /\ UNCHANGED <<dcXid, dcAck, dcNet, dcOffered, dcRuns, dcGranted, dcLate, dcFrom>>
    BY <1>4 DEF DhcpFails, Restored
  <2>2. dcCmd'.at = "failed" /\ dcCmd'.prev = dcCmd.prev /\ dcCmd'.try = dcCmd.try
    BY <2>1 DEF DcTypes, CmdType, FromType
  <2>3. DcTypes'
    BY <2>1 DEF DcTypes, CmdType, FromType
  <2> QED BY <2>1, <2>2, <2>3 DEF TransactionsCounted, OfferRemembered, LeaseRight, FailureRestores
<1> QED BY <1>1, <1>2, <1>3, <1>4

(* Replies, and the servers that send them.                                  *)
LEMMA DcNetKeeps ==
  ASSUME DcRight, NEW m \in dcNet,
         \/ dhcp_input(m)
         \/ \E s \in DcServers : ServerOffers(m, s)
         \/ \E b \in BOOLEAN : ServerAcks(m, b)
  PROVE  DcRight'
<1> USE DcAssumption, AddrFacts DEF DcRight
<1>0. MessageRight(m, dcGranted)
  OBVIOUS
<1>1. CASE dhcp_input(m) /\ m.type = "OFFER"
  <2>1. /\ dcOffered' = m.ip /\ dcNet' = dcNet \cup {DMsg("REQUEST", dcXid, m.srv, m.ip)}
        /\ dcFrom' = [dcFrom EXCEPT !.srv = m.srv]
        /\ UNCHANGED <<dcIp, dcAck, dcLate, dcXid, dcCmd, dcRuns, dcGranted>>
    BY <1>1 DEF dhcp_input, dhcp_send_request
  <2>2. m.srv \in DcServers /\ m.ip = DcAddr[m.srv] /\ m.srv # "none"
    BY <1>0, <1>1 DEF MessageRight
  <2>3. DcTypes' /\ dcFrom'.srv = m.srv /\ dcFrom'.mixed = dcFrom.mixed
    BY <2>1, <2>2 DEF DcTypes, CmdType, FromType
  <2>4. \A n \in dcNet' : MessageRight(n, dcGranted')
    BY <2>1, <2>2 DEF DMsg, MessageRight
  <2> QED BY <2>1, <2>2, <2>3, <2>4
      DEF TransactionsCounted, OfferRemembered, LeaseRight, FailureRestores
<1>2. CASE dhcp_input(m) /\ m.type # "OFFER"
  <2>1. /\ dcIp' = IF m.ip # 0 THEN m.ip ELSE IF dcOffered # 0 THEN dcOffered ELSE dcIp
        /\ dcAck' = TRUE /\ dcLate' = (dcLate \/ dcCmd.at \in {"giveup", "failed"})
        /\ dcFrom' = [dcFrom EXCEPT !.mixed = @ \/ (m.ip = 0 /\ m.srv # dcFrom.srv)]
        /\ UNCHANGED <<dcOffered, dcNet, dcXid, dcCmd, dcRuns, dcGranted>>
        /\ m.type = "ACK" /\ m.xid = dcXid
    BY <1>2 DEF dhcp_input, Ours
  <2>2. m.srv \in DcServers /\ DcAddr[m.srv] \in dcGranted /\ m.ip \in {0, DcAddr[m.srv]}
    BY <1>0, <2>1 DEF MessageRight, DcTypes
  <2>3. dcFrom'.srv = dcFrom.srv /\ (dcFrom'.mixed <=> dcFrom.mixed \/ (m.ip = 0 /\ m.srv # dcFrom.srv))
    BY <2>1 DEF DcTypes, CmdType, FromType
  <2>4. DcTypes'
    <3>1. dcFrom' \in FromType
      BY <2>1 DEF DcTypes, CmdType, FromType
    <3>2. dcIp' \in {0, 1} \cup Addrs
      BY <2>1, <2>2 DEF DcTypes, CmdType, FromType
    <3> QED BY <2>1, <3>1, <3>2 DEF DcTypes
  <2>5. ~dcFrom'.mixed => dcIp' \in dcGranted
    <3>1. CASE m.ip # 0
      BY <2>1, <2>2, <3>1
    <3>2. CASE m.ip = 0
      BY <2>1, <2>2, <2>3, <3>2 DEF OfferRemembered
    <3> QED BY <3>1, <3>2
  <2> QED BY <2>1, <2>3, <2>4, <2>5
      DEF TransactionsCounted, OfferRemembered, LeaseRight, FailureRestores
<1>3. ASSUME NEW s \in DcServers, ServerOffers(m, s) PROVE DcRight'
  <2>1. /\ dcNet' = dcNet \cup {DMsg("OFFER", m.xid, s, DcAddr[s])}
        /\ UNCHANGED <<dcIp, dcXid, dcOffered, dcAck, dcCmd, dcRuns, dcGranted, dcLate, dcFrom>>
    BY <1>3 DEF ServerOffers
  <2>2. \A n \in dcNet' : MessageRight(n, dcGranted')
    BY <2>1 DEF DMsg, MessageRight
  <2> QED BY <2>1, <2>2
      DEF DcTypes, CmdType, FromType, TransactionsCounted, OfferRemembered, LeaseRight, FailureRestores
<1>4. ASSUME NEW b \in BOOLEAN, ServerAcks(m, b) PROVE DcRight'
  <2>1. /\ dcNet' = dcNet \cup {DMsg("ACK", m.xid, m.srv, IF b THEN 0 ELSE m.ip)}
        /\ dcGranted' = dcGranted \cup {m.ip} /\ m.type = "REQUEST"
        /\ UNCHANGED <<dcIp, dcXid, dcOffered, dcAck, dcCmd, dcRuns, dcLate, dcFrom>>
    BY <1>4 DEF ServerAcks
  <2>2. m.srv \in DcServers /\ m.ip = DcAddr[m.srv]
    BY <1>0, <2>1 DEF MessageRight
  <2>3. \A n \in dcNet' : MessageRight(n, dcGranted')
    BY <2>1, <2>2 DEF DMsg, MessageRight
  <2>4. DcTypes'
    BY <2>1, <2>2 DEF DcTypes, CmdType, FromType
  <2> QED BY <2>1, <2>3, <2>4
      DEF TransactionsCounted, OfferRemembered, LeaseRight, FailureRestores
<1> QED BY <1>1, <1>2, <1>3, <1>4

LEMMA DcKept ==
  ASSUME DcRight, [DcNext]_dcVars
  PROVE  DcRight'
<1>1. CASE UNCHANGED dcVars
  BY <1>1 DEF dcVars, DcRight, DcTypes, TransactionsCounted, OfferRemembered, LeaseRight,
              FailureRestores
<1> QED BY <1>1, DcCommandKeeps, DcNetKeeps DEF DcNext

LEMMA DcShown == DcRight => DcTypeOK /\ LeaseWasGranted /\ FailureRestores
<1> SUFFICES ASSUME DcRight PROVE DcTypeOK /\ LeaseWasGranted
  BY DEF DcRight
<1>1. dcXid <= DcAttempts * DcCommands + 1
  <2>1. /\ dcRuns \in Nat /\ DcCommands \in Nat /\ DcAttempts \in Nat /\ dcRuns <= DcCommands
        /\ dcCmd.try \in 0 .. DcAttempts /\ dcXid \in Nat
    BY DcAssumption DEF DcRight, DcTypes, CmdType
  <2>2. PICK t \in Nat : t = DcAttempts * DcCommands
    BY <2>1
  <2>3. CASE dcCmd.at = "none"
    BY <2>2, <2>3 DEF DcRight, TransactionsCounted
  <2>4. CASE dcCmd.at # "none"
    <3>1. PICK y \in Int : y = (dcRuns - 1) * DcAttempts
      BY <2>1
    <3>2. PICK z \in Int : z = dcRuns * DcAttempts
      BY <2>1
    <3>3. dcRuns >= 1 /\ dcXid <= 1 + y + dcCmd.try
      BY <2>4, <3>1 DEF DcRight, TransactionsCounted
    <3>4. y + DcAttempts = z /\ z <= t
      BY <2>1, <2>2, <3>1, <3>2, <3>3, DcCounts
    <3> QED BY <2>1, <2>2, <3>3, <3>4
  <2> QED BY <2>3, <2>4
<1> QED BY <1>1 DEF DcRight, DcTypes, CmdType, Addrs, DcTypeOK, LeaseRight, LeaseWasGranted

-----------------------------------------------------------------------------
(* DnsClient: once the lookup under way has sent a query, the queries with   *)
(* the pending identifier are for its name.                                  *)
QueryType == [at : {"none", "resolve", "wait"}, name : DnsNames \cup {NoName},
              try : 0 .. 2, send : 0 .. 3]
DnsTypes ==
  /\ dnsId \in Nat \ {0} /\ dnsPending = dnsId - 1 /\ dnsCmd \in QueryType
  /\ dnsAsked \in SUBSET [id : Nat, name : DnsNames]
  /\ dnsGot \in BOOLEAN /\ dnsStale \in BOOLEAN
  /\ dnsGot => dnsLast \in DnsNames
CommandLooksUp ==
  /\ dnsCmd.at # "none" => dnsCmd.name \in DnsNames /\ dnsCmd.try \in {1, 2}
                            /\ dnsCmd.send \in {1, 2, 3}
  /\ dnsCmd.at = "none" => dnsCmd.send = 0
  /\ dnsCmd.at = "resolve" => dnsCmd.send \in {1, 2}
Sent == dnsCmd.at # "none" /\ dnsCmd.send \in {1, 2} /\ (dnsCmd.at = "resolve" => dnsCmd.send = 2)
QueriesRight ==
  /\ \A q \in dnsAsked : q.id < dnsId
  /\ Sent => \A q \in dnsAsked : q.id = dnsPending => q.name = dnsCmd.name
ResultRight == dnsCmd.at # "none" /\ dnsGot /\ ~dnsStale => dnsLast = dnsCmd.name
DnsRight == DnsTypes /\ CommandLooksUp /\ QueriesRight /\ ResultRight /\ AnswersTheQuestion

LEMMA QueryMade ==
  ASSUME NEW a \in {"none", "resolve", "wait"}, NEW n \in DnsNames \cup {NoName},
         NEW t \in 0 .. 2, NEW s \in 0 .. 3
  PROVE  [at |-> a, name |-> n, try |-> t, send |-> s] \in QueryType
BY DEF QueryType

LEMMA NoQueryFacts ==
  /\ NoQuery \in QueryType /\ NoQuery.at = "none" /\ NoQuery.send = 0
  /\ NoName \notin DnsNames
<1>1. "none" \in {"none", "resolve", "wait"} /\ 0 \in 0 .. 2 /\ 0 \in 0 .. 3
  OBVIOUS
<1>2. NoQuery \in QueryType
  BY <1>1, QueryMade DEF NoQuery
<1> QED BY <1>2, DnsAssumption DEF NoQuery, NoName

LEMMA DnsStarts == DnsInit => DnsRight
<1> SUFFICES ASSUME DnsInit PROVE DnsRight
  OBVIOUS
<1>1. dnsGot \in BOOLEAN /\ dnsStale \in BOOLEAN /\ dnsGot = FALSE
  BY DEF DnsInit
<1>2. dnsId \in Nat \ {0} /\ dnsPending = dnsId - 1
  BY DEF DnsInit
<1>3. DnsTypes
  BY <1>1, <1>2, NoQueryFacts DEF DnsInit, DnsTypes
<1> QED BY <1>1, <1>3, NoQueryFacts
    DEF DnsInit, DnsRight, CommandLooksUp, Sent, QueriesRight, ResultRight, AnswersTheQuestion

(* dns_lookup begins, for the command or for its second attempt.             *)
LEMMA LookupRight ==
  ASSUME DnsRight, NEW n \in DnsNames, NEW t \in {1, 2}, Lookup(n, t),
         dnsId' = dnsId, dnsPending' = dnsPending, dnsAsked' = dnsAsked,
         dnsStale' \in BOOLEAN, AnswersTheQuestion'
  PROVE  DnsRight'
<1>1. dnsGot' = FALSE /\ dnsCmd' = [at |-> "resolve", name |-> n, try |-> t, send |-> 1]
  BY DEF Lookup, Reset
<1>2. dnsCmd' \in QueryType
  <2>1. n \in DnsNames \cup {NoName} /\ t \in 0 .. 2 /\ 1 \in 0 .. 3
    OBVIOUS
  <2> QED BY <1>1, <2>1, QueryMade
<1>3. DnsTypes'
  <2>1. dnsGot' \in BOOLEAN
    BY <1>1
  <2> QED BY <1>1, <1>2, <2>1 DEF DnsRight, DnsTypes
<1> QED BY <1>1, <1>3 DEF DnsRight, CommandLooksUp, Sent, QueriesRight, ResultRight

LEMMA DnsKept ==
  ASSUME DnsRight, [DnsNext]_dnsVars
  PROVE  DnsRight'
<1>1. ASSUME NEW n \in DnsNames, DnsCommand(n) PROVE DnsRight'
  <2>1. /\ Lookup(n, 1) /\ dnsStale' = FALSE /\ dnsSaid' = [name |-> NoName, ip |-> NoName]
        /\ dnsId' = dnsId /\ dnsPending' = dnsPending /\ dnsAsked' = dnsAsked
    BY <1>1 DEF DnsCommand
  <2>2. AnswersTheQuestion' /\ dnsStale' \in BOOLEAN
    BY <2>1 DEF AnswersTheQuestion
  <2> QED BY <2>1, <2>2, LookupRight
<1>2. ASSUME NEW ok \in BOOLEAN, DnsSend(ok) PROVE DnsRight'
  <2>1. /\ dnsPending' = dnsId /\ dnsId' = dnsId + 1 /\ dnsCmd.at = "resolve"
        /\ dnsAsked' = IF ok THEN dnsAsked \cup {[id |-> dnsId, name |-> dnsCmd.name]} ELSE dnsAsked
        /\ dnsCmd' = IF ok \/ dnsCmd.send = 2 THEN [dnsCmd EXCEPT !.at = "wait"]
                     ELSE [dnsCmd EXCEPT !.send = 2]
        /\ UNCHANGED <<dnsGot, dnsLast, dnsSaid, dnsStale>>
    BY <1>2 DEF DnsSend
  <2>2. dnsCmd.name \in DnsNames /\ dnsCmd.try \in {1, 2} /\ dnsCmd.send \in {1, 2}
    BY <2>1 DEF DnsRight, CommandLooksUp
  <2>3. /\ dnsCmd' \in QueryType /\ dnsCmd'.name = dnsCmd.name /\ dnsCmd'.try = dnsCmd.try
        /\ dnsCmd'.at \in {"wait", "resolve"} /\ dnsCmd'.send \in {1, 2}
        /\ dnsCmd'.at = "resolve" => dnsCmd'.send = 2
    BY <2>1, <2>2 DEF DnsRight, DnsTypes, QueryType
  <2>4. dnsAsked' \in SUBSET [id : Nat, name : DnsNames]
    BY <2>1, <2>2 DEF DnsRight, DnsTypes
  <2>5. DnsTypes'
    <3>1. dnsId' \in Nat \ {0} /\ dnsPending' = dnsId' - 1
      BY <2>1 DEF DnsRight, DnsTypes
    <3> QED BY <2>1, <2>3, <2>4, <3>1 DEF DnsRight, DnsTypes
  <2>6. QueriesRight'
    <3>1. ASSUME NEW q \in dnsAsked'
          PROVE  q.id < dnsId' /\ (q.id = dnsPending' => q.name = dnsCmd'.name)
      <4>1. CASE q \in dnsAsked
        <5>1. q.id < dnsId /\ dnsId \in Nat /\ q.id \in Nat
          BY <4>1 DEF DnsRight, DnsTypes, QueriesRight
        <5> QED BY <2>1, <5>1
      <4>2. CASE q \notin dnsAsked
        <5>1. q = [id |-> dnsId, name |-> dnsCmd.name]
          BY <2>1, <4>2
        <5> QED BY <2>1, <2>3, <5>1 DEF DnsRight, DnsTypes
      <4> QED BY <4>1, <4>2
    <3> QED BY <3>1 DEF QueriesRight
  <2>7. CommandLooksUp'
    BY <2>2, <2>3 DEF CommandLooksUp
  <2>8. ResultRight' /\ AnswersTheQuestion'
    BY <2>1, <2>3 DEF DnsRight, ResultRight, AnswersTheQuestion
  <2> QED BY <2>5, <2>6, <2>7, <2>8 DEF DnsRight
<1>3. ASSUME NEW q \in dnsAsked, dns_input(q) PROVE DnsRight'
  <2>1. /\ q.id = dnsPending /\ dnsGot' = TRUE /\ dnsLast' = q.name
        /\ dnsStale' = (dnsStale \/ (dnsCmd.at = "resolve" /\ dnsCmd.send = 1) \/ dnsCmd.send = 3)
        /\ UNCHANGED <<dnsId, dnsPending, dnsCmd, dnsAsked, dnsSaid>>
    BY <1>3 DEF dns_input, Matching
  <2>2. q.name \in DnsNames
    BY DEF DnsRight, DnsTypes
  <2>3. dnsStale' \in BOOLEAN /\ dnsGot' \in BOOLEAN
    BY <2>1
  <2>4. DnsTypes'
    BY <2>1, <2>2, <2>3 DEF DnsRight, DnsTypes
  <2>5. ResultRight'
    <3>1. CASE Sent
      BY <2>1, <3>1 DEF DnsRight, QueriesRight, ResultRight
    <3>2. CASE dnsCmd.at # "none" /\ ~Sent
      <4>1. dnsCmd.send \in {1, 2, 3} /\ (dnsCmd.at = "resolve" => dnsCmd.send \in {1, 2})
        BY <3>2 DEF DnsRight, CommandLooksUp
      <4>2. (dnsCmd.at = "resolve" /\ dnsCmd.send = 1) \/ dnsCmd.send = 3
        BY <3>2, <4>1 DEF Sent
      <4>3. dnsStale'
        BY <2>1, <4>2, Zenon
      <4> QED BY <4>3, Zenon DEF ResultRight
    <3> QED BY <2>1, <3>1, <3>2 DEF ResultRight
  <2> QED BY <2>1, <2>4, <2>5 DEF DnsRight, CommandLooksUp, QueriesRight, Sent, AnswersTheQuestion
<1>4. CASE DnsNoPbuf
  <2>1. /\ dnsCmd.at = "resolve"
        /\ dnsCmd' = [dnsCmd EXCEPT !.at = "wait", !.send = IF @ = 1 THEN 3 ELSE @]
        /\ UNCHANGED <<dnsId, dnsPending, dnsGot, dnsLast, dnsAsked, dnsSaid, dnsStale>>
    BY <1>4 DEF DnsNoPbuf
  <2>2. /\ dnsCmd' \in QueryType /\ dnsCmd'.name = dnsCmd.name /\ dnsCmd'.try = dnsCmd.try
        /\ dnsCmd'.at = "wait" /\ dnsCmd'.send = IF dnsCmd.send = 1 THEN 3 ELSE dnsCmd.send
    <3>1. dnsCmd \in QueryType
      BY DEF DnsRight, DnsTypes
    <3>2. PICK s \in 0 .. 3 : s = IF dnsCmd.send = 1 THEN 3 ELSE dnsCmd.send
      BY <3>1 DEF QueryType
    <3>3. dnsCmd' = [dnsCmd EXCEPT !.at = "wait", !.send = s]
      BY <2>1, <3>1, <3>2 DEF QueryType
    <3>4. [dnsCmd EXCEPT !.at = "wait", !.send = s] \in QueryType
      BY <3>1 DEF QueryType
    <3> QED BY <3>1, <3>2, <3>3, <3>4 DEF QueryType
  <2>3. DnsTypes'
    BY <2>1, <2>2 DEF DnsRight, DnsTypes
  <2> QED BY <2>1, <2>2, <2>3
      DEF DnsRight, CommandLooksUp, QueriesRight, Sent, ResultRight, AnswersTheQuestion
<1>5. CASE DnsPrints
  <2>1. /\ dnsCmd.at = "wait" /\ dnsGot /\ dnsCmd' = NoQuery
        /\ dnsSaid' = [name |-> dnsCmd.name, ip |-> dnsLast]
        /\ UNCHANGED <<dnsId, dnsPending, dnsGot, dnsLast, dnsAsked, dnsStale>>
    BY <1>5 DEF DnsPrints
  <2>2. DnsTypes'
    BY <2>1, NoQueryFacts DEF DnsRight, DnsTypes
  <2> QED BY <2>1, <2>2, NoQueryFacts
      DEF DnsRight, CommandLooksUp, QueriesRight, Sent, ResultRight, AnswersTheQuestion
<1>6. CASE DnsTimeout
  <2>1. /\ dnsCmd.at = "wait"
        /\ UNCHANGED <<dnsId, dnsPending, dnsAsked, dnsSaid, dnsStale>>
    BY <1>6 DEF DnsTimeout
  <2>2. AnswersTheQuestion' /\ dnsStale' \in BOOLEAN
    BY <2>1 DEF DnsRight, DnsTypes, AnswersTheQuestion
  <2>3. CASE dnsCmd.try = 1
    <3>1. Lookup(dnsCmd.name, 2) /\ dnsCmd.name \in DnsNames
      BY <1>6, <2>1, <2>3 DEF DnsTimeout, DnsRight, CommandLooksUp
    <3> QED BY <2>1, <2>2, <3>1, LookupRight
  <2>4. CASE dnsCmd.try # 1
    <3>1. dnsCmd' = NoQuery /\ UNCHANGED <<dnsGot, dnsLast>>
      BY <1>6, <2>4 DEF DnsTimeout
    <3>2. DnsTypes'
      BY <2>1, <3>1, NoQueryFacts DEF DnsRight, DnsTypes
    <3> QED BY <2>1, <2>2, <3>1, <3>2, NoQueryFacts
        DEF DnsRight, CommandLooksUp, QueriesRight, Sent, ResultRight
  <2> QED BY <2>3, <2>4
<1>7. CASE UNCHANGED dnsVars
  BY <1>7 DEF dnsVars, DnsRight, DnsTypes, CommandLooksUp, QueriesRight, Sent, ResultRight,
              AnswersTheQuestion
<1> QED BY <1>1, <1>2, <1>3, <1>4, <1>5, <1>6, <1>7 DEF DnsNext

LEMMA DnsShown == DnsRight => DnsTypeOK /\ AnswersTheQuestion
BY DEF DnsRight, DnsTypes, QueryType, DnsTypeOK

-----------------------------------------------------------------------------
(* Link: an address is cached once; the shell's packet goes to the right hop *)
(* and, unless the interrupt came between, on the device of its route.       *)
SlotType == [ip : Peers \cup {"none"}, mac : 0 .. 2, tick : Nat]
OutType == [at : {"routed", "framed"}, dst : Peers \cup {"bcast"}, hop : Peers \cup {"bcast"},
            want : 0 .. 2, smac : 0 .. 2, raced : BOOLEAN]
LinkTypes ==
  /\ arpCache \in [1 .. ArpSlots -> SlotType] /\ arpSaid \in [Peers -> 0 .. 2]
  /\ linkNow \in Nat /\ defDev \in {0, 1}
  /\ linkOut = NoOut \/ linkOut \in OutType
Seen(i) == arpCache[i].tick <= linkNow
CacheTimely == \A i \in 1 .. ArpSlots : Seen(i)
CachedOnce ==
  \A i, j \in 1 .. ArpSlots : arpCache[i].ip = arpCache[j].ip /\ arpCache[i].ip # "none" => i = j
CachedLatest ==
  \A i \in 1 .. ArpSlots : arpCache[i].ip # "none" => arpCache[i].mac = arpSaid[arpCache[i].ip]
GatewayCached == gwKnown => \E i \in 1 .. ArpSlots : arpCache[i].ip = LinkGw[0]
HopRight(dst, hop, want) ==
  want \in {0, 1} /\ (LinkNet[hop] = want \/ (LinkNet[dst] # want /\ hop = LinkGw[want]))
PacketRight ==
  Mid /\ linkOut.dst # "bcast" =>
    /\ HopRight(linkOut.dst, linkOut.hop, linkOut.want)
    /\ ~linkOut.raced => defDev = linkOut.want
    /\ ~linkOut.raced /\ linkOut.at = "framed" => linkOut.smac = linkOut.want
CacheRight == CacheTimely /\ CachedOnce /\ CachedLatest /\ GatewayCached
LinkRight == LinkTypes /\ CacheRight /\ PacketRight /\ LeavesByItsRoute /\ PbufsFreedOnce

LEMMA LinkNames ==
  /\ NoSlot \in SlotType /\ NoSlot.ip = "none" /\ NoSlot.tick = 0
  /\ "none" \notin Peers /\ "bcast" \notin Peers /\ LinkGw[0] \in Peers /\ LinkGw[1] \in Peers
  /\ NoOut.at = "idle" /\ \A o \in OutType : o.at # "idle"
BY LinkAssumption DEF NoSlot, SlotType, Peers, NoOut, OutType

LEMMA OutMade ==
  ASSUME NEW d \in Peers \cup {"bcast"}, NEW h \in Peers \cup {"bcast"}, NEW w \in 0 .. 2
  PROVE  [at |-> "routed", dst |-> d, hop |-> h, want |-> w, smac |-> 2, raced |-> FALSE]
            \in OutType
BY DEF OutType

LEMMA LinkStarts == LinkInit => LinkRight
<1> SUFFICES ASSUME LinkInit PROVE LinkRight
  OBVIOUS
<1>1. LinkTypes
  BY LinkNames, LinkAssumption DEF LinkInit, LinkTypes
<1>2. CacheRight
  BY LinkNames, LinkAssumption
     DEF LinkInit, CacheRight, CacheTimely, Seen, CachedOnce, CachedLatest, GatewayCached
<1> QED BY <1>1, <1>2, LinkNames
    DEF LinkInit, LinkRight, PacketRight, Mid, LeavesByItsRoute, PbufsFreedOnce

(* ip4_output's route is an interface, its next hop on that interface or     *)
(* that interface's gateway.                                                 *)
LEMMA RouteRight ==
  ASSUME NEW dst \in Peers
  PROVE  /\ Route(dst) \in {0, 1} /\ NextHop(dst) \in Peers
         /\ HopRight(dst, NextHop(dst), Route(dst))
<1>1. Route(dst) \in {0, 1}
  BY DEF Route
<1>2. LinkGw[Route(dst)] \in Peers
  BY <1>1, LinkNames
<1> QED BY <1>1, <1>2 DEF NextHop, HopRight

LEMMA NoFault ==
  ASSUME NEW dst \in Peers, NEW hop, NEW want, HopRight(dst, hop, want)
  PROVE  Faults(dst, hop, want, want, want) = {}
BY DEF Faults, HopRight

(* A packet answered in the interrupt leaves by its route.                   *)
LEMMA AnswerRight ==
  ASSUME LinkRight, NEW ip \in Peers, AnswerTo(ip)
  PROVE  defDev' \in {0, 1} /\ linkWrong' = {}
<1>1. ip # "bcast" /\ defDev' = Route(ip)
  BY LinkNames DEF AnswerTo, DevFor
<1>2. linkWrong' = Faults(ip, NextHop(ip), Route(ip), Route(ip), Route(ip))
  BY <1>1 DEF AnswerTo, LinkRight, LeavesByItsRoute
<1> QED BY <1>1, <1>2, RouteRight, NoFault

(* The slot arp_update_cache fills: the address's own, and otherwise one     *)
(* that is not the gateway's.                                                *)
LEMMA VictimRight ==
  ASSUME LinkRight, ArpVictim # 0
  PROVE  ArpVictim \in 1 .. ArpSlots /\ ~Keeps(ArpVictim)
<1> DEFINE may == {i \in DOMAIN arpCache : ~Keeps(i)}
           old == {i \in may : \A j \in may : arpCache[i].tick <= arpCache[j].tick}
<1>1. /\ DOMAIN arpCache = 1 .. ArpSlots /\ ArpSlots \in Nat
      /\ \A i \in 1 .. ArpSlots : arpCache[i].tick \in Nat
  BY LinkAssumption DEF LinkRight, LinkTypes, SlotType
<1>2. may # {} /\ ArpVictim = CHOOSE i \in old : \A j \in old : j <= i
  BY DEF ArpVictim
<1>3. may \in SUBSET (1 .. ArpSlots) /\ old \in SUBSET (1 .. ArpSlots) /\ old \in SUBSET may
  BY <1>1
<1>4. old # {}
  <2>1. PICK T : T = {arpCache[i].tick : i \in may}
    OBVIOUS
  <2>2. T \in SUBSET Nat /\ T # {}
    BY <1>1, <1>2, <1>3, <2>1
  <2>3. PICK t \in T : \A u \in T : t <= u
    BY <2>2, LeastNat
  <2>4. PICK i \in may : t = arpCache[i].tick
    BY <2>1, <2>3
  <2>5. \A j \in may : arpCache[i].tick <= arpCache[j].tick
    BY <2>1, <2>3, <2>4
  <2> QED BY <2>5
<1> HIDE DEF old
<1>5. ArpVictim \in old
  BY <1>1, <1>2, <1>3, <1>4, LastOf
<1>6. ArpVictim \in may
  BY <1>3, <1>5
<1> QED BY <1>3, <1>6

LEMMA SlotRight ==
  ASSUME LinkRight, NEW ip \in Peers, NEW s, s = ArpSlotFor(ip)
  PROVE  \/ s = 0 /\ \A i \in 1 .. ArpSlots : arpCache[i].ip # ip
         \/ s \in 1 .. ArpSlots /\ arpCache[s].ip = ip
         \/ /\ s \in 1 .. ArpSlots /\ ~Keeps(s)
            /\ \A i \in 1 .. ArpSlots : arpCache[i].ip # ip
<1> DEFINE own  == {i \in DOMAIN arpCache : arpCache[i].ip = ip}
           free == {i \in DOMAIN arpCache : arpCache[i] = NoSlot}
           pick == IF own # {} THEN own ELSE free
<1>1. DOMAIN arpCache = 1 .. ArpSlots /\ ArpSlots \in Nat
  BY LinkAssumption DEF LinkRight, LinkTypes
<1>2. CASE pick # {}
  <2>1. pick \in SUBSET (1 .. ArpSlots) /\ s = CHOOSE i \in pick : \A j \in pick : i <= j
    BY <1>1, <1>2 DEF ArpSlotFor
  <2> HIDE DEF pick
  <2>2. s \in pick
    BY <1>1, <1>2, <2>1, FirstOf
  <2>3. CASE own # {}
    BY <1>1, <2>2, <2>3 DEF pick
  <2>4. CASE own = {}
    <3>1. s \in 1 .. ArpSlots /\ arpCache[s] = NoSlot
      BY <1>1, <2>2, <2>4 DEF pick
    <3>2. ~Keeps(s)
      BY <3>1, LinkNames DEF Keeps
    <3> QED BY <1>1, <2>4, <3>1, <3>2
  <2> QED BY <2>3, <2>4
<1>3. CASE pick = {}
  <2>1. own = {} /\ s = ArpVictim
    BY <1>3 DEF ArpSlotFor
  <2>2. \A i \in 1 .. ArpSlots : arpCache[i].ip # ip
    BY <1>1, <2>1
  <2> QED BY <2>1, <2>2, VictimRight
<1> QED BY <1>2, <1>3

(* arp_input leaves the cache right: the gateway's entry is never the one    *)
(* evicted, and an address never has two.                                    *)
LEMMA CacheKept ==
  ASSUME LinkRight, NEW ip \in Peers, NEW mac \in 0 .. 2,
         arpCache' = arp_update_cache(ip, mac), arpSaid' = [arpSaid EXCEPT ![ip] = mac],
         gwKnown' = (gwKnown \/ \E i \in DOMAIN arpCache' : arpCache'[i].ip = LinkGw[0]),
         linkNow' = linkNow
  PROVE  /\ arpCache' \in [1 .. ArpSlots -> SlotType] /\ arpSaid' \in [Peers -> 0 .. 2]
         /\ CacheRight'
<1>1. /\ arpCache \in [1 .. ArpSlots -> SlotType] /\ arpSaid \in [Peers -> 0 .. 2]
      /\ linkNow \in Nat
  BY DEF LinkRight, LinkTypes
<1>2. arpSaid' \in [Peers -> 0 .. 2]
  BY <1>1
<1>3. PICK s : s = ArpSlotFor(ip)
  OBVIOUS
<1>4. CASE s = 0
  <2>1. arpCache' = arpCache
    BY <1>3, <1>4 DEF arp_update_cache
  <2>2. \A i \in 1 .. ArpSlots : arpCache[i].ip # ip /\ arpCache[i].ip \in Peers \cup {"none"}
    <3>1. ~(0 \in 1 .. ArpSlots)
      BY LinkAssumption
    <3>2. \A i \in 1 .. ArpSlots : arpCache[i].ip # ip
      BY <1>3, <1>4, <3>1, SlotRight
    <3> QED BY <1>1, <3>2 DEF SlotType
  <2>3. CachedLatest'
    BY <1>1, <2>1, <2>2 DEF LinkRight, CacheRight, CachedLatest
  <2>4. GatewayCached'
    BY <1>1, <2>1 DEF LinkRight, CacheRight, GatewayCached
  <2>5. CachedOnce' /\ CacheTimely'
    BY <2>1 DEF LinkRight, CacheRight, CachedOnce, CacheTimely, Seen
  <2> QED BY <1>1, <1>2, <2>1, <2>3, <2>4, <2>5 DEF CacheRight
<1>5. CASE s # 0
  <2>1. /\ s \in 1 .. ArpSlots
        /\ arpCache[s].ip = ip \/ (~Keeps(s) /\ \A i \in 1 .. ArpSlots : arpCache[i].ip # ip)
    BY <1>3, <1>5, SlotRight
  <2>2. PICK e : e = [ip |-> ip, mac |-> mac, tick |-> linkNow]
    OBVIOUS
  <2>3. e \in SlotType /\ e.ip = ip /\ e.mac = mac /\ e.tick = linkNow
    BY <1>1, <2>2 DEF SlotType
  <2>4. arpCache' = [arpCache EXCEPT ![s] = e]
    BY <1>3, <1>5, <2>2 DEF arp_update_cache
  <2>5. /\ arpCache' \in [1 .. ArpSlots -> SlotType] /\ DOMAIN arpCache' = 1 .. ArpSlots
        /\ arpCache'[s] = e
        /\ \A i \in 1 .. ArpSlots : i # s => arpCache'[i] = arpCache[i]
    BY <1>1, <2>1, <2>3, <2>4
  <2>6. \A i \in 1 .. ArpSlots : i # s => arpCache[i].ip # ip
    BY <2>1, LinkNames DEF LinkRight, CacheRight, CachedOnce
  <2>7. CacheTimely'
    BY <1>1, <2>3, <2>5 DEF LinkRight, CacheRight, CacheTimely, Seen
  <2>8. CachedOnce'
    BY <2>3, <2>5, <2>6 DEF LinkRight, CacheRight, CachedOnce
  <2>9. CachedLatest'
    <3>1. ASSUME NEW i \in 1 .. ArpSlots, arpCache'[i].ip # "none"
          PROVE  arpCache'[i].mac = arpSaid'[arpCache'[i].ip]
      <4>1. CASE i = s
        BY <1>1, <2>3, <2>5, <4>1
      <4>2. CASE i # s
        <5>1. /\ arpCache[i].ip \in Peers /\ arpCache[i].ip # ip
              /\ arpCache[i].mac = arpSaid[arpCache[i].ip] /\ arpCache'[i] = arpCache[i]
          BY <1>1, <2>5, <2>6, <3>1, <4>2 DEF LinkRight, CacheRight, CachedLatest, SlotType
        <5> QED BY <1>1, <5>1
      <4> QED BY <4>1, <4>2
    <3> QED BY <3>1 DEF CachedLatest
  <2>10. GatewayCached'
    <3>1. CASE gwKnown
      <4>1. PICK g \in 1 .. ArpSlots : arpCache[g].ip = LinkGw[0]
        BY <3>1 DEF LinkRight, CacheRight, GatewayCached
      <4>2. CASE g = s
        BY <2>1, <2>3, <2>5, <4>1, <4>2 DEF Keeps, GatewayCached
      <4>3. CASE g # s
        BY <2>5, <4>1, <4>3 DEF GatewayCached
      <4> QED BY <4>2, <4>3
    <3>2. CASE ~gwKnown
      BY <2>5, <3>2 DEF GatewayCached
    <3> QED BY <3>1, <3>2
  <2> QED BY <1>2, <2>5, <2>7, <2>8, <2>9, <2>10 DEF CacheRight
<1> QED BY <1>4, <1>5

(* A step that leaves the cache alone keeps it right.                        *)
LEMMA CacheSame ==
  ASSUME LinkRight, arpCache' = arpCache, arpSaid' = arpSaid, gwKnown' = gwKnown,
         linkNow' \in Nat, linkNow <= linkNow'
  PROVE  CacheRight'
<1>1. CacheTimely'
  <2>1. ASSUME NEW i \in 1 .. ArpSlots PROVE arpCache[i].tick <= linkNow'
    <3>1. arpCache[i].tick \in Nat /\ arpCache[i].tick <= linkNow /\ linkNow \in Nat
      BY DEF LinkRight, LinkTypes, CacheRight, CacheTimely, Seen, SlotType
    <3> QED BY <3>1
  <2> QED BY <2>1 DEF CacheTimely, Seen
<1> QED BY <1>1 DEF LinkRight, CacheRight, CachedOnce, CachedLatest, GatewayCached

(* The interrupt between the shell's steps leaves a right packet, which is   *)
(* then one the race may have moved.                                         *)
LEMMA InterruptKeeps ==
  ASSUME LinkRight, linkOut' = Interrupted, pbLive' = pbLive,
         defDev' \in {0, 1}, linkWrong' = {}
  PROVE  /\ linkOut' = NoOut \/ linkOut' \in OutType
         /\ PacketRight' /\ LeavesByItsRoute' /\ PbufsFreedOnce'
<1>1. CASE Mid
  <2>1. linkOut \in OutType /\ linkOut' = [linkOut EXCEPT !.raced = TRUE]
    BY <1>1, LinkNames DEF LinkRight, LinkTypes, Interrupted, Mid
  <2>2. /\ linkOut' \in OutType /\ linkOut'.raced = TRUE /\ linkOut'.at = linkOut.at
        /\ linkOut'.dst = linkOut.dst /\ linkOut'.hop = linkOut.hop /\ linkOut'.want = linkOut.want
    BY <2>1 DEF OutType
  <2>3. PacketRight'
    <3>1. linkOut'.raced
      BY <2>2
    <3> QED BY <1>1, <2>2, <3>1, Zenon DEF LinkRight, PacketRight, HopRight, Mid
  <2> QED BY <1>1, <2>2, <2>3 DEF LinkRight, LeavesByItsRoute, PbufsFreedOnce, Mid
<1>2. CASE ~Mid
  <2>1. linkOut' = linkOut
    BY <1>2 DEF Interrupted
  <2> QED BY <1>2, <2>1
      DEF LinkRight, LinkTypes, PacketRight, LeavesByItsRoute, PbufsFreedOnce, Mid
<1> QED BY <1>1, <1>2

(* What the shell's ip4_output chooses goes where it should.                 *)
LEMMA ShellKeeps ==
  ASSUME LinkRight, \/ \E p \in Peers : ShellRoutes(p)
                    \/ ShellRoutes("bcast")
                    \/ \E mem \in BOOLEAN : ShellResolves(mem)
                    \/ ShellSends
  PROVE  LinkRight'
<1>0. LinkTypes /\ CacheRight /\ PacketRight /\ linkWrong = {} /\ pbLive = IF Mid THEN 1 ELSE 0
  BY DEF LinkRight, LeavesByItsRoute, PbufsFreedOnce
<1>1. ASSUME NEW p \in Peers \cup {"bcast"}, ShellRoutes(p) PROVE LinkRight'
  <2> DEFINE hop  == IF p = "bcast" THEN p ELSE NextHop(p)
             want == IF p = "bcast" THEN 2 ELSE Route(p)
  <2>1. /\ ~Mid /\ defDev' = DevFor(p) /\ pbLive' = pbLive + 1
        /\ linkOut' = [at |-> "routed", dst |-> p, hop |-> hop, want |-> want,
                       smac |-> 2, raced |-> FALSE]
        /\ UNCHANGED <<arpCache, if0Up, linkNow, linkWrong, arpSaid, gwKnown, loopLost>>
    BY <1>1 DEF ShellRoutes
  <2>2. /\ hop \in Peers \cup {"bcast"} /\ want \in 0 .. 2 /\ DevFor(p) \in {0, 1}
        /\ p # "bcast" => HopRight(p, hop, want) /\ DevFor(p) = want
    BY <1>0, RouteRight, LinkNames DEF DevFor, LinkTypes
  <2> HIDE DEF hop, want
  <2>3. /\ linkOut' \in OutType /\ linkOut'.at = "routed" /\ linkOut'.dst = p
        /\ linkOut'.hop = hop /\ linkOut'.want = want
    <3>1. linkOut' \in OutType
      BY <2>1, <2>2, OutMade
    <3> QED BY <2>1, <3>1
  <2>4. CacheRight'
    BY <1>0, <2>1, CacheSame DEF LinkTypes
  <2>5. LinkTypes'
    BY <1>0, <2>1, <2>2, <2>3 DEF LinkTypes
  <2>6. PacketRight'
    BY <2>1, <2>2, <2>3 DEF PacketRight, HopRight
  <2>7. PbufsFreedOnce' /\ LeavesByItsRoute'
    BY <1>0, <2>1, <2>3 DEF PbufsFreedOnce, LeavesByItsRoute, Mid
  <2> QED BY <2>4, <2>5, <2>6, <2>7 DEF LinkRight
<1>2. ASSUME NEW mem \in BOOLEAN, ShellResolves(mem) PROVE LinkRight'
  <2>1. /\ linkOut.at = "routed"
        /\ UNCHANGED <<arpCache, defDev, if0Up, linkNow, arpSaid, gwKnown, loopLost>>
    BY <1>2 DEF ShellResolves
  <2>2. Mid /\ linkOut \in OutType /\ pbLive = 1
    BY <1>0, <2>1, LinkNames DEF LinkTypes, Mid
  <2>3. CacheRight'
    BY <1>0, <2>1, CacheSame DEF LinkTypes
  <2>4. CASE linkOut.dst = "bcast" \/ MacOf(linkOut.hop) # {}
    <3>1. /\ linkOut' = [linkOut EXCEPT !.at = "framed", !.smac = defDev]
          /\ UNCHANGED <<linkWrong, pbLive>>
      BY <1>2, <2>4 DEF ShellResolves
    <3>2. /\ linkOut' \in OutType /\ linkOut'.at = "framed" /\ linkOut'.dst = linkOut.dst
          /\ linkOut'.hop = linkOut.hop /\ linkOut'.want = linkOut.want
          /\ linkOut'.smac = defDev /\ linkOut'.raced = linkOut.raced
      <4>1. defDev \in 0 .. 2
        BY <1>0 DEF LinkTypes
      <4>2. linkOut' \in OutType
        BY <2>2, <3>1, <4>1 DEF OutType
      <4> QED BY <2>2, <3>1, <4>2 DEF OutType
    <3>3. LinkTypes'
      BY <1>0, <2>1, <3>2 DEF LinkTypes
    <3>4. PacketRight'
      BY <1>0, <2>1, <2>2, <3>2 DEF PacketRight, HopRight
    <3>5. PbufsFreedOnce' /\ LeavesByItsRoute'
      BY <1>0, <2>2, <3>1, <3>2 DEF PbufsFreedOnce, LeavesByItsRoute, Mid
    <3> QED BY <2>3, <3>3, <3>4, <3>5 DEF LinkRight
  <2>5. CASE ~(linkOut.dst = "bcast" \/ MacOf(linkOut.hop) # {})
    <3>1. /\ linkOut' = NoOut /\ pbLive' = pbLive - 1
          /\ linkWrong' = IF mem /\ ~linkOut.raced
                THEN linkWrong \cup Faults(linkOut.dst, linkOut.hop, defDev, defDev, linkOut.want)
                ELSE linkWrong
      BY <1>2, <2>5 DEF ShellResolves
    <3>2. linkWrong' = {}
      <4>1. CASE linkOut.raced
        BY <1>0, <3>1, <4>1
      <4>2. CASE ~linkOut.raced
        <5>1. /\ linkOut.dst \in Peers /\ HopRight(linkOut.dst, linkOut.hop, linkOut.want)
              /\ defDev = linkOut.want
          BY <1>0, <2>2, <2>5, <4>2 DEF PacketRight, OutType
        <5>2. Faults(linkOut.dst, linkOut.hop, defDev, defDev, linkOut.want) = {}
          BY <5>1, NoFault
        <5> QED BY <1>0, <3>1, <5>2
      <4> QED BY <4>1, <4>2
    <3>3. LinkTypes' /\ PacketRight'
      BY <1>0, <2>1, <3>1, LinkNames DEF LinkTypes, PacketRight, Mid
    <3>4. PbufsFreedOnce' /\ LeavesByItsRoute'
      BY <2>2, <3>1, <3>2, LinkNames DEF PbufsFreedOnce, LeavesByItsRoute, Mid
    <3> QED BY <2>3, <3>3, <3>4 DEF LinkRight
  <2> QED BY <2>4, <2>5
<1>3. CASE ShellSends
  <2>1. /\ linkOut.at = "framed" /\ linkOut' = NoOut /\ pbLive' = pbLive - 1
        /\ linkWrong' = IF linkOut.raced \/ linkOut.dst = "bcast" THEN linkWrong
              ELSE linkWrong \cup Faults(linkOut.dst, linkOut.hop, defDev, linkOut.smac, linkOut.want)
        /\ UNCHANGED <<arpCache, defDev, if0Up, linkNow, arpSaid, gwKnown, loopLost>>
    BY <1>3 DEF ShellSends, FramePbuf
  <2>2. Mid /\ linkOut \in OutType /\ pbLive = 1
    BY <1>0, <2>1, LinkNames DEF LinkTypes, Mid
  <2>3. CacheRight'
    BY <1>0, <2>1, CacheSame DEF LinkTypes
  <2>4. linkWrong' = {}
    <3>1. CASE linkOut.raced \/ linkOut.dst = "bcast"
      BY <1>0, <2>1, <3>1
    <3>2. CASE ~(linkOut.raced \/ linkOut.dst = "bcast")
      <4>1. /\ linkOut.dst \in Peers /\ HopRight(linkOut.dst, linkOut.hop, linkOut.want)
            /\ defDev = linkOut.want /\ linkOut.smac = linkOut.want
        BY <1>0, <2>1, <2>2, <3>2 DEF PacketRight, OutType
      <4>2. Faults(linkOut.dst, linkOut.hop, defDev, linkOut.smac, linkOut.want) = {}
        BY <4>1, NoFault
      <4> QED BY <1>0, <2>1, <4>2
    <3> QED BY <3>1, <3>2
  <2>5. LinkTypes' /\ PacketRight'
    BY <1>0, <2>1, LinkNames DEF LinkTypes, PacketRight, Mid
  <2>6. PbufsFreedOnce' /\ LeavesByItsRoute'
    BY <2>1, <2>2, <2>4, LinkNames DEF PbufsFreedOnce, LeavesByItsRoute, Mid
  <2> QED BY <2>3, <2>5, <2>6 DEF LinkRight
<1> QED BY <1>1, <1>2, <1>3

(* The whole component: the interrupt, the shell, the clock, the address.    *)
LEMMA LinkKept ==
  ASSUME LinkRight, [LinkNext]_linkVars
  PROVE  LinkRight'
<1>0. /\ LinkTypes /\ CacheRight /\ PacketRight /\ linkWrong = {} /\ linkNow \in Nat
      /\ pbLive = IF Mid THEN 1 ELSE 0
  BY DEF LinkRight, LinkTypes, LeavesByItsRoute, PbufsFreedOnce
<1>1. ASSUME NEW p \in Neighbours, NEW mac \in Macs, NEW op \in {"request", "reply"},
             NEW dst \in Own \cup {"other"}, NEW dev \in {0, 1}, arp_input(p, mac, op, dst, dev)
      PROVE  LinkRight'
  <2>1. /\ arpCache' = arp_update_cache(p, mac) /\ arpSaid' = [arpSaid EXCEPT ![p] = mac]
        /\ gwKnown' = (gwKnown \/ \E i \in DOMAIN arpCache' : arpCache'[i].ip = LinkGw[0])
        /\ linkOut' = Interrupted /\ linkNow' = linkNow
    BY <1>1 DEF arp_input
  <2>2. pbLive' = pbLive
    BY <1>0, <1>1 DEF arp_input, ArpPbuf
  <2>3. defDev' \in {0, 1} /\ linkWrong' = {}
    BY <1>0, <1>1 DEF arp_input, ReplyDev, LinkTypes
  <2>4. p \in Peers /\ mac \in 0 .. 2
    BY DEF Neighbours, Macs
  <2>5. /\ arpCache' \in [1 .. ArpSlots -> SlotType] /\ arpSaid' \in [Peers -> 0 .. 2]
        /\ CacheRight'
    BY <2>1, <2>4, CacheKept
  <2>6. /\ linkOut' = NoOut \/ linkOut' \in OutType
        /\ PacketRight' /\ LeavesByItsRoute' /\ PbufsFreedOnce'
    BY <2>1, <2>2, <2>3, InterruptKeeps
  <2>7. LinkTypes'
    BY <1>0, <2>1, <2>3, <2>5, <2>6 DEF LinkTypes
  <2> QED BY <2>5, <2>6, <2>7 DEF LinkRight
<1>2. ASSUME NEW p \in Peers, NEW proto, ip4_input(p, proto) PROVE LinkRight'
  <2>1. /\ linkOut' = Interrupted
        /\ UNCHANGED <<arpCache, if0Up, linkNow, pbLive, arpSaid, gwKnown, loopLost>>
        /\ AnswerTo(p) \/ UNCHANGED <<defDev, linkWrong>>
    BY <1>2 DEF ip4_input, icmp_input, udp_input, Consumed
  <2>2. defDev' \in {0, 1} /\ linkWrong' = {}
    BY <1>0, <2>1, AnswerRight DEF LinkTypes
  <2>3. CacheRight'
    BY <1>0, <2>1, CacheSame
  <2>4. /\ linkOut' = NoOut \/ linkOut' \in OutType
        /\ PacketRight' /\ LeavesByItsRoute' /\ PbufsFreedOnce'
    BY <2>1, <2>2, InterruptKeeps
  <2>5. LinkTypes'
    BY <1>0, <2>1, <2>2, <2>4 DEF LinkTypes
  <2> QED BY <2>3, <2>4, <2>5 DEF LinkRight
<1>3. ASSUME \/ \E dst \in Own \cup {"lo"} : ShellLoops(dst)
             \/ SetIf0 \/ LinkTick \/ UNCHANGED linkVars
      PROVE  LinkRight'
  <2>1. /\ UNCHANGED <<arpCache, defDev, linkOut, pbLive, linkWrong, arpSaid, gwKnown>>
        /\ linkNow' \in {linkNow, linkNow + 1}
    BY <1>3 DEF ShellLoops, SetIf0, LinkTick, linkVars
  <2>2. linkNow' \in Nat /\ linkNow <= linkNow'
    BY <1>0, <2>1
  <2>3. CacheRight'
    BY <1>0, <2>1, <2>2, CacheSame
  <2> QED BY <1>0, <2>1, <2>2, <2>3
      DEF LinkRight, LinkTypes, PacketRight, Mid, LeavesByItsRoute, PbufsFreedOnce
<1> QED BY <1>1, <1>2, <1>3, ShellKeeps DEF LinkNext

LEMMA LinkShown == LinkRight =>
  LinkTypeOK /\ ArpTellsLatest /\ GatewayStays /\ LeavesByItsRoute /\ PbufsFreedOnce
<1> SUFFICES ASSUME LinkRight PROVE LinkTypeOK /\ ArpTellsLatest /\ GatewayStays
  BY DEF LinkRight
<1>1. DOMAIN arpCache = 1 .. ArpSlots /\ arpCache \in [1 .. ArpSlots -> SlotType]
  BY DEF LinkRight, LinkTypes
<1>2. LinkTypeOK
  BY <1>1, LinkNames
     DEF LinkRight, LinkTypes, LinkTypeOK, CacheRight, CacheTimely, Seen, SlotType, OutType
<1>3. ArpTellsLatest
  BY <1>1 DEF LinkRight, CacheRight, CachedOnce, CachedLatest, ArpTellsLatest
<1>4. GatewayStays
  BY <1>1 DEF LinkRight, CacheRight, GatewayCached, GatewayStays, MacOf
<1> QED BY <1>2, <1>3, <1>4

-----------------------------------------------------------------------------
(* Rings of n places: the place k steps on, and the steps from one place to  *)
(* another.                                                                  *)
At(n, h, k) == IF h + k < n THEN h + k ELSE h + k - n
Steps(n, h, r) == IF r >= h THEN r - h ELSE r - h + n

(* What the remainders of the rings' indexes are.                            *)
LEMMA ModAt ==
  ASSUME NEW n \in Nat \ {0}, NEW h \in 0 .. n - 1, NEW k \in 0 .. n - 1
  PROVE  (h + k) % n = At(n, h, k) /\ At(n, h, k) \in 0 .. n - 1
<1>1. CASE h + k < n
  BY <1>1 DEF At
<1>2. CASE h + k >= n
  <2>1. PICK a \in n .. 2 * n - 1 : a = h + k
    BY <1>2
  <2>2. a % n = a - n
    OBVIOUS
  <2> QED BY <1>2, <2>1, <2>2 DEF At
<1> QED BY <1>1, <1>2

LEMMA ModSteps ==
  ASSUME NEW n \in Nat \ {0}, NEW h \in 0 .. n - 1, NEW r \in 0 .. n - 1
  PROVE  (r - h) % n = Steps(n, h, r)
BY DEF Steps

(* Going on by the steps to a place reaches it, and only those do.           *)
LEMMA StepsAt ==
  ASSUME NEW n \in Nat \ {0}, NEW h \in 0 .. n - 1
  PROVE  /\ \A r \in 0 .. n - 1 : Steps(n, h, r) \in 0 .. n - 1 /\ At(n, h, Steps(n, h, r)) = r
         /\ \A k \in 0 .. n - 1 : At(n, h, k) \in 0 .. n - 1 /\ Steps(n, h, At(n, h, k)) = k
BY DEF Steps, At

(* From the next place everything but the first one is a step nearer.        *)
LEMMA StepsOn ==
  ASSUME NEW n \in Nat \ {0}, NEW h \in 0 .. n - 1, n > 1
  PROVE  /\ At(n, h, 1) \in 0 .. n - 1 /\ At(n, h, 0) = h
         /\ \A r \in 0 .. n - 1 : r # h => Steps(n, At(n, h, 1), r) = Steps(n, h, r) - 1
         /\ Steps(n, At(n, h, 1), h) = n - 1 /\ Steps(n, h, h) = 0
         /\ \A k \in 0 .. n - 2 : At(n, At(n, h, 1), k) = At(n, h, k + 1)
         /\ At(n, At(n, h, 1), n - 1) = h
BY DEF Steps, At

(* A sequence that begins with one and goes on with another.                 *)
LEMMA Joined ==
  ASSUME NEW S, NEW r \in Seq(S), NEW s \in Seq(S), NEW t \in Seq(S),
         Len(r) = Len(s) + Len(t), \A j \in 1 .. Len(s) : r[j] = s[j],
         \A k \in 1 .. Len(t) : r[Len(s) + k] = t[k]
  PROVE  r = s \o t
OBVIOUS

LEMMA TailIs ==
  ASSUME NEW S, NEW s \in Seq(S), s # <<>>
  PROVE  /\ Tail(s) \in Seq(S) /\ Len(Tail(s)) = Len(s) - 1
         /\ \A k \in 1 .. Len(s) - 1 : Tail(s)[k] = s[k + 1]
OBVIOUS

LEMMA SequenceIs ==
  ASSUME NEW S, NEW n \in Nat, NEW s \in [1 .. n -> S]
  PROVE  s \in Seq(S) /\ Len(s) = n
OBVIOUS

-----------------------------------------------------------------------------
(* NicRx: while no poll runs inside another, the descriptors the device has  *)
(* filled are those from rx_head up to RDH, RDT is one or two places behind  *)
(* rx_head, and what they hold is what the stack has not been given.         *)
RxPlaces == 0 .. RxRing - 1
RxAt(k) == At(RxRing, rxHead, k)
RxHeld == Steps(RxRing, rxHead, rdh)
RxHasRoom == Steps(RxRing, rxHead, rdt)
PollType == [at : {"none", "scan", "recycle", "move", "complete"}, idx : RxPlaces, done : 0 .. RxBudget]
RxTypes ==
  /\ rxDesc \in [RxPlaces -> [dd : BOOLEAN, frame : Nat]]
  /\ rxHead \in RxPlaces /\ rdh \in RxPlaces /\ rdt \in RxPlaces /\ rxNo \in Nat
  /\ stuckN \in 0 .. RxStuckMax - 1 /\ zeroN \in 0 .. RxZeroMax - 1
  /\ polls \in [{"shell", "timer"} -> PollType]
  /\ \A c \in {"shell", "timer"} : polls[c].at \in {"recycle", "move"} => polls[c].done < RxBudget
  /\ rxTaken \in Seq(Nat) /\ rxGiven \in Seq(Nat)
OutBy(c) == polls[c].at \in {"recycle", "move"}
Out == IF OutBy("shell") \/ OutBy("timer") THEN 1 ELSE 0
OnePoll ==
  /\ polls["shell"].at = "none" \/ polls["timer"].at = "none"
  /\ \A c \in {"shell", "timer"} : OutBy(c) => polls[c].idx = rxHead /\ rdh # rxHead
RingFilled ==
  /\ RxHasRoom \in {RxRing - 1, RxRing - 2} /\ RxHeld <= RxHasRoom
  /\ \A k \in RxPlaces : rxDesc[RxAt(k)].dd <=>
       k < RxHeld /\ (k = 0 => \A c \in {"shell", "timer"} : polls[c].at # "move")
RingHolds ==
  /\ Len(rxTaken) = Len(rxGiven) + RxHeld - Out
  /\ \A j \in 1 .. Len(rxGiven) : rxTaken[j] = rxGiven[j]
  /\ \A k \in RxPlaces : Out <= k /\ k < RxHeld =>
       rxTaken[Len(rxGiven) + k + 1 - Out] = rxDesc[RxAt(k)].frame
RxRight ==
  /\ RxTypes /\ RxNotLeftMasked
  /\ ~rxNested => OnePoll /\ RingFilled
  /\ ~rxNested /\ ~rxOom => RingHolds

LEMMA RxStarts == RxInit => RxRight
<1> SUFFICES ASSUME RxInit PROVE RxRight
  OBVIOUS
<1>0. RxRing \in Nat /\ RxRing > 2 /\ RxBudget \in Nat /\ RxStuckMax \in Nat \ {0}
      /\ RxZeroMax \in Nat \ {0}
  BY RxAssumption
<1>1. NoPoll \in PollType /\ <<>> \in Seq(Nat) /\ Len(<<>>) = 0
  BY <1>0 DEF NoPoll, PollType, RxPlaces
<1>2. \A c \in {"shell", "timer"} : polls[c] = NoPoll /\ polls[c].at = "none"
  BY DEF RxInit, NoPoll
<1>3. RxTypes
  BY <1>0, <1>1, <1>2 DEF RxInit, RxTypes, RxClear, RxPlaces
<1>4. RxHeld = 0 /\ RxHasRoom = RxRing - 1 /\ Out = 0
  BY <1>0, <1>2 DEF RxInit, RxHeld, RxHasRoom, Steps, Out, OutBy
<1>5. \A k \in RxPlaces : RxAt(k) \in RxPlaces
  BY <1>0, StepsAt DEF RxInit, RxAt, RxPlaces
<1>6. RingFilled
  BY <1>0, <1>4, <1>5 DEF RxInit, RingFilled, RxClear, RxPlaces
<1>7. OnePoll
  BY <1>2 DEF OnePoll, OutBy
<1>8. RingHolds
  BY <1>1, <1>4 DEF RxInit, RingHolds, RxPlaces
<1> QED BY <1>3, <1>6, <1>7, <1>8 DEF RxRight, RxInit, RxNotLeftMasked

(* Where the ring's places are, counted from rx_head.                        *)
LEMMA RxGeometry ==
  ASSUME RxTypes
  PROVE  /\ RxRing \in Nat \ {0} /\ RxRing > 2
         /\ RxHeld \in 0 .. RxRing - 1 /\ RxHasRoom \in 0 .. RxRing - 1
         /\ RxAt(RxHeld) = rdh /\ RxAt(RxHasRoom) = rdt /\ RxAt(0) = rxHead
         /\ RxHeld = 0 <=> rdh = rxHead
         /\ \A k \in RxPlaces : RxAt(k) \in RxPlaces /\ (RxAt(k) = rdh <=> k = RxHeld)
                               /\ (RxAt(k) = rxHead <=> k = 0)
<1>0. RxRing \in Nat \ {0} /\ RxRing > 2
  BY RxAssumption
<1>1. rxHead \in 0 .. RxRing - 1 /\ rdh \in 0 .. RxRing - 1 /\ rdt \in 0 .. RxRing - 1
  BY DEF RxTypes, RxPlaces
<1>2. RxHeld \in 0 .. RxRing - 1 /\ RxAt(RxHeld) = rdh
  BY <1>0, <1>1, StepsAt DEF RxHeld, RxAt
<1>3. RxHasRoom \in 0 .. RxRing - 1 /\ RxAt(RxHasRoom) = rdt
  BY <1>0, <1>1, StepsAt DEF RxHasRoom, RxAt
<1>4. \A k \in RxPlaces : RxAt(k) \in RxPlaces /\ Steps(RxRing, rxHead, RxAt(k)) = k
  BY <1>0, <1>1, StepsAt DEF RxAt, RxPlaces
<1>5. RxAt(0) = rxHead /\ Steps(RxRing, rxHead, rxHead) = 0 /\ 0 \in RxPlaces
  BY <1>0, <1>1 DEF RxAt, At, Steps, RxPlaces
<1> QED BY <1>0, <1>2, <1>3, <1>4, <1>5 DEF RxHeld, RxPlaces

(* A frame arrives.                                                          *)
LEMMA ArrivesKeeps ==
  ASSUME RxRight, RxArrives
  PROVE  RxRight'
<1>0. /\ RxRing \in Nat /\ RxRing > 2 /\ RxTypes /\ rxNo + 1 \in Nat
      /\ UNCHANGED <<rxUp, rxHead, rdt, rxMasked, napi, stuckN, zeroN, polls, rxGiven, rxOom, rxNested>>
  BY RxAssumption DEF RxRight, RxArrives, RxTypes
<1>1. CASE rdh = rdt
  <2>1. UNCHANGED <<rxDesc, rdh, rxTaken>> /\ rxNo' \in Nat
    BY <1>0, <1>1 DEF RxArrives
  <2>2. RxTypes' /\ RxNotLeftMasked'
    BY <1>0, <2>1 DEF RxTypes, RxRight, RxNotLeftMasked
  <2>3. RxHeld' = RxHeld /\ RxHasRoom' = RxHasRoom /\ Out' = Out /\ \A k : RxAt(k)' = RxAt(k)
    BY <1>0, <2>1 DEF RxHeld, RxHasRoom, Out, OutBy, RxAt
  <2>4. OnePoll => OnePoll'
    BY <1>0, <2>1 DEF OnePoll, OutBy
  <2>5. RingFilled => RingFilled'
    BY <1>0, <2>1, <2>3 DEF RingFilled
  <2>6. RingHolds => RingHolds'
    BY <1>0, <2>1, <2>3 DEF RingHolds
  <2> QED BY <1>0, <2>2, <2>4, <2>5, <2>6 DEF RxRight
<1>2. CASE rdh # rdt
  <2>1. /\ rxDesc' = [rxDesc EXCEPT ![rdh] = [dd |-> TRUE, frame |-> rxNo + 1]]
        /\ rdh' = (rdh + 1) % RxRing /\ rxTaken' = Append(rxTaken, rxNo + 1) /\ rxNo' = rxNo + 1
    BY <1>2 DEF RxArrives
  <2>2. rdh' = At(RxRing, rdh, 1) /\ rdh' \in RxPlaces
    <3>1. rdh \in 0 .. RxRing - 1 /\ 1 \in 0 .. RxRing - 1 /\ RxRing \in Nat \ {0}
      BY <1>0 DEF RxTypes, RxPlaces
    <3> QED BY <2>1, <3>1, ModAt DEF RxPlaces
  <2>3. /\ rxDesc' \in [RxPlaces -> [dd : BOOLEAN, frame : Nat]]
        /\ \A i \in RxPlaces : rxDesc'[i] = IF i = rdh THEN [dd |-> TRUE, frame |-> rxNo + 1] ELSE rxDesc[i]
    BY <1>0, <2>1 DEF RxTypes
  <2>4. /\ rxTaken' \in Seq(Nat) /\ Len(rxTaken') = Len(rxTaken) + 1
        /\ rxTaken'[Len(rxTaken) + 1] = rxNo + 1
        /\ \A j \in 1 .. Len(rxTaken) : rxTaken'[j] = rxTaken[j]
    BY <1>0, <2>1 DEF RxTypes
  <2>5. RxTypes' /\ RxNotLeftMasked'
    BY <1>0, <2>1, <2>2, <2>3, <2>4 DEF RxTypes, RxRight, RxNotLeftMasked
  <2>6. ASSUME ~rxNested
        PROVE  /\ OnePoll' /\ RingFilled' /\ (~rxOom => RingHolds')
    <3>1. OnePoll /\ RingFilled /\ (~rxOom => RingHolds)
      BY <2>6 DEF RxRight
    <3>2. RxHeld < RxHasRoom /\ RxHeld \in 0 .. RxRing - 1 /\ RxHasRoom \in 0 .. RxRing - 1
          /\ RxAt(RxHeld) = rdh
      <4>1. RxAt(RxHeld) = rdh /\ RxAt(RxHasRoom) = rdt /\ RxHeld \in 0 .. RxRing - 1
            /\ RxHasRoom \in 0 .. RxRing - 1
        BY <1>0, RxGeometry
      <4>2. RxHeld # RxHasRoom
        BY <1>2, <4>1
      <4> QED BY <3>1, <4>1, <4>2 DEF RingFilled
    <3>3. RxHeld' = RxHeld + 1 /\ RxHasRoom' = RxHasRoom /\ Out' = Out /\ \A k : RxAt(k)' = RxAt(k)
      <4>1. RxHasRoom' = RxHasRoom /\ Out' = Out /\ \A k : RxAt(k)' = RxAt(k)
        BY <1>0 DEF RxHasRoom, Out, OutBy, RxAt
      <4>2. RxHeld < RxRing - 1
        BY <1>0, <3>2
      <4>3. Steps(RxRing, rxHead, rdh') = Steps(RxRing, rxHead, rdh) + 1
        BY <1>0, <2>2, <4>2 DEF Steps, At, RxHeld, RxTypes, RxPlaces
      <4> QED BY <1>0, <4>1, <4>3 DEF RxHeld
    <3>4. \A k \in RxPlaces : RxAt(k) \in RxPlaces /\ (RxAt(k) = rdh <=> k = RxHeld)
      BY <1>0, RxGeometry
    <3>5. rdh' # rxHead
      <4>1. RxHeld' # 0
        BY <3>2, <3>3
      <4> QED BY <1>0, <4>1 DEF RxHeld, Steps, RxTypes, RxPlaces
    <3>6. OnePoll'
      BY <1>0, <3>1, <3>5 DEF OnePoll, OutBy
    <3>7. RingFilled'
      <4>1. RxHeld = 0 => \A c \in {"shell", "timer"} : polls[c].at # "move"
        <5>1. RxHeld = 0 => rdh = rxHead
          BY <1>0, <3>2 DEF RxAt, At, RxTypes, RxPlaces
        <5> QED BY <3>1, <5>1 DEF OnePoll, OutBy
      <4>2. ASSUME NEW k \in RxPlaces
            PROVE  rxDesc'[RxAt(k)].dd <=>
                     k < RxHeld + 1 /\ (k = 0 => \A c \in {"shell", "timer"} : polls[c].at # "move")
        <5>1. CASE k = RxHeld
          <6>1. rxDesc'[RxAt(k)].dd = TRUE
            BY <2>3, <3>4, <5>1
          <6> QED BY <3>2, <4>1, <5>1, <6>1
        <5>2. CASE k # RxHeld
          <6>1. rxDesc'[RxAt(k)] = rxDesc[RxAt(k)]
            BY <2>3, <3>4, <5>2
          <6>2. k < RxHeld + 1 <=> k < RxHeld
            BY <1>0, <3>2, <5>2 DEF RxPlaces
          <6> QED BY <3>1, <6>1, <6>2 DEF RingFilled
        <5> QED BY <5>1, <5>2
      <4>3. RxHasRoom \in {RxRing - 1, RxRing - 2} /\ RxHeld + 1 <= RxHasRoom
        BY <3>1, <3>2 DEF RingFilled
      <4> QED BY <1>0, <3>3, <4>2, <4>3 DEF RingFilled
    <3>8. ASSUME ~rxOom PROVE RingHolds'
      <4>0. RingHolds /\ Out \in 0 .. 1
        BY <3>1, <3>8 DEF Out
      <4>1. Len(rxGiven) \in Nat /\ Len(rxTaken) = Len(rxGiven) + RxHeld - Out
            /\ Len(rxTaken) \in Nat
        BY <1>0, <4>0 DEF RingHolds, RxTypes
      <4>2. Out <= RxHeld
        <5>1. Out = 1 => rdh # rxHead
          BY <3>1 DEF OnePoll, Out
        <5>2. RxHeld = 0 => rdh = rxHead
          BY <1>0, <3>2 DEF RxAt, At, RxTypes, RxPlaces
        <5> QED BY <3>2, <4>0, <5>1, <5>2
      <4>3. \A j \in 1 .. Len(rxGiven) : rxTaken'[j] = rxGiven[j]
        BY <2>4, <3>2, <4>0, <4>1, <4>2 DEF RingHolds
      <4>4. ASSUME NEW k \in RxPlaces, Out <= k, k < RxHeld + 1
            PROVE  rxTaken'[Len(rxGiven) + k + 1 - Out] = rxDesc'[RxAt(k)].frame
        <5>1. CASE k = RxHeld
          <6>1. rxDesc'[RxAt(k)].frame = rxNo + 1
            BY <2>3, <3>4, <5>1
          <6>2. Len(rxGiven) + k + 1 - Out = Len(rxTaken) + 1
            BY <3>2, <4>0, <4>1, <5>1
          <6> QED BY <2>4, <6>1, <6>2
        <5>2. CASE k # RxHeld
          <6>1. k < RxHeld
            BY <3>2, <4>4, <5>2 DEF RxPlaces
          <6>2. rxTaken[Len(rxGiven) + k + 1 - Out] = rxDesc[RxAt(k)].frame
            BY <4>0, <4>4, <6>1 DEF RingHolds
          <6>3. Len(rxGiven) + k + 1 - Out \in 1 .. Len(rxTaken)
            BY <1>0, <3>2, <4>0, <4>1, <4>4, <6>1 DEF RxPlaces
          <6>4. rxDesc'[RxAt(k)] = rxDesc[RxAt(k)]
            BY <2>3, <3>4, <5>2
          <6> QED BY <2>4, <6>2, <6>3, <6>4
        <5> QED BY <5>1, <5>2
      <4>5. Len(rxTaken') = Len(rxGiven) + (RxHeld + 1) - Out
        BY <2>4, <4>0, <4>1, <3>2
      <4> QED BY <1>0, <3>3, <4>3, <4>4, <4>5 DEF RingHolds
    <3> QED BY <3>6, <3>7, <3>8
  <2> QED BY <1>0, <2>5, <2>6 DEF RxRight
<1> QED BY <1>1, <1>2

(* A step that takes no descriptor and gives none back.                      *)
LEMMA RingStays ==
  ASSUME RxRight, RxTypes', RxNotLeftMasked', UNCHANGED <<rxDesc, rxHead, rdh, rdt, rxTaken, rxGiven, rxOom>>,
         ~rxNested' => ~rxNested /\ (polls'["shell"].at = "none" \/ polls'["timer"].at = "none"),
         \A c \in {"shell", "timer"} :
            IF polls[c].at \in {"recycle", "move"} THEN polls'[c] = polls[c]
            ELSE polls'[c].at \notin {"recycle", "move"}
  PROVE  RxRight'
<1>1. \A c \in {"shell", "timer"} : (OutBy(c)' <=> OutBy(c)) /\ (OutBy(c) => polls'[c] = polls[c])
                                /\ (polls'[c].at = "move" <=> polls[c].at = "move")
  BY DEF OutBy
<1>2. RxHeld' = RxHeld /\ RxHasRoom' = RxHasRoom /\ Out' = Out /\ \A k : RxAt(k)' = RxAt(k)
  BY <1>1 DEF RxHeld, RxHasRoom, Out, RxAt
<1>3. ~rxNested' => OnePoll'
  BY <1>1 DEF RxRight, OnePoll
<1>4. RingFilled => RingFilled'
  BY <1>1, <1>2 DEF RingFilled
<1>5. RingHolds => RingHolds'
  BY <1>2 DEF RingHolds
<1> QED BY <1>3, <1>4, <1>5 DEF RxRight

LEMMA QuietKeeps ==
  ASSUME RxRight, e1000_irq_handler \/ BiosCall \/ RxDown \/ UNCHANGED rxVars
  PROVE  RxRight'
<1>1. /\ UNCHANGED <<rxRingVars, stuckN, zeroN, polls, rxHist>>
  BY DEF e1000_irq_handler, BiosCall, RxDown, rxVars
<1>2. RxTypes' /\ UNCHANGED <<rxDesc, rxHead, rdh, rdt, polls, rxTaken, rxGiven, rxOom, rxNested>>
  BY <1>1 DEF RxRight, RxTypes, rxRingVars, rxHist
<1>3. RxNotLeftMasked'
  <2>1. RxNotLeftMasked
    BY DEF RxRight
  <2>2. CASE e1000_irq_handler
    BY <2>2 DEF RxNotLeftMasked, e1000_irq_handler
  <2>3. CASE BiosCall
    BY <2>3 DEF RxNotLeftMasked, BiosCall
  <2>4. CASE RxDown
    BY <2>4 DEF RxNotLeftMasked, RxDown
  <2>5. CASE UNCHANGED rxVars
    BY <2>1, <2>5 DEF RxNotLeftMasked, rxVars, rxIrqVars
  <2> QED BY <2>2, <2>3, <2>4, <2>5
<1>4. ~rxNested => polls["shell"].at = "none" \/ polls["timer"].at = "none"
  BY DEF RxRight, OnePoll
<1> QED BY <1>2, <1>3, <1>4, RingStays

(* The end of a poll.                                                        *)
LEMMA EndsKeeps ==
  ASSUME RxRight, NEW c \in {"shell", "timer"}, PollEnds(c) \/ PollComplete(c)
  PROVE  RxRight'
<1>0. /\ RxTypes /\ RxNotLeftMasked /\ UNCHANGED <<rxUp, rxRingVars, stuckN, rxHist>>
      /\ polls[c].at \in {"scan", "complete"} /\ RxZeroMax \in Nat \ {0} /\ RxBudget \in Nat
           /\ RxRing \in Nat
      /\ RxRing > 2
  BY RxAssumption DEF RxRight, PollEnds, PollComplete
<1>1. /\ polls' \in [{"shell", "timer"} -> PollType] /\ polls'[c].at \in {"complete", "none"}
      /\ \A d \in {"shell", "timer"} \ {c} : polls'[d] = polls[d]
  <2>1. NoPoll \in PollType /\ NoPoll.at = "none"
    BY <1>0 DEF NoPoll, PollType, RxPlaces
  <2>2. CASE PollEnds(c)
    BY <1>0, <2>2 DEF PollEnds, RxTypes, PollType
  <2>3. CASE PollComplete(c)
    BY <1>0, <2>1, <2>3 DEF PollComplete, RxTypes
  <2> QED BY <2>2, <2>3
<1>2. zeroN' \in 0 .. RxZeroMax - 1
  <2>1. CASE PollEnds(c)
    BY <1>0, <2>1 DEF PollEnds, RxTypes
  <2>2. CASE PollComplete(c)
    <3>1. zeroN \in 0 .. RxZeroMax - 1
      BY <1>0 DEF RxTypes
    <3>2. zeroN' = 0 \/ (zeroN' = zeroN + 1 /\ ~(zeroN + 1 >= RxZeroMax))
      BY <2>2 DEF PollComplete
    <3> QED BY <1>0, <3>1, <3>2
  <2> QED BY <1>0, <2>1, <2>2
<1>3. RxTypes'
  BY <1>0, <1>1, <1>2 DEF RxTypes, rxRingVars, rxHist
<1>4. RxNotLeftMasked'
  <2>1. CASE PollEnds(c)
    BY <1>0, <2>1 DEF PollEnds, rxIrqVars, RxNotLeftMasked
  <2>2. CASE PollComplete(c)
    <3>1. \/ rxMasked' = NapiDone
          \/ UNCHANGED <<napi, rxMasked>>
      BY <2>2 DEF PollComplete, rxIrqVars
    <3> QED BY <1>0, <3>1 DEF RxNotLeftMasked, NapiDone
  <2> QED BY <2>1, <2>2
<1>5. ~rxNested => polls["shell"].at = "none" \/ polls["timer"].at = "none"
  BY DEF RxRight, OnePoll
<1>6. ~rxNested => polls'["shell"].at = "none" \/ polls'["timer"].at = "none"
  BY <1>0, <1>1, <1>5
<1> QED BY <1>0, <1>1, <1>3, <1>4, <1>6, RingStays DEF rxRingVars, rxHist

(* The start of a poll forces the indexes only when polls were nested.       *)
LEMMA StartKeeps ==
  ASSUME RxRight, NEW c \in {"shell", "timer"}, PollStart(c)
  PROVE  RxRight'
<1>0. /\ RxTypes /\ RxNotLeftMasked /\ polls[c].at = "none"
      /\ UNCHANGED <<rxUp, rxDesc, rdh, rxIrqVars, zeroN, rxNo, rxTaken, rxGiven, rxOom>>
      /\ RxStuckMax \in Nat \ {0} /\ RxBudget \in Nat
  BY RxAssumption DEF RxRight, PollStart
<1>1. /\ polls' \in [{"shell", "timer"} -> PollType] /\ polls'[c].at = "scan"
      /\ \A d \in {"shell", "timer"} \ {c} : polls'[d] = polls[d]
  <2>1. [at |-> "scan", idx |-> 0, done |-> 0] \in PollType
    BY <1>0, RxGeometry DEF PollType, RxPlaces
  <2> QED BY <1>0, <2>1 DEF PollStart, RxTypes
<1>2. RxRing \in Nat \ {0} /\ RxPrev(rdh) \in RxPlaces
  <2>1. rdh \in 0 .. RxRing - 1 /\ RxRing - 1 \in 0 .. RxRing - 1 /\ RxRing \in Nat \ {0}
    <3>1. rdh \in 0 .. RxRing - 1
      BY <1>0 DEF RxTypes, RxPlaces
    <3>2. RxRing \in Nat \ {0}
      BY <1>0, RxGeometry
    <3> QED BY <3>1, <3>2
  <2>2. (rdh + (RxRing - 1)) % RxRing \in 0 .. RxRing - 1
    BY <2>1, ModAt
  <2>3. rdh + (RxRing - 1) = rdh + RxRing - 1
    BY <2>1
  <2> QED BY <2>1, <2>2, <2>3 DEF RxPrev, RxPlaces
<1>3. rxHead' \in RxPlaces /\ rdt' \in RxPlaces /\ stuckN' \in 0 .. RxStuckMax - 1
  BY <1>0, <1>2 DEF PollStart, RxTypes
<1>4. RxTypes' /\ RxNotLeftMasked'
  BY <1>0, <1>1, <1>3 DEF RxTypes, RxNotLeftMasked, rxIrqVars
<1>5. ASSUME ~rxNested'
      PROVE  /\ ~rxNested /\ (polls'["shell"].at = "none" \/ polls'["timer"].at = "none")
             /\ UNCHANGED <<rxHead, rdt>>
  <2>1. ~rxNested /\ polls["shell"].at = "none" /\ polls["timer"].at = "none"
    BY <1>0, <1>5 DEF PollStart
  <2>2. OnePoll /\ RingFilled
    BY <2>1 DEF RxRight
  <2>3. ~Stuck
    <3> SUFFICES ASSUME rdh # rxHead PROVE rxDesc[rxHead].dd
      BY DEF Stuck
    <3>1. RxHeld \in Nat /\ RxHeld # 0 /\ RxAt(0) = rxHead /\ 0 \in RxPlaces
      BY <1>0, RxGeometry DEF RxPlaces
    <3>2. \A d \in {"shell", "timer"} : polls[d].at # "move"
      BY <2>1
    <3>3. rxDesc[RxAt(0)].dd
      BY <2>2, <3>1, <3>2 DEF RingFilled
    <3> QED BY <3>1, <3>3
  <2>4. UNCHANGED <<rxHead, rdt>>
    BY <2>3 DEF PollStart
  <2> QED BY <1>1, <2>1, <2>4
<1>6. CASE ~rxNested'
  BY <1>0, <1>1, <1>4, <1>5, <1>6, RingStays
<1>7. CASE rxNested'
  BY <1>4, <1>7 DEF RxRight
<1> QED BY <1>6, <1>7

(* The head descriptor is copied and given to the stack.                     *)
LEMMA TakeKeeps ==
  ASSUME RxRight, NEW c \in {"shell", "timer"}, NEW mem \in BOOLEAN, PollTake(c, mem)
  PROVE  RxRight'
<1>0. /\ RxTypes /\ RxNotLeftMasked /\ polls[c].at = "scan" /\ polls[c].done < RxBudget
      /\ UNCHANGED <<rxUp, rxRingVars, rxIrqVars, stuckN, zeroN, rxNo, rxTaken, rxNested>>
      /\ rxDesc[rxHead].dd /\ rxHead \in RxPlaces
      /\ rxGiven' = (IF mem THEN Append(rxGiven, rxDesc[rxHead].frame) ELSE rxGiven)
      /\ rxOom' = (rxOom \/ ~mem)
  BY DEF RxRight, PollTake, TakesHead, RxTypes
<1>1. /\ polls' \in [{"shell", "timer"} -> PollType]
      /\ polls'[c].at = "recycle" /\ polls'[c].idx = rxHead /\ polls'[c].done = polls[c].done
      /\ \A d \in {"shell", "timer"} \ {c} : polls'[d] = polls[d]
  <2>1. polls' = [polls EXCEPT ![c] = [polls[c] EXCEPT !.at = "recycle", !.idx = rxHead]]
    BY <1>0 DEF PollTake, RxTypes, PollType
  <2>2. PICK q : q = [polls[c] EXCEPT !.at = "recycle", !.idx = rxHead]
    OBVIOUS
  <2>3. q \in PollType /\ q.at = "recycle" /\ q.idx = rxHead /\ q.done = polls[c].done
    BY <1>0, <2>2 DEF RxTypes, PollType
  <2> QED BY <1>0, <2>1, <2>2, <2>3 DEF RxTypes
<1>2. rxDesc[rxHead].frame \in Nat /\ rxGiven' \in Seq(Nat)
  BY <1>0 DEF RxTypes
<1>3. RxTypes' /\ RxNotLeftMasked'
  BY <1>0, <1>1, <1>2 DEF RxTypes, RxNotLeftMasked, rxRingVars, rxIrqVars
<1>4. UNCHANGED <<rxDesc, rxHead, rdh, rdt>>
  BY <1>0 DEF rxRingVars
<1>5. ASSUME ~rxNested PROVE OnePoll' /\ RingFilled' /\ (~rxOom' => RingHolds')
  <2>1. OnePoll /\ RingFilled /\ ~OutBy("shell") /\ ~OutBy("timer")
    BY <1>0, <1>5 DEF RxRight, OnePoll, OutBy
  <2>2. RxHeld' = RxHeld /\ RxHasRoom' = RxHasRoom /\ \A k : RxAt(k)' = RxAt(k)
    BY <1>4 DEF RxHeld, RxHasRoom, RxAt
  <2>3. Out = 0 /\ Out' = 1
    BY <1>1, <2>1 DEF Out, OutBy
  <2>4. RxHeld \in Nat /\ RxHeld # 0 /\ rdh # rxHead /\ RxAt(0) = rxHead /\ RxRing > 2
        /\ RxRing \in Nat
    <3>1. /\ RxHeld \in Nat /\ (RxHeld = 0 <=> rdh = rxHead) /\ RxAt(0) = rxHead /\ 0 \in RxPlaces
          /\ RxRing > 2 /\ RxRing \in Nat
      BY <1>0, RxGeometry DEF RxPlaces
    <3>2. 0 < RxHeld
      BY <1>0, <2>1, <3>1 DEF RingFilled
    <3> QED BY <3>1, <3>2
  <2>5. OnePoll'
    BY <1>0, <1>1, <1>4, <2>1, <2>4 DEF OnePoll, OutBy
  <2>6. \A d \in {"shell", "timer"} : polls[d].at # "move" /\ polls'[d].at # "move"
    BY <1>1, <2>1 DEF OutBy
  <2>7. RingFilled'
    BY <1>4, <2>1, <2>2, <2>6 DEF RingFilled
  <2>8. ASSUME ~rxOom' PROVE RingHolds'
    <3>1. RingHolds /\ mem
      BY <1>0, <1>5, <2>8 DEF RxRight
    <3>2. /\ rxGiven \in Seq(Nat) /\ rxTaken \in Seq(Nat) /\ Len(rxGiven) \in Nat
               /\ Len(rxGiven') = Len(rxGiven) + 1
          /\ \A j \in 1 .. Len(rxGiven) : rxGiven'[j] = rxGiven[j]
          /\ rxGiven'[Len(rxGiven) + 1] = rxDesc[rxHead].frame
      BY <1>0, <1>2, <3>1 DEF RxTypes
    <3>3. /\ \A k \in RxPlaces : 0 <= k /\ k < RxHeld =>
                rxTaken[Len(rxGiven) + k + 1 - 0] = rxDesc[RxAt(k)].frame
      BY <2>3, <3>1 DEF RingHolds
    <3>4. rxTaken[Len(rxGiven) + 1] = rxDesc[rxHead].frame
      <4>1. 0 \in RxPlaces /\ Len(rxGiven) + 0 + 1 - 0 = Len(rxGiven) + 1 /\ 0 <= 0 /\ 0 < RxHeld
        BY <2>4, <3>2 DEF RxPlaces
      <4>2. rxTaken[Len(rxGiven) + 0 + 1 - 0] = rxDesc[RxAt(0)].frame
        BY <3>3, <4>1
      <4> QED BY <2>4, <4>1, <4>2
    <3>5. Len(rxTaken) = Len(rxGiven') + RxHeld - 1
      BY <2>3, <2>4, <3>1, <3>2 DEF RingHolds
    <3>6. ASSUME NEW j \in 1 .. Len(rxGiven') PROVE rxTaken[j] = rxGiven'[j]
      BY <3>1, <3>2, <3>4, <3>6 DEF RingHolds
    <3>7. ASSUME NEW k \in RxPlaces, 1 <= k, k < RxHeld
          PROVE  rxTaken[Len(rxGiven') + k + 1 - 1] = rxDesc[RxAt(k)].frame
      <4>1. Len(rxGiven') + k + 1 - 1 = Len(rxGiven) + k + 1 - 0 /\ 0 <= k
        BY <3>2, <3>7 DEF RxPlaces
      <4> QED BY <3>3, <3>7, <4>1
    <3> QED BY <1>0, <1>4, <2>2, <2>3, <3>5, <3>6, <3>7 DEF RingHolds
  <2> QED BY <2>5, <2>7, <2>8
<1> QED BY <1>0, <1>3, <1>5 DEF RxRight

(* Its status is cleared.                                                    *)
LEMMA ClearKeeps ==
  ASSUME RxRight, NEW c \in {"shell", "timer"}, PollClear(c)
  PROVE  RxRight'
<1>0. /\ RxTypes /\ RxNotLeftMasked /\ polls[c].at = "recycle" /\ polls[c].done < RxBudget
      /\ UNCHANGED <<rxUp, rxHead, rdh, rdt, rxIrqVars, stuckN, zeroN, rxHist>>
      /\ polls[c].idx \in RxPlaces
      /\ rxDesc' = [rxDesc EXCEPT ![polls[c].idx].dd = FALSE]
  BY DEF RxRight, PollClear, RxTypes, PollType
<1>1. /\ polls' \in [{"shell", "timer"} -> PollType]
      /\ polls'[c].at = "move" /\ polls'[c].idx = polls[c].idx /\ polls'[c].done = polls[c].done
      /\ \A d \in {"shell", "timer"} \ {c} : polls'[d] = polls[d]
  BY <1>0 DEF PollClear, RxTypes, PollType
<1>2. /\ rxDesc' \in [RxPlaces -> [dd : BOOLEAN, frame : Nat]]
      /\ \A i \in RxPlaces : IF i = polls[c].idx THEN ~rxDesc'[i].dd
           /\ rxDesc'[i].frame = rxDesc[i].frame
                            ELSE rxDesc'[i] = rxDesc[i]
  BY <1>0 DEF RxTypes
<1>3. RxTypes' /\ RxNotLeftMasked'
  BY <1>0, <1>1, <1>2 DEF RxTypes, RxNotLeftMasked, rxIrqVars, rxHist
<1>4. ASSUME ~rxNested PROVE OnePoll' /\ RingFilled' /\ (~rxOom => RingHolds')
  <2>1. OnePoll /\ RingFilled /\ polls[c].idx = rxHead /\ rdh # rxHead
    BY <1>0, <1>4 DEF RxRight, OnePoll, OutBy
  <2>2. RxHeld' = RxHeld /\ RxHasRoom' = RxHasRoom /\ (\A k : RxAt(k)' = RxAt(k)) /\ Out' = Out
    <3>1. \A d \in {"shell", "timer"} : OutBy(d)' <=> OutBy(d)
      BY <1>0, <1>1 DEF OutBy
    <3> QED BY <1>0, <3>1 DEF RxHeld, RxHasRoom, RxAt, Out
  <2>3. OnePoll'
    BY <1>0, <1>1, <2>1 DEF OnePoll, OutBy
  <2>4. \A k \in RxPlaces : RxAt(k) \in RxPlaces /\ (RxAt(k) = rxHead <=> k = 0)
    BY <1>0, RxGeometry
  <2>5. \A d \in {"shell", "timer"} : polls[d].at # "move"
    BY <1>0, <2>1 DEF OnePoll
  <2>6. RingFilled'
    <3>1. ASSUME NEW k \in RxPlaces
          PROVE  rxDesc'[RxAt(k)].dd <=>
                   k < RxHeld /\ (k = 0 => \A d \in {"shell", "timer"} : polls'[d].at # "move")
      <4>1. CASE k = 0
        BY <1>1, <1>2, <2>1, <2>4, <4>1
      <4>2. CASE k # 0
        BY <1>2, <2>1, <2>4, <4>2 DEF RingFilled
      <4> QED BY <4>1, <4>2
    <3> QED BY <1>0, <2>1, <2>2, <3>1 DEF RingFilled
  <2>7. ASSUME ~rxOom PROVE RingHolds'
    <3>1. RingHolds
      BY <1>4, <2>7 DEF RxRight
    <3>2. \A k \in RxPlaces : rxDesc'[RxAt(k)].frame = rxDesc[RxAt(k)].frame
      BY <1>2, <2>4
    <3> QED BY <1>0, <2>2, <3>1, <3>2 DEF RingHolds, rxHist
  <2> QED BY <2>3, <2>6, <2>7
<1> QED BY <1>0, <1>3, <1>4 DEF RxRight, rxHist

(* RDT and rx_head move on.                                                  *)
LEMMA MoveKeeps ==
  ASSUME RxRight, NEW c \in {"shell", "timer"}, PollMove(c)
  PROVE  RxRight'
<1>0. /\ RxTypes /\ RxNotLeftMasked /\ polls[c].at = "move" /\ polls[c].done < RxBudget
      /\ UNCHANGED <<rxUp, rxDesc, rdh, rxIrqVars, stuckN, zeroN, rxHist>>
      /\ polls[c].idx \in RxPlaces /\ RxBudget \in Nat
      /\ rdt' = NewRdt(polls[c].idx) /\ rxHead' = HeadAfter(polls[c].idx)
  BY RxAssumption DEF RxRight, PollMove, RxTypes, PollType
<1>1. /\ polls' \in [{"shell", "timer"} -> PollType] /\ polls'[c].at = "scan"
      /\ \A d \in {"shell", "timer"} \ {c} : polls'[d] = polls[d]
  <2>1. polls[c].done + 1 \in 0 .. RxBudget
    BY <1>0 DEF RxTypes, PollType
  <2> QED BY <1>0, <2>1 DEF PollMove, RxTypes, PollType
<1>2. /\ rxHead' = At(RxRing, polls[c].idx, 1) /\ rdt' = At(RxRing, polls[c].idx, RxRing - 1)
      /\ rxHead' \in RxPlaces /\ rdt' \in RxPlaces
  <2>1. /\ polls[c].idx \in 0 .. RxRing - 1 /\ RxRing - 1 \in 0 .. RxRing - 1
             /\ 1 \in 0 .. RxRing - 1
        /\ RxRing \in Nat \ {0}
    BY <1>0, RxGeometry DEF RxPlaces
  <2>2. polls[c].idx + (RxRing - 1) = polls[c].idx + RxRing - 1
    BY <2>1
  <2> QED BY <1>0, <2>1, <2>2, ModAt DEF RxPlaces, NewRdt, RxPrev, HeadAfter
<1>3. RxTypes' /\ RxNotLeftMasked'
  BY <1>0, <1>1, <1>2 DEF RxTypes, RxNotLeftMasked, rxIrqVars, rxHist
<1>4. ASSUME ~rxNested PROVE OnePoll' /\ RingFilled' /\ (~rxOom => RingHolds')
  <2>1. OnePoll /\ RingFilled /\ polls[c].idx = rxHead /\ rdh # rxHead
    BY <1>0, <1>4 DEF RxRight, OnePoll, OutBy
  <2>2. /\ RxRing \in Nat \ {0} /\ RxRing > 2 /\ rxHead \in 0 .. RxRing - 1
             /\ rdh \in 0 .. RxRing - 1
        /\ RxHeld \in 1 .. RxRing - 1
    <3>1. /\ RxRing \in Nat \ {0} /\ RxRing > 2 /\ RxHeld \in 0 .. RxRing - 1
          /\ (RxHeld = 0 <=> rdh = rxHead)
      BY <1>0, RxGeometry
    <3>2. rxHead \in 0 .. RxRing - 1 /\ rdh \in 0 .. RxRing - 1
      BY <1>0 DEF RxTypes, RxPlaces
    <3> QED BY <2>1, <3>1, <3>2
  <2>3. /\ RxHeld' = RxHeld - 1
        /\ \A k \in 0 .. RxRing - 2 : RxAt(k)' = RxAt(k + 1)
        /\ RxAt(RxRing - 1)' = RxAt(0)
    BY <1>0, <1>2, <2>1, <2>2, StepsOn DEF RxHeld, RxAt
  <2>4. RxHasRoom' = RxRing - 2
    <3>1. /\ rdt' \in 0 .. RxRing - 1 /\ Steps(RxRing, rxHead, rdt') = RxRing - 1
      <4>1. rdt' = At(RxRing, rxHead, RxRing - 1) /\ RxRing - 1 \in 0 .. RxRing - 1
        BY <1>2, <2>1, <2>2
      <4>2. /\ At(RxRing, rxHead, RxRing - 1) \in 0 .. RxRing - 1
            /\ Steps(RxRing, rxHead, At(RxRing, rxHead, RxRing - 1)) = RxRing - 1
        BY <2>2, <4>1, StepsAt
      <4> QED BY <4>1, <4>2
    <3>2. rdt' # rxHead
      <4>1. Steps(RxRing, rxHead, rxHead) = 0 /\ RxRing - 1 # 0
        BY <2>2 DEF Steps
      <4> QED BY <3>1, <4>1
    <3>3. Steps(RxRing, At(RxRing, rxHead, 1), rdt') = (RxRing - 1) - 1
      BY <2>2, <3>1, <3>2, StepsOn
    <3> QED BY <1>2, <2>1, <2>2, <3>3 DEF RxHasRoom
  <2>5. Out = 1 /\ Out' = 0 /\ \A d \in {"shell", "timer"} : ~OutBy(d)' /\ polls'[d].at # "move"
    BY <1>0, <1>1, <2>1 DEF Out, OutBy, OnePoll
  <2>6. OnePoll'
    BY <1>0, <1>1, <2>1, <2>5 DEF OnePoll
  <2>7. RingFilled'
    <3>1. ASSUME NEW k \in RxPlaces PROVE rxDesc[RxAt(k)'].dd <=> k < RxHeld - 1
      <4>1. CASE k = RxRing - 1
        <5>1. 0 \in RxPlaces /\ polls[c].at = "move"
          BY <1>0, <2>2 DEF RxPlaces
        <5>2. ~rxDesc[RxAt(0)].dd
          BY <2>1, <5>1 DEF RingFilled
        <5> QED BY <2>2, <2>3, <4>1, <5>2
      <4>2. CASE k # RxRing - 1
        <5>1. k \in 0 .. RxRing - 2 /\ k + 1 \in RxPlaces /\ k + 1 # 0 /\ (k + 1 < RxHeld
              <=> k < RxHeld - 1)
          BY <2>2, <4>2 DEF RxPlaces
        <5>2. rxDesc[RxAt(k + 1)].dd <=> k + 1 < RxHeld
          BY <2>1, <5>1 DEF RingFilled
        <5> QED BY <2>3, <5>1, <5>2
      <4> QED BY <4>1, <4>2
    <3>2. RxHeld - 1 <= RxRing - 2
      BY <2>2
    <3> QED BY <1>0, <2>3, <2>4, <2>5, <3>1, <3>2 DEF RingFilled
  <2>8. ASSUME ~rxOom PROVE RingHolds'
    <3>1. RingHolds /\ Len(rxGiven) \in Nat
      BY <1>0, <1>4, <2>8 DEF RxRight, RxTypes
    <3>2. Len(rxTaken) = Len(rxGiven) + (RxHeld - 1) - 0
      BY <2>2, <2>5, <3>1 DEF RingHolds
    <3>3. ASSUME NEW k \in RxPlaces, 0 <= k, k < RxHeld - 1
          PROVE  rxTaken[Len(rxGiven) + k + 1 - 0] = rxDesc[RxAt(k)'].frame
      <4>1. /\ k \in 0 .. RxRing - 2 /\ k + 1 \in RxPlaces /\ 1 <= k + 1 /\ k + 1 < RxHeld
            /\ Len(rxGiven) + (k + 1) + 1 - 1 = Len(rxGiven) + k + 1 - 0
        BY <2>2, <3>1, <3>3 DEF RxPlaces
      <4>2. rxTaken[Len(rxGiven) + (k + 1) + 1 - 1] = rxDesc[RxAt(k + 1)].frame
        BY <2>5, <3>1, <4>1 DEF RingHolds
      <4> QED BY <2>3, <4>1, <4>2
    <3> QED BY <1>0, <2>3, <2>5, <3>1, <3>2, <3>3 DEF RingHolds, rxHist
  <2> QED BY <2>6, <2>7, <2>8
<1> QED BY <1>0, <1>3, <1>4 DEF RxRight, rxHist

(* ifconfig up starts with an empty ring.                                    *)
LEMMA UpKeeps ==
  ASSUME RxRight, RxUp
  PROVE  RxRight'
<1>0. /\ RxTypes /\ RxRing \in Nat \ {0} /\ RxRing > 2
      /\ rxUp' = TRUE /\ rxDesc' = RxClear /\ rxHead' = 0 /\ rdh' = 0 /\ rdt' = RxRing - 1
           /\ rxMasked' = FALSE
      /\ rxTaken' = rxGiven
      /\ UNCHANGED <<napi, stuckN, zeroN, polls, rxNo, rxGiven, rxOom, rxNested>>
  BY RxAssumption DEF RxRight, RxUp
<1>1. polls["shell"].at = "none" /\ polls["timer"].at = "none"
  BY DEF RxUp
<1>2. \A i \in RxPlaces : rxDesc'[i] = [dd |-> FALSE, frame |-> 0]
  BY <1>0 DEF RxClear, RxPlaces
<1>3. RxTypes' /\ RxNotLeftMasked'
  BY <1>0 DEF RxTypes, RxNotLeftMasked, RxClear, RxPlaces
<1>4. RxHeld' = 0 /\ RxHasRoom' = RxRing - 1 /\ Out' = 0
  BY <1>0, <1>1 DEF RxHeld, RxHasRoom, Steps, Out, OutBy
<1>5. \A k \in RxPlaces : RxAt(k)' \in RxPlaces
  BY <1>0, StepsAt DEF RxAt, RxPlaces
<1>6. RingFilled'
  BY <1>0, <1>2, <1>4, <1>5 DEF RingFilled, RxPlaces
<1>7. OnePoll'
  BY <1>0, <1>1 DEF OnePoll, OutBy
<1>8. RingHolds'
  <2>1. Len(rxGiven) \in Nat
    BY <1>0 DEF RxTypes
  <2> QED BY <1>0, <1>4, <2>1 DEF RingHolds, RxPlaces
<1> QED BY <1>3, <1>6, <1>7, <1>8 DEF RxRight

(* Every step keeps the invariant.                                           *)
LEMMA RxKept == RxRight /\ [NicRxNext]_rxVars => RxRight'
BY ArrivesKeeps, QuietKeeps, EndsKeeps, StartKeeps, TakeKeeps, ClearKeeps, MoveKeeps, UpKeeps
   DEF NicRxNext

(* The invariant shows the properties.                                       *)
LEMMA RxShown == RxRight => RxTypeOK /\ RxInOrder /\ RxNeverDeaf /\ RxNotLeftMasked
<1> SUFFICES ASSUME RxRight PROVE RxTypeOK /\ RxInOrder /\ RxNeverDeaf /\ RxNotLeftMasked
  OBVIOUS
<1>0. /\ RxTypes /\ DOMAIN polls = {"shell", "timer"} /\ RxRing \in Nat \ {0} /\ RxRing > 2
      /\ rxHead \in 0 .. RxRing - 1 /\ rdh \in 0 .. RxRing - 1 /\ RxHeld \in 0 .. RxRing - 1
      /\ (RxHeld = 0 <=> rdh = rxHead) /\ RxAt(RxHasRoom) = rdt /\ RxAt(RxHeld) = rdh
  <2>1. RxTypes
    BY DEF RxRight
  <2> QED BY <2>1, RxGeometry DEF RxTypes, RxPlaces
<1>1. RxTypeOK
  BY <1>0 DEF RxTypes, RxTypeOK, PollType, RxPlaces
<1>2. HeadOut <=> Out = 1
  BY <1>0 DEF HeadOut, Out, OutBy
<1>3. RxNeverDeaf
  <2> SUFFICES ASSUME ~rxNested, rdh = rxHead PROVE rdh # rdt
    BY DEF RxNeverDeaf
  <2>1. RxHasRoom \in {RxRing - 1, RxRing - 2} /\ RxHeld = 0
    BY <1>0 DEF RxRight, RingFilled
  <2>2. rdt = At(RxRing, rxHead, RxHasRoom) /\ RxHasRoom \in 1 .. RxRing - 1
    BY <1>0, <2>1 DEF RxAt
  <2> QED BY <1>0, <2>2 DEF At
<1>4. RxInOrder
  <2> SUFFICES ASSUME ~rxNested, ~rxOom
               PROVE  rxTaken = rxGiven \o (IF HeadOut
                          /\ InRing # <<>> THEN Tail(InRing) ELSE InRing)
    BY DEF RxInOrder
  <2>0. OnePoll /\ RingHolds
    BY DEF RxRight
  <2>1. (rdh - rxHead) % RxRing = RxHeld
    BY <1>0, ModSteps DEF RxHeld
  <2>2. \A k \in 1 .. RxHeld : (rxHead + k - 1) % RxRing = RxAt(k - 1) /\ RxAt(k - 1) \in RxPlaces
    <3> SUFFICES ASSUME NEW k \in 1 .. RxHeld PROVE (rxHead + k - 1) % RxRing = RxAt(k - 1)
                   /\ RxAt(k - 1) \in RxPlaces
      OBVIOUS
    <3>1. PICK j \in 0 .. RxRing - 1 : j = k - 1 /\ rxHead + k - 1 = rxHead + j
      BY <1>0
    <3> QED BY <1>0, <3>1, ModAt DEF RxAt, RxPlaces
  <2>3. /\ InRing = [k \in 1 .. RxHeld |-> rxDesc[RxAt(k - 1)].frame]
    BY <2>1, <2>2 DEF InRing
  <2>4. PICK s \in Seq(Nat) : s = InRing /\ Len(s) = RxHeld
        /\ \A k \in 1 .. RxHeld : s[k] = rxDesc[RxAt(k - 1)].frame
    <3>1. \A k \in 1 .. RxHeld : rxDesc[RxAt(k - 1)].frame \in Nat
      BY <1>0, <2>2 DEF RxTypes
    <3>2. InRing \in [1 .. RxHeld -> Nat]
      BY <2>3, <3>1
    <3>3. InRing \in Seq(Nat) /\ Len(InRing) = RxHeld
      BY <1>0, <3>2, SequenceIs
    <3>4. \A k \in 1 .. RxHeld : InRing[k] = rxDesc[RxAt(k - 1)].frame
      BY <2>3
    <3> QED BY <3>3, <3>4, Zenon
  <2>5. /\ rxGiven \in Seq(Nat) /\ rxTaken \in Seq(Nat) /\ Len(rxGiven) \in Nat /\ Out \in 0 .. 1
        /\ (Out = 1 => RxHeld # 0)
    BY <1>0, <2>0 DEF RxTypes, Out, OnePoll
  <2>6. CASE Out = 0
    <3>1. \A k \in RxPlaces : 0 <= k /\ k < RxHeld
          => rxTaken[Len(rxGiven) + k + 1 - 0] = rxDesc[RxAt(k)].frame
      BY <2>0, <2>6 DEF RingHolds
    <3>2. ASSUME NEW k \in 1 .. RxHeld PROVE rxTaken[Len(rxGiven) + k] = s[k]
      <4>1. k - 1 \in RxPlaces /\ 0 <= k - 1 /\ k - 1 < RxHeld
            /\ Len(rxGiven) + (k - 1) + 1 - 0 = Len(rxGiven) + k
        BY <1>0, <2>5 DEF RxPlaces
      <4> QED BY <2>4, <3>1, <4>1
    <3>3. Len(rxTaken) = Len(rxGiven) + Len(s)
      BY <1>0, <2>0, <2>4, <2>5, <2>6 DEF RingHolds
    <3>4. \A j \in 1 .. Len(rxGiven) : rxTaken[j] = rxGiven[j]
      BY <2>0 DEF RingHolds
    <3>5. rxTaken = rxGiven \o s
      BY <2>4, <2>5, <3>2, <3>3, <3>4, Joined
    <3> QED BY <1>2, <2>4, <2>6, <3>5
  <2>7. CASE Out = 1
    <3>1. \A k \in RxPlaces : 1 <= k /\ k < RxHeld
          => rxTaken[Len(rxGiven) + k + 1 - 1] = rxDesc[RxAt(k)].frame
      BY <2>0, <2>7 DEF RingHolds
    <3>2. PICK t \in Seq(Nat) : t = Tail(s) /\ Len(t) = Len(s) - 1
          /\ \A k \in 1 .. Len(t) : t[k] = s[k + 1]
      <4>1. s # <<>>
        BY <1>0, <2>4, <2>5, <2>7
      <4>2. /\ Tail(s) \in Seq(Nat) /\ Len(Tail(s)) = Len(s) - 1
            /\ \A k \in 1 .. Len(s) - 1 : Tail(s)[k] = s[k + 1]
        BY <4>1, TailIs
      <4> QED BY <4>2, Zenon
    <3>3. ASSUME NEW k \in 1 .. Len(t) PROVE rxTaken[Len(rxGiven) + k] = t[k]
      <4>1. /\ k \in RxPlaces /\ 1 <= k /\ k < RxHeld /\ Len(rxGiven) + k + 1 - 1 = Len(rxGiven) + k
            /\ k + 1 \in 1 .. RxHeld /\ (k + 1) - 1 = k
        BY <1>0, <2>4, <2>5, <3>2 DEF RxPlaces
      <4> QED BY <2>4, <3>1, <3>2, <4>1
    <3>4. Len(rxTaken) = Len(rxGiven) + Len(t)
      BY <1>0, <2>0, <2>4, <2>5, <2>7, <3>2 DEF RingHolds
    <3>5. \A j \in 1 .. Len(rxGiven) : rxTaken[j] = rxGiven[j]
      BY <2>0 DEF RingHolds
    <3>6. rxTaken = rxGiven \o t
      BY <2>5, <3>3, <3>4, <3>5, Joined
    <3>7. InRing # <<>>
      BY <1>0, <2>4, <2>5, <2>7
    <3>8. t = Tail(InRing)
      BY <2>4, <3>2
    <3>9. HeadOut /\ InRing # <<>>
      BY <1>2, <2>7, <3>7
    <3> QED BY <3>6, <3>8, <3>9, Zenon
  <2>8. Out = 0 \/ Out = 1
    BY DEF Out
  <2> QED BY <2>6, <2>7, <2>8, Zenon
<1> QED BY <1>1, <1>3, <1>4 DEF RxRight

-----------------------------------------------------------------------------
(* NicTx: unless a call ran inside the shell's on its descriptor, w          *)
(* descriptors from TDH on are waiting, and with what is on the wire they    *)
(* hold what was announced.  TDT is w places on, which with all waiting is   *)
(* TDH itself; the shell's call has its own descriptor, that at TDT.         *)
TxPlaces == 0 .. TxRing - 1
TxAt(k) == At(TxRing, tdh, k)
OnWire(f) == \E j \in 1 .. Len(txWire) : txWire[j] = f
TxTypes ==
  /\ txTail \in TxPlaces /\ tdh \in TxPlaces /\ tdt \in TxPlaces /\ txNo \in 0 .. TxFrames
  /\ shellTx \in [at : 0 .. 5, frame : Nat, idx : TxPlaces]
TxSeqs ==
  /\ txDesc \in [TxPlaces -> [dd : BOOLEAN, frame : Nat]]
  /\ txWire \in Seq(Nat) /\ txHanded \in Seq(Nat)
TxWaits(w) ==
  /\ tdt = TxAt(w)
  /\ \A k \in TxPlaces : txDesc[TxAt(k)].dd <=> ~(k < w) /\ ~(shellTx.at = 3
         /\ TxAt(k) = shellTx.idx)
  /\ w = TxRing \/ (w = TxRing - 1 /\ shellTx.at = 3) => txFull
TxShell(w) ==
  /\ shellTx.at \in {0, 5} => txTail = tdt
  /\ shellTx.at \in 1 .. 3 => txTail = tdt /\ shellTx.idx = tdt /\ w < TxRing
  /\ shellTx.at \in 2 .. 3 => txDesc[shellTx.idx].frame = shellTx.frame
  /\ shellTx.at = 4 => tdt = TxNext(shellTx.idx)
  /\ shellTx.at \in 4 .. 5 =>
       OnWire(shellTx.frame) \/ \E k \in TxPlaces :
         k < w /\ TxAt(k) = shellTx.idx /\ txDesc[shellTx.idx].frame = shellTx.frame
TxHolds(w) ==
  /\ Len(txHanded) = Len(txWire) + w
  /\ \A j \in 1 .. Len(txWire) : txWire[j] = txHanded[j]
  /\ \A k \in TxPlaces : k < w => txHanded[Len(txWire) + k + 1] = txDesc[TxAt(k)].frame
  /\ \A f \in txSaid : OnWire(f)
TxRight ==
  /\ TxTypes
  /\ ~txRaced => TxSeqs /\ \E w \in 0 .. TxRing : TxWaits(w) /\ TxShell(w) /\ TxHolds(w)

(* Where the ring's places are, counted from TDH.                            *)
LEMMA TxGeometry ==
  ASSUME TxTypes
  PROVE  /\ TxRing \in Nat \ {0} /\ TxRing > 1 /\ TxFrames \in Nat
         /\ TxAt(0) = tdh /\ TxAt(TxRing) = tdh
         /\ \A k \in TxPlaces : TxAt(k) \in TxPlaces /\ TxNext(TxAt(k)) = TxAt(k + 1)
         /\ \A k, m \in TxPlaces : TxAt(k) = TxAt(m) => k = m
         /\ \A i \in TxPlaces : \E k \in TxPlaces : i = TxAt(k)
         /\ \A i \in TxPlaces : TxNext(i) \in TxPlaces /\ TxNext(i) = At(TxRing, i, 1)
<1>0. TxRing \in Nat \ {0} /\ TxRing > 1 /\ TxFrames \in Nat
  BY TxAssumption
<1>1. tdh \in 0 .. TxRing - 1 /\ 1 \in 0 .. TxRing - 1
  BY <1>0 DEF TxTypes, TxPlaces
<1>2. \A i \in TxPlaces : TxNext(i) \in TxPlaces /\ TxNext(i) = At(TxRing, i, 1)
  BY <1>0, <1>1, ModAt DEF TxNext, TxPlaces
<1>3. \A k \in TxPlaces : TxAt(k) \in TxPlaces /\ Steps(TxRing, tdh, TxAt(k)) = k
  BY <1>0, <1>1, StepsAt DEF TxAt, TxPlaces
<1>4. \A i \in TxPlaces : \E k \in TxPlaces : i = TxAt(k)
  BY <1>0, <1>1, StepsAt DEF TxAt, TxPlaces
<1>5. TxAt(0) = tdh /\ TxAt(TxRing) = tdh
  BY <1>0, <1>1 DEF TxAt, At
<1>6. \A k \in TxPlaces : At(TxRing, TxAt(k), 1) = TxAt(k + 1)
  BY <1>0, <1>1 DEF TxAt, At, TxPlaces
<1>7. \A k \in TxPlaces : TxNext(TxAt(k)) = TxAt(k + 1)
  BY <1>2, <1>3, <1>6
<1>8. \A k, m \in TxPlaces : TxAt(k) = TxAt(m) => k = m
  BY <1>3
<1> QED BY <1>0, <1>2, <1>3, <1>4, <1>5, <1>7, <1>8

(* With no descriptor free all are waiting.                                  *)
LEMMA AllWait ==
  ASSUME NEW d, DOMAIN d = TxPlaces, \A i \in TxPlaces : ~d[i].dd
  PROVE  Cardinality(Waiting(d)) = TxRing
<1>1. Waiting(d) = 0 .. TxRing - 1
  BY DEF Waiting, TxPlaces
<1>2. Cardinality(0 .. TxRing - 1) = TxRing
  <2>1. 0 \in Int /\ TxRing - 1 \in Int /\ 0 <= TxRing - 1 /\ TxRing - 1 - 0 + 1 = TxRing
    BY TxAssumption
  <2> QED BY <2>1, FS_Interval
<1> QED BY <1>1, <1>2

LEMMA TxCleared ==
  ASSUME TxRing \in Nat \ {0}
  PROVE  /\ TxClear \in [TxPlaces -> [dd : BOOLEAN, frame : Nat]]
         /\ \A i \in TxPlaces : TxClear[i].dd
BY DEF TxClear, TxPlaces

(* The ring is empty at first.                                               *)
LEMMA TxStarts == TxInit => TxRight
<1> SUFFICES ASSUME TxInit PROVE TxRight
  OBVIOUS
<1>0. TxRing \in Nat \ {0} /\ TxRing > 1 /\ TxFrames \in Nat /\ <<>> \in Seq(Nat) /\ Len(<<>>) = 0
  BY TxAssumption
<1>1. NoTx \in [at : 0 .. 5, frame : Nat, idx : TxPlaces] /\ NoTx.at = 0
  BY <1>0 DEF NoTx, TxPlaces
<1>2. TxTypes
  BY <1>0, <1>1 DEF TxInit, TxTypes, TxPlaces
<1>3. TxSeqs
  BY <1>0, TxCleared DEF TxInit, TxSeqs
<1>4. TxWaits(0)
  <2>1. \A k \in TxPlaces : TxAt(k) \in TxPlaces /\ txDesc[TxAt(k)].dd
    BY <1>0, <1>2, TxGeometry, TxCleared DEF TxInit
  <2>2. shellTx.at = 0 /\ tdt = TxAt(0)
    BY <1>1, <1>2, TxGeometry DEF TxInit
  <2>3. \A k \in TxPlaces : ~(k < 0)
    BY <1>0 DEF TxPlaces
  <2> QED BY <1>0, <2>1, <2>2, <2>3 DEF TxWaits
<1>5. TxShell(0)
  BY <1>1 DEF TxInit, TxShell
<1>6. TxHolds(0)
  BY <1>0 DEF TxInit, TxHolds, TxPlaces
<1> QED BY <1>0, <1>2, <1>3, <1>4, <1>5, <1>6 DEF TxRight

(* A call of the shell begins: it returns at once, or the descriptor at the  *)
(* tail is its own.                                                          *)
LEMMA SendKeeps ==
  ASSUME TxRight, NEW fits \in BOOLEAN, ShellSend(fits)
  PROVE  TxRight'
<1>0. /\ TxTypes /\ shellTx.at = 0 /\ txNo < TxFrames /\ txNo' = txNo + 1
      /\ shellTx' = (IF txUp /\ fits /\ TxFree(txTail)
                     THEN [at |-> 1, frame |-> txNo + 1, idx |-> txTail] ELSE NoTx)
      /\ UNCHANGED <<txUp, txDesc, txTail, tdh, tdt, txWire, txHanded, txSaid, txRaced, txFull>>
  BY DEF TxRight, ShellSend
<1>1. /\ shellTx' \in [at : 0 .. 5, frame : Nat, idx : TxPlaces]
      /\ \/ shellTx'.at = 0
         \/ shellTx'.at = 1 /\ shellTx'.idx = txTail /\ txDesc[txTail].dd
  <2>1. txNo + 1 \in Nat /\ 0 \in TxPlaces
    BY <1>0, TxGeometry DEF TxTypes, TxPlaces
  <2>2. NoTx \in [at : 0 .. 5, frame : Nat, idx : TxPlaces] /\ NoTx.at = 0
    BY <2>1 DEF NoTx
  <2> QED BY <1>0, <2>1, <2>2 DEF TxTypes, TxFree
<1>2. TxTypes'
  BY <1>0, <1>1, TxAssumption DEF TxTypes
<1>3. ASSUME ~txRaced, NEW w \in 0 .. TxRing, TxWaits(w), TxShell(w), TxHolds(w)
      PROVE  TxWaits(w)' /\ TxShell(w)' /\ TxHolds(w)'
  <2>1. \A k : TxAt(k)' = TxAt(k)
    BY <1>0 DEF TxAt
  <2>2. \A f : OnWire(f)' <=> OnWire(f)
    BY <1>0 DEF OnWire
  <2>3. shellTx'.at \in {0, 1}
    BY <1>1
  <2>4. TxWaits(w)'
    BY <1>0, <1>3, <2>1, <2>3 DEF TxWaits
  <2>5. TxHolds(w)'
    BY <1>0, <1>3, <2>1, <2>2 DEF TxHolds
  <2>6. shellTx'.at = 1 => w < TxRing
    <3>1. w = TxRing => ~txDesc[TxAt(0)].dd /\ TxAt(0) = tdt
      BY <1>0, <1>3, TxGeometry DEF TxWaits, TxPlaces
    <3>2. txTail = tdt
      BY <1>0, <1>3 DEF TxShell
    <3> QED BY <1>0, <1>1, <3>1, <3>2, TxGeometry
  <2>7. TxShell(w)'
    BY <1>0, <1>1, <1>3, <2>3, <2>6 DEF TxShell
  <2> QED BY <2>4, <2>5, <2>7
<1> QED BY <1>0, <1>2, <1>3 DEF TxRight, TxSeqs

(* The first four statements after the tests: copy, arm, tell, move.         *)
LEMMA StepTyped ==
  ASSUME TxRight, ShellStep
  PROVE  /\ TxTypes /\ TxTypes' /\ shellTx.at \in 1 .. 4 /\ shellTx'.at = shellTx.at + 1
         /\ shellTx'.frame = shellTx.frame /\ shellTx'.idx = shellTx.idx
         /\ UNCHANGED <<tdh, txWire, txSaid, txRaced>>
         /\ (shellTx.at = 1 => txDesc' = [txDesc EXCEPT ![shellTx.idx].frame = shellTx.frame])
         /\ (shellTx.at = 2 => txDesc' = [txDesc EXCEPT ![shellTx.idx].dd = FALSE])
         /\ (shellTx.at \in 3 .. 4 => txDesc' = txDesc)
         /\ (shellTx.at = 4 => txTail' = TxNext(shellTx.idx)) /\ (shellTx.at # 4
                => txTail' = txTail)
         /\ (shellTx.at = 3 => tdt' = TxNext(shellTx.idx)
                /\ txHanded' = Append(txHanded, shellTx.frame))
         /\ (shellTx.at # 3 => tdt' = tdt /\ txHanded' = txHanded)
         /\ txFull' = (txFull \/ Cardinality(Waiting(txDesc')) = TxRing)
<1>1. Len(TxOrder) = 4 /\ TxOrder[1] = "copy" /\ TxOrder[2] = "arm" /\ TxOrder[3] = "tell"
      /\ TxOrder[4] = "move"
  BY DEF TxOrder
<1>2. TxTypes /\ shellTx.at \in 1 .. 4 /\ shellTx.idx \in TxPlaces
      /\ shellTx' = [shellTx EXCEPT !.at = @ + 1]
      /\ UNCHANGED <<tdh, txNo, txWire, txSaid, txRaced>>
  BY <1>1 DEF TxRight, TxTypes, ShellStep
<1>3. shellTx' \in [at : 0 .. 5, frame : Nat, idx : TxPlaces] /\ shellTx'.at = shellTx.at + 1
      /\ shellTx'.frame = shellTx.frame /\ shellTx'.idx = shellTx.idx
  <2>1. PICK a \in 0 .. 5 : a = shellTx.at + 1
    BY <1>2
  <2>2. shellTx' = [shellTx EXCEPT !.at = a]
    BY <1>2, <2>1 DEF TxTypes
  <2>3. shellTx' \in [at : 0 .. 5, frame : Nat, idx : TxPlaces] /\ shellTx'.at = a
        /\ shellTx'.frame = shellTx.frame /\ shellTx'.idx = shellTx.idx
    BY <1>2, <2>2 DEF TxTypes
  <2> QED BY <2>1, <2>3
<1>4. /\ txDesc' = Stated(txDesc, txTail, tdt, shellTx.frame, shellTx.idx, TxOrder[shellTx.at]).desc
      /\ txTail' = Stated(txDesc, txTail, tdt, shellTx.frame, shellTx.idx, TxOrder[shellTx.at]).tail
      /\ tdt' = Stated(txDesc, txTail, tdt, shellTx.frame, shellTx.idx, TxOrder[shellTx.at]).tdt
      /\ txHanded' = (IF TxOrder[shellTx.at] = "tell" THEN Append(txHanded, shellTx.frame) ELSE txHanded)
  BY DEF ShellStep
<1>5. txFull' = (txFull \/ Cardinality(Waiting(txDesc')) = TxRing)
  BY Zenon DEF ShellStep
<1>6. /\ (shellTx.at = 1 => txDesc' = [txDesc EXCEPT ![shellTx.idx].frame = shellTx.frame])
      /\ (shellTx.at = 2 => txDesc' = [txDesc EXCEPT ![shellTx.idx].dd = FALSE])
      /\ (shellTx.at \in 3 .. 4 => txDesc' = txDesc)
      /\ (shellTx.at = 4 => txTail' = TxNext(shellTx.idx)) /\ (shellTx.at # 4 => txTail' = txTail)
      /\ (shellTx.at = 3 => tdt' = TxNext(shellTx.idx)
             /\ txHanded' = Append(txHanded, shellTx.frame))
      /\ (shellTx.at # 3 => tdt' = tdt /\ txHanded' = txHanded)
  <2>1. CASE shellTx.at = 1
    BY <1>1, <1>4, <2>1 DEF Stated
  <2>2. CASE shellTx.at = 2
    BY <1>1, <1>4, <2>2 DEF Stated
  <2>3. CASE shellTx.at = 3
    BY <1>1, <1>4, <2>3 DEF Stated
  <2>4. CASE shellTx.at = 4
    BY <1>1, <1>4, <2>4 DEF Stated
  <2> QED BY <1>2, <2>1, <2>2, <2>3, <2>4
<1>7. TxNext(shellTx.idx) \in TxPlaces
  BY <1>2, TxGeometry
<1>8. TxTypes'
  <2>1. txTail' \in TxPlaces /\ tdt' \in TxPlaces
    BY <1>2, <1>6, <1>7 DEF TxTypes
  <2> QED BY <1>2, <1>3, <2>1 DEF TxTypes
<1> QED BY <1>2, <1>3, <1>5, <1>6, <1>8

(* What the steps of a call share: nothing leaves the machine.               *)
LEMMA CopyKeeps ==
  ASSUME TxRight, ShellStep, shellTx.at = 1
  PROVE  TxRight'
<1>0. /\ TxTypes /\ TxTypes' /\ shellTx'.at = 2 /\ shellTx'.frame = shellTx.frame
           /\ shellTx'.idx = shellTx.idx
      /\ UNCHANGED <<tdh, tdt, txTail, txWire, txHanded, txSaid, txRaced>> /\ (txFull => txFull')
      /\ txDesc' = [txDesc EXCEPT ![shellTx.idx].frame = shellTx.frame]
      /\ shellTx.frame \in Nat /\ shellTx.idx \in TxPlaces
  <2>1. txFull' = (txFull \/ Cardinality(Waiting(txDesc')) = TxRing)
    BY StepTyped
  <2>2. txFull => txFull'
    BY <2>1, Zenon
  <2>3. /\ TxTypes /\ TxTypes' /\ shellTx'.at = 2 /\ shellTx'.frame = shellTx.frame
             /\ shellTx'.idx = shellTx.idx
        /\ UNCHANGED <<tdh, tdt, txTail, txWire, txHanded, txSaid, txRaced>>
        /\ txDesc' = [txDesc EXCEPT ![shellTx.idx].frame = shellTx.frame]
        /\ shellTx.frame \in Nat /\ shellTx.idx \in TxPlaces
    BY StepTyped DEF TxTypes
  <2> QED BY <2>2, <2>3
<1>1. ASSUME ~txRaced, TxSeqs, NEW w \in 0 .. TxRing, TxWaits(w), TxShell(w), TxHolds(w)
      PROVE  TxSeqs' /\ TxWaits(w)' /\ TxShell(w)' /\ TxHolds(w)'
  <2>1. (\A k : TxAt(k)' = TxAt(k)) /\ (\A f : OnWire(f)' <=> OnWire(f))
    BY <1>0 DEF TxAt, OnWire
  <2>2. /\ txDesc' \in [TxPlaces -> [dd : BOOLEAN, frame : Nat]]
        /\ \A i \in TxPlaces : IF i = shellTx.idx THEN txDesc'[i].frame = shellTx.frame
             /\ txDesc'[i].dd = txDesc[i].dd
                              ELSE txDesc'[i] = txDesc[i]
    BY <1>0, <1>1 DEF TxSeqs
  <2>3. shellTx.idx = tdt /\ txTail = tdt /\ w < TxRing /\ tdt = TxAt(w)
    BY <1>1 DEF TxShell, TxWaits
  <2>4. w \in TxPlaces /\ \A k \in TxPlaces : TxAt(k) \in TxPlaces /\ (TxAt(k) = tdt => k = w)
    BY <1>0, <2>3, TxGeometry DEF TxPlaces
  <2>5. TxWaits(w)'
    <3>1. \A k \in TxPlaces : txDesc'[TxAt(k)].dd = txDesc[TxAt(k)].dd
      BY <2>2, <2>4
    <3> QED BY <1>0, <1>1, <2>1, <2>3, <3>1 DEF TxWaits
  <2>6. TxShell(w)'
    BY <1>0, <2>2, <2>3 DEF TxShell
  <2>7. TxHolds(w)'
    <3>1. ASSUME NEW k \in TxPlaces, k < w PROVE txDesc'[TxAt(k)] = txDesc[TxAt(k)]
      <4>1. k # w
        BY <2>4, <3>1 DEF TxPlaces
      <4>2. TxAt(k) \in TxPlaces /\ TxAt(k) # shellTx.idx
        BY <2>3, <2>4, <4>1
      <4> QED BY <2>2, <4>2
    <3> QED BY <1>0, <1>1, <2>1, <3>1 DEF TxHolds
  <2> QED BY <1>0, <1>1, <2>2, <2>5, <2>6, <2>7 DEF TxSeqs
<1> QED BY <1>0, <1>1 DEF TxRight

LEMMA ArmKeeps ==
  ASSUME TxRight, ShellStep, shellTx.at = 2
  PROVE  TxRight'
<1>0. /\ TxTypes /\ TxTypes' /\ shellTx'.at = 3 /\ shellTx'.frame = shellTx.frame
           /\ shellTx'.idx = shellTx.idx
      /\ UNCHANGED <<tdh, tdt, txTail, txWire, txHanded, txSaid, txRaced>>
      /\ txFull' = (txFull \/ Cardinality(Waiting(txDesc')) = TxRing)
      /\ txDesc' = [txDesc EXCEPT ![shellTx.idx].dd = FALSE]
      /\ shellTx.frame \in Nat /\ shellTx.idx \in TxPlaces
  BY StepTyped DEF TxTypes
<1>1. ASSUME ~txRaced, TxSeqs, NEW w \in 0 .. TxRing, TxWaits(w), TxShell(w), TxHolds(w)
      PROVE  TxSeqs' /\ TxWaits(w)' /\ TxShell(w)' /\ TxHolds(w)'
  <2>1. (\A k : TxAt(k)' = TxAt(k)) /\ (\A f : OnWire(f)' <=> OnWire(f))
    BY <1>0 DEF TxAt, OnWire
  <2>2. /\ txDesc' \in [TxPlaces -> [dd : BOOLEAN, frame : Nat]]
        /\ \A i \in TxPlaces : IF i = shellTx.idx THEN txDesc'[i].frame = txDesc[i].frame
             /\ ~txDesc'[i].dd
                              ELSE txDesc'[i] = txDesc[i]
    BY <1>0, <1>1 DEF TxSeqs
  <2>3. shellTx.idx = tdt /\ txTail = tdt /\ w < TxRing /\ tdt = TxAt(w)
    BY <1>1 DEF TxShell, TxWaits
  <2>4. /\ w \in TxPlaces /\ TxRing \in Nat \ {0}
        /\ \A k \in TxPlaces : TxAt(k) \in TxPlaces /\ (TxAt(k) = tdt => k = w)
        /\ \A i \in TxPlaces : \E k \in TxPlaces : i = TxAt(k)
    BY <1>0, <2>3, TxGeometry DEF TxPlaces
  <2>5. \A k \in TxPlaces : txDesc'[TxAt(k)].dd <=> ~(k < w) /\ TxAt(k) # shellTx.idx
    <3>1. \A k \in TxPlaces : txDesc[TxAt(k)].dd <=> ~(k < w)
      BY <1>1 DEF TxWaits
    <3> QED BY <2>2, <2>4, <3>1
  <2>6. w = TxRing - 1 => txFull'
    <3>1. ASSUME w = TxRing - 1, NEW i \in TxPlaces PROVE ~txDesc'[i].dd
      <4>1. PICK k \in TxPlaces : i = TxAt(k)
        BY <2>4
      <4>2. k < w \/ k = w
        BY <2>4, <3>1 DEF TxPlaces
      <4> QED BY <2>3, <2>5, <4>1, <4>2
    <3>2. DOMAIN txDesc' = TxPlaces
      BY <2>2
    <3>3. w = TxRing - 1 => Cardinality(Waiting(txDesc')) = TxRing
      BY <3>1, <3>2, AllWait
    <3> QED BY <1>0, <3>3
  <2>7. TxWaits(w)'
    BY <1>0, <2>1, <2>3, <2>5, <2>6 DEF TxWaits
  <2>8. TxShell(w)'
    BY <1>0, <1>1, <2>2, <2>3 DEF TxShell
  <2>9. TxHolds(w)'
    <3>1. \A k \in TxPlaces : txDesc'[TxAt(k)].frame = txDesc[TxAt(k)].frame
      BY <2>2, <2>4
    <3> QED BY <1>0, <1>1, <2>1, <3>1 DEF TxHolds
  <2> QED BY <1>0, <1>1, <2>2, <2>7, <2>8, <2>9 DEF TxSeqs
<1> QED BY <1>0, <1>1 DEF TxRight

LEMMA TellKeeps ==
  ASSUME TxRight, ShellStep, shellTx.at = 3
  PROVE  TxRight'
<1>0. /\ TxTypes /\ TxTypes' /\ shellTx'.at = 4 /\ shellTx'.frame = shellTx.frame
           /\ shellTx'.idx = shellTx.idx
      /\ UNCHANGED <<tdh, txTail, txWire, txDesc, txSaid, txRaced>> /\ (txFull => txFull')
      /\ tdt' = TxNext(shellTx.idx) /\ txHanded' = Append(txHanded, shellTx.frame)
      /\ shellTx.frame \in Nat /\ shellTx.idx \in TxPlaces
  <2>1. txFull' = (txFull \/ Cardinality(Waiting(txDesc')) = TxRing)
    BY StepTyped
  <2>2. txFull => txFull'
    BY <2>1, Zenon
  <2>3. /\ TxTypes /\ TxTypes' /\ shellTx'.at = 4 /\ shellTx'.frame = shellTx.frame
             /\ shellTx'.idx = shellTx.idx
        /\ UNCHANGED <<tdh, txTail, txWire, txDesc, txSaid, txRaced>>
        /\ tdt' = TxNext(shellTx.idx) /\ txHanded' = Append(txHanded, shellTx.frame)
        /\ shellTx.frame \in Nat /\ shellTx.idx \in TxPlaces
    BY StepTyped DEF TxTypes
  <2> QED BY <2>2, <2>3
<1>1. ASSUME ~txRaced, TxSeqs, NEW w \in 0 .. TxRing, TxWaits(w), TxShell(w), TxHolds(w)
      PROVE  TxSeqs' /\ w + 1 \in 0 .. TxRing /\ TxWaits(w + 1)' /\ TxShell(w + 1)'
               /\ TxHolds(w + 1)'
  <2>1. (\A k : TxAt(k)' = TxAt(k)) /\ (\A f : OnWire(f)' <=> OnWire(f))
    BY <1>0 DEF TxAt, OnWire
  <2>3. shellTx.idx = tdt /\ txTail = tdt /\ w < TxRing /\ tdt = TxAt(w)
        /\ txDesc[shellTx.idx].frame = shellTx.frame
    BY <1>1 DEF TxShell, TxWaits
  <2>4. /\ w \in TxPlaces /\ TxRing \in Nat \ {0} /\ w + 1 \in 0 .. TxRing
        /\ \A k \in TxPlaces : TxAt(k) \in TxPlaces /\ (TxAt(k) = tdt => k = w)
        /\ tdt' = TxAt(w + 1)
    <3>1. w \in TxPlaces /\ TxRing \in Nat \ {0} /\ w + 1 \in 0 .. TxRing
      <4>1. TxRing \in Nat \ {0}
        BY <1>0, TxGeometry
      <4> QED BY <2>3, <4>1 DEF TxPlaces
    <3>2. \A k \in TxPlaces : TxAt(k) \in TxPlaces /\ TxNext(TxAt(k)) = TxAt(k + 1)
      BY <1>0, TxGeometry
    <3>3. \A k \in TxPlaces : TxAt(k) = tdt => k = w
      BY <1>0, <2>3, <3>1, TxGeometry
    <3> QED BY <1>0, <2>3, <3>1, <3>2, <3>3
  <2>5. \A k \in TxPlaces : txDesc[TxAt(k)].dd <=> ~(k < w + 1)
    <3>1. \A k \in TxPlaces : txDesc[TxAt(k)].dd <=> ~(k < w) /\ TxAt(k) # shellTx.idx
      BY <1>1 DEF TxWaits
    <3>2. \A k \in TxPlaces : k < w + 1 <=> k < w \/ k = w
      BY <2>4 DEF TxPlaces
    <3> QED BY <2>3, <2>4, <3>1, <3>2
  <2>6. w + 1 = TxRing => txFull'
    BY <1>0, <1>1, <2>4 DEF TxWaits
  <2>7. TxWaits(w + 1)'
    BY <1>0, <2>1, <2>4, <2>5, <2>6 DEF TxWaits
  <2>8. TxShell(w + 1)'
    <3>1. w < w + 1 /\ TxAt(w) = shellTx.idx /\ w \in TxPlaces
      BY <2>3, <2>4 DEF TxPlaces
    <3>2. \E k \in TxPlaces : k < w + 1 /\ TxAt(k)' = shellTx'.idx
          /\ txDesc'[shellTx'.idx].frame = shellTx'.frame
      BY <1>0, <2>1, <2>3, <3>1
    <3>3. shellTx'.at = 4 /\ tdt' = TxNext(shellTx'.idx)
      BY <1>0
    <3> QED BY <3>2, <3>3 DEF TxShell
  <2>9. TxHolds(w + 1)'
    <3>1. /\ txHanded' \in Seq(Nat) /\ Len(txHanded') = Len(txHanded) + 1 /\ Len(txHanded) \in Nat
          /\ \A j \in 1 .. Len(txHanded) : txHanded'[j] = txHanded[j]
          /\ txHanded'[Len(txHanded) + 1] = shellTx.frame
      BY <1>0, <1>1 DEF TxSeqs
    <3>2. Len(txHanded) = Len(txWire) + w /\ Len(txWire) \in Nat
      BY <1>1 DEF TxHolds, TxSeqs
    <3>3. \A j \in 1 .. Len(txWire) : txWire[j] = txHanded'[j]
      BY <1>1, <2>4, <3>1, <3>2 DEF TxHolds
    <3>4. ASSUME NEW k \in TxPlaces, k < w + 1
          PROVE  txHanded'[Len(txWire) + k + 1] = txDesc[TxAt(k)].frame
      <4>1. CASE k = w
        BY <2>3, <2>4, <3>1, <3>2, <4>1
      <4>2. CASE k # w
        <5>1. k < w /\ Len(txWire) + k + 1 \in 1 .. Len(txHanded)
          BY <2>4, <3>2, <3>4, <4>2 DEF TxPlaces
        <5>2. txHanded[Len(txWire) + k + 1] = txDesc[TxAt(k)].frame
          BY <1>1, <5>1 DEF TxHolds
        <5> QED BY <3>1, <5>1, <5>2
      <4> QED BY <4>1, <4>2
    <3>5. Len(txHanded') = Len(txWire) + (w + 1)
      BY <2>4, <3>1, <3>2
    <3> QED BY <1>0, <1>1, <2>1, <3>3, <3>4, <3>5 DEF TxHolds
  <2>10. TxSeqs'
    BY <1>0, <1>1 DEF TxSeqs
  <2> QED BY <2>4, <2>7, <2>8, <2>9, <2>10
<1> QED BY <1>0, <1>1 DEF TxRight

LEMMA MoveTailKeeps ==
  ASSUME TxRight, ShellStep, shellTx.at = 4
  PROVE  TxRight'
<1>0. /\ TxTypes /\ TxTypes' /\ shellTx'.at = 5 /\ shellTx'.frame = shellTx.frame
           /\ shellTx'.idx = shellTx.idx
      /\ UNCHANGED <<tdh, tdt, txWire, txDesc, txHanded, txSaid, txRaced>> /\ (txFull => txFull')
      /\ txTail' = TxNext(shellTx.idx)
  <2>1. txFull' = (txFull \/ Cardinality(Waiting(txDesc')) = TxRing)
    BY StepTyped
  <2>2. txFull => txFull'
    BY <2>1, Zenon
  <2>3. /\ TxTypes /\ TxTypes' /\ shellTx'.at = 5 /\ shellTx'.frame = shellTx.frame
             /\ shellTx'.idx = shellTx.idx
        /\ UNCHANGED <<tdh, tdt, txWire, txDesc, txHanded, txSaid, txRaced>>
        /\ txTail' = TxNext(shellTx.idx)
    BY StepTyped DEF TxTypes
  <2> QED BY <2>2, <2>3
<1>1. ASSUME ~txRaced, TxSeqs, NEW w \in 0 .. TxRing, TxWaits(w), TxShell(w), TxHolds(w)
      PROVE  TxSeqs' /\ TxWaits(w)' /\ TxShell(w)' /\ TxHolds(w)'
  <2>1. (\A k : TxAt(k)' = TxAt(k)) /\ (\A f : OnWire(f)' <=> OnWire(f))
    BY <1>0 DEF TxAt, OnWire
  <2>2. TxWaits(w)'
    BY <1>0, <1>1, <2>1 DEF TxWaits
  <2>3. TxShell(w)'
    BY <1>0, <1>1, <2>1 DEF TxShell
  <2>4. TxHolds(w)'
    BY <1>0, <1>1, <2>1 DEF TxHolds
  <2> QED BY <1>0, <1>1, <2>2, <2>3, <2>4 DEF TxSeqs
<1> QED BY <1>0, <1>1 DEF TxRight

(* The end of the wait for DD.                                               *)
LEMMA WaitKeeps ==
  ASSUME TxRight, NEW seen \in BOOLEAN, ShellWait(seen)
  PROVE  TxRight'
<1>0. /\ TxTypes /\ shellTx.at = 5 /\ shellTx' = NoTx
      /\ txSaid' = (IF seen THEN txSaid \cup {shellTx.frame} ELSE txSaid)
      /\ (seen => txDesc[shellTx.idx].dd)
      /\ UNCHANGED <<txDesc, txTail, tdh, tdt, txWire, txNo, txHanded, txRaced, txFull>>
  BY DEF TxRight, ShellWait, TxOrder
<1>1. TxTypes' /\ shellTx'.at = 0
  <2>1. NoTx \in [at : 0 .. 5, frame : Nat, idx : TxPlaces] /\ NoTx.at = 0
    BY <1>0, TxGeometry DEF NoTx, TxPlaces
  <2> QED BY <1>0, <2>1 DEF TxTypes
<1>2. ASSUME ~txRaced, TxSeqs, NEW w \in 0 .. TxRing, TxWaits(w), TxShell(w), TxHolds(w)
      PROVE  TxSeqs' /\ TxWaits(w)' /\ TxShell(w)' /\ TxHolds(w)'
  <2>1. (\A k : TxAt(k)' = TxAt(k)) /\ (\A f : OnWire(f)' <=> OnWire(f))
    BY <1>0 DEF TxAt, OnWire
  <2>2. TxWaits(w)'
    BY <1>0, <1>1, <1>2, <2>1 DEF TxWaits
  <2>3. TxShell(w)'
    BY <1>0, <1>1, <1>2 DEF TxShell
  <2>4. seen => OnWire(shellTx.frame)
    <3>1. \/ OnWire(shellTx.frame)
          \/ \E k \in TxPlaces : k < w /\ TxAt(k) = shellTx.idx
      BY <1>0, <1>2 DEF TxShell
    <3>2. \A k \in TxPlaces : k < w => ~txDesc[TxAt(k)].dd
      BY <1>2 DEF TxWaits
    <3> QED BY <1>0, <3>1, <3>2
  <2>5. TxHolds(w)'
    BY <1>0, <1>2, <2>1, <2>4 DEF TxHolds
  <2> QED BY <1>0, <1>2, <2>2, <2>3, <2>5 DEF TxSeqs
<1> QED BY <1>0, <1>1, <1>2 DEF TxRight

(* Nothing of the ring changes.                                              *)
LEMMA TxSame ==
  ASSUME TxRight, txNo' \in 0 .. TxFrames,
         UNCHANGED <<txDesc, txTail, tdh, tdt, txWire, shellTx, txHanded, txSaid, txRaced, txFull>>
  PROVE  TxRight'
<1>1. TxTypes'
  BY DEF TxRight, TxTypes
<1>2. (\A k : TxAt(k)' = TxAt(k)) /\ (\A f : OnWire(f)' <=> OnWire(f))
  BY DEF TxAt, OnWire
<1>3. ASSUME ~txRaced, NEW w \in 0 .. TxRing, TxWaits(w), TxShell(w), TxHolds(w)
      PROVE  TxWaits(w)' /\ TxShell(w)' /\ TxHolds(w)'
  <2>1. TxWaits(w)'
    BY <1>2, <1>3 DEF TxWaits
  <2>2. TxShell(w)'
    BY <1>2, <1>3 DEF TxShell
  <2>3. TxHolds(w)'
    BY <1>2, <1>3 DEF TxHolds
  <2> QED BY <2>1, <2>2, <2>3
<1>4. TxSeqs => TxSeqs'
  BY DEF TxSeqs
<1> QED BY <1>1, <1>3, <1>4 DEF TxRight

(* The ring is cleared, and what was waiting is lost.                        *)
LEMMA IfUpKeeps ==
  ASSUME TxRight, IfUp
  PROVE  TxRight'
<1>0. /\ TxTypes /\ shellTx.at = 0 /\ shellTx' = shellTx /\ txDesc' = TxClear /\ txTail' = 0
           /\ tdh' = 0 /\ tdt' = 0
      /\ txHanded' = txWire /\ UNCHANGED <<txWire, txNo, txSaid, txRaced>>
  BY DEF TxRight, IfUp
<1>1. 0 \in TxPlaces /\ TxRing \in Nat \ {0} /\ TxRing > 1
  BY <1>0, TxGeometry DEF TxPlaces
<1>2. TxTypes'
  BY <1>0, <1>1 DEF TxTypes
<1>3. \A k \in TxPlaces : TxAt(k)' \in TxPlaces /\ txDesc'[TxAt(k)'].dd
  <2>1. \A k \in TxPlaces : TxAt(k)' = k
    BY <1>0, <1>1 DEF TxAt, At, TxPlaces
  <2> QED BY <1>0, <1>1, <2>1, TxCleared
<1>4. ASSUME ~txRaced, TxSeqs, NEW w \in 0 .. TxRing, TxWaits(w), TxShell(w), TxHolds(w)
      PROVE  TxSeqs' /\ TxWaits(0)' /\ TxShell(0)' /\ TxHolds(0)'
  <2>1. TxSeqs'
    BY <1>0, <1>1, <1>4, TxCleared DEF TxSeqs
  <2>2. TxAt(0)' = 0 /\ (\A f : OnWire(f)' <=> OnWire(f)) /\ (\A k \in TxPlaces : ~(k < 0))
    BY <1>0, <1>1 DEF TxAt, At, OnWire, TxPlaces
  <2>3. TxWaits(0)'
    BY <1>0, <1>1, <1>3, <2>2 DEF TxWaits
  <2>4. TxShell(0)'
    BY <1>0 DEF TxShell
  <2>5. TxHolds(0)'
    <3>1. Len(txWire) \in Nat
      BY <1>4 DEF TxSeqs
    <3>2. \A f \in txSaid : OnWire(f)
      BY <1>4 DEF TxHolds
    <3> QED BY <1>0, <2>2, <3>1, <3>2 DEF TxHolds
  <2> QED BY <2>1, <2>3, <2>4, <2>5
<1>5. 0 \in 0 .. TxRing
  BY <1>1
<1> QED BY <1>0, <1>2, <1>4, <1>5 DEF TxRight

(* The device sends the first frame that waits.                              *)
LEMMA DeviceKeeps ==
  ASSUME TxRight, DeviceSends
  PROVE  TxRight'
<1>0. /\ TxTypes /\ tdh # tdt /\ txWire' = Append(txWire, txDesc[tdh].frame)
      /\ txDesc' = [txDesc EXCEPT ![tdh].dd = TRUE] /\ tdh' = TxNext(tdh) /\ tdh \in TxPlaces
      /\ UNCHANGED <<txTail, tdt, txNo, shellTx, txHanded, txSaid, txRaced, txFull>>
  BY DEF TxRight, TxTypes, DeviceSends
<1>1. /\ TxRing \in Nat \ {0} /\ TxRing > 1 /\ tdh' \in TxPlaces /\ tdh' = At(TxRing, tdh, 1)
      /\ TxAt(0) = tdh /\ TxAt(TxRing) = tdh
  BY <1>0, TxGeometry
<1>2. TxTypes'
  BY <1>0, <1>1 DEF TxTypes
<1>3. (\A k \in 0 .. TxRing - 2 : TxAt(k)' = TxAt(k + 1)) /\ TxAt(TxRing - 1)' = tdh
  <2>1. tdh \in 0 .. TxRing - 1
    BY <1>0 DEF TxPlaces
  <2>2. /\ \A k \in 0 .. TxRing - 2 : At(TxRing, At(TxRing, tdh, 1), k) = At(TxRing, tdh, k + 1)
        /\ At(TxRing, At(TxRing, tdh, 1), TxRing - 1) = tdh
    BY <1>1, <2>1, StepsOn
  <2> QED BY <1>1, <2>2 DEF TxAt
<1>4. ASSUME ~txRaced, TxSeqs, NEW w \in 0 .. TxRing, TxWaits(w), TxShell(w), TxHolds(w)
      PROVE  TxSeqs' /\ w - 1 \in 0 .. TxRing /\ TxWaits(w - 1)' /\ TxShell(w - 1)'
               /\ TxHolds(w - 1)'
  <2>1. w \in 1 .. TxRing - 1 /\ w \in TxPlaces
    <3>1. tdt = TxAt(w)
      BY <1>4 DEF TxWaits
    <3>2. w # 0 /\ w # TxRing
      BY <1>0, <1>1, <3>1
    <3> QED BY <1>1, <3>2 DEF TxPlaces
  <2>2. /\ txDesc' \in [TxPlaces -> [dd : BOOLEAN, frame : Nat]] /\ txDesc'[tdh].dd
        /\ \A i \in TxPlaces : txDesc'[i].frame = txDesc[i].frame /\ (i # tdh
               => txDesc'[i].dd = txDesc[i].dd)
        /\ txDesc[tdh].frame \in Nat
    BY <1>0, <1>4 DEF TxSeqs
  <2>3. \A k \in 0 .. TxRing - 2 : /\ k \in TxPlaces /\ k + 1 \in TxPlaces /\ TxAt(k)' = TxAt(k + 1)
                                   /\ TxAt(k)' \in TxPlaces /\ TxAt(k)' # tdh
    <3>1. ASSUME NEW k \in 0 .. TxRing - 2
          PROVE  k \in TxPlaces /\ k + 1 \in TxPlaces /\ 0 \in TxPlaces /\ k + 1 # 0
      BY <1>1 DEF TxPlaces
    <3>2. ASSUME NEW k \in 0 .. TxRing - 2 PROVE TxAt(k)' \in TxPlaces /\ TxAt(k)' # tdh
      <4>1. TxAt(k + 1) \in TxPlaces /\ TxAt(k + 1) # TxAt(0)
        BY <1>0, <3>1, TxGeometry
      <4> QED BY <1>1, <1>3, <4>1
    <3> QED BY <1>3, <3>1, <3>2
  <2>4. \A k \in TxPlaces : k \in 0 .. TxRing - 2 \/ k = TxRing - 1
    BY <1>1 DEF TxPlaces
  <2>5. tdt = TxAt(w - 1)'
    <3>1. w - 1 \in 0 .. TxRing - 2 /\ (w - 1) + 1 = w
      BY <1>1, <2>1
    <3> QED BY <1>4, <2>3, <3>1 DEF TxWaits
  <2>6. ASSUME NEW k \in TxPlaces
        PROVE  txDesc'[TxAt(k)'].dd <=> ~(k < w - 1) /\ ~(shellTx.at = 3 /\ TxAt(k)' = shellTx.idx)
    <3>1. CASE k \in 0 .. TxRing - 2
      <4>1. txDesc[TxAt(k + 1)].dd <=> ~(k + 1 < w) /\ ~(shellTx.at = 3
            /\ TxAt(k + 1) = shellTx.idx)
        BY <1>4, <2>3, <3>1 DEF TxWaits
      <4>2. k + 1 < w <=> k < w - 1
        BY <1>1, <2>1, <3>1
      <4> QED BY <2>2, <2>3, <3>1, <4>1, <4>2
    <3>2. CASE k = TxRing - 1
      <4>1. TxAt(k)' = tdh /\ ~(k < w - 1)
        BY <1>1, <1>3, <2>1, <3>2
      <4>2. ~(shellTx.at = 3 /\ tdh = shellTx.idx)
        BY <1>0, <1>4 DEF TxShell
      <4> QED BY <2>2, <4>1, <4>2
    <3> QED BY <2>4, <3>1, <3>2
  <2>7. TxWaits(w - 1)'
    <3>1. ~(w - 1 = TxRing) /\ ~(w - 1 = TxRing - 1)
      BY <1>1, <2>1
    <3> QED BY <1>0, <2>5, <2>6, <3>1 DEF TxWaits
  <2>8. PICK g \in Nat : g = txDesc[tdh].frame
    BY <2>2
  <2>9. /\ txWire' \in Seq(Nat) /\ Len(txWire) \in Nat /\ Len(txWire') = Len(txWire) + 1
        /\ \A j \in 1 .. Len(txWire) : txWire'[j] = txWire[j]
        /\ txWire'[Len(txWire) + 1] = g
    BY <1>0, <1>4, <2>8 DEF TxSeqs
  <2>10. OnWire(g)' /\ \A f : OnWire(f) => OnWire(f)'
    <3>1. Len(txWire) + 1 \in 1 .. Len(txWire')
          /\ \A j \in 1 .. Len(txWire) : j \in 1 .. Len(txWire')
      BY <2>9
    <3>2. OnWire(g)'
      BY <2>9, <3>1 DEF OnWire
    <3>3. ASSUME NEW f, OnWire(f) PROVE OnWire(f)'
      BY <2>9, <3>1, <3>3 DEF OnWire
    <3> QED BY <3>2, <3>3
  <2>11. TxShell(w - 1)'
    <3>1. shellTx.at \in 1 .. 3 => w - 1 < TxRing
      BY <1>1, <2>1
    <3>2. shellTx.idx \in TxPlaces
      BY <1>0 DEF TxTypes
    <3>3. ASSUME shellTx.at \in 4 .. 5, ~OnWire(shellTx.frame)
          PROVE  \/ OnWire(shellTx.frame)'
                 \/ \E k \in TxPlaces : k < w - 1 /\ TxAt(k)' = shellTx.idx
                      /\ txDesc[shellTx.idx].frame = shellTx.frame
      <4>1. PICK k \in TxPlaces : k < w /\ TxAt(k) = shellTx.idx
            /\ txDesc[shellTx.idx].frame = shellTx.frame
        BY <1>4, <3>3 DEF TxShell
      <4>2. CASE k = 0
        BY <1>0, <1>1, <2>8, <2>10, <4>1, <4>2
      <4>3. CASE k # 0
        <5>1. k - 1 \in 0 .. TxRing - 2 /\ (k - 1) + 1 = k /\ k - 1 < w - 1
          BY <1>1, <2>1, <4>1, <4>3 DEF TxPlaces
        <5>2. k - 1 \in TxPlaces /\ TxAt(k - 1)' = TxAt(k)
          BY <2>3, <5>1
        <5> QED BY <4>1, <5>1, <5>2
      <4> QED BY <4>2, <4>3
    <3>4. shellTx.at \in 4 .. 5 =>
            OnWire(shellTx.frame)' \/ \E k \in TxPlaces :
              k < w - 1 /\ TxAt(k)' = shellTx'.idx /\ txDesc'[shellTx'.idx].frame = shellTx'.frame
      <4>1. OnWire(shellTx.frame) => OnWire(shellTx.frame)'
        BY <1>0, <2>10
      <4> QED BY <1>0, <2>2, <3>2, <3>3, <4>1
    <3>5. shellTx.at \in 2 .. 3 => txDesc'[shellTx.idx].frame = shellTx.frame
      BY <1>4, <2>2, <3>2 DEF TxShell
    <3> QED BY <1>0, <1>4, <3>1, <3>4, <3>5 DEF TxShell
  <2>12. TxHolds(w - 1)'
    <3>1. Len(txHanded) = Len(txWire) + w /\ Len(txHanded') = Len(txWire') + (w - 1)
      BY <1>0, <1>1, <1>4, <2>1, <2>9 DEF TxHolds
    <3>2. ASSUME NEW j \in 1 .. Len(txWire') PROVE txWire'[j] = txHanded[j]
      <4>1. CASE j \in 1 .. Len(txWire)
        BY <1>4, <2>9, <4>1 DEF TxHolds
      <4>2. CASE j = Len(txWire) + 1
        <5>1. 0 \in TxPlaces /\ 0 < w /\ Len(txWire) + 0 + 1 = Len(txWire) + 1
          BY <1>1, <2>1, <2>9 DEF TxPlaces
        <5>2. txHanded[Len(txWire) + 0 + 1] = txDesc[TxAt(0)].frame
          BY <1>4, <5>1 DEF TxHolds
        <5> QED BY <1>1, <2>8, <2>9, <4>2, <5>1, <5>2
      <4> QED BY <2>9, <3>2, <4>1, <4>2
    <3>3. ASSUME NEW k \in TxPlaces, k < w - 1
          PROVE  txHanded[Len(txWire') + k + 1] = txDesc'[TxAt(k)'].frame
      <4>1. k \in 0 .. TxRing - 2 /\ k + 1 < w /\ Len(txWire') + k + 1 = Len(txWire) + (k + 1) + 1
        BY <1>1, <2>1, <2>9, <3>3 DEF TxPlaces
      <4>2. txHanded[Len(txWire) + (k + 1) + 1] = txDesc[TxAt(k + 1)].frame
        BY <1>4, <2>3, <4>1 DEF TxHolds
      <4>3. TxAt(k)' = TxAt(k + 1) /\ TxAt(k)' \in TxPlaces
        BY <2>3, <4>1
      <4> QED BY <2>2, <4>1, <4>2, <4>3
    <3>4. \A f \in txSaid' : OnWire(f)'
      BY <1>0, <1>4, <2>10 DEF TxHolds
    <3> QED BY <1>0, <3>1, <3>2, <3>3, <3>4 DEF TxHolds
  <2>13. TxSeqs'
    BY <1>0, <1>4, <2>2, <2>9 DEF TxSeqs
  <2>14. w - 1 \in 0 .. TxRing
    BY <1>1, <2>1
  <2> QED BY <2>7, <2>11, <2>12, <2>13, <2>14
<1>5. ASSUME ~txRaced, TxSeqs, \E w \in 0 .. TxRing : TxWaits(w) /\ TxShell(w) /\ TxHolds(w)
      PROVE  TxSeqs' /\ \E w \in 0 .. TxRing : TxWaits(w)' /\ TxShell(w)' /\ TxHolds(w)'
  BY <1>4, <1>5
<1> QED BY <1>0, <1>2, <1>5 DEF TxRight

(* A whole call in the interrupt, while the shell has no descriptor of its   *)
(* own: the new frame waits with the others, or all of them are sent.        *)
LEMMA IrqKeeps ==
  ASSUME TxRight, NEW done \in BOOLEAN, IrqSend(done)
  PROVE  TxRight'
<1>0. TxTypes /\ txNo \in 0 .. TxFrames /\ txNo' = txNo + 1 /\ txNo' \in 0 .. TxFrames
  BY TxAssumption DEF TxRight, TxTypes, IrqSend
<1>1. CASE ~(txUp /\ TxFree(txTail))
  <2>1. UNCHANGED <<txDesc, txTail, tdh, tdt, txWire, shellTx, txHanded, txSaid, txRaced, txFull>>
    BY <1>1, Zenon DEF IrqSend
  <2> QED BY <1>0, <2>1, TxSame
<1>2. CASE txUp /\ TxFree(txTail)
  <2> DEFINE n == txNo + 1
             idx == txTail
             armed == [txDesc EXCEPT ![idx] = [dd |-> FALSE, frame |-> n]]
             L == (TxNext(idx) - tdh) % TxRing
             sent == [k \in 1 .. L |-> armed[(tdh + k - 1) % TxRing].frame]
  <2>5. /\ txTail' = TxNext(idx) /\ tdt' = TxNext(idx) /\ shellTx' = shellTx
        /\ txHanded' = Append(txHanded, n)
        /\ txRaced' = (txRaced \/ shellTx.at \in 1 .. Len(TxOrder))
        /\ txFull' = (txFull \/ Cardinality(Waiting(armed)) = TxRing)
        /\ IF done
             THEN /\ txWire' = txWire \o sent
                  /\ tdh' = TxNext(idx)
                  /\ txDesc' = [i \in DOMAIN armed |->
                       IF \E k \in DOMAIN sent : i = (tdh + k - 1) % TxRing
                         THEN [armed[i] EXCEPT !.dd = TRUE] ELSE armed[i]]
                  /\ txSaid' = IF txDesc'[idx].dd THEN txSaid \cup {n} ELSE txSaid
             ELSE txDesc' = armed /\ UNCHANGED <<txWire, tdh, txSaid>>
    BY <1>2, Zenon DEF IrqSend
  <2>1. n \in Nat /\ idx \in TxPlaces /\ n = txNo + 1 /\ idx = txTail /\ txDesc[idx].dd
    BY <1>0, <1>2 DEF TxTypes, TxFree
  <2>2. armed = [txDesc EXCEPT ![idx] = [dd |-> FALSE, frame |-> n]]
    OBVIOUS
  <2>3. L = (TxNext(idx) - tdh) % TxRing
    OBVIOUS
  <2>4. sent = [k \in 1 .. L |-> armed[(tdh + k - 1) % TxRing].frame]
    OBVIOUS
  <2> HIDE DEF n, idx, armed, L, sent
  <2>6. /\ TxRing \in Nat \ {0} /\ TxRing > 1 /\ tdh \in TxPlaces /\ TxNext(idx) \in TxPlaces
        /\ TxAt(0) = tdh /\ TxAt(TxRing) = tdh
        /\ \A k \in TxPlaces : TxAt(k) \in TxPlaces /\ TxNext(TxAt(k)) = TxAt(k + 1)
        /\ \A k, m \in TxPlaces : TxAt(k) = TxAt(m) => k = m
    BY <1>0, <2>1, TxGeometry DEF TxTypes
  <2>7. TxTypes'
    <3>1. tdh' \in TxPlaces
      BY <2>5, <2>6
    <3> QED BY <1>0, <2>5, <2>6, <3>1 DEF TxTypes
  <2>8. ASSUME ~txRaced', TxSeqs, NEW w \in 0 .. TxRing, TxWaits(w), TxShell(w), TxHolds(w)
        PROVE  TxSeqs' /\ \E v \in 0 .. TxRing : TxWaits(v)' /\ TxShell(v)' /\ TxHolds(v)'
    <3>1. shellTx.at \in {0, 5}
      <4>1. ~(shellTx.at \in 1 .. 4) /\ shellTx.at \in 0 .. 5
        BY <1>0, <2>5, <2>8 DEF TxOrder, TxTypes
      <4> QED BY <4>1
    <3>2. /\ w \in TxPlaces /\ w \in Nat /\ w + 1 \in 0 .. TxRing /\ idx = TxAt(w)
               /\ TxNext(idx) = TxAt(w + 1)
          /\ \A k \in TxPlaces : k < w + 1 <=> k < w \/ k = w
      <4>1. idx = TxAt(w) /\ (\A k \in TxPlaces : txDesc[TxAt(k)].dd <=> ~(k < w))
        BY <2>1, <2>8, <3>1 DEF TxShell, TxWaits
      <4>2. 0 \in TxPlaces /\ (w = TxRing => 0 < w)
        BY <2>6 DEF TxPlaces
      <4>3. w # TxRing
        BY <2>1, <2>6, <4>1, <4>2
      <4>4. /\ w \in TxPlaces /\ w \in Nat /\ w + 1 \in 0 .. TxRing
            /\ \A k \in TxPlaces : k < w + 1 <=> k < w \/ k = w
        BY <2>6, <4>3 DEF TxPlaces
      <4> QED BY <2>6, <4>1, <4>4
    <3>3. /\ armed \in [TxPlaces -> [dd : BOOLEAN, frame : Nat]] /\ ~armed[idx].dd
               /\ armed[idx].frame = n
          /\ \A i \in TxPlaces : i # idx => armed[i] = txDesc[i]
      BY <2>1, <2>2, <2>8 DEF TxSeqs
    <3>4. \A k \in TxPlaces : /\ armed[TxAt(k)].dd <=> ~(k < w + 1)
                              /\ k < w => TxAt(k) # idx
                                   /\ armed[TxAt(k)].frame = txDesc[TxAt(k)].frame
      <4>1. ASSUME NEW k \in TxPlaces
            PROVE  /\ armed[TxAt(k)].dd <=> ~(k < w + 1)
                   /\ k < w => TxAt(k) # idx /\ armed[TxAt(k)].frame = txDesc[TxAt(k)].frame
        <5>1. txDesc[TxAt(k)].dd <=> ~(k < w)
          BY <2>8, <3>1 DEF TxWaits
        <5>2. TxAt(k) \in TxPlaces /\ (TxAt(k) = idx <=> k = w) /\ (k < w => k # w)
          BY <2>6, <3>2 DEF TxPlaces
        <5> QED BY <3>2, <3>3, <5>1, <5>2
      <4> QED BY <4>1
    <3>5. /\ txHanded' \in Seq(Nat) /\ Len(txHanded') = Len(txWire) + (w + 1) /\ Len(txWire) \in Nat
          /\ \A j \in 1 .. Len(txWire) : txWire[j] = txHanded'[j]
          /\ \A k \in TxPlaces : k < w + 1 => txHanded'[Len(txWire) + k + 1] = armed[TxAt(k)].frame
      <4>1. txWire \in Seq(Nat) /\ txHanded \in Seq(Nat) /\ Len(txHanded) = Len(txWire) + w
            /\ (\A j \in 1 .. Len(txWire) : txWire[j] = txHanded[j])
        BY <2>8 DEF TxSeqs, TxHolds
      <4>2. /\ txHanded' \in Seq(Nat) /\ Len(txHanded') = Len(txWire) + (w + 1)
                 /\ Len(txWire) \in Nat
            /\ \A j \in 1 .. Len(txWire) : txWire[j] = txHanded'[j]
            /\ \A k \in 0 .. w - 1 : txHanded'[Len(txWire) + k + 1] = txHanded[Len(txWire) + k + 1]
            /\ txHanded'[Len(txWire) + w + 1] = n
        <5>1. w \in Nat /\ n \in Nat /\ txHanded' = Append(txHanded, n)
          BY <2>1, <2>5, <3>2
        <5>2. /\ txHanded' \in Seq(Nat) /\ Len(txHanded') = Len(txHanded) + 1 /\ Len(txWire) \in Nat
              /\ \A j \in 1 .. Len(txHanded) : txHanded'[j] = txHanded[j]
              /\ txHanded'[Len(txHanded) + 1] = n
          BY <4>1, <5>1
        <5>3. \A j \in 1 .. Len(txWire) : j \in 1 .. Len(txHanded)
          BY <4>1, <5>1, <5>2
        <5>4. \A k \in 0 .. w - 1 : Len(txWire) + k + 1 \in 1 .. Len(txHanded)
          BY <4>1, <5>1, <5>2
        <5>5. Len(txWire) + w + 1 = Len(txHanded) + 1 /\ Len(txHanded') = Len(txWire) + (w + 1)
          BY <4>1, <5>1, <5>2
        <5> QED BY <4>1, <5>2, <5>3, <5>4, <5>5
      <4>3. ASSUME NEW k \in TxPlaces, k < w + 1
            PROVE  txHanded'[Len(txWire) + k + 1] = armed[TxAt(k)].frame
        <5>1. CASE k < w
          <6>1. k \in 0 .. w - 1
            BY <3>2, <5>1 DEF TxPlaces
          <6> QED BY <2>8, <3>4, <4>2, <5>1, <6>1 DEF TxHolds
        <5>2. CASE k = w
          BY <3>2, <3>3, <4>2, <5>2
        <5> QED BY <3>2, <4>3, <5>1, <5>2
      <4> QED BY <4>2, <4>3
    <3>6. L = IF w + 1 = TxRing THEN 0 ELSE w + 1
      <4>1. tdh \in 0 .. TxRing - 1 /\ TxNext(idx) \in 0 .. TxRing - 1
        BY <2>6 DEF TxPlaces
      <4>2. L = Steps(TxRing, tdh, TxNext(idx))
        BY <2>3, <2>6, <4>1, ModSteps
      <4>3. w + 1 # TxRing => w + 1 \in 0 .. TxRing - 1
        BY <2>6, <3>2
      <4>4. w + 1 # TxRing => Steps(TxRing, tdh, TxAt(w + 1)) = w + 1
        BY <2>6, <4>1, <4>3, StepsAt DEF TxAt
      <4>5. Steps(TxRing, tdh, tdh) = 0
        BY <2>6, <4>1, StepsOn
      <4> QED BY <2>6, <3>2, <4>2, <4>4, <4>5
    <3>7. CASE ~done \/ w + 1 = TxRing
      <4>1. UNCHANGED <<txWire, tdh, txSaid>> /\ txDesc' = armed
        <5>1. CASE ~done
          BY <2>5, <5>1
        <5>2. CASE done /\ w + 1 = TxRing
          <6>1. L = 0 /\ 1 .. L = {}
            BY <3>6, <5>2
          <6>2. sent = <<>> /\ DOMAIN sent = {}
            BY <2>4, <6>1
          <6>3. txDesc' = [i \in DOMAIN armed |-> armed[i]]
            BY <2>5, <5>2, <6>2
          <6>4. txDesc' = armed
            BY <3>3, <6>3
          <6>5. txSaid' = txSaid
            BY <2>5, <3>3, <5>2, <6>4
          <6>6. txWire' = txWire
            BY <2>5, <2>8, <5>2, <6>2 DEF TxSeqs
          <6>7. tdh' = tdh
            BY <2>5, <2>6, <3>2, <5>2
          <6> QED BY <6>4, <6>5, <6>6, <6>7
        <5> QED BY <3>7, <5>1, <5>2
      <4>2. (\A k : TxAt(k)' = TxAt(k)) /\ (\A f : OnWire(f)' <=> OnWire(f))
        BY <4>1 DEF TxAt, OnWire
      <4>3. TxWaits(w + 1)'
        <5>1. w + 1 = TxRing => txFull'
          <6>1. ASSUME w + 1 = TxRing, NEW i \in TxPlaces PROVE ~armed[i].dd
            <7>1. PICK k \in TxPlaces : i = TxAt(k)
              BY <1>0, TxGeometry
            <7>2. k < w + 1
              BY <2>6, <6>1 DEF TxPlaces
            <7> QED BY <3>4, <7>1, <7>2
          <6>2. DOMAIN armed = TxPlaces
            BY <3>3
          <6>3. w + 1 = TxRing => Cardinality(Waiting(armed)) = TxRing
            BY <6>1, <6>2, AllWait
          <6> QED BY <2>5, <6>3
        <5>2. shellTx'.at # 3
          BY <2>5, <3>1
        <5>3. \A k \in TxPlaces : txDesc'[TxAt(k)'].dd <=> ~(k < w + 1)
          BY <3>4, <4>1, <4>2
        <5> QED BY <2>5, <3>2, <4>2, <5>1, <5>2, <5>3 DEF TxWaits
      <4>4. TxShell(w + 1)'
        <5>1. ASSUME shellTx.at = 5, ~OnWire(shellTx.frame)
              PROVE  \E k \in TxPlaces : k < w + 1 /\ TxAt(k) = shellTx.idx
                       /\ armed[shellTx.idx].frame = shellTx.frame
          <6>1. PICK k \in TxPlaces : k < w /\ TxAt(k) = shellTx.idx
                /\ txDesc[shellTx.idx].frame = shellTx.frame
            BY <2>8, <5>1 DEF TxShell
          <6> QED BY <3>2, <3>4, <6>1
        <5>2. shellTx.at = 5 => OnWire(shellTx.frame)' \/ \E k \in TxPlaces :
                k < w + 1 /\ TxAt(k)' = shellTx'.idx /\ txDesc'[shellTx'.idx].frame = shellTx'.frame
          BY <2>5, <4>1, <4>2, <5>1
        <5>3. shellTx' = shellTx /\ txTail' = tdt'
          BY <2>5
        <5> QED BY <3>1, <5>2, <5>3 DEF TxShell
      <4>5. TxHolds(w + 1)'
        BY <2>8, <3>5, <4>1, <4>2 DEF TxHolds
      <4>6. TxSeqs'
        BY <2>8, <3>3, <3>5, <4>1 DEF TxSeqs
      <4> QED BY <3>2, <4>3, <4>4, <4>5, <4>6
    <3>8. CASE done /\ w + 1 # TxRing
      <4>1. L = w + 1 /\ w + 1 \in TxPlaces /\ L \in Nat
        BY <2>6, <3>2, <3>6, <3>8 DEF TxPlaces
      <4>2. /\ sent \in Seq(Nat) /\ Len(sent) = w + 1 /\ DOMAIN sent = 1 .. L
            /\ \A k \in 1 .. L : (tdh + k - 1) % TxRing = TxAt(k - 1) /\ k - 1 \in TxPlaces
            /\ \A k \in 1 .. L : sent[k] = armed[TxAt(k - 1)].frame
        <5>1. ASSUME NEW k \in 1 .. L
              PROVE  (tdh + k - 1) % TxRing = TxAt(k - 1) /\ k - 1 \in TxPlaces
          <6>1. k - 1 \in 0 .. TxRing - 1 /\ tdh \in 0 .. TxRing - 1 /\ tdh + k - 1 = tdh + (k - 1)
            BY <2>6, <4>1 DEF TxPlaces
          <6>2. (tdh + (k - 1)) % TxRing = At(TxRing, tdh, k - 1)
            BY <2>6, <6>1, ModAt
          <6> QED BY <6>1, <6>2 DEF TxAt, TxPlaces
        <5>2. ASSUME NEW k \in 1 .. L PROVE sent[k] = armed[TxAt(k - 1)].frame /\ sent[k] \in Nat
          <6>1. sent[k] = armed[(tdh + k - 1) % TxRing].frame
            BY <2>4
          <6>2. TxAt(k - 1) \in TxPlaces
            BY <2>6, <5>1
          <6> QED BY <3>3, <5>1, <6>1, <6>2
        <5>3. sent \in [1 .. L -> Nat]
          BY <2>4, <5>2
        <5>4. sent \in Seq(Nat) /\ Len(sent) = w + 1
          BY <4>1, <5>3, SequenceIs
        <5> QED BY <2>4, <5>1, <5>2, <5>4
      <4>3. tdh' = TxAt(w + 1) /\ tdh' \in TxPlaces /\ tdt' = tdh' /\ txWire' = txWire \o sent
        BY <2>5, <2>6, <3>2, <3>8
      <4>4. /\ txDesc' \in [TxPlaces -> [dd : BOOLEAN, frame : Nat]]
            /\ \A i \in TxPlaces : txDesc'[i].dd /\ txDesc'[i].frame = armed[i].frame
        <5>1. txDesc' = [i \in DOMAIN armed |->
                IF \E k \in DOMAIN sent : i = (tdh + k - 1) % TxRing THEN [armed[i] EXCEPT !.dd = TRUE] ELSE armed[i]]
          BY <2>5, <3>8
        <5>2. ASSUME NEW i \in TxPlaces, ~(\E k \in DOMAIN sent : i = (tdh + k - 1) % TxRing)
              PROVE  armed[i].dd
          <6>1. PICK k \in TxPlaces : i = TxAt(k)
            BY <1>0, TxGeometry
          <6>2. k + 1 \in 1 .. L => FALSE
            <7>1. k + 1 \in 1 .. L => (tdh + (k + 1) - 1) % TxRing = TxAt((k + 1) - 1)
              BY <4>2
            <7>2. (k + 1) - 1 = k
              BY DEF TxPlaces
            <7> QED BY <4>2, <5>2, <6>1, <7>1, <7>2
          <6>3. ~(k < w + 1)
            BY <3>2, <4>1, <6>2 DEF TxPlaces
          <6> QED BY <3>4, <6>1, <6>3
        <5>3. DOMAIN armed = TxPlaces
          BY <3>3
        <5>4. ASSUME NEW i \in TxPlaces
              PROVE  txDesc'[i] \in [dd : BOOLEAN, frame : Nat] /\ txDesc'[i].dd
                       /\ txDesc'[i].frame = armed[i].frame
          <6>1. armed[i] \in [dd : BOOLEAN, frame : Nat]
            BY <3>3
          <6>2. CASE \E k \in DOMAIN sent : i = (tdh + k - 1) % TxRing
            <7>1. txDesc'[i] = [armed[i] EXCEPT !.dd = TRUE]
              BY <5>1, <5>3, <6>2
            <7> QED BY <6>1, <7>1
          <6>3. CASE ~(\E k \in DOMAIN sent : i = (tdh + k - 1) % TxRing)
            <7>1. txDesc'[i] = armed[i]
              BY <5>1, <5>3, <6>3
            <7> QED BY <5>2, <6>1, <6>3, <7>1
          <6> QED BY <6>2, <6>3
        <5>5. txDesc' = [i \in TxPlaces |-> txDesc'[i]]
          BY <5>1, <5>3
        <5> QED BY <5>4, <5>5
      <4>5. txHanded' = txWire'
        <5>1. \A k \in 1 .. Len(sent) : txHanded'[Len(txWire) + k] = sent[k]
          <6>1. ASSUME NEW k \in 1 .. Len(sent) PROVE txHanded'[Len(txWire) + k] = sent[k]
            <7>1. k \in 1 .. L /\ k - 1 \in TxPlaces /\ k - 1 < w + 1
                  /\ Len(txWire) + (k - 1) + 1 = Len(txWire) + k
              BY <3>2, <3>5, <4>1, <4>2
            <7>2. txHanded'[Len(txWire) + (k - 1) + 1] = armed[TxAt(k - 1)].frame
              BY <3>5, <7>1
            <7> QED BY <4>2, <7>1, <7>2
          <6> QED BY <6>1
        <5>2. txWire \in Seq(Nat) /\ Len(txHanded') = Len(txWire) + Len(sent)
          BY <2>8, <3>5, <4>2 DEF TxSeqs
        <5>3. txHanded' = txWire \o sent
          <6>1. \A j \in 1 .. Len(txWire) : txHanded'[j] = txWire[j]
            BY <3>5
          <6>2. txHanded' \in Seq(Nat) /\ sent \in Seq(Nat)
            BY <3>5, <4>2
          <6> QED BY <5>1, <5>2, <6>1, <6>2, Joined, Zenon
        <5> QED BY <4>3, <5>3
      <4>6. /\ \A f : OnWire(f) => OnWire(f)'
            /\ \A k \in TxPlaces, g \in Nat : k < w + 1 /\ g = armed[TxAt(k)].frame => OnWire(g)'
        <5>1. Len(txWire') = Len(txWire) + (w + 1)
              /\ \A j \in 1 .. Len(txWire) : txWire'[j] = txWire[j]
          BY <3>5, <4>5
        <5>2. ASSUME NEW f, OnWire(f) PROVE OnWire(f)'
          <6>1. PICK j \in 1 .. Len(txWire) : txWire[j] = f
            BY <5>2 DEF OnWire
          <6>2. j \in 1 .. Len(txWire') /\ txWire'[j] = f
            BY <3>2, <3>5, <5>1, <6>1
          <6> QED BY <6>2 DEF OnWire
        <5>3. ASSUME NEW k \in TxPlaces, NEW g \in Nat, k < w + 1, g = armed[TxAt(k)].frame
              PROVE  OnWire(g)'
          <6>1. PICK m \in Nat : m = Len(txWire) + k + 1
            BY <3>5 DEF TxPlaces
          <6>2. m \in 1 .. Len(txWire')
            BY <3>2, <3>5, <5>1, <5>3, <6>1 DEF TxPlaces
          <6>3. txWire'[m] = g
            BY <3>5, <4>5, <5>3, <6>1
          <6> QED BY <6>2, <6>3 DEF OnWire
        <5> QED BY <5>2, <5>3
      <4>7. TxAt(0)' = tdh' /\ (\A k \in TxPlaces : TxAt(k)' \in TxPlaces /\ ~(k < 0))
            /\ 0 \in 0 .. TxRing
        <5>1. TxAt(0)' = tdh' /\ (\A k \in TxPlaces : TxAt(k)' \in TxPlaces)
          <6>1. tdh' \in 0 .. TxRing - 1
            BY <4>3 DEF TxPlaces
          <6>2. At(TxRing, tdh', 0) = tdh'
                /\ \A k \in 0 .. TxRing - 1 : At(TxRing, tdh', k) \in 0 .. TxRing - 1
            BY <2>6, <6>1, StepsAt, StepsOn
          <6> QED BY <6>2 DEF TxAt, TxPlaces
        <5> QED BY <2>6, <5>1 DEF TxPlaces
      <4>8. TxWaits(0)'
        <5>1. shellTx'.at # 3 /\ ~(0 = TxRing)
          BY <2>5, <2>6, <3>1
        <5> QED BY <4>3, <4>4, <4>7, <5>1 DEF TxWaits
      <4>9. TxShell(0)'
        <5>1. ASSUME shellTx.at = 5 PROVE OnWire(shellTx.frame)'
          <6>1. CASE OnWire(shellTx.frame)
            BY <2>5, <4>6, <6>1
          <6>2. CASE ~OnWire(shellTx.frame)
            <7>1. PICK k \in TxPlaces : k < w /\ TxAt(k) = shellTx.idx
                  /\ txDesc[shellTx.idx].frame = shellTx.frame
              BY <2>8, <5>1, <6>2 DEF TxShell
            <7>2. shellTx.frame \in Nat /\ k < w + 1 /\ shellTx.frame = armed[TxAt(k)].frame
              BY <1>0, <3>2, <3>4, <7>1 DEF TxTypes
            <7> QED BY <2>5, <4>6, <7>2
          <6> QED BY <6>1, <6>2
        <5>2. shellTx' = shellTx /\ txTail' = tdt'
          BY <2>5
        <5> QED BY <3>1, <5>1, <5>2 DEF TxShell
      <4>10. TxHolds(0)'
        <5>1. ASSUME NEW f \in txSaid' PROVE OnWire(f)'
          <6>1. f \in txSaid \/ f = n
            BY <2>5, <3>8
          <6>2. w < w + 1 /\ n = armed[TxAt(w)].frame
            BY <3>2, <3>3
          <6> QED BY <2>1, <2>8, <3>2, <4>6, <6>1, <6>2 DEF TxHolds
        <5>2. Len(txHanded') = Len(txWire') + 0
              /\ \A j \in 1 .. Len(txWire') : txWire'[j] = txHanded'[j]
          <6>1. Len(txHanded') \in Nat
            BY <3>5
          <6> QED BY <4>5, <6>1
        <5> QED BY <4>7, <5>1, <5>2 DEF TxHolds
      <4>11. TxSeqs'
        BY <3>5, <4>4, <4>5 DEF TxSeqs
      <4> QED BY <4>7, <4>8, <4>9, <4>10, <4>11
    <3> QED BY <3>7, <3>8
  <2>9. ~txRaced' => ~txRaced
    BY <2>5
  <2> QED BY <1>0, <2>7, <2>8, <2>9 DEF TxRight
<1> QED BY <1>1, <1>2

(* Every step of the ring keeps the invariant.                               *)
LEMMA TxKept == TxRight /\ [NicTxNext]_txVars => TxRight'
<1> SUFFICES ASSUME TxRight, [NicTxNext]_txVars PROVE TxRight'
  OBVIOUS
<1>1. ASSUME NEW b \in BOOLEAN, ShellSend(b) PROVE TxRight'
  BY <1>1, SendKeeps
<1>2. ASSUME NEW b \in BOOLEAN, ShellWait(b) PROVE TxRight'
  BY <1>2, WaitKeeps
<1>3. ASSUME NEW b \in BOOLEAN, IrqSend(b) PROVE TxRight'
  BY <1>3, IrqKeeps
<1>4. CASE ShellStep
  <2>1. shellTx.at \in 1 .. 4
    BY <1>4, StepTyped
  <2> QED BY <1>4, <2>1, CopyKeeps, ArmKeeps, TellKeeps, MoveTailKeeps
<1>5. CASE DeviceSends
  BY <1>5, DeviceKeeps
<1>6. CASE IfUp
  BY <1>6, IfUpKeeps
<1>7. ASSUME IfDown \/ UNCHANGED txVars PROVE TxRight'
  <2>1. txNo \in 0 .. TxFrames
    BY DEF TxRight, TxTypes
  <2> QED BY <1>7, <2>1, TxSame DEF IfDown, txVars
<1> QED BY <1>1, <1>2, <1>3, <1>4, <1>5, <1>6, <1>7 DEF NicTxNext

(* What the run checks follows.                                              *)
LEMMA TxShown == TxRight => TxTypeOK /\ TxFaithful /\ TxNoWedge
<1> SUFFICES ASSUME TxRight PROVE TxTypeOK /\ TxFaithful /\ TxNoWedge
  OBVIOUS
<1>1. TxTypeOK
  BY DEF TxRight, TxTypes, TxTypeOK, TxPlaces, TxOrder
<1>2. ASSUME ~txRaced, NEW w \in 0 .. TxRing, TxSeqs, TxWaits(w), TxShell(w), TxHolds(w)
      PROVE  TxFaithful /\ TxNoWedge
  <2>1. TxFaithful
    <3>1. Len(txWire) \in Nat /\ DOMAIN txWire = 1 .. Len(txWire) /\ Len(txWire) <= Len(txHanded)
      BY <1>2 DEF TxSeqs, TxHolds
    <3> QED BY <1>2, <3>1 DEF TxFaithful, TxHolds, OnWire
  <2>2. ASSUME ~txFull, tdh = tdt, shellTx.at = 0 PROVE txDesc[txTail].dd
    <3>1. /\ TxAt(0) = tdh /\ 0 \in TxPlaces /\ (w = TxRing \/ w \in TxPlaces)
          /\ \A k, m \in TxPlaces : TxAt(k) = TxAt(m) => k = m
      <4>1. TxRing \in Nat \ {0} /\ TxTypes
        BY TxGeometry DEF TxRight
      <4> QED BY <4>1, TxGeometry DEF TxPlaces
    <3>2. w # TxRing /\ tdt = TxAt(w) /\ txTail = tdt
      BY <1>2, <2>2 DEF TxWaits, TxShell
    <3>3. w = 0
      BY <2>2, <3>1, <3>2
    <3> QED BY <1>2, <2>2, <3>1, <3>2, <3>3 DEF TxWaits
  <2> QED BY <2>1, <2>2 DEF TxNoWedge
<1> QED BY <1>1, <1>2 DEF TxRight, TxFaithful, TxNoWedge

-----------------------------------------------------------------------------
(* The network: each component's invariant holds in the behaviours that are  *)
(* its own.                                                                  *)
NetInv ==
  /\ part = "Auth" => AuthRight
  /\ part = "NetServers" => NsRight
  /\ part = "DhcpClient" => DcRight
  /\ part = "DnsClient" => DnsRight
  /\ part = "Link" => LinkRight
  /\ part = "NicRx" => RxRight
  /\ part = "NicTx" => TxRight

LEMMA NetStarts == Init => NetInv
BY AuthStarts, NsStarts, DcStarts, DnsStarts, LinkStarts, RxStarts, TxStarts DEF Init, NetInv

LEMMA NetKept == NetInv /\ [Next]_netVars => NetInv'
<1> SUFFICES ASSUME NetInv, [Next]_netVars PROVE NetInv'
  OBVIOUS
<1>1. part' = part
  BY DEF Next, netVars
<1>2. ASSUME part = "Auth" PROVE [AuthNext]_authVars
  BY <1>2 DEF Next, netVars
<1>3. ASSUME part = "NetServers" PROVE [NsNext]_nsVars
  BY <1>3 DEF Next, netVars
<1>4. ASSUME part = "DhcpClient" PROVE [DcNext]_dcVars
  BY <1>4 DEF Next, netVars
<1>5. ASSUME part = "DnsClient" PROVE [DnsNext]_dnsVars
  BY <1>5 DEF Next, netVars
<1>6. ASSUME part = "Link" PROVE [LinkNext]_linkVars
  BY <1>6 DEF Next, netVars
<1>12. ASSUME part = "NicRx" PROVE [NicRxNext]_rxVars
  BY <1>12 DEF Next, netVars
<1>13. ASSUME part = "NicTx" PROVE [NicTxNext]_txVars
  BY <1>13 DEF Next, netVars
<1>7. part = "Auth" => AuthRight'
  BY <1>2, AuthKept DEF NetInv
<1>8. part = "NetServers" => NsRight'
  BY <1>3, NsKept DEF NetInv
<1>9. part = "DhcpClient" => DcRight'
  BY <1>4, DcKept DEF NetInv
<1>10. part = "DnsClient" => DnsRight'
  BY <1>5, DnsKept DEF NetInv
<1>11. part = "Link" => LinkRight'
  BY <1>6, LinkKept DEF NetInv
<1>14. part = "NicRx" => RxRight'
  BY <1>12, RxKept DEF NetInv
<1>15. part = "NicTx" => TxRight'
  BY <1>13, TxKept DEF NetInv
<1> QED BY <1>1, <1>7, <1>8, <1>9, <1>10, <1>11, <1>14, <1>15 DEF NetInv

(* dhcpc.c, dns.c, dhcpd.c, auth.c: for any servers, names, clients, tables  *)
(* and bounds, an address in use was granted to this machine or put back,    *)
(* the address printed for a name is that name's, no two clients are told    *)
(* one address, and a source is authorised only while it was granted that    *)
(* and active since, but for the cases the properties name.                  *)
THEOREM GrantsAreRight == Spec => []GrantsRight
<1>1. NetInv => GrantsRight
  BY AuthShown, NsShown, DcShown, DnsShown DEF NetInv, GrantsRight
<1> QED BY <1>1, NetStarts, NetKept, PTL DEF Spec

(* arp.c, ip4.c, eth.c: for any neighbours, gateways and cache size, an      *)
(* address is cached once with the MAC it announced last, interface 0's      *)
(* gateway stays, a frame leaves by the device of its route with that        *)
(* device's MAC and for the right next hop unless the interrupt came between *)
(* the choice and its use, and every pbuf is freed once.                     *)
THEOREM LinkIsSound == Spec => []LinkSound
<1>1. NetInv => LinkSound
  BY LinkShown DEF NetInv, LinkSound
<1> QED BY <1>1, NetStarts, NetKept, PTL DEF Spec

(* e1000_rx_poll_one, e1000_napi_poll: for any ring of more than two         *)
(* descriptors, as long as the timer does not poll inside the shell's poll,  *)
(* the stack gets what the device took, in order and once, and a ring the    *)
(* driver has emptied has room for a frame; in any case a masked device has  *)
(* a poll scheduled and the indexes stay in the ring.                        *)
THEOREM RxIsSound == Spec => []RxSound
<1>1. NetInv => RxSound
  BY RxShown DEF NetInv, RxSound
<1> QED BY <1>1, NetStarts, NetKept, PTL DEF Spec

(* e1000_tx_send_raw: for any ring of more than one descriptor, as long as   *)
(* the interrupt does not send from inside the shell's call, what is on the  *)
(* wire is what was announced, in order and once, a call that returned 1 had *)
(* its frame sent, and unless all descriptors once waited together the ring  *)
(* is never wedged; in any case the indexes stay in the ring.                *)
THEOREM TxIsSound == Spec => []TxSound
<1>1. NetInv => TxSound
  BY TxShown DEF NetInv, TxSound
<1> QED BY <1>1, NetStarts, NetKept, PTL DEF Spec

=============================================================================
