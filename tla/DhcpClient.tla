------------------------------ MODULE DhcpClient -----------------------------
(***************************************************************************)
(* The DHCP client: dhcp_start and dhcp_input (src/src/dhcp.c) and the shell *)
(* command that drives them (net_dhcp_perform of src/src/kernel.c).  Replies *)
(* are handled in the interrupt or in the command's own polling.  Messages   *)
(* may be lost, repeated, delayed and reordered: those sent stay in a set,   *)
(* from which any may be delivered at any time.  Address 0 is 0.0.0.0.       *)
(***************************************************************************)
EXTENDS Integers, FiniteSets

CONSTANTS
  DcServers,     \* DHCP servers on the network
  DcAddr,        \* the address each has for us
  DcAttempts,    \* 3: DISCOVERs of one command
  DcCommands     \* bound: dhcp commands

ASSUME DcAssumption ==
  /\ DcAddr \in [DcServers -> Nat \ {0}] /\ "none" \notin DcServers
  /\ DcAttempts \in Nat \ {0} /\ DcCommands \in Nat

VARIABLES
  dcIp,          \* ajos_ip[0]
  dcXid,         \* dhcp_xid
  dcOffered,     \* dhcp_offered_ip
  dcAck,         \* dhcp_got_ack
  dcCmd,         \* the command: where it is, its attempt, prev_ip
  dcNet,         \* messages sent by anyone
  dcSettings,    \* the server whose netmask, router and DNS server are in force
  dcRuns,        \* commands so far
  dcGranted,     \* history: addresses some server acknowledged to us
  dcLate,        \* history: an ACK came when the command had given up waiting
  dcFrom         \* history: the server of the last OFFER, and whether a blank ACK of another came

dcVars == <<dcIp, dcXid, dcOffered, dcAck, dcCmd, dcNet, dcSettings, dcRuns, dcGranted, dcLate, dcFrom>>

NoCmd == [at |-> "none", try |-> 0, prev |-> 0]
DMsg(type, xid, srv, ip) == [type |-> type, xid |-> xid, srv |-> srv, ip |-> ip]
OtherIp == 99                       \* another client's address, on the broadcast

DcInit ==
  /\ dcIp \in {0, 1} /\ dcXid = 1 /\ dcOffered = 0 /\ dcAck = FALSE /\ dcCmd = NoCmd
  /\ dcNet = {DMsg("ACK", 0, s, OtherIp) : s \in DcServers}
  /\ dcSettings = "none" /\ dcRuns = 0 /\ dcGranted = {} /\ dcLate = FALSE /\ dcFrom = [srv |-> "none", mixed |-> FALSE]

(* dhcp_start: a new transaction; the offer of an earlier one is kept.       *)
dhcp_start(try, prev) ==
  /\ dcXid' = dcXid + 1 /\ dcAck' = FALSE
  /\ dcNet' = dcNet \cup {DMsg("DISCOVER", dcXid + 1, "all", 0)}
  /\ dcCmd' = [at |-> "wait", try |-> try, prev |-> prev]

(* net_dhcp_perform up to its first wait.                                    *)
DhcpCommand ==
  /\ dcCmd.at \in {"none", "got", "failed"} /\ dcRuns < DcCommands
  /\ dcRuns' = dcRuns + 1
  /\ dcIp' = 0 /\ dcOffered' = 0
  /\ dhcp_start(1, dcIp)
  /\ dcLate' = FALSE /\ dcFrom' = [srv |-> "none", mixed |-> FALSE]
  /\ UNCHANGED <<dcSettings, dcGranted>>

(* The wait sees the ACK: the lease is reported, with the offered address if *)
(* the ACK carried none.                                                     *)
DhcpSees ==
  /\ dcCmd.at = "wait" /\ dcAck
  /\ dcIp' = IF dcIp = 0 THEN dcOffered ELSE dcIp
  /\ dcCmd' = [dcCmd EXCEPT !.at = "got"]
  /\ UNCHANGED <<dcXid, dcOffered, dcAck, dcNet, dcSettings, dcRuns, dcGranted, dcLate, dcFrom>>

Again(try) == try < DcAttempts
(* Five seconds pass: another attempt, or the loop is left ...               *)
DhcpTimeout ==
  /\ dcCmd.at = "wait" /\ ~dcAck
  /\ IF Again(dcCmd.try) THEN dhcp_start(dcCmd.try + 1, dcCmd.prev)
     ELSE dcCmd' = [dcCmd EXCEPT !.at = "giveup"] /\ UNCHANGED <<dcXid, dcAck, dcNet>>
  /\ UNCHANGED <<dcIp, dcOffered, dcSettings, dcRuns, dcGranted, dcLate, dcFrom>>
(* ... and the failure is printed and the old address restored.              *)
Restored(ip, prev) == IF prev # 0 THEN prev ELSE ip
DhcpFails ==
  /\ dcCmd.at = "giveup"
  /\ dcIp' = Restored(dcIp, dcCmd.prev)
  /\ dcCmd' = [dcCmd EXCEPT !.at = "failed"]
  /\ UNCHANGED <<dcXid, dcOffered, dcAck, dcNet, dcSettings, dcRuns, dcGranted, dcLate, dcFrom>>

(* dhcp_send_request: broadcast and to the server, which are the same here.  *)
dhcp_send_request(offer) == dcNet \cup {DMsg("REQUEST", dcXid, offer.srv, offer.ip)}

(* dhcp_input: only replies to the current transaction count.  An OFFER is   *)
(* answered by a REQUEST to its server; an ACK sets the address at once.      *)
(* Either brings its server's netmask, router and DNS server.                *)
Ours_Any(m) == m.type \in {"OFFER", "ACK"}           \* mutant: xid is not compared
Ours(m) == m.type \in {"OFFER", "ACK"} /\ m.xid = dcXid
dhcp_input(m) ==
  /\ Ours(m)
  /\ dcSettings' = m.srv
  /\ IF m.type = "OFFER"
       THEN /\ dcOffered' = m.ip
            /\ dcNet' = dhcp_send_request(m)
            /\ dcFrom' = [dcFrom EXCEPT !.srv = m.srv]
            /\ UNCHANGED <<dcIp, dcAck, dcLate>>
       ELSE /\ dcIp' = IF m.ip # 0 THEN m.ip ELSE IF dcOffered # 0 THEN dcOffered ELSE dcIp
            /\ dcAck' = TRUE
            /\ dcLate' = (dcLate \/ dcCmd.at \in {"giveup", "failed"})
            /\ dcFrom' = [dcFrom EXCEPT !.mixed = @ \/ (m.ip = 0 /\ m.srv # dcFrom.srv)]
            /\ UNCHANGED <<dcOffered, dcNet>>
  /\ UNCHANGED <<dcXid, dcCmd, dcRuns, dcGranted>>

(* A server answers a DISCOVER, and a REQUEST that names it; some leave      *)
(* yiaddr empty in the ACK.                                                  *)
ServerOffers(m, s) ==
  /\ m.type = "DISCOVER"
  /\ dcNet' = dcNet \cup {DMsg("OFFER", m.xid, s, DcAddr[s])}
  /\ dcNet' # dcNet
  /\ UNCHANGED <<dcIp, dcXid, dcOffered, dcAck, dcCmd, dcSettings, dcRuns, dcGranted, dcLate, dcFrom>>
ServerAcks(m, blank) ==
  /\ m.type = "REQUEST"
  /\ dcNet' = dcNet \cup {DMsg("ACK", m.xid, m.srv, IF blank THEN 0 ELSE m.ip)}
  /\ dcNet' # dcNet
  /\ dcGranted' = dcGranted \cup {m.ip}
  /\ UNCHANGED <<dcIp, dcXid, dcOffered, dcAck, dcCmd, dcSettings, dcRuns, dcLate, dcFrom>>

DcNext ==
  \/ DhcpCommand \/ DhcpSees \/ DhcpTimeout \/ DhcpFails
  \/ \E m \in dcNet :
       \/ dhcp_input(m)
       \/ \E s \in DcServers : ServerOffers(m, s)
       \/ \E b \in BOOLEAN : ServerAcks(m, b)

(* Attempts stay within their number and the address is one on offer.        *)
DcTypeOK ==
  /\ dcCmd.try \in 0 .. DcAttempts
  /\ dcIp \in {0, 1} \cup {DcAddr[s] : s \in DcServers}
  /\ dcXid <= DcAttempts * DcCommands + 1

(* A lease the command reports is an address a server acknowledged to us,    *)
(* never the address of another client whose ACK was broadcast; unless an    *)
(* ACK without an address came from a server other than the last OFFER's,    *)
(* which the fallback to dhcp_offered_ip cannot tell.                        *)
LeaseWasGranted == (dcCmd.at = "got" /\ ~dcFrom.mixed) => dcIp \in dcGranted

(* A command that reports failure leaves the address as it found it, unless  *)
(* an ACK came after the last wait.                                          *)
FailureRestores == (dcCmd.at = "failed" /\ ~dcLate /\ dcCmd.prev # 0) => dcIp = dcCmd.prev
=============================================================================
