------------------------------- MODULE DnsClient -----------------------------
(***************************************************************************)
(* The DNS client: dns_lookup, dns_input (src/src/dns.c) and cmd_dns         *)
(* (src/src/kernel.c).  Replies are handled in the interrupt; they may be    *)
(* lost, repeated and delayed.  The address of a name is the name itself.    *)
(***************************************************************************)
EXTENDS Integers

CONSTANTS
  DnsNames,      \* host names
  DnsQueries     \* bound: queries sent

ASSUME DnsAssumption == "none" \notin DnsNames /\ DnsQueries \in Nat

VARIABLES
  dnsId,         \* dns_id, the next identifier
  dnsPending,    \* dns_pending_id
  dnsGot,        \* dns_got_reply
  dnsLast,       \* dns_last_ip
  dnsCmd,        \* the command: where it is, the name, attempts of the command and of dns_lookup
  dnsAsked,      \* queries on the network, each with its identifier
  dnsSaid,       \* the last answer printed: the name and the address
  dnsStale       \* history: a reply was accepted between the reset and the new identifier

dnsVars == <<dnsId, dnsPending, dnsGot, dnsLast, dnsCmd, dnsAsked, dnsSaid, dnsStale>>

NoName == "none"
NoQuery == [at |-> "none", name |-> NoName, try |-> 0, send |-> 0]

DnsInit ==
  /\ dnsId = 1 /\ dnsPending = 0 /\ dnsGot = FALSE /\ dnsLast = NoName
  /\ dnsCmd = NoQuery /\ dnsAsked = {} /\ dnsSaid = [name |-> NoName, ip |-> NoName]
  /\ dnsStale = FALSE

(* cmd_dns calls dns_lookup: the result is reset, then the MAC of the next   *)
(* hop is awaited before a query gets its identifier.                        *)
Reset(got) == FALSE
Lookup(name, try) ==
  /\ dnsGot' = Reset(dnsGot) /\ dnsLast' = NoName
  /\ dnsCmd' = [at |-> "resolve", name |-> name, try |-> try, send |-> 1]
DnsCommand(name) ==
  /\ dnsCmd.at = "none" /\ dnsId <= DnsQueries
  /\ Lookup(name, 1)
  /\ dnsStale' = FALSE /\ dnsSaid' = [name |-> NoName, ip |-> NoName]
  /\ UNCHANGED <<dnsId, dnsPending, dnsAsked>>

(* A query is sent; if udp_output fails (no MAC) a second one follows.       *)
DnsSend(ok) ==
  /\ dnsCmd.at = "resolve" /\ dnsId <= DnsQueries
  /\ dnsPending' = dnsId /\ dnsId' = dnsId + 1
  /\ dnsAsked' = IF ok THEN dnsAsked \cup {[id |-> dnsId, name |-> dnsCmd.name]} ELSE dnsAsked
  /\ dnsCmd' = IF ok \/ dnsCmd.send = 2 THEN [dnsCmd EXCEPT !.at = "wait"]
               ELSE [dnsCmd EXCEPT !.send = 2]
  /\ UNCHANGED <<dnsGot, dnsLast, dnsSaid, dnsStale>>

(* No pbuf for it: dns_lookup returns, on the first try with the identifier  *)
(* of an earlier lookup still pending (send = 3).                            *)
DnsNoPbuf ==
  /\ dnsCmd.at = "resolve"
  /\ dnsCmd' = [dnsCmd EXCEPT !.at = "wait", !.send = IF @ = 1 THEN 3 ELSE @]
  /\ UNCHANGED <<dnsId, dnsPending, dnsGot, dnsLast, dnsAsked, dnsSaid, dnsStale>>

(* dns_input: the identifier must be the pending one.                        *)
Matching(q) == q.id = dnsPending
dns_input(q) ==
  /\ Matching(q)
  /\ dnsGot' = TRUE /\ dnsLast' = q.name
  /\ dnsStale' = (dnsStale \/ (dnsCmd.at = "resolve" /\ dnsCmd.send = 1) \/ dnsCmd.send = 3)
  /\ UNCHANGED <<dnsId, dnsPending, dnsCmd, dnsAsked, dnsSaid>>

(* The command prints what it finds; after three seconds it tries once more. *)
DnsPrints ==
  /\ dnsCmd.at = "wait" /\ dnsGot
  /\ dnsSaid' = [name |-> dnsCmd.name, ip |-> dnsLast]
  /\ dnsCmd' = NoQuery
  /\ UNCHANGED <<dnsId, dnsPending, dnsGot, dnsLast, dnsAsked, dnsStale>>
DnsTimeout ==
  /\ dnsCmd.at = "wait" /\ ~dnsGot
  /\ IF dnsCmd.try = 1 THEN Lookup(dnsCmd.name, 2)
     ELSE dnsCmd' = NoQuery /\ UNCHANGED <<dnsGot, dnsLast>>
  /\ UNCHANGED <<dnsId, dnsPending, dnsAsked, dnsSaid, dnsStale>>

DnsNext ==
  \/ \E n \in DnsNames : DnsCommand(n)
  \/ \E ok \in BOOLEAN : DnsSend(ok)
  \/ \E q \in dnsAsked : dns_input(q)
  \/ DnsNoPbuf \/ DnsPrints \/ DnsTimeout

(* The pending identifier is the last one given out.                         *)
DnsTypeOK ==
  /\ dnsPending = dnsId - 1
  /\ dnsCmd.try \in 0 .. 2 /\ dnsCmd.send \in 0 .. 3
  /\ dnsGot => dnsLast \in DnsNames

(* The address printed for a name is that name's, unless a late reply to the *)
(* previous query was accepted while dns_lookup waited for a MAC, before it  *)
(* changed the identifier, or after it found no pbuf and did not change it.  *)
AnswersTheQuestion == (~dnsStale /\ dnsSaid.name # NoName) => dnsSaid.ip = dnsSaid.name
=============================================================================
