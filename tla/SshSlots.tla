------------------------------- MODULE SshSlots ------------------------------
(***************************************************************************)
(* The SSH server's connection slots (ssh_find_connection, the new           *)
(* connection, close and stop handlers of src/src/ssh.c) against the pcbs of *)
(* src/src/tcp.c, which are given to a next connection when closed.  A key   *)
(* exchange takes seconds; when the shell's own polling runs it, interrupts  *)
(* handle other segments meanwhile.  A slot's session is reduced to whether  *)
(* it is authenticated; gen numbers the connections a pcb has served.        *)
(***************************************************************************)
EXTENDS Integers, FiniteSets

CONSTANTS
  SlSlots,       \* SSH_MAX_CONNECTIONS
  SlPcbs,        \* pcbs 1 .. SlPcbs
  SlConns        \* bound: connections made

ASSUME SlAssumption == SlSlots \in Nat /\ SlPcbs \in Nat /\ SlConns \in Nat

VARIABLES
  slots,         \* ssh_connections
  pcbs,          \* state and connection of each pcb
  kexRun,        \* the key exchange the shell's polling is in: slot and connection
  sshdUp,        \* sshd_active, with its listener
  slHist         \* history: connections made, pcbs closed behind our back, slots taken over

slVars == <<slots, pcbs, kexRun, sshdUp, slHist>>

EmptySlot == [pcb |-> 0, computing |-> FALSE, closing |-> FALSE, auth |-> FALSE, bufs |-> FALSE]
NoKex == [slot |-> 0, gen |-> 0]

(* ssh_init *)
SlInit ==
  /\ slots = [s \in 1 .. SlSlots |-> EmptySlot]
  /\ pcbs = [p \in 1 .. SlPcbs |-> [st |-> "closed", gen |-> 0]]
  /\ kexRun = NoKex /\ sshdUp = TRUE
  /\ slHist = [made |-> 0, silent |-> {}, taken |-> FALSE, replies |-> {}, left |-> FALSE]

(* ssh_destroy_connection *)
Destroyed(sl, s) == [sl EXCEPT ![s] = EmptySlot]

(* ssh_find_connection: sessions whose pcb is closed are reaped; then the    *)
(* slot of this pcb, else the first free one, initialised.  <<0, slots>> if  *)
(* there is none, or no memory.                                              *)
Reaped(sl) == [s \in DOMAIN sl |-> IF sl[s].pcb # 0 /\ pcbs'[sl[s].pcb].st = "closed" THEN EmptySlot ELSE sl[s]]
Holding(sl, p) == {s \in DOMAIN sl : sl[s].pcb = p}
Initialised(p) == [pcb |-> p, computing |-> FALSE, closing |-> FALSE, auth |-> FALSE, bufs |-> TRUE]
LowestSlot(ss) == CHOOSE s \in ss : \A t \in ss : s <= t
ssh_find_connection(sl, p, mem) ==
  LET r    == Reaped(sl)
      own  == Holding(r, p)
      free == {s \in DOMAIN r : r[s].pcb = 0}
  IN  IF own # {} THEN <<LowestSlot(own), r>>
      ELSE IF free = {} \/ ~mem THEN <<0, r>>
      ELSE <<LowestSlot(free), [r EXCEPT ![LowestSlot(free)] = Initialised(p)]>>
Takes(sl, s) == s # 0 /\ s = kexRun.slot /\ sl[s].pcb = 0       \* a slot a key exchange is running on

-----------------------------------------------------------------------------
(* TCP: a SYN takes a closed pcb, and the ACK that completes the handshake   *)
(* calls ssh_handle_new_connection, which closes what finds no slot.         *)
Syn(p) ==
  /\ sshdUp /\ pcbs[p].st = "closed" /\ slHist.made < SlConns
  /\ pcbs' = [pcbs EXCEPT ![p] = [st |-> "syn", gen |-> slHist.made + 1]]
  /\ slHist' = [slHist EXCEPT !.made = @ + 1]
  /\ UNCHANGED <<slots, kexRun, sshdUp>>
ssh_handle_new_connection(p, mem) ==
  /\ pcbs[p].st = "syn"
  /\ pcbs' = [pcbs EXCEPT ![p].st = IF Holding(slots, p) # {} \/
                (mem /\ \E s \in DOMAIN slots : slots[s].pcb = 0 \/ pcbs[slots[s].pcb].st = "closed")
                THEN "est" ELSE "lastack"]
  /\ LET r == ssh_find_connection(slots, p, mem)
     IN  /\ slots' = r[2]
         /\ slHist' = [slHist EXCEPT !.taken = @ \/ Takes(slots, r[1])]
  /\ UNCHANGED <<kexRun, sshdUp>>

(* ssh_handle_connection_close on a FIN, on a RST and on the last ACK: the   *)
(* slot is cleared, or during a key exchange only marked and let go.         *)
CloseSlot(sl, s) ==
  IF sl[s].computing THEN [sl EXCEPT ![s].closing = TRUE, ![s].pcb = 0] ELSE Destroyed(sl, s)
SlCloses(p, st) ==
  /\ pcbs' = [pcbs EXCEPT ![p].st = st]
  /\ slots' = IF Holding(slots, p) = {} THEN slots ELSE CloseSlot(slots, LowestSlot(Holding(slots, p)))
  /\ slHist' = [slHist EXCEPT !.left = @ \/ \E s \in Holding(slots, p) : slots[s].computing]
  /\ UNCHANGED <<kexRun, sshdUp>>
Fin(p) == pcbs[p].st = "est" /\ SlCloses(p, "lastack")
Rst(p) == pcbs[p].st = "est" /\ SlCloses(p, "closed")
LastAck(p) == pcbs[p].st = "lastack" /\ SlCloses(p, "closed")
(* The last ACK is lost: the retransmission limit, the reaper of tcp_tick or *)
(* tcp_get_free_pcb closes the pcb and tells nobody.                         *)
SilentlyClosed(p) ==
  /\ pcbs[p].st \in {"syn", "lastack"} /\ pcbs' = [pcbs EXCEPT ![p].st = "closed"]
  /\ slHist' = [slHist EXCEPT !.silent = @ \cup {s \in DOMAIN slots : slots[s].pcb = p}]
  /\ UNCHANGED <<slots, kexRun, sshdUp>>

-----------------------------------------------------------------------------
(* ssh_handle_connection, for a client that authenticates, or that says      *)
(* DISCONNECT or closes its channel: then the pcb is closed and the slot is  *)
(* left for the last ACK.                                                    *)
Message(p, what, mem) ==
  /\ pcbs[p].st = "est"
  /\ pcbs' = IF what = "quit" THEN [pcbs EXCEPT ![p].st = "lastack"] ELSE pcbs
  /\ LET r == ssh_find_connection(slots, p, mem)
     IN  /\ r[1] # 0
         /\ ~r[2][r[1]].computing
         /\ slots' = IF what = "auth" THEN [r[2] EXCEPT ![r[1]].auth = TRUE] ELSE r[2]
         /\ slHist' = [slHist EXCEPT !.taken = @ \/ Takes(slots, r[1])]
  /\ UNCHANGED <<kexRun, sshdUp>>

(* ssh_handle_kexdh_gex_init, run by the shell's polling.  bad: GEX_INIT is  *)
(* too short, and it returns with computing_keys set.                        *)
KexStarts(p, bad) ==
  /\ kexRun = NoKex /\ pcbs[p].st = "est" /\ Holding(slots, p) # {}
  /\ LET s == LowestSlot(Holding(slots, p))
     IN  /\ ~slots[s].auth /\ ~slots[s].computing
         /\ slots' = [slots EXCEPT ![s].computing = TRUE]
         /\ kexRun' = IF bad THEN NoKex ELSE [slot |-> s, gen |-> pcbs[p].gen]
  /\ UNCHANGED <<pcbs, sshdUp, slHist>>
Aborts_Never(c) == FALSE                             \* mutant: no look at the connection afterwards
Aborts(c) == c.pcb = 0 \/ c.closing
KexEnds ==
  /\ kexRun # NoKex
  /\ LET c == slots[kexRun.slot]
     IN  IF Aborts(c)
           THEN slots' = Destroyed(slots, kexRun.slot) /\ UNCHANGED slHist
           ELSE /\ slots' = [slots EXCEPT ![kexRun.slot].computing = FALSE]
                /\ slHist' = [slHist EXCEPT !.replies = @ \cup
                     {[asked |-> kexRun.gen, to |-> IF c.pcb = 0 THEN 0 ELSE pcbs[c.pcb].gen]}]
  /\ kexRun' = NoKex /\ UNCHANGED <<pcbs, sshdUp>>

(* sshd_stop and sshd_start, commands of the shell.                          *)
sshd_stop ==
  /\ kexRun = NoKex /\ sshdUp /\ sshdUp' = FALSE
  /\ pcbs' = [p \in DOMAIN pcbs |->
                IF pcbs[p].st = "est" /\ Holding(slots, p) # {} THEN [pcbs[p] EXCEPT !.st = "lastack"] ELSE pcbs[p]]
  /\ slots' = [s \in DOMAIN slots |-> IF slots[s].pcb # 0 THEN EmptySlot ELSE slots[s]]
  /\ UNCHANGED <<kexRun, slHist>>
sshd_start == kexRun = NoKex /\ ~sshdUp /\ sshdUp' = TRUE /\ UNCHANGED <<slots, pcbs, kexRun, slHist>>

SlNext ==
  \/ \E p \in 1 .. SlPcbs :
       \/ Syn(p) \/ Fin(p) \/ Rst(p) \/ LastAck(p) \/ SilentlyClosed(p)
       \/ \E mem \in BOOLEAN : ssh_handle_new_connection(p, mem)
       \/ \E what \in {"auth", "quit", "other"} : Message(p, what, TRUE)
       \/ \E bad \in BOOLEAN : KexStarts(p, bad)
  \/ KexEnds \/ sshd_stop \/ sshd_start

-----------------------------------------------------------------------------
SlTypeOK ==
  /\ \A s \in DOMAIN slots : slots[s].pcb \in 0 .. SlPcbs /\ (slots[s].pcb # 0 => slots[s].bufs)
  /\ kexRun.slot \in 0 .. SlSlots
  /\ \A p \in DOMAIN pcbs : pcbs[p].st \in {"closed", "syn", "est", "lastack"}

(* A pcb has at most one slot, and an established SSH connection has one.    *)
SlotPerPcb ==
  /\ \A s, t \in DOMAIN slots : (s # t /\ slots[s].pcb # 0) => slots[s].pcb # slots[t].pcb
  /\ \A p \in DOMAIN pcbs : pcbs[p].st = "est" => Holding(slots, p) # {}

(* A slot names a pcb that is closed, or serves a later handshake, only when *)
(* the pcb was closed without a word to SSH.                                 *)
SlotsMatch ==
  \A s \in DOMAIN slots :
    (slots[s].pcb # 0 /\ s \notin slHist.silent) => pcbs[slots[s].pcb].st \in {"est", "lastack"}

(* The reply of a key exchange goes to a connection, and to the one that     *)
(* asked, unless that one left and its slot was taken meanwhile.             *)
RepliesReachAsker ==
  \A r \in slHist.replies : r.to # 0 /\ (r.asked = r.to \/ slHist.taken)

(* ssh.c:3609: of a connection closed during a key exchange, "the KEX path   *)
(* will notice and abort safely".                                            *)
KexAbortsSafely == \A r \in slHist.replies : r.asked = r.to
=============================================================================
