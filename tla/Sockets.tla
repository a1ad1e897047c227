------------------------------- MODULE Sockets -------------------------------
(***************************************************************************)
(* The socket system calls over the pool of TCP control blocks              *)
(* (src/src/kernel.c, tcp_get_free_pcb of src/src/tcp.c).  A system call runs *)
(* with interrupts enabled but is not preempted by another process; segments *)
(* are handled in the interrupt.  A pcb's connection is numbered, its bytes  *)
(* too; Tcp models what leads to them.                                       *)
(***************************************************************************)
EXTENDS Integers, Sequences, FiniteSets

CONSTANTS
  SkPids,      \* user processes
  SkFds,       \* MAX_SOCKETS
  SkPcbs,      \* TCP_MAX_PCBS
  SkRxCap,     \* capacity of app_rx_buf, in bytes
  SkConns,     \* bound: connections
  SkBytes      \* bound: bytes that arrive

VARIABLES
  skTable,     \* socket_table
  skPcb,       \* tcp_pcbs: state, connection, app_rx_buf and app_rx_len
  skConn,      \* connections so far
  skByte,      \* bytes so far
  recvCall,    \* the recv in progress
  skGot,       \* history: connection to the bytes recv returned from it
  skSent,      \* history: connection to the bytes that arrived on it
  skRaced,     \* history: connections a segment came for between recv's loop and its
               \* subtraction, or that accept on a connected socket copied
  skCut,       \* history: a pcb was cleared or given away during a recv from it
  skOpened     \* history: connections opened by connect

skVars == <<skTable, skPcb, skConn, skByte, recvCall, skGot, skSent, skRaced, skCut, skOpened>>

NoSock == [pid |-> 0, pcb |-> 0]
Blank  == [st |-> "CLOSED", conn |-> 0, buf |-> [i \in 1 .. SkRxCap |-> 0], len |-> 0]
NoCall == [at |-> "none", fd |-> 0, n |-> 0]

SkInit ==
  /\ skTable = [f \in 1 .. SkFds |-> NoSock]
  /\ skPcb = [p \in 1 .. SkPcbs |-> Blank]
  /\ skConn = 0 /\ skByte = 0 /\ recvCall = NoCall
  /\ skGot = [c \in 1 .. SkConns |-> <<>>] /\ skSent = [c \in 1 .. SkConns |-> <<>>]
  /\ skRaced = {} /\ skCut = FALSE /\ skOpened = {}

(* tcp_get_free_pcb: a CLOSED one, else one that is closing.                 *)
Closing == {"CLOSE_WAIT", "LAST_ACK"}
SkFirst(S) == CHOOSE p \in S : \A q \in S : p <= q
Named(p) == {f \in DOMAIN skTable : skTable[f].pcb = p}
FreePcbs ==
  LET closed == {p \in DOMAIN skPcb : skPcb[p].st = "CLOSED"}
  IN  IF closed # {} THEN {SkFirst(closed)} ELSE {p \in DOMAIN skPcb : skPcb[p].st \in Closing}
Reclaimed(p) == [skPcb[p] EXCEPT !.st = "CLOSED", !.len = IF skPcb[p].st = "CLOSED" THEN @ ELSE 0]

(* socket_alloc_fd *)
FreeFds == {f \in DOMAIN skTable : skTable[f] = NoSock}
Owns(pid, f) == skTable[f].pid = pid
Idle == recvCall.at = "none"

(* socket: the pcb stays CLOSED, so it is still free.                        *)
SkSocket(pid) ==
  /\ Idle
  /\ \E p \in FreePcbs :
       /\ skPcb' = [skPcb EXCEPT ![p] = Reclaimed(p)]
       /\ skTable' = IF FreeFds = {} THEN skTable
                     ELSE [skTable EXCEPT ![SkFirst(FreeFds)] = [pid |-> pid, pcb |-> p]]
  /\ UNCHANGED <<skConn, skByte, recvCall, skGot, skSent, skRaced, skCut, skOpened>>

(* bind and listen, which look at nothing but the owner.                     *)
SkListen(pid, f) ==
  /\ Idle /\ Owns(pid, f)
  /\ skPcb' = [skPcb EXCEPT ![skTable[f].pcb].st = "LISTEN"]
  /\ UNCHANGED <<skTable, skConn, skByte, recvCall, skGot, skSent, skRaced, skCut, skOpened>>

(* connect: tcp_connect takes the pcb over, whatever its state.              *)
SkConnect(pid, f, ok) ==
  /\ Idle /\ Owns(pid, f) /\ skConn < SkConns
  /\ skConn' = skConn + 1 /\ skOpened' = skOpened \cup {skConn + 1}
  /\ skPcb' = [skPcb EXCEPT ![skTable[f].pcb] =
                 [@ EXCEPT !.st = IF ok THEN "ESTABLISHED" ELSE "CLOSED", !.conn = skConn + 1, !.len = 0]]
  /\ UNCHANGED <<skTable, skByte, recvCall, skGot, skSent, skRaced, skCut>>

(* accept waits for the listening pcb to leave LISTEN; when it has, its      *)
(* contents go to a free pcb and it listens again.  A connection never takes *)
(* the listening pcb (SkSyn), so only listen's own successor states count.   *)
SkAccept(pid, f) ==
  LET p == skTable[f].pcb
  IN  /\ Idle /\ Owns(pid, f) /\ skPcb[p].st # "LISTEN"
      /\ \E q \in FreePcbs :
           /\ skPcb' = [skPcb EXCEPT ![q] = [skPcb[p] EXCEPT !.st = "ESTABLISHED"],
                                     ![p].st = "LISTEN"]
           /\ skTable' = IF FreeFds = {} THEN skTable
                         ELSE [skTable EXCEPT ![SkFirst(FreeFds)] = [pid |-> pid, pcb |-> q]]
      /\ skRaced' = skRaced \cup {skPcb[p].conn}
      /\ UNCHANGED <<skConn, skByte, recvCall, skGot, skSent, skCut, skOpened>>

(* recv: the bytes are copied out; the rest is shifted down by a loop that   *)
(* reads app_rx_len each time; then app_rx_len, of 16 bits, is reduced.      *)
RecvCopy(pid, f, want) ==
  LET b == skPcb[skTable[f].pcb]
      n == IF want > b.len THEN b.len ELSE want
  IN  /\ Idle /\ Owns(pid, f) /\ n > 0 /\ b.conn # 0
      /\ Len(skGot[b.conn]) + n <= SkBytes + 1        \* bound
      /\ recvCall' = [at |-> "shift", fd |-> f, n |-> n]
      /\ skGot' = [skGot EXCEPT ![b.conn] = @ \o SubSeq(b.buf, 1, n)]
      /\ UNCHANGED <<skTable, skPcb, skConn, skByte, skSent, skRaced, skCut, skOpened>>
Shifted_ByOne(b, n) ==                              \* mutant: the loop starts one late
  [i \in DOMAIN b.buf |-> IF i + n <= b.len /\ i > 1 /\ i + n <= SkRxCap THEN b.buf[i + n] ELSE b.buf[i]]
Shifted(b, n) == [i \in DOMAIN b.buf |-> IF i + n <= b.len /\ i + n <= SkRxCap THEN b.buf[i + n] ELSE b.buf[i]]
RecvShift ==
  LET p == skTable[recvCall.fd].pcb
  IN  /\ recvCall.at = "shift"
      /\ skPcb' = [skPcb EXCEPT ![p].buf = Shifted(skPcb[p], recvCall.n)]
      /\ recvCall' = [recvCall EXCEPT !.at = "subtract"]
      /\ UNCHANGED <<skTable, skConn, skByte, skGot, skSent, skRaced, skCut, skOpened>>
RecvSubtract ==
  LET p == skTable[recvCall.fd].pcb
  IN  /\ recvCall.at = "subtract"
      /\ skPcb' = [skPcb EXCEPT ![p].len = (@ - recvCall.n) % 65536]
      /\ recvCall' = NoCall
      /\ UNCHANGED <<skTable, skConn, skByte, skGot, skSent, skRaced, skCut, skOpened>>

(* tcp_close: a FIN from ESTABLISHED or CLOSE_WAIT, nothing otherwise.       *)
Closed(pcb, p) ==
  IF pcb[p].st \in {"ESTABLISHED", "CLOSE_WAIT"} THEN [pcb EXCEPT ![p].st = "LAST_ACK"] ELSE pcb

(* close, and process_free for every socket of the process.                  *)
SkClose(pid, f) ==
  /\ Idle /\ Owns(pid, f)
  /\ skPcb' = Closed(skPcb, skTable[f].pcb)
  /\ skTable' = [skTable EXCEPT ![f] = NoSock]
  /\ UNCHANGED <<skConn, skByte, recvCall, skGot, skSent, skRaced, skCut, skOpened>>
Ended(mine) == [p \in DOMAIN skPcb |->
  IF \E f \in mine : skTable[f].pcb = p THEN Closed(skPcb, p)[p] ELSE skPcb[p]]
SkExit(pid) ==
  LET mine == {f \in DOMAIN skTable : Owns(pid, f)}
  IN  /\ Idle
      /\ skPcb' = Ended(mine)
      /\ skTable' = [f \in DOMAIN skTable |-> IF f \in mine THEN NoSock ELSE skTable[f]]
      /\ UNCHANGED <<skConn, skByte, recvCall, skGot, skSent, skRaced, skCut, skOpened>>

Reads(p) == recvCall.at # "none" /\ skTable[recvCall.fd].pcb = p

(* In the interrupt: a SYN for a listening pcb gets a pcb of its own ...     *)
SkSyn ==
  /\ skConn < SkConns /\ \E p \in DOMAIN skPcb : skPcb[p].st = "LISTEN"
  /\ skConn' = skConn + 1
  /\ \E q \in FreePcbs :
       /\ skPcb' = [skPcb EXCEPT ![q] = [@ EXCEPT !.st = "ESTABLISHED", !.conn = skConn + 1, !.len = 0]]
       /\ skCut' = (skCut \/ Reads(q))
  /\ UNCHANGED <<skTable, skByte, recvCall, skGot, skSent, skRaced, skOpened>>
(* ... a byte is appended ...                                                *)
RxRoom(b) == b.len < SkRxCap
SkData(p) ==
  LET b == skPcb[p]
  IN  /\ b.st = "ESTABLISHED" /\ b.conn # 0 /\ RxRoom(b) /\ skByte < SkBytes
      /\ skByte' = skByte + 1
      /\ skPcb' = [skPcb EXCEPT ![p] = [@ EXCEPT !.buf[b.len + 1] = skByte + 1, !.len = @ + 1]]
      /\ skSent' = [skSent EXCEPT ![b.conn] = Append(@, skByte + 1)]
      /\ skRaced' = IF recvCall.at = "subtract" /\ skTable[recvCall.fd].pcb = p
                      THEN skRaced \cup {b.conn} ELSE skRaced
      /\ UNCHANGED <<skTable, skConn, recvCall, skGot, skCut, skOpened>>
(* ... the peer closes, or the connection ends by RST, timeout or last ACK.  *)
SkFin(p) ==
  /\ skPcb[p].st = "ESTABLISHED"
  /\ skPcb' = [skPcb EXCEPT ![p].st = "CLOSE_WAIT"]
  /\ UNCHANGED <<skTable, skConn, skByte, recvCall, skGot, skSent, skRaced, skCut, skOpened>>
SkEnds(p) ==
  /\ skPcb[p].st \in Closing \cup {"ESTABLISHED"}
  /\ skPcb' = [skPcb EXCEPT ![p].st = "CLOSED", ![p].len = 0]
  /\ skCut' = (skCut \/ Reads(p))
  /\ UNCHANGED <<skTable, skConn, skByte, recvCall, skGot, skSent, skRaced, skOpened>>

SkNext ==
  \/ \E pid \in SkPids :
       \/ SkSocket(pid) \/ SkExit(pid)
       \/ \E f \in 1 .. SkFds :
            \/ SkListen(pid, f) \/ SkAccept(pid, f) \/ SkClose(pid, f)
            \/ \E ok \in BOOLEAN : SkConnect(pid, f, ok)
            \/ \E n \in 1 .. SkRxCap : RecvCopy(pid, f, n)
  \/ RecvShift \/ RecvSubtract \/ SkSyn
  \/ \E p \in 1 .. SkPcbs : SkData(p) \/ SkFin(p) \/ SkEnds(p)

(* Buffers hold at most their capacity, unless a connection ended during a   *)
(* recv and app_rx_len wrapped; a used entry names a pcb.                    *)
SkTypeOK ==
  /\ ~skCut => \A p \in DOMAIN skPcb : skPcb[p].len \in 0 .. SkRxCap
  /\ \A f \in DOMAIN skTable : skTable[f].pid \in SkPids => skTable[f].pcb \in DOMAIN skPcb
  /\ recvCall.at # "none" => skTable[recvCall.fd] # NoSock

(* Unless a segment came in the window between recv's loop and its           *)
(* subtraction, or the connection ended during a recv (or accept was called  *)
(* on a connected socket), recv returns the bytes that arrived on the        *)
(* connection, in order, none twice and none skipped.                        *)
RecvFaithful ==
  ~skCut => \A c \in (1 .. SkConns) \ skRaced :
    /\ Len(skGot[c]) <= Len(skSent[c])
    /\ \A k \in DOMAIN skGot[c] : skGot[c][k] = skSent[c][k]

(* A connection that connect opened is never left open with no socket naming *)
(* it: close and process_free end what the process opened, so that its pcb   *)
(* is not lost to the pool.                                                  *)
NoOrphanConnection ==
  \A p \in DOMAIN skPcb :
    (skPcb[p].st = "ESTABLISHED" /\ skPcb[p].conn \in skOpened \ skRaced) => Named(p) # {}
=============================================================================
