----------------------------- MODULE NetClients -----------------------------
(***************************************************************************)
(* The shell's commands that open a connection (src/src/kernel.c):          *)
(* tcp_connect, wget, http_get, whois and nc.  Each holds a pointer to a    *)
(* control block and looks at its state and its app_rx_buf between waits,   *)
(* while segments and ticks are handled in the interrupt, where an incoming *)
(* connection may take the same block (tcp_get_free_pcb marks nothing).     *)
(* A connection's answer is NcAnswer pieces, in order (Tcp models how); the *)
(* first holds "HTTP/", the one numbered NcHead ends the header.            *)
(***************************************************************************)
EXTENDS Integers, Sequences, SequencesExt

CONSTANTS
  NcPcbs,      \* TCP_MAX_PCBS
  NcConns,     \* connections (bound)
  NcAnswer,    \* pieces of an answer
  NcHead,      \* pieces of its header
  NcRxCap      \* TCP_APP_RX_MAX

VARIABLES
  ncPcb,       \* tcp_pcbs: state, connection, the bytes of app_rx_buf
  ncConn,      \* connections so far: who opened it, whether it is answered, pieces
               \* sent, whether its FIN could not be sent
  ncCmd,       \* the command: where it is, its pcb, its connection, its attempt,
               \* and what it remembers of app_rx_len (n) or of the header (hdr)
  ncShown,     \* what it has printed or saved
  ncHist       \* history: lost: a piece came too early or did not fit; given: another
               \* connection took the pcb the command points to

ncVars == <<ncPcb, ncConn, ncCmd, ncShown, ncHist>>

NcIdle == [cmd |-> "none", at |-> "idle", pcb |-> 1, conn |-> 0, try |-> 0, n |-> 0]
NcInit ==
  /\ ncPcb = [p \in 1 .. NcPcbs |-> [st |-> "CLOSED", conn |-> 0, rx |-> <<>>]]
  /\ ncConn = <<>> /\ ncCmd = NcIdle /\ ncShown = <<>>
  /\ ncHist = [lost |-> FALSE, given |-> FALSE]

NcMine == ncPcb[ncCmd.pcb]
NcAt(cmds, at) == ncCmd.cmd \in cmds /\ ncCmd.at = at
NcGo(at) == ncCmd' = [ncCmd EXCEPT !.at = at]
NcSet(p, b) == ncPcb' = [ncPcb EXCEPT ![p] = b]
NcWeb == {"wget", "http_get"}

(* tcp_get_free_pcb: the first CLOSED one, else one that is closing.         *)
NcFree ==
  LET closed == {p \in DOMAIN ncPcb : ncPcb[p].st = "CLOSED"}
  IN  IF closed # {} THEN {CHOOSE p \in closed : \A q \in closed : p <= q}
                     ELSE {p \in DOMAIN ncPcb : ncPcb[p].st = "LAST_ACK"}

(* The command finds a pcb; without one it returns.                          *)
NcStart(cmd) ==
  /\ ncCmd.at = "idle" /\ Len(ncConn) < NcConns
  /\ \E p \in NcFree :
       /\ NcSet(p, [ncPcb[p] EXCEPT !.st = "CLOSED"])
       /\ ncCmd' = [NcIdle EXCEPT !.cmd = cmd, !.at = "connect", !.pcb = p]
  /\ ncShown' = <<>> /\ ncHist' = [ncHist EXCEPT !.lost = FALSE, !.given = FALSE]
  /\ UNCHANGED ncConn

(* Arguments and names have been resolved (DnsClient).                       *)
cmd_tcp_connect == NcStart("tcp_connect")
cmd_wget        == NcStart("wget")
cmd_http_get    == NcStart("http_get")
cmd_whois       == NcStart("whois")
cmd_nc          == NcStart("nc")

(* tcp_connect takes the pcb whatever it has become.  The command            *)
(* tcp_connect returns at once and forgets it.                               *)
NcConnect ==
  LET c == Len(ncConn) + 1
  IN  /\ ncCmd.at = "connect" /\ c <= NcConns
      /\ NcSet(ncCmd.pcb, [st |-> "SYN_SENT", conn |-> c, rx |-> <<>>])
      /\ ncConn' = Append(ncConn, [by |-> ncCmd.cmd, asked |-> ncCmd.cmd = "nc", sent |-> 0, left |-> FALSE])
      /\ ncCmd' = [ncCmd EXCEPT !.at = IF ncCmd.cmd = "tcp_connect" THEN "idle" ELSE "opening",
                               !.conn = c, !.try = @ + 1]
      /\ ncHist' = [ncHist EXCEPT !.given = FALSE]
      /\ UNCHANGED ncShown

(* The waiting loop saw ESTABLISHED; or it saw CLOSED or its deadline, after *)
(* which wget, http_get and whois store CLOSED, and nc returns (its          *)
(* tcp_close of a pcb that is not ESTABLISHED does nothing).                 *)
NcOpened ==
  /\ ncCmd.at = "opening" /\ NcMine.st = "ESTABLISHED"
  /\ NcGo(CASE ncCmd.cmd \in NcWeb -> "clear" [] ncCmd.cmd = "whois" -> "ask" [] OTHER -> "loop")
  /\ UNCHANGED <<ncPcb, ncConn, ncShown, ncHist>>
NcOpenFails ==
  /\ NcAt(NcWeb \cup {"whois"}, "opening") /\ NcMine.st # "ESTABLISHED" /\ NcGo("failed")
  /\ UNCHANGED <<ncPcb, ncConn, ncShown, ncHist>>
NcRetries ==
  /\ NcAt(NcWeb, "failed") /\ NcSet(ncCmd.pcb, [NcMine EXCEPT !.st = "CLOSED"])
  /\ NcGo(IF ncCmd.try < 2 THEN "connect" ELSE "idle")
  /\ UNCHANGED <<ncConn, ncShown, ncHist>>
WhoisFails ==
  /\ NcAt({"whois"}, "failed") /\ NcSet(ncCmd.pcb, [NcMine EXCEPT !.st = "CLOSED"]) /\ NcGo("idle")
  /\ UNCHANGED <<ncConn, ncShown, ncHist>>
NcGivesUp ==
  /\ NcAt({"nc"}, "opening") /\ NcMine.st # "ESTABLISHED" /\ NcGo("idle")
  /\ UNCHANGED <<ncPcb, ncConn, ncShown, ncHist>>

(* app_rx_len = 0: wget and http_get before they send, whois after.          *)
(* tcp_send sends nothing unless the pcb is ESTABLISHED; no result is looked at. *)
Clears ==
  /\ NcSet(ncCmd.pcb, [NcMine EXCEPT !.rx = <<>>])
  /\ ncHist' = [ncHist EXCEPT !.lost = @ \/ NcMine.rx # <<>>]
  /\ UNCHANGED <<ncConn, ncShown>>
Asks ==
  /\ ncConn' = IF NcMine.st = "ESTABLISHED" THEN [ncConn EXCEPT ![NcMine.conn].asked = TRUE] ELSE ncConn
  /\ UNCHANGED <<ncPcb, ncShown, ncHist>>
WebClears   == NcAt(NcWeb, "clear") /\ NcGo("ask") /\ Clears
WebAsks     == NcAt(NcWeb, "ask") /\ NcGo("wait") /\ Asks
WhoisAsks   == NcAt({"whois"}, "ask") /\ NcGo("clear") /\ Asks
WhoisClears == NcAt({"whois"}, "clear") /\ NcGo("wait") /\ Clears

(* wget and http_get wait until "HTTP/" is there, or their deadline.         *)
NcAnswered ==
  /\ NcAt(NcWeb, "wait") /\ NcGo("parse") /\ UNCHANGED <<ncPcb, ncConn, ncShown, ncHist>>
(* http_parse_response of what has arrived; then wget reads app_rx_len again *)
(* and saves what follows the header, whether or not all of it is there.     *)
NcHeader(rx) == {k \in DOMAIN rx : rx[k][2] = NcHead}
WgetParses ==
  /\ NcAt({"wget"}, "parse")
  /\ \/ NcGo("close")                             \* no response, no header, or not 200
     \/ \E k \in NcHeader(NcMine.rx) : ncCmd' = [ncCmd EXCEPT !.at = "save", !.n = k]
  /\ UNCHANGED <<ncPcb, ncConn, ncShown, ncHist>>
NcBehind == <<0, 0>>        \* body_len wrapped: what lies behind app_rx_buf
WgetBody(rx, k) == IF Len(rx) < k THEN <<NcBehind>> ELSE SubSeq(rx, k + 1, Len(rx))
WgetSaves ==
  /\ NcAt({"wget"}, "save") /\ ncShown' = WgetBody(NcMine.rx, ncCmd.n) /\ NcGo("close")
  /\ UNCHANGED <<ncPcb, ncConn, ncHist>>

(* http_get prints the first line.  It does not close without a response,    *)
(* nor a pcb that is not ESTABLISHED.                                        *)
HttpGetPrints ==
  /\ NcAt({"http_get"}, "parse")
  /\ ncShown' = SubSeq(NcMine.rx, 1, IF NcMine.rx = <<>> THEN 0 ELSE 1)
  /\ NcGo(IF NcMine.rx # <<>> /\ NcMine.st = "ESTABLISHED" THEN "close" ELSE "idle")
  /\ UNCHANGED <<ncPcb, ncConn, ncHist>>

(* whois waits until nothing has come for 200 ms.                            *)
WhoisPeeks ==
  /\ NcAt({"whois"}, "wait") /\ NcMine.rx # <<>>
  /\ ncCmd' = [ncCmd EXCEPT !.at = "settle", !.n = Len(NcMine.rx)]
  /\ UNCHANGED <<ncPcb, ncConn, ncShown, ncHist>>
WhoisSettles ==
  /\ NcAt({"whois"}, "settle") /\ NcGo(IF Len(NcMine.rx) = ncCmd.n THEN "print" ELSE "wait")
  /\ UNCHANGED <<ncPcb, ncConn, ncShown, ncHist>>
WhoisGivesUp ==                                   \* CLOSED, or the deadline
  /\ NcAt({"whois"}, "wait") /\ NcGo("print") /\ UNCHANGED <<ncPcb, ncConn, ncShown, ncHist>>
WhoisPrints ==
  /\ NcAt({"whois"}, "print") /\ NcGo("close")
  /\ ncShown' = IF ncCmd.n = 0 THEN <<>> ELSE NcMine.rx             \* got_data
  /\ UNCHANGED <<ncPcb, ncConn, ncHist>>

(* nc: the printing loop reads app_rx_len each time; then it is set to 0.    *)
NcLoop ==
  /\ NcAt({"nc"}, "loop")
  /\ \/ NcGo("close")                             \* Ctrl+C, or no longer ESTABLISHED
     \/ /\ NcMine.st = "ESTABLISHED" /\ NcMine.rx # <<>>
        /\ ncCmd' = [ncCmd EXCEPT !.at = "output", !.n = 0]
  /\ UNCHANGED <<ncPcb, ncConn, ncShown, ncHist>>
NcOutput ==
  /\ NcAt({"nc"}, "output")
  /\ IF ncCmd.n < Len(NcMine.rx)
       THEN /\ ncShown' = Append(ncShown, NcMine.rx[ncCmd.n + 1])
            /\ ncCmd' = [ncCmd EXCEPT !.n = @ + 1]
       ELSE NcGo("consume") /\ UNCHANGED ncShown
  /\ UNCHANGED <<ncPcb, ncConn, ncHist>>
NcConsumed_Not(b) == b                              \* mutant
NcConsumed(b) == [b EXCEPT !.rx = <<>>]
NcConsume ==
  /\ NcAt({"nc"}, "consume") /\ NcSet(ncCmd.pcb, NcConsumed(NcMine))
  /\ NcGo(IF NcMine.st = "CLOSED" THEN "close" ELSE "loop")
  /\ ncHist' = [ncHist EXCEPT !.lost = @ \/ Len(NcMine.rx) > ncCmd.n]
  /\ UNCHANGED <<ncConn, ncShown>>

(* tcp_close, unless its FIN cannot be sent; then the command returns.       *)
NcCloses(b) == IF b.st = "ESTABLISHED" THEN [b EXCEPT !.st = "LAST_ACK"] ELSE b
NcClose ==
  /\ ncCmd.at = "close" /\ NcGo("idle")
  /\ \/ NcSet(ncCmd.pcb, NcCloses(NcMine)) /\ UNCHANGED ncConn
     \/ /\ NcMine.st = "ESTABLISHED" /\ UNCHANGED ncPcb
        /\ ncConn' = [ncConn EXCEPT ![NcMine.conn].left = TRUE]
  /\ UNCHANGED <<ncShown, ncHist>>

(* ---- the interrupt ------------------------------------------------------------ *)
NcSynAck(p) ==
  /\ ncPcb[p].st = "SYN_SENT" /\ NcSet(p, [ncPcb[p] EXCEPT !.st = "ESTABLISHED"])
  /\ UNCHANGED <<ncConn, ncCmd, ncShown, ncHist>>
(* Refused, reset, the last ACK, or tcp_tick after its retransmissions.      *)
NcEnds(p) ==
  /\ ncPcb[p].st # "CLOSED" /\ NcSet(p, [ncPcb[p] EXCEPT !.st = "CLOSED"])
  /\ UNCHANGED <<ncConn, ncCmd, ncShown, ncHist>>
(* tcp_tick drops what was silent for 60 s: longer than any wait but nc's.   *)
NcReaped(p) ==
  /\ ncPcb[p].st \in {"ESTABLISHED", "LAST_ACK"}
  /\ ncCmd.at = "idle" \/ ncCmd.pcb # p \/ NcAt({"nc"}, "loop")
  /\ NcSet(p, [ncPcb[p] EXCEPT !.st = "CLOSED", !.rx = <<>>])
  /\ UNCHANGED <<ncConn, ncCmd, ncShown, ncHist>>
NcFits(b) == Len(b.rx) < NcRxCap
NcData(p) ==
  LET b == ncPcb[p] IN
  /\ b.st = "ESTABLISHED" /\ ncConn[b.conn].asked /\ ncConn[b.conn].sent < NcAnswer
  /\ ncConn' = [ncConn EXCEPT ![b.conn].sent = @ + 1]
  /\ NcSet(p, [b EXCEPT !.rx = IF NcFits(b) THEN Append(@, <<b.conn, ncConn[b.conn].sent + 1>>) ELSE @])
  /\ ncHist' = [ncHist EXCEPT !.lost = @ \/ (~NcFits(b) /\ b.conn = ncCmd.conn)]
  /\ UNCHANGED <<ncCmd, ncShown>>
NcFin(p) ==                                       \* answered with a FIN at once
  /\ ncPcb[p].st = "ESTABLISHED" /\ NcSet(p, [ncPcb[p] EXCEPT !.st = "LAST_ACK"])
  /\ UNCHANGED <<ncConn, ncCmd, ncShown, ncHist>>
(* A client of the web server gets a pcb of its own.                         *)
NcIncoming ==
  /\ Len(ncConn) < NcConns
  /\ ncConn' = Append(ncConn, [by |-> "in", asked |-> TRUE, sent |-> 0, left |-> FALSE])
  /\ \E p \in NcFree :
       /\ NcSet(p, [st |-> "ESTABLISHED", conn |-> Len(ncConn) + 1, rx |-> <<>>])
       /\ ncHist' = [ncHist EXCEPT !.given = @ \/ (ncCmd.at # "idle" /\ p = ncCmd.pcb)]
  /\ UNCHANGED <<ncCmd, ncShown>>

NcNext ==
  \/ cmd_tcp_connect \/ cmd_wget \/ cmd_http_get \/ cmd_whois \/ cmd_nc
  \/ NcConnect \/ NcOpened \/ NcOpenFails \/ NcRetries \/ WhoisFails \/ NcGivesUp
  \/ WebClears \/ WebAsks \/ WhoisAsks \/ WhoisClears
  \/ NcAnswered \/ WgetParses \/ WgetSaves \/ HttpGetPrints
  \/ WhoisPeeks \/ WhoisSettles \/ WhoisGivesUp \/ WhoisPrints
  \/ NcLoop \/ NcOutput \/ NcConsume \/ NcClose
  \/ \E p \in DOMAIN ncPcb : NcSynAck(p) \/ NcEnds(p) \/ NcReaped(p) \/ NcData(p) \/ NcFin(p)
  \/ NcIncoming

-----------------------------------------------------------------------------
(* app_rx_buf keeps to its size, no connection is in two pcbs, and a command *)
(* points to a pcb of the pool.                                              *)
NcTypeOK ==
  /\ \A p \in DOMAIN ncPcb : Len(ncPcb[p].rx) <= NcRxCap
  /\ \A p, q \in DOMAIN ncPcb : p # q /\ ncPcb[p].conn = ncPcb[q].conn => ncPcb[p].conn = 0
  /\ ncCmd.pcb \in DOMAIN ncPcb

(* What a command has printed or saved is the beginning of the answer to it  *)
(* (wget: of the body), each piece once and in order.  The exceptions: its   *)
(* pcb was given to another connection meanwhile; app_rx_buf was full; the   *)
(* answer began before whois cleared the buffer; a piece came between nc's   *)
(* printing loop and its clearing.                                           *)
NcAnswerTo(cmd, c) ==
  [i \in 1 .. NcAnswer - (IF cmd = "wget" THEN NcHead ELSE 0) |->
     <<c, i + (IF cmd = "wget" THEN NcHead ELSE 0)>>]
ShownIsAnswer ==
  ncCmd.cmd # "none" /\ ~ncHist.given /\ ~ncHist.lost =>
    IsPrefix(ncShown, NcAnswerTo(ncCmd.cmd, ncCmd.conn))

(* wget and whois never leave a connection of theirs open behind them, by    *)
(* whichever way they return, unless its FIN could not be sent.              *)
NcFreesItsPcb ==
  \A p \in DOMAIN ncPcb :
    LET c == ncPcb[p].conn IN
    c # 0 /\ (c # ncCmd.conn \/ ncCmd.at = "idle") =>
      \/ ncConn[c].by \notin {"wget", "whois"} \/ ncConn[c].left
      \/ ncPcb[p].st \notin {"SYN_SENT", "ESTABLISHED"}

(* No step of a command ends a connection of a client of the web server.     *)
NcCutsNoOther ==
  [][\A p \in DOMAIN ncPcb :
       ncPcb[p].st = "ESTABLISHED" /\ ncConn[ncPcb[p].conn].by = "in" /\ ncCmd' # ncCmd =>
         ncPcb'[p].st = "ESTABLISHED" /\ ncPcb'[p].conn = ncPcb[p].conn]_ncVars
(* wget saves the whole body or nothing.                                     *)
WgetSavesAll ==
  NcAt({"wget"}, "close") /\ ~ncHist.given /\ ~ncHist.lost =>
    ncShown \in {<<>>, NcAnswerTo("wget", ncCmd.conn)}
(* "Best-effort close to free up the PCB for repeated http_get usage": after *)
(* http_get its connection is not left open.                                 *)
HttpGetFrees ==
  NcAt({"http_get"}, "idle") => \A p \in DOMAIN ncPcb : ncPcb[p].conn = ncCmd.conn => ncPcb[p].st # "ESTABLISHED"
=============================================================================
