-------------------------------- MODULE Tcp64 -------------------------------
(***************************************************************************)
(* TCP of the 64-bit kernel (src/src/tcp64.c, src/src/net64.c): one control *)
(* block for the web server and for whatever the machine itself fetches,    *)
(* which a script of the server may do in the middle of a request.          *)
(*                                                                          *)
(* There is no interrupt: frames are taken when the shell or a waiting call *)
(* polls.  The network loses, repeats, delays and reorders: a segment that  *)
(* a peer can send, given what has left the machine, can arrive at any      *)
(* later poll and any number of times (Inbound).  Connection n has the      *)
(* machine's initial sequence number Isn(n) and, when the machine opened    *)
(* it, a local port of its own; lengths count pieces of data.               *)
(***************************************************************************)
EXTENDS Integers, Sequences, SequencesExt, FiniteSets

CONSTANTS
  T64Clients,   \* ports of clients of the web server
  T64Conns,     \* connections (bound)
  T64Page,      \* pieces of the page the remote server sends
  T64RxCap,     \* sizeof t_rxbuf
  T64Request,   \* pieces of a request to the web server
  T64SrvCap,    \* sizeof srv_req
  T64Retries    \* retransmissions of a segment

ASSUME T64Assumption ==
  /\ {T64Conns, T64Page, T64RxCap, T64Request, T64SrvCap, T64Retries} \subseteq Nat
  /\ {"none", "remote"} \cap T64Clients = {}

VARIABLES
  tcb,       \* the control block: state, peer, lport, n, seq, una, rcv, rx, fin, last, tries
  web64,     \* the web server: srv_on, srv_req
  fetch,     \* where tcp64_http_get is; "none" when it is not running
  handling,  \* the web server's handler is running
  gate,      \* the gateway's hardware address: "no", "asked", "valid"
  gone,      \* what has left the machine: per connection its peer and the segments sent
  hist64     \* history: short: a piece did not fit or was passed over; early: the ACK of
             \* the SYN came once more; sent: the result of tcp64_send

t64Vars == <<tcb, web64, fetch, handling, gate, gone, hist64>>

Conns64 == 1 .. T64Conns
Isn(n) == 10 * n
PeerIsn == 50
Page == [i \in 1 .. T64Page |-> <<"page", i>>]
RequestOf(c) == [i \in 1 .. T64Request |-> <<c, i>>]
Unsent == [kind |-> "none", seq |-> 0]
NoConn64 == [peer |-> "none", segs |-> {}]

T64Init ==
  /\ tcb = [state |-> "CLOSED", peer |-> "none", lport |-> 0, n |-> 0, seq |-> 0, una |-> 0,
            rcv |-> 0, rx |-> <<>>, fin |-> FALSE, last |-> Unsent, tries |-> 0]
  /\ web64 = [on |-> FALSE, req |-> <<>>]
  /\ fetch = "none" /\ handling = FALSE /\ gate = "no"
  /\ gone = [n \in Conns64 |-> NoConn64]
  /\ hist64 = [short |-> FALSE, early |-> FALSE, sent |-> "none"]

(* ---- sending ---------------------------------------------------------------- *)
(* seg_send keeps a copy for retransmission; ip64_send_tcp refuses while the *)
(* gateway is not known.                                                     *)
Sent(o, b, kind) == IF gate = "valid" THEN [o EXCEPT ![b.n].segs = @ \cup {kind}] ELSE o
seg_send(b, kind) == [b EXCEPT !.last = [kind |-> kind, seq |-> b.seq]]
Untracked(b) == [b EXCEPT !.last = Unsent]              \* t_lastseg_len = 0
NewConn == Cardinality({n \in Conns64 : gone[n] # NoConn64}) + 1

(* retransmit_check: only a waiting call comes here, never the web server.   *)
retransmit_check ==
  /\ fetch # "none" /\ tcb.last # Unsent /\ tcb.state # "CLOSED" /\ tcb.tries < T64Retries
  /\ tcb' = [tcb EXCEPT !.tries = @ + 1]
  /\ gone' = Sent(gone, tcb, tcb.last.kind)
  /\ UNCHANGED <<web64, fetch, handling, gate, hist64>>

(* ---- the client ---------------------------------------------------------------- *)
(* tcp64_connect takes the control block as it is, from the web server too.  *)
tcp64_connect ==
  LET b == [state |-> "SYN_SENT", peer |-> "remote", lport |-> NewConn, n |-> NewConn,
            seq |-> Isn(NewConn), una |-> Isn(NewConn), rcv |-> 0, rx |-> <<>>, fin |-> FALSE,
            last |-> Unsent, tries |-> 0]
  IN  /\ fetch = "none" /\ NewConn \in Conns64
      /\ tcb' = seg_send(b, "SYN")
      /\ gone' = Sent([gone EXCEPT ![b.n] = [peer |-> "remote", segs |-> {}]], b, "SYN")
      /\ fetch' = "connect" /\ hist64' = [short |-> FALSE, early |-> FALSE, sent |-> "none"]
      /\ UNCHANGED <<web64, handling, gate>>

(* tcp64_close: no FIN is repeated; the web server's state is not put back.  *)
tcp64_close(b) ==
  [b EXCEPT !.seq = IF b.state = "ESTABLISHED" THEN @ + 1 ELSE @, !.last = Unsent, !.state = "CLOSED"]
FetchReturns == tcb' = tcp64_close(tcb) /\ fetch' = "none" /\ UNCHANGED <<web64, handling, gate, gone>>

(* The loop of tcp64_connect has ended, by its state or by its deadline.     *)
ConnectEnds ==
  /\ fetch = "connect"
  /\ IF tcb.state = "ESTABLISHED"
       THEN /\ tcb' = [seg_send(tcb, "request") EXCEPT !.seq = @ + 1]         \* tcp64_send
            /\ gone' = Sent(gone, tcb, "request") /\ fetch' = "send"
            /\ UNCHANGED <<web64, handling, gate, hist64>>
       ELSE fetch' = "none" /\ UNCHANGED <<tcb, web64, handling, gate, gone, hist64>>

(* The loop of tcp64_send: nothing left to repeat means fully acked.         *)
SendResult(b) == IF b.last = Unsent THEN "ok" ELSE "failed"
SendEnds ==
  /\ fetch = "send" /\ hist64' = [hist64 EXCEPT !.sent = SendResult(tcb)]
  /\ IF SendResult(tcb) = "ok" THEN fetch' = "recv" /\ UNCHANGED <<tcb, web64, handling, gate, gone>>
     ELSE FetchReturns

(* tcp64_recv_wait: the FIN, or five seconds; tcp64_http_get_body copies.    *)
RecvEnds == fetch = "recv" /\ FetchReturns /\ UNCHANGED hist64

(* ---- the web server ------------------------------------------------------------- *)
tcp64_serve_start ==
  /\ fetch = "none" /\ ~web64.on
  /\ tcb' = [Untracked(tcb) EXCEPT !.lport = 80, !.state = "LISTEN"]
  /\ web64' = [on |-> TRUE, req |-> <<>>]
  /\ UNCHANGED <<fetch, handling, gate, gone, hist64>>

(* tcp64_server_pump: a complete request is given to the handler, whose      *)
(* script may fetch (tcp64_connect while handling).                            *)
tcp64_server_pump ==
  /\ fetch = "none" /\ ~handling /\ web64.on /\ tcb.state = "ESTABLISHED" /\ Len(web64.req) = T64Request
  /\ handling' = TRUE /\ UNCHANGED <<tcb, web64, fetch, gate, gone, hist64>>

(* srv_respond after the handler: answer and FIN to whatever the control     *)
(* block points to now, and back to listening on its port.  An answer longer *)
(* than a segment is not sent, but counted.                                  *)
srv_respond ==
  /\ handling /\ fetch = "none" /\ handling' = FALSE
  /\ tcb' = [Untracked(tcb) EXCEPT !.seq = @ + 2, !.state = "LISTEN"]
  /\ web64' = [web64 EXCEPT !.req = <<>>]
  /\ \E long \in BOOLEAN : gone' = Sent(IF long THEN gone ELSE Sent(gone, tcb, "answer"), tcb, "FIN")
  /\ UNCHANGED <<fetch, gate, hist64>>

(* ---- receiving ---------------------------------------------------------------------- *)
Seg(from, port, fl, seq, ack, data) ==
  [from |-> from, dport |-> port, fl |-> fl, seq |-> seq, ack |-> ack, data |-> data]
(* What the other side of a connection can send: any piece of a stream s,    *)
(* the last one with its FIN, its ACK as far as what left this machine.      *)
Piece(from, port, s, ack, i, j) ==
  {Seg(from, port, {"ACK"} \cup f, PeerIsn + i, ack, SubSeq(s, i, j)) :
     f \in IF j = Len(s) THEN {{}, {"FIN"}} ELSE {{}}}
Stream(from, port, s, ack) ==
  {Seg(from, port, {"ACK"}, PeerIsn + 1, ack, <<>>)}
  \cup UNION {UNION {Piece(from, port, s, ack, i, j) : j \in i - 1 .. Len(s)} : i \in 1 .. Len(s) + 1}
Inbound(n) ==
  LET o == gone[n] IN
  IF o.peer = "remote"
    THEN (IF "SYN" \in o.segs
            THEN {Seg("remote", n, {"SYN", "ACK"}, PeerIsn, Isn(n) + 1, <<>>),
                  Seg("remote", n, {"RST", "ACK"}, PeerIsn, Isn(n) + 1, <<>>),
                  Seg("remote", n, {"ACK"}, PeerIsn + 1, Isn(n) + 1, <<>>)} ELSE {})
         \cup (IF "request" \in o.segs THEN Stream("remote", n, Page, Isn(n) + 2) ELSE {})
  ELSE IF o.peer \in T64Clients /\ "SYNACK" \in o.segs
    THEN {Seg(o.peer, 80, {"RST"}, PeerIsn + 1, 0, <<>>)}
         \cup Stream(o.peer, 80, RequestOf(o.peer), Isn(n) + 1)
  ELSE {}
Arriving == (UNION {Inbound(n) : n \in Conns64})
            \cup {Seg(c, 80, {"SYN"}, PeerIsn, 0, <<>>) : c \in T64Clients}

(* seg_ack_from_peer: any progress is taken for the whole segment.           *)
seg_ack_from_peer(b, ack) ==
  IF ack > b.una THEN [b EXCEPT !.una = ack, !.last = Unsent, !.tries = 0] ELSE b

Fits64(b, g) == Len(b.rx) + Len(g.data) <= T64RxCap
(* Data is taken in order only; what does not fit is acknowledged all the    *)
(* same.  A FIN is taken whatever is missing before it.                      *)
InOrder_Any(b, g) == g.data # <<>> /\ b.state = "ESTABLISHED"              \* mutant
InOrder(b, g) == g.data # <<>> /\ b.state = "ESTABLISHED" /\ g.seq = b.rcv
Data64(b, g) ==
  IF InOrder(b, g)
    THEN [Untracked(b) EXCEPT !.rx = IF Fits64(b, g) THEN @ \o g.data ELSE @, !.rcv = @ + Len(g.data)]
    ELSE b
Fin64(b, g) ==
  IF "FIN" \in g.fl /\ (b.state = "ESTABLISHED" \/ g.seq + Len(g.data) = b.rcv)
    THEN [Untracked(b) EXCEPT !.rcv = g.seq + Len(g.data) + 1, !.fin = TRUE, !.state = "DONE"] ELSE b

Accept(g) ==                                      \* LISTEN
  LET b == [tcb EXCEPT !.peer = g.from, !.n = NewConn, !.rcv = g.seq + 1, !.seq = Isn(NewConn) + 1,
                     !.state = "SYN_RCVD", !.last = [kind |-> "SYNACK", seq |-> Isn(NewConn)]]
  IN  /\ tcb.state = "LISTEN" /\ g.dport = tcb.lport /\ g.fl = {"SYN"} /\ NewConn \in Conns64
      /\ tcb' = b /\ web64' = [web64 EXCEPT !.req = <<>>]
      /\ gone' = Sent([gone EXCEPT ![b.n] = [peer |-> g.from, segs |-> {}]], b, "SYNACK")
      /\ UNCHANGED <<fetch, handling, gate, hist64>>
Accepted(g) ==                                    \* SYN_RCVD: any ACK of the right number
  /\ tcb.state = "SYN_RCVD" /\ "ACK" \in g.fl /\ g.ack = tcb.seq
  /\ tcb' = [Untracked(tcb) EXCEPT !.state = "ESTABLISHED"]
  /\ UNCHANGED <<web64, fetch, handling, gate, gone, hist64>>
Mine(g) == g.dport = tcb.lport /\ g.from = tcb.peer
Opened64(g) ==                                    \* SYN_SENT
  /\ tcb.state = "SYN_SENT" /\ Mine(g) /\ g.fl = {"SYN", "ACK"} /\ g.ack = tcb.seq + 1
  /\ tcb' = [Untracked(tcb) EXCEPT !.seq = g.ack, !.rcv = g.seq + 1, !.state = "ESTABLISHED"]
  /\ UNCHANGED <<web64, fetch, handling, gate, gone, hist64>>
ResetBy(g) ==                                     \* for the web server, too, the end
  /\ tcb.state \notin {"CLOSED", "LISTEN", "SYN_RCVD"} /\ Mine(g) /\ "RST" \in g.fl
  /\ tcb' = [tcb EXCEPT !.state = "CLOSED"]
  /\ UNCHANGED <<web64, fetch, handling, gate, gone, hist64>>
Received(g) ==                                    \* ESTABLISHED, and DONE of a peer that goes on
  LET a == IF "ACK" \in g.fl THEN seg_ack_from_peer(tcb, g.ack) ELSE tcb
  IN  /\ tcb.state \in {"ESTABLISHED", "DONE"} /\ Mine(g) /\ "RST" \notin g.fl
      /\ tcb' = Fin64(Data64(a, g), g)
      /\ web64' = IF InOrder(a, g) /\ web64.on /\ Len(web64.req) + Len(g.data) <= T64SrvCap
                  THEN [web64 EXCEPT !.req = @ \o g.data] ELSE web64
      /\ hist64' = [hist64 EXCEPT
                   !.short = @ \/ (InOrder(a, g) /\ ~Fits64(a, g))
                               \/ (Fin64(a, g) # a /\ g.seq + Len(g.data) # Data64(a, g).rcv),
                   !.early = @ \/ (fetch = "send" /\ a.una # tcb.una /\ g.ack < tcb.seq)]
      /\ UNCHANGED <<fetch, handling, gate, gone>>

(* net64_poll takes what is there: in the shell's loop and in every wait.    *)
tcp64_rx == \E g \in Arriving : \/ Accept(g) \/ Accepted(g) \/ Opened64(g) \/ ResetBy(g) \/ Received(g)
net64_poll == (handling => fetch # "none") /\ tcp64_rx

(* net64_arp_resolve asks, at boot and by the ping command; the answer is    *)
(* taken by whichever poll sees it (arp_rx).                                 *)
net64_arp_resolve ==
  /\ fetch = "none" /\ ~handling /\ gate = "no" /\ gate' = "asked"
  /\ UNCHANGED <<tcb, web64, fetch, handling, gone, hist64>>
arp_rx ==
  /\ handling => fetch # "none"
  /\ gate = "asked" /\ gate' = "valid" /\ UNCHANGED <<tcb, web64, fetch, handling, gone, hist64>>

T64Next ==
  \/ tcp64_connect \/ ConnectEnds \/ SendEnds \/ RecvEnds \/ retransmit_check
  \/ tcp64_serve_start \/ tcp64_server_pump \/ srv_respond
  \/ net64_poll \/ net64_arp_resolve \/ arp_rx

-----------------------------------------------------------------------------
(* The buffers keep to their sizes, a segment is repeated at most            *)
(* T64Retries times, and only a connection the machine opened is waited for. *)
T64TypeOK ==
  /\ Len(tcb.rx) <= T64RxCap /\ Len(web64.req) <= T64SrvCap /\ tcb.tries <= T64Retries
  /\ tcb.state \in {"CLOSED", "SYN_SENT", "ESTABLISHED", "DONE", "LISTEN", "SYN_RCVD"}
  /\ fetch # "none" => tcb.peer = "remote" /\ tcb.lport = tcb.n

(* What tcp64_http_get has read is the beginning of the page, however the    *)
(* network repeats and reorders, as long as every piece fitted; after the    *)
(* FIN it is the page, unless the FIN overtook some of it.                   *)
Page64IsPrefix ==
  fetch # "none" /\ ~hist64.short => IsPrefix(tcb.rx, Page) /\ (tcb.fin => tcb.rx = Page)

(* The request the web server collects is the beginning of what the client   *)
(* it is connected to has sent, of no other client and of no fetch before.   *)
Request64OneClient ==
  tcb.state = "ESTABLISHED" /\ tcb.peer \in T64Clients => IsPrefix(web64.req, RequestOf(tcb.peer))

(* A tcp64_send that returned 0 ("fully acked") was acknowledged, unless the *)
(* ACK of the SYN came once more and was taken for it (seg_ack_from_peer).   *)
Send64Honest ==
  hist64.sent = "ok" /\ fetch = "recv" /\ ~hist64.early => tcb.una = tcb.seq

(* "return 0; fully acked" (tcp64_send) without the exception.               *)
Send64Acked == hist64.sent = "ok" /\ fetch = "recv" => tcb.una = tcb.seq

(* "web server co-running on :80" (kernel64.c): once started, the server is  *)
(* listening or serving whenever the machine fetches nothing itself.         *)
Server64Stays ==
  web64.on /\ fetch = "none" /\ ~handling =>
    tcb.lport = 80 /\ tcb.state \in {"LISTEN", "SYN_RCVD", "ESTABLISHED"}
=============================================================================
