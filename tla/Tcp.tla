-------------------------------- MODULE Tcp --------------------------------
(***************************************************************************)
(* The TCP layer (src/tcp.c): a pool of control blocks (pcbs) shared by the *)
(* listeners, the connections they accept and the connections the shell     *)
(* opens, against remote endpoints over a network that loses, duplicates    *)
(* and reorders segments.                                                   *)
(*                                                                          *)
(* tcp_input, tcp_tick and what they call run inside the timer interrupt,   *)
(* one segment or pcb at a time.  The other calls are made by the shell or  *)
(* by programs; each one is a step here, except opening a connection, where *)
(* tcp_get_free_pcb and tcp_connect are two: the pcb is not marked in       *)
(* between.                                                                 *)
(*                                                                          *)
(* A remote endpoint is a plain TCP.  The network is what it has sent so    *)
(* far: any of it may arrive at any time, again, late or never.  A peer     *)
(* stands for one connection attempt (addresses and ports); segments of an  *)
(* earlier attempt with the same ports are not modelled.                    *)
(*                                                                          *)
(* Time is abstracted: a timeout of tcp_tick may pass at any moment.        *)
(***************************************************************************)
EXTENDS Integers, Sequences

CONSTANTS
  Pcbs,        \* the pool, tcp_pcbs[TCP_MAX_PCBS]
  Listens,     \* the pcbs that listen, each mapped to its port
  Clients,     \* remote endpoints that connect to AJOS
  Servers,     \* remote endpoints AJOS connects to
  PortOf,      \* the port each client connects to
  SeqMod,      \* size of the sequence number space, 2^32 in the code
  AcceptIsn,   \* initial sequence number of accepted connections
  ConnectIsn,  \* and of opened ones
  PeerIsn,     \* initial sequence number of the peers
  RxMax,       \* TCP_APP_RX_MAX
  MSS,         \* TCP_MSS
  RtxDataMax,  \* TCP_RTX_DATA_MAX
  RtxMax,      \* TCP_RTX_MAX
  PeerBuf,     \* receive buffer of a peer
  Sizes,       \* bound: lengths of a write
  MaxIn,       \* bound: bytes each peer sends
  MaxOut       \* bound: bytes written to the connection with each peer

Peers == Clients \cup Servers
None == "none"

ASSUME TcpAssumption ==
  /\ SeqMod \in Nat \ {0} /\ RxMax \in Nat \ {0} /\ RxMax <= 65535
  /\ MSS \in Nat \ {0} /\ {RtxDataMax, RtxMax, PeerBuf} \subseteq Nat
  /\ {MaxIn, MaxOut} \subseteq [Peers -> Nat]
  /\ {AcceptIsn, ConnectIsn, PeerIsn} \subseteq 0 .. SeqMod - 1
  /\ None \notin Peers /\ Clients \cap Servers = {}
  /\ DOMAIN Listens \subseteq Pcbs /\ Listens \in [DOMAIN Listens -> {"ssh", "app"}]
  /\ PortOf \in [Clients -> {"ssh", "app"}] /\ Sizes \subseteq Nat

VARIABLES
  pcb,    \* the pool
  taken,  \* the pcb tcp_get_free_pcb has handed to the shell, None if none
  got,    \* history: bytes each pcb's connection handed to its reader
  wrote,  \* history: bytes written to each pcb's connection
  peer    \* the remote endpoints and what they have put on the network

vars == <<pcb, taken, got, wrote, peer>>

Add(a, n) == (a + n) % SeqMod
Sub(a, b) == (a - b) % SeqMod
Seqs == 0 .. SeqMod - 1
SmallerOf(a, b) == IF a < b THEN a ELSE b
LargerOf(a, b) == IF a < b THEN b ELSE a

-----------------------------------------------------------------------------
(* The pool *)

Untracked == [flags |-> {}, seq |-> 0, data |-> <<>>, count |-> 0]

tcp_init ==
  [state |-> "CLOSED", port |-> "app", remote |-> None, snd_nxt |-> 0, snd_una |-> 0,
   rcv_nxt |-> 0, peer_wnd |-> PeerBuf, last_tx |-> Untracked, rx |-> <<>>]

Closing == {"CLOSE_WAIT", "LAST_ACK"}

(* What the reaper and the reclaiming of a closing pcb leave. *)
Released(c) == [c EXCEPT !.state = "CLOSED", !.last_tx.flags = {}, !.last_tx.data = <<>>,
                         !.rx = <<>>]

(* tcp_get_free_pcb: a CLOSED pcb (the first one in the code, any one      *)
(* here), else one in a closing state (the oldest in the code).            *)
FreePcbs ==
  LET closed == {i \in Pcbs : pcb[i].state = "CLOSED"}
  IN IF closed # {} THEN closed ELSE {i \in Pcbs : pcb[i].state \in Closing}

tcp_get_free_pcb(i) == IF pcb[i].state = "CLOSED" THEN pcb[i] ELSE Released(pcb[i])

(* tcp_find_pcb: the connection with this peer, else a listener of its port. *)
tcp_find_pcb_ListenerFirst(q) ==   \* mutant: a listener hides the connection
  LET listeners == {i \in Pcbs : /\ pcb[i].state = "LISTEN" /\ q \in Clients
                                 /\ pcb[i].port = PortOf[q]}
  IN IF listeners # {} THEN listeners
     ELSE {i \in Pcbs : pcb[i].state # "CLOSED" /\ pcb[i].remote = q}

tcp_find_pcb(q) ==
  LET exact == {i \in Pcbs : pcb[i].state # "CLOSED" /\ pcb[i].remote = q}
  IN IF exact # {} THEN exact
     ELSE {i \in Pcbs : /\ pcb[i].state = "LISTEN" /\ q \in Clients
                        /\ pcb[i].port = PortOf[q]}

-----------------------------------------------------------------------------
(* Output *)

(* The window AJOS advertises: the free space of app_rx_buf. *)
Window_Fixed(c) == RxMax     \* mutant: a constant window
Window(c) == RxMax - Len(c.rx)

(* The peer of c learns, if the segment arrives, that it may send up to    *)
(* this byte of its stream.                                                *)
RightEdge(c) ==
  (IF c.state = "SYN_SENT" THEN 0 ELSE Sub(c.rcv_nxt, Add(PeerIsn, 1))) + Window(c)

Reaches(c, segs) ==
  [peer EXCEPT ![c.remote].edge = LargerOf(@, RightEdge(c)), ![c.remote].wire = @ \cup segs]

tcp_send_ack(c, ok) == IF ok THEN Reaches(c, {}) ELSE peer

Seg(flags, seq, data) == [flags |-> flags, seq |-> seq, data |-> data]

(* Whether the peer's window takes n more bytes. *)
CanSend(c, n) ==
  LET flight == Sub(c.snd_nxt, c.snd_una)
  IN n <= (IF flight < c.peer_wnd THEN c.peer_wnd - flight ELSE 0)

tcp_track_tx_AnyLength(c, flags, seq, data) ==   \* mutant: overruns last_tx_data
  [c EXCEPT !.last_tx = [flags |-> flags, seq |-> seq, count |-> 0, data |-> data]]

tcp_track_tx(c, flags, seq, data) ==
  [c EXCEPT !.last_tx = [flags |-> flags, seq |-> seq, count |-> 0,
                         data |-> IF Len(data) <= RtxDataMax THEN data ELSE <<>>]]

(* A SYN or FIN that was handed to IP: snd_nxt moves, the segment is tracked. *)
Control(c, flags) ==
  tcp_track_tx([c EXCEPT !.snd_nxt = Add(@, 1)], flags, c.snd_nxt, <<>>)

(* tcp_close, of a pcb that is ESTABLISHED or CLOSE_WAIT; ok: IP took the FIN. *)
tcp_close(c, ok) ==
  IF ok THEN [Control(c, {"FIN", "ACK"}) EXCEPT !.snd_una = c.snd_nxt, !.state = "LAST_ACK"]
  ELSE c

FinSeg(c) == Seg({"FIN", "ACK"}, c.snd_nxt, <<>>)

-----------------------------------------------------------------------------
(* The remote endpoints (not part of AJOS) *)

NewPeer == [st |-> "idle", sent |-> 0, fin |-> FALSE, rst |-> FALSE, rcv |-> 0,
            unread |-> 0, acks |-> {}, edge |-> 0, wire |-> {}]

(* A peer acknowledges all it has and advertises the room it has left. *)
Acking(P) == [P EXCEPT !.acks = @ \cup {<<P.rcv, PeerBuf - P.unread>>}]

PeerSyn(q) ==
  /\ q \in Clients /\ peer[q].st = "idle"
  /\ peer' = [peer EXCEPT ![q].st = "syn"]
  /\ UNCHANGED <<pcb, taken, got, wrote>>

PeerOpens(q, s) ==
  /\ "SYN" \in s.flags
  /\ peer[q].st = IF q \in Clients THEN "syn" ELSE "idle"
  /\ peer' = [peer EXCEPT ![q] = Acking([@ EXCEPT !.st = "open", !.rcv = Add(s.seq, 1)])]

PeerTakes(q, s) ==
  /\ peer[q].st = "open" /\ "SYN" \notin s.flags
  /\ LET P == peer[q]
         behind == Sub(P.rcv, s.seq)
         new == Len(s.data) - behind
     IN /\ behind < MaxOut[q] + 2
        /\ \/ /\ new > 0 /\ P.unread + new <= PeerBuf
              /\ peer' = [peer EXCEPT ![q] =
                   Acking([P EXCEPT !.rcv = Add(P.rcv, new), !.unread = P.unread + new])]
           \/ /\ "FIN" \in s.flags /\ behind = 0
              /\ peer' = [peer EXCEPT ![q] = Acking([P EXCEPT !.rcv = Add(P.rcv, 1)])]

PeerRecv(q) ==
  /\ \E s \in peer[q].wire : PeerOpens(q, s) \/ PeerTakes(q, s)
  /\ UNCHANGED <<pcb, taken, got, wrote>>

PeerRead(q) ==
  /\ peer[q].unread > 0
  /\ peer' = [peer EXCEPT ![q] = Acking([@ EXCEPT !.unread = 0])]
  /\ UNCHANGED <<pcb, taken, got, wrote>>

PeerSend(q) ==
  /\ peer[q].st = "open" /\ ~peer[q].fin /\ ~peer[q].rst
  /\ peer[q].sent < SmallerOf(MaxIn[q], peer[q].edge)
  /\ peer' = [peer EXCEPT ![q].sent = @ + 1]
  /\ UNCHANGED <<pcb, taken, got, wrote>>

PeerEnd(q) ==
  /\ peer[q].st = "open" /\ ~peer[q].fin /\ ~peer[q].rst
  /\ \/ peer' = [peer EXCEPT ![q].fin = TRUE]
     \/ peer' = [peer EXCEPT ![q].rst = TRUE]
  /\ UNCHANGED <<pcb, taken, got, wrote>>

(* The segments of q the network may deliver.  Byte i of its stream has    *)
(* sequence number PeerIsn + i; a segment carries the bytes i+1 .. j.      *)
Segments(q) ==
  LET P == peer[q]
      In(flags, seq, data, a) ==
        [flags |-> flags, seq |-> seq, data |-> data, ack |-> a[1], wnd |-> a[2]]
      Piece(i, j, fin, a) == In({"ACK"} \cup fin, Add(PeerIsn, i + 1),
                                [k \in 1 .. j - i |-> i + k], a)
      When(cond, set) == IF cond THEN set ELSE {}
  IN UNION {
       When(P.st = "syn", {In({"SYN"}, PeerIsn, <<>>, <<0, PeerBuf>>)}),
       When(q \in Servers, {In({"SYN", "ACK"}, PeerIsn, <<>>, a) :
                               a \in {b \in P.acks : b[1] = Add(ConnectIsn, 1)}}),
       UNION {{Piece(i, j, {}, a) : j \in i .. P.sent, a \in P.acks} : i \in 0 .. P.sent},
       When(P.fin, {Piece(i, P.sent, {"FIN"}, a) : i \in 0 .. P.sent, a \in P.acks}),
       When(P.rst, {In({"RST"} \cup f, Add(PeerIsn, P.sent + 1), <<>>, a) :
                      f \in {{}, {"ACK"}}, a \in P.acks})}

-----------------------------------------------------------------------------
(* Opening, writing, reading and closing, by the shell and by programs *)

Init ==
  /\ pcb = [i \in Pcbs |-> IF i \in DOMAIN Listens
                           THEN [tcp_init EXCEPT !.state = "LISTEN", !.port = Listens[i]]
                           ELSE tcp_init]
  /\ taken = None
  /\ got = [i \in Pcbs |-> <<>>]
  /\ wrote = [i \in Pcbs |-> 0]
  /\ peer = [q \in Peers |-> NewPeer]

(* Bound: one connection to each server. *)
Untried == {q \in Servers : peer[q] = NewPeer /\ \A i \in Pcbs : pcb[i].remote # q}

GetPcb(i) ==
  /\ taken = None /\ i \in FreePcbs /\ Untried # {}
  /\ pcb' = [pcb EXCEPT ![i] = tcp_get_free_pcb(i)]
  /\ taken' = i
  /\ UNCHANGED <<got, wrote, peer>>

(* tcp_connect to the server q; ok: IP took the SYN.  Nothing says that the *)
(* pcb is still the free one tcp_get_free_pcb returned.                     *)
Connecting(c, q) ==
  [c EXCEPT !.state = "SYN_SENT", !.port = "app", !.remote = q, !.snd_nxt = ConnectIsn,
            !.snd_una = ConnectIsn, !.rcv_nxt = 0, !.rx = <<>>, !.peer_wnd = PeerBuf]

tcp_connect(q, ok) ==
  /\ taken # None /\ q \in Untried
  /\ LET c == Connecting(pcb[taken], q)
     IN /\ pcb' = [pcb EXCEPT ![taken] = IF ok THEN Control(c, {"SYN"}) ELSE c]
        /\ peer' = IF ok THEN Reaches(c, {Seg({"SYN"}, c.snd_nxt, <<>>)}) ELSE peer
  /\ got' = [got EXCEPT ![taken] = <<>>]
  /\ wrote' = [wrote EXCEPT ![taken] = 0]
  /\ taken' = None

NewBytes(i, n) == [k \in 1 .. n |-> wrote[i] + k]

(* tcp_send cuts the write into segments and stops at the first one that   *)
(* the window or IP does not take; k of them are sent.                     *)
Chunk(data, k) == SubSeq(data, (k - 1) * MSS + 1, SmallerOf(k * MSS, Len(data)))

tcp_send(i, n, k) ==
  LET c == pcb[i]
      data == NewBytes(i, n)
      seq(m) == Add(c.snd_nxt, (m - 1) * MSS)
      size == SmallerOf(k * MSS, n)
  IN /\ c.state = "ESTABLISHED" /\ wrote[i] + n <= MaxOut[c.remote]
     /\ k * MSS < n + MSS /\ (size > 0 => CanSend(c, size))
     /\ wrote' = [wrote EXCEPT ![i] = @ + n]
     /\ IF k = 0 THEN UNCHANGED <<pcb, peer>>
        ELSE /\ pcb' = [pcb EXCEPT ![i] =
                   tcp_track_tx([c EXCEPT !.snd_nxt = Add(@, size)],
                                {"PSH", "ACK"}, seq(k), Chunk(data, k))]
             /\ peer' = Reaches(c, {Seg({"PSH", "ACK"}, seq(m), Chunk(data, m)) : m \in 1 .. k})
     /\ UNCHANGED <<taken, got>>

(* tcp_send_data sends one segment and tracks it even if it was not sent. *)
tcp_send_data(i, n, ok) ==
  LET c == pcb[i]
      data == NewBytes(i, n)
      sent == CanSend(c, n) /\ ok
      tracked == tcp_track_tx(c, {"PSH", "ACK"}, c.snd_nxt, data)
  IN /\ c.state = "ESTABLISHED" /\ wrote[i] + n <= MaxOut[c.remote]
     /\ wrote' = [wrote EXCEPT ![i] = @ + n]
     /\ pcb' = [pcb EXCEPT ![i] =
          IF sent THEN [tracked EXCEPT !.snd_nxt = Add(@, n)] ELSE tracked]
     /\ peer' = IF sent THEN Reaches(c, {Seg({"PSH", "ACK"}, c.snd_nxt, data)}) ELSE peer
     /\ UNCHANGED <<taken, got>>

(* A reader takes the first n bytes of app_rx_buf (recv, tls_read, http). *)
Recv(i, n) ==
  /\ n \in 1 .. Len(pcb[i].rx)
  /\ got' = [got EXCEPT ![i] = @ \o SubSeq(pcb[i].rx, 1, n)]
  /\ pcb' = [pcb EXCEPT ![i].rx = SubSeq(@, n + 1, Len(@))]
  /\ UNCHANGED <<taken, wrote, peer>>

tcp_announce_window(i) ==
  /\ pcb[i].state = "ESTABLISHED"
  /\ peer' = tcp_send_ack(pcb[i], TRUE)
  /\ UNCHANGED <<pcb, taken, got, wrote>>

Close(i) ==
  /\ pcb[i].state \in {"ESTABLISHED", "CLOSE_WAIT"}
  /\ pcb' = [pcb EXCEPT ![i] = tcp_close(@, TRUE)]
  /\ peer' = Reaches(pcb[i], {FinSeg(pcb[i])})
  /\ UNCHANGED <<taken, got, wrote>>

-----------------------------------------------------------------------------
(* tcp_tick *)

Reap(i) ==
  /\ \/ pcb[i].state = "ESTABLISHED" /\ pcb[i].port # "ssh"
     \/ pcb[i].state \in Closing
  /\ pcb' = [pcb EXCEPT ![i] = Released(@)]
  /\ UNCHANGED <<taken, got, wrote, peer>>

IsControl(flags) == flags \cap {"SYN", "FIN"} # {}

Outstanding(c) ==
  /\ c.last_tx.flags # {}
  /\ \/ c.snd_una < c.snd_nxt
     \/ /\ c.snd_nxt = c.last_tx.seq
        /\ c.last_tx.data # <<>> \/ IsControl(c.last_tx.flags)

GiveUp_KeepsLastAck(i) ==    \* mutant: only a handshake is closed
  /\ Outstanding(pcb[i]) /\ pcb[i].last_tx.count >= RtxMax
  /\ pcb' = [pcb EXCEPT
       ![i].last_tx.flags = {}, ![i].last_tx.data = <<>>,
       ![i].state = IF @ \in {"SYN_SENT", "SYN_RCVD"} THEN "CLOSED" ELSE @]
  /\ UNCHANGED <<taken, got, wrote, peer>>

GiveUp(i) ==
  /\ Outstanding(pcb[i]) /\ pcb[i].last_tx.count >= RtxMax
  /\ pcb' = [pcb EXCEPT
       ![i].last_tx.flags = {}, ![i].last_tx.data = <<>>,
       ![i].state = IF @ \in {"SYN_SENT", "SYN_RCVD", "LAST_ACK"} THEN "CLOSED" ELSE @]
  /\ UNCHANGED <<taken, got, wrote, peer>>

(* Sequence space a retransmission adds when the first try was not sent. *)
Bump_None(c) == 0            \* mutant: forgets that snd_nxt was left behind
Bump(c) == IF c.snd_nxt # c.last_tx.seq THEN 0
           ELSE IF IsControl(c.last_tx.flags) THEN 1 ELSE Len(c.last_tx.data)

Retransmit(i, ok) ==
  LET c == pcb[i]
  IN /\ Outstanding(c) /\ c.last_tx.count < RtxMax
     /\ pcb' = [pcb EXCEPT ![i].last_tx.count = @ + 1,
                           ![i].snd_nxt = IF ok THEN Add(@, Bump(c)) ELSE @]
     /\ peer' = IF ok THEN Reaches(c, {Seg(c.last_tx.flags, c.last_tx.seq, c.last_tx.data)})
                 ELSE peer
     /\ UNCHANGED <<taken, got, wrote>>

-----------------------------------------------------------------------------
(* tcp_input: segment s arrives and belongs to pcb i *)

(* A SYN for a listener takes a pcb for the new connection; ok: IP took     *)
(* the SYN|ACK.                                                             *)
Accepting(c, q, s) ==
  [c EXCEPT !.port = PortOf[q], !.remote = q, !.rcv_nxt = Add(s.seq, 1),
            !.snd_nxt = AcceptIsn, !.snd_una = AcceptIsn, !.state = "SYN_RCVD",
            !.rx = <<>>, !.peer_wnd = PeerBuf]

InputListen(i, q, s, j, ok) ==
  /\ pcb[i].state = "LISTEN" /\ "SYN" \in s.flags /\ j \in FreePcbs
  /\ LET c == Accepting(tcp_get_free_pcb(j), q, s)
     IN /\ pcb' = [pcb EXCEPT ![j] = IF ok THEN Control(c, {"SYN", "ACK"})
                                     ELSE [c EXCEPT !.state = "CLOSED"]]
        /\ peer' = IF ok THEN Reaches(c, {Seg({"SYN", "ACK"}, c.snd_nxt, <<>>)}) ELSE peer
  /\ got' = [got EXCEPT ![j] = <<>>]
  /\ wrote' = [wrote EXCEPT ![j] = 0]

Established(c, s) ==
  [c EXCEPT !.state = "ESTABLISHED", !.snd_una = s.ack, !.peer_wnd = s.wnd,
            !.last_tx.flags = {}, !.last_tx.data = <<>>]

InputSynSent(i, s, ok) ==
  /\ pcb[i].state = "SYN_SENT"
  /\ \/ /\ {"SYN", "ACK"} \subseteq s.flags /\ s.ack = pcb[i].snd_nxt
        /\ pcb' = [pcb EXCEPT ![i] = [Established(@, s) EXCEPT !.rcv_nxt = Add(s.seq, 1)]]
        /\ peer' = tcp_send_ack(pcb'[i], ok)
     \/ /\ ~({"SYN", "ACK"} \subseteq s.flags) /\ "RST" \in s.flags
        /\ pcb' = [pcb EXCEPT ![i].state = "CLOSED"]
        /\ UNCHANGED peer
  /\ UNCHANGED <<got, wrote>>

(* Payload that is in order is passed on: to the SSH layer at once, else to *)
(* app_rx_buf as far as it fits; rcv_nxt moves over all of it.              *)
InOrder(c, s) == s.seq = c.rcv_nxt

Accepted(c, s) ==
  LET room == SmallerOf(RxMax - Len(c.rx), Len(s.data))
  IN [c EXCEPT !.rcv_nxt = Add(@, Len(s.data)),
               !.rx = IF c.port = "ssh" THEN @ ELSE @ \o SubSeq(s.data, 1, room)]

PassedOn(i, s) ==
  got' = IF pcb[i].port = "ssh" THEN [got EXCEPT ![i] = @ \o s.data] ELSE got

InputSynRcvd(i, s, ok) ==
  /\ pcb[i].state = "SYN_RCVD"
  /\ \/ /\ "ACK" \in s.flags /\ s.ack = pcb[i].snd_nxt
        /\ LET c == Established(pcb[i], s)
           IN IF s.data # <<>> /\ InOrder(c, s)
              THEN /\ pcb' = [pcb EXCEPT ![i] = Accepted(c, s)]
                   /\ PassedOn(i, s)
                   /\ peer' = tcp_send_ack(pcb'[i], ok)
              ELSE pcb' = [pcb EXCEPT ![i] = c] /\ UNCHANGED <<got, peer>>
     \/ /\ "ACK" \notin s.flags /\ "RST" \in s.flags
        /\ pcb' = [pcb EXCEPT ![i].state = "CLOSED"]
        /\ UNCHANGED <<got, peer>>
  /\ UNCHANGED wrote

InputReset(i, s) ==
  /\ pcb[i].state = "ESTABLISHED" /\ "RST" \in s.flags
  /\ pcb' = [pcb EXCEPT ![i].state = "CLOSED",
                        ![i].last_tx.flags = {}, ![i].last_tx.data = <<>>]
  /\ UNCHANGED <<got, wrote, peer>>

(* The end of the tracked segment; a segment too long to be kept counts as empty. *)
TrackedEnd(c) ==
  Add(c.last_tx.seq, IF IsControl(c.last_tx.flags) THEN 1 ELSE Len(c.last_tx.data))

Acknowledged(c, s) ==
  IF "ACK" \notin s.flags THEN [c EXCEPT !.peer_wnd = s.wnd]
  ELSE LET covered == c.last_tx.flags # {} /\ s.ack >= TrackedEnd(c)
       IN [c EXCEPT !.snd_una = LargerOf(@, s.ack), !.peer_wnd = s.wnd,
                    !.last_tx = IF covered THEN [@ EXCEPT !.flags = {}, !.data = <<>>,
                                                          !.count = 0]
                                ELSE @]

(* A FIN: acknowledged, then AJOS closes too (tcp_input does for every port *)
(* but 22, ssh_handle_connection_close for that one); ok: IP took our FIN.  *)
InputFin(i, s, ok) ==
  /\ pcb[i].state = "ESTABLISHED" /\ "FIN" \in s.flags /\ "RST" \notin s.flags
  /\ LET c == [Acknowledged(pcb[i], s) EXCEPT !.rcv_nxt = Add(s.seq, 1),
                                              !.state = "CLOSE_WAIT"]
     IN /\ pcb' = [pcb EXCEPT ![i] = tcp_close(c, ok)]
        /\ peer' = IF ok THEN Reaches(c, {FinSeg(c)}) ELSE peer
  /\ UNCHANGED <<got, wrote>>

InputData(i, s, ok) ==
  /\ pcb[i].state = "ESTABLISHED" /\ s.flags \cap {"FIN", "RST"} = {}
  /\ LET c == Acknowledged(pcb[i], s)
         new == s.data # <<>> /\ InOrder(c, s)
     IN /\ pcb' = [pcb EXCEPT ![i] = IF new THEN Accepted(c, s) ELSE c]
        /\ IF new THEN PassedOn(i, s) ELSE UNCHANGED got
        /\ peer' = IF s.data = <<>> THEN peer ELSE tcp_send_ack(pcb'[i], ok)
  /\ UNCHANGED wrote

InputLastAck(i, s) ==
  /\ pcb[i].state = "LAST_ACK" /\ "ACK" \in s.flags
  /\ pcb' = [pcb EXCEPT ![i].state = "CLOSED",
                        ![i].last_tx.flags = {}, ![i].last_tx.data = <<>>]
  /\ UNCHANGED <<got, wrote, peer>>

(* A segment for a pcb in CLOSE_WAIT, and any other these conditions do not *)
(* name, only moves state_tick.                                             *)
tcp_input(q) ==
  /\ \E s \in Segments(q), ok \in BOOLEAN : \E i \in tcp_find_pcb(q) :
       \/ \E j \in Pcbs : InputListen(i, q, s, j, ok)
       \/ InputSynSent(i, s, ok)
       \/ InputSynRcvd(i, s, ok)
       \/ InputReset(i, s)
       \/ InputFin(i, s, ok)
       \/ InputData(i, s, ok)
       \/ InputLastAck(i, s)
  /\ UNCHANGED taken

-----------------------------------------------------------------------------
Applications(i) ==
  \/ GetPcb(i)
  \/ \E n \in Sizes : \/ \E k \in 0 .. n : tcp_send(i, n, k)
                            \/ \E ok \in BOOLEAN : tcp_send_data(i, n, ok)
  \/ \E n \in 1 .. RxMax : Recv(i, n)
  \/ tcp_announce_window(i)
  \/ Close(i)

tcp_tick(i) == Reap(i) \/ GiveUp(i) \/ \E ok \in BOOLEAN : Retransmit(i, ok)

PeerStep(q) == PeerSyn(q) \/ PeerRecv(q) \/ PeerRead(q) \/ PeerSend(q) \/ PeerEnd(q)

Next ==
  \/ \E i \in Pcbs : Applications(i) \/ tcp_tick(i)
  \/ \E q \in Servers, ok \in BOOLEAN : tcp_connect(q, ok)
  \/ \E q \in Peers : tcp_input(q) \/ PeerStep(q)

Spec == Init /\ [][Next]_vars

(* The timer interrupt keeps calling tcp_tick: a segment that stays         *)
(* outstanding is retransmitted, and given up in the end.                   *)
FairSpec ==
  Spec /\ \A i \in Pcbs : WF_vars(GiveUp(i) \/ \E ok \in BOOLEAN : Retransmit(i, ok))

-----------------------------------------------------------------------------
(* Properties *)

Live == {"SYN_SENT", "SYN_RCVD", "ESTABLISHED"} \cup Closing

(* Every variable has its type; app_rx_buf and last_tx_data keep to their   *)
(* sizes.                                                                   *)
TypeOK ==
  /\ taken \in Pcbs \cup {None}
  /\ \A i \in Pcbs :
       /\ pcb[i].state \in {"CLOSED", "LISTEN"} \cup Live
       /\ pcb[i].remote \in Peers \cup {None}
       /\ {pcb[i].snd_nxt, pcb[i].snd_una, pcb[i].rcv_nxt} \subseteq Seqs
       /\ Len(pcb[i].rx) <= RxMax
       /\ pcb[i].last_tx.count <= RtxMax
       /\ pcb[i].last_tx.flags = {} => pcb[i].last_tx.data = <<>>
       /\ Len(pcb[i].last_tx.data) <= RtxDataMax

(* The stream an open connection hands to its reader is the peer's stream   *)
(* from its first byte, without a hole, and it is all that rcv_nxt          *)
(* acknowledges: no byte was dropped because app_rx_buf was full.           *)
ReceivedIsPrefix ==
  \A i \in Pcbs : pcb[i].state = "ESTABLISHED" =>
    got[i] \o pcb[i].rx = [k \in 1 .. Sub(pcb[i].rcv_nxt, Add(PeerIsn, 1)) |-> k]

(* What a retransmission puts on the wire never contradicts what is there:  *)
(* two segments of a connection that cover a sequence number carry the same *)
(* byte for it.                                                             *)
WireConsistent ==
  \A q \in Peers : \A s, t \in peer[q].wire :
    \A a \in DOMAIN s.data, b \in DOMAIN t.data :
      Add(s.seq, a) = Add(t.seq, b) => s.data[a] = t.data[b]

(* The peer of an open connection never has more than snd_nxt says was      *)
(* sent, and snd_una is never ahead of the peer.                            *)
SendSpaceRight ==
  \A i \in Pcbs : pcb[i].state = "ESTABLISHED" =>
    LET isn == IF pcb[i].remote \in Servers THEN ConnectIsn ELSE AcceptIsn
        at(n) == Sub(n, isn)
    IN at(pcb[i].snd_una) <= at(peer[pcb[i].remote].rcv)
       /\ at(peer[pcb[i].remote].rcv) <= at(pcb[i].snd_nxt)

(* A connection has one pcb: a repeated SYN finds the pcb of the first.     *)
OnePcbEach ==
  \A i, j \in Pcbs :
    ({pcb[i].state, pcb[j].state} \subseteq Live /\ pcb[i].remote = pcb[j].remote) => i = j

(* A connection that waits for the end of its handshake or for the last ACK *)
(* does not keep its pcb for ever, whatever the network loses.              *)
HalfOpenEnds ==
  \A i \in Pcbs : \A st \in {"SYN_RCVD", "LAST_ACK"} :
    pcb[i].state = st ~> pcb[i].state # st

(* A connection being opened is established, refused or given up: tcp_tick  *)
(* repeats the SYN and closes the pcb in the end.                           *)
OpeningEnds ==
  \A i \in Pcbs : pcb[i].state = "SYN_SENT" ~> pcb[i].state # "SYN_SENT"

(* Every byte of the peer's stream that AJOS acknowledges on a connection   *)
(* being closed was handed to the reader.                                   *)
ClosedIsDelivered ==
  \A i \in Pcbs : pcb[i].state \in Closing =>
    SmallerOf(Sub(pcb[i].rcv_nxt, Add(PeerIsn, 1)), peer[pcb[i].remote].sent)
      <= Len(got[i] \o pcb[i].rx)
=============================================================================
