----------------------------- MODULE TcpProofs -----------------------------
(***************************************************************************)
(* The receiving side of TCP, for every pool, every set of peers, every    *)
(* window and every sequence number a stream may start at: a connection    *)
(* has one pcb, and its reader gets the peer's bytes, each once and in     *)
(* order, whatever the network loses, repeats and reorders.                *)
(*                                                                         *)
(* Why no byte is dropped for want of room is the heart of it: a peer      *)
(* sends no further than an edge it was told, and every edge told on a     *)
(* connection is at most RxMax past what its reader has taken.  The edge a *)
(* peer knows outlives the pcb that told it, so a later pcb of the same    *)
(* peer is safe only because a peer that has heard more than the first     *)
(* window (that is, that is open) never asks for a connection again.       *)
(***************************************************************************)
EXTENDS Tcp, SequenceTheorems, TLAPS

Flags == {"SYN", "ACK", "FIN", "RST", "PSH"}
States == {"CLOSED", "LISTEN"} \cup Live

TrackType == [flags : SUBSET Flags, seq : Seqs, data : Seq(Nat), count : Nat]
SegType == [flags : SUBSET Flags, seq : Seqs, data : Seq(Nat)]

PcbType ==
  [state : States, port : {"ssh", "app"}, remote : Peers \cup {None},
   snd_nxt : Seqs, snd_una : Seqs, rcv_nxt : Seqs, peer_wnd : Int,
   last_tx : TrackType, rx : Seq(Nat)]

PeerType ==
  [st : {"idle", "syn", "open"}, sent : Nat, fin : BOOLEAN, rst : BOOLEAN, rcv : Seqs,
   unread : Nat, acks : SUBSET (Seqs \X Int), edge : Int, wire : SUBSET SegType]

PeersType == [Peers -> PeerType]

(* A pcb keeps to the sizes of its buffers. *)
PcbOK(c) ==
  /\ c \in PcbType
  /\ Len(c.rx) <= RxMax
  /\ c.last_tx.count <= RtxMax
  /\ c.last_tx.flags = {} => c.last_tx.data = <<>>
  /\ Len(c.last_tx.data) <= RtxDataMax

TypeInv ==
  /\ pcb \in [Pcbs -> PcbType] /\ \A i \in Pcbs : PcbOK(pcb[i])
  /\ taken \in Pcbs \cup {None}
  /\ got \in [Pcbs -> Seq(Nat)] /\ wrote \in [Pcbs -> Nat]
  /\ peer \in PeersType

(* The sequence number of a peer's first byte, and how far c is past it. *)
First == Add(PeerIsn, 1)
Offset(c) == Sub(c.rcv_nxt, First)

Upto(n) == [k \in 1 .. n |-> k]

(* A pcb that still speaks for a connection with its peer: a live one, or  *)
(* one whose SYN was refused and is still repeated by tcp_tick.            *)
Holds(c) ==
  \/ c.state \in Live
  \/ c.state = "CLOSED" /\ c.last_tx.flags # {} /\ c.remote \in Servers

(* Pcb c, whose reader has g, when P are the peers. *)
PcbRight(c, g, P) ==
  /\ c.state = "LISTEN" => c.remote = None /\ c.last_tx.flags = {}
  /\ c.state \in Live \/ c.last_tx.flags # {} => c.remote \in Peers
  /\ c.port = "ssh" => c.rx = <<>>
  /\ c.state \in {"SYN_SENT", "SYN_RCVD"} => g = <<>> /\ c.rx = <<>>
  /\ c.state = "SYN_SENT" => c.remote \in Servers
  /\ c.state = "SYN_RCVD" => c.remote \in Clients /\ c.rcv_nxt = First
  /\ c.state = "ESTABLISHED" => g \o c.rx = Upto(Offset(c))
  /\ c.state \in {"ESTABLISHED"} \cup Closing => P[c.remote].st = "open"
  /\ c.state = "CLOSED" /\ c.last_tx.flags # {} =>
       /\ c.rx = <<>>
       /\ c.remote \in Clients => c.rcv_nxt = First
       /\ c.remote \in Servers => P[c.remote].st = "open"
  /\ c.state \in Live \ Closing => P[c.remote].edge <= Len(g) + RxMax

(* Peer q sends within its bounds and within the edge it was told, and     *)
(* before its connection is open it has nothing to show.                   *)
PeerRight(q, p) ==
  /\ p.sent <= MaxIn[q] /\ p.sent <= p.edge
  /\ p.st # "open" => /\ p.acks = {} /\ p.unread = 0 /\ p.sent = 0
                      /\ ~p.fin /\ ~p.rst /\ p.edge <= RxMax

OneHolder(f) ==
  \A i, j \in Pcbs : Holds(f[i]) /\ Holds(f[j]) /\ f[i].remote = f[j].remote => i = j

Received ==
  /\ TypeInv
  /\ \A i \in Pcbs : PcbRight(pcb[i], got[i], peer)
  /\ \A q \in Peers : PeerRight(q, peer[q])
  /\ OneHolder(pcb)

-----------------------------------------------------------------------------
(* Sequence numbers *)

LEMMA ConstFacts ==
  /\ SeqMod \in Nat \ {0} /\ RxMax \in Nat \ {0} /\ MSS \in Nat \ {0}
  /\ RtxDataMax \in Nat /\ RtxMax \in Nat /\ PeerBuf \in Nat
  /\ MaxIn \in [Peers -> Nat] /\ MaxOut \in [Peers -> Nat]
  /\ None \notin Peers /\ Sizes \subseteq Nat
<1>1. SeqMod \in Nat \ {0} /\ RxMax \in Nat \ {0} /\ MSS \in Nat \ {0} /\ None \notin Peers /\ Sizes \subseteq Nat
  BY TcpAssumption
<1>2. /\ RtxDataMax \in Nat /\ RtxMax \in Nat /\ PeerBuf \in Nat
      /\ MaxIn \in [Peers -> Nat] /\ MaxOut \in [Peers -> Nat]
  BY TcpAssumption
<1> QED BY <1>1, <1>2

LEMMA NumFacts ==
  /\ SeqMod \in Nat \ {0} /\ RxMax \in Nat \ {0} /\ MSS \in Nat \ {0}
  /\ RtxDataMax \in Nat /\ RtxMax \in Nat /\ PeerBuf \in Nat
BY ConstFacts

LEMMA IsnFacts ==
  AcceptIsn \in Seqs /\ ConnectIsn \in Seqs /\ PeerIsn \in Seqs
BY TcpAssumption DEF Seqs

LEMMA SeqOps ==
  ASSUME NEW a \in Int, NEW n \in Int
  PROVE  Add(a, n) \in Seqs /\ Sub(a, n) \in Seqs
BY ConstFacts DEF Add, Sub, Seqs

LEMMA ModSmall ==
  ASSUME NEW M \in Nat \ {0}, NEW x \in Int, 0 <= x, x < M
  PROVE  x % M = x
OBVIOUS

LEMMA ModWrap ==
  ASSUME NEW M \in Nat \ {0}, NEW x \in Int, M <= x, x - M < M
  PROVE  x % M = x - M
OBVIOUS

LEMMA ModBorrow ==
  ASSUME NEW M \in Nat \ {0}, NEW x \in Int, -M <= x, x < 0
  PROVE  x % M = x + M
OBVIOUS

(* Counting on from a sequence number and back again. *)
LEMMA SubAdd ==
  ASSUME NEW a \in Seqs, NEW n \in Seqs
  PROVE  Sub(Add(a, n), a) = n
<1>0. /\ SeqMod \in Nat \ {0} /\ a \in Int /\ 0 <= a /\ a < SeqMod
      /\ n \in Int /\ 0 <= n /\ n < SeqMod
  BY ConstFacts DEF Seqs
<1>1. PICK x \in Int : x = a + n
  BY <1>0
<1>2. CASE x < SeqMod
  <2>1. x % SeqMod = x
    BY <1>0, <1>1, <1>2, ModSmall
  <2>2. x - a = n /\ n % SeqMod = n
    BY <1>0, <1>1, ModSmall
  <2> QED BY <1>1, <2>1, <2>2 DEF Add, Sub
<1>3. CASE SeqMod <= x
  <2>0. SeqMod \in Nat \ {0} /\ SeqMod <= x /\ x - SeqMod < SeqMod
    BY <1>0, <1>1, <1>3
  <2>1. x % SeqMod = x - SeqMod
    BY <2>0, ModWrap
  <2>2. PICK y \in Int : y = x - SeqMod - a
    BY <1>0
  <2>3. y % SeqMod = y + SeqMod
    BY <1>0, <1>1, <2>2, ModBorrow
  <2> QED BY <1>0, <1>1, <2>1, <2>2, <2>3 DEF Add, Sub
<1> QED BY <1>0, <1>2, <1>3

(* Adding in two parts. *)
LEMMA AddAdd ==
  ASSUME NEW a \in Seqs, NEW m \in Nat, NEW n \in Nat, m + n <= SeqMod
  PROVE  Add(Add(a, m), n) = Add(a, m + n)
<1>0. SeqMod \in Nat \ {0} /\ a \in Int /\ 0 <= a /\ a < SeqMod
  BY ConstFacts DEF Seqs
<1>1. PICK x \in Int : x = a + m
  BY <1>0
<1>2. PICK y \in Int : y = x + n
  BY <1>0
<1>3. a + (m + n) = y
  BY <1>0, <1>1, <1>2
<1>4. CASE x < SeqMod
  <2>1. x % SeqMod = x
    BY <1>0, <1>1, <1>4, ModSmall
  <2> QED BY <1>1, <1>2, <1>3, <2>1 DEF Add
<1>5. CASE SeqMod <= x
  <2>0. /\ SeqMod \in Nat \ {0} /\ SeqMod <= x /\ x - SeqMod < SeqMod
        /\ SeqMod <= y /\ y - SeqMod < SeqMod
    BY <1>0, <1>1, <1>2, <1>5
  <2>1. x % SeqMod = x - SeqMod
    BY <2>0, ModWrap
  <2>2. y % SeqMod = y - SeqMod
    BY <2>0, ModWrap
  <2>3. PICK z \in Int : z = y - SeqMod
    BY <1>0
  <2>4. z % SeqMod = z /\ x - SeqMod + n = z
    BY <1>0, <1>1, <1>2, <1>5, <2>3, ModSmall
  <2> QED BY <1>1, <1>2, <1>3, <2>1, <2>2, <2>3, <2>4 DEF Add
<1> QED BY <1>0, <1>4, <1>5

LEMMA FirstFacts ==
  First \in Seqs /\ RxMax \in Nat \ {0} /\ PeerIsn \in Seqs
<1>1. PeerIsn \in Seqs /\ PeerIsn \in Int
  BY IsnFacts DEF Seqs
<1> QED BY <1>1, ConstFacts, SeqOps DEF First

(* The byte after the first i of a stream. *)
LEMMA OffsetOf ==
  ASSUME NEW i \in Nat, i < SeqMod
  PROVE  /\ Add(PeerIsn, i + 1) = Add(First, i)
         /\ Sub(Add(First, i), First) = i
<1>1. i \in Seqs
  BY ConstFacts DEF Seqs
<1>2. Sub(Add(First, i), First) = i
  BY <1>1, FirstFacts, SubAdd
<1>3. Add(PeerIsn, i + 1) = Add(First, i)
  <2>1. Add(Add(PeerIsn, 1), i) = Add(PeerIsn, 1 + i)
    BY ConstFacts, FirstFacts, AddAdd
  <2> QED BY <2>1 DEF First
<1> QED BY <1>2, <1>3

-----------------------------------------------------------------------------
(* What the network delivers *)

(* The bytes i+1 .. j of a stream. *)
Bytes(i, j) == [k \in 1 .. j - i |-> i + k]

LEMMA BytesFacts ==
  ASSUME NEW i \in Nat, NEW j \in Nat, i <= j
  PROVE  Bytes(i, j) \in Seq(Nat) /\ Len(Bytes(i, j)) = j - i
<1>1. j - i \in Nat
  OBVIOUS
<1>2. PICK n \in Nat : n = j - i
  BY <1>1
<1>3. \A k \in 1 .. n : i + k \in Nat
  OBVIOUS
<1>4. [k \in 1 .. n |-> i + k] \in Seq(Nat) /\ Len([k \in 1 .. n |-> i + k]) = n
  BY <1>3, LenProperties, IsASeq
<1> QED BY <1>2, <1>4 DEF Bytes

LEMMA SegmentKinds ==
  ASSUME TypeInv, NEW q \in Peers, NEW s \in Segments(q)
  PROVE  \/ /\ peer[q].st = "syn" /\ s.flags = {"SYN"} /\ s.seq = PeerIsn
            /\ s.data = <<>> /\ s.ack = 0 /\ s.wnd = PeerBuf
         \/ \E a \in peer[q].acks :
              /\ s.ack = a[1] /\ s.wnd = a[2]
              /\ \/ /\ s.flags = {"SYN", "ACK"} /\ s.seq = PeerIsn /\ s.data = <<>>
                    /\ q \in Servers /\ s.ack = Add(ConnectIsn, 1)
                 \/ \E i \in 0 .. peer[q].sent : \E j \in i .. peer[q].sent :
                      /\ s.flags = {"ACK"} \/ s.flags = {"ACK", "FIN"}
                      /\ s.seq = Add(PeerIsn, i + 1) /\ s.data = Bytes(i, j)
                 \/ /\ s.flags = {"RST"} \/ s.flags = {"RST", "ACK"}
                    /\ s.seq = Add(PeerIsn, peer[q].sent + 1) /\ s.data = <<>>
<1> DEFINE P == peer[q]
           In(flags, seq, data, a) ==
             [flags |-> flags, seq |-> seq, data |-> data, ack |-> a[1], wnd |-> a[2]]
           Piece(i, j, fin, a) == In({"ACK"} \cup fin, Add(PeerIsn, i + 1),
                                     [k \in 1 .. j - i |-> i + k], a)
           When(cond, set) == IF cond THEN set ELSE {}
           A == {In({"SYN"}, PeerIsn, <<>>, <<0, PeerBuf>>)}
           B == {In({"SYN", "ACK"}, PeerIsn, <<>>, a) :
                   a \in {b \in P.acks : b[1] = Add(ConnectIsn, 1)}}
           C == UNION {{Piece(i, j, {}, a) : j \in i .. P.sent, a \in P.acks} :
                         i \in 0 .. P.sent}
           D == {Piece(i, P.sent, {"FIN"}, a) : i \in 0 .. P.sent, a \in P.acks}
           E == {In({"RST"} \cup f, Add(PeerIsn, P.sent + 1), <<>>, a) :
                   f \in {{}, {"ACK"}}, a \in P.acks}
<1>1. Segments(q) = UNION {When(P.st = "syn", A), When(q \in Servers, B), C,
                           When(P.fin, D), When(P.rst, E)}
  BY DEF Segments
<1> HIDE DEF A, B, C, D, E
<1>2. \/ P.st = "syn" /\ s \in A
      \/ q \in Servers /\ s \in B
      \/ s \in C
      \/ s \in D
      \/ s \in E
  BY <1>1
<1>3. CASE P.st = "syn" /\ s \in A
  BY <1>3 DEF A
<1>4. CASE q \in Servers /\ s \in B
  BY <1>4 DEF B
<1>5. CASE s \in C
  <2>1. PICK i \in 0 .. P.sent : s \in {Piece(i, j, {}, a) : j \in i .. P.sent, a \in P.acks}
    BY <1>5 DEF C
  <2>2. PICK j \in i .. P.sent, a \in P.acks : s = Piece(i, j, {}, a)
    BY <2>1
  <2>3. /\ s.flags = {"ACK"} /\ s.seq = Add(PeerIsn, i + 1) /\ s.data = Bytes(i, j)
        /\ s.ack = a[1] /\ s.wnd = a[2]
    BY <2>2 DEF Bytes
  <2> QED BY <2>3
<1>6. CASE s \in D
  <2>1. PICK i \in 0 .. P.sent, a \in P.acks : s = Piece(i, P.sent, {"FIN"}, a)
    BY <1>6 DEF D
  <2>2. /\ s.flags = {"ACK"} \cup {"FIN"} /\ s.seq = Add(PeerIsn, i + 1)
        /\ s.data = Bytes(i, P.sent) /\ s.ack = a[1] /\ s.wnd = a[2]
    BY <2>1 DEF Bytes
  <2>3. {"ACK"} \cup {"FIN"} = {"ACK", "FIN"}
    OBVIOUS
  <2>4. P.sent \in i .. P.sent
    BY DEF TypeInv, PeersType, PeerType
  <2> QED BY <2>2, <2>3, <2>4
<1>7. CASE s \in E
  <2>1. PICK f \in {{}, {"ACK"}}, a \in P.acks :
               s = In({"RST"} \cup f, Add(PeerIsn, P.sent + 1), <<>>, a)
    BY <1>7 DEF E
  <2>2. {"RST"} \cup f = {"RST"} \/ {"RST"} \cup f = {"RST", "ACK"}
    OBVIOUS
  <2> QED BY <2>1, <2>2
<1> QED BY <1>2, <1>3, <1>4, <1>5, <1>6, <1>7

(* Only a SYN may come from a peer whose connection is not open. *)
LEMMA SegmentFacts ==
  ASSUME Received, NEW q \in Peers, NEW s \in Segments(q)
  PROVE  /\ s.flags \subseteq Flags /\ s.seq \in Seqs /\ s.data \in Seq(Nat)
         /\ s.ack \in Seqs /\ s.wnd \in Int
         /\ s.flags = {"SYN"} \/ peer[q].st = "open"
         /\ "SYN" \in s.flags => s.seq = PeerIsn /\ s.data = <<>>
         /\ s.data # <<>> => \E i \in 0 .. peer[q].sent : \E j \in i .. peer[q].sent :
                               s.seq = Add(PeerIsn, i + 1) /\ s.data = Bytes(i, j)
<1>1. /\ peer[q] \in PeerType /\ PeerRight(q, peer[q]) /\ TypeInv
      /\ PeerIsn \in Seqs /\ 0 \in Seqs /\ PeerBuf \in Int
  BY ConstFacts, IsnFacts DEF Received, TypeInv, PeersType, Seqs
<1>2. /\ peer[q].sent \in Nat /\ peer[q].acks \subseteq Seqs \X Int
      /\ peer[q].st # "open" => peer[q].acks = {}
  BY <1>1 DEF PeerType, PeerRight
<1>3. <<>> \in Seq(Nat)
  OBVIOUS
<1>4. CASE /\ peer[q].st = "syn" /\ s.flags = {"SYN"} /\ s.seq = PeerIsn
           /\ s.data = <<>> /\ s.ack = 0 /\ s.wnd = PeerBuf
  BY <1>1, <1>3, <1>4 DEF Flags
<1>5. ASSUME NEW a \in peer[q].acks, s.ack = a[1], s.wnd = a[2],
             \/ /\ s.flags = {"SYN", "ACK"} /\ s.seq = PeerIsn /\ s.data = <<>>
             \/ \E i \in 0 .. peer[q].sent : \E j \in i .. peer[q].sent :
                  /\ s.flags = {"ACK"} \/ s.flags = {"ACK", "FIN"}
                  /\ s.seq = Add(PeerIsn, i + 1) /\ s.data = Bytes(i, j)
             \/ /\ s.flags = {"RST"} \/ s.flags = {"RST", "ACK"}
                /\ s.seq = Add(PeerIsn, peer[q].sent + 1) /\ s.data = <<>>
      PROVE  /\ s.flags \subseteq Flags /\ s.seq \in Seqs /\ s.data \in Seq(Nat)
             /\ s.ack \in Seqs /\ s.wnd \in Int /\ peer[q].st = "open"
             /\ "SYN" \in s.flags => s.seq = PeerIsn /\ s.data = <<>>
             /\ s.data # <<>> => \E i \in 0 .. peer[q].sent : \E j \in i .. peer[q].sent :
                                   s.seq = Add(PeerIsn, i + 1) /\ s.data = Bytes(i, j)
  <2>1. s.ack \in Seqs /\ s.wnd \in Int /\ peer[q].st = "open"
    BY <1>2, <1>5
  <2>2. CASE s.flags = {"SYN", "ACK"} /\ s.seq = PeerIsn /\ s.data = <<>>
    BY <1>1, <1>3, <2>1, <2>2 DEF Flags
  <2>3. CASE \E i \in 0 .. peer[q].sent : \E j \in i .. peer[q].sent :
               /\ s.flags = {"ACK"} \/ s.flags = {"ACK", "FIN"}
               /\ s.seq = Add(PeerIsn, i + 1) /\ s.data = Bytes(i, j)
    <3>1. PICK i \in 0 .. peer[q].sent, j \in 0 .. peer[q].sent :
               /\ j \in i .. peer[q].sent
               /\ s.flags = {"ACK"} \/ s.flags = {"ACK", "FIN"}
               /\ s.seq = Add(PeerIsn, i + 1) /\ s.data = Bytes(i, j)
      BY <1>2, <2>3
    <3>2. i \in Nat /\ j \in Nat /\ i <= j /\ PeerIsn \in Int /\ i + 1 \in Int
      BY <1>1, <1>2, <3>1 DEF Seqs
    <3>3. s.data \in Seq(Nat) /\ s.seq \in Seqs
      BY <3>1, <3>2, BytesFacts, SeqOps
    <3>4. "SYN" \notin s.flags /\ s.flags \subseteq Flags
      BY <3>1 DEF Flags
    <3> QED BY <2>1, <2>3, <3>3, <3>4
  <2>4. CASE /\ s.flags = {"RST"} \/ s.flags = {"RST", "ACK"}
             /\ s.seq = Add(PeerIsn, peer[q].sent + 1) /\ s.data = <<>>
    <3>1. "SYN" \notin s.flags /\ s.flags \subseteq Flags
      BY <2>4 DEF Flags
    <3>2. PeerIsn \in Int /\ peer[q].sent + 1 \in Int
      BY <1>1, <1>2 DEF Seqs
    <3>3. s.seq \in Seqs
      BY <2>4, <3>2, SeqOps
    <3> QED BY <1>3, <2>1, <2>4, <3>1, <3>3
  <2> QED BY <1>5, <2>2, <2>3, <2>4
<1> QED BY <1>1, <1>4, <1>5, SegmentKinds

-----------------------------------------------------------------------------
(* A step of one pcb *)

(* No pcb but i speaks for a connection with q. *)
Alone(i, q) == \A j \in Pcbs \ {i} : Holds(pcb[j]) => pcb[j].remote # q

(* P is what the peers know after a step of pcb i. *)
Told(P, i) ==
  /\ P \in PeersType
  /\ \A q \in Peers :
       /\ P[q].st = peer[q].st /\ P[q].sent = peer[q].sent /\ P[q].fin = peer[q].fin
       /\ P[q].rst = peer[q].rst /\ P[q].acks = peer[q].acks /\ P[q].unread = peer[q].unread
       /\ peer[q].edge <= P[q].edge
       /\ \/ P[q].edge <= LargerOf(peer[q].edge, RxMax)
          \/ peer[q].st = "open" /\ Alone(i, q)

LEMMA OthersRight ==
  ASSUME Received, NEW i \in Pcbs, NEW P, Told(P, i), NEW j \in Pcbs \ {i}
  PROVE  PcbRight(pcb[j], got[j], P)
<1>1. PICK c : c = pcb[j]
  OBVIOUS
<1>2. PICK g : g = got[j]
  OBVIOUS
<1>3. PcbRight(c, g, peer) /\ g \in Seq(Nat) /\ c \in PcbType
  BY <1>1, <1>2 DEF Received, TypeInv
<1>4. \A q \in Peers : P[q].st = peer[q].st
  BY DEF Told
<1>5. ASSUME c.state \in Live \ Closing PROVE P[c.remote].edge <= Len(g) + RxMax
  <2>1. c.remote \in Peers /\ peer[c.remote].edge <= Len(g) + RxMax /\ Len(g) \in Nat
    BY <1>3, <1>5 DEF PcbRight
  <2>2. Holds(c)
    BY <1>5 DEF Holds
  <2>3. ~Alone(i, c.remote)
    BY <1>1, <2>2 DEF Alone
  <2>4. P[c.remote].edge <= LargerOf(peer[c.remote].edge, RxMax)
    BY <2>1, <2>3 DEF Told
  <2>5. peer[c.remote].edge \in Int /\ P[c.remote].edge \in Int
    BY <2>1 DEF Received, TypeInv, PeersType, PeerType, Told
  <2> QED BY <2>1, <2>4, <2>5, ConstFacts DEF LargerOf
<1>6. c.state \in {"ESTABLISHED"} \cup Closing => P[c.remote].st = "open"
  BY <1>3, <1>4 DEF PcbRight, Live
<1>7. c.state = "CLOSED" /\ c.last_tx.flags # {} =>
       /\ c.rx = <<>>
       /\ c.remote \in Clients => c.rcv_nxt = First
       /\ c.remote \in Servers => P[c.remote].st = "open"
  BY <1>3, <1>4 DEF PcbRight
<1>8. PcbRight(c, g, P)
  BY <1>3, <1>5, <1>6, <1>7 DEF PcbRight
<1> QED BY <1>1, <1>2, <1>8

LEMMA PeersStayRight ==
  ASSUME Received, NEW i \in Pcbs, NEW P, Told(P, i), NEW q \in Peers
  PROVE  PeerRight(q, P[q])
<1>1. /\ PeerRight(q, peer[q]) /\ peer[q].edge \in Int /\ P[q].edge \in Int
      /\ peer[q].sent \in Nat
  BY DEF Received, TypeInv, PeersType, PeerType, Told
<1>2. P[q].sent <= MaxIn[q] /\ P[q].sent <= P[q].edge
  BY <1>1 DEF PeerRight, Told
<1>3. ASSUME P[q].st # "open" PROVE P[q].edge <= RxMax
  BY <1>1, <1>3, ConstFacts DEF PeerRight, Told, LargerOf
<1> QED BY <1>1, <1>2, <1>3 DEF PeerRight, Told

LEMMA StepKeeps ==
  ASSUME Received, NEW i \in Pcbs, NEW d, NEW g \in Seq(Nat), NEW P, Told(P, i),
         PcbOK(d), PcbRight(d, g, P), Holds(d) => Alone(i, d.remote),
         pcb' = [pcb EXCEPT ![i] = d], got' = [got EXCEPT ![i] = g], peer' = P,
         taken' \in Pcbs \cup {None}, wrote' \in [Pcbs -> Nat]
  PROVE  Received'
<1>1. /\ pcb \in [Pcbs -> PcbType] /\ got \in [Pcbs -> Seq(Nat)]
      /\ \A j \in Pcbs : PcbOK(pcb[j])
  BY DEF Received, TypeInv
<1>2. pcb'[i] = d /\ got'[i] = g /\ \A j \in Pcbs \ {i} : pcb'[j] = pcb[j] /\ got'[j] = got[j]
  BY <1>1
<1>3. TypeInv'
  <2>1. pcb' \in [Pcbs -> PcbType] /\ got' \in [Pcbs -> Seq(Nat)]
    BY <1>1 DEF PcbOK
  <2>2. \A j \in Pcbs : PcbOK(pcb'[j])
    BY <1>1, <1>2
  <2>3. peer' \in PeersType
    BY DEF Told
  <2> QED BY <2>1, <2>2, <2>3 DEF TypeInv
<1>4. \A j \in Pcbs : PcbRight(pcb'[j], got'[j], peer')
  BY <1>2, OthersRight
<1>5. \A q \in Peers : PeerRight(q, peer'[q])
  BY PeersStayRight
<1>6. OneHolder(pcb')
  <2>1. OneHolder(pcb)
    BY DEF Received
  <2>2. SUFFICES ASSUME NEW j \in Pcbs, NEW k \in Pcbs, Holds(pcb'[j]), Holds(pcb'[k]),
                        pcb'[j].remote = pcb'[k].remote
                 PROVE  j = k
    BY DEF OneHolder
  <2>3. CASE j # i /\ k # i
    BY <1>2, <2>1, <2>2, <2>3 DEF OneHolder
  <2>4. CASE j = i /\ k # i
    BY <1>2, <2>2, <2>4 DEF Alone
  <2>5. CASE j # i /\ k = i
    BY <1>2, <2>2, <2>5 DEF Alone
  <2> QED BY <2>3, <2>4, <2>5
<1> QED BY <1>3, <1>4, <1>5, <1>6 DEF Received

LEMMA NothingTold ==
  ASSUME Received, NEW i \in Pcbs
  PROVE  Told(peer, i)
<1>1. \A q \in Peers : peer[q].edge \in Int
  BY DEF Received, TypeInv, PeersType, PeerType
<1> QED BY <1>1, ConstFacts DEF Received, TypeInv, Told, LargerOf

LEMMA ReachTold ==
  ASSUME Received, NEW i \in Pcbs, NEW e, e.remote \in Peers, RightEdge(e) \in Int,
         NEW segs \in SUBSET SegType,
         RightEdge(e) <= RxMax \/ (peer[e.remote].st = "open" /\ Alone(i, e.remote))
  PROVE  /\ Told(Reaches(e, segs), i)
         /\ Reaches(e, segs)[e.remote].edge = LargerOf(peer[e.remote].edge, RightEdge(e))
<1>1. PICK r \in Peers : r = e.remote
  OBVIOUS
<1>2. PICK n \in Int : n = RightEdge(e)
  OBVIOUS
<1>3. peer \in PeersType /\ peer[r] \in PeerType
  BY DEF Received, TypeInv, PeersType
<1>4. PICK p : p = [peer[r] EXCEPT !.edge = LargerOf(@, n), !.wire = @ \cup segs]
  OBVIOUS
<1>5. /\ p \in PeerType /\ p.edge = LargerOf(peer[r].edge, n)
      /\ p.st = peer[r].st /\ p.sent = peer[r].sent /\ p.fin = peer[r].fin
      /\ p.rst = peer[r].rst /\ p.acks = peer[r].acks /\ p.unread = peer[r].unread
  BY <1>3, <1>4 DEF PeerType, LargerOf
<1>6. Reaches(e, segs) = [peer EXCEPT ![r] = p]
  BY <1>1, <1>2, <1>4 DEF Reaches
<1>7. /\ [peer EXCEPT ![r] = p] \in PeersType
      /\ [peer EXCEPT ![r] = p][r] = p
      /\ \A q \in Peers \ {r} : [peer EXCEPT ![r] = p][q] = peer[q]
  BY <1>3, <1>5 DEF PeersType
<1>8. \A q \in Peers : peer[q].edge \in Int
  BY DEF Received, TypeInv, PeersType, PeerType
<1>9. PICK Q : Q = [peer EXCEPT ![r] = p]
  OBVIOUS
<1>10. Told(Q, i)
  <2>1. ASSUME NEW q \in Peers \ {r}
        PROVE  /\ Q[q] = peer[q] /\ peer[q].edge <= Q[q].edge
               /\ Q[q].edge <= LargerOf(peer[q].edge, RxMax)
    BY <1>7, <1>8, <1>9, ConstFacts DEF LargerOf
  <2>2. /\ peer[r].edge <= Q[r].edge
        /\ \/ Q[r].edge <= LargerOf(peer[r].edge, RxMax)
           \/ peer[r].st = "open" /\ Alone(i, r)
    BY <1>1, <1>2, <1>5, <1>7, <1>8, <1>9, ConstFacts DEF LargerOf
  <2> QED BY <1>5, <1>7, <1>9, <2>1, <2>2 DEF Told
<1> QED BY <1>1, <1>2, <1>5, <1>6, <1>7, <1>9, <1>10

-----------------------------------------------------------------------------
(* What the operations make of a pcb *)

LEMMA ReleasedFields ==
  ASSUME NEW c, PcbOK(c), NEW d, d = Released(c)
  PROVE  /\ PcbOK(d) /\ d.state = "CLOSED" /\ d.last_tx.flags = {} /\ d.last_tx.data = <<>>
         /\ d.rx = <<>> /\ d.port = c.port /\ d.remote = c.remote /\ d.rcv_nxt = c.rcv_nxt
         /\ d.snd_nxt = c.snd_nxt /\ d.snd_una = c.snd_una
         /\ d.last_tx.seq = c.last_tx.seq
<1>1. /\ <<>> \in Seq(Nat) /\ Len(<<>>) = 0 /\ Len(<<>>) <= RxMax /\ Len(<<>>) <= RtxDataMax
      /\ "CLOSED" \in States
  BY NumFacts DEF States
<1>2. PICK tx : tx = [c.last_tx EXCEPT !.flags = {}, !.data = <<>>]
  OBVIOUS
<1>3. /\ tx \in TrackType /\ tx.flags = {} /\ tx.data = <<>> /\ tx.seq = c.last_tx.seq
      /\ tx.count = c.last_tx.count
  BY <1>1, <1>2 DEF PcbOK, PcbType, TrackType
<1>4. d = [c EXCEPT !.state = "CLOSED", !.last_tx = tx, !.rx = <<>>]
  BY <1>2 DEF Released, PcbOK, PcbType, TrackType
<1>5. /\ d \in PcbType /\ d.state = "CLOSED" /\ d.last_tx = tx
      /\ d.rx = <<>> /\ d.port = c.port /\ d.remote = c.remote /\ d.rcv_nxt = c.rcv_nxt
      /\ d.snd_nxt = c.snd_nxt /\ d.snd_una = c.snd_una
  BY <1>1, <1>3, <1>4 DEF PcbOK, PcbType
<1> QED BY <1>1, <1>3, <1>5 DEF PcbOK

LEMMA TrackFields ==
  ASSUME NEW c, PcbOK(c), NEW flags \in SUBSET Flags, flags # {}, NEW seq \in Seqs,
         NEW data \in Seq(Nat), NEW d, d = tcp_track_tx(c, flags, seq, data)
  PROVE  /\ PcbOK(d) /\ d.last_tx.flags = flags /\ d.last_tx.seq = seq
         /\ d.last_tx.data = data \/ d.last_tx.data = <<>>
         /\ d.state = c.state /\ d.rx = c.rx /\ d.port = c.port /\ d.remote = c.remote
         /\ d.rcv_nxt = c.rcv_nxt /\ d.snd_nxt = c.snd_nxt /\ d.snd_una = c.snd_una
<1>1. Len(<<>>) = 0 /\ <<>> \in Seq(Nat)
  OBVIOUS
<1>2. PICK kept : kept = IF Len(data) <= RtxDataMax THEN data ELSE <<>>
  OBVIOUS
<1>3. kept \in Seq(Nat) /\ Len(kept) <= RtxDataMax /\ (kept = data \/ kept = <<>>)
  BY <1>1, <1>2, NumFacts
<1>4. PICK tx : tx = [flags |-> flags, seq |-> seq, count |-> 0, data |-> kept]
  OBVIOUS
<1>5. /\ tx \in TrackType /\ tx.flags = flags /\ tx.seq = seq /\ tx.data = kept
      /\ tx.count <= RtxMax
  BY <1>3, <1>4, NumFacts DEF TrackType
<1>6. d = [c EXCEPT !.last_tx = tx]
  BY <1>2, <1>4 DEF tcp_track_tx
<1>7. d.last_tx = tx
  BY <1>6 DEF PcbOK, PcbType
<1>8. /\ d.state = c.state /\ d.rx = c.rx /\ d.port = c.port /\ d.remote = c.remote
      /\ d.rcv_nxt = c.rcv_nxt /\ d.snd_nxt = c.snd_nxt /\ d.snd_una = c.snd_una
      /\ d \in PcbType
  BY <1>5, <1>6 DEF PcbOK, PcbType
<1> QED BY <1>3, <1>5, <1>7, <1>8 DEF PcbOK

LEMMA ControlFields ==
  ASSUME NEW c, PcbOK(c), NEW flags \in SUBSET Flags, flags # {}, NEW d, d = Control(c, flags)
  PROVE  /\ PcbOK(d) /\ d.last_tx.flags = flags /\ d.last_tx.seq = c.snd_nxt
         /\ d.last_tx.data = <<>>
         /\ d.state = c.state /\ d.rx = c.rx /\ d.port = c.port /\ d.remote = c.remote
         /\ d.rcv_nxt = c.rcv_nxt /\ d.snd_nxt = Add(c.snd_nxt, 1) /\ d.snd_una = c.snd_una
<1>1. PICK e : e = [c EXCEPT !.snd_nxt = Add(@, 1)]
  OBVIOUS
<1>2. c.snd_nxt \in Seqs /\ Add(c.snd_nxt, 1) \in Seqs
  <2>1. c.snd_nxt \in Seqs /\ c.snd_nxt \in Int
    BY DEF PcbOK, PcbType, Seqs
  <2> QED BY <2>1, SeqOps
<1>3. /\ PcbOK(e) /\ e.snd_nxt = Add(c.snd_nxt, 1)
      /\ e.state = c.state /\ e.rx = c.rx /\ e.port = c.port /\ e.remote = c.remote
      /\ e.rcv_nxt = c.rcv_nxt /\ e.snd_una = c.snd_una
  BY <1>1, <1>2 DEF PcbOK, PcbType
<1>4. PICK nxt \in Seqs : nxt = c.snd_nxt
  BY <1>2
<1>5. PICK nil : nil = <<>>
  OBVIOUS
<1>8. nil \in Seq(Nat)
  BY <1>5
<1>6. d = tcp_track_tx(e, flags, nxt, nil)
  BY <1>1, <1>4, <1>5 DEF Control
<1>7. /\ PcbOK(d) /\ d.last_tx.flags = flags /\ d.last_tx.seq = nxt
      /\ d.last_tx.data = nil \/ d.last_tx.data = <<>>
      /\ d.state = e.state /\ d.rx = e.rx /\ d.port = e.port /\ d.remote = e.remote
      /\ d.rcv_nxt = e.rcv_nxt /\ d.snd_nxt = e.snd_nxt /\ d.snd_una = e.snd_una
  BY <1>3, <1>8, <1>6, TrackFields
<1> QED BY <1>3, <1>4, <1>5, <1>7

LEMMA CloseFields ==
  ASSUME NEW c, PcbOK(c), NEW d, d = tcp_close(c, TRUE)
  PROVE  /\ PcbOK(d) /\ d.last_tx.flags = {"FIN", "ACK"} /\ d.last_tx.seq = c.snd_nxt
         /\ d.last_tx.data = <<>>
         /\ d.state = "LAST_ACK" /\ d.rx = c.rx /\ d.port = c.port /\ d.remote = c.remote
         /\ d.rcv_nxt = c.rcv_nxt /\ d.snd_nxt = Add(c.snd_nxt, 1) /\ d.snd_una = c.snd_nxt
<1>1. PICK flags : flags = {"FIN", "ACK"}
  OBVIOUS
<1>2. flags \in SUBSET Flags /\ flags # {}
  BY <1>1 DEF Flags
<1>3. PICK e : e = Control(c, flags)
  OBVIOUS
<1>4. /\ PcbOK(e) /\ e.last_tx.flags = flags /\ e.last_tx.seq = c.snd_nxt
      /\ e.last_tx.data = <<>> /\ e.rx = c.rx /\ e.port = c.port /\ e.remote = c.remote
      /\ e.rcv_nxt = c.rcv_nxt /\ e.snd_nxt = Add(c.snd_nxt, 1)
  BY <1>2, <1>3, ControlFields
<1>5. d = [e EXCEPT !.snd_una = c.snd_nxt, !.state = "LAST_ACK"]
  BY <1>1, <1>3 DEF tcp_close
<1>6. c.snd_nxt \in Seqs /\ "LAST_ACK" \in States
  BY DEF PcbOK, PcbType, States, Live, Closing
<1> QED BY <1>1, <1>4, <1>5, <1>6 DEF PcbOK, PcbType

LEMMA ConnectingFields ==
  ASSUME NEW c, PcbOK(c), NEW q \in Servers, NEW d, d = Connecting(c, q)
  PROVE  /\ PcbOK(d) /\ d.last_tx = c.last_tx /\ d.state = "SYN_SENT" /\ d.rx = <<>>
         /\ d.port = "app" /\ d.remote = q /\ d.rcv_nxt = 0
         /\ d.snd_nxt = ConnectIsn /\ d.snd_una = ConnectIsn
<1>1. /\ 0 \in Seqs /\ ConnectIsn \in Seqs /\ PeerBuf \in Int
      /\ <<>> \in Seq(Nat) /\ Len(<<>>) = 0 /\ "SYN_SENT" \in States /\ q \in Peers
  BY IsnFacts, NumFacts DEF Seqs, States, Live, Peers
<1>2. Len(<<>>) <= RxMax
  BY <1>1, NumFacts
<1>3. /\ d \in PcbType /\ d.last_tx = c.last_tx /\ d.state = "SYN_SENT" /\ d.rx = <<>>
      /\ d.port = "app" /\ d.remote = q /\ d.rcv_nxt = 0
      /\ d.snd_nxt = ConnectIsn /\ d.snd_una = ConnectIsn
  BY <1>1 DEF Connecting, PcbOK, PcbType
<1> QED BY <1>2, <1>3 DEF PcbOK

LEMMA AcceptingFields ==
  ASSUME NEW c, PcbOK(c), NEW q \in Clients, NEW s, s.seq = PeerIsn, NEW d,
         d = Accepting(c, q, s)
  PROVE  /\ PcbOK(d) /\ d.last_tx = c.last_tx /\ d.state = "SYN_RCVD" /\ d.rx = <<>>
         /\ d.port = PortOf[q] /\ d.remote = q /\ d.rcv_nxt = First
         /\ d.snd_nxt = AcceptIsn /\ d.snd_una = AcceptIsn
<1>1. /\ First \in Seqs /\ AcceptIsn \in Seqs /\ PeerBuf \in Int
      /\ <<>> \in Seq(Nat) /\ Len(<<>>) = 0 /\ "SYN_RCVD" \in States /\ q \in Peers
  BY IsnFacts, FirstFacts, NumFacts DEF States, Live, Peers
<1>2. PICK port \in {"ssh", "app"} : port = PortOf[q]
  BY TcpAssumption
<1>3. Add(s.seq, 1) = First
  BY DEF First
<1>4. d = [c EXCEPT !.port = port, !.remote = q, !.rcv_nxt = First,
                    !.snd_nxt = AcceptIsn, !.snd_una = AcceptIsn, !.state = "SYN_RCVD",
                    !.rx = <<>>, !.peer_wnd = PeerBuf]
  BY <1>2, <1>3 DEF Accepting
<1>5. Len(<<>>) <= RxMax
  BY <1>1, NumFacts
<1>6. /\ d.last_tx = c.last_tx /\ d.state = "SYN_RCVD" /\ d.rx = <<>>
      /\ d.port = port /\ d.remote = q /\ d.rcv_nxt = First
      /\ d.snd_nxt = AcceptIsn /\ d.snd_una = AcceptIsn
  BY <1>4 DEF PcbOK, PcbType
<1>7. d \in PcbType
  BY <1>1, <1>4 DEF PcbOK, PcbType
<1> QED BY <1>2, <1>5, <1>6, <1>7 DEF PcbOK

LEMMA EstablishedFields ==
  ASSUME NEW c, PcbOK(c), NEW s, s.ack \in Seqs, s.wnd \in Int, NEW d, d = Established(c, s)
  PROVE  /\ PcbOK(d) /\ d.last_tx.flags = {} /\ d.last_tx.data = <<>>
         /\ d.state = "ESTABLISHED" /\ d.rx = c.rx
         /\ d.port = c.port /\ d.remote = c.remote /\ d.rcv_nxt = c.rcv_nxt
         /\ d.snd_nxt = c.snd_nxt /\ d.snd_una = s.ack
<1>1. <<>> \in Seq(Nat) /\ Len(<<>>) = 0 /\ "ESTABLISHED" \in States
  BY DEF States, Live
<1>2. PICK tx : tx = [c.last_tx EXCEPT !.flags = {}, !.data = <<>>]
  OBVIOUS
<1>3. /\ tx \in TrackType /\ tx.flags = {} /\ tx.data = <<>> /\ tx.count = c.last_tx.count
  BY <1>1, <1>2 DEF PcbOK, PcbType, TrackType
<1>4. d = [c EXCEPT !.state = "ESTABLISHED", !.snd_una = s.ack, !.peer_wnd = s.wnd,
                    !.last_tx = tx]
  BY <1>2 DEF Established, PcbOK, PcbType, TrackType
<1>5. /\ d \in PcbType /\ d.last_tx = tx /\ d.state = "ESTABLISHED" /\ d.rx = c.rx
      /\ d.port = c.port /\ d.remote = c.remote /\ d.rcv_nxt = c.rcv_nxt
      /\ d.snd_nxt = c.snd_nxt /\ d.snd_una = s.ack
  BY <1>1, <1>3, <1>4 DEF PcbOK, PcbType
<1>6. Len(tx.data) <= RtxDataMax
  BY <1>1, <1>3, NumFacts
<1> QED BY <1>3, <1>5, <1>6 DEF PcbOK

LEMMA AcknowledgedFields ==
  ASSUME NEW c, PcbOK(c), NEW s, s.ack \in Seqs, s.wnd \in Int, NEW d, d = Acknowledged(c, s)
  PROVE  /\ PcbOK(d) /\ d.state = c.state /\ d.rx = c.rx
         /\ d.port = c.port /\ d.remote = c.remote /\ d.rcv_nxt = c.rcv_nxt
         /\ d.snd_nxt = c.snd_nxt
         /\ d.snd_una = c.snd_una \/ (d.snd_una = s.ack /\ "ACK" \in s.flags)
         /\ d.last_tx = c.last_tx \/ (d.last_tx.flags = {} /\ d.last_tx.data = <<>>)
<1>1. <<>> \in Seq(Nat) /\ Len(<<>>) = 0
  OBVIOUS
<1>2. CASE "ACK" \notin s.flags
  BY <1>2 DEF Acknowledged, PcbOK, PcbType
<1>3. CASE "ACK" \in s.flags
  <2>1. PICK u : u = LargerOf(c.snd_una, s.ack)
    OBVIOUS
  <2>2. u \in Seqs /\ (u = c.snd_una \/ u = s.ack)
    BY <2>1 DEF LargerOf, PcbOK, PcbType
  <2>3. PICK tx : tx = IF c.last_tx.flags # {} /\ s.ack >= TrackedEnd(c)
                       THEN [c.last_tx EXCEPT !.flags = {}, !.data = <<>>, !.count = 0]
                       ELSE c.last_tx
    OBVIOUS
  <2>4. /\ tx \in TrackType /\ tx.count <= RtxMax /\ Len(tx.data) <= RtxDataMax
        /\ tx.flags = {} => tx.data = <<>>
        /\ tx = c.last_tx \/ (tx.flags = {} /\ tx.data = <<>>)
    <3>1. CASE tx = c.last_tx
      BY <3>1 DEF PcbOK, PcbType
    <3>2. CASE tx = [c.last_tx EXCEPT !.flags = {}, !.data = <<>>, !.count = 0]
      <4>1. tx \in TrackType /\ tx.count = 0 /\ tx.flags = {} /\ tx.data = <<>>
        BY <1>1, <3>2 DEF PcbOK, PcbType, TrackType
      <4> QED BY <1>1, <4>1, NumFacts
    <3> QED BY <2>3, <3>1, <3>2
  <2>5. d = [c EXCEPT !.snd_una = u, !.peer_wnd = s.wnd, !.last_tx = tx]
    BY <1>3, <2>1, <2>3 DEF Acknowledged
  <2> QED BY <1>3, <2>2, <2>4, <2>5 DEF PcbOK, PcbType
<1> QED BY <1>2, <1>3

-----------------------------------------------------------------------------
(* Streams *)

LEMMA UptoFacts ==
  ASSUME NEW n \in Nat
  PROVE  Upto(n) \in Seq(Nat) /\ Len(Upto(n)) = n /\ \A k \in 1 .. n : Upto(n)[k] = k
<1>1. \A k \in 1 .. n : k \in Nat
  OBVIOUS
<1>2. [k \in 1 .. n |-> k] \in Seq(Nat) /\ Len([k \in 1 .. n |-> k]) = n
  BY <1>1, LenProperties, IsASeq
<1> QED BY <1>2 DEF Upto

LEMMA UptoMore ==
  ASSUME NEW i \in Nat, NEW j \in Nat, i <= j
  PROVE  Upto(i) \o Bytes(i, j) = Upto(j)
<1>1. PICK u \in Seq(Nat) : u = Upto(i) /\ Len(u) = i /\ \A k \in 1 .. i : u[k] = k
  BY UptoFacts
<1>2. PICK b \in Seq(Nat) : b = Bytes(i, j) /\ Len(b) = j - i
  BY BytesFacts
<1>3. \A k \in 1 .. j - i : b[k] = i + k
  BY <1>2 DEF Bytes
<1>4. PICK v \in Seq(Nat) : v = Upto(j) /\ Len(v) = j /\ \A k \in 1 .. j : v[k] = k
  BY UptoFacts
<1>5. /\ u \o b \in Seq(Nat) /\ Len(u \o b) = Len(u) + Len(b)
      /\ \A k \in 1 .. Len(u) + Len(b) : (u \o b)[k] =
           IF k <= Len(u) THEN u[k] ELSE b[k - Len(u)]
  BY ConcatProperties
<1>6. Len(u) + Len(b) = j
  BY <1>1, <1>2
<1>7. ASSUME NEW k \in 1 .. j PROVE (u \o b)[k] = k
  <2>1. CASE k <= i
    <3>1. (u \o b)[k] = u[k] /\ k \in 1 .. i
      BY <1>1, <1>5, <1>6, <1>7, <2>1
    <3> QED BY <1>1, <3>1
  <2>2. CASE k > i
    <3>1. (u \o b)[k] = b[k - i] /\ k - i \in 1 .. j - i
      BY <1>1, <1>5, <1>6, <1>7, <2>2
    <3>2. b[k - i] = i + (k - i)
      BY <1>3, <3>1
    <3> QED BY <3>1, <3>2
  <2>3. k <= i \/ k > i
    OBVIOUS
  <2> QED BY <2>1, <2>2, <2>3
<1>8. u \o b = v
  <2>1. Len(u \o b) = Len(v) /\ \A k \in 1 .. Len(u \o b) : (u \o b)[k] = v[k]
    BY <1>4, <1>5, <1>6, <1>7
  <2> QED BY <1>4, <1>5, <2>1, SeqEqual
<1> QED BY <1>1, <1>2, <1>4, <1>8

LEMMA ConcatNat ==
  ASSUME NEW s \in Seq(Nat), NEW t \in Seq(Nat), NEW u \in Seq(Nat)
  PROVE  (s \o t) \o u = s \o (t \o u)
BY ConcatAssociative, SMTT(30)

LEMMA CutFacts ==
  ASSUME NEW s \in Seq(Nat), NEW n \in 0 .. Len(s)
  PROVE  /\ SubSeq(s, 1, n) \in Seq(Nat) /\ Len(SubSeq(s, 1, n)) = n
         /\ SubSeq(s, n + 1, Len(s)) \in Seq(Nat)
         /\ Len(SubSeq(s, n + 1, Len(s))) = Len(s) - n
         /\ SubSeq(s, 1, n) \o SubSeq(s, n + 1, Len(s)) = s
<1>1. Len(s) \in Nat /\ n \in Nat /\ n <= Len(s) /\ \A k \in 1 .. Len(s) : s[k] \in Nat
  BY LenProperties
<1>2. PICK a : a = SubSeq(s, 1, n)
  OBVIOUS
<1>3. PICK b : b = SubSeq(s, n + 1, Len(s))
  OBVIOUS
<1>4. a \in Seq(Nat) /\ Len(a) = n /\ \A k \in 1 .. n : a[k] = s[k]
  <2>1. \A k \in 1 .. n : s[k] \in Nat
    BY <1>1
  <2>2. /\ a \in Seq(Nat) /\ Len(a) = IF 1 <= n THEN n - 1 + 1 ELSE 0
        /\ \A k \in 1 .. n - 1 + 1 : a[k] = s[1 + k - 1]
    BY <1>1, <1>2, <2>1, SubSeqProperties
  <2> QED BY <1>1, <2>2
<1>5. b \in Seq(Nat) /\ Len(b) = Len(s) - n /\ \A k \in 1 .. Len(s) - n : b[k] = s[n + k]
  <2>1. PICK m \in Int : m = n + 1
    BY <1>1
  <2>2. PICK e \in Int : e = Len(s)
    BY <1>1
  <2>3. \A k \in m .. e : s[k] \in Nat
    BY <1>1, <2>1, <2>2
  <2>4. /\ SubSeq(s, m, e) \in Seq(Nat)
        /\ Len(SubSeq(s, m, e)) = IF m <= e THEN e - m + 1 ELSE 0
        /\ \A k \in 1 .. e - m + 1 : SubSeq(s, m, e)[k] = s[m + k - 1]
    BY <2>3, SubSeqProperties
  <2>5. b = SubSeq(s, m, e)
    BY <1>3, <2>1, <2>2
  <2>6. e - m + 1 = Len(s) - n
    BY <1>1, <2>1, <2>2
  <2>7. Len(b) = Len(s) - n
    BY <1>1, <2>1, <2>2, <2>4, <2>5
  <2>8. ASSUME NEW k \in 1 .. Len(s) - n PROVE b[k] = s[n + k]
    <3>1. b[k] = s[m + k - 1]
      BY <2>4, <2>5, <2>6, <2>8
    <3>2. m + k - 1 = n + k
      BY <1>1, <2>1, <2>8
    <3> QED BY <3>1, <3>2
  <2> QED BY <2>4, <2>5, <2>7, <2>8
<1>6. /\ a \o b \in Seq(Nat) /\ Len(a \o b) = Len(a) + Len(b)
      /\ \A k \in 1 .. Len(a) + Len(b) : (a \o b)[k] =
           IF k <= Len(a) THEN a[k] ELSE b[k - Len(a)]
  BY <1>4, <1>5, ConcatProperties
<1>7. Len(a) + Len(b) = Len(s)
  BY <1>1, <1>4, <1>5
<1>8. ASSUME NEW k \in 1 .. Len(s) PROVE (a \o b)[k] = s[k]
  <2>1. CASE k <= n
    <3>1. (a \o b)[k] = a[k] /\ k \in 1 .. n
      BY <1>1, <1>4, <1>6, <1>7, <1>8, <2>1
    <3> QED BY <1>4, <3>1
  <2>2. CASE k > n
    <3>1. (a \o b)[k] = b[k - n] /\ k - n \in 1 .. Len(s) - n
      BY <1>1, <1>4, <1>6, <1>7, <1>8, <2>2, SMTT(30)
    <3>2. b[k - n] = s[n + (k - n)] /\ n + (k - n) = k
      BY <1>1, <1>5, <1>8, <3>1
    <3> QED BY <3>1, <3>2
  <2>3. k <= n \/ k > n
    BY <1>1
  <2> QED BY <2>1, <2>2, <2>3
<1>9. a \o b = s
  <2>1. Len(a \o b) = Len(s) /\ \A k \in 1 .. Len(a \o b) : (a \o b)[k] = s[k]
    BY <1>6, <1>7, <1>8
  <2> QED BY <1>6, <2>1, SeqEqual
<1> QED BY <1>2, <1>3, <1>4, <1>5, <1>9

Fits(c, s) == Len(s.data) <= RxMax - Len(c.rx)
TakenIn(c, s) == IF c.port = "ssh" THEN c.rx ELSE c.rx \o s.data

LEMMA AcceptedFields ==
  ASSUME NEW c, PcbOK(c), NEW s, s.data \in Seq(Nat), NEW d, d = Accepted(c, s),
         Fits(c, s)
  PROVE  /\ PcbOK(d) /\ d.last_tx = c.last_tx /\ d.state = c.state
         /\ d.port = c.port /\ d.remote = c.remote
         /\ d.rcv_nxt = Add(c.rcv_nxt, Len(s.data))
         /\ d.snd_nxt = c.snd_nxt /\ d.snd_una = c.snd_una
         /\ d.rx = TakenIn(c, s)
<1>1. /\ c.rx \in Seq(Nat) /\ Len(c.rx) \in Nat /\ Len(c.rx) <= RxMax
      /\ Len(s.data) \in Nat /\ c.rcv_nxt \in Int
  BY DEF PcbOK, PcbType, Seqs
<1>2. PICK n : n = Add(c.rcv_nxt, Len(s.data))
  OBVIOUS
<1>3. n \in Seqs
  BY <1>1, <1>2, SeqOps
<1>4. PICK room : room = SmallerOf(RxMax - Len(c.rx), Len(s.data))
  OBVIOUS
<1>5. /\ room \in 0 .. Len(s.data) /\ room <= RxMax - Len(c.rx)
      /\ Len(s.data) <= RxMax - Len(c.rx) => room = Len(s.data)
  <2>1. PICK m \in Nat : m = Len(s.data)
    BY <1>1
  <2>2. PICK r : r = RxMax - Len(c.rx)
    OBVIOUS
  <2>5. r \in Nat
    BY <1>1, <2>2, NumFacts
  <2>3. room = IF r < m THEN r ELSE m
    BY <1>4, <2>1, <2>2 DEF SmallerOf
  <2>4. room \in 0 .. m /\ room <= r /\ (m <= r => room = m)
    BY <2>3, <2>5
  <2> QED BY <2>1, <2>2, <2>4
<1>6. PICK t : t = SubSeq(s.data, 1, room)
  OBVIOUS
<1>7. t \in Seq(Nat) /\ Len(t) = room
  BY <1>5, <1>6, CutFacts
<1>8. c.rx \o t \in Seq(Nat) /\ Len(c.rx \o t) = Len(c.rx) + Len(t)
  BY <1>1, <1>7, ConcatProperties
<1>9. Len(c.rx \o t) <= RxMax
  BY <1>1, <1>5, <1>7, <1>8, NumFacts
<1>10. PICK rx : rx = IF c.port = "ssh" THEN c.rx ELSE c.rx \o t
  OBVIOUS
<1>11. rx \in Seq(Nat) /\ Len(rx) <= RxMax
  BY <1>1, <1>8, <1>9, <1>10
<1>12. d = [c EXCEPT !.rcv_nxt = n, !.rx = rx]
  BY <1>2, <1>4, <1>6, <1>10 DEF Accepted
<1>13. /\ d \in PcbType /\ d.last_tx = c.last_tx /\ d.state = c.state
       /\ d.port = c.port /\ d.remote = c.remote /\ d.rcv_nxt = n /\ d.rx = rx
       /\ d.snd_nxt = c.snd_nxt /\ d.snd_una = c.snd_una
  BY <1>3, <1>11, <1>12 DEF PcbOK, PcbType
<1>14. Len(s.data) <= RxMax - Len(c.rx) => t = s.data
  BY <1>5, <1>6, SubSeqFull
<1>15. rx = TakenIn(c, s)
  BY <1>10, <1>14 DEF Fits, TakenIn
<1> QED BY <1>2, <1>11, <1>13, <1>15 DEF PcbOK

-----------------------------------------------------------------------------
(* What a pcb tells its peer *)

LEMMA EdgeOf ==
  ASSUME NEW c, PcbOK(c), NEW g \in Seq(Nat), NEW P, PcbRight(c, g, P)
  PROVE  /\ RightEdge(c) \in Int
         /\ c.state \in {"SYN_SENT", "SYN_RCVD"} => RightEdge(c) = RxMax
         /\ c.state = "ESTABLISHED" => RightEdge(c) = Len(g) + RxMax
         /\ c.state = "CLOSED" /\ c.last_tx.flags # {} /\ c.remote \in Clients
              => RightEdge(c) = RxMax
<1>1. /\ c.rx \in Seq(Nat) /\ Len(c.rx) \in Nat /\ c.rcv_nxt \in Seqs /\ c.rcv_nxt \in Int
      /\ First \in Seqs /\ First \in Int /\ Len(<<>>) = 0 /\ RxMax \in Int
  BY FirstFacts, NumFacts DEF PcbOK, PcbType, Seqs
<1>2. PICK o : o = Offset(c)
  OBVIOUS
<1>3. o \in Nat /\ o = Sub(c.rcv_nxt, Add(PeerIsn, 1))
  <2>1. o = Sub(c.rcv_nxt, First)
    BY <1>2 DEF Offset
  <2>2. o \in Seqs
    BY <1>1, <2>1, SeqOps
  <2>3. o \in Nat
    BY <2>2, NumFacts DEF Seqs
  <2> QED BY <2>1, <2>3 DEF First
<1>4. RightEdge(c) = (IF c.state = "SYN_SENT" THEN 0 ELSE o) + (RxMax - Len(c.rx))
  BY <1>3 DEF RightEdge, Window
<1>5. c.rcv_nxt = First => o = 0
  <2>1. Add(First, 0) = First
    <3>1. First >= 0 /\ First < SeqMod
      BY <1>1, NumFacts DEF Seqs
    <3>2. First % SeqMod = First
      BY <1>1, <3>1, NumFacts, ModSmall
    <3> QED BY <1>1, <3>2 DEF Add
  <2>2. Sub(Add(First, 0), First) = 0
    BY NumFacts, OffsetOf
  <2> QED BY <1>2, <2>1, <2>2 DEF Offset
<1>6. c.state = "ESTABLISHED" => Len(g) + Len(c.rx) = o
  <2>1. SUFFICES ASSUME c.state = "ESTABLISHED" PROVE Len(g) + Len(c.rx) = o
    OBVIOUS
  <2>2. g \o c.rx = Upto(o)
    BY <1>2, <2>1 DEF PcbRight
  <2>3. Len(g \o c.rx) = Len(g) + Len(c.rx)
    BY <1>1, ConcatProperties
  <2>4. Len(Upto(o)) = o
    BY <1>3, UptoFacts
  <2> QED BY <2>2, <2>3, <2>4
<1>7. RightEdge(c) \in Int
  BY <1>1, <1>3, <1>4
<1>8. ASSUME c.state \in {"SYN_SENT", "SYN_RCVD"} PROVE RightEdge(c) = RxMax
  <2>1. c.rx = <<>> /\ (c.state = "SYN_RCVD" => c.rcv_nxt = First)
    BY <1>8 DEF PcbRight
  <2> QED BY <1>1, <1>4, <1>5, <1>8, <2>1
<1>9. ASSUME c.state = "ESTABLISHED" PROVE RightEdge(c) = Len(g) + RxMax
  <2>1. Len(g) \in Nat
    BY LenProperties
  <2> QED BY <1>1, <1>3, <1>4, <1>6, <1>9, <2>1
<1>10. ASSUME c.state = "CLOSED", c.last_tx.flags # {}, c.remote \in Clients
       PROVE  RightEdge(c) = RxMax
  <2>1. c.rx = <<>> /\ c.rcv_nxt = First
    BY <1>10 DEF PcbRight
  <2> QED BY <1>1, <1>4, <1>5, <1>10, <2>1
<1> QED BY <1>7, <1>8, <1>9, <1>10

LEMMA HolderAlone ==
  ASSUME Received, NEW i \in Pcbs, Holds(pcb[i])
  PROVE  Alone(i, pcb[i].remote)
BY DEF Received, OneHolder, Alone

(* A pcb that has something to send may advertise its window. *)
LEMMA MayTell ==
  ASSUME Received, NEW i \in Pcbs, NEW segs \in SUBSET SegType,
         pcb[i].state \in Live \/ pcb[i].last_tx.flags # {}
  PROVE  /\ pcb[i].remote \in Peers
         /\ Told(Reaches(pcb[i], segs), i)
         /\ pcb[i].state \in Live \ Closing =>
              Reaches(pcb[i], segs)[pcb[i].remote].edge <= Len(got[i]) + RxMax
<1>1. PICK c : c = pcb[i]
  OBVIOUS
<1>2. PICK g : g = got[i]
  OBVIOUS
<1>3. /\ PcbOK(c) /\ PcbRight(c, g, peer) /\ g \in Seq(Nat) /\ Len(g) \in Nat
  BY <1>1, <1>2 DEF Received, TypeInv
<1>4. /\ c.remote \in Peers /\ RightEdge(c) \in Int
      /\ c.state \in {"SYN_SENT", "SYN_RCVD"} => RightEdge(c) = RxMax
      /\ c.state = "ESTABLISHED" => RightEdge(c) = Len(g) + RxMax
      /\ c.state = "CLOSED" /\ c.last_tx.flags # {} /\ c.remote \in Clients
           => RightEdge(c) = RxMax
  BY <1>1, <1>3, EdgeOf, ZenonT(60) DEF PcbRight
<1>5. peer[c.remote].edge \in Int
  BY <1>4 DEF Received, TypeInv, PeersType, PeerType
<1>6. RightEdge(c) <= RxMax \/ (peer[c.remote].st = "open" /\ Alone(i, c.remote))
  <2>1. CASE c.state \in {"SYN_SENT", "SYN_RCVD"}
    BY <1>4, <2>1, NumFacts
  <2>2. CASE c.state \in {"ESTABLISHED"} \cup Closing
    BY <1>1, <1>3, <2>2, HolderAlone DEF PcbRight, Holds, Live
  <2>3. CASE c.state = "CLOSED" /\ c.last_tx.flags # {} /\ c.remote \in Clients
    BY <1>4, <2>3, NumFacts
  <2>4. CASE c.state = "CLOSED" /\ c.last_tx.flags # {} /\ c.remote \in Servers
    BY <1>1, <1>3, <2>4, HolderAlone DEF PcbRight, Holds
  <2>5. c.state # "LISTEN"
    BY <1>1, <1>3 DEF PcbRight, Live, Closing
  <2>6. c.state \in States /\ (c.state \in Live \/ c.last_tx.flags # {})
    BY <1>1, <1>3 DEF PcbOK, PcbType
  <2> QED BY <1>4, <2>1, <2>2, <2>3, <2>4, <2>5, <2>6 DEF States, Live, Peers
<1>7. /\ Told(Reaches(c, segs), i)
      /\ Reaches(c, segs)[c.remote].edge = LargerOf(peer[c.remote].edge, RightEdge(c))
  BY <1>4, <1>6, ReachTold
<1>8. ASSUME c.state \in Live \ Closing
      PROVE  Reaches(c, segs)[c.remote].edge <= Len(g) + RxMax
  <2>1. peer[c.remote].edge <= Len(g) + RxMax
    BY <1>3, <1>8 DEF PcbRight
  <2>2. c.state \in {"SYN_SENT", "SYN_RCVD", "ESTABLISHED"}
    BY <1>8 DEF Live
  <2>3. RightEdge(c) <= Len(g) + RxMax
    BY <1>3, <1>4, <2>2, NumFacts
  <2> QED BY <1>7, <2>1, <2>3 DEF LargerOf
<1> QED BY <1>1, <1>2, <1>4, <1>7, <1>8

(* A pcb that is closed and repeats nothing owes nobody anything. *)
LEMMA ClosedRight ==
  ASSUME NEW d, d.state = "CLOSED", d.last_tx.flags = {}, d.port = "ssh" => d.rx = <<>>,
         NEW g, NEW P
  PROVE  PcbRight(d, g, P) /\ ~Holds(d)
BY DEF PcbRight, Holds, Live, Closing

(* Sending changes nothing of the receiving side. *)
LEMMA SameConnection ==
  ASSUME NEW c, NEW g, PcbRight(c, g, peer), NEW d, d.state = c.state, d.port = c.port,
         d.remote = c.remote, d.rcv_nxt = c.rcv_nxt, d.rx = c.rx,
         d.last_tx.flags # {} => c.last_tx.flags # {} \/ c.state \in Live,
         NEW i \in Pcbs, NEW P, Told(P, i),
         c.state \in Live \ Closing => P[c.remote].edge <= Len(g) + RxMax
  PROVE  PcbRight(d, g, P) /\ (Holds(d) => Holds(c))
<1>1. \A q \in Peers : P[q].st = peer[q].st
  BY DEF Told
<1>2. c.state \in Live \/ c.last_tx.flags # {} => c.remote \in Peers
  BY DEF PcbRight
<1>3. c.state = "CLOSED" \/ c.state = "LISTEN" => c.state \notin Live
  BY DEF Live, Closing
<1>4. d.state \in {"ESTABLISHED"} \cup Closing => P[d.remote].st = "open"
  BY <1>1, <1>2 DEF PcbRight, Live
<1>5. d.state = "CLOSED" /\ d.last_tx.flags # {} =>
       /\ d.rx = <<>>
       /\ d.remote \in Clients => d.rcv_nxt = First
       /\ d.remote \in Servers => P[d.remote].st = "open"
  BY <1>1, <1>2, <1>3 DEF PcbRight
<1>6. PcbRight(d, g, P)
  BY <1>2, <1>3, <1>4, <1>5 DEF PcbRight, Offset
<1>7. Holds(d) => Holds(c)
  BY <1>3 DEF Holds
<1> QED BY <1>6, <1>7

-----------------------------------------------------------------------------
(* tcp_tick and the calls of the shell and of programs *)

LEMMA PcbFacts ==
  ASSUME Received, NEW i \in Pcbs
  PROVE  /\ PcbOK(pcb[i]) /\ PcbRight(pcb[i], got[i], peer)
         /\ got[i] \in Seq(Nat) /\ wrote[i] \in Nat
         /\ pcb = [pcb EXCEPT ![i] = pcb[i]] /\ got = [got EXCEPT ![i] = got[i]]
         /\ taken \in Pcbs \cup {None} /\ wrote \in [Pcbs -> Nat]
BY DEF Received, TypeInv

(* A pcb that goes back to the pool. *)
LEMMA ClosingKeeps ==
  ASSUME Received, NEW i \in Pcbs, NEW d, PcbOK(d), d.state = "CLOSED",
         d.last_tx.flags = {}, d.port = "ssh" => d.rx = <<>>,
         pcb' = [pcb EXCEPT ![i] = d], got' = got, peer' = peer,
         taken' \in Pcbs \cup {None}, wrote' = wrote
  PROVE  Received'
<1>1. PICK g : g = got[i]
  OBVIOUS
<1>2. g \in Seq(Nat) /\ got' = [got EXCEPT ![i] = g] /\ wrote' \in [Pcbs -> Nat]
  BY <1>1, PcbFacts
<1>3. PICK P : P = peer
  OBVIOUS
<1>4. Told(P, i) /\ PcbRight(d, g, P) /\ ~Holds(d)
  BY <1>3, NothingTold, ClosedRight
<1> QED BY <1>2, <1>3, <1>4, StepKeeps

(* A pcb that sends, or forgets what it has sent. *)
LEMMA SendingKeeps ==
  ASSUME Received, NEW i \in Pcbs, NEW d, PcbOK(d),
         d.state = pcb[i].state, d.port = pcb[i].port,
         d.remote = pcb[i].remote, d.rcv_nxt = pcb[i].rcv_nxt, d.rx = pcb[i].rx,
         d.last_tx.flags # {} => pcb[i].last_tx.flags # {} \/ pcb[i].state \in Live,
         NEW segs \in SUBSET SegType,
         peer' = peer \/ /\ peer' = Reaches(pcb[i], segs)
                         /\ pcb[i].state \in Live \/ pcb[i].last_tx.flags # {},
         pcb' = [pcb EXCEPT ![i] = d], got' = got,
         taken' \in Pcbs \cup {None}, wrote' \in [Pcbs -> Nat]
  PROVE  Received'
<1>1. PICK g : g = got[i]
  OBVIOUS
<1>2. PICK c : c = pcb[i]
  OBVIOUS
<1>3. g \in Seq(Nat) /\ got' = [got EXCEPT ![i] = g] /\ PcbRight(c, g, peer) /\ PcbOK(c)
  BY <1>1, <1>2, PcbFacts
<1>4. PICK P : P = peer'
  OBVIOUS
<1>5. Told(P, i) /\ (c.state \in Live \ Closing => P[c.remote].edge <= Len(g) + RxMax)
  <2>1. CASE peer' = peer
    BY <1>3, <1>4, <2>1, NothingTold DEF PcbRight
  <2>2. CASE /\ peer' = Reaches(pcb[i], segs)
             /\ pcb[i].state \in Live \/ pcb[i].last_tx.flags # {}
    BY <1>1, <1>2, <1>4, <2>2, MayTell
  <2> QED BY <2>1, <2>2
<1>6. PcbRight(d, g, P) /\ (Holds(d) => Holds(c))
  BY <1>2, <1>3, <1>5, SameConnection
<1>7. Holds(d) => Alone(i, d.remote)
  BY <1>2, <1>6, HolderAlone
<1> QED BY <1>3, <1>4, <1>5, <1>6, <1>7, StepKeeps

LEMMA FreePcbFacts ==
  ASSUME Received, NEW i \in FreePcbs, NEW d, d = tcp_get_free_pcb(i)
  PROVE  /\ i \in Pcbs /\ PcbOK(d) /\ d.state = "CLOSED" /\ d.remote = pcb[i].remote
         /\ d = pcb[i] \/ (d.last_tx.flags = {} /\ d.rx = <<>>)
<1>1. i \in Pcbs
  BY DEF FreePcbs
<1>2. CASE pcb[i].state = "CLOSED"
  BY <1>1, <1>2, PcbFacts DEF tcp_get_free_pcb
<1>3. CASE pcb[i].state # "CLOSED"
  <2>1. PICK c : c = pcb[i]
    OBVIOUS
  <2>2. PcbOK(c) /\ d = Released(c)
    BY <1>1, <1>3, <2>1, PcbFacts DEF tcp_get_free_pcb
  <2> QED BY <1>1, <2>1, <2>2, ReleasedFields
<1> QED BY <1>2, <1>3

LEMMA GetPcbKeeps ==
  ASSUME Received, NEW i \in Pcbs, GetPcb(i)
  PROVE  Received'
<1>1. PICK d : d = tcp_get_free_pcb(i)
  OBVIOUS
<1>2. /\ i \in FreePcbs /\ pcb' = [pcb EXCEPT ![i] = d] /\ taken' = i
      /\ got' = got /\ wrote' = wrote /\ peer' = peer
  BY <1>1 DEF GetPcb
<1>3. /\ PcbOK(d) /\ d.state = "CLOSED"
      /\ d = pcb[i] \/ (d.last_tx.flags = {} /\ d.rx = <<>>)
  BY <1>1, <1>2, FreePcbFacts
<1>4. CASE d.last_tx.flags = {} /\ d.rx = <<>>
  BY <1>2, <1>3, <1>4, ClosingKeeps
<1>5. CASE d = pcb[i]
  <2>1. {} \in SUBSET SegType
    OBVIOUS
  <2>2. /\ d.state = pcb[i].state /\ d.port = pcb[i].port /\ d.remote = pcb[i].remote
        /\ d.rcv_nxt = pcb[i].rcv_nxt /\ d.rx = pcb[i].rx
        /\ d.last_tx.flags # {} => pcb[i].last_tx.flags # {} \/ pcb[i].state \in Live
    BY <1>5
  <2>3. wrote' \in [Pcbs -> Nat]
    BY <1>2, PcbFacts
  <2> QED BY <1>2, <1>3, <2>1, <2>2, <2>3, SendingKeeps
<1> QED BY <1>3, <1>4, <1>5

LEMMA ReapKeeps ==
  ASSUME Received, NEW i \in Pcbs, Reap(i)
  PROVE  Received'
<1>1. PICK c : c = pcb[i]
  OBVIOUS
<1>2. PICK d : d = Released(c)
  OBVIOUS
<1>3. PcbOK(c) /\ taken \in Pcbs \cup {None}
  BY <1>1, PcbFacts
<1>4. PcbOK(d) /\ d.state = "CLOSED" /\ d.last_tx.flags = {} /\ d.rx = <<>>
  BY <1>2, <1>3, ReleasedFields
<1>5. /\ pcb' = [pcb EXCEPT ![i] = d] /\ taken' = taken
      /\ got' = got /\ wrote' = wrote /\ peer' = peer
  BY <1>1, <1>2 DEF Reap
<1> QED BY <1>3, <1>4, <1>5, ClosingKeeps

(* c in state st, with nothing to repeat. *)
Forgotten(c, st) ==
  [c EXCEPT !.last_tx.flags = {}, !.last_tx.data = <<>>, !.state = st]

LEMMA ForgetFields ==
  ASSUME NEW c, PcbOK(c), NEW st \in States, NEW d, d = Forgotten(c, st)
  PROVE  /\ PcbOK(d) /\ d.state = st /\ d.last_tx.flags = {} /\ d.last_tx.data = <<>>
         /\ d.rx = c.rx /\ d.port = c.port /\ d.remote = c.remote /\ d.rcv_nxt = c.rcv_nxt
         /\ d.snd_nxt = c.snd_nxt /\ d.snd_una = c.snd_una
<1>1. <<>> \in Seq(Nat) /\ Len(<<>>) = 0 /\ Len(<<>>) <= RtxDataMax
  BY NumFacts
<1>2. PICK tx : tx = [c.last_tx EXCEPT !.flags = {}, !.data = <<>>]
  OBVIOUS
<1>3. /\ tx \in TrackType /\ tx.flags = {} /\ tx.data = <<>> /\ tx.count = c.last_tx.count
  BY <1>1, <1>2 DEF PcbOK, PcbType, TrackType
<1>4. d = [c EXCEPT !.last_tx = tx, !.state = st]
  BY <1>2 DEF Forgotten, PcbOK, PcbType, TrackType
<1>5. /\ d \in PcbType /\ d.last_tx = tx /\ d.state = st /\ d.rx = c.rx
      /\ d.port = c.port /\ d.remote = c.remote /\ d.rcv_nxt = c.rcv_nxt
      /\ d.snd_nxt = c.snd_nxt /\ d.snd_una = c.snd_una
  BY <1>3, <1>4 DEF PcbOK, PcbType
<1> QED BY <1>1, <1>3, <1>5 DEF PcbOK

LEMMA GiveUpKeeps ==
  ASSUME Received, NEW i \in Pcbs, GiveUp(i)
  PROVE  Received'
<1>1. PICK c : c = pcb[i]
  OBVIOUS
<1>2. PICK st : st = IF c.state \in {"SYN_SENT", "SYN_RCVD", "LAST_ACK"}
                     THEN "CLOSED" ELSE c.state
  OBVIOUS
<1>3. PICK d : d = Forgotten(c, st)
  OBVIOUS
<1>4. /\ PcbOK(c) /\ taken \in Pcbs \cup {None} /\ PcbRight(c, got[i], peer)
      /\ wrote \in [Pcbs -> Nat]
  BY <1>1, PcbFacts
<1>5. st \in States
  BY <1>2, <1>4 DEF PcbOK, PcbType, States
<1>6. /\ PcbOK(d) /\ d.state = st /\ d.last_tx.flags = {} /\ d.last_tx.data = <<>>
      /\ d.rx = c.rx /\ d.port = c.port /\ d.remote = c.remote /\ d.rcv_nxt = c.rcv_nxt
  BY <1>3, <1>4, <1>5, ForgetFields
<1>7. /\ pcb' = [pcb EXCEPT ![i] = d] /\ taken' = taken
      /\ got' = got /\ wrote' = wrote /\ peer' = peer
  BY <1>1, <1>2, <1>3, <1>4 DEF GiveUp, Forgotten, PcbOK, PcbType, TrackType, Received, TypeInv
<1>8. CASE st = "CLOSED"
  <2>1. d.port = "ssh" => d.rx = <<>>
    BY <1>4, <1>6 DEF PcbRight
  <2> QED BY <1>4, <1>6, <1>7, <1>8, <2>1, ClosingKeeps
<1>9. CASE st = c.state
  <2>1. {} \in SUBSET SegType
    OBVIOUS
  <2> QED BY <1>1, <1>4, <1>6, <1>7, <1>9, <2>1, SendingKeeps
<1> QED BY <1>2, <1>8, <1>9

LEMMA SegIsSeg ==
  ASSUME NEW flags \in SUBSET Flags, NEW seq \in Seqs, NEW data \in Seq(Nat)
  PROVE  Seg(flags, seq, data) \in SegType
BY DEF Seg, SegType

(* c after a retransmission, which IP took or did not take. *)
Resent(c, ok) ==
  [c EXCEPT !.last_tx.count = @ + 1, !.snd_nxt = IF ok THEN Add(@, Bump(c)) ELSE @]

LEMMA ResentFields ==
  ASSUME NEW c, PcbOK(c), c.last_tx.count < RtxMax, NEW ok, NEW d, d = Resent(c, ok)
  PROVE  /\ PcbOK(d) /\ d.state = c.state /\ d.rx = c.rx /\ d.port = c.port
         /\ d.remote = c.remote /\ d.rcv_nxt = c.rcv_nxt
         /\ d.last_tx.flags = c.last_tx.flags /\ d.last_tx.data = c.last_tx.data
         /\ d.last_tx.seq = c.last_tx.seq /\ d.snd_una = c.snd_una
         /\ d.snd_nxt = IF ok THEN Add(c.snd_nxt, Bump(c)) ELSE c.snd_nxt
<1>1. /\ c.last_tx \in TrackType /\ c.snd_nxt \in Seqs /\ c.snd_nxt \in Int
      /\ Len(c.last_tx.data) \in Nat
  BY DEF PcbOK, PcbType, TrackType, Seqs
<1>2. PICK tx : tx = [c.last_tx EXCEPT !.count = @ + 1]
  OBVIOUS
<1>3. /\ tx \in TrackType /\ tx.flags = c.last_tx.flags /\ tx.data = c.last_tx.data
      /\ tx.seq = c.last_tx.seq /\ tx.count = c.last_tx.count + 1
  BY <1>1, <1>2 DEF TrackType
<1>4. tx.count <= RtxMax
  BY <1>1, <1>3, NumFacts DEF TrackType
<1>5. PICK n : n = IF ok THEN Add(c.snd_nxt, Bump(c)) ELSE c.snd_nxt
  OBVIOUS
<1>6. n \in Seqs
  <2>1. Bump(c) \in Int
    BY <1>1 DEF Bump
  <2> QED BY <1>1, <1>5, <2>1, SeqOps
<1>7. d = [c EXCEPT !.last_tx = tx, !.snd_nxt = n]
  BY <1>2, <1>5 DEF Resent, PcbOK, PcbType, TrackType
<1>8. /\ d \in PcbType /\ d.last_tx = tx /\ d.state = c.state /\ d.rx = c.rx
      /\ d.port = c.port /\ d.remote = c.remote /\ d.rcv_nxt = c.rcv_nxt
      /\ d.snd_nxt = n /\ d.snd_una = c.snd_una
  BY <1>3, <1>6, <1>7 DEF PcbOK, PcbType
<1> QED BY <1>3, <1>4, <1>5, <1>8 DEF PcbOK

LEMMA RetransmitKeeps ==
  ASSUME Received, NEW i \in Pcbs, NEW ok \in BOOLEAN, Retransmit(i, ok)
  PROVE  Received'
<1>1. PICK c : c = pcb[i]
  OBVIOUS
<1>2. PICK d : d = Resent(c, ok)
  OBVIOUS
<1>3. PICK segs : segs = {Seg(c.last_tx.flags, c.last_tx.seq, c.last_tx.data)}
  OBVIOUS
<1>4. PcbOK(c) /\ taken \in Pcbs \cup {None} /\ wrote \in [Pcbs -> Nat]
  BY <1>1, PcbFacts
<1>5. segs \in SUBSET SegType
  BY <1>3, <1>4, SegIsSeg DEF PcbOK, PcbType, TrackType
<1>6. c.last_tx.flags # {} /\ c.last_tx.count < RtxMax
  BY <1>1 DEF Retransmit, Outstanding
<1>7. /\ PcbOK(d) /\ d.state = c.state /\ d.rx = c.rx /\ d.port = c.port
      /\ d.remote = c.remote /\ d.rcv_nxt = c.rcv_nxt
      /\ d.last_tx.flags = c.last_tx.flags
  BY <1>2, <1>4, <1>6, ResentFields
<1>8. /\ pcb' = [pcb EXCEPT ![i] = d] /\ taken' = taken /\ got' = got /\ wrote' = wrote
      /\ peer' = peer \/ peer' = Reaches(pcb[i], segs)
  BY <1>1, <1>2, <1>3, <1>4 DEF Retransmit, Resent, PcbOK, PcbType, TrackType, Received, TypeInv
<1> QED BY <1>1, <1>4, <1>5, <1>6, <1>7, <1>8, SendingKeeps

LEMMA NewBytesFacts ==
  ASSUME Received, NEW i \in Pcbs, NEW n \in Nat
  PROVE  NewBytes(i, n) \in Seq(Nat) /\ Len(NewBytes(i, n)) = n
<1>1. PICK w \in Nat : w = wrote[i]
  BY PcbFacts
<1>2. \A k \in 1 .. n : w + k \in Nat
  OBVIOUS
<1>3. [k \in 1 .. n |-> w + k] \in Seq(Nat) /\ Len([k \in 1 .. n |-> w + k]) = n
  BY <1>2, LenProperties, IsASeq
<1> QED BY <1>1, <1>3 DEF NewBytes

LEMMA ChunkFacts ==
  ASSUME NEW data \in Seq(Nat), NEW k \in Nat \ {0}
  PROVE  Chunk(data, k) \in Seq(Nat)
<1>1. Len(data) \in Nat /\ \A m \in 1 .. Len(data) : data[m] \in Nat
  BY LenProperties
<1>2. (k - 1) * MSS \in Nat /\ k * MSS \in Nat
  BY NumFacts
<1>3. PICK a : a = (k - 1) * MSS + 1
  OBVIOUS
<1>4. PICK b : b = SmallerOf(k * MSS, Len(data))
  OBVIOUS
<1>5. a \in Int /\ a >= 1 /\ b \in Int /\ b <= Len(data)
  BY <1>1, <1>2, <1>3, <1>4 DEF SmallerOf
<1>6. \A m \in a .. b : data[m] \in Nat
  BY <1>1, <1>5
<1>7. SubSeq(data, a, b) \in Seq(Nat)
  BY <1>5, <1>6, SubSeqProperties
<1> QED BY <1>3, <1>4, <1>7 DEF Chunk

LEMMA MovedFields ==
  ASSUME NEW c, PcbOK(c), NEW n \in Seqs, NEW d, d = [c EXCEPT !.snd_nxt = n]
  PROVE  /\ PcbOK(d) /\ d.state = c.state /\ d.rx = c.rx /\ d.port = c.port
         /\ d.remote = c.remote /\ d.rcv_nxt = c.rcv_nxt /\ d.last_tx = c.last_tx
         /\ d.snd_nxt = n /\ d.snd_una = c.snd_una
BY DEF PcbOK, PcbType

LEMMA SendKeeps ==
  ASSUME Received, NEW i \in Pcbs, NEW n \in Nat, NEW k \in Nat, tcp_send(i, n, k)
  PROVE  Received'
<1>1. PICK c : c = pcb[i]
  OBVIOUS
<1>2. /\ PcbOK(c) /\ taken \in Pcbs \cup {None} /\ wrote \in [Pcbs -> Nat]
      /\ pcb = [pcb EXCEPT ![i] = pcb[i]]
  BY <1>1, PcbFacts
<1>3. PICK data \in Seq(Nat) : data = NewBytes(i, n)
  BY NewBytesFacts
<1>4. PICK size : size = SmallerOf(k * MSS, n)
  OBVIOUS
<1>5. PICK seq : seq = [m \in 1 .. k |-> Add(c.snd_nxt, (m - 1) * MSS)]
  OBVIOUS
<1>6. PICK segs : segs = {Seg({"PSH", "ACK"}, seq[m], Chunk(data, m)) : m \in 1 .. k}
  OBVIOUS
<1>7. c.snd_nxt \in Int /\ size \in Int /\ \A m \in 1 .. k : (m - 1) * MSS \in Int
  <2>1. c.snd_nxt \in Int
    BY <1>2 DEF PcbOK, PcbType, Seqs
  <2>2. k * MSS \in Int /\ \A m \in 1 .. k : (m - 1) * MSS \in Int
    BY NumFacts
  <2> QED BY <1>4, <2>1, <2>2 DEF SmallerOf
<1>8. Add(c.snd_nxt, size) \in Seqs /\ \A m \in 1 .. k : seq[m] \in Seqs
  BY <1>5, <1>7, SeqOps
<1>9. segs \in SUBSET SegType
  <2>1. ASSUME NEW m \in 1 .. k PROVE Seg({"PSH", "ACK"}, seq[m], Chunk(data, m)) \in SegType
    <3>1. {"PSH", "ACK"} \in SUBSET Flags /\ m \in Nat \ {0}
      BY <2>1 DEF Flags
    <3> QED BY <1>8, <3>1, ChunkFacts, SegIsSeg
  <2> QED BY <1>6, <2>1
<1>10. /\ c.state = "ESTABLISHED" /\ c.state \in Live /\ wrote' = [wrote EXCEPT ![i] = @ + n]
       /\ taken' = taken /\ got' = got
  BY <1>1 DEF tcp_send, Live
<1>11. wrote' \in [Pcbs -> Nat]
  BY <1>2, <1>10
<1>12. CASE k = 0
  <2>1. pcb' = pcb /\ peer' = peer
    BY <1>12 DEF tcp_send
  <2> QED BY <1>1, <1>2, <1>9, <1>10, <1>11, <2>1, SendingKeeps
<1>13. CASE k # 0
  <2>1. k \in 1 .. k
    BY <1>13
  <2>2. PICK e : e = [c EXCEPT !.snd_nxt = Add(c.snd_nxt, size)]
    OBVIOUS
  <2>3. /\ PcbOK(e) /\ e.state = c.state /\ e.rx = c.rx /\ e.port = c.port
        /\ e.remote = c.remote /\ e.rcv_nxt = c.rcv_nxt
    BY <1>2, <1>8, <2>2, MovedFields
  <2>4. PICK chunk \in Seq(Nat) : chunk = Chunk(data, k)
    BY <1>13, ChunkFacts
  <2>5. PICK flags : flags = {"PSH", "ACK"}
    OBVIOUS
  <2>6. flags \in SUBSET Flags /\ flags # {} /\ seq[k] \in Seqs
    BY <1>8, <2>1, <2>5 DEF Flags
  <2>7. PICK d : d = tcp_track_tx(e, flags, seq[k], chunk)
    OBVIOUS
  <2>8. /\ PcbOK(d) /\ d.state = e.state /\ d.rx = e.rx /\ d.port = e.port
        /\ d.remote = e.remote /\ d.rcv_nxt = e.rcv_nxt
    BY <2>3, <2>6, <2>7, TrackFields
  <2>9. pcb' = [pcb EXCEPT ![i] = d]
    BY <1>1, <1>3, <1>4, <1>5, <1>13, <2>1, <2>2, <2>4, <2>5, <2>7 DEF tcp_send
  <2>10. peer' = Reaches(c, segs)
    <3>1. segs = {Seg({"PSH", "ACK"}, Add(c.snd_nxt, (m - 1) * MSS), Chunk(data, m)) :
                    m \in 1 .. k}
      BY <1>5, <1>6
    <3> QED BY <1>1, <1>3, <1>13, <3>1 DEF tcp_send
  <2> QED BY <1>1, <1>2, <1>9, <1>10, <1>11, <2>3, <2>8, <2>9, <2>10, SendingKeeps
<1> QED BY <1>12, <1>13

LEMMA SendDataKeeps ==
  ASSUME Received, NEW i \in Pcbs, NEW n \in Nat, NEW ok \in BOOLEAN, tcp_send_data(i, n, ok)
  PROVE  Received'
<1>1. PICK c : c = pcb[i]
  OBVIOUS
<1>2. /\ PcbOK(c) /\ taken \in Pcbs \cup {None} /\ wrote \in [Pcbs -> Nat]
  BY <1>1, PcbFacts
<1>3. PICK data \in Seq(Nat) : data = NewBytes(i, n)
  BY NewBytesFacts
<1>4. PICK flags : flags = {"PSH", "ACK"}
  OBVIOUS
<1>5. flags \in SUBSET Flags /\ flags # {} /\ c.snd_nxt \in Seqs /\ c.snd_nxt \in Int
  BY <1>2, <1>4 DEF Flags, PcbOK, PcbType, Seqs
<1>6. PICK e : e = tcp_track_tx(c, flags, c.snd_nxt, data)
  OBVIOUS
<1>7. /\ PcbOK(e) /\ e.state = c.state /\ e.rx = c.rx /\ e.port = c.port
      /\ e.remote = c.remote /\ e.rcv_nxt = c.rcv_nxt /\ e.snd_nxt = c.snd_nxt
  BY <1>2, <1>5, <1>6, TrackFields
<1>8. PICK segs : segs = {Seg(flags, c.snd_nxt, data)}
  OBVIOUS
<1>9. segs \in SUBSET SegType
  BY <1>5, <1>8, SegIsSeg
<1>10. PICK d : d = IF CanSend(c, n) /\ ok THEN [e EXCEPT !.snd_nxt = Add(e.snd_nxt, n)] ELSE e
  OBVIOUS
<1>11. /\ PcbOK(d) /\ d.state = c.state /\ d.rx = c.rx /\ d.port = c.port
       /\ d.remote = c.remote /\ d.rcv_nxt = c.rcv_nxt
  <2>1. Add(e.snd_nxt, n) \in Seqs
    BY <1>5, <1>7, SeqOps
  <2>2. CASE d = e
    BY <1>7, <2>2
  <2>3. CASE d = [e EXCEPT !.snd_nxt = Add(e.snd_nxt, n)]
    <3>1. /\ PcbOK(d) /\ d.state = e.state /\ d.rx = e.rx /\ d.port = e.port
          /\ d.remote = e.remote /\ d.rcv_nxt = e.rcv_nxt
      BY <1>7, <2>1, <2>3, MovedFields
    <3> QED BY <1>7, <3>1
  <2> QED BY <1>10, <2>2, <2>3
<1>12. /\ c.state = "ESTABLISHED" /\ c.state \in Live /\ wrote' = [wrote EXCEPT ![i] = @ + n]
       /\ taken' = taken /\ got' = got
       /\ pcb' = [pcb EXCEPT ![i] = d]
       /\ peer' = peer \/ peer' = Reaches(c, segs)
  BY <1>1, <1>3, <1>4, <1>6, <1>8, <1>10 DEF tcp_send_data, Live
<1>13. wrote' \in [Pcbs -> Nat]
  BY <1>2, <1>12
<1> QED BY <1>1, <1>2, <1>9, <1>11, <1>12, <1>13, SendingKeeps

LEMMA AnnounceKeeps ==
  ASSUME Received, NEW i \in Pcbs, tcp_announce_window(i)
  PROVE  Received'
<1>1. PICK d : d = pcb[i]
  OBVIOUS
<1>2. /\ PcbOK(d) /\ taken \in Pcbs \cup {None} /\ wrote \in [Pcbs -> Nat]
      /\ pcb = [pcb EXCEPT ![i] = d]
  BY <1>1, PcbFacts
<1>3. {} \in SUBSET SegType
  OBVIOUS
<1>4. /\ d.state \in Live /\ taken' = taken /\ got' = got /\ wrote' = wrote /\ pcb' = pcb
      /\ peer' = Reaches(pcb[i], {})
  BY <1>1 DEF tcp_announce_window, tcp_send_ack, Live
<1> QED BY <1>1, <1>2, <1>3, <1>4, SendingKeeps

LEMMA CloseKeeps ==
  ASSUME Received, NEW i \in Pcbs, Close(i)
  PROVE  Received'
<1>1. PICK c : c = pcb[i]
  OBVIOUS
<1>2. PICK g : g = got[i]
  OBVIOUS
<1>3. /\ PcbOK(c) /\ PcbRight(c, g, peer) /\ g \in Seq(Nat)
      /\ taken \in Pcbs \cup {None} /\ wrote \in [Pcbs -> Nat]
      /\ got = [got EXCEPT ![i] = g]
  BY <1>1, <1>2, PcbFacts
<1>4. PICK d : d = tcp_close(c, TRUE)
  OBVIOUS
<1>5. /\ PcbOK(d) /\ d.state = "LAST_ACK" /\ d.rx = c.rx /\ d.port = c.port
      /\ d.remote = c.remote
  BY <1>3, <1>4, CloseFields
<1>6. PICK segs : segs = {FinSeg(c)}
  OBVIOUS
<1>7. segs \in SUBSET SegType
  <2>1. {"FIN", "ACK"} \in SUBSET Flags /\ c.snd_nxt \in Seqs /\ <<>> \in Seq(Nat)
    BY <1>3 DEF Flags, PcbOK, PcbType
  <2> QED BY <1>6, <2>1, SegIsSeg DEF FinSeg
<1>8. PICK P : P = Reaches(c, segs)
  OBVIOUS
<1>9. /\ c.state \in {"ESTABLISHED", "CLOSE_WAIT"} /\ c.state \in Live
      /\ pcb' = [pcb EXCEPT ![i] = d] /\ peer' = P /\ taken' = taken
      /\ got' = got /\ wrote' = wrote
  BY <1>1, <1>4, <1>6, <1>8 DEF Close, Live, Closing
<1>10. Told(P, i) /\ c.remote \in Peers
  BY <1>1, <1>7, <1>8, <1>9, MayTell
<1>11. peer[c.remote].st = "open" /\ P[c.remote].st = "open"
  BY <1>3, <1>9, <1>10 DEF PcbRight, Closing, Told
<1>12. PcbRight(d, g, P)
  BY <1>3, <1>5, <1>10, <1>11 DEF PcbRight, Live, Closing
<1>13. Holds(d) => Alone(i, d.remote)
  BY <1>1, <1>5, <1>9, HolderAlone DEF Holds
<1> QED BY <1>3, <1>5, <1>9, <1>10, <1>12, <1>13, StepKeeps

LEMMA RecvKeeps ==
  ASSUME Received, NEW i \in Pcbs, NEW n \in Nat, Recv(i, n)
  PROVE  Received'
<1>1. PICK c : c = pcb[i]
  OBVIOUS
<1>2. PICK g : g = got[i]
  OBVIOUS
<1>3. /\ PcbOK(c) /\ PcbRight(c, g, peer) /\ g \in Seq(Nat) /\ c.rx \in Seq(Nat)
      /\ taken \in Pcbs \cup {None} /\ wrote \in [Pcbs -> Nat] /\ Len(c.rx) <= RxMax
  BY <1>1, <1>2, PcbFacts DEF PcbOK, PcbType
<1>4. PICK rx \in Seq(Nat) : rx = c.rx
  BY <1>3
<1>5. n \in 0 .. Len(rx) /\ rx # <<>>
  <2>1. n \in 1 .. Len(rx)
    BY <1>1, <1>4 DEF Recv
  <2>2. Len(<<>>) = 0
    OBVIOUS
  <2> QED BY <2>1, <2>2
<1>6. PICK a : a = SubSeq(rx, 1, n)
  OBVIOUS
<1>7. PICK b : b = SubSeq(rx, n + 1, Len(rx))
  OBVIOUS
<1>8. /\ a \in Seq(Nat) /\ b \in Seq(Nat) /\ a \o b = rx /\ Len(b) = Len(rx) - n
      /\ Len(a) = n
  BY <1>5, <1>6, <1>7, CutFacts
<1>9. PICK h : h = g \o a
  OBVIOUS
<1>10. h \in Seq(Nat) /\ Len(h) = Len(g) + n /\ h \o b = g \o rx
  <2>1. h \in Seq(Nat) /\ Len(h) = Len(g) + Len(a)
    BY <1>3, <1>8, <1>9, ConcatProperties
  <2>2. (g \o a) \o b = g \o (a \o b)
    BY <1>3, <1>8, ConcatNat, ZenonT(60)
  <2> QED BY <1>8, <1>9, <2>1, <2>2
<1>11. PICK d : d = [c EXCEPT !.rx = b]
  OBVIOUS
<1>12. /\ d \in PcbType /\ d.rx = b /\ d.state = c.state /\ d.port = c.port
       /\ d.remote = c.remote /\ d.rcv_nxt = c.rcv_nxt /\ d.last_tx = c.last_tx
  BY <1>3, <1>8, <1>11 DEF PcbOK, PcbType
<1>13. PcbOK(d)
  <2>1. PICK m \in Nat : m = Len(rx)
    BY LenProperties
  <2>2. m <= RxMax /\ Len(b) = m - n
    BY <1>3, <1>4, <1>8, <2>1
  <2>3. Len(b) <= RxMax
    BY <2>2, NumFacts
  <2> QED BY <1>3, <1>12, <2>3 DEF PcbOK
<1>14. /\ pcb' = [pcb EXCEPT ![i] = d] /\ got' = [got EXCEPT ![i] = h]
       /\ peer' = peer /\ taken' = taken /\ wrote' = wrote
  BY <1>1, <1>2, <1>4, <1>6, <1>7, <1>9, <1>11 DEF Recv
<1>15. PcbRight(d, h, peer)
  <2>1. /\ c.port # "ssh" /\ c.state \notin {"SYN_SENT", "SYN_RCVD"}
        /\ ~(c.state = "CLOSED" /\ c.last_tx.flags # {})
    BY <1>3, <1>4, <1>5 DEF PcbRight
  <2>2. c.state = "ESTABLISHED" => h \o d.rx = Upto(Offset(d))
    BY <1>3, <1>4, <1>10, <1>12 DEF PcbRight, Offset
  <2>3. ASSUME c.state \in Live \ Closing PROVE peer[c.remote].edge <= Len(h) + RxMax
    <3>1. /\ peer[c.remote].edge \in Int /\ peer[c.remote].edge <= Len(g) + RxMax
          /\ Len(g) \in Nat
      BY <1>3, <2>3 DEF PcbRight, Received, TypeInv, PeersType, PeerType
    <3> QED BY <1>10, <3>1, NumFacts
  <2> QED BY <1>3, <1>12, <2>1, <2>2, <2>3 DEF PcbRight
<1>16. Holds(d) => Alone(i, d.remote)
  BY <1>1, <1>12, HolderAlone DEF Holds
<1>17. PICK P : P = peer
  OBVIOUS
<1>18. Told(P, i)
  BY <1>17, NothingTold
<1> QED BY <1>3, <1>10, <1>13, <1>14, <1>15, <1>16, <1>17, <1>18, StepKeeps

LEMMA ConnectKeeps ==
  ASSUME Received, NEW q \in Servers, NEW ok \in BOOLEAN, tcp_connect(q, ok)
  PROVE  Received'
<1>1. PICK i : i = taken
  OBVIOUS
<1>2. i \in Pcbs
  BY <1>1 DEF tcp_connect, Received, TypeInv
<1>3. PICK c : c = pcb[i]
  OBVIOUS
<1>4. PcbOK(c) /\ wrote \in [Pcbs -> Nat] /\ peer \in PeersType
  BY <1>2, <1>3, PcbFacts DEF Received, TypeInv
<1>5. q \in Peers /\ peer[q] = NewPeer /\ Alone(i, q)
  BY DEF tcp_connect, Untried, Peers, Alone
<1>6. PICK e : e = Connecting(c, q)
  OBVIOUS
<1>7. /\ PcbOK(e) /\ e.last_tx = c.last_tx /\ e.state = "SYN_SENT" /\ e.rx = <<>>
      /\ e.port = "app" /\ e.remote = q
  BY <1>4, <1>6, ConnectingFields
<1>8. PICK segs : segs = {Seg({"SYN"}, e.snd_nxt, <<>>)}
  OBVIOUS
<1>9. segs \in SUBSET SegType
  <2>1. {"SYN"} \in SUBSET Flags /\ e.snd_nxt \in Seqs /\ <<>> \in Seq(Nat)
    BY <1>7 DEF Flags, PcbOK, PcbType
  <2> QED BY <1>8, <2>1, SegIsSeg
<1>10. RightEdge(e) = RxMax
  <2>1. Len(<<>>) = 0
    OBVIOUS
  <2> QED BY <1>7, <2>1, NumFacts DEF RightEdge, Window
<1>11. PICK d : d = IF ok THEN Control(e, {"SYN"}) ELSE e
  OBVIOUS
<1>12. /\ PcbOK(d) /\ d.state = "SYN_SENT" /\ d.rx = <<>> /\ d.port = "app" /\ d.remote = q
  <2>1. CASE ok
    <3>1. PICK flags : flags = {"SYN"}
      OBVIOUS
    <3>2. flags \in SUBSET Flags /\ flags # {} /\ d = Control(e, flags)
      BY <1>11, <2>1, <3>1 DEF Flags
    <3>3. /\ PcbOK(d) /\ d.state = e.state /\ d.rx = e.rx /\ d.port = e.port
          /\ d.remote = e.remote
      BY <1>7, <3>2, ControlFields
    <3> QED BY <1>7, <3>3
  <2>2. CASE ~ok
    BY <1>7, <1>11, <2>2
  <2> QED BY <2>1, <2>2
<1>13. PICK P : P = peer'
  OBVIOUS
<1>14. /\ P = peer \/ P = Reaches(e, segs)
       /\ pcb' = [pcb EXCEPT ![i] = d] /\ got' = [got EXCEPT ![i] = <<>>]
       /\ wrote' = [wrote EXCEPT ![i] = 0] /\ taken' = None
  BY <1>1, <1>3, <1>6, <1>8, <1>11, <1>13 DEF tcp_connect
<1>15. Told(P, i) /\ P[q].edge <= RxMax
  <2>1. peer[q].edge = 0
    BY <1>5 DEF NewPeer
  <2>2. CASE P = peer
    BY <1>2, <2>1, <2>2, NothingTold, NumFacts
  <2>3. CASE P = Reaches(e, segs)
    <3>1. /\ e.remote \in Peers /\ RightEdge(e) \in Int /\ RightEdge(e) <= RxMax
      BY <1>5, <1>7, <1>10, NumFacts
    <3>2. Told(P, i) /\ P[q].edge = LargerOf(peer[q].edge, RightEdge(e))
      BY <1>2, <1>7, <1>9, <2>3, <3>1, ReachTold
    <3> QED BY <1>10, <2>1, <3>2, NumFacts DEF LargerOf
  <2> QED BY <1>14, <2>2, <2>3
<1>16. PcbRight(d, <<>>, P)
  <2>1. Len(<<>>) = 0
    OBVIOUS
  <2> QED BY <1>5, <1>12, <1>15, <2>1, NumFacts DEF PcbRight, Live, Closing
<1>17. /\ <<>> \in Seq(Nat) /\ wrote' \in [Pcbs -> Nat] /\ taken' \in Pcbs \cup {None}
  <2>1. <<>> \in Seq(Nat)
    OBVIOUS
  <2>2. [wrote EXCEPT ![i] = 0] \in [Pcbs -> Nat]
    BY <1>4
  <2> QED BY <1>14, <2>1, <2>2
<1>18. PICK nil : nil = <<>>
  OBVIOUS
<1>19. /\ nil \in Seq(Nat) /\ PcbRight(d, nil, P) /\ got' = [got EXCEPT ![i] = nil]
       /\ peer' = P /\ (Holds(d) => Alone(i, d.remote))
  BY <1>5, <1>12, <1>13, <1>14, <1>16, <1>17, <1>18
<1> QED BY <1>2, <1>12, <1>14, <1>15, <1>17, <1>19, StepKeeps

-----------------------------------------------------------------------------
(* tcp_input *)

LEMMA ClientFacts == Clients \cap Servers = {} /\ None \notin Peers /\ Peers = Clients \cup Servers
BY TcpAssumption DEF Peers

(* A listener is found only for a client that has no pcb. *)
LEMMA FindFacts ==
  ASSUME Received, NEW q \in Peers, NEW i \in tcp_find_pcb(q)
  PROVE  /\ i \in Pcbs
         /\ pcb[i].state # "LISTEN" => pcb[i].remote = q /\ pcb[i].state # "CLOSED"
         /\ pcb[i].state = "LISTEN" => q \in Clients /\ \A j \in Pcbs : Alone(j, q)
<1>1. PICK exact : exact = {j \in Pcbs : pcb[j].state # "CLOSED" /\ pcb[j].remote = q}
  OBVIOUS
<1>2. \/ i \in exact
      \/ /\ exact = {} /\ i \in Pcbs /\ pcb[i].state = "LISTEN" /\ q \in Clients
  BY <1>1 DEF tcp_find_pcb
<1>3. CASE i \in exact
  <2>1. i \in Pcbs /\ pcb[i].state # "CLOSED" /\ pcb[i].remote = q
    BY <1>1, <1>3
  <2>2. pcb[i].state # "LISTEN"
    BY <2>1, PcbFacts, ClientFacts DEF PcbRight
  <2> QED BY <2>1, <2>2
<1>4. CASE /\ exact = {} /\ i \in Pcbs /\ pcb[i].state = "LISTEN" /\ q \in Clients
  <2>1. \A j \in Pcbs : Holds(pcb[j]) => pcb[j].remote # q
    BY <1>1, <1>4, ClientFacts DEF Holds, Live, Closing
  <2> QED BY <1>4, <2>1 DEF Alone
<1> QED BY <1>2, <1>3, <1>4

(* A client that sends a SYN has not heard of a connection. *)
LEMMA SynFacts ==
  ASSUME Received, NEW q \in Clients, NEW s \in Segments(q), "SYN" \in s.flags
  PROVE  peer[q].st # "open" /\ s.seq = PeerIsn
<1>1. q \in Peers /\ q \notin Servers /\ TypeInv
  BY ClientFacts DEF Received
<1> QED BY <1>1, SegmentKinds

(* An open connection that has taken in what s brings and answers it. *)
LEMMA ReceivingKeeps ==
  ASSUME Received, NEW i \in Pcbs, Holds(pcb[i]), NEW d, PcbOK(d), NEW g \in Seq(Nat),
         PcbRight(d, g, peer), d.state = "ESTABLISHED", d.remote = pcb[i].remote,
         peer' = peer \/ peer' = Reaches(d, {}),
         pcb' = [pcb EXCEPT ![i] = d], got' = [got EXCEPT ![i] = g],
         taken' = taken, wrote' = wrote
  PROVE  Received'
<1>1. Alone(i, d.remote) /\ taken' \in Pcbs \cup {None} /\ wrote' \in [Pcbs -> Nat]
  BY HolderAlone, PcbFacts
<1>2. /\ d.remote \in Peers /\ peer[d.remote].st = "open"
      /\ peer[d.remote].edge <= Len(g) + RxMax
  BY DEF PcbRight, Live, Closing
<1>3. PICK P : P = peer'
  OBVIOUS
<1>4. Told(P, i) /\ P[d.remote].edge <= Len(g) + RxMax
  <2>1. CASE P = peer
    BY <1>2, <2>1, NothingTold
  <2>2. CASE P = Reaches(d, {})
    <3>1. RightEdge(d) \in Int /\ RightEdge(d) = Len(g) + RxMax
      BY EdgeOf
    <3>2. {} \in SUBSET SegType
      OBVIOUS
    <3>3. Told(P, i) /\ P[d.remote].edge = LargerOf(peer[d.remote].edge, RightEdge(d))
      BY <1>1, <1>2, <2>2, <3>1, <3>2, ReachTold
    <3> QED BY <1>2, <3>1, <3>3 DEF LargerOf
  <2> QED BY <1>3, <2>1, <2>2
<1>5. PcbRight(d, g, P)
  <2>1. d.last_tx.flags # {} => d.last_tx.flags # {} \/ d.state \in Live
    OBVIOUS
  <2> QED BY <1>4, <2>1, SameConnection
<1> QED BY <1>1, <1>3, <1>4, <1>5, StepKeeps

(* The data of a segment that is in order fits, and continues the stream. *)
LEMMA StreamGoesOn ==
  ASSUME Received, \A q \in Peers : MaxIn[q] < SeqMod,
         NEW c, PcbOK(c), NEW g \in Seq(Nat), PcbRight(c, g, peer), c.state = "ESTABLISHED",
         NEW s \in Segments(c.remote), s.data # <<>>, InOrder(c, s),
         NEW d, d = Accepted(c, s),
         NEW h, h = IF c.port = "ssh" THEN g \o s.data ELSE g
  PROVE  PcbOK(d) /\ h \in Seq(Nat) /\ PcbRight(d, h, peer)
<1>1. PICK q \in Peers : q = c.remote
  BY DEF PcbRight, Live
<1>2. PICK a \in 0 .. peer[q].sent, b \in Nat :
        b \in a .. peer[q].sent /\ s.seq = Add(PeerIsn, a + 1) /\ s.data = Bytes(a, b)
  <2>1. peer[q].sent \in Nat
    BY DEF Received, TypeInv, PeersType, PeerType
  <2>2. \E x \in 0 .. peer[q].sent : \E y \in x .. peer[q].sent :
          s.seq = Add(PeerIsn, x + 1) /\ s.data = Bytes(x, y)
    BY <1>1, SegmentFacts
  <2>3. \A x \in 0 .. peer[q].sent : \A y \in x .. peer[q].sent : y \in Nat
    BY <2>1
  <2> QED BY <2>2, <2>3
<1>3. /\ peer[q].sent \in Nat /\ MaxIn[q] \in Nat /\ peer[q].edge \in Int
      /\ peer[q].sent <= MaxIn[q] /\ peer[q].sent <= peer[q].edge
      /\ peer[q].edge <= Len(g) + RxMax /\ MaxIn[q] < SeqMod
  BY <1>1, ConstFacts DEF Received, TypeInv, PeersType, PeerType, PeerRight, PcbRight,
     Live, Closing
<1>4. a \in Nat /\ a <= b /\ b < SeqMod /\ b <= Len(g) + RxMax
  <2>1. PICK n \in Nat : n = peer[q].sent
    BY <1>3
  <2>2. a \in Nat /\ a <= b /\ b <= n
    BY <1>2, <2>1
  <2>3. PICK e \in Int : e = peer[q].edge
    BY <1>3
  <2>4. Len(g) \in Nat
    BY LenProperties
  <2>5. n < SeqMod /\ n <= Len(g) + RxMax
    BY <1>3, <2>1, <2>3, <2>4, NumFacts
  <2> QED BY <2>2, <2>4, <2>5, NumFacts
<1>5. Add(PeerIsn, a + 1) = Add(First, a) /\ Sub(Add(First, a), First) = a
  BY <1>4, NumFacts, OffsetOf
<1>6. c.rcv_nxt = Add(First, a) /\ Offset(c) = a
  BY <1>2, <1>5 DEF InOrder, Offset
<1>7. /\ c.rx \in Seq(Nat) /\ s.data \in Seq(Nat) /\ Len(s.data) = b - a
      /\ Len(c.rx) \in Nat /\ Len(g) \in Nat
  BY <1>2, <1>4, BytesFacts, LenProperties DEF PcbOK, PcbType
<1>8. g \o c.rx = Upto(a) /\ Len(g) + Len(c.rx) = a
  <2>1. g \o c.rx = Upto(a)
    BY <1>6 DEF PcbRight
  <2>2. Len(g \o c.rx) = Len(g) + Len(c.rx) /\ Len(Upto(a)) = a
    BY <1>4, <1>7, ConcatProperties, UptoFacts
  <2> QED BY <2>1, <2>2
<1>9. Fits(c, s)
  BY <1>4, <1>7, <1>8, NumFacts DEF Fits
<1>10. /\ PcbOK(d) /\ d.last_tx = c.last_tx /\ d.state = c.state
       /\ d.port = c.port /\ d.remote = c.remote
       /\ d.rcv_nxt = Add(c.rcv_nxt, Len(s.data))
       /\ c.port = "ssh" => d.rx = c.rx
       /\ c.port # "ssh" => d.rx = c.rx \o s.data
  <2>1. s.data \in Seq(Nat)
    BY <1>7
  <2>2. /\ PcbOK(d) /\ d.last_tx = c.last_tx /\ d.state = c.state
        /\ d.port = c.port /\ d.remote = c.remote
        /\ d.rcv_nxt = Add(c.rcv_nxt, Len(s.data)) /\ d.rx = TakenIn(c, s)
    <3>1. PcbOK(d)
      BY <1>9, <2>1, AcceptedFields, Zenon
    <3>2. d.last_tx = c.last_tx /\ d.state = c.state
      BY <1>9, <2>1, AcceptedFields, ZenonT(60)
    <3>5. d.port = c.port /\ d.remote = c.remote
      BY <1>9, <2>1, AcceptedFields, ZenonT(60)
    <3>3. d.rcv_nxt = Add(c.rcv_nxt, Len(s.data))
      BY <1>9, <2>1, AcceptedFields, Zenon
    <3>4. d.rx = TakenIn(c, s)
      BY <1>9, <2>1, AcceptedFields, Zenon
    <3> QED BY <3>1, <3>2, <3>3, <3>4, <3>5, Zenon
  <2>3. /\ c.port = "ssh" => TakenIn(c, s) = c.rx
        /\ c.port # "ssh" => TakenIn(c, s) = c.rx \o s.data
    BY DEF TakenIn
  <2>4. /\ c.port = "ssh" => d.rx = c.rx
        /\ c.port # "ssh" => d.rx = c.rx \o s.data
    BY <2>2, <2>3
  <2> QED BY <2>2, <2>4
<1>11. Offset(d) = b
  <2>1. a + (b - a) = b /\ b - a \in Nat /\ b <= SeqMod
    BY <1>4, NumFacts
  <2>2. Add(Add(First, a), b - a) = Add(First, a + (b - a))
    BY <1>4, <2>1, FirstFacts, AddAdd
  <2>3. d.rcv_nxt = Add(First, b)
    BY <1>6, <1>7, <1>10, <2>1, <2>2
  <2> QED BY <1>4, <2>3, OffsetOf DEF Offset
<1>12. Upto(a) \o s.data = Upto(b)
  BY <1>2, <1>4, UptoMore
<1>13. h \in Seq(Nat) /\ h \o d.rx = Upto(b) /\ Len(h) >= Len(g)
  <2>1. CASE c.port = "ssh"
    <3>1. h = g \o s.data /\ d.rx = <<>> /\ c.rx = <<>>
      BY <1>10, <2>1 DEF PcbRight
    <3>2. g \o <<>> = g
      BY ConcatEmptySeq
    <3>3. g \o s.data \in Seq(Nat) /\ Len(g \o s.data) = Len(g) + Len(s.data)
      BY <1>7, ConcatProperties
    <3>4. h \o <<>> = h
      BY <3>1, <3>3, ConcatEmptySeq
    <3>5. Len(h) >= Len(g)
      BY <1>4, <1>7, <3>1, <3>3
    <3> QED BY <1>8, <1>12, <3>1, <3>2, <3>3, <3>4, <3>5
  <2>2. CASE c.port # "ssh"
    <3>1. h = g /\ d.rx = c.rx \o s.data
      BY <1>10, <2>2
    <3>2. (g \o c.rx) \o s.data = g \o (c.rx \o s.data)
      BY <1>7, ConcatNat
    <3>3. h \o d.rx = Upto(b)
      BY <1>8, <1>12, <3>1, <3>2
    <3>4. Len(h) >= Len(g)
      BY <1>7, <3>1
    <3> QED BY <3>1, <3>3, <3>4
  <2> QED BY <2>1, <2>2
<1>14. peer[d.remote].edge <= Len(h) + RxMax
  <2>1. Len(h) \in Nat
    BY <1>13, LenProperties
  <2> QED BY <1>1, <1>3, <1>7, <1>10, <1>13, <2>1, NumFacts, SMTT(30)
<1>15. d.port = "ssh" => d.rx = <<>>
  BY <1>10 DEF PcbRight
<1>16. PcbRight(d, h, peer)
  BY <1>10, <1>11, <1>13, <1>14, <1>15 DEF PcbRight, Live, Closing
<1> QED BY <1>10, <1>13, <1>16

(* c is refused: only its state changes. *)
LEMMA RefusedKeeps ==
  ASSUME Received, NEW i \in Pcbs, NEW c, c = pcb[i],
         \/ c.state = "SYN_SENT" /\ peer[c.remote].st = "open"
         \/ c.state = "SYN_RCVD",
         pcb' = [pcb EXCEPT ![i].state = "CLOSED"], got' = got, peer' = peer,
         taken' = taken, wrote' = wrote
  PROVE  Received'
<1>1. PICK g : g = got[i]
  OBVIOUS
<1>2. /\ PcbOK(c) /\ PcbRight(c, g, peer) /\ g \in Seq(Nat) /\ got = [got EXCEPT ![i] = g]
      /\ taken' \in Pcbs \cup {None} /\ wrote' \in [Pcbs -> Nat]
  BY <1>1, PcbFacts
<1>3. PICK d : d = [c EXCEPT !.state = "CLOSED"]
  OBVIOUS
<1>4. /\ PcbOK(d) /\ d.state = "CLOSED" /\ d.rx = c.rx /\ d.port = c.port
      /\ d.remote = c.remote /\ d.rcv_nxt = c.rcv_nxt /\ d.last_tx = c.last_tx
  BY <1>2, <1>3 DEF PcbOK, PcbType, States
<1>5. pcb' = [pcb EXCEPT ![i] = d]
  BY <1>3
<1>6. PICK P : P = peer
  OBVIOUS
<1>7. PcbRight(d, g, P)
  <2>1. d.rx = <<>> /\ d.remote \in Peers
    BY <1>2, <1>4 DEF PcbRight, Live
  <2>2. d.remote \in Clients => d.rcv_nxt = First
    BY <1>2, <1>4, ClientFacts DEF PcbRight
  <2>3. d.remote \in Servers => P[d.remote].st = "open"
    BY <1>2, <1>4, <1>6, ClientFacts DEF PcbRight
  <2> QED BY <1>4, <2>1, <2>2, <2>3 DEF PcbRight, Live, Closing
<1>8. Holds(d) => Alone(i, d.remote)
  BY <1>4, HolderAlone DEF Holds, Live
<1>9. Told(P, i)
  BY <1>6, NothingTold
<1> QED BY <1>2, <1>4, <1>5, <1>6, <1>7, <1>8, <1>9, StepKeeps

LEMMA InputListenKeeps ==
  ASSUME Received, NEW q \in Peers, NEW s \in Segments(q), NEW i \in tcp_find_pcb(q),
         NEW j \in Pcbs, NEW ok \in BOOLEAN, InputListen(i, q, s, j, ok), taken' = taken
  PROVE  Received'
<1>1. /\ q \in Clients /\ Alone(j, q) /\ q \notin Servers
  BY FindFacts, ClientFacts DEF InputListen
<1>2. peer[q].st # "open" /\ s.seq = PeerIsn
  BY <1>1, SynFacts DEF InputListen
<1>3. PICK f : f = tcp_get_free_pcb(j)
  OBVIOUS
<1>4. PcbOK(f)
  BY <1>3, FreePcbFacts DEF InputListen
<1>5. PICK c : c = Accepting(f, q, s)
  OBVIOUS
<1>6. /\ PcbOK(c) /\ c.state = "SYN_RCVD" /\ c.rx = <<>> /\ c.remote = q /\ c.rcv_nxt = First
  BY <1>1, <1>2, <1>4, <1>5, AcceptingFields
<1>7. PICK segs : segs = {Seg({"SYN", "ACK"}, c.snd_nxt, <<>>)}
  OBVIOUS
<1>8. segs \in SUBSET SegType
  <2>1. {"SYN", "ACK"} \in SUBSET Flags /\ c.snd_nxt \in Seqs /\ <<>> \in Seq(Nat)
    BY <1>6 DEF Flags, PcbOK, PcbType
  <2> QED BY <1>7, <2>1, SegIsSeg
<1>9. PICK d : d = IF ok THEN Control(c, {"SYN", "ACK"}) ELSE [c EXCEPT !.state = "CLOSED"]
  OBVIOUS
<1>10. PICK P : P = peer'
  OBVIOUS
<1>11. /\ pcb' = [pcb EXCEPT ![j] = d] /\ got' = [got EXCEPT ![j] = <<>>]
       /\ wrote' = [wrote EXCEPT ![j] = 0]
       /\ P = IF ok THEN Reaches(c, segs) ELSE peer
  BY <1>3, <1>5, <1>7, <1>9, <1>10 DEF InputListen
<1>12. PICK nil : nil = <<>>
  OBVIOUS
<1>13. /\ nil \in Seq(Nat) /\ Len(nil) = 0 /\ got' = [got EXCEPT ![j] = nil]
       /\ c.rx = nil /\ peer' = P
  BY <1>6, <1>10, <1>11, <1>12
<1>14. wrote' \in [Pcbs -> Nat] /\ taken' \in Pcbs \cup {None}
  BY <1>11, PcbFacts
<1>15. peer[q].edge \in Int /\ peer[q].edge <= RxMax
  BY <1>2 DEF Received, TypeInv, PeersType, PeerType, PeerRight
<1>16. CASE ~ok
  <2>1. d = [c EXCEPT !.state = "CLOSED"] /\ P = peer
    BY <1>9, <1>11, <1>16
  <2>2. /\ PcbOK(d) /\ d.state = "CLOSED" /\ d.rx = nil /\ d.remote = q /\ d.rcv_nxt = First
    BY <1>6, <1>13, <2>1 DEF PcbOK, PcbType, States
  <2>3. PcbRight(d, nil, P) /\ ~Holds(d)
    BY <1>1, <1>12, <2>2 DEF PcbRight, Holds, Live, Closing
  <2>4. Told(P, j)
    BY <2>1, NothingTold
  <2> QED BY <1>11, <1>13, <1>14, <2>2, <2>3, <2>4, StepKeeps
<1>17. CASE ok
  <2>1. PICK flags : flags = {"SYN", "ACK"}
    OBVIOUS
  <2>2. flags \in SUBSET Flags /\ flags # {} /\ d = Control(c, flags) /\ P = Reaches(c, segs)
    BY <1>9, <1>11, <1>17, <2>1 DEF Flags
  <2>3. /\ PcbOK(d) /\ d.state = c.state /\ d.rx = c.rx /\ d.remote = c.remote
        /\ d.rcv_nxt = c.rcv_nxt
    BY <1>6, <2>2, ControlFields
  <2>4. PcbRight(c, nil, peer)
    BY <1>1, <1>6, <1>12, <1>13, <1>15, NumFacts DEF PcbRight, Live, Closing
  <2>5. RightEdge(c) \in Int /\ RightEdge(c) = RxMax
    BY <1>6, <1>13, <2>4, EdgeOf
  <2>6. c.remote \in Peers /\ RightEdge(c) <= RxMax
    BY <1>6, <2>5, NumFacts
  <2>7. Told(P, j) /\ P[q].edge = LargerOf(peer[q].edge, RightEdge(c))
    BY <1>6, <1>8, <2>2, <2>5, <2>6, ReachTold
  <2>8. P[q].edge <= RxMax
    BY <1>15, <2>5, <2>7, NumFacts DEF LargerOf
  <2>9. PcbRight(d, nil, P)
    BY <1>1, <1>6, <1>12, <1>13, <2>3, <2>8, NumFacts DEF PcbRight, Live, Closing
  <2>10. Holds(d) => Alone(j, d.remote)
    BY <1>1, <1>6, <2>3
  <2> QED BY <1>11, <1>13, <1>14, <2>3, <2>7, <2>9, <2>10, StepKeeps
<1> QED BY <1>16, <1>17

(* The first byte of a connection that has just been opened. *)
LEMMA OpenedRight ==
  ASSUME NEW c, c.state \in {"SYN_SENT", "SYN_RCVD"}, NEW g, PcbRight(c, g, peer),
         peer[c.remote].st = "open", NEW d, d.state = "ESTABLISHED", d.last_tx.flags = {},
         d.rx = c.rx, d.port = c.port, d.remote = c.remote, d.rcv_nxt = First
  PROVE  PcbRight(d, g, peer)
<1>1. g = <<>> /\ d.rx = <<>> /\ d.remote \in Peers
  BY DEF PcbRight, Live
<1>2. Offset(d) = 0
  <2>1. First \in Seqs /\ First \in Int /\ First >= 0 /\ First < SeqMod
    BY FirstFacts, NumFacts DEF Seqs
  <2>2. First % SeqMod = First
    BY <2>1, NumFacts, ModSmall
  <2>3. Add(First, 0) = First
    BY <2>1, <2>2 DEF Add
  <2>4. Sub(Add(First, 0), First) = 0
    BY NumFacts, OffsetOf
  <2> QED BY <2>3, <2>4 DEF Offset
<1>3. <<>> \o <<>> = Upto(0)
  <2>1. Upto(0) \in Seq(Nat) /\ Len(Upto(0)) = 0
    BY UptoFacts
  <2>2. Upto(0) = <<>>
    BY <2>1, EmptySeq
  <2>3. <<>> \o <<>> = <<>>
    BY EmptySeq, ConcatEmptySeq
  <2> QED BY <2>2, <2>3
<1>4. peer[d.remote].edge <= Len(g) + RxMax
  BY DEF PcbRight, Live, Closing
<1> QED BY <1>1, <1>2, <1>3, <1>4 DEF PcbRight, Live, Closing

LEMMA InputSynSentKeeps ==
  ASSUME Received, NEW q \in Peers, NEW s \in Segments(q), NEW i \in tcp_find_pcb(q),
         NEW ok \in BOOLEAN, InputSynSent(i, s, ok), taken' = taken
  PROVE  Received'
<1>1. PICK c : c = pcb[i]
  OBVIOUS
<1>2. PICK g : g = got[i]
  OBVIOUS
<1>3. i \in Pcbs /\ c.state = "SYN_SENT" /\ c.remote = q
  BY <1>1, FindFacts DEF InputSynSent
<1>4. /\ PcbOK(c) /\ PcbRight(c, g, peer) /\ g \in Seq(Nat)
      /\ got = [got EXCEPT ![i] = g]
  BY <1>1, <1>2, <1>3, PcbFacts
<1>5. got' = got /\ wrote' = wrote
  BY DEF InputSynSent
<1>6. /\ s.ack \in Seqs /\ s.wnd \in Int
      /\ s.flags = {"SYN"} \/ peer[q].st = "open"
      /\ "SYN" \in s.flags => s.seq = PeerIsn
  BY SegmentFacts
<1>7. CASE /\ {"SYN", "ACK"} \subseteq s.flags
           /\ pcb' = [pcb EXCEPT ![i] = [Established(@, s) EXCEPT !.rcv_nxt = Add(s.seq, 1)]]
           /\ peer' = tcp_send_ack(pcb'[i], ok)
  <2>1. peer[c.remote].st = "open" /\ Add(s.seq, 1) = First
    BY <1>3, <1>6, <1>7 DEF First
  <2>2. PICK e : e = Established(c, s)
    OBVIOUS
  <2>3. /\ PcbOK(e) /\ e.last_tx.flags = {} /\ e.state = "ESTABLISHED" /\ e.rx = c.rx
        /\ e.port = c.port /\ e.remote = c.remote
    BY <1>4, <1>6, <2>2, EstablishedFields
  <2>4. PICK d : d = [e EXCEPT !.rcv_nxt = First]
    OBVIOUS
  <2>5. /\ PcbOK(d) /\ d.last_tx.flags = {} /\ d.state = "ESTABLISHED" /\ d.rx = c.rx
        /\ d.port = c.port /\ d.remote = c.remote /\ d.rcv_nxt = First
    BY <2>3, <2>4, FirstFacts DEF PcbOK, PcbType
  <2>6. pcb' = [pcb EXCEPT ![i] = d]
    BY <1>1, <1>7, <2>1, <2>2, <2>4
  <2>7. pcb'[i] = d
    BY <1>3, <2>6 DEF Received, TypeInv
  <2>8. peer' = peer \/ peer' = Reaches(d, {})
    BY <1>7, <2>7 DEF tcp_send_ack
  <2>9. PcbRight(d, g, peer)
    BY <1>3, <1>4, <2>1, <2>5, OpenedRight
  <2>10. Holds(pcb[i])
    BY <1>1, <1>3 DEF Holds, Live
  <2> QED BY <1>1, <1>3, <1>4, <1>5, <2>5, <2>6, <2>8, <2>9, <2>10, ReceivingKeeps
<1>8. CASE /\ "RST" \in s.flags
           /\ pcb' = [pcb EXCEPT ![i].state = "CLOSED"] /\ peer' = peer
  <2>1. peer[c.remote].st = "open"
    BY <1>3, <1>6, <1>8
  <2> QED BY <1>1, <1>3, <1>5, <1>8, <2>1, RefusedKeeps
<1> QED BY <1>7, <1>8 DEF InputSynSent

LEMMA InputSynRcvdKeeps ==
  ASSUME Received, \A p \in Peers : MaxIn[p] < SeqMod,
         NEW q \in Peers, NEW s \in Segments(q), NEW i \in tcp_find_pcb(q),
         NEW ok \in BOOLEAN, InputSynRcvd(i, s, ok), taken' = taken
  PROVE  Received'
<1>1. PICK c : c = pcb[i]
  OBVIOUS
<1>2. PICK g : g = got[i]
  OBVIOUS
<1>3. i \in Pcbs /\ c.state = "SYN_RCVD" /\ c.remote = q
  BY <1>1, FindFacts DEF InputSynRcvd
<1>4. /\ PcbOK(c) /\ PcbRight(c, g, peer) /\ g \in Seq(Nat)
      /\ got = [got EXCEPT ![i] = g]
  BY <1>1, <1>2, <1>3, PcbFacts
<1>5. wrote' = wrote /\ Holds(pcb[i])
  BY <1>1, <1>3 DEF InputSynRcvd, Holds, Live
<1>6. /\ s.ack \in Seqs /\ s.wnd \in Int
      /\ s.flags = {"SYN"} \/ peer[q].st = "open"
  BY SegmentFacts
<1>7. CASE "ACK" \in s.flags
  <2>1. peer[c.remote].st = "open"
    BY <1>3, <1>6, <1>7
  <2>2. PICK e : e = Established(c, s)
    OBVIOUS
  <2>3. /\ PcbOK(e) /\ e.last_tx.flags = {} /\ e.state = "ESTABLISHED" /\ e.rx = c.rx
        /\ e.port = c.port /\ e.remote = c.remote /\ e.rcv_nxt = c.rcv_nxt
    BY <1>4, <1>6, <2>2, EstablishedFields
  <2>4. e.rcv_nxt = First
    BY <1>3, <1>4, <2>3 DEF PcbRight
  <2>5. PcbRight(e, g, peer)
    BY <1>3, <1>4, <2>1, <2>3, <2>4, OpenedRight
  <2>6. CASE s.data # <<>> /\ InOrder(e, s)
    <3>1. PICK d : d = Accepted(e, s)
      OBVIOUS
    <3>2. PICK h : h = IF e.port = "ssh" THEN g \o s.data ELSE g
      OBVIOUS
    <3>3. PcbOK(d) /\ h \in Seq(Nat) /\ PcbRight(d, h, peer)
      BY <1>3, <1>4, <2>3, <2>5, <2>6, <3>1, <3>2, StreamGoesOn
    <3>4. d.state = "ESTABLISHED" /\ d.remote = e.remote
      BY <2>3, <3>1 DEF Accepted, PcbOK, PcbType
    <3>5. /\ pcb' = [pcb EXCEPT ![i] = d] /\ peer' = tcp_send_ack(pcb'[i], ok)
          /\ PassedOn(i, s)
      BY <1>1, <1>7, <2>2, <2>6, <3>1 DEF InputSynRcvd
    <3>6. got' = [got EXCEPT ![i] = h]
      BY <1>1, <1>2, <1>4, <2>3, <3>2, <3>5 DEF PassedOn
    <3>7. pcb'[i] = d
      BY <1>3, <3>5 DEF Received, TypeInv
    <3>8. peer' = peer \/ peer' = Reaches(d, {})
      BY <3>5, <3>7 DEF tcp_send_ack
    <3>9. d.remote = pcb[i].remote
      BY <1>1, <2>3, <3>4
    <3> QED BY <1>3, <1>5, <3>3, <3>4, <3>5, <3>6, <3>8, <3>9, ReceivingKeeps
  <2>7. CASE ~(s.data # <<>> /\ InOrder(e, s))
    <3>1. pcb' = [pcb EXCEPT ![i] = e] /\ got' = got /\ peer' = peer
      BY <1>1, <1>7, <2>2, <2>7 DEF InputSynRcvd
    <3> QED BY <1>1, <1>3, <1>4, <1>5, <2>3, <2>5, <3>1, ReceivingKeeps
  <2> QED BY <2>6, <2>7
<1>8. CASE "ACK" \notin s.flags
  <2>1. pcb' = [pcb EXCEPT ![i].state = "CLOSED"] /\ got' = got /\ peer' = peer
    BY <1>8 DEF InputSynRcvd
  <2> QED BY <1>1, <1>3, <1>5, <2>1, RefusedKeeps
<1> QED BY <1>7, <1>8

LEMMA InputClosedKeeps ==
  ASSUME Received, NEW q \in Peers, NEW s \in Segments(q), NEW i \in tcp_find_pcb(q),
         InputReset(i, s) \/ InputLastAck(i, s), taken' = taken
  PROVE  Received'
<1>1. PICK c : c = pcb[i]
  OBVIOUS
<1>2. i \in Pcbs
  BY FindFacts
<1>3. PcbOK(c) /\ PcbRight(c, got[i], peer) /\ taken' \in Pcbs \cup {None}
  BY <1>1, <1>2, PcbFacts
<1>4. PICK d : d = Forgotten(c, "CLOSED")
  OBVIOUS
<1>5. /\ PcbOK(d) /\ d.state = "CLOSED" /\ d.last_tx.flags = {} /\ d.rx = c.rx
      /\ d.port = c.port
  <2>1. "CLOSED" \in States
    BY DEF States
  <2> QED BY <1>3, <1>4, <2>1, ForgetFields
<1>6. /\ pcb' = [pcb EXCEPT ![i].state = "CLOSED",
                            ![i].last_tx.flags = {}, ![i].last_tx.data = <<>>]
      /\ got' = got /\ wrote' = wrote /\ peer' = peer
  BY DEF InputReset, InputLastAck
<1>7. pcb' = [pcb EXCEPT ![i] = d]
  BY <1>1, <1>2, <1>3, <1>4, <1>6, ZenonT(60) DEF Forgotten, PcbOK, PcbType, TrackType, Received, TypeInv
<1>8. d.port = "ssh" => d.rx = <<>>
  BY <1>3, <1>5 DEF PcbRight
<1> QED BY <1>2, <1>3, <1>5, <1>6, <1>7, <1>8, ClosingKeeps

LEMMA AcknowledgedRight ==
  ASSUME Received, NEW i \in Pcbs, NEW c, PcbOK(c), NEW g, PcbRight(c, g, peer),
         c.state = "ESTABLISHED", NEW s, s.ack \in Seqs, s.wnd \in Int,
         NEW d, d = Acknowledged(c, s)
  PROVE  /\ PcbOK(d) /\ PcbRight(d, g, peer) /\ d.state = c.state /\ d.remote = c.remote
         /\ d.port = c.port /\ d.rx = c.rx /\ d.rcv_nxt = c.rcv_nxt
<1>1. /\ PcbOK(d) /\ d.state = c.state /\ d.rx = c.rx
      /\ d.port = c.port /\ d.remote = c.remote /\ d.rcv_nxt = c.rcv_nxt
  BY AcknowledgedFields
<1>2. d.last_tx.flags # {} => c.last_tx.flags # {} \/ c.state \in Live
  BY DEF Live
<1>3. PICK P : P = peer
  OBVIOUS
<1>4. Told(P, i)
  BY <1>3, NothingTold
<1>5. c.state \in Live \ Closing => P[c.remote].edge <= Len(g) + RxMax
  BY <1>3 DEF PcbRight
<1>6. PcbRight(d, g, P)
  BY <1>1, <1>2, <1>4, <1>5, SameConnection
<1> QED BY <1>1, <1>3, <1>6

LEMMA InputDataKeeps ==
  ASSUME Received, \A p \in Peers : MaxIn[p] < SeqMod,
         NEW q \in Peers, NEW s \in Segments(q), NEW i \in tcp_find_pcb(q),
         NEW ok \in BOOLEAN, InputData(i, s, ok), taken' = taken
  PROVE  Received'
<1>1. PICK c : c = pcb[i]
  OBVIOUS
<1>2. PICK g : g = got[i]
  OBVIOUS
<1>3. i \in Pcbs /\ c.state = "ESTABLISHED" /\ c.remote = q
  BY <1>1, FindFacts DEF InputData
<1>4. /\ PcbOK(c) /\ PcbRight(c, g, peer) /\ g \in Seq(Nat)
      /\ got = [got EXCEPT ![i] = g]
  BY <1>1, <1>2, <1>3, PcbFacts
<1>5. wrote' = wrote /\ Holds(pcb[i])
  BY <1>1, <1>3 DEF InputData, Holds, Live
<1>6. s.ack \in Seqs /\ s.wnd \in Int
  BY SegmentFacts
<1>7. PICK e : e = Acknowledged(c, s)
  OBVIOUS
<1>8. /\ PcbOK(e) /\ PcbRight(e, g, peer) /\ e.state = c.state /\ e.remote = c.remote
      /\ e.port = c.port
  BY <1>3, <1>4, <1>6, <1>7, AcknowledgedRight
<1>9. peer' = peer \/ peer' = Reaches(pcb'[i], {})
  BY DEF InputData, tcp_send_ack
<1>10. CASE s.data # <<>> /\ InOrder(e, s)
  <2>1. PICK d : d = Accepted(e, s)
    OBVIOUS
  <2>2. PICK h : h = IF e.port = "ssh" THEN g \o s.data ELSE g
    OBVIOUS
  <2>3. PcbOK(d) /\ h \in Seq(Nat) /\ PcbRight(d, h, peer)
    BY <1>3, <1>4, <1>8, <1>10, <2>1, <2>2, StreamGoesOn
  <2>4. d.state = "ESTABLISHED" /\ d.remote = e.remote
    BY <1>3, <1>8, <2>1 DEF Accepted, PcbOK, PcbType
  <2>5. pcb' = [pcb EXCEPT ![i] = d] /\ PassedOn(i, s)
    BY <1>1, <1>7, <1>10, <2>1 DEF InputData
  <2>6. got' = [got EXCEPT ![i] = h]
    BY <1>1, <1>2, <1>4, <1>8, <2>2, <2>5 DEF PassedOn
  <2>7. pcb'[i] = d
    BY <1>3, <2>5 DEF Received, TypeInv
  <2>8. d.remote = pcb[i].remote /\ (peer' = peer \/ peer' = Reaches(d, {}))
    BY <1>1, <1>8, <1>9, <2>4, <2>7
  <2> QED BY <1>3, <1>5, <2>3, <2>4, <2>5, <2>6, <2>8, ReceivingKeeps
<1>11. CASE ~(s.data # <<>> /\ InOrder(e, s))
  <2>1. pcb' = [pcb EXCEPT ![i] = e] /\ got' = got
    BY <1>1, <1>7, <1>11 DEF InputData
  <2>2. pcb'[i] = e
    BY <1>3, <2>1 DEF Received, TypeInv
  <2>3. e.state = "ESTABLISHED" /\ e.remote = pcb[i].remote
        /\ (peer' = peer \/ peer' = Reaches(e, {}))
    BY <1>1, <1>3, <1>8, <1>9, <2>2
  <2> QED BY <1>3, <1>4, <1>5, <1>8, <2>1, <2>3, ReceivingKeeps
<1> QED BY <1>10, <1>11

LEMMA InputFinKeeps ==
  ASSUME Received, NEW q \in Peers, NEW s \in Segments(q), NEW i \in tcp_find_pcb(q),
         NEW ok \in BOOLEAN, InputFin(i, s, ok), taken' = taken
  PROVE  Received'
<1>1. PICK b : b = pcb[i]
  OBVIOUS
<1>2. PICK g : g = got[i]
  OBVIOUS
<1>3. i \in Pcbs /\ b.state = "ESTABLISHED" /\ b.remote = q
  BY <1>1, FindFacts DEF InputFin
<1>4. /\ PcbOK(b) /\ PcbRight(b, g, peer) /\ g \in Seq(Nat)
      /\ got = [got EXCEPT ![i] = g]
  BY <1>1, <1>2, <1>3, PcbFacts
<1>5. s.ack \in Seqs /\ s.wnd \in Int /\ s.seq \in Seqs
  BY SegmentFacts
<1>6. PICK a : a = Acknowledged(b, s)
  OBVIOUS
<1>7. /\ PcbOK(a) /\ a.remote = b.remote /\ a.port = b.port /\ a.rx = b.rx
  BY <1>3, <1>4, <1>5, <1>6, AcknowledgedRight
<1>8. PICK c : c = [a EXCEPT !.rcv_nxt = Add(s.seq, 1), !.state = "CLOSE_WAIT"]
  OBVIOUS
<1>9. /\ PcbOK(c) /\ c.state = "CLOSE_WAIT" /\ c.remote = q /\ c.port = b.port /\ c.rx = b.rx
  <2>0. s.seq \in Int
    BY <1>5 DEF Seqs
  <2>1. Add(s.seq, 1) \in Seqs
    BY <2>0, SeqOps
  <2>2. "CLOSE_WAIT" \in States
    BY DEF States, Live, Closing
  <2> QED BY <1>3, <1>7, <1>8, <2>1, <2>2 DEF PcbOK, PcbType
<1>10. peer[q].st = "open" /\ (c.port = "ssh" => c.rx = <<>>)
  BY <1>3, <1>4, <1>9 DEF PcbRight
<1>11. PICK segs : segs = {FinSeg(c)}
  OBVIOUS
<1>12. segs \in SUBSET SegType
  <2>1. {"FIN", "ACK"} \in SUBSET Flags /\ c.snd_nxt \in Seqs /\ <<>> \in Seq(Nat)
    BY <1>9 DEF Flags, PcbOK, PcbType
  <2> QED BY <1>11, <2>1, SegIsSeg DEF FinSeg
<1>13. PICK d : d = tcp_close(c, ok)
  OBVIOUS
<1>14. /\ PcbOK(d) /\ d.state \in Closing /\ d.rx = c.rx /\ d.port = c.port /\ d.remote = q
  <2>1. CASE ok
    <3>1. d = tcp_close(c, TRUE)
      BY <1>13, <2>1
    <3>2. PcbOK(d) /\ d.state = "LAST_ACK" /\ d.rx = c.rx /\ d.port = c.port
          /\ d.remote = c.remote
      BY <1>9, <3>1, CloseFields, ZenonT(60)
    <3> QED BY <1>9, <3>2 DEF Closing
  <2>2. CASE ~ok
    BY <1>9, <1>13, <2>2 DEF tcp_close, Closing
  <2> QED BY <2>1, <2>2
<1>15. PICK P : P = peer'
  OBVIOUS
<1>16. /\ pcb' = [pcb EXCEPT ![i] = d] /\ got' = got /\ wrote' = wrote
       /\ P = peer \/ P = Reaches(c, segs)
  BY <1>1, <1>6, <1>8, <1>11, <1>13, <1>15 DEF InputFin
<1>17. Alone(i, q)
  BY <1>1, <1>3, HolderAlone DEF Holds, Live
<1>18. RightEdge(c) \in Int
  <2>1. /\ c.rcv_nxt \in Int /\ Len(c.rx) \in Nat /\ First \in Int
    BY <1>9, FirstFacts, LenProperties DEF PcbOK, PcbType, Seqs
  <2>2. Sub(c.rcv_nxt, First) \in Int
    <3>1. Sub(c.rcv_nxt, First) \in Seqs
      BY <2>1, SeqOps
    <3> QED BY <3>1 DEF Seqs
  <2>3. RightEdge(c) = Sub(c.rcv_nxt, First) + (RxMax - Len(c.rx))
    BY <1>9 DEF RightEdge, Window, First
  <2> QED BY <2>1, <2>2, <2>3, NumFacts
<1>19. Told(P, i)
  <2>1. CASE P = peer
    BY <1>3, <2>1, NothingTold
  <2>2. CASE P = Reaches(c, segs)
    BY <1>3, <1>9, <1>10, <1>12, <1>17, <1>18, <2>2, ReachTold
  <2> QED BY <1>16, <2>1, <2>2
<1>20. PcbRight(d, g, P)
  <2>1. P[q].st = "open"
    BY <1>10, <1>19 DEF Told
  <2> QED BY <1>9, <1>10, <1>14, <2>1 DEF PcbRight, Live, Closing
<1>21. taken' \in Pcbs \cup {None} /\ wrote' \in [Pcbs -> Nat]
  BY <1>3, <1>16, PcbFacts
<1> QED BY <1>3, <1>4, <1>14, <1>15, <1>16, <1>17, <1>19, <1>20, <1>21, StepKeeps

LEMMA InputKeeps ==
  ASSUME Received, \A p \in Peers : MaxIn[p] < SeqMod, NEW q \in Peers, tcp_input(q)
  PROVE  Received'
<1>1. PICK s \in Segments(q), ok \in BOOLEAN, i \in tcp_find_pcb(q) :
        \/ \E j \in Pcbs : InputListen(i, q, s, j, ok)
        \/ InputSynSent(i, s, ok)
        \/ InputSynRcvd(i, s, ok)
        \/ InputReset(i, s)
        \/ InputFin(i, s, ok)
        \/ InputData(i, s, ok)
        \/ InputLastAck(i, s)
  BY DEF tcp_input
<1>2. taken' = taken
  BY DEF tcp_input
<1> QED BY <1>1, <1>2, InputListenKeeps, InputSynSentKeeps, InputSynRcvdKeeps,
           InputClosedKeeps, InputFinKeeps, InputDataKeeps

-----------------------------------------------------------------------------
(* The peers *)

(* p is what becomes of peer q in a step of its own. *)
LEMMA PeerKeeps ==
  ASSUME Received, NEW q \in Peers, NEW p \in PeerType, PeerRight(q, p),
         peer[q].st = "open" => p.st = "open", p.edge = peer[q].edge,
         peer' = [peer EXCEPT ![q] = p], UNCHANGED <<pcb, taken, got, wrote>>
  PROVE  Received'
<1>1. peer \in PeersType
  BY DEF Received, TypeInv
<1>2. /\ peer' \in PeersType /\ peer'[q] = p
      /\ \A r \in Peers \ {q} : peer'[r] = peer[r]
  BY <1>1 DEF PeersType
<1>3. TypeInv'
  BY <1>2 DEF Received, TypeInv
<1>4. \A r \in Peers : PeerRight(r, peer'[r])
  BY <1>2 DEF Received
<1>5. \A r \in Peers : /\ peer'[r].edge = peer[r].edge
                       /\ peer[r].st = "open" => peer'[r].st = "open"
  BY <1>2
<1>6. ASSUME NEW i \in Pcbs PROVE PcbRight(pcb[i], got[i], peer')
  <2>1. PICK c : c = pcb[i]
    OBVIOUS
  <2>2. PICK g : g = got[i]
    OBVIOUS
  <2>3. PcbRight(c, g, peer)
    BY <2>1, <2>2 DEF Received
  <2>4. c.state \in Live \/ c.last_tx.flags # {} => c.remote \in Peers
    BY <2>3 DEF PcbRight
  <2>5. c.state \in {"ESTABLISHED"} \cup Closing => peer'[c.remote].st = "open"
    BY <1>5, <2>3, <2>4 DEF PcbRight, Live
  <2>6. c.state = "CLOSED" /\ c.last_tx.flags # {} =>
          /\ c.rx = <<>>
          /\ c.remote \in Clients => c.rcv_nxt = First
          /\ c.remote \in Servers => peer'[c.remote].st = "open"
    BY <1>5, <2>3, <2>4 DEF PcbRight
  <2>7. c.state \in Live \ Closing => peer'[c.remote].edge <= Len(g) + RxMax
    BY <1>5, <2>3, <2>4 DEF PcbRight
  <2>8. PcbRight(c, g, peer')
    BY <2>3, <2>5, <2>6, <2>7 DEF PcbRight
  <2> QED BY <2>1, <2>2, <2>8
<1>7. \A i \in Pcbs : PcbRight(pcb'[i], got'[i], peer')
  BY <1>6
<1>8. OneHolder(pcb')
  BY DEF Received
<1> QED BY <1>3, <1>4, <1>7, <1>8 DEF Received

LEMMA AckingFacts ==
  ASSUME NEW p \in PeerType
  PROVE  /\ Acking(p) \in PeerType /\ Acking(p).st = p.st /\ Acking(p).sent = p.sent
         /\ Acking(p).fin = p.fin /\ Acking(p).rst = p.rst /\ Acking(p).edge = p.edge
         /\ Acking(p).rcv = p.rcv /\ Acking(p).unread = p.unread
<1>1. PICK x : x = <<p.rcv, PeerBuf - p.unread>>
  OBVIOUS
<1>2. x \in Seqs \X Int
  <2>1. p.rcv \in Seqs /\ p.unread \in Nat
    BY DEF PeerType
  <2>2. PeerBuf - p.unread \in Int
    BY <2>1, NumFacts
  <2> QED BY <1>1, <2>1, <2>2
<1>3. PICK a : a = p.acks \cup {x}
  OBVIOUS
<1>4. a \in SUBSET (Seqs \X Int)
  BY <1>2, <1>3 DEF PeerType
<1>5. Acking(p) = [p EXCEPT !.acks = a]
  BY <1>1, <1>3 DEF Acking, PeerType
<1> QED BY <1>4, <1>5 DEF PeerType

LEMMA PeerOpensKeeps ==
  ASSUME Received, NEW q \in Peers, NEW s \in peer[q].wire, PeerOpens(q, s),
         UNCHANGED <<pcb, taken, got, wrote>>
  PROVE  Received'
<1>1. PICK p : p = peer[q]
  OBVIOUS
<1>2. p \in PeerType /\ PeerRight(q, p)
  BY <1>1 DEF Received, TypeInv, PeersType
<1>3. Add(s.seq, 1) \in Seqs
  <2>1. s.seq \in Seqs
    BY <1>1, <1>2 DEF PeerType, SegType
  <2>2. s.seq \in Int
    BY <2>1 DEF Seqs
  <2> QED BY <2>2, SeqOps
<1>4. PICK o : o = [p EXCEPT !.st = "open", !.rcv = Add(s.seq, 1)]
  OBVIOUS
<1>5. /\ o \in PeerType /\ o.st = "open" /\ o.sent = p.sent /\ o.edge = p.edge
  BY <1>2, <1>3, <1>4 DEF PeerType
<1>6. PICK n : n = Acking(o)
  OBVIOUS
<1>7. n \in PeerType /\ n.st = "open" /\ n.sent = p.sent /\ n.edge = p.edge
  BY <1>5, <1>6, AckingFacts
<1>8. peer' = [peer EXCEPT ![q] = n]
  BY <1>1, <1>4, <1>6 DEF PeerOpens
<1>9. PeerRight(q, n)
  BY <1>2, <1>7 DEF PeerRight
<1> QED BY <1>1, <1>7, <1>8, <1>9, PeerKeeps

(* Taking more of what AJOS sends: only rcv, unread and acks change. *)
LEMMA TakingKeeps ==
  ASSUME Received, NEW q \in Peers, NEW r \in Seqs, NEW u \in Nat, peer[q].st = "open",
         peer' = [peer EXCEPT ![q] = Acking([peer[q] EXCEPT !.rcv = r, !.unread = u])],
         UNCHANGED <<pcb, taken, got, wrote>>
  PROVE  Received'
<1>1. PICK p : p = peer[q]
  OBVIOUS
<1>2. p \in PeerType /\ PeerRight(q, p) /\ p.st = "open"
  BY <1>1 DEF Received, TypeInv, PeersType
<1>3. PICK o : o = [p EXCEPT !.rcv = r, !.unread = u]
  OBVIOUS
<1>4. /\ o \in PeerType /\ o.st = "open" /\ o.sent = p.sent /\ o.edge = p.edge
  BY <1>2, <1>3 DEF PeerType
<1>5. PICK n : n = Acking(o)
  OBVIOUS
<1>6. n \in PeerType /\ n.st = "open" /\ n.sent = p.sent /\ n.edge = p.edge
  BY <1>4, <1>5, AckingFacts
<1>7. peer' = [peer EXCEPT ![q] = n]
  BY <1>1, <1>3, <1>5
<1>8. PeerRight(q, n)
  BY <1>2, <1>6 DEF PeerRight
<1> QED BY <1>1, <1>6, <1>7, <1>8, PeerKeeps

LEMMA PeerTakesKeeps ==
  ASSUME Received, NEW q \in Peers, NEW s \in peer[q].wire, PeerTakes(q, s),
         UNCHANGED <<pcb, taken, got, wrote>>
  PROVE  Received'
<1>1. PICK p : p = peer[q]
  OBVIOUS
<1>2. p \in PeerType /\ peer \in PeersType /\ p.st = "open"
  BY <1>1 DEF Received, TypeInv, PeersType, PeerTakes
<1>3. p.rcv \in Seqs /\ p.unread \in Nat /\ s.seq \in Seqs /\ s.data \in Seq(Nat)
  BY <1>1, <1>2 DEF PeerType, SegType
<1>4. p.rcv \in Int /\ s.seq \in Int /\ Len(s.data) \in Nat
  BY <1>3, LenProperties DEF Seqs
<1>5. PICK behind : behind = Sub(p.rcv, s.seq)
  OBVIOUS
<1>6. behind \in Int
  <2>1. behind \in Seqs
    BY <1>4, <1>5, SeqOps
  <2> QED BY <2>1 DEF Seqs
<1>7. PICK new \in Int : new = Len(s.data) - behind
  BY <1>4, <1>6
<1>8. \/ /\ new > 0
         /\ peer' = [peer EXCEPT ![q] =
              Acking([p EXCEPT !.rcv = Add(p.rcv, new), !.unread = p.unread + new])]
      \/ peer' = [peer EXCEPT ![q] = Acking([p EXCEPT !.rcv = Add(p.rcv, 1)])]
  BY <1>1, <1>5, <1>7 DEF PeerTakes
<1>9. Add(p.rcv, new) \in Seqs /\ Add(p.rcv, 1) \in Seqs
  BY <1>4, SeqOps
<1>10. CASE /\ new > 0
            /\ peer' = [peer EXCEPT ![q] =
                 Acking([p EXCEPT !.rcv = Add(p.rcv, new), !.unread = p.unread + new])]
  <2>1. p.unread + new \in Nat
    BY <1>3, <1>10
  <2> QED BY <1>1, <1>2, <1>9, <1>10, <2>1, TakingKeeps
<1>11. CASE peer' = [peer EXCEPT ![q] = Acking([p EXCEPT !.rcv = Add(p.rcv, 1)])]
  <2>1. [p EXCEPT !.rcv = Add(p.rcv, 1)] = [p EXCEPT !.rcv = Add(p.rcv, 1), !.unread = p.unread]
    BY <1>2 DEF PeerType
  <2>2. peer' = [peer EXCEPT ![q] =
           Acking([p EXCEPT !.rcv = Add(p.rcv, 1), !.unread = p.unread])]
    BY <1>11, <2>1
  <2> QED BY <1>1, <1>2, <1>3, <1>9, <2>2, TakingKeeps
<1> QED BY <1>8, <1>10, <1>11

LEMMA PeerStepKeeps ==
  ASSUME Received, NEW q \in Peers, PeerStep(q)
  PROVE  Received'
<1>1. PICK p : p = peer[q]
  OBVIOUS
<1>2. p \in PeerType /\ PeerRight(q, p) /\ peer \in PeersType
  BY <1>1 DEF Received, TypeInv, PeersType
<1>3. CASE PeerSyn(q)
  <2>1. PICK n : n = [p EXCEPT !.st = "syn"]
    OBVIOUS
  <2>2. n \in PeerType /\ n.st = "syn" /\ n.edge = p.edge /\ p.st = "idle"
    BY <1>1, <1>2, <1>3, <2>1 DEF PeerType, PeerSyn
  <2>3. PeerRight(q, n)
    BY <1>2, <2>1, <2>2 DEF PeerRight, PeerType
  <2>4. peer' = [peer EXCEPT ![q] = n] /\ UNCHANGED <<pcb, taken, got, wrote>>
    BY <1>1, <1>2, <1>3, <2>1 DEF PeerSyn, PeersType
  <2> QED BY <1>1, <2>2, <2>3, <2>4, PeerKeeps
<1>4. CASE PeerRecv(q)
  BY <1>4, PeerOpensKeeps, PeerTakesKeeps DEF PeerRecv
<1>5. CASE PeerRead(q)
  <2>1. p.st = "open"
    BY <1>1, <1>2, <1>5 DEF PeerRead, PeerRight
  <2>2. p.rcv \in Seqs /\ [p EXCEPT !.unread = 0] = [p EXCEPT !.rcv = p.rcv, !.unread = 0]
    BY <1>2 DEF PeerType
  <2>3. /\ peer' = [peer EXCEPT ![q] = Acking([p EXCEPT !.rcv = p.rcv, !.unread = 0])]
        /\ UNCHANGED <<pcb, taken, got, wrote>>
    BY <1>1, <1>2, <1>5, <2>2 DEF PeerRead, PeersType
  <2> QED BY <1>1, <2>1, <2>2, <2>3, TakingKeeps
<1>6. CASE PeerSend(q)
  <2>1. p.st = "open" /\ p.sent < SmallerOf(MaxIn[q], p.edge)
    BY <1>1, <1>6 DEF PeerSend
  <2>2. p.sent \in Nat /\ p.edge \in Int /\ MaxIn[q] \in Nat
    BY <1>2, ConstFacts DEF PeerType
  <2>3. p.sent + 1 \in Nat /\ p.sent + 1 <= MaxIn[q] /\ p.sent + 1 <= p.edge
    BY <2>1, <2>2 DEF SmallerOf
  <2>4. PICK n : n = [p EXCEPT !.sent = p.sent + 1]
    OBVIOUS
  <2>5. n \in PeerType /\ n.st = "open" /\ n.edge = p.edge /\ n.sent = p.sent + 1
    BY <1>2, <2>1, <2>3, <2>4 DEF PeerType
  <2>6. PeerRight(q, n)
    BY <2>3, <2>5 DEF PeerRight
  <2>7. peer' = [peer EXCEPT ![q] = n] /\ UNCHANGED <<pcb, taken, got, wrote>>
    BY <1>1, <1>2, <1>6, <2>4 DEF PeerSend, PeersType
  <2> QED BY <1>1, <2>5, <2>6, <2>7, PeerKeeps
<1>7. CASE PeerEnd(q)
  <2>1. PICK n : /\ n = [p EXCEPT !.fin = TRUE] \/ n = [p EXCEPT !.rst = TRUE]
                 /\ peer' = [peer EXCEPT ![q] = n]
    <3>1. CASE peer' = [peer EXCEPT ![q].fin = TRUE]
      BY <1>1, <1>2, <3>1 DEF PeersType
    <3>2. CASE peer' = [peer EXCEPT ![q].rst = TRUE]
      BY <1>1, <1>2, <3>2 DEF PeersType
    <3> QED BY <1>7, <3>1, <3>2 DEF PeerEnd
  <2>2. p.st = "open" /\ UNCHANGED <<pcb, taken, got, wrote>>
    BY <1>1, <1>7 DEF PeerEnd
  <2>3. n \in PeerType /\ n.st = "open" /\ n.edge = p.edge /\ n.sent = p.sent
    BY <1>2, <2>1, <2>2 DEF PeerType
  <2>4. PeerRight(q, n)
    BY <1>2, <2>3 DEF PeerRight
  <2> QED BY <1>1, <2>1, <2>2, <2>3, <2>4, PeerKeeps
<1> QED BY <1>3, <1>4, <1>5, <1>6, <1>7 DEF PeerStep

-----------------------------------------------------------------------------
(* The specification *)

LEMMA ApplicationsKeep ==
  ASSUME Received, NEW i \in Pcbs, Applications(i)
  PROVE  Received'
<1>1. CASE GetPcb(i)
  BY <1>1, GetPcbKeeps
<1>2. ASSUME NEW n \in Sizes, NEW k \in 0 .. n, tcp_send(i, n, k)
      PROVE  Received'
  <2>1. n \in Nat /\ k \in Nat
    BY ConstFacts
  <2> QED BY <1>2, <2>1, SendKeeps
<1>3. ASSUME NEW n \in Sizes, NEW ok \in BOOLEAN, tcp_send_data(i, n, ok)
      PROVE  Received'
  <2>1. n \in Nat
    BY ConstFacts
  <2> QED BY <1>3, <2>1, SendDataKeeps
<1>4. ASSUME NEW n \in 1 .. RxMax, Recv(i, n)
      PROVE  Received'
  BY <1>4, RecvKeeps
<1>5. CASE tcp_announce_window(i)
  BY <1>5, AnnounceKeeps
<1>6. CASE Close(i)
  BY <1>6, CloseKeeps
<1> QED BY <1>1, <1>2, <1>3, <1>4, <1>5, <1>6 DEF Applications

LEMMA TickKeeps ==
  ASSUME Received, NEW i \in Pcbs, tcp_tick(i)
  PROVE  Received'
BY ReapKeeps, GiveUpKeeps, RetransmitKeeps DEF tcp_tick

LEMMA StutterKeeps ==
  ASSUME Received, UNCHANGED vars
  PROVE  Received'
<1>1. UNCHANGED <<pcb, taken, got, wrote, peer>>
  BY DEF vars
<1>2. TypeInv'
  BY <1>1 DEF Received, TypeInv
<1>3. OneHolder(pcb') /\ \A q \in Peers : PeerRight(q, peer'[q])
  BY <1>1 DEF Received
<1>4. \A i \in Pcbs : PcbRight(pcb'[i], got'[i], peer')
  BY <1>1 DEF Received
<1> QED BY <1>2, <1>3, <1>4 DEF Received

(* Every step keeps it, as long as no stream is as long as the sequence    *)
(* number space: past that a byte has the number of an earlier one, and    *)
(* the code could not tell a delayed copy from new data.                   *)
LEMMA NextKeeps ==
  ASSUME Received, \A p \in Peers : MaxIn[p] < SeqMod, [Next]_vars
  PROVE  Received'
<1>1. ASSUME NEW i \in Pcbs, Applications(i) \/ tcp_tick(i) PROVE Received'
  BY <1>1, ApplicationsKeep, TickKeeps
<1>2. ASSUME NEW q \in Servers, NEW ok \in BOOLEAN, tcp_connect(q, ok) PROVE Received'
  BY <1>2, ConnectKeeps
<1>3. ASSUME NEW q \in Peers, tcp_input(q) \/ PeerStep(q) PROVE Received'
  BY <1>3, InputKeeps, PeerStepKeeps
<1> QED BY <1>1, <1>2, <1>3, StutterKeeps DEF Next

LEMMA InitIs ==
  ASSUME Init, NEW i \in Pcbs
  PROVE  /\ PcbOK(pcb[i]) /\ pcb[i].state \in {"CLOSED", "LISTEN"}
         /\ pcb[i].last_tx.flags = {} /\ pcb[i].remote = None /\ pcb[i].rx = <<>>
<1>1. PICK t : t = Untracked
  OBVIOUS
<1>2. t \in TrackType /\ t.flags = {} /\ t.data = <<>> /\ t.count = 0 /\ Len(t.data) = 0
  <2>1. 0 \in Seqs /\ 0 \in Nat /\ {} \in SUBSET Flags /\ <<>> \in Seq(Nat) /\ Len(<<>>) = 0
    BY NumFacts DEF Seqs
  <2> QED BY <1>1, <2>1 DEF Untracked, TrackType
<1>3. PICK c : c = tcp_init
  OBVIOUS
<1>4. /\ c \in PcbType /\ c.state = "CLOSED" /\ c.last_tx = t /\ c.remote = None
      /\ c.rx = <<>>
  <2>1. 0 \in Seqs /\ PeerBuf \in Int /\ <<>> \in Seq(Nat) /\ "CLOSED" \in States
    BY NumFacts DEF Seqs, States
  <2> QED BY <1>1, <1>2, <1>3, <2>1 DEF tcp_init, PcbType
<1>5. pcb[i] = c \/ \E p \in {"ssh", "app"} : pcb[i] = [c EXCEPT !.state = "LISTEN", !.port = p]
  <2>1. i \in DOMAIN Listens => Listens[i] \in {"ssh", "app"}
    BY TcpAssumption
  <2> QED BY <1>3, <2>1 DEF Init
<1>6. /\ pcb[i] \in PcbType /\ pcb[i].state \in {"CLOSED", "LISTEN"}
      /\ pcb[i].last_tx = t /\ pcb[i].remote = None /\ pcb[i].rx = <<>>
  <2>1. "LISTEN" \in States
    BY DEF States
  <2> QED BY <1>4, <1>5, <2>1 DEF PcbType
<1>7. Len(<<>>) = 0 /\ 0 <= RxMax /\ 0 <= RtxMax /\ 0 <= RtxDataMax
  BY NumFacts
<1> QED BY <1>2, <1>6, <1>7 DEF PcbOK

LEMMA InitRight ==
  ASSUME Init
  PROVE  Received
<1>1. ASSUME NEW i \in Pcbs
      PROVE  /\ PcbOK(pcb[i]) /\ pcb[i].state \in {"CLOSED", "LISTEN"}
             /\ pcb[i].last_tx.flags = {} /\ pcb[i].remote = None /\ pcb[i].rx = <<>>
  BY InitIs
<1>2. PICK n : n = NewPeer
  OBVIOUS
<1>3. /\ n \in PeerType /\ n.st = "idle" /\ n.sent = 0 /\ n.edge = 0 /\ n.acks = {}
      /\ n.unread = 0 /\ n.fin = FALSE /\ n.rst = FALSE
  <2>1. 0 \in Seqs
    BY NumFacts DEF Seqs
  <2> QED BY <1>2, <2>1 DEF NewPeer, PeerType
<1>4. \A q \in Peers : peer[q] = n
  BY <1>2 DEF Init
<1>5. TypeInv
  <2>1. pcb \in [Pcbs -> PcbType]
    <3>1. \A i \in Pcbs : pcb[i] \in PcbType
      BY <1>1 DEF PcbOK
    <3>2. pcb = [i \in Pcbs |-> pcb[i]]
      BY DEF Init
    <3> QED BY <3>1, <3>2
  <2>2. got \in [Pcbs -> Seq(Nat)]
    <3>1. <<>> \in Seq(Nat)
      OBVIOUS
    <3> QED BY <3>1, Zenon DEF Init
  <2>3. wrote \in [Pcbs -> Nat] /\ taken \in Pcbs \cup {None}
    BY DEF Init
  <2>4. peer \in PeersType
    BY <1>2, <1>3 DEF Init, PeersType
  <2> QED BY <1>1, <2>1, <2>2, <2>3, <2>4 DEF TypeInv
<1>6. \A q \in Peers : PeerRight(q, peer[q])
  BY <1>3, <1>4, ConstFacts DEF PeerRight
<1>7. ASSUME NEW i \in Pcbs PROVE PcbRight(pcb[i], got[i], peer)
  BY <1>1 DEF PcbRight, Live, Closing
<1>8. OneHolder(pcb)
  BY <1>1 DEF OneHolder, Holds, Live, Closing
<1> QED BY <1>5, <1>6, <1>7, <1>8 DEF Received

LEMMA AlwaysReceived ==
  ASSUME \A p \in Peers : MaxIn[p] < SeqMod
  PROVE  Spec => []Received
<1>1. Init => Received
  BY InitRight
<1>2. Received /\ [Next]_vars => Received'
  BY NextKeeps
<1> QED BY <1>1, <1>2, PTL DEF Spec

(* The pool keeps its types, and app_rx_buf and last_tx_data never hold    *)
(* more than their sizes: tcp_input copies only what fits, tcp_track_tx    *)
(* keeps no segment longer than its buffer.                                *)
THEOREM TcpTypes ==
  ASSUME \A p \in Peers : MaxIn[p] < SeqMod
  PROVE  Spec => []TypeOK
<1>1. Received => TypeOK
  <2>1. SUFFICES ASSUME Received, NEW i \in Pcbs
                 PROVE  /\ pcb[i].state \in {"CLOSED", "LISTEN"} \cup Live
                        /\ pcb[i].remote \in Peers \cup {None}
                        /\ {pcb[i].snd_nxt, pcb[i].snd_una, pcb[i].rcv_nxt} \subseteq Seqs
                        /\ Len(pcb[i].rx) <= RxMax
                        /\ pcb[i].last_tx.count <= RtxMax
                        /\ pcb[i].last_tx.flags = {} => pcb[i].last_tx.data = <<>>
                        /\ Len(pcb[i].last_tx.data) <= RtxDataMax
    BY DEF TypeOK, Received, TypeInv
  <2>2. PcbOK(pcb[i])
    BY <2>1 DEF Received, TypeInv
  <2> QED BY <2>2 DEF PcbOK, PcbType, States
<1> QED BY <1>1, AlwaysReceived, PTL

(* A connection never has two pcbs: tcp_find_pcb gives a repeated SYN to   *)
(* the pcb of the first, and the pcb a SYN was refused on, whose SYN       *)
(* tcp_tick still repeats, is of a server the shell does not open twice.   *)
THEOREM OnePcbPerConnection ==
  ASSUME \A p \in Peers : MaxIn[p] < SeqMod
  PROVE  Spec => []OnePcbEach
<1>1. Received => OnePcbEach
  BY DEF Received, OneHolder, Holds, OnePcbEach
<1> QED BY <1>1, AlwaysReceived, PTL

(* What an open connection handed to its reader, and what waits in         *)
(* app_rx_buf, are the peer's bytes from the first to the last one         *)
(* acknowledged, in order: tcp_input's moving rcv_nxt over the whole       *)
(* segment, however little of it fits, loses nothing.                      *)
THEOREM StreamsArriveWhole ==
  ASSUME \A p \in Peers : MaxIn[p] < SeqMod
  PROVE  Spec => []ReceivedIsPrefix
<1>1. Received => ReceivedIsPrefix
  BY DEF Received, PcbRight, ReceivedIsPrefix, Upto, Offset, First
<1> QED BY <1>1, AlwaysReceived, PTL

=============================================================================
