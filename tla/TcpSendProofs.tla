--------------------------- MODULE TcpSendProofs ---------------------------
(***************************************************************************)
(* The sending side of TCP, for every pool, every set of peers and every   *)
(* sequence number: whatever is retransmitted, refused by IP or sent on a  *)
(* pcb that was taken over, no two segments to a peer disagree about a     *)
(* byte, the peer never has more than snd_nxt says, and snd_una is never   *)
(* ahead of the peer.                                                      *)
(*                                                                         *)
(* What tcp_tick repeats is either on the wire already or begins where     *)
(* snd_nxt still stands (its first sending failed).  A tracked segment may *)
(* also be left over from an earlier connection, since neither tcp_connect *)
(* nor the accepting side clears last_tx: it is never repeated, because it *)
(* lies neither before snd_nxt nor at it as long as the numbers an         *)
(* accepted connection uses do not reach the first one of an opened one.   *)
(***************************************************************************)
EXTENDS TcpProofs

(* Sequence numbers of a connection with q, counted from its first. *)
Isn(q) == IF q \in Servers THEN ConnectIsn ELSE AcceptIsn
At(q, n) == Sub(n, Isn(q))

(* What is written on a connection fits the sequence space and, where      *)
(* connections are opened too, no byte of an accepted one has the number   *)
(* an opened one begins with.  tcp_connect begins with 100 and tcp_input   *)
(* accepts with 1000 or more: an accepted connection reaches 100 after     *)
(* almost the whole sequence space.                                        *)
WritesFit ==
  /\ \A q \in Peers : MaxOut[q] + 2 < SeqMod
  /\ Servers # {} => \A q \in Clients : Sub(ConnectIsn, AcceptIsn) \notin 1 .. MaxOut[q] + 1

(* The wire to a peer. *)
Syn(s) == "SYN" \in s.flags
Fin(s) == "FIN" \in s.flags
OnlySyns(W) == \A s \in W : Syn(s)
End(q, s) == At(q, s.seq) + Len(s.data)

SegRight(q, s) ==
  /\ Syn(s) => s.seq = Isn(q)
  /\ Syn(s) \/ Fin(s) => s.data = <<>>
  /\ ~Syn(s) => 1 <= At(q, s.seq) /\ End(q, s) <= MaxOut[q] + 1

Agree(W) ==
  \A s, t \in W : \A a \in DOMAIN s.data, b \in DOMAIN t.data :
    Add(s.seq, a) = Add(t.seq, b) => s.data[a] = t.data[b]

(* A peer has what some segment on its wire brought, and acknowledged no   *)
(* more.                                                                   *)
Brought(q, p) ==
  \/ At(q, p.rcv) = 1
  \/ \E s \in p.wire : ~Syn(s) /\ At(q, p.rcv) <= End(q, s) + (IF Fin(s) THEN 1 ELSE 0)
Got(q, p) ==
  p.st = "open" => /\ 1 <= At(q, p.rcv) /\ Brought(q, p)
                   /\ \A a \in p.acks : At(q, a[1]) <= At(q, p.rcv)

WireRight(q, p) ==
  /\ \A s \in p.wire : SegRight(q, s)
  /\ Agree(p.wire)
  /\ p.st # "open" => OnlySyns(p.wire)
  /\ Got(q, p)

(* A tracked segment left over from an accepted connection. *)
StaleSeqs == {n \in Seqs : \E q \in Clients : Sub(n, AcceptIsn) \in 1 .. MaxOut[q] + 1}

(* A pcb that has sent at most its SYN. *)
Opening(c) ==
  LET n == Isn(c.remote)
      t == c.last_tx
  IN /\ c.snd_una = n /\ c.snd_nxt \in {n, Add(n, 1)}
     /\ \/ t.flags = {}
        \/ /\ Syn(t) /\ t.data = <<>> /\ t.seq \in {AcceptIsn, ConnectIsn}
           /\ c.snd_nxt = n \/ t.seq = n
        \/ t.seq \in StaleSeqs /\ c.snd_nxt = n

(* The tracked data of an open connection to which w bytes were written,   *)
(* with wire W.                                                            *)
Tracked(c, w, W) ==
  LET t == c.last_tx
      q == c.remote
  IN \/ t.flags = {}
     \/ /\ ~Syn(t) /\ ~Fin(t) /\ 1 <= At(q, t.seq)
        /\ \/ /\ End(q, t) <= At(q, c.snd_nxt)
              /\ t.data = <<>> \/ Seg(t.flags, t.seq, t.data) \in W
           \/ t.seq = c.snd_nxt /\ End(q, t) <= w + 1

Flowing(c, w, P) ==
  LET q == c.remote
  IN /\ w <= MaxOut[q] /\ 1 <= At(q, c.snd_nxt) /\ At(q, c.snd_nxt) <= w + 1
     /\ Tracked(c, w, P[q].wire)
     /\ \A s \in P[q].wire : ~Syn(s) => ~Fin(s) /\ End(q, s) <= At(q, c.snd_nxt)
     /\ At(q, c.snd_una) <= At(q, P[q].rcv)

(* A pcb whose FIN is out. *)
Ending(c) ==
  LET t == c.last_tx
      q == c.remote
  IN \/ t.flags = {}
     \/ /\ t.flags = {"FIN", "ACK"} /\ t.data = <<>> /\ c.snd_nxt = Add(t.seq, 1)
        /\ At(q, t.seq) \in 1 .. MaxOut[q] + 1

SendRight(c, w, P) ==
  /\ c.state = "CLOSED" => c.last_tx.flags = {} \/ Opening(c)
  /\ c.state \in {"SYN_SENT", "SYN_RCVD"} =>
       Opening(c) /\ w = 0 /\ OnlySyns(P[c.remote].wire)
  /\ c.state = "SYN_RCVD" => c.snd_nxt = Add(Isn(c.remote), 1)
  /\ c.state \in {"ESTABLISHED", "CLOSE_WAIT"} => Flowing(c, w, P)
  /\ c.state = "LAST_ACK" => Ending(c)

(* The pcb tcp_get_free_pcb handed out may only have become a client's.    *)
TakenRight ==
  taken # None => /\ pcb[taken].state # "SYN_SENT"
                  /\ pcb[taken].state \in Live => pcb[taken].remote \in Clients

Sending ==
  /\ \A i \in Pcbs : SendRight(pcb[i], wrote[i], peer)
  /\ \A q \in Peers : WireRight(q, peer[q])
  /\ TakenRight

-----------------------------------------------------------------------------
(* Counting from the first number of a connection *)

LEMMA IsnOf ==
  ASSUME NEW q
  PROVE  Isn(q) \in Seqs /\ Isn(q) \in {AcceptIsn, ConnectIsn}
BY IsnFacts DEF Isn

LEMMA AtFacts ==
  ASSUME NEW q, NEW n \in Seqs
  PROVE  At(q, n) \in Seqs /\ At(q, n) \in Nat /\ At(q, n) < SeqMod
<1>1. n \in Int /\ Isn(q) \in Int
  BY IsnOf, NumFacts DEF Seqs
<1>2. At(q, n) \in Seqs
  <2>1. PICK x \in Int : x = n - Isn(q)
    BY <1>1
  <2> QED BY <1>1, <2>1, NumFacts DEF At, Sub, Seqs
<1> QED BY <1>2, NumFacts DEF Seqs

LEMMA AddSub ==
  ASSUME NEW a \in Seqs, NEW n \in Seqs
  PROVE  Add(a, Sub(n, a)) = n
<1>0. /\ SeqMod \in Nat \ {0} /\ a \in Int /\ 0 <= a /\ a < SeqMod
      /\ n \in Int /\ 0 <= n /\ n < SeqMod
  BY NumFacts DEF Seqs
<1>1. PICK x \in Int : x = n - a
  BY <1>0
<1>2. n % SeqMod = n
  BY <1>0, ModSmall
<1>3. CASE 0 <= x
  <2>1. x % SeqMod = x
    BY <1>0, <1>1, <1>3, ModSmall
  <2>2. a + x = n
    BY <1>0, <1>1
  <2> QED BY <1>1, <1>2, <2>1, <2>2 DEF Add, Sub
<1>4. CASE x < 0
  <2>1. x % SeqMod = x + SeqMod
    BY <1>0, <1>1, <1>4, ModBorrow
  <2>2. PICK y \in Int : y = a + (x + SeqMod)
    BY <1>0
  <2>3. y % SeqMod = y - SeqMod /\ y - SeqMod = n
    <3>1. SeqMod <= y /\ y - SeqMod < SeqMod /\ y - SeqMod = n
      BY <1>0, <1>1, <2>2
    <3> QED BY <1>0, <3>1, ModWrap
  <2> QED BY <1>1, <2>1, <2>2, <2>3 DEF Add, Sub
<1> QED BY <1>3, <1>4

LEMMA AtAdd ==
  ASSUME NEW q, NEW n \in Seqs, NEW k \in Nat, At(q, n) + k < SeqMod
  PROVE  At(q, Add(n, k)) = At(q, n) + k /\ Add(n, k) \in Seqs
<1>1. PICK a \in Seqs : a = Isn(q)
  BY IsnOf
<1>2. PICK o \in Nat : o = At(q, n)
  BY AtFacts
<1>3. o + k \in Seqs /\ o + k <= SeqMod /\ o + k \in Int
  BY <1>2, NumFacts DEF Seqs
<1>4. Add(a, o) = n
  BY <1>1, <1>2, AddSub DEF At
<1>5. Add(n, k) = Add(a, o + k)
  BY <1>3, <1>4, AddAdd
<1>6. Sub(Add(a, o + k), a) = o + k
  BY <1>3, SubAdd
<1>7. Add(a, o + k) \in Seqs
  <2>1. a \in Int
    BY NumFacts DEF Seqs
  <2> QED BY <1>3, <2>1, SeqOps
<1> QED BY <1>1, <1>2, <1>5, <1>6, <1>7 DEF At

LEMMA AtEqual ==
  ASSUME NEW q, NEW m \in Seqs, NEW n \in Seqs, At(q, m) = At(q, n)
  PROVE  m = n
<1>1. Add(Isn(q), Sub(m, Isn(q))) = m /\ Add(Isn(q), Sub(n, Isn(q))) = n
  BY IsnOf, AddSub
<1> QED BY <1>1 DEF At

LEMMA AtIsn ==
  ASSUME WritesFit, NEW q \in Peers
  PROVE  /\ At(q, Isn(q)) = 0 /\ At(q, Add(Isn(q), 1)) = 1
         /\ Add(Isn(q), 1) \in Seqs /\ Add(Isn(q), 1) # Isn(q)
<1>1. SeqMod \in Nat /\ 2 < SeqMod
  <2>1. PICK m \in Nat : m = MaxOut[q]
    BY ConstFacts
  <2>2. m + 2 < SeqMod /\ SeqMod \in Nat
    BY <2>1, NumFacts DEF WritesFit
  <2> QED BY <2>2
<1>2. At(q, Isn(q)) = 0
  <2>1. PICK a \in Seqs : a = Isn(q)
    BY IsnOf
  <2>2. a \in Int
    BY NumFacts DEF Seqs
  <2>3. a - a = 0 /\ 0 % SeqMod = 0
    BY <1>1, <2>2, NumFacts, ModSmall
  <2> QED BY <2>1, <2>3 DEF At, Sub
<1>3. At(q, Isn(q)) + 1 < SeqMod
  BY <1>1, <1>2
<1>4. At(q, Add(Isn(q), 1)) = At(q, Isn(q)) + 1 /\ Add(Isn(q), 1) \in Seqs
  BY <1>3, IsnOf, AtAdd
<1> QED BY <1>2, <1>4

LEMMA FitFacts ==
  ASSUME WritesFit, NEW q \in Peers
  PROVE  MaxOut[q] \in Nat /\ MaxOut[q] + 2 < SeqMod /\ SeqMod \in Nat
BY ConstFacts DEF WritesFit

(* A segment left over from an accepted connection begins neither where    *)
(* another accepted one begins nor where an opened one does.               *)
LEMMA StaleApart ==
  ASSUME WritesFit, NEW q
  PROVE  Isn(q) \notin StaleSeqs
<1>1. ASSUME NEW p \in Clients PROVE Sub(Isn(q), AcceptIsn) \notin 1 .. MaxOut[p] + 1
  <2>1. CASE q \in Servers
    BY <2>1 DEF WritesFit, Isn
  <2>2. CASE q \notin Servers
    <3>1. p \notin Servers /\ p \in Peers
      BY TcpAssumption DEF Peers
    <3>2. Isn(p) = AcceptIsn /\ Isn(q) = AcceptIsn
      BY <2>2, <3>1 DEF Isn
    <3>3. Sub(AcceptIsn, AcceptIsn) = 0
      BY <3>1, <3>2, AtIsn DEF At
    <3>4. 0 \notin 1 .. MaxOut[p] + 1
      BY <3>1, FitFacts
    <3> QED BY <3>2, <3>3, <3>4
  <2> QED BY <2>1, <2>2
<1> QED BY <1>1 DEF StaleSeqs

(* Adding nothing, or one. *)
LEMMA AddSmall ==
  ASSUME WritesFit, NEW q \in Peers, NEW n \in Seqs
  PROVE  Add(n, 0) = n /\ Add(n, 1) # n /\ Add(n, 1) \in Seqs
<1>1. SeqMod \in Nat \ {0} /\ 2 < SeqMod /\ n \in Int /\ 0 <= n /\ n < SeqMod
  <2>1. MaxOut[q] \in Nat /\ MaxOut[q] + 2 < SeqMod
    BY FitFacts
  <2> QED BY <2>1, NumFacts DEF Seqs
<1>2. (n + 0) % SeqMod = n
  <2>1. n + 0 = n
    BY <1>1
  <2> QED BY <1>1, <2>1, ModSmall
<1>3. (n + 1) % SeqMod # n
  <2>1. PICK x \in Int : x = n + 1
    BY <1>1
  <2>2. CASE x < SeqMod
    <3>1. x % SeqMod = x
      BY <1>1, <2>1, <2>2, ModSmall
    <3>2. x # n
      BY <1>1, <2>1
    <3> QED BY <2>1, <3>1, <3>2, Zenon
  <2>3. CASE SeqMod <= x
    <3>0. SeqMod \in Nat \ {0} /\ x - SeqMod < SeqMod
      BY <1>1, <2>1
    <3>1. x % SeqMod = x - SeqMod
      BY <2>3, <3>0, ModWrap
    <3>2. x - SeqMod # n
      BY <1>1, <2>1
    <3> QED BY <2>1, <3>1, <3>2, Zenon
  <2> QED BY <1>1, <2>1, <2>2, <2>3
<1>4. Add(n, 1) \in Seqs
  BY <1>1, SeqOps
<1> QED BY <1>2, <1>3, <1>4 DEF Add

LEMMA SegTypes ==
  ASSUME NEW s \in SegType
  PROVE  /\ s.seq \in Seqs /\ s.data \in Seq(Nat) /\ s.flags \subseteq Flags
         /\ Len(s.data) \in Nat /\ DOMAIN s.data = 1 .. Len(s.data)
BY LenProperties DEF SegType

LEMMA MulMono ==
  ASSUME NEW M \in Nat, NEW a \in Nat, NEW b \in Nat, a <= b
  PROVE  a * M <= b * M /\ a * M \in Nat /\ b * M \in Nat
<1>1. PICK d \in Nat : b = a + d
  <2>1. b - a \in Nat /\ b = a + (b - a)
    OBVIOUS
  <2> QED BY <2>1
<1>2. b * M = a * M + d * M
  BY <1>1
<1>3. \A x \in Nat : x * M \in Nat
  OBVIOUS
<1>4. PICK x \in Nat, y \in Nat : x = a * M /\ y = d * M
  BY <1>3
<1>5. b * M = x + y
  BY <1>2, <1>4
<1> QED BY <1>4, <1>5

-----------------------------------------------------------------------------
(* Bytes on the wire *)

(* Where byte a of a segment is. *)
LEMMA BytePos ==
  ASSUME WritesFit, NEW q \in Peers, NEW s \in SegType, SegRight(q, s),
         NEW a \in DOMAIN s.data
  PROVE  /\ At(q, Add(s.seq, a)) = At(q, s.seq) + a
         /\ At(q, s.seq) + a <= End(q, s) /\ a \in Nat /\ 1 <= a
         /\ At(q, s.seq) \in Nat
<1>1. /\ s.seq \in Seqs /\ Len(s.data) \in Nat /\ a \in 1 .. Len(s.data)
  BY SegTypes
<1>2. ~Syn(s)
  <2>1. s.data # <<>>
    BY <1>1
  <2> QED BY <2>1 DEF SegRight
<1>3. PICK o \in Nat : o = At(q, s.seq)
  BY <1>1, AtFacts
<1>4. PICK l \in Nat : l = Len(s.data)
  BY <1>1
<1>5. PICK M \in Nat : M = MaxOut[q]
  BY FitFacts
<1>6. End(q, s) = o + l /\ o + l <= M + 1 /\ M + 2 < SeqMod /\ SeqMod \in Nat
  BY <1>2, <1>3, <1>4, <1>5, FitFacts DEF SegRight, End
<1>7. a \in Nat /\ 1 <= a /\ a <= l
  BY <1>1, <1>4
<1>8. At(q, s.seq) + a < SeqMod
  BY <1>3, <1>6, <1>7
<1>9. At(q, Add(s.seq, a)) = At(q, s.seq) + a
  BY <1>1, <1>7, <1>8, AtAdd
<1> QED BY <1>3, <1>6, <1>7, <1>9

(* New segments that begin where the old ones end, and agree among         *)
(* themselves, agree with all.                                             *)
LEMMA AgreeMore ==
  ASSUME WritesFit, NEW q \in Peers, NEW W \in SUBSET SegType, NEW N \in SUBSET SegType,
         \A s \in W : SegRight(q, s), \A s \in N : SegRight(q, s),
         Agree(W), Agree(N), NEW S \in Int,
         \A s \in W : ~Syn(s) => End(q, s) <= S,
         \A s \in N : s.data # <<>> => S <= At(q, s.seq)
  PROVE  Agree(W \cup N)
<1>1. ASSUME NEW s \in W, NEW t \in N, NEW a \in DOMAIN s.data, NEW b \in DOMAIN t.data
      PROVE  Add(s.seq, a) # Add(t.seq, b)
  <2>1. PICK m \in Nat : m = At(q, s.seq)
    BY SegTypes, AtFacts
  <2>2. PICK n \in Nat : n = At(q, t.seq)
    BY SegTypes, AtFacts
  <2>3. s \in SegType /\ t \in SegType /\ SegRight(q, s) /\ SegRight(q, t)
    OBVIOUS
  <2>4. At(q, Add(s.seq, a)) = m + a /\ m + a <= End(q, s) /\ a \in Nat
    BY <2>1, <2>3, BytePos
  <2>5. At(q, Add(t.seq, b)) = n + b /\ b \in Nat /\ 1 <= b
    BY <2>2, <2>3, BytePos
  <2>6. s.data # <<>> /\ t.data # <<>>
    BY SegTypes
  <2>7. End(q, s) <= S /\ S <= n
    BY <2>2, <2>3, <2>6 DEF SegRight
  <2>8. End(q, s) \in Int
    BY <2>1, <2>3, SegTypes DEF End
  <2>9. m + a < n + b
    BY <2>4, <2>5, <2>7, <2>8
  <2> QED BY <2>4, <2>5, <2>9
<1> QED BY <1>1 DEF Agree

LEMMA AgreeOne ==
  ASSUME WritesFit, NEW q \in Peers, NEW s \in SegType, SegRight(q, s)
  PROVE  Agree({s})
<1>1. ASSUME NEW a \in DOMAIN s.data, NEW b \in DOMAIN s.data, Add(s.seq, a) = Add(s.seq, b)
      PROVE  a = b
  <2>1. PICK m \in Nat : m = At(q, s.seq)
    BY SegTypes, AtFacts
  <2>2. At(q, Add(s.seq, a)) = m + a /\ a \in Nat
    BY <2>1, BytePos
  <2>3. At(q, Add(s.seq, b)) = m + b /\ b \in Nat
    BY <2>1, BytePos
  <2> QED BY <1>1, <2>2, <2>3
<1> QED BY <1>1 DEF Agree

(* A segment without data agrees with everything. *)
LEMMA AgreeEmpty ==
  ASSUME NEW W, Agree(W), NEW N, \A s \in N : s.data = <<>> \/ s \in W
  PROVE  Agree(W \cup N)
<1>1. ASSUME NEW s \in W \cup N, NEW a \in DOMAIN s.data PROVE s \in W
  BY <1>1
<1> QED BY <1>1 DEF Agree

-----------------------------------------------------------------------------
(* A step of pcb i that puts N on the wire to r *)

Heard(P, r, N) ==
  \A q \in Peers :
    /\ P[q].st = peer[q].st /\ P[q].rcv = peer[q].rcv /\ P[q].acks = peer[q].acks
    /\ P[q].wire = IF q = r THEN peer[q].wire \cup N ELSE peer[q].wire

NewRight(i, r, N) ==
  /\ \A s \in N : SegRight(r, s)
  /\ Agree(peer[r].wire \cup N)
  /\ OnlySyns(N) \/ (peer[r].st = "open" /\ Alone(i, r))

TakenOK(c) == c.state # "SYN_SENT" /\ (c.state \in Live => c.remote \in Clients)

LEMMA WiresStayRight ==
  ASSUME Sending, NEW i, NEW r, NEW N, NEW P, Heard(P, r, N), N = {} \/ NewRight(i, r, N),
         NEW q \in Peers
  PROVE  WireRight(q, P[q])
<1>1. /\ P[q].st = peer[q].st /\ P[q].rcv = peer[q].rcv /\ P[q].acks = peer[q].acks
      /\ WireRight(q, peer[q])
  BY DEF Heard, Sending
<1>2. peer[q].wire \subseteq P[q].wire
  BY DEF Heard
<1>3. Got(q, P[q])
  <2>1. Brought(q, peer[q]) => Brought(q, P[q])
    BY <1>1, <1>2 DEF Brought
  <2> QED BY <1>1, <2>1 DEF WireRight, Got
<1>4. CASE P[q].wire = peer[q].wire
  BY <1>1, <1>3, <1>4 DEF WireRight
<1>5. CASE q = r /\ NewRight(i, r, N) /\ P[q].wire = peer[q].wire \cup N
  <2>1. \A s \in P[q].wire : SegRight(q, s)
    BY <1>1, <1>5 DEF WireRight, NewRight
  <2>2. Agree(P[q].wire)
    BY <1>5 DEF NewRight
  <2>3. P[q].st # "open" => OnlySyns(P[q].wire)
    BY <1>1, <1>5 DEF WireRight, NewRight, OnlySyns
  <2> QED BY <1>3, <2>1, <2>2, <2>3 DEF WireRight
<1> QED BY <1>4, <1>5 DEF Heard

LEMMA OthersSend ==
  ASSUME Received, Sending, NEW i, NEW r, NEW N, NEW P, Heard(P, r, N),
         N = {} \/ NewRight(i, r, N), NEW j \in Pcbs \ {i}
  PROVE  SendRight(pcb[j], wrote[j], P)
<1>1. PICK c : c = pcb[j]
  OBVIOUS
<1>2. PICK w : w = wrote[j]
  OBVIOUS
<1>3. SendRight(c, w, peer) /\ PcbRight(c, got[j], peer)
  BY <1>1, <1>2, PcbFacts DEF Sending
<1>4. CASE c.state \notin Live
  BY <1>1, <1>2, <1>3, <1>4 DEF SendRight, Live, Closing
<1>5. CASE c.state \in Live
  <2>1. PICK q \in Peers : q = c.remote
    BY <1>3, <1>5 DEF PcbRight
  <2>2. /\ P[q].rcv = peer[q].rcv /\ peer[q].wire \subseteq P[q].wire
        /\ \A s \in P[q].wire : s \in peer[q].wire \/ Syn(s)
    <3>1. q = r => N = {} \/ OnlySyns(N)
      <4>1. Holds(pcb[j])
        BY <1>1, <1>5 DEF Holds
      <4> QED BY <1>1, <2>1, <4>1 DEF NewRight, Alone
    <3> QED BY <3>1 DEF Heard, OnlySyns
  <2>3. CASE c.state \in {"SYN_SENT", "SYN_RCVD"}
    <3>1. OnlySyns(P[q].wire)
      BY <1>3, <2>1, <2>2, <2>3 DEF SendRight, OnlySyns
    <3> QED BY <1>1, <1>2, <1>3, <2>1, <2>3, <3>1 DEF SendRight
  <2>4. CASE c.state \in {"ESTABLISHED", "CLOSE_WAIT"}
    <3>1. Flowing(c, w, peer)
      BY <1>3, <2>4 DEF SendRight
    <3>2. Tracked(c, w, P[q].wire)
      BY <2>1, <2>2, <3>1 DEF Flowing, Tracked
    <3>3. Flowing(c, w, P)
      BY <2>1, <2>2, <3>1, <3>2 DEF Flowing
    <3> QED BY <1>1, <1>2, <2>4, <3>3 DEF SendRight
  <2>5. CASE c.state = "LAST_ACK"
    BY <1>1, <1>2, <1>3, <2>5 DEF SendRight
  <2> QED BY <1>5, <2>3, <2>4, <2>5 DEF Live, Closing
<1> QED BY <1>4, <1>5

LEMMA SendStep ==
  ASSUME Received, Sending, NEW i \in Pcbs, NEW r, NEW N, NEW P, Heard(P, r, N),
         N = {} \/ NewRight(i, r, N),
         NEW d, NEW w, SendRight(d, w, P),
         pcb' = [pcb EXCEPT ![i] = d], wrote' = [wrote EXCEPT ![i] = w], peer' = P,
         \/ taken' = None
         \/ taken' = taken /\ (TakenOK(pcb[i]) => TakenOK(d))
         \/ taken' = i /\ TakenOK(d)
  PROVE  Sending'
<1>1. /\ pcb'[i] = d /\ wrote'[i] = w
      /\ \A j \in Pcbs \ {i} : pcb'[j] = pcb[j] /\ wrote'[j] = wrote[j]
  BY DEF Received, TypeInv
<1>2. \A j \in Pcbs : SendRight(pcb'[j], wrote'[j], peer')
  BY <1>1, OthersSend
<1>3. \A q \in Peers : WireRight(q, peer'[q])
  BY WiresStayRight
<1>4. TakenRight'
  <2>1. TakenRight /\ taken \in Pcbs \cup {None}
    BY DEF Sending, Received, TypeInv
  <2>2. CASE taken' = None
    BY <2>2 DEF TakenRight
  <2>3. CASE taken' = taken /\ (TakenOK(pcb[i]) => TakenOK(d))
    BY <1>1, <2>1, <2>3 DEF TakenRight, TakenOK
  <2>4. CASE taken' = i /\ TakenOK(d)
    BY <1>1, <2>4 DEF TakenRight, TakenOK
  <2> QED BY <2>2, <2>3, <2>4
<1> QED BY <1>2, <1>3, <1>4 DEF Sending

LEMMA HeardNothing ==
  ASSUME NEW r
  PROVE  Heard(peer, r, {})
BY DEF Heard

LEMMA HeardReach ==
  ASSUME Received, NEW e, NEW r \in Peers, r = e.remote, NEW N, NEW P, P = Reaches(e, N)
  PROVE  Heard(P, r, N)
<1>1. peer \in PeersType /\ peer[r] \in PeerType
  BY DEF Received, TypeInv, PeersType
<1>2. PICK x : x = LargerOf(peer[r].edge, RightEdge(e))
  OBVIOUS
<1>3. PICK n : n = [peer[r] EXCEPT !.edge = x, !.wire = @ \cup N]
  OBVIOUS
<1>4. /\ n.st = peer[r].st /\ n.rcv = peer[r].rcv /\ n.acks = peer[r].acks
      /\ n.wire = peer[r].wire \cup N
  BY <1>1, <1>3 DEF PeerType
<1>5. P = [peer EXCEPT ![r] = n]
  BY <1>1, <1>2, <1>3 DEF Reaches, PeersType, PeerType
<1>6. P[r] = n /\ \A q \in Peers \ {r} : P[q] = peer[q]
  BY <1>1, <1>5 DEF PeersType
<1> QED BY <1>4, <1>6 DEF Heard

LEMMA HeardAck ==
  ASSUME Received, NEW c, NEW r \in Peers, r = c.remote, NEW ok,
         NEW P, P = tcp_send_ack(c, ok) \/ P = peer
  PROVE  Heard(P, r, {})
<1>1. P = Reaches(c, {}) \/ P = peer
  BY DEF tcp_send_ack
<1> QED BY <1>1, HeardReach, HeardNothing

-----------------------------------------------------------------------------
(* Steps that send nothing new and move no sequence number *)

(* u is t, however often it was sent, or nothing. *)
TrackKept(u, t) ==
  u.flags = {} \/ (u.flags = t.flags /\ u.seq = t.seq /\ u.data = t.data)

LEMMA FlowKept ==
  ASSUME NEW c, NEW w, Flowing(c, w, peer), c.remote \in Peers,
         NEW d, d.remote = c.remote, d.snd_nxt = c.snd_nxt,
         TrackKept(d.last_tx, c.last_tx),
         \/ d.snd_una = c.snd_una
         \/ At(c.remote, d.snd_una) <= At(c.remote, peer[c.remote].rcv),
         NEW r, NEW P, Heard(P, r, {})
  PROVE  Flowing(d, w, P)
<1>1. PICK q \in Peers : q = c.remote
  OBVIOUS
<1>2. P[q].wire = peer[q].wire /\ P[q].rcv = peer[q].rcv
  BY DEF Heard
<1>3. Tracked(d, w, P[q].wire)
  BY <1>1, <1>2 DEF Flowing, Tracked, TrackKept, Syn, Fin, End
<1> QED BY <1>1, <1>2, <1>3 DEF Flowing

LEMMA SameSends ==
  ASSUME NEW c, NEW w, SendRight(c, w, peer), c.state \in Live => c.remote \in Peers,
         NEW d, d.remote = c.remote, d.snd_nxt = c.snd_nxt, d.snd_una = c.snd_una,
         TrackKept(d.last_tx, c.last_tx),
         \/ d.state = c.state
         \/ d.state = "CLOSED" /\ (d.last_tx.flags = {} \/ c.state \in {"SYN_SENT", "SYN_RCVD"}),
         NEW r, NEW P, Heard(P, r, {})
  PROVE  SendRight(d, w, P)
<1>1. Opening(c) => Opening(d)
  BY DEF Opening, TrackKept, Syn
<1>2. CASE d.state = "CLOSED"
  BY <1>1, <1>2 DEF SendRight, TrackKept
<1>3. CASE d.state = c.state /\ c.state \in Live
  <2>1. PICK q \in Peers : q = c.remote
    BY <1>3
  <2>2. P[q].wire = peer[q].wire
    BY DEF Heard
  <2>3. CASE c.state \in {"SYN_SENT", "SYN_RCVD"}
    <3>1. OnlySyns(P[d.remote].wire) /\ Opening(c) /\ w = 0
      BY <2>1, <2>2, <2>3 DEF SendRight
    <3> QED BY <1>1, <1>3, <2>3, <3>1 DEF SendRight
  <2>4. CASE c.state \in {"ESTABLISHED", "CLOSE_WAIT"}
    <3>1. Flowing(c, w, peer)
      BY <2>4 DEF SendRight
    <3>2. Flowing(d, w, P)
      BY <2>1, <3>1, FlowKept
    <3> QED BY <1>3, <2>4, <3>2 DEF SendRight
  <2>5. CASE c.state = "LAST_ACK"
    <3>1. Ending(c) => Ending(d)
      BY DEF Ending, TrackKept
    <3> QED BY <1>3, <2>5, <3>1 DEF SendRight
  <2> QED BY <1>3, <2>3, <2>4, <2>5 DEF Live, Closing
<1>4. CASE d.state = c.state /\ c.state \notin Live
  BY <1>1, <1>4 DEF SendRight, TrackKept, Live, Closing
<1> QED BY <1>2, <1>3, <1>4

LEMMA QuietStep ==
  ASSUME Received, Sending, NEW i \in Pcbs, NEW c, c = pcb[i],
         NEW d, d.remote = c.remote, d.snd_nxt = c.snd_nxt, d.snd_una = c.snd_una,
         TrackKept(d.last_tx, c.last_tx),
         \/ d.state = c.state
         \/ d.state = "CLOSED" /\ (d.last_tx.flags = {} \/ c.state \in {"SYN_SENT", "SYN_RCVD"}),
         NEW r, Heard(peer', r, {}), pcb' = [pcb EXCEPT ![i] = d], wrote' = wrote,
         taken' = taken \/ (taken' = i /\ d.state = "CLOSED")
  PROVE  Sending'
<1>1. PICK w : w = wrote[i]
  OBVIOUS
<1>2. SendRight(c, w, peer) /\ PcbRight(c, got[i], peer) /\ wrote' = [wrote EXCEPT ![i] = w]
  BY <1>1, PcbFacts DEF Sending
<1>3. c.state \in Live => c.remote \in Peers
  BY <1>2 DEF PcbRight
<1>4. PICK P : P = peer'
  OBVIOUS
<1>5. SendRight(d, w, P)
  BY <1>2, <1>3, <1>4, SameSends
<1>6. (TakenOK(c) => TakenOK(d)) /\ (d.state = "CLOSED" => TakenOK(d))
  BY DEF TakenOK, Live, Closing
<1>7. PICK N : N = {}
  OBVIOUS
<1> QED BY <1>2, <1>4, <1>5, <1>6, <1>7, SendStep

LEMMA GetPcbSends ==
  ASSUME Received, Sending, NEW i \in Pcbs, GetPcb(i)
  PROVE  Sending'
<1>1. PICK c : c = pcb[i]
  OBVIOUS
<1>2. PICK d : d = tcp_get_free_pcb(i)
  OBVIOUS
<1>3. /\ i \in FreePcbs /\ pcb' = [pcb EXCEPT ![i] = d] /\ taken' = i /\ wrote' = wrote
      /\ peer' = peer
  BY <1>2 DEF GetPcb
<1>4. /\ d.state = "CLOSED" /\ d.remote = c.remote /\ d.snd_nxt = c.snd_nxt
      /\ d.snd_una = c.snd_una
      /\ (d.last_tx = c.last_tx /\ d.state = c.state) \/ d.last_tx.flags = {}
  <2>1. CASE c.state = "CLOSED"
    BY <1>1, <1>2, <2>1 DEF tcp_get_free_pcb
  <2>2. CASE c.state # "CLOSED"
    <3>1. d = Released(c) /\ PcbOK(c)
      BY <1>1, <1>2, <2>2, PcbFacts DEF tcp_get_free_pcb
    <3> QED BY <3>1, ReleasedFields
  <2> QED BY <2>1, <2>2
<1>5. Heard(peer', None, {})
  BY <1>3, HeardNothing
<1> QED BY <1>1, <1>3, <1>4, <1>5, QuietStep DEF TrackKept

LEMMA ReapSends ==
  ASSUME Received, Sending, NEW i \in Pcbs, Reap(i)
  PROVE  Sending'
<1>1. PICK c : c = pcb[i]
  OBVIOUS
<1>2. PICK d : d = Released(c)
  OBVIOUS
<1>3. PcbOK(c)
  BY <1>1, PcbFacts
<1>4. /\ d.state = "CLOSED" /\ d.remote = c.remote /\ d.snd_nxt = c.snd_nxt
      /\ d.snd_una = c.snd_una /\ d.last_tx.flags = {}
  BY <1>2, <1>3, ReleasedFields
<1>5. pcb' = [pcb EXCEPT ![i] = d] /\ taken' = taken /\ wrote' = wrote /\ peer' = peer
  BY <1>1, <1>2 DEF Reap
<1>6. Heard(peer', None, {})
  BY <1>5, HeardNothing
<1> QED BY <1>1, <1>4, <1>5, <1>6, QuietStep DEF TrackKept

LEMMA GiveUpSends ==
  ASSUME Received, Sending, NEW i \in Pcbs, GiveUp(i)
  PROVE  Sending'
<1>1. PICK c : c = pcb[i]
  OBVIOUS
<1>2. PICK st : st = IF c.state \in {"SYN_SENT", "SYN_RCVD", "LAST_ACK"}
                     THEN "CLOSED" ELSE c.state
  OBVIOUS
<1>3. PICK d : d = Forgotten(c, st)
  OBVIOUS
<1>4. PcbOK(c)
  BY <1>1, PcbFacts
<1>5. st \in States
  BY <1>2, <1>4 DEF PcbOK, PcbType, States
<1>6. /\ d.state = st /\ d.last_tx.flags = {} /\ d.remote = c.remote
      /\ d.snd_nxt = c.snd_nxt /\ d.snd_una = c.snd_una
  BY <1>3, <1>4, <1>5, ForgetFields
<1>7. pcb' = [pcb EXCEPT ![i] = d] /\ taken' = taken /\ wrote' = wrote /\ peer' = peer
  BY <1>1, <1>2, <1>3, <1>4 DEF GiveUp, Forgotten, PcbOK, PcbType, TrackType, Received, TypeInv
<1>8. Heard(peer', None, {})
  BY <1>7, HeardNothing
<1> QED BY <1>1, <1>2, <1>6, <1>7, <1>8, QuietStep DEF TrackKept

LEMMA RecvSends ==
  ASSUME Received, Sending, NEW i \in Pcbs, NEW n \in Nat, Recv(i, n)
  PROVE  Sending'
<1>1. PICK c : c = pcb[i]
  OBVIOUS
<1>2. PICK x : x = SubSeq(c.rx, n + 1, Len(c.rx))
  OBVIOUS
<1>3. PICK d : d = [c EXCEPT !.rx = x]
  OBVIOUS
<1>4. /\ d.state = c.state /\ d.remote = c.remote /\ d.snd_nxt = c.snd_nxt
      /\ d.snd_una = c.snd_una /\ d.last_tx = c.last_tx
  BY <1>1, <1>3, PcbFacts DEF PcbOK, PcbType
<1>5. pcb' = [pcb EXCEPT ![i] = d] /\ taken' = taken /\ wrote' = wrote /\ peer' = peer
  BY <1>1, <1>2, <1>3 DEF Recv
<1>6. Heard(peer', None, {})
  BY <1>5, HeardNothing
<1> QED BY <1>1, <1>4, <1>5, <1>6, QuietStep DEF TrackKept

LEMMA AnnounceSends ==
  ASSUME Received, Sending, NEW i \in Pcbs, tcp_announce_window(i)
  PROVE  Sending'
<1>1. PICK c : c = pcb[i]
  OBVIOUS
<1>2. /\ c.state = "ESTABLISHED" /\ peer' = tcp_send_ack(c, TRUE)
      /\ pcb' = pcb /\ taken' = taken /\ wrote' = wrote
  BY <1>1 DEF tcp_announce_window
<1>3. pcb' = [pcb EXCEPT ![i] = c] /\ c.remote \in Peers
  BY <1>1, <1>2, PcbFacts DEF PcbRight, Live
<1>4. Heard(peer', c.remote, {})
  BY <1>2, <1>3, HeardAck
<1> QED BY <1>1, <1>2, <1>3, <1>4, QuietStep DEF TrackKept

LEMMA ResetSends ==
  ASSUME Received, Sending, NEW i \in Pcbs, NEW s, taken' = taken,
         InputReset(i, s) \/ InputLastAck(i, s)
  PROVE  Sending'
<1>1. PICK c : c = pcb[i]
  OBVIOUS
<1>2. PICK d : d = Forgotten(c, "CLOSED")
  OBVIOUS
<1>3. PcbOK(c) /\ "CLOSED" \in States
  BY <1>1, PcbFacts DEF States
<1>4. /\ d.state = "CLOSED" /\ d.last_tx.flags = {} /\ d.remote = c.remote
      /\ d.snd_nxt = c.snd_nxt /\ d.snd_una = c.snd_una
  BY <1>2, <1>3, ForgetFields
<1>5. pcb' = [pcb EXCEPT ![i] = d] /\ wrote' = wrote /\ peer' = peer
  <2>1. /\ pcb' = [pcb EXCEPT ![i].state = "CLOSED",
                              ![i].last_tx.flags = {}, ![i].last_tx.data = <<>>]
        /\ wrote' = wrote /\ peer' = peer
    BY DEF InputReset, InputLastAck
  <2>2. pcb' = [pcb EXCEPT ![i] = d]
    BY <1>1, <1>2, <1>3, <2>1, ZenonT(60) DEF Forgotten, PcbOK, PcbType, TrackType, Received, TypeInv
  <2> QED BY <2>1, <2>2
<1>6. Heard(peer', None, {})
  BY <1>5, HeardNothing
<1> QED BY <1>1, <1>4, <1>5, <1>6, QuietStep DEF TrackKept

(* A connection being opened that is refused. *)
LEMMA RefusedSends ==
  ASSUME Received, Sending, NEW i \in Pcbs, taken' = taken, NEW c, c = pcb[i],
         c.state \in {"SYN_SENT", "SYN_RCVD"}, NEW d, d = [c EXCEPT !.state = "CLOSED"],
         pcb' = [pcb EXCEPT ![i] = d], wrote' = wrote, peer' = peer
  PROVE  Sending'
<1>1. /\ d.state = "CLOSED" /\ d.remote = c.remote /\ d.snd_nxt = c.snd_nxt
      /\ d.snd_una = c.snd_una /\ d.last_tx = c.last_tx
  BY PcbFacts DEF PcbOK, PcbType
<1>2. Heard(peer', None, {})
  BY HeardNothing
<1> QED BY <1>1, <1>2, QuietStep DEF TrackKept

-----------------------------------------------------------------------------
(* Opening a connection *)

LEMMA IsnOfKind ==
  ASSUME NEW q \in Peers
  PROVE  /\ q \in Servers => Isn(q) = ConnectIsn
         /\ q \in Clients => Isn(q) = AcceptIsn /\ q \notin Servers
BY ClientFacts DEF Isn

(* What tcp_connect and an accepted connection find tracked in their pcb. *)
Leftover(t) ==
  \/ t.flags = {}
  \/ Syn(t) /\ t.data = <<>> /\ t.seq \in {AcceptIsn, ConnectIsn}
  \/ t.seq \in StaleSeqs

LEMMA IsStale ==
  ASSUME NEW q \in Clients, NEW n \in Seqs, At(q, n) \in 1 .. MaxOut[q] + 1
  PROVE  n \in StaleSeqs
<1>1. q \in Peers
  BY ClientFacts
<1>2. At(q, n) = Sub(n, AcceptIsn)
  BY <1>1, IsnOfKind DEF At
<1> QED BY <1>2 DEF StaleSeqs

(* What is tracked of an open connection lies within what was written. *)
LEMMA TrackedWithin ==
  ASSUME WritesFit, NEW c, PcbOK(c), c.remote \in Peers, NEW w \in Nat, NEW P,
         Flowing(c, w, P), c.last_tx.flags # {}
  PROVE  At(c.remote, c.last_tx.seq) \in 1 .. MaxOut[c.remote] + 1
<1>1. PICK q \in Peers : q = c.remote
  OBVIOUS
<1>2. PICK t : t = c.last_tx
  OBVIOUS
<1>3. t.seq \in Seqs /\ t.data \in Seq(Nat) /\ c.snd_nxt \in Seqs /\ Len(t.data) \in Nat
  BY <1>2, LenProperties DEF PcbOK, PcbType, TrackType
<1>4. PICK o \in Nat : o = At(q, t.seq)
  BY <1>3, AtFacts
<1>5. PICK x \in Nat : x = At(q, c.snd_nxt)
  BY <1>3, AtFacts
<1>6. PICK M \in Nat : M = MaxOut[q]
  BY FitFacts
<1>7. x <= w + 1 /\ w <= M /\ Tracked(c, w, P[q].wire)
  BY <1>1, <1>5, <1>6 DEF Flowing
<1>8. 1 <= o /\ (o + Len(t.data) <= x \/ o + Len(t.data) <= w + 1)
  BY <1>1, <1>2, <1>4, <1>5, <1>7 DEF Tracked, End
<1>9. o \in 1 .. M + 1
  BY <1>3, <1>7, <1>8
<1> QED BY <1>1, <1>2, <1>4, <1>6, <1>9

LEMMA LeftoverOf ==
  ASSUME WritesFit, Received, Sending, NEW i \in Pcbs, TakenOK(pcb[i])
  PROVE  Leftover(pcb[i].last_tx)
<1>1. PICK c : c = pcb[i]
  OBVIOUS
<1>2. PICK w \in Nat : w = wrote[i]
  BY PcbFacts
<1>3. PcbOK(c) /\ PcbRight(c, got[i], peer) /\ SendRight(c, w, peer) /\ c.state \in States
  BY <1>1, <1>2, PcbFacts DEF Sending, PcbOK, PcbType
<1>4. Opening(c) => Leftover(c.last_tx)
  BY DEF Opening, Leftover
<1>5. CASE c.state \in {"CLOSED", "SYN_RCVD"}
  BY <1>1, <1>3, <1>4, <1>5 DEF SendRight, Leftover
<1>6. CASE c.state = "LISTEN"
  BY <1>1, <1>3, <1>6 DEF PcbRight, Leftover
<1>7. CASE c.state \in {"ESTABLISHED", "CLOSE_WAIT", "LAST_ACK"} /\ c.last_tx.flags # {}
  <2>1. PICK q \in Clients : q = c.remote
    BY <1>1, <1>7 DEF TakenOK, Live, Closing
  <2>2. c.last_tx.seq \in Seqs /\ q \in Peers
    BY <1>3, <2>1, ClientFacts DEF PcbOK, PcbType, TrackType
  <2>3. At(q, c.last_tx.seq) \in 1 .. MaxOut[q] + 1
    <3>1. CASE c.state \in {"ESTABLISHED", "CLOSE_WAIT"}
      <4>1. Flowing(c, w, peer) /\ c.remote \in Peers
        BY <1>3, <2>1, <2>2, <3>1 DEF SendRight
      <4> QED BY <1>3, <1>7, <2>1, <4>1, TrackedWithin
    <3>2. CASE c.state = "LAST_ACK"
      BY <1>3, <1>7, <2>1, <3>2 DEF SendRight, Ending
    <3> QED BY <1>7, <3>1, <3>2
  <2> QED BY <1>1, <2>2, <2>3, IsStale DEF Leftover
<1>8. CASE c.last_tx.flags = {}
  BY <1>1, <1>8 DEF Leftover
<1> QED BY <1>1, <1>3, <1>5, <1>6, <1>7, <1>8 DEF States, Live, Closing, TakenOK

LEMMA FreshOpening ==
  ASSUME NEW e, e.snd_una = Isn(e.remote), e.snd_nxt = Isn(e.remote), Leftover(e.last_tx)
  PROVE  Opening(e)
BY DEF Opening, Leftover

LEMMA SynOpening ==
  ASSUME NEW d, d.snd_una = Isn(d.remote), d.snd_nxt = Add(Isn(d.remote), 1),
         "SYN" \in d.last_tx.flags, d.last_tx.data = <<>>, d.last_tx.seq = Isn(d.remote)
  PROVE  Opening(d)
<1>1. Isn(d.remote) \in {AcceptIsn, ConnectIsn}
  BY IsnOf
<1> QED BY <1>1 DEF Opening, Syn

LEMMA SynGoesOut ==
  ASSUME Sending, NEW r \in Peers, NEW flags, "SYN" \in flags, NEW s,
         s = Seg(flags, Isn(r), <<>>), NEW i
  PROVE  NewRight(i, r, {s}) /\ OnlySyns({s})
<1>1. Syn(s) /\ s.data = <<>> /\ s.seq = Isn(r)
  BY DEF Seg, Syn
<1>2. SegRight(r, s) /\ OnlySyns({s})
  BY <1>1 DEF SegRight, OnlySyns
<1>3. PICK N : N = {s}
  OBVIOUS
<1>4. Agree(peer[r].wire) /\ \A t \in N : t.data = <<>> \/ t \in peer[r].wire
  BY <1>1, <1>3 DEF Sending, WireRight
<1>5. Agree(peer[r].wire \cup N)
  BY <1>4, AgreeEmpty
<1> QED BY <1>2, <1>3, <1>5 DEF NewRight

(* IP took a SYN: e is the pcb before. *)
LEMMA SynTaken ==
  ASSUME WritesFit, Received, Sending, NEW i \in Pcbs, NEW q \in Peers, NEW e, PcbOK(e),
         e.remote = q, e.snd_una = Isn(q), e.snd_nxt = Isn(q), OnlySyns(peer[q].wire),
         NEW flags \in SUBSET Flags, "SYN" \in flags, NEW s, s = Seg(flags, Isn(q), <<>>),
         NEW d, d = Control(e, flags), NEW P, P = Reaches(e, {s}),
         pcb' = [pcb EXCEPT ![i] = d], peer' = P, wrote' = [wrote EXCEPT ![i] = 0],
         \/ taken' = None /\ e.state = "SYN_SENT"
         \/ taken' = taken /\ e.state = "SYN_RCVD" /\ q \in Clients
  PROVE  Sending'
<1>1. flags # {}
  OBVIOUS
<1>2. /\ d.last_tx.flags = flags /\ d.last_tx.seq = e.snd_nxt /\ d.last_tx.data = <<>>
      /\ d.state = e.state /\ d.remote = e.remote /\ d.snd_nxt = Add(e.snd_nxt, 1)
      /\ d.snd_una = e.snd_una
  BY <1>1, ControlFields
<1>3. Opening(d)
  BY <1>2, SynOpening
<1>4. PICK N : N = {s}
  OBVIOUS
<1>5. NewRight(i, q, N) /\ OnlySyns(N)
  BY <1>4, SynGoesOut
<1>6. Heard(P, q, N)
  BY <1>4, HeardReach
<1>7. OnlySyns(P[q].wire)
  <2>1. P[q].wire = peer[q].wire \cup N
    BY <1>6 DEF Heard
  <2> QED BY <1>5, <2>1 DEF OnlySyns
<1>8. PICK w : w = 0
  OBVIOUS
<1>9. SendRight(d, w, P)
  BY <1>2, <1>3, <1>7, <1>8 DEF SendRight
<1>10. taken' = None \/ (taken' = taken /\ (TakenOK(pcb[i]) => TakenOK(d)))
  BY <1>2 DEF TakenOK
<1>11. wrote' = [wrote EXCEPT ![i] = w]
  BY <1>8
<1> QED BY <1>5, <1>6, <1>9, <1>10, <1>11, SendStep

(* IP refused a SYN. *)
LEMMA SynRefused ==
  ASSUME Received, Sending, NEW i \in Pcbs, NEW q \in Peers, NEW e,
         e.remote = q, e.snd_una = Isn(q), e.snd_nxt = Isn(q), Leftover(e.last_tx),
         \/ e.state = "SYN_SENT" /\ taken' = None
         \/ e.state = "CLOSED" /\ taken' = taken,
         OnlySyns(peer[q].wire),
         pcb' = [pcb EXCEPT ![i] = e], peer' = peer, wrote' = [wrote EXCEPT ![i] = 0]
  PROVE  Sending'
<1>1. Opening(e)
  BY FreshOpening
<1>2. PICK P : P = peer
  OBVIOUS
<1>3. PICK N : N = {}
  OBVIOUS
<1>4. Heard(P, q, N)
  BY <1>2, <1>3, HeardNothing
<1>5. PICK w : w = 0
  OBVIOUS
<1>6. SendRight(e, w, P)
  BY <1>1, <1>2, <1>5 DEF SendRight
<1>7. taken' = None \/ (taken' = taken /\ (TakenOK(pcb[i]) => TakenOK(e)))
  BY DEF TakenOK, Live, Closing
<1>8. wrote' = [wrote EXCEPT ![i] = w] /\ peer' = P
  BY <1>2, <1>5
<1> QED BY <1>3, <1>4, <1>6, <1>7, <1>8, SendStep

LEMMA ConnectSends ==
  ASSUME WritesFit, Received, Sending, NEW q \in Servers, NEW ok \in BOOLEAN, tcp_connect(q, ok)
  PROVE  Sending'
<1>1. PICK i : i = taken
  OBVIOUS
<1>2. i \in Pcbs
  BY <1>1 DEF tcp_connect, Received, TypeInv
<1>3. PICK c : c = pcb[i]
  OBVIOUS
<1>4. PcbOK(c)
  BY <1>2, <1>3, PcbFacts
<1>5. q \in Peers /\ peer[q] = NewPeer
  BY DEF tcp_connect, Untried, Peers
<1>6. OnlySyns(peer[q].wire)
  BY <1>5 DEF NewPeer, OnlySyns
<1>7. Leftover(c.last_tx)
  <2>1. TakenOK(c)
    BY <1>1, <1>3 DEF tcp_connect, Sending, TakenRight, TakenOK
  <2> QED BY <1>2, <1>3, <2>1, LeftoverOf
<1>8. PICK e : e = Connecting(c, q)
  OBVIOUS
<1>9. /\ PcbOK(e) /\ e.last_tx = c.last_tx /\ e.state = "SYN_SENT"
      /\ e.remote = q /\ e.snd_nxt = ConnectIsn /\ e.snd_una = ConnectIsn
  BY <1>4, <1>8, ConnectingFields
<1>10. Isn(q) = ConnectIsn
  BY <1>5, IsnOfKind
<1>11. CASE ok
  <2>1. PICK flags : flags = {"SYN"}
    OBVIOUS
  <2>2. flags \in SUBSET Flags /\ "SYN" \in flags
    BY <2>1 DEF Flags
  <2>3. PICK s : s = Seg(flags, Isn(q), <<>>)
    OBVIOUS
  <2>4. PICK d : d = Control(e, flags)
    OBVIOUS
  <2>5. PICK P : P = Reaches(e, {s})
    OBVIOUS
  <2>6. /\ pcb' = [pcb EXCEPT ![i] = d] /\ peer' = P
        /\ wrote' = [wrote EXCEPT ![i] = 0] /\ taken' = None
    BY <1>1, <1>3, <1>8, <1>9, <1>10, <1>11, <2>1, <2>3, <2>4, <2>5 DEF tcp_connect
  <2> QED BY <1>2, <1>5, <1>6, <1>9, <1>10, <2>2, <2>3, <2>4, <2>5, <2>6, SynTaken
<1>12. CASE ~ok
  <2>1. /\ pcb' = [pcb EXCEPT ![i] = e] /\ peer' = peer
        /\ wrote' = [wrote EXCEPT ![i] = 0] /\ taken' = None
    BY <1>1, <1>3, <1>8, <1>12 DEF tcp_connect
  <2> QED BY <1>2, <1>5, <1>6, <1>7, <1>9, <1>10, <2>1, SynRefused
<1> QED BY <1>11, <1>12

LEMMA InputListenSends ==
  ASSUME WritesFit, Received, Sending, NEW q \in Peers, NEW s \in Segments(q),
         NEW i \in tcp_find_pcb(q), NEW j \in Pcbs, NEW ok \in BOOLEAN,
         InputListen(i, q, s, j, ok), taken' = taken
  PROVE  Sending'
<1>1. q \in Clients
  BY FindFacts DEF InputListen
<1>2. peer[q].st # "open" /\ s.seq = PeerIsn
  BY <1>1, SynFacts DEF InputListen
<1>3. OnlySyns(peer[q].wire)
  BY <1>2 DEF Sending, WireRight
<1>4. PICK f : f = tcp_get_free_pcb(j)
  OBVIOUS
<1>5. j \in FreePcbs
  BY DEF InputListen
<1>6. PcbOK(f) /\ (f = pcb[j] \/ f.last_tx.flags = {}) /\ f.state = "CLOSED"
  BY <1>4, <1>5, FreePcbFacts
<1>7. Leftover(f.last_tx)
  <2>1. CASE f.last_tx.flags = {}
    BY <2>1 DEF Leftover
  <2>2. CASE f = pcb[j]
    <3>1. TakenOK(pcb[j])
      BY <1>6, <2>2 DEF TakenOK, Live, Closing
    <3> QED BY <2>2, <3>1, LeftoverOf
  <2> QED BY <1>6, <2>1, <2>2
<1>8. PICK e : e = Accepting(f, q, s)
  OBVIOUS
<1>9. /\ PcbOK(e) /\ e.last_tx = f.last_tx /\ e.state = "SYN_RCVD" /\ e.remote = q
      /\ e.snd_nxt = AcceptIsn /\ e.snd_una = AcceptIsn
  BY <1>1, <1>2, <1>6, <1>8, AcceptingFields
<1>10. Isn(q) = AcceptIsn
  BY <1>1, IsnOfKind
<1>11. CASE ok
  <2>1. PICK flags : flags = {"SYN", "ACK"}
    OBVIOUS
  <2>2. flags \in SUBSET Flags /\ "SYN" \in flags
    BY <2>1 DEF Flags
  <2>3. PICK t : t = Seg(flags, Isn(q), <<>>)
    OBVIOUS
  <2>4. PICK d : d = Control(e, flags)
    OBVIOUS
  <2>5. PICK P : P = Reaches(e, {t})
    OBVIOUS
  <2>6. /\ pcb' = [pcb EXCEPT ![j] = d] /\ peer' = P
        /\ wrote' = [wrote EXCEPT ![j] = 0]
    BY <1>4, <1>8, <1>9, <1>10, <1>11, <2>1, <2>3, <2>4, <2>5 DEF InputListen
  <2> QED BY <1>1, <1>3, <1>9, <1>10, <2>2, <2>3, <2>4, <2>5, <2>6, SynTaken
<1>12. CASE ~ok
  <2>1. PICK d : d = [e EXCEPT !.state = "CLOSED"]
    OBVIOUS
  <2>2. /\ d.state = "CLOSED" /\ d.last_tx = e.last_tx /\ d.remote = e.remote
        /\ d.snd_nxt = e.snd_nxt /\ d.snd_una = e.snd_una
    BY <1>9, <2>1 DEF PcbOK, PcbType
  <2>3. /\ pcb' = [pcb EXCEPT ![j] = d] /\ peer' = peer
        /\ wrote' = [wrote EXCEPT ![j] = 0]
    BY <1>4, <1>8, <1>12, <2>1 DEF InputListen
  <2> QED BY <1>3, <1>7, <1>9, <1>10, <2>2, <2>3, SynRefused
<1> QED BY <1>11, <1>12

-----------------------------------------------------------------------------
(* Acknowledgements *)

(* A peer acknowledges nothing it does not have. *)
LEMMA AckBehind ==
  ASSUME Received, Sending, NEW q \in Peers, NEW s \in Segments(q), "ACK" \in s.flags
  PROVE  /\ At(q, s.ack) <= At(q, peer[q].rcv)
         /\ "SYN" \in s.flags => s.ack = Add(ConnectIsn, 1)
<1>1. TypeInv /\ PeerRight(q, peer[q]) /\ WireRight(q, peer[q])
  BY DEF Received, Sending
<1>2. s.flags # {"SYN"}
  BY SMT
<1>3. PICK a \in peer[q].acks :
        /\ s.ack = a[1]
        /\ \/ s.ack = Add(ConnectIsn, 1)
           \/ s.flags = {"ACK"} \/ s.flags = {"ACK", "FIN"}
           \/ s.flags = {"RST"} \/ s.flags = {"RST", "ACK"}
  BY <1>1, <1>2, SegmentKinds
<1>4. peer[q].st = "open"
  BY <1>1, <1>3 DEF PeerRight
<1>5. At(q, s.ack) <= At(q, peer[q].rcv)
  BY <1>1, <1>3, <1>4 DEF WireRight, Got
<1> QED BY <1>3, <1>5

(* The peer has answered the SYN. *)
LEMMA OpenStep ==
  ASSUME WritesFit, Received, Sending, NEW i \in Pcbs, NEW c, c = pcb[i], NEW q \in Peers,
         c.remote = q, c.state = "SYN_RCVD" \/ c.state = "SYN_SENT",
         NEW s \in Segments(q), "ACK" \in s.flags, s.ack = c.snd_nxt,
         c.state = "SYN_SENT" => "SYN" \in s.flags,
         NEW d, d.state = "ESTABLISHED", d.remote = q, d.snd_nxt = c.snd_nxt,
         d.snd_una = s.ack, d.last_tx.flags = {},
         NEW ok, peer' = peer \/ peer' = tcp_send_ack(d, ok),
         pcb' = [pcb EXCEPT ![i] = d], wrote' = wrote, taken' = taken
  PROVE  Sending'
<1>1. PICK w : w = wrote[i]
  OBVIOUS
<1>2. SendRight(c, w, peer) /\ PcbRight(c, got[i], peer) /\ wrote' = [wrote EXCEPT ![i] = w]
  BY <1>1, PcbFacts DEF Sending
<1>3. w = 0 /\ OnlySyns(peer[q].wire)
  BY <1>2 DEF SendRight
<1>4. PICK n : n = Add(Isn(q), 1)
  OBVIOUS
<1>5. d.snd_nxt = n
  <2>1. CASE c.state = "SYN_RCVD"
    BY <1>2, <1>4, <2>1 DEF SendRight
  <2>2. CASE c.state = "SYN_SENT"
    <3>1. q \in Servers
      BY <1>2, <2>2 DEF PcbRight
    <3>2. Isn(q) = ConnectIsn
      BY <3>1, IsnOfKind
    <3>3. "SYN" \in s.flags
      BY <2>2
    <3>4. s.ack = Add(ConnectIsn, 1)
      BY <3>3, AckBehind
    <3> QED BY <1>4, <3>2, <3>4
  <2> QED BY <2>1, <2>2
<1>6. At(q, d.snd_nxt) = 1
  BY <1>4, <1>5, AtIsn
<1>7. At(q, d.snd_una) <= At(q, peer[q].rcv)
  BY AckBehind
<1>8. PICK P : P = peer'
  OBVIOUS
<1>9. Heard(P, q, {})
  BY <1>8, HeardAck
<1>10. P[q].wire = peer[q].wire /\ P[q].rcv = peer[q].rcv
  BY <1>9 DEF Heard
<1>11. Flowing(d, w, P)
  <2>1. w <= MaxOut[q] /\ 1 <= At(q, d.snd_nxt) /\ At(q, d.snd_nxt) <= w + 1
    BY <1>3, <1>6, FitFacts
  <2>2. Tracked(d, w, P[q].wire)
    BY DEF Tracked
  <2>3. \A t \in P[q].wire : ~Syn(t) => ~Fin(t) /\ End(q, t) <= At(q, d.snd_nxt)
    BY <1>3, <1>10 DEF OnlySyns
  <2>4. At(q, d.snd_una) <= At(q, P[q].rcv)
    BY <1>7, <1>10
  <2> QED BY <2>1, <2>2, <2>3, <2>4 DEF Flowing
<1>12. SendRight(d, w, P)
  BY <1>11 DEF SendRight
<1>13. TakenOK(c) => TakenOK(d)
  BY <1>2 DEF TakenOK, Live, Closing, PcbRight
<1>14. PICK N : N = {}
  OBVIOUS
<1> QED BY <1>2, <1>8, <1>9, <1>12, <1>13, <1>14, SendStep

LEMMA InputSynSentSends ==
  ASSUME WritesFit, Received, Sending, NEW q \in Peers, NEW s \in Segments(q),
         NEW i \in tcp_find_pcb(q), NEW ok \in BOOLEAN, InputSynSent(i, s, ok), taken' = taken
  PROVE  Sending'
<1>1. PICK c : c = pcb[i]
  OBVIOUS
<1>2. i \in Pcbs /\ c.state = "SYN_SENT" /\ c.remote = q /\ PcbOK(c) /\ wrote' = wrote
  BY <1>1, FindFacts, PcbFacts DEF InputSynSent
<1>3. s.ack \in Seqs /\ s.wnd \in Int /\ s.seq \in Seqs /\ s.seq \in Int
  BY SegmentFacts DEF Seqs
<1>4. CASE /\ {"SYN", "ACK"} \subseteq s.flags /\ s.ack = pcb[i].snd_nxt
           /\ pcb' = [pcb EXCEPT ![i] = [Established(@, s) EXCEPT !.rcv_nxt = Add(s.seq, 1)]]
           /\ peer' = tcp_send_ack(pcb'[i], ok)
  <2>1. PICK e : e = Established(c, s)
    OBVIOUS
  <2>2. /\ PcbOK(e) /\ e.last_tx.flags = {} /\ e.state = "ESTABLISHED"
        /\ e.remote = c.remote /\ e.snd_nxt = c.snd_nxt /\ e.snd_una = s.ack
    BY <1>2, <1>3, <2>1, EstablishedFields
  <2>3. PICK d : d = [e EXCEPT !.rcv_nxt = Add(s.seq, 1)]
    OBVIOUS
  <2>4. /\ d.last_tx.flags = {} /\ d.state = "ESTABLISHED"
        /\ d.remote = q /\ d.snd_nxt = c.snd_nxt /\ d.snd_una = s.ack
    BY <1>2, <2>2, <2>3 DEF PcbOK, PcbType
  <2>5. pcb' = [pcb EXCEPT ![i] = d]
    BY <1>1, <1>4, <2>1, <2>3
  <2>6. pcb'[i] = d
    BY <1>2, <2>5 DEF Received, TypeInv
  <2>7. peer' = tcp_send_ack(d, ok)
    BY <1>4, <2>6
  <2>8. "ACK" \in s.flags /\ "SYN" \in s.flags /\ s.ack = c.snd_nxt
    BY <1>1, <1>4
  <2> QED BY <1>1, <1>2, <2>4, <2>5, <2>7, <2>8, OpenStep
<1>5. CASE pcb' = [pcb EXCEPT ![i].state = "CLOSED"] /\ peer' = peer
  <2>1. PICK d : d = [c EXCEPT !.state = "CLOSED"]
    OBVIOUS
  <2>2. pcb' = [pcb EXCEPT ![i] = d]
    BY <1>1, <1>5, <2>1
  <2>3. c.state \in {"SYN_SENT", "SYN_RCVD"} /\ peer' = peer
    BY <1>2, <1>5
  <2> QED BY <1>1, <1>2, <2>1, <2>2, <2>3, RefusedSends
<1> QED BY <1>4, <1>5 DEF InputSynSent

LEMMA AcceptedSends ==
  ASSUME NEW c, PcbOK(c), NEW s, NEW d, d = Accepted(c, s)
  PROVE  /\ d.last_tx = c.last_tx /\ d.state = c.state /\ d.remote = c.remote
         /\ d.snd_nxt = c.snd_nxt /\ d.snd_una = c.snd_una
<1>1. PICK x : x = Add(c.rcv_nxt, Len(s.data))
  OBVIOUS
<1>2. PICK y : y = IF c.port = "ssh" THEN c.rx
                   ELSE c.rx \o SubSeq(s.data, 1, SmallerOf(RxMax - Len(c.rx), Len(s.data)))
  OBVIOUS
<1>3. d = [c EXCEPT !.rcv_nxt = x, !.rx = y]
  BY <1>1, <1>2 DEF Accepted, PcbOK, PcbType
<1> QED BY <1>3 DEF PcbOK, PcbType

LEMMA InputSynRcvdSends ==
  ASSUME WritesFit, Received, Sending, NEW q \in Peers, NEW s \in Segments(q),
         NEW i \in tcp_find_pcb(q), NEW ok \in BOOLEAN, InputSynRcvd(i, s, ok), taken' = taken
  PROVE  Sending'
<1>1. PICK c : c = pcb[i]
  OBVIOUS
<1>2. i \in Pcbs /\ c.state = "SYN_RCVD" /\ c.remote = q /\ PcbOK(c) /\ wrote' = wrote
  BY <1>1, FindFacts, PcbFacts DEF InputSynRcvd
<1>3. s.ack \in Seqs /\ s.wnd \in Int
  BY SegmentFacts
<1>4. CASE "ACK" \in s.flags
  <2>1. PICK e : e = Established(c, s)
    OBVIOUS
  <2>2. /\ PcbOK(e) /\ e.last_tx.flags = {} /\ e.state = "ESTABLISHED"
        /\ e.remote = c.remote /\ e.snd_nxt = c.snd_nxt /\ e.snd_una = s.ack
    BY <1>2, <1>3, <2>1, EstablishedFields
  <2>3. s.ack = c.snd_nxt
    BY <1>1, <1>4 DEF InputSynRcvd
  <2>4. PICK d : d = IF s.data # <<>> /\ InOrder(e, s) THEN Accepted(e, s) ELSE e
    OBVIOUS
  <2>5. /\ d.last_tx.flags = {} /\ d.state = "ESTABLISHED"
        /\ d.remote = q /\ d.snd_nxt = c.snd_nxt /\ d.snd_una = s.ack
    <3>1. CASE d = Accepted(e, s)
      <4>1. /\ d.last_tx = e.last_tx /\ d.state = e.state /\ d.remote = e.remote
            /\ d.snd_nxt = e.snd_nxt /\ d.snd_una = e.snd_una
        BY <2>2, <3>1, AcceptedSends
      <4> QED BY <1>2, <2>2, <4>1
    <3>2. CASE d = e
      BY <1>2, <2>2, <3>2
    <3> QED BY <2>4, <3>1, <3>2
  <2>6. pcb' = [pcb EXCEPT ![i] = d] /\ (peer' = peer \/ peer' = tcp_send_ack(pcb'[i], ok))
    <3>1. CASE s.data # <<>> /\ InOrder(e, s)
      BY <1>1, <1>4, <2>1, <2>4, <3>1 DEF InputSynRcvd
    <3>2. CASE ~(s.data # <<>> /\ InOrder(e, s))
      BY <1>1, <1>4, <2>1, <2>4, <3>2 DEF InputSynRcvd
    <3> QED BY <3>1, <3>2
  <2>7. pcb'[i] = d
    BY <1>2, <2>6 DEF Received, TypeInv
  <2>8. peer' = peer \/ peer' = tcp_send_ack(d, ok)
    BY <2>6, <2>7
  <2>9. c.state = "SYN_SENT" => "SYN" \in s.flags
    BY <1>2
  <2>10. /\ c.state = "SYN_RCVD" \/ c.state = "SYN_SENT"
         /\ c.remote = q /\ wrote' = wrote /\ i \in Pcbs
         /\ pcb' = [pcb EXCEPT ![i] = d]
    BY <1>2, <2>6
  <2> QED BY <1>1, <1>4, <2>3, <2>5, <2>8, <2>9, <2>10, OpenStep
<1>5. CASE "ACK" \notin s.flags
  <2>1. PICK d : d = [c EXCEPT !.state = "CLOSED"]
    OBVIOUS
  <2>2. pcb' = [pcb EXCEPT ![i] = d] /\ peer' = peer
    BY <1>1, <1>5, <2>1 DEF InputSynRcvd
  <2>3. c.state \in {"SYN_SENT", "SYN_RCVD"}
    BY <1>2
  <2> QED BY <1>1, <1>2, <2>1, <2>2, <2>3, RefusedSends
<1> QED BY <1>4, <1>5

(* What an acknowledgement makes of an open connection. *)
LEMMA AcknowledgedFlows ==
  ASSUME Received, Sending, NEW i \in Pcbs, NEW c, c = pcb[i], c.state = "ESTABLISHED",
         NEW s \in Segments(c.remote), NEW d, d = Acknowledged(c, s), NEW w, w = wrote[i],
         NEW e, e.remote = d.remote, e.snd_nxt = d.snd_nxt, e.snd_una = d.snd_una,
         e.last_tx = d.last_tx, NEW r, NEW P, Heard(P, r, {})
  PROVE  /\ Flowing(e, w, P)
         /\ PcbOK(d) /\ d.remote = c.remote /\ d.state = c.state /\ c.remote \in Peers
<1>1. /\ PcbOK(c) /\ PcbRight(c, got[i], peer) /\ SendRight(c, w, peer)
  BY PcbFacts DEF Sending
<1>2. PICK q \in Peers : q = c.remote
  BY <1>1 DEF PcbRight, Live
<1>3. s.ack \in Seqs /\ s.wnd \in Int
  BY <1>2, SegmentFacts
<1>4. /\ PcbOK(d) /\ d.state = c.state /\ d.remote = c.remote
      /\ d.snd_nxt = c.snd_nxt
      /\ d.snd_una = c.snd_una \/ (d.snd_una = s.ack /\ "ACK" \in s.flags)
      /\ d.last_tx = c.last_tx \/ (d.last_tx.flags = {} /\ d.last_tx.data = <<>>)
  BY <1>1, <1>3, AcknowledgedFields
<1>5. e.snd_una = c.snd_una \/ At(q, e.snd_una) <= At(q, peer[q].rcv)
  BY <1>2, <1>4, AckBehind
<1>6. Flowing(c, w, peer)
  BY <1>1 DEF SendRight
<1>7. /\ e.remote = c.remote /\ e.snd_nxt = c.snd_nxt
      /\ TrackKept(e.last_tx, c.last_tx)
  BY <1>4 DEF TrackKept
<1>8. Flowing(e, w, P)
  BY <1>2, <1>5, <1>6, <1>7, FlowKept
<1> QED BY <1>2, <1>4, <1>8

LEMMA InputDataSends ==
  ASSUME Received, Sending, NEW q \in Peers, NEW s \in Segments(q),
         NEW i \in tcp_find_pcb(q), NEW ok \in BOOLEAN, InputData(i, s, ok), taken' = taken
  PROVE  Sending'
<1>1. PICK c : c = pcb[i]
  OBVIOUS
<1>2. i \in Pcbs /\ c.state = "ESTABLISHED" /\ c.remote = q /\ PcbOK(c)
  BY <1>1, FindFacts, PcbFacts DEF InputData
<1>3. PICK w : w = wrote[i]
  OBVIOUS
<1>4. wrote' = [wrote EXCEPT ![i] = w]
  BY <1>2, <1>3, PcbFacts DEF InputData
<1>5. PICK e : e = Acknowledged(c, s)
  OBVIOUS
<1>6. Heard(peer, q, {})
  BY HeardNothing
<1>7. PcbOK(e) /\ e.remote = q /\ e.state = "ESTABLISHED"
  BY <1>1, <1>2, <1>3, <1>5, <1>6, AcknowledgedFlows
<1>8. PICK d : d = IF s.data # <<>> /\ InOrder(e, s) THEN Accepted(e, s) ELSE e
  OBVIOUS
<1>9. /\ d.last_tx = e.last_tx /\ d.state = e.state /\ d.remote = e.remote
      /\ d.snd_nxt = e.snd_nxt /\ d.snd_una = e.snd_una
  <2>1. CASE d = Accepted(e, s)
    BY <1>7, <2>1, AcceptedSends
  <2>2. CASE d = e
    BY <2>2
  <2> QED BY <1>8, <2>1, <2>2
<1>10. pcb' = [pcb EXCEPT ![i] = d] /\ (peer' = peer \/ peer' = tcp_send_ack(pcb'[i], ok))
  <2>1. pcb' = [pcb EXCEPT ![i] = d]
    <3>1. CASE s.data # <<>> /\ InOrder(e, s)
      BY <1>1, <1>5, <1>8, <3>1 DEF InputData
    <3>2. CASE ~(s.data # <<>> /\ InOrder(e, s))
      BY <1>1, <1>5, <1>8, <3>2 DEF InputData
    <3> QED BY <3>1, <3>2
  <2>2. peer' = peer \/ peer' = tcp_send_ack(pcb'[i], ok)
    BY DEF InputData
  <2> QED BY <2>1, <2>2
<1>11. pcb'[i] = d
  BY <1>2, <1>10 DEF Received, TypeInv
<1>12. PICK P : P = peer'
  OBVIOUS
<1>13. Heard(P, q, {})
  <2>1. P = tcp_send_ack(d, ok) \/ P = peer
    BY <1>10, <1>11, <1>12
  <2> QED BY <1>7, <1>9, <2>1, HeardAck
<1>14. Flowing(d, w, P)
  BY <1>1, <1>2, <1>3, <1>5, <1>9, <1>13, AcknowledgedFlows
<1>15. SendRight(d, w, P)
  BY <1>7, <1>9, <1>14 DEF SendRight
<1>16. TakenOK(c) => TakenOK(d)
  BY <1>2, <1>7, <1>9 DEF TakenOK
<1>17. PICK N : N = {}
  OBVIOUS
<1> QED BY <1>1, <1>2, <1>4, <1>10, <1>12, <1>13, <1>15, <1>16, <1>17, SendStep

-----------------------------------------------------------------------------
(* Closing a connection *)

LEMMA OpenFacts ==
  ASSUME Received, NEW i \in Pcbs, pcb[i].state \in {"ESTABLISHED", "CLOSE_WAIT", "LAST_ACK"},
         NEW q, q = pcb[i].remote
  PROVE  /\ q \in Peers /\ peer[q].st = "open" /\ Alone(i, q)
         /\ TakenOK(pcb[i]) => q \in Clients
<1>1. PcbRight(pcb[i], got[i], peer) /\ pcb[i].state \in Live /\ Holds(pcb[i])
  BY PcbFacts DEF Live, Closing, Holds
<1>2. q \in Peers /\ peer[q].st = "open"
  BY <1>1 DEF PcbRight, Closing
<1>3. Alone(i, q)
  BY <1>1, HolderAlone
<1> QED BY <1>1, <1>2, <1>3 DEF TakenOK

(* tcp_close sends a FIN where the data ends: c is the pcb by then. *)
LEMMA FinStep ==
  ASSUME WritesFit, Received, Sending, NEW i \in Pcbs,
         pcb[i].state \in {"ESTABLISHED", "CLOSE_WAIT"},
         NEW q, q = pcb[i].remote, NEW c, PcbOK(c), c.remote = q, NEW w \in Nat,
         w = wrote[i], Flowing(c, w, peer),
         NEW d, d = tcp_close(c, TRUE), NEW P, P = Reaches(c, {FinSeg(c)}),
         pcb' = [pcb EXCEPT ![i] = d], wrote' = wrote, peer' = P, taken' = taken
  PROVE  Sending'
<1>1. q \in Peers /\ peer[q].st = "open" /\ Alone(i, q) /\ (TakenOK(pcb[i]) => q \in Clients)
  BY OpenFacts
<1>2. /\ d.last_tx.flags = {"FIN", "ACK"} /\ d.last_tx.seq = c.snd_nxt
      /\ d.last_tx.data = <<>> /\ d.state = "LAST_ACK" /\ d.remote = c.remote
      /\ d.snd_nxt = Add(c.snd_nxt, 1)
  BY CloseFields, ZenonT(60)
<1>3. PICK o \in Nat : o = At(q, c.snd_nxt)
  BY AtFacts DEF PcbOK, PcbType
<1>4. PICK M \in Nat : M = MaxOut[q]
  BY <1>1, FitFacts
<1>5. 1 <= o /\ o <= M + 1
  BY <1>3, <1>4 DEF Flowing
<1>6. PICK s : s = FinSeg(c)
  OBVIOUS
<1>7. s.data = <<>> /\ s.seq = c.snd_nxt /\ ~Syn(s) /\ Len(s.data) = 0
  BY <1>6 DEF FinSeg, Seg, Syn
<1>8. SegRight(q, s)
  <2>1. At(q, s.seq) = o /\ End(q, s) = o
    BY <1>3, <1>7 DEF End
  <2> QED BY <1>4, <1>5, <1>7, <2>1 DEF SegRight
<1>9. PICK N : N = {s}
  OBVIOUS
<1>10. NewRight(i, q, N)
  <2>1. Agree(peer[q].wire) /\ \A t \in N : t.data = <<>> \/ t \in peer[q].wire
    BY <1>1, <1>7, <1>9 DEF Sending, WireRight
  <2>2. Agree(peer[q].wire \cup N)
    BY <2>1, AgreeEmpty
  <2> QED BY <1>1, <1>8, <1>9, <2>2 DEF NewRight
<1>11. Heard(P, q, N)
  BY <1>1, <1>6, <1>9, HeardReach
<1>12. SendRight(d, w, P)
  <2>0. o \in 1 .. M + 1
    BY <1>5
  <2>1. At(q, d.last_tx.seq) \in 1 .. MaxOut[q] + 1
    BY <1>2, <1>3, <1>4, <2>0
  <2>2. Ending(d)
    BY <1>2, <2>1 DEF Ending
  <2> QED BY <1>2, <2>2 DEF SendRight
<1>13. TakenOK(pcb[i]) => TakenOK(d)
  BY <1>1, <1>2 DEF TakenOK
<1>14. wrote' = [wrote EXCEPT ![i] = w]
  BY PcbFacts DEF Received, TypeInv
<1> QED BY <1>10, <1>11, <1>12, <1>13, <1>14, SendStep

LEMMA CloseSends ==
  ASSUME WritesFit, Received, Sending, NEW i \in Pcbs, Close(i)
  PROVE  Sending'
<1>1. PICK c : c = pcb[i]
  OBVIOUS
<1>2. PICK w \in Nat : w = wrote[i]
  BY PcbFacts
<1>3. PcbOK(c) /\ c.state \in {"ESTABLISHED", "CLOSE_WAIT"} /\ SendRight(c, w, peer)
  BY <1>1, <1>2, PcbFacts DEF Close, Sending
<1>4. Flowing(c, w, peer)
  BY <1>3 DEF SendRight
<1>5. PICK d : d = tcp_close(c, TRUE)
  OBVIOUS
<1>6. PICK P : P = Reaches(c, {FinSeg(c)})
  OBVIOUS
<1>7. /\ pcb' = [pcb EXCEPT ![i] = d] /\ wrote' = wrote /\ peer' = P /\ taken' = taken
  BY <1>1, <1>5, <1>6 DEF Close
<1>8. PICK q : q = c.remote
  OBVIOUS
<1>9. pcb[i].state \in {"ESTABLISHED", "CLOSE_WAIT"} /\ q = pcb[i].remote
  BY <1>1, <1>3, <1>8
<1> QED BY <1>2, <1>3, <1>4, <1>5, <1>6, <1>7, <1>8, <1>9, FinStep

LEMMA InputFinSends ==
  ASSUME WritesFit, Received, Sending, NEW q \in Peers, NEW s \in Segments(q),
         NEW i \in tcp_find_pcb(q), NEW ok \in BOOLEAN, InputFin(i, s, ok), taken' = taken
  PROVE  Sending'
<1>1. PICK b : b = pcb[i]
  OBVIOUS
<1>2. i \in Pcbs /\ b.state = "ESTABLISHED" /\ b.remote = q /\ PcbOK(b)
  BY <1>1, FindFacts, PcbFacts DEF InputFin
<1>3. PICK w \in Nat : w = wrote[i]
  BY <1>2, PcbFacts
<1>4. PICK a : a = Acknowledged(b, s)
  OBVIOUS
<1>5. PICK P0 : P0 = peer
  OBVIOUS
<1>6. Heard(P0, q, {})
  BY <1>5, HeardNothing
<1>7. PcbOK(a) /\ a.remote = q /\ a.state = "ESTABLISHED"
  BY <1>1, <1>2, <1>3, <1>4, <1>6, AcknowledgedFlows
<1>8. PICK c : c = [a EXCEPT !.rcv_nxt = Add(s.seq, 1), !.state = "CLOSE_WAIT"]
  OBVIOUS
<1>9. /\ PcbOK(c) /\ c.state = "CLOSE_WAIT" /\ c.remote = q /\ c.snd_nxt = a.snd_nxt
      /\ c.snd_una = a.snd_una /\ c.last_tx = a.last_tx
  <2>1. s.seq \in Int
    BY SegmentFacts DEF Seqs
  <2>2. Add(s.seq, 1) \in Seqs /\ "CLOSE_WAIT" \in States
    BY <2>1, SeqOps DEF States, Live, Closing
  <2> QED BY <1>7, <1>8, <2>2 DEF PcbOK, PcbType
<1>10. Flowing(c, w, peer)
  <2>1. /\ c.remote = a.remote /\ c.snd_nxt = a.snd_nxt
        /\ c.snd_una = a.snd_una /\ c.last_tx = a.last_tx
    BY <1>7, <1>9
  <2>2. s \in Segments(b.remote) /\ i \in Pcbs /\ b.state = "ESTABLISHED"
    BY <1>2
  <2>3. Flowing(c, w, P0)
    BY <1>1, <1>3, <1>4, <1>6, <2>1, <2>2, AcknowledgedFlows
  <2> QED BY <1>5, <2>3
<1>11. pcb[i].state \in {"ESTABLISHED", "CLOSE_WAIT"} /\ q = pcb[i].remote
  BY <1>1, <1>2
<1>12. CASE ok
  <2>1. PICK d : d = tcp_close(c, TRUE)
    OBVIOUS
  <2>2. PICK P : P = Reaches(c, {FinSeg(c)})
    OBVIOUS
  <2>3. pcb' = [pcb EXCEPT ![i] = d] /\ wrote' = wrote /\ peer' = P
    <3>1. tcp_close(c, ok) = d
      BY <1>12, <2>1 DEF tcp_close
    <3> QED BY <1>1, <1>4, <1>8, <1>12, <2>2, <3>1 DEF InputFin
  <2> QED BY <1>2, <1>3, <1>9, <1>10, <1>11, <2>1, <2>2, <2>3, FinStep
<1>13. CASE ~ok
  <2>1. pcb' = [pcb EXCEPT ![i] = c] /\ wrote' = wrote /\ peer' = P0
    <3>1. tcp_close(c, ok) = c
      BY <1>13 DEF tcp_close
    <3> QED BY <1>1, <1>4, <1>5, <1>8, <1>13, <3>1 DEF InputFin
  <2>2. wrote' = [wrote EXCEPT ![i] = w]
    BY <1>2, <1>3, <2>1, PcbFacts
  <2>3. SendRight(c, w, P0)
    BY <1>5, <1>9, <1>10 DEF SendRight
  <2>4. TakenOK(pcb[i]) => TakenOK(c)
    BY <1>2, <1>9, <1>11, OpenFacts DEF TakenOK
  <2>5. PICK N : N = {}
    OBVIOUS
  <2> QED BY <1>2, <1>6, <2>1, <2>2, <2>3, <2>4, <2>5, SendStep
<1> QED BY <1>12, <1>13

-----------------------------------------------------------------------------
(* Writing *)

(* N goes out on the open connection of pcb i, to which v bytes have been  *)
(* written by then; d is the pcb after.                                    *)
LEMMA DataStep ==
  ASSUME Received, Sending, NEW i \in Pcbs, NEW c, c = pcb[i],
         c.state \in {"ESTABLISHED", "CLOSE_WAIT"}, NEW q, q = c.remote, NEW d,
         d.state = c.state, d.remote = q, d.snd_una = c.snd_una, d.snd_nxt \in Seqs,
         NEW N, \A s \in N : SegRight(q, s) /\ ~Fin(s) /\ End(q, s) <= At(q, d.snd_nxt),
         N = {} \/ Agree(peer[q].wire \cup N), peer[q].wire \cup N \in SUBSET SegType,
         At(q, c.snd_nxt) <= At(q, d.snd_nxt), NEW v \in Nat, v <= MaxOut[q],
         At(q, d.snd_nxt) <= v + 1, NEW P, Heard(P, q, N), Tracked(d, v, P[q].wire),
         pcb' = [pcb EXCEPT ![i] = d], wrote' = [wrote EXCEPT ![i] = v], peer' = P,
         taken' = taken
  PROVE  Sending'
<1>1. q \in Peers /\ peer[q].st = "open" /\ Alone(i, q) /\ (TakenOK(c) => q \in Clients)
  BY OpenFacts
<1>2. PICK w : w = wrote[i]
  OBVIOUS
<1>3. Flowing(c, w, peer)
  BY <1>2 DEF Sending, SendRight
<1>4. PICK x \in Nat : x = At(q, c.snd_nxt)
  BY PcbFacts, AtFacts DEF PcbOK, PcbType
<1>5. PICK y \in Nat : y = At(q, d.snd_nxt)
  BY AtFacts
<1>6. P[q].wire = peer[q].wire \cup N /\ P[q].rcv = peer[q].rcv
  BY <1>1 DEF Heard
<1>7. 1 <= x /\ x <= y /\ y <= v + 1
  BY <1>3, <1>4, <1>5 DEF Flowing
<1>8. ASSUME NEW s \in P[q].wire, ~Syn(s)
      PROVE  ~Fin(s) /\ End(q, s) <= y
  <2>1. CASE s \in N
    BY <1>5, <2>1
  <2>2. CASE s \in peer[q].wire
    <3>1. ~Fin(s) /\ End(q, s) <= x
      BY <1>3, <1>4, <1>8, <2>2 DEF Flowing
    <3>2. End(q, s) \in Int
      <4>1. s \in SegType
        BY <2>2
      <4>2. At(q, s.seq) \in Nat /\ Len(s.data) \in Nat
        BY <4>1, SegTypes, AtFacts
      <4> QED BY <4>2 DEF End
    <3> QED BY <1>7, <3>1, <3>2
  <2> QED BY <1>6, <1>8, <2>1, <2>2
<1>9. Flowing(d, v, P)
  <2>1. At(q, d.snd_una) <= At(q, P[q].rcv)
    BY <1>3, <1>6 DEF Flowing
  <2> QED BY <1>5, <1>7, <1>8, <2>1 DEF Flowing
<1>10. SendRight(d, v, P)
  BY <1>9 DEF SendRight
<1>11. N = {} \/ NewRight(i, q, N)
  BY <1>1 DEF NewRight
<1>12. TakenOK(c) => TakenOK(d)
  BY <1>1 DEF TakenOK
<1> QED BY <1>10, <1>11, <1>12, SendStep

(* Where the wire of an open connection ends. *)
LEMMA WireEnds ==
  ASSUME Received, Sending, NEW i \in Pcbs, NEW c, c = pcb[i],
         c.state \in {"ESTABLISHED", "CLOSE_WAIT"}, NEW q, q = c.remote
  PROVE  /\ q \in Peers /\ peer[q].wire \in SUBSET SegType /\ Agree(peer[q].wire)
         /\ \A s \in peer[q].wire : SegRight(q, s)
         /\ \A s \in peer[q].wire : ~Syn(s) => End(q, s) <= At(q, c.snd_nxt)
         /\ At(q, c.snd_nxt) \in Nat /\ 1 <= At(q, c.snd_nxt)
         /\ wrote[i] \in Nat /\ wrote[i] <= MaxOut[q] /\ At(q, c.snd_nxt) <= wrote[i] + 1
         /\ Tracked(c, wrote[i], peer[q].wire) /\ PcbOK(c)
<1>1. q \in Peers
  BY OpenFacts
<1>2. Flowing(c, wrote[i], peer) /\ WireRight(q, peer[q])
  BY <1>1 DEF Sending, SendRight
<1>3. peer[q] \in PeerType /\ PcbOK(c) /\ wrote[i] \in Nat
  BY <1>1, PcbFacts DEF Received, TypeInv, PeersType
<1>4. At(q, c.snd_nxt) \in Nat
  BY <1>3, AtFacts DEF PcbOK, PcbType
<1> QED BY <1>1, <1>2, <1>3, <1>4 DEF Flowing, WireRight, PeerType

(* One segment that begins where the data on the wire ends. *)
Follows(q, n, s) ==
  /\ SegRight(q, s) /\ Agree(peer[q].wire \cup {s})
  /\ Add(n, Len(s.data)) \in Seqs
  /\ At(q, Add(n, Len(s.data))) = At(q, n) + Len(s.data)

LEMMA NextSegment ==
  ASSUME WritesFit, Received, Sending, NEW i \in Pcbs, NEW c, c = pcb[i],
         c.state \in {"ESTABLISHED", "CLOSE_WAIT"}, NEW q, q = c.remote,
         NEW s \in SegType, ~Syn(s), ~Fin(s), s.seq = c.snd_nxt,
         End(q, s) <= MaxOut[q] + 1
  PROVE  Follows(q, c.snd_nxt, s)
<1>1. /\ q \in Peers /\ peer[q].wire \in SUBSET SegType /\ Agree(peer[q].wire)
      /\ \A t \in peer[q].wire : SegRight(q, t)
      /\ \A t \in peer[q].wire : ~Syn(t) => End(q, t) <= At(q, c.snd_nxt)
      /\ 1 <= At(q, c.snd_nxt)
  BY WireEnds
<1>2. PICK x \in Nat : x = At(q, c.snd_nxt)
  BY WireEnds
<1>3. PICK l : l = Len(s.data)
  OBVIOUS
<1>4. PICK n : n = Add(c.snd_nxt, l)
  OBVIOUS
<1>5. l \in Nat /\ c.snd_nxt \in Seqs
  BY <1>3, SegTypes
<1>6. End(q, s) = x + l
  BY <1>2, <1>3 DEF End
<1>7. PICK M \in Nat : M = MaxOut[q]
  BY <1>1, FitFacts
<1>8. SegRight(q, s)
  <2>1. x + l <= M + 1
    BY <1>2, <1>5, <1>6, <1>7
  <2> QED BY <1>1, <1>2, <1>6, <1>7, <2>1 DEF SegRight
<1>9. PICK N : N = {s}
  OBVIOUS
<1>10. Agree(peer[q].wire \cup N)
  <2>1. Agree(N) /\ N \in SUBSET SegType /\ \A t \in N : SegRight(q, t)
    BY <1>1, <1>8, <1>9, AgreeOne
  <2>2. \A t \in N : t.data # <<>> => x <= At(q, t.seq)
    BY <1>2, <1>9
  <2>3. \A t \in peer[q].wire : ~Syn(t) => End(q, t) <= x
    BY <1>1, <1>2
  <2>4. x \in Int
    BY <1>2
  <2> QED BY <1>1, <2>1, <2>2, <2>3, <2>4, AgreeMore
<1>11. At(q, n) = x + l /\ n \in Seqs
  <2>1. x + l < SeqMod
    <3>1. M + 2 < SeqMod /\ SeqMod \in Nat
      BY <1>1, <1>7, FitFacts
    <3> QED BY <1>2, <1>5, <1>6, <1>7, <3>1
  <2>2. At(q, c.snd_nxt) + l < SeqMod
    BY <1>2, <2>1
  <2> QED BY <1>2, <1>5, <1>4, <2>2, AtAdd
<1> QED BY <1>2, <1>3, <1>4, <1>8, <1>9, <1>10, <1>11 DEF Follows

LEMMA SendDataSends ==
  ASSUME WritesFit, Received, Sending, NEW i \in Pcbs, NEW n \in Nat, NEW ok \in BOOLEAN,
         tcp_send_data(i, n, ok)
  PROVE  Sending'
<1>1. PICK c : c = pcb[i]
  OBVIOUS
<1>2. PICK q : q = c.remote
  OBVIOUS
<1>3. PICK w \in Nat : w = wrote[i]
  BY PcbFacts
<1>4. PICK v \in Nat : v = w + n
  BY <1>3
<1>5. PICK data \in Seq(Nat) : data = NewBytes(i, n) /\ Len(data) = n
  BY NewBytesFacts
<1>6. PICK flags : flags = {"PSH", "ACK"}
  OBVIOUS
<1>7. /\ c.state = "ESTABLISHED" /\ v <= MaxOut[q] /\ taken' = taken
      /\ wrote' = [wrote EXCEPT ![i] = v]
  BY <1>1, <1>2, <1>3, <1>4 DEF tcp_send_data
<1>8. c.state \in {"ESTABLISHED", "CLOSE_WAIT"}
  BY <1>7
<1>9. /\ q \in Peers /\ PcbOK(c) /\ c.snd_nxt \in Seqs /\ peer[q].wire \in SUBSET SegType
      /\ 1 <= At(q, c.snd_nxt) /\ At(q, c.snd_nxt) <= w + 1
  BY <1>1, <1>2, <1>3, <1>8, WireEnds DEF PcbOK, PcbType
<1>10. flags \in SUBSET Flags /\ flags # {} /\ "SYN" \notin flags /\ "FIN" \notin flags
  BY <1>6 DEF Flags
<1>11. PICK x \in Nat : x = At(q, c.snd_nxt)
  BY <1>9, AtFacts
<1>12. PICK e : e = tcp_track_tx(c, flags, c.snd_nxt, data)
  OBVIOUS
<1>13. /\ PcbOK(e) /\ e.last_tx.flags = flags /\ e.last_tx.seq = c.snd_nxt
       /\ e.last_tx.data = data \/ e.last_tx.data = <<>>
       /\ e.state = c.state /\ e.remote = c.remote
       /\ e.snd_nxt = c.snd_nxt /\ e.snd_una = c.snd_una
  BY <1>9, <1>10, <1>12, TrackFields
<1>14. PICK s : s = Seg(flags, c.snd_nxt, data)
  OBVIOUS
<1>15. /\ s \in SegType /\ ~Syn(s) /\ ~Fin(s) /\ s.seq = c.snd_nxt /\ s.data = data
       /\ End(q, s) = x + n
  <2>1. s \in SegType
    BY <1>9, <1>10, <1>14, SegIsSeg
  <2> QED BY <1>5, <1>10, <1>11, <1>14, <2>1 DEF Seg, Syn, Fin, End
<1>16. PICK m : m = Add(c.snd_nxt, n)
  OBVIOUS
<1>17. End(q, s) <= v + 1
  BY <1>4, <1>9, <1>11, <1>15
<1>18. /\ SegRight(q, s) /\ Agree(peer[q].wire \cup {s}) /\ m \in Seqs
       /\ At(q, m) = x + n
  <2>1. n = Len(s.data) /\ s \in SegType /\ ~Syn(s) /\ ~Fin(s) /\ s.seq = c.snd_nxt
    BY <1>5, <1>15
  <2>2. End(q, s) <= MaxOut[q] + 1
    <3>1. PICK M \in Nat : M = MaxOut[q]
      BY <1>9, FitFacts
    <3> QED BY <1>4, <1>7, <1>11, <1>15, <1>17, <3>1
  <2>3. /\ SegRight(q, s) /\ Agree(peer[q].wire \cup {s})
        /\ Add(c.snd_nxt, Len(s.data)) \in Seqs
        /\ At(q, Add(c.snd_nxt, Len(s.data))) = At(q, c.snd_nxt) + Len(s.data)
    <3>1. Follows(q, c.snd_nxt, s)
      BY <1>1, <1>2, <1>8, <2>1, <2>2, NextSegment
    <3> QED BY <3>1 DEF Follows
  <2> QED BY <1>11, <1>16, <2>1, <2>3
<1>19. Len(e.last_tx.data) <= n /\ Len(e.last_tx.data) \in Nat
  <2>1. Len(<<>>) = 0
    OBVIOUS
  <2> QED BY <1>5, <1>13, <2>1
<1>20. ~Syn(e.last_tx) /\ ~Fin(e.last_tx) /\ 1 <= At(q, e.last_tx.seq)
       /\ End(q, e.last_tx) <= x + n /\ End(q, e.last_tx) \in Nat
  <2>1. PICK l \in Nat : l = Len(e.last_tx.data) /\ l <= n
    BY <1>19
  <2>2. At(q, e.last_tx.seq) = x /\ 1 <= x
    BY <1>9, <1>11, <1>13
  <2>3. End(q, e.last_tx) = x + l
    BY <2>1, <2>2 DEF End
  <2>4. ~Syn(e.last_tx) /\ ~Fin(e.last_tx)
    BY <1>10, <1>13 DEF Syn, Fin
  <2> QED BY <2>1, <2>2, <2>3, <2>4
<1>21. CASE CanSend(c, n) /\ ok
  <2>1. PICK d : d = [e EXCEPT !.snd_nxt = m]
    OBVIOUS
  <2>2. /\ d.state = c.state /\ d.remote = q /\ d.last_tx = e.last_tx
        /\ d.snd_nxt = m /\ d.snd_una = c.snd_una
    BY <1>2, <1>13, <1>18, <2>1, MovedFields
  <2>3. PICK N : N = {s}
    OBVIOUS
  <2>4. PICK P : P = Reaches(c, N)
    OBVIOUS
  <2>5. Heard(P, q, N)
    BY <1>2, <1>9, <2>4, HeardReach
  <2>6. s \in P[q].wire
    BY <1>9, <2>3, <2>5 DEF Heard
  <2>7. Tracked(d, v, P[q].wire)
    <3>1. End(q, d.last_tx) <= At(q, d.snd_nxt)
      BY <1>18, <1>20, <2>2
    <3>2. d.last_tx.data = <<>> \/ Seg(d.last_tx.flags, d.last_tx.seq, d.last_tx.data) \in P[q].wire
      BY <1>13, <1>14, <2>2, <2>6
    <3> QED BY <1>20, <2>2, <3>1, <3>2 DEF Tracked
  <2>8. /\ \A t \in N : SegRight(q, t) /\ ~Fin(t) /\ End(q, t) <= At(q, d.snd_nxt)
        /\ N = {} \/ Agree(peer[q].wire \cup N)
        /\ peer[q].wire \cup N \in SUBSET SegType
    <3>1. x + n <= x + n
      OBVIOUS
    <3>2. SegRight(q, s) /\ ~Fin(s) /\ End(q, s) <= At(q, d.snd_nxt)
      BY <1>15, <1>18, <2>2, <3>1
    <3> QED BY <1>9, <1>15, <1>18, <2>3, <3>2
  <2>9. At(q, c.snd_nxt) <= At(q, d.snd_nxt) /\ At(q, d.snd_nxt) <= v + 1 /\ d.snd_nxt \in Seqs
    BY <1>11, <1>15, <1>17, <1>18, <2>2
  <2>10. pcb' = [pcb EXCEPT ![i] = d] /\ peer' = P
    BY <1>1, <1>5, <1>6, <1>12, <1>13, <1>14, <1>16, <1>21, <2>1, <2>3, <2>4 DEF tcp_send_data
  <2> QED BY <1>1, <1>2, <1>7, <1>8, <2>2, <2>5, <2>7, <2>8, <2>9, <2>10, DataStep
<1>22. CASE ~(CanSend(c, n) /\ ok)
  <2>1. pcb' = [pcb EXCEPT ![i] = e] /\ peer' = peer
    BY <1>1, <1>5, <1>6, <1>12, <1>22 DEF tcp_send_data
  <2>2. PICK N : N = {}
    OBVIOUS
  <2>3. PICK P : P = peer
    OBVIOUS
  <2>4. Heard(P, q, N)
    BY <2>2, <2>3, HeardNothing
  <2>5. Tracked(e, v, P[q].wire)
    <3>1. e.last_tx.seq = e.snd_nxt /\ End(q, e.last_tx) <= v + 1
      BY <1>13, <1>15, <1>17, <1>20
    <3> QED BY <1>2, <1>13, <1>20, <3>1 DEF Tracked
  <2>6. /\ e.state = c.state /\ e.remote = q /\ e.snd_una = c.snd_una /\ e.snd_nxt \in Seqs
        /\ At(q, c.snd_nxt) <= At(q, e.snd_nxt) /\ At(q, e.snd_nxt) <= v + 1
    BY <1>2, <1>4, <1>9, <1>11, <1>13
  <2>7. peer[q].wire \cup N \in SUBSET SegType /\ peer' = P
    BY <1>9, <2>1, <2>2, <2>3
  <2> QED BY <1>1, <1>2, <1>7, <1>8, <2>1, <2>2, <2>4, <2>5, <2>6, <2>7, DataStep
<1> QED BY <1>21, <1>22

-----------------------------------------------------------------------------
(* Repeating *)

(* What is repeated of a connection being opened is its SYN. *)
LEMMA OpeningRepeats ==
  ASSUME WritesFit, NEW c, PcbOK(c), NEW q \in Peers, q = c.remote, Opening(c), Outstanding(c)
  PROVE  /\ Syn(c.last_tx) /\ c.last_tx.data = <<>> /\ c.last_tx.seq = Isn(q)
         /\ Add(c.snd_nxt, Bump(c)) = Add(Isn(q), 1) /\ c.snd_una = Isn(q)
<1>1. PICK n : n = Isn(q)
  OBVIOUS
<1>2. n \in Seqs /\ Add(n, 1) # n /\ Add(n, 1) \in Seqs /\ n \notin StaleSeqs
  BY <1>1, IsnOf, AddSmall, StaleApart
<1>3. Add(Add(n, 1), 0) = Add(n, 1)
  BY <1>2, AddSmall
<1>4. c.snd_una = n /\ c.snd_nxt \in {n, Add(n, 1)}
  BY <1>1 DEF Opening
<1>5. c.last_tx.flags # {}
  BY DEF Outstanding
<1>6. CASE c.snd_nxt = n
  <2>1. ~(n < n)
    BY <1>2, NumFacts DEF Seqs
  <2>2. c.last_tx.seq = n
    BY <1>4, <1>6, <2>1 DEF Outstanding
  <2>3. Syn(c.last_tx) /\ c.last_tx.data = <<>>
    BY <1>2, <1>5, <2>2 DEF Opening
  <2>4. Bump(c) = 1
    BY <1>6, <2>2, <2>3 DEF Bump, IsControl, Syn
  <2> QED BY <1>1, <1>4, <1>6, <2>2, <2>3, <2>4
<1>7. CASE c.snd_nxt # n
  <2>1. c.snd_nxt = Add(n, 1)
    BY <1>4, <1>7
  <2>2. Syn(c.last_tx) /\ c.last_tx.data = <<>> /\ c.last_tx.seq = n
    BY <1>1, <1>5, <1>7 DEF Opening
  <2>3. Bump(c) = 0
    BY <1>7, <2>2 DEF Bump
  <2> QED BY <1>1, <1>3, <1>4, <2>1, <2>2, <2>3
<1> QED BY <1>6, <1>7

(* A repeated segment that IP took, and one that it did not. *)
SameSent(c, d) ==
  /\ d.state = c.state /\ d.remote = c.remote /\ d.snd_una = c.snd_una
  /\ d.last_tx.flags = c.last_tx.flags /\ d.last_tx.data = c.last_tx.data
  /\ d.last_tx.seq = c.last_tx.seq

LEMMA SentAgain ==
  ASSUME NEW c, PcbOK(c), c.last_tx.count < RtxMax, NEW d, d = Resent(c, TRUE)
  PROVE  SameSent(c, d) /\ d.snd_nxt = Add(c.snd_nxt, Bump(c))
<1>1. c.last_tx \in TrackType /\ c \in PcbType
  BY DEF PcbOK, PcbType
<1>2. PICK tx : tx = [c.last_tx EXCEPT !.count = @ + 1]
  OBVIOUS
<1>3. tx.flags = c.last_tx.flags /\ tx.data = c.last_tx.data /\ tx.seq = c.last_tx.seq
  BY <1>1, <1>2 DEF TrackType
<1>4. PICK n : n = Add(c.snd_nxt, Bump(c))
  OBVIOUS
<1>5. d = [c EXCEPT !.last_tx = tx, !.snd_nxt = n]
  BY <1>1, <1>2, <1>4 DEF Resent, PcbType, TrackType
<1>6. /\ d.last_tx = tx /\ d.state = c.state /\ d.remote = c.remote
      /\ d.snd_nxt = n /\ d.snd_una = c.snd_una
  BY <1>1, <1>5 DEF PcbType
<1> QED BY <1>3, <1>4, <1>6 DEF SameSent

LEMMA NotSentAgain ==
  ASSUME NEW c, PcbOK(c), c.last_tx.count < RtxMax, NEW d, d = Resent(c, FALSE)
  PROVE  SameSent(c, d) /\ d.snd_nxt = c.snd_nxt
<1>1. c.last_tx \in TrackType /\ c \in PcbType
  BY DEF PcbOK, PcbType
<1>2. PICK tx : tx = [c.last_tx EXCEPT !.count = @ + 1]
  OBVIOUS
<1>3. tx.flags = c.last_tx.flags /\ tx.data = c.last_tx.data /\ tx.seq = c.last_tx.seq
  BY <1>1, <1>2 DEF TrackType
<1>4. PICK n : n = c.snd_nxt
  OBVIOUS
<1>5. d = [c EXCEPT !.last_tx = tx, !.snd_nxt = n]
  BY <1>1, <1>2, <1>4 DEF Resent, PcbType, TrackType
<1>6. /\ d.last_tx = tx /\ d.state = c.state /\ d.remote = c.remote
      /\ d.snd_nxt = n /\ d.snd_una = c.snd_una
  BY <1>1, <1>5 DEF PcbType
<1> QED BY <1>3, <1>4, <1>6 DEF SameSent

LEMMA RepeatNothing ==
  ASSUME Received, Sending, NEW i \in Pcbs, NEW c, c = pcb[i], NEW d, d = Resent(c, FALSE),
         c.last_tx.count < RtxMax,
         pcb' = [pcb EXCEPT ![i] = d], wrote' = wrote, peer' = peer, taken' = taken
  PROVE  Sending'
<1>1. PcbOK(c)
  BY PcbFacts
<1>2. /\ d.state = c.state /\ d.remote = c.remote
      /\ d.last_tx.flags = c.last_tx.flags /\ d.last_tx.data = c.last_tx.data
      /\ d.last_tx.seq = c.last_tx.seq /\ d.snd_una = c.snd_una /\ d.snd_nxt = c.snd_nxt
  <2>1. SameSent(c, d) /\ d.snd_nxt = c.snd_nxt
    BY <1>1, NotSentAgain
  <2> QED BY <2>1 DEF SameSent
<1>3. Heard(peer', None, {})
  BY HeardNothing
<1>4. TrackKept(d.last_tx, c.last_tx)
  BY <1>2 DEF TrackKept
<1> QED BY <1>2, <1>3, <1>4, QuietStep

LEMMA RepeatSyn ==
  ASSUME WritesFit, Received, Sending, NEW i \in Pcbs, NEW c, c = pcb[i],
         c.state \in {"CLOSED", "SYN_SENT", "SYN_RCVD"}, Outstanding(c),
         c.last_tx.count < RtxMax, NEW d, d = Resent(c, TRUE),
         NEW s, s = Seg(c.last_tx.flags, c.last_tx.seq, c.last_tx.data),
         NEW P, P = Reaches(c, {s}),
         pcb' = [pcb EXCEPT ![i] = d], wrote' = wrote, peer' = P, taken' = taken
  PROVE  Sending'
<1>1. PICK w \in Nat : w = wrote[i]
  BY PcbFacts
<1>2. /\ PcbOK(c) /\ PcbRight(c, got[i], peer) /\ SendRight(c, w, peer)
      /\ c.last_tx.flags # {} /\ wrote' = [wrote EXCEPT ![i] = w]
  BY <1>1, PcbFacts DEF Sending, Outstanding
<1>3. PICK q \in Peers : q = c.remote
  BY <1>2 DEF PcbRight
<1>4. Opening(c)
  BY <1>2 DEF SendRight
<1>5. /\ Syn(c.last_tx) /\ c.last_tx.data = <<>> /\ c.last_tx.seq = Isn(q)
      /\ Add(c.snd_nxt, Bump(c)) = Add(Isn(q), 1) /\ c.snd_una = Isn(q)
  BY <1>2, <1>3, <1>4, OpeningRepeats
<1>6. /\ d.state = c.state /\ d.remote = q
      /\ d.last_tx.flags = c.last_tx.flags /\ d.last_tx.data = c.last_tx.data
      /\ d.last_tx.seq = c.last_tx.seq /\ d.snd_una = c.snd_una
      /\ d.snd_nxt = Add(c.snd_nxt, Bump(c))
  <2>1. SameSent(c, d) /\ d.snd_nxt = Add(c.snd_nxt, Bump(c))
    BY <1>2, SentAgain
  <2> QED BY <1>3, <2>1 DEF SameSent
<1>7. Opening(d)
  <2>1. "SYN" \in d.last_tx.flags
    BY <1>5, <1>6 DEF Syn
  <2> QED BY <1>5, <1>6, <2>1, SynOpening
<1>8. PICK N : N = {s}
  OBVIOUS
<1>9. NewRight(i, q, N) /\ OnlySyns(N)
  <2>1. "SYN" \in c.last_tx.flags /\ s = Seg(c.last_tx.flags, Isn(q), <<>>)
    BY <1>5 DEF Syn
  <2> QED BY <1>8, <2>1, SynGoesOut
<1>10. Heard(P, q, N)
  BY <1>3, <1>8, HeardReach
<1>11. SendRight(d, w, P)
  <2>1. CASE c.state = "CLOSED"
    BY <1>6, <1>7, <2>1 DEF SendRight
  <2>2. CASE c.state \in {"SYN_SENT", "SYN_RCVD"}
    <3>1. w = 0 /\ OnlySyns(peer[q].wire)
      BY <1>2, <1>3, <2>2 DEF SendRight
    <3>2. OnlySyns(P[q].wire)
      BY <1>9, <1>10, <3>1 DEF Heard, OnlySyns
    <3> QED BY <1>5, <1>6, <1>7, <2>2, <3>1, <3>2 DEF SendRight
  <2> QED BY <2>1, <2>2
<1>12. TakenOK(c) => TakenOK(d)
  BY <1>3, <1>6 DEF TakenOK
<1> QED BY <1>2, <1>9, <1>10, <1>11, <1>12, SendStep

LEMMA RepeatFin ==
  ASSUME WritesFit, Received, Sending, NEW i \in Pcbs, NEW c, c = pcb[i],
         c.state = "LAST_ACK", Outstanding(c),
         c.last_tx.count < RtxMax, NEW d, d = Resent(c, TRUE),
         NEW s, s = Seg(c.last_tx.flags, c.last_tx.seq, c.last_tx.data),
         NEW P, P = Reaches(c, {s}),
         pcb' = [pcb EXCEPT ![i] = d], wrote' = wrote, peer' = P, taken' = taken
  PROVE  Sending'
<1>1. PICK w \in Nat : w = wrote[i]
  BY PcbFacts
<1>2. /\ PcbOK(c) /\ SendRight(c, w, peer)
      /\ c.last_tx.flags # {} /\ wrote' = [wrote EXCEPT ![i] = w]
  BY <1>1, PcbFacts DEF Sending, Outstanding
<1>3. PICK q : q = c.remote
  OBVIOUS
<1>4. q \in Peers /\ peer[q].st = "open" /\ Alone(i, q)
  BY <1>3, OpenFacts
<1>5. PICK n \in Seqs : n = c.last_tx.seq
  BY <1>2 DEF PcbOK, PcbType, TrackType
<1>6. PICK M \in Nat : M = MaxOut[q]
  BY <1>4, FitFacts
<1>7. /\ c.last_tx.flags = {"FIN", "ACK"} /\ c.last_tx.data = <<>>
      /\ c.snd_nxt = Add(n, 1) /\ At(q, n) \in 1 .. M + 1
  BY <1>2, <1>3, <1>5, <1>6 DEF SendRight, Ending
<1>8. Add(c.snd_nxt, Bump(c)) = Add(n, 1)
  <2>1. Add(n, 1) # n /\ Add(n, 1) \in Seqs
    BY <1>4, AddSmall
  <2>2. Add(Add(n, 1), 0) = Add(n, 1)
    BY <1>4, <2>1, AddSmall
  <2>3. Bump(c) = 0
    BY <1>5, <1>7, <2>1 DEF Bump
  <2> QED BY <1>7, <2>2, <2>3
<1>9. /\ d.state = c.state /\ d.remote = q
      /\ d.last_tx.flags = c.last_tx.flags /\ d.last_tx.data = c.last_tx.data
      /\ d.last_tx.seq = c.last_tx.seq /\ d.snd_una = c.snd_una
      /\ d.snd_nxt = Add(c.snd_nxt, Bump(c))
  <2>1. SameSent(c, d) /\ d.snd_nxt = Add(c.snd_nxt, Bump(c))
    BY <1>2, SentAgain
  <2> QED BY <1>3, <2>1 DEF SameSent
<1>10. SendRight(d, w, P)
  <2>1. Ending(d)
    BY <1>5, <1>6, <1>7, <1>8, <1>9 DEF Ending
  <2> QED BY <1>9, <2>1 DEF SendRight
<1>11. PICK N : N = {s}
  OBVIOUS
<1>12. NewRight(i, q, N)
  <2>1. /\ s.data = <<>> /\ s.seq = n /\ ~Syn(s) /\ Len(s.data) = 0
    BY <1>5, <1>7 DEF Seg, Syn
  <2>2. PICK o \in Nat : o = At(q, n)
    BY <1>5, AtFacts
  <2>3. SegRight(q, s)
    <3>1. 1 <= o /\ o <= M + 1 /\ End(q, s) = o
      BY <1>7, <2>1, <2>2 DEF End
    <3> QED BY <1>6, <2>1, <2>2, <3>1 DEF SegRight
  <2>4. Agree(peer[q].wire) /\ \A t \in N : t.data = <<>> \/ t \in peer[q].wire
    BY <1>4, <1>11, <2>1 DEF Sending, WireRight
  <2>5. Agree(peer[q].wire \cup N)
    BY <2>4, AgreeEmpty
  <2> QED BY <1>4, <1>11, <2>3, <2>5 DEF NewRight
<1>13. Heard(P, q, N)
  BY <1>3, <1>4, <1>11, HeardReach
<1>14. TakenOK(c) => TakenOK(d)
  BY <1>3, <1>9 DEF TakenOK
<1> QED BY <1>2, <1>10, <1>12, <1>13, <1>14, SendStep
(* Data is repeated that is on the wire already, or that begins where the  *)
(* wire ends because IP did not take it the first time.                    *)
FitsAgain(q, n, m, s, v) ==
  /\ s \in SegType /\ ~Syn(s) /\ ~Fin(s) /\ SegRight(q, s)
  /\ Agree(peer[q].wire \cup {s}) /\ m \in Seqs
  /\ At(q, n) <= At(q, m) /\ End(q, s) <= At(q, m) /\ At(q, m) <= v + 1

LEMMA RepeatFits ==
  ASSUME WritesFit, Received, Sending, NEW i \in Pcbs, NEW c, c = pcb[i],
         c.state \in {"ESTABLISHED", "CLOSE_WAIT"}, c.last_tx.flags # {},
         NEW q, q = c.remote, NEW v \in Nat, v = wrote[i],
         NEW s, s = Seg(c.last_tx.flags, c.last_tx.seq, c.last_tx.data),
         NEW m, m = Add(c.snd_nxt, Bump(c))
  PROVE  FitsAgain(q, c.snd_nxt, m, s, v)
<1>1. PICK t : t = c.last_tx
  OBVIOUS
<1>2. /\ q \in Peers /\ peer[q].wire \in SUBSET SegType /\ Agree(peer[q].wire)
      /\ At(q, c.snd_nxt) <= v + 1 /\ v <= MaxOut[q]
      /\ Tracked(c, v, peer[q].wire) /\ PcbOK(c)
  BY WireEnds
<1>3. t \in TrackType /\ t.flags # {} /\ c.snd_nxt \in Seqs
  BY <1>1, <1>2 DEF PcbOK, PcbType
<1>4. s \in SegType /\ s.flags = t.flags /\ s.seq = t.seq /\ s.data = t.data
  <2>1. t.flags \in SUBSET Flags /\ t.seq \in Seqs /\ t.data \in Seq(Nat)
    BY <1>3 DEF TrackType
  <2>2. s = Seg(t.flags, t.seq, t.data)
    BY <1>1
  <2>3. s \in SegType
    BY <2>1, <2>2, SegIsSeg
  <2> QED BY <2>2, <2>3 DEF Seg
<1>5. /\ ~Syn(t) /\ ~Fin(t) /\ 1 <= At(q, t.seq)
      /\ \/ End(q, t) <= At(q, c.snd_nxt) /\ (t.data = <<>> \/ s \in peer[q].wire)
         \/ t.seq = c.snd_nxt /\ End(q, t) <= v + 1
  BY <1>1, <1>2, <1>3 DEF Tracked
<1>6. ~Syn(s) /\ ~Fin(s) /\ End(q, s) = End(q, t)
  BY <1>4, <1>5 DEF Syn, Fin, End
<1>7. PICK x \in Nat : x = At(q, c.snd_nxt)
  BY <1>3, AtFacts
<1>8. PICK o \in Nat : o = At(q, s.seq)
  BY <1>4, SegTypes, AtFacts
<1>9. PICK l \in Nat : l = Len(s.data)
  BY <1>4, SegTypes
<1>10. End(q, s) = o + l
  BY <1>8, <1>9 DEF End
<1>11. PICK M \in Nat : M = MaxOut[q]
  BY <1>2, FitFacts
<1>12. x <= v + 1 /\ v <= M /\ 1 <= o
  BY <1>2, <1>4, <1>5, <1>7, <1>8, <1>11
<1>13. Bump(c) = IF c.snd_nxt # s.seq THEN 0 ELSE l
  <2>1. ~IsControl(t.flags)
    BY <1>5 DEF IsControl, Syn, Fin
  <2> QED BY <1>1, <1>4, <1>9, <2>1 DEF Bump
<1>14. CASE o + l <= x /\ (s.data = <<>> \/ s \in peer[q].wire)
  <2>1. Bump(c) = 0
    <3>1. CASE c.snd_nxt = s.seq
      <4>1. x = o
        BY <1>7, <1>8, <3>1
      <4>2. l = 0
        BY <1>14, <4>1
      <4> QED BY <1>13, <4>2
    <3> QED BY <1>13, <3>1
  <2>2. m = c.snd_nxt
    BY <1>2, <1>3, <2>1, AddSmall
  <2>3. SegRight(q, s)
    <3>1. o + l <= M + 1
      BY <1>12, <1>14
    <3> QED BY <1>6, <1>8, <1>10, <1>11, <1>12, <3>1 DEF SegRight
  <2>4. Agree(peer[q].wire \cup {s})
    <3>1. PICK N : N = {s}
      OBVIOUS
    <3>2. \A u \in N : u.data = <<>> \/ u \in peer[q].wire
      BY <1>14, <3>1
    <3>3. Agree(peer[q].wire \cup N)
      BY <1>2, <3>2, AgreeEmpty
    <3> QED BY <3>1, <3>3
  <2>5. x <= x
    OBVIOUS
  <2> QED BY <1>3, <1>4, <1>6, <1>7, <1>10, <1>12, <1>14, <2>2, <2>3, <2>4, <2>5 DEF FitsAgain
<1>15. CASE s.seq = c.snd_nxt /\ o + l <= v + 1
  <2>1. End(q, s) <= MaxOut[q] + 1
    <3>1. o + l <= M + 1
      BY <1>12, <1>15
    <3> QED BY <1>10, <1>11, <3>1
  <2>2. m = Add(c.snd_nxt, Len(s.data))
    BY <1>9, <1>13, <1>15
  <2>3. /\ SegRight(q, s) /\ Agree(peer[q].wire \cup {s})
        /\ Add(c.snd_nxt, Len(s.data)) \in Seqs
        /\ At(q, Add(c.snd_nxt, Len(s.data))) = At(q, c.snd_nxt) + Len(s.data)
    <3>1. Follows(q, c.snd_nxt, s)
      BY <1>4, <1>6, <1>15, <2>1, NextSegment
    <3> QED BY <3>1 DEF Follows
  <2>4. At(q, m) = x + l /\ m \in Seqs
    BY <1>7, <1>9, <2>2, <2>3
  <2>5. x = o
    BY <1>7, <1>8, <1>15
  <2>6. x <= x + l /\ o + l <= x + l /\ x + l <= v + 1
    BY <1>15, <2>5
  <2> QED BY <1>4, <1>6, <1>7, <1>10, <2>3, <2>4, <2>6 DEF FitsAgain
<1> QED BY <1>4, <1>5, <1>6, <1>7, <1>10, <1>14, <1>15

LEMMA RepeatData ==
  ASSUME WritesFit, Received, Sending, NEW i \in Pcbs, NEW c, c = pcb[i],
         c.state \in {"ESTABLISHED", "CLOSE_WAIT"}, Outstanding(c),
         c.last_tx.count < RtxMax, NEW d, d = Resent(c, TRUE),
         NEW s, s = Seg(c.last_tx.flags, c.last_tx.seq, c.last_tx.data),
         NEW P, P = Reaches(c, {s}),
         pcb' = [pcb EXCEPT ![i] = d], wrote' = wrote, peer' = P, taken' = taken
  PROVE  Sending'
<1>1. PICK v \in Nat : v = wrote[i]
  BY PcbFacts
<1>2. PICK q : q = c.remote
  OBVIOUS
<1>3. c.last_tx.flags # {}
  BY DEF Outstanding
<1>4. /\ q \in Peers /\ peer[q].wire \in SUBSET SegType /\ v <= MaxOut[q]
      /\ Tracked(c, v, peer[q].wire) /\ PcbOK(c)
  BY <1>1, <1>2, WireEnds
<1>5. PICK m : m = Add(c.snd_nxt, Bump(c))
  OBVIOUS
<1>6. /\ s \in SegType /\ ~Syn(s) /\ ~Fin(s) /\ SegRight(q, s)
      /\ Agree(peer[q].wire \cup {s}) /\ m \in Seqs
      /\ At(q, c.snd_nxt) <= At(q, m) /\ End(q, s) <= At(q, m) /\ At(q, m) <= v + 1
  <2>1. FitsAgain(q, c.snd_nxt, m, s, v)
    BY <1>1, <1>2, <1>3, <1>5, RepeatFits
  <2> QED BY <2>1 DEF FitsAgain
<1>7. /\ d.state = c.state /\ d.remote = q
      /\ d.last_tx.flags = c.last_tx.flags /\ d.last_tx.data = c.last_tx.data
      /\ d.last_tx.seq = c.last_tx.seq /\ d.snd_una = c.snd_una /\ d.snd_nxt = m
  <2>1. SameSent(c, d) /\ d.snd_nxt = Add(c.snd_nxt, Bump(c))
    BY <1>4, SentAgain
  <2> QED BY <1>2, <1>5, <2>1 DEF SameSent
<1>8. PICK N : N = {s}
  OBVIOUS
<1>9. P = Reaches(c, N)
  BY <1>8
<1>10. Heard(P, q, N)
  BY <1>2, <1>4, <1>9, HeardReach
<1>11. s \in P[q].wire
  BY <1>4, <1>8, <1>10 DEF Heard
<1>12. Tracked(d, v, P[q].wire)
  <2>1. /\ ~Syn(d.last_tx) /\ ~Fin(d.last_tx) /\ 1 <= At(q, d.last_tx.seq)
        /\ s = Seg(d.last_tx.flags, d.last_tx.seq, d.last_tx.data)
    BY <1>2, <1>3, <1>4, <1>7 DEF Tracked, Syn, Fin
  <2>2. End(q, d.last_tx) = End(q, s)
    <3>1. s.seq = c.last_tx.seq /\ s.data = c.last_tx.data
      BY DEF Seg
    <3> QED BY <1>7, <3>1 DEF End
  <2> QED BY <1>6, <1>7, <1>11, <2>1, <2>2 DEF Tracked
<1>13. /\ \A u \in N : SegRight(q, u) /\ ~Fin(u) /\ End(q, u) <= At(q, d.snd_nxt)
       /\ N = {} \/ Agree(peer[q].wire \cup N)
       /\ peer[q].wire \cup N \in SUBSET SegType
  BY <1>4, <1>6, <1>7, <1>8
<1>14. At(q, c.snd_nxt) <= At(q, d.snd_nxt) /\ At(q, d.snd_nxt) <= v + 1 /\ d.snd_nxt \in Seqs
  BY <1>6, <1>7
<1>15. wrote' = [wrote EXCEPT ![i] = v]
  BY <1>1, PcbFacts
<1>16. /\ d.state = c.state /\ d.remote = q /\ d.snd_una = c.snd_una /\ v <= MaxOut[q]
       /\ wrote' = [wrote EXCEPT ![i] = v] /\ peer' = P
  BY <1>4, <1>7, <1>15
<1> QED BY <1>2, <1>10, <1>12, <1>13, <1>14, <1>16, DataStep

LEMMA RetransmitSends ==
  ASSUME WritesFit, Received, Sending, NEW i \in Pcbs, NEW ok \in BOOLEAN, Retransmit(i, ok)
  PROVE  Sending'
<1>1. PICK c : c = pcb[i]
  OBVIOUS
<1>2. PICK d : d = Resent(c, ok)
  OBVIOUS
<1>3. PICK s : s = Seg(c.last_tx.flags, c.last_tx.seq, c.last_tx.data)
  OBVIOUS
<1>4. PICK P : P = Reaches(c, {s})
  OBVIOUS
<1>5. PcbOK(c) /\ PcbRight(c, got[i], peer)
  BY <1>1, PcbFacts
<1>6. Outstanding(c) /\ c.last_tx.count < RtxMax
  BY <1>1 DEF Retransmit
<1>7. pcb' = [pcb EXCEPT ![i] = d] /\ wrote' = wrote /\ taken' = taken
  BY <1>1, <1>2, <1>5 DEF Retransmit, Resent, PcbOK, PcbType, TrackType, Received, TypeInv
<1>8. peer' = IF ok THEN P ELSE peer
  BY <1>1, <1>3, <1>4 DEF Retransmit
<1>9. CASE ok = FALSE
  <2>1. d = Resent(c, FALSE) /\ peer' = peer
    BY <1>2, <1>8, <1>9
  <2> QED BY <1>1, <1>6, <1>7, <2>1, RepeatNothing
<1>10. CASE ok = TRUE
  <2>1. d = Resent(c, TRUE) /\ peer' = P
    BY <1>2, <1>8, <1>10
  <2>2. CASE c.state \in {"CLOSED", "SYN_SENT", "SYN_RCVD"}
    BY <1>1, <1>3, <1>4, <1>6, <1>7, <2>1, <2>2, RepeatSyn
  <2>3. CASE c.state \in {"ESTABLISHED", "CLOSE_WAIT"}
    BY <1>1, <1>3, <1>4, <1>6, <1>7, <2>1, <2>3, RepeatData
  <2>4. CASE c.state = "LAST_ACK"
    BY <1>1, <1>3, <1>4, <1>6, <1>7, <2>1, <2>4, RepeatFin
  <2>5. c.state # "LISTEN"
    BY <1>5, <1>6 DEF Outstanding, PcbRight
  <2>6. c.state \in States
    BY <1>5 DEF PcbOK, PcbType
  <2> QED BY <2>2, <2>3, <2>4, <2>5, <2>6 DEF States, Live, Closing
<1> QED BY <1>9, <1>10
(* Where chunk m of a write begins and ends. *)
Start(m) == (m - 1) * MSS
Stop(data, m) == SmallerOf(m * MSS, Len(data))

(* One chunk of a write. *)
LEMMA ChunkIs ==
  ASSUME NEW data \in Seq(Nat), NEW m \in Nat \ {0}, Start(m) < Len(data)
  PROVE  /\ Start(m) \in Nat /\ Stop(data, m) \in Nat /\ Len(data) \in Nat
         /\ Start(m) <= Stop(data, m) /\ Stop(data, m) <= Len(data)
         /\ Chunk(data, m) \in Seq(Nat) /\ Len(Chunk(data, m)) = Stop(data, m) - Start(m)
         /\ \A a \in 1 .. Stop(data, m) - Start(m) : Chunk(data, m)[a] = data[Start(m) + a]
<1>1. PICK n : n = Len(data)
  OBVIOUS
<1>2. n \in Nat /\ \A a \in 1 .. n : data[a] \in Nat
  BY <1>1, LenProperties
<1>3. MSS \in Nat /\ 1 <= MSS
  BY NumFacts
<1>4. PICK p \in Nat : p = m - 1
  OBVIOUS
<1>5. PICK o \in Nat : o = Start(m) /\ o = p * MSS
  BY <1>3, <1>4, MulMono DEF Start
<1>6. m * MSS = o + MSS
  <2>1. m = p + 1
    BY <1>4
  <2>2. (p + 1) * MSS = p * MSS + MSS
    BY <1>3
  <2> QED BY <1>5, <2>1, <2>2
<1>7. PICK z : z = Stop(data, m)
  OBVIOUS
<1>8. z \in Nat /\ o < z /\ z <= n
  BY <1>1, <1>2, <1>3, <1>5, <1>6, <1>7 DEF SmallerOf, Stop
<1>9. PICK a \in Int : a = o + 1
  BY <1>5
<1>10. PICK w : w = SubSeq(data, a, z)
  OBVIOUS
<1>11. w = Chunk(data, m)
  BY <1>5, <1>7, <1>9, <1>10 DEF Chunk, Start, Stop
<1>12. \A y \in a .. z : data[y] \in Nat
  BY <1>2, <1>5, <1>8, <1>9
<1>13. /\ w \in Seq(Nat) /\ Len(w) = IF a <= z THEN z - a + 1 ELSE 0
       /\ \A y \in 1 .. z - a + 1 : w[y] = data[a + y - 1]
  BY <1>8, <1>10, <1>12, SubSeqProperties
<1>14. a <= z /\ z - a + 1 = z - o
  <2>1. o \in Nat /\ z \in Nat /\ o < z /\ a = o + 1
    BY <1>5, <1>8, <1>9
  <2>2. z - (o + 1) + 1 = z - o
    BY <2>1
  <2> QED BY <2>1, <2>2
<1>15. ASSUME NEW y \in 1 .. z - o PROVE w[y] = data[o + y]
  <2>1. a + y - 1 = o + y
    BY <1>5, <1>8, <1>9
  <2>2. w[y] = data[a + y - 1]
    BY <1>13, <1>14
  <2> QED BY <2>1, <2>2
<1>16. w \in Seq(Nat) /\ Len(w) = z - o
  BY <1>13, <1>14
<1>17. o <= z
  BY <1>8
<1> QED BY <1>1, <1>2, <1>5, <1>7, <1>8, <1>11, <1>15, <1>16, <1>17

(* s carries the bytes of data from o on; the first byte is at x. *)
CutAt(q, x, data, s, o) ==
  /\ s \in SegType /\ ~Syn(s) /\ ~Fin(s) /\ SegRight(q, s)
  /\ At(q, s.seq) = x + o
  /\ \A a \in DOMAIN s.data : s.data[a] = data[o + a]

(* The segment tcp_send makes of it when snd_nxt is f. *)
Cut(f, data, m) == Seg({"PSH", "ACK"}, Add(f, Start(m)), Chunk(data, m))

LEMMA CutSegment ==
  ASSUME WritesFit, NEW q \in Peers, NEW f \in Seqs, 1 <= At(q, f),
         NEW data \in Seq(Nat), At(q, f) + Len(data) <= MaxOut[q] + 1,
         NEW m \in Nat \ {0}, Start(m) < Len(data)
  PROVE  /\ CutAt(q, At(q, f), data, Cut(f, data, m), Start(m))
         /\ End(q, Cut(f, data, m)) = At(q, f) + Stop(data, m)
         /\ Add(f, Start(m)) \in Seqs
<1>1. /\ Start(m) \in Nat /\ Stop(data, m) \in Nat /\ Len(data) \in Nat
      /\ Start(m) <= Stop(data, m) /\ Stop(data, m) <= Len(data)
      /\ Chunk(data, m) \in Seq(Nat) /\ Len(Chunk(data, m)) = Stop(data, m) - Start(m)
      /\ \A a \in 1 .. Stop(data, m) - Start(m) : Chunk(data, m)[a] = data[Start(m) + a]
  BY ChunkIs
<1>2. PICK o \in Nat : o = Start(m)
  BY <1>1
<1>3. PICK z \in Nat : z = Stop(data, m)
  BY <1>1
<1>4. PICK n \in Nat : n = Len(data)
  BY <1>1
<1>5. PICK x \in Nat : x = At(q, f)
  BY AtFacts
<1>6. PICK M \in Nat : M = MaxOut[q]
  BY FitFacts
<1>7. M + 2 < SeqMod /\ SeqMod \in Nat
  BY <1>6, FitFacts
<1>8. o <= z /\ z <= n /\ x + n <= M + 1 /\ 1 <= x
  BY <1>1, <1>2, <1>3, <1>4, <1>5, <1>6
<1>9. x + z <= M + 1 /\ x + o < SeqMod /\ 1 <= x + o
  BY <1>7, <1>8
<1>10. PICK w \in Seq(Nat) : w = Chunk(data, m)
  BY <1>1
<1>11. Len(w) = z - o /\ \A a \in 1 .. z - o : w[a] = data[o + a]
  BY <1>1, <1>2, <1>3, <1>10
<1>12. PICK g : g = Add(f, o)
  OBVIOUS
<1>13. At(q, g) = x + o /\ g \in Seqs
  <2>1. At(q, f) + o < SeqMod
    BY <1>5, <1>9
  <2> QED BY <1>5, <1>12, <2>1, AtAdd
<1>14. PICK flags : flags = {"PSH", "ACK"}
  OBVIOUS
<1>15. flags \in SUBSET Flags /\ "SYN" \notin flags /\ "FIN" \notin flags
  BY <1>14 DEF Flags
<1>16. PICK s : s = Seg(flags, g, w)
  OBVIOUS
<1>17. s.flags = flags /\ s.seq = g /\ s.data = w /\ s \in SegType
  <2>1. s \in SegType
    BY <1>13, <1>15, <1>16, SegIsSeg
  <2> QED BY <1>16, <2>1 DEF Seg
<1>18. End(q, s) = x + z
  <2>1. x + o + (z - o) = x + z
    OBVIOUS
  <2> QED BY <1>11, <1>13, <1>17, <2>1 DEF End
<1>19. ~Syn(s) /\ ~Fin(s)
  BY <1>15, <1>17 DEF Syn, Fin
<1>20. SegRight(q, s)
  BY <1>6, <1>9, <1>13, <1>17, <1>18, <1>19 DEF SegRight
<1>21. \A a \in DOMAIN s.data : s.data[a] = data[o + a]
  <2>1. DOMAIN w = 1 .. z - o
    BY <1>11, LenProperties
  <2> QED BY <1>11, <1>17, <2>1
<1>22. CutAt(q, x, data, s, o)
  BY <1>13, <1>17, <1>19, <1>20, <1>21 DEF CutAt
<1>23. s = Cut(f, data, m)
  BY <1>2, <1>10, <1>12, <1>14, <1>16 DEF Cut
<1> QED BY <1>2, <1>3, <1>5, <1>12, <1>13, <1>18, <1>22, <1>23

(* The pieces of one write agree with each other. *)
LEMMA CutsAgree ==
  ASSUME WritesFit, NEW q \in Peers, NEW x \in Nat, NEW data, NEW N,
         \A s \in N : \E o \in Nat : CutAt(q, x, data, s, o)
  PROVE  Agree(N)
<1>1. ASSUME NEW s \in N, NEW t \in N, NEW a \in DOMAIN s.data, NEW b \in DOMAIN t.data,
             Add(s.seq, a) = Add(t.seq, b)
      PROVE  s.data[a] = t.data[b]
  <2>1. PICK o \in Nat : CutAt(q, x, data, s, o)
    OBVIOUS
  <2>2. PICK r \in Nat : CutAt(q, x, data, t, r)
    OBVIOUS
  <2>3. /\ s \in SegType /\ SegRight(q, s) /\ t \in SegType /\ SegRight(q, t)
        /\ At(q, s.seq) = x + o /\ At(q, t.seq) = x + r
        /\ s.data[a] = data[o + a] /\ t.data[b] = data[r + b]
    BY <2>1, <2>2 DEF CutAt
  <2>4. At(q, Add(s.seq, a)) = x + o + a /\ a \in Nat
    BY <2>3, BytePos
  <2>5. At(q, Add(t.seq, b)) = x + r + b /\ b \in Nat
    BY <2>3, BytePos
  <2>6. o + a = r + b
    BY <1>1, <2>4, <2>5
  <2> QED BY <2>3, <2>6
<1> QED BY <1>1 DEF Agree
(* The chunks of a write that is cut off after k of them. *)
LEMMA CutsWithin ==
  ASSUME NEW data \in Seq(Nat), NEW k \in Nat \ {0}, k * MSS < Len(data) + MSS,
         NEW m \in 1 .. k
  PROVE  m \in Nat \ {0} /\ Start(m) < Len(data) /\ Stop(data, m) <= Stop(data, k)
<1>1. MSS \in Nat /\ m \in Nat \ {0} /\ m <= k
  BY NumFacts
<1>2. PICK n \in Nat : n = Len(data)
  BY LenProperties
<1>3. PICK a \in Nat : a = m * MSS
  BY <1>1, MulMono
<1>4. PICK b \in Nat : b = k * MSS
  BY <1>1, MulMono
<1>5. a <= b
  BY <1>1, <1>3, <1>4, MulMono
<1>6. a = Start(m) + MSS
  <2>1. PICK p \in Nat : p = m - 1
    BY <1>1
  <2>2. m = p + 1 /\ Start(m) = p * MSS
    BY <1>1, <2>1 DEF Start
  <2>3. (p + 1) * MSS = p * MSS + MSS
    BY <1>1
  <2> QED BY <1>3, <2>2, <2>3
<1>7. Start(m) \in Nat
  BY <1>1, MulMono DEF Start
<1>8. Start(m) < n
  <2>1. b < n + MSS
    BY <1>2, <1>4
  <2> QED BY <1>1, <1>5, <1>6, <1>7, <2>1
<1>9. Stop(data, m) <= Stop(data, k)
  <2>1. Stop(data, m) = SmallerOf(a, n) /\ Stop(data, k) = SmallerOf(b, n)
    BY <1>2, <1>3, <1>4 DEF Stop
  <2> QED BY <1>5, <2>1 DEF SmallerOf
<1> QED BY <1>1, <1>2, <1>8, <1>9

(* The segments of a write of which k go out. *)
Cuts(f, data, k) == {Cut(f, data, m) : m \in 1 .. k}
CutsFit(q, f, data, k) ==
  At(q, f) + Len(data) <= MaxOut[q] + 1 /\ k * MSS < Len(data) + MSS
CutsRight(q, f, data, k, y) ==
  /\ y \in Seqs /\ At(q, y) = At(q, f) + Stop(data, k)
  /\ Cuts(f, data, k) \in SUBSET SegType
  /\ Agree(peer[q].wire \cup Cuts(f, data, k))
  /\ \A s \in Cuts(f, data, k) :
       ~Syn(s) /\ ~Fin(s) /\ SegRight(q, s) /\ End(q, s) <= At(q, y)
  /\ Cut(f, data, k) \in Cuts(f, data, k)

LEMMA CutsGoOut ==
  ASSUME WritesFit, Received, Sending, NEW i \in Pcbs, NEW c, c = pcb[i],
         c.state \in {"ESTABLISHED", "CLOSE_WAIT"}, NEW q, q = c.remote,
         NEW data \in Seq(Nat), NEW k \in Nat \ {0}, CutsFit(q, c.snd_nxt, data, k),
         NEW y, y = Add(c.snd_nxt, Stop(data, k))
  PROVE  CutsRight(q, c.snd_nxt, data, k, y)
<1>0. At(q, c.snd_nxt) + Len(data) <= MaxOut[q] + 1 /\ k * MSS < Len(data) + MSS
  BY DEF CutsFit
<1>1. PICK f \in Seqs : f = c.snd_nxt
  BY WireEnds DEF PcbOK, PcbType
<1>2. /\ q \in Peers /\ peer[q].wire \in SUBSET SegType /\ Agree(peer[q].wire)
      /\ \A s \in peer[q].wire : SegRight(q, s)
      /\ \A s \in peer[q].wire : ~Syn(s) => End(q, s) <= At(q, f)
      /\ 1 <= At(q, f)
  BY <1>1, WireEnds
<1>3. PICK x \in Nat : x = At(q, f)
  BY AtFacts
<1>4. PICK n \in Nat : n = Len(data)
  BY LenProperties
<1>5. PICK M \in Nat : M = MaxOut[q]
  BY <1>2, FitFacts
<1>6. M + 2 < SeqMod /\ SeqMod \in Nat /\ x + n <= M + 1
  BY <1>0, <1>1, <1>2, <1>3, <1>4, <1>5, FitFacts
<1>7. k \in 1 .. k
  OBVIOUS
<1>8. PICK z : z = Stop(data, k)
  OBVIOUS
<1>9. z \in Nat /\ z <= n
  <2>1. Start(k) < Len(data)
    BY <1>0, <1>7, CutsWithin
  <2> QED BY <1>4, <1>8, <2>1, ChunkIs
<1>10. At(q, y) = x + z /\ y \in Seqs
  <2>1. x + z < SeqMod
    BY <1>6, <1>9
  <2>2. At(q, f) + z < SeqMod /\ y = Add(f, z)
    BY <1>1, <1>3, <1>8, <2>1
  <2> QED BY <1>3, <1>9, <2>2, AtAdd
<1>11. ASSUME NEW m \in 1 .. k
       PROVE  /\ CutAt(q, x, data, Cut(f, data, m), Start(m)) /\ Start(m) \in Nat
              /\ End(q, Cut(f, data, m)) <= x + z
  <2>1. m \in Nat \ {0} /\ Start(m) < Len(data) /\ Stop(data, m) <= Stop(data, k)
    BY <1>0, CutsWithin
  <2>2. Start(m) \in Nat /\ Stop(data, m) \in Nat
    BY <2>1, ChunkIs
  <2>3. 1 <= At(q, f) /\ At(q, f) + Len(data) <= MaxOut[q] + 1
    BY <1>0, <1>1, <1>2
  <2>4. /\ CutAt(q, At(q, f), data, Cut(f, data, m), Start(m))
        /\ End(q, Cut(f, data, m)) = At(q, f) + Stop(data, m)
    BY <1>2, <2>1, <2>3, CutSegment
  <2>5. At(q, f) + Stop(data, m) <= x + z
    BY <1>3, <1>8, <1>9, <2>1, <2>2
  <2> QED BY <1>3, <2>2, <2>4, <2>5
<1>12. PICK N : N = Cuts(f, data, k) /\ N = {Cut(f, data, m) : m \in 1 .. k}
  BY DEF Cuts
<1>13. \A s \in N : \E o \in Nat : CutAt(q, x, data, s, o)
  BY <1>11, <1>12
<1>14. Agree(N)
  BY <1>2, <1>13, CutsAgree
<1>15. \A s \in N : /\ s \in SegType /\ ~Syn(s) /\ ~Fin(s) /\ SegRight(q, s)
                    /\ End(q, s) <= At(q, y) /\ x <= At(q, s.seq)
  <2>1. ASSUME NEW s \in N
        PROVE /\ s \in SegType /\ ~Syn(s) /\ ~Fin(s) /\ SegRight(q, s)
              /\ x <= At(q, s.seq)
    <3>1. PICK o \in Nat : CutAt(q, x, data, s, o)
      BY <1>13
    <3>2. x <= x + o
      OBVIOUS
    <3> QED BY <3>1, <3>2 DEF CutAt
  <2>2. \A s \in N : End(q, s) <= At(q, y)
    BY <1>10, <1>11, <1>12
  <2> QED BY <2>1, <2>2
<1>16. Agree(peer[q].wire \cup N)
  <2>1. N \in SUBSET SegType /\ \A s \in N : SegRight(q, s)
    BY <1>15
  <2>2. \A s \in N : s.data # <<>> => x <= At(q, s.seq)
    BY <1>15
  <2>3. \A s \in peer[q].wire : ~Syn(s) => End(q, s) <= x
    BY <1>2, <1>3
  <2>4. x \in Int
    OBVIOUS
  <2> QED BY <1>2, <1>14, <2>1, <2>2, <2>3, <2>4, AgreeMore
<1> QED BY <1>1, <1>3, <1>7, <1>8, <1>10, <1>12, <1>15, <1>16 DEF CutsRight

(* What is tracked stays right when more has been written. *)
LEMMA TrackedMore ==
  ASSUME NEW c, PcbOK(c), NEW w \in Nat, NEW v \in Nat, w <= v, NEW W, Tracked(c, w, W)
  PROVE  Tracked(c, v, W)
<1>1. PICK t : t = c.last_tx
  OBVIOUS
<1>2. t \in TrackType
  BY <1>1 DEF PcbOK, PcbType
<1>3. PICK q : q = c.remote
  OBVIOUS
<1>4. At(q, t.seq) \in Nat /\ Len(t.data) \in Nat
  BY <1>2, AtFacts, LenProperties DEF TrackType
<1>5. PICK e \in Nat : e = End(q, t)
  BY <1>4 DEF End
<1>6. e <= w + 1 => e <= v + 1
  BY <1>5
<1> QED BY <1>1, <1>3, <1>5, <1>6 DEF Tracked
LEMMA SendSends ==
  ASSUME WritesFit, Received, Sending, NEW i \in Pcbs, NEW n \in Nat, NEW k \in Nat,
         tcp_send(i, n, k)
  PROVE  Sending'
<1>1. PICK c : c = pcb[i]
  OBVIOUS
<1>2. PICK q : q = c.remote
  OBVIOUS
<1>3. PICK w \in Nat : w = wrote[i]
  BY PcbFacts
<1>4. PICK v \in Nat : v = w + n
  BY <1>3
<1>5. PICK data \in Seq(Nat) : data = NewBytes(i, n) /\ Len(data) = n
  BY NewBytesFacts
<1>6. /\ c.state = "ESTABLISHED" /\ v <= MaxOut[q] /\ taken' = taken
      /\ wrote' = [wrote EXCEPT ![i] = v] /\ k * MSS < Len(data) + MSS
  BY <1>1, <1>2, <1>3, <1>4, <1>5 DEF tcp_send
<1>7. c.state \in {"ESTABLISHED", "CLOSE_WAIT"}
  BY <1>6
<1>8. /\ q \in Peers /\ peer[q].wire \in SUBSET SegType /\ PcbOK(c) /\ c.snd_nxt \in Seqs
      /\ Tracked(c, w, peer[q].wire) /\ At(q, c.snd_nxt) <= w + 1 /\ 1 <= At(q, c.snd_nxt)
  BY <1>1, <1>2, <1>3, <1>7, WireEnds DEF PcbOK, PcbType
<1>9. PICK x \in Nat : x = At(q, c.snd_nxt)
  BY <1>8, AtFacts
<1>10. x <= w + 1 /\ 1 <= x /\ x <= v + 1
  BY <1>4, <1>8, <1>9
<1>11. CASE k = 0
  <2>1. pcb' = [pcb EXCEPT ![i] = c] /\ peer' = peer
    BY <1>1, <1>11, PcbFacts DEF tcp_send
  <2>2. PICK N : N = {}
    OBVIOUS
  <2>3. PICK P : P = peer
    OBVIOUS
  <2>4. Heard(P, q, N)
    BY <2>2, <2>3, HeardNothing
  <2>5. Tracked(c, v, P[q].wire)
    <3>1. w <= v
      BY <1>4
    <3> QED BY <1>8, <2>3, <3>1, TrackedMore
  <2>6. peer[q].wire \cup N \in SUBSET SegType /\ peer' = P
    BY <1>8, <2>1, <2>2, <2>3
  <2>7. /\ At(q, c.snd_nxt) <= At(q, c.snd_nxt) /\ At(q, c.snd_nxt) <= v + 1
    BY <1>9, <1>10
  <2> QED BY <1>1, <1>2, <1>6, <1>7, <1>8, <2>1, <2>2, <2>4, <2>5, <2>6, <2>7, DataStep
<1>12. CASE k # 0
  <2>1. k \in Nat \ {0}
    BY <1>12
  <2>2. At(q, c.snd_nxt) + Len(data) <= MaxOut[q] + 1
    <3>1. PICK M \in Nat : M = MaxOut[q]
      BY <1>8, FitFacts
    <3>2. x + n <= M + 1
      BY <1>4, <1>6, <1>10, <3>1
    <3> QED BY <1>5, <1>9, <3>1, <3>2
  <2>3. PICK N : N = Cuts(c.snd_nxt, data, k)
    OBVIOUS
  <2>4. PICK y : y = Add(c.snd_nxt, Stop(data, k))
    OBVIOUS
  <2>5. /\ y \in Seqs /\ At(q, y) = At(q, c.snd_nxt) + Stop(data, k)
        /\ N \in SUBSET SegType /\ Agree(peer[q].wire \cup N)
        /\ \A s \in N : ~Syn(s) /\ ~Fin(s) /\ SegRight(q, s) /\ End(q, s) <= At(q, y)
        /\ Cut(c.snd_nxt, data, k) \in N
    <3>1. CutsFit(q, c.snd_nxt, data, k)
      BY <1>6, <2>2 DEF CutsFit
    <3>2. CutsRight(q, c.snd_nxt, data, k, y)
      BY <1>1, <1>2, <1>7, <2>1, <2>4, <3>1, CutsGoOut
    <3> QED BY <2>3, <3>2 DEF CutsRight
  <2>6. Start(k) < Len(data)
    <3>1. k \in 1 .. k
      BY <2>1
    <3> QED BY <1>6, <2>1, <3>1, CutsWithin
  <2>7. /\ Start(k) \in Nat /\ Stop(data, k) \in Nat /\ Start(k) <= Stop(data, k)
        /\ Stop(data, k) <= n /\ Chunk(data, k) \in Seq(Nat)
    BY <1>5, <2>1, <2>6, ChunkIs
  <2>8. PICK f : f = Add(c.snd_nxt, Start(k))
    OBVIOUS
  <2>9. f \in Seqs /\ At(q, f) = x + Start(k)
    <3>1. /\ CutAt(q, At(q, c.snd_nxt), data, Cut(c.snd_nxt, data, k), Start(k))
          /\ f \in Seqs
      BY <1>8, <2>1, <2>2, <2>6, <2>8, CutSegment
    <3>2. Cut(c.snd_nxt, data, k).seq = f
      BY <2>8 DEF Cut, Seg
    <3> QED BY <1>9, <3>1, <3>2 DEF CutAt
  <2>10. PICK flags : flags = {"PSH", "ACK"}
    OBVIOUS
  <2>11. flags \in SUBSET Flags /\ flags # {} /\ "SYN" \notin flags /\ "FIN" \notin flags
    BY <2>10 DEF Flags
  <2>12. PICK chunk \in Seq(Nat) : chunk = Chunk(data, k)
    BY <2>7
  <2>13. PICK e : e = [c EXCEPT !.snd_nxt = y]
    OBVIOUS
  <2>14. /\ PcbOK(e) /\ e.state = c.state /\ e.remote = c.remote
         /\ e.snd_nxt = y /\ e.snd_una = c.snd_una
    BY <1>8, <2>5, <2>13, MovedFields
  <2>15. PICK d : d = tcp_track_tx(e, flags, f, chunk)
    OBVIOUS
  <2>16. /\ PcbOK(d) /\ d.last_tx.flags = flags /\ d.last_tx.seq = f
         /\ d.last_tx.data = chunk \/ d.last_tx.data = <<>>
         /\ d.state = e.state /\ d.remote = e.remote
         /\ d.snd_nxt = e.snd_nxt /\ d.snd_una = e.snd_una
    BY <2>9, <2>11, <2>14, <2>15, TrackFields
  <2>17. pcb' = [pcb EXCEPT ![i] = d]
    <3>1. Stop(data, k) = SmallerOf(k * MSS, n) /\ f = Add(c.snd_nxt, (k - 1) * MSS)
      BY <1>5, <2>8 DEF Start, Stop
    <3> QED BY <1>1, <1>5, <1>12, <2>4, <2>10, <2>12, <2>13, <2>15, <3>1 DEF tcp_send
  <2>18. PICK P : P = Reaches(c, N)
    OBVIOUS
  <2>19. peer' = P
    <3>1. N = {Seg({"PSH", "ACK"}, Add(c.snd_nxt, (m - 1) * MSS), Chunk(data, m)) :
                    m \in 1 .. k}
      BY <2>3 DEF Cuts, Cut, Start
    <3> QED BY <1>1, <1>5, <1>12, <2>18, <3>1 DEF tcp_send
  <2>20. Heard(P, q, N)
    BY <1>2, <1>8, <2>18, HeardReach
  <2>21. Cut(c.snd_nxt, data, k) \in P[q].wire
    BY <1>8, <2>5, <2>20 DEF Heard
  <2>22. At(q, d.snd_nxt) = x + Stop(data, k) /\ d.snd_nxt = y
    BY <1>9, <2>5, <2>14, <2>16
  <2>23. Tracked(d, v, P[q].wire)
    <3>1. ~Syn(d.last_tx) /\ ~Fin(d.last_tx)
      BY <2>11, <2>16 DEF Syn, Fin
    <3>2. PICK o \in Nat, z \in Nat : o = Start(k) /\ z = Stop(data, k) /\ o <= z
      BY <2>7
    <3>3. At(q, d.last_tx.seq) = x + o /\ 1 <= At(q, d.last_tx.seq)
      BY <1>10, <2>9, <2>16, <3>2
    <3>4. End(q, d.last_tx) <= x + z
      <4>1. CASE d.last_tx.data = <<>>
        <5>1. Len(d.last_tx.data) = 0
          BY <4>1
        <5> QED BY <3>2, <3>3, <5>1 DEF End
      <4>2. CASE d.last_tx.data = chunk
        <5>1. Len(d.last_tx.data) = z - o
          BY <2>1, <2>6, <2>12, <3>2, <4>2, ChunkIs
        <5> QED BY <3>2, <3>3, <5>1 DEF End
      <4> QED BY <2>16, <4>1, <4>2
    <3>5. \/ d.last_tx.data = <<>>
          \/ Seg(d.last_tx.flags, d.last_tx.seq, d.last_tx.data) \in P[q].wire
      BY <2>8, <2>10, <2>12, <2>16, <2>21 DEF Cut
    <3> QED BY <1>2, <2>14, <2>16, <2>22, <3>1, <3>2, <3>3, <3>4, <3>5 DEF Tracked
  <2>24. /\ \A s \in N : SegRight(q, s) /\ ~Fin(s) /\ End(q, s) <= At(q, d.snd_nxt)
         /\ N = {} \/ Agree(peer[q].wire \cup N)
         /\ peer[q].wire \cup N \in SUBSET SegType
    BY <1>8, <2>5, <2>22
  <2>25. At(q, c.snd_nxt) <= At(q, d.snd_nxt) /\ At(q, d.snd_nxt) <= v + 1 /\ d.snd_nxt \in Seqs
    <3>1. PICK z \in Nat : z = Stop(data, k) /\ z <= n
      BY <2>7
    <3>2. x <= x + z /\ x + z <= v + 1
      BY <1>4, <1>10, <3>1
    <3> QED BY <1>9, <2>5, <2>22, <3>1, <3>2
  <2>26. /\ d.state = c.state /\ d.remote = q /\ d.snd_una = c.snd_una /\ v <= MaxOut[q]
         /\ wrote' = [wrote EXCEPT ![i] = v] /\ taken' = taken
    BY <1>2, <1>6, <2>14, <2>16
  <2> QED BY <1>1, <1>2, <1>7, <2>17, <2>19, <2>20, <2>23, <2>24, <2>25, <2>26, DataStep
<1> QED BY <1>11, <1>12
-----------------------------------------------------------------------------
(* The peers *)

(* p is what becomes of peer q in a step of its own. *)
LEMMA PeerSide ==
  ASSUME Received, Sending, NEW q \in Peers, NEW p \in PeerType, WireRight(q, p),
         p.wire = peer[q].wire,
         peer[q].st = "open" => At(q, peer[q].rcv) <= At(q, p.rcv),
         peer' = [peer EXCEPT ![q] = p], UNCHANGED <<pcb, taken, got, wrote>>
  PROVE  Sending'
<1>1. peer \in PeersType
  BY DEF Received, TypeInv
<1>2. peer'[q] = p /\ \A r \in Peers \ {q} : peer'[r] = peer[r]
  BY <1>1 DEF PeersType
<1>3. PICK P : P = peer'
  OBVIOUS
<1>4. ASSUME NEW i \in Pcbs PROVE SendRight(pcb[i], wrote[i], P)
  <2>1. PICK c : c = pcb[i]
    OBVIOUS
  <2>2. PICK w : w = wrote[i]
    OBVIOUS
  <2>3. SendRight(c, w, peer) /\ PcbRight(c, got[i], peer) /\ PcbOK(c)
    BY <2>1, <2>2, PcbFacts DEF Sending
  <2>4. CASE c.state \notin Live
    BY <2>1, <2>2, <2>3, <2>4 DEF SendRight, Live, Closing
  <2>5. CASE c.state \in Live
    <3>1. PICK r \in Peers : r = c.remote
      BY <2>3, <2>5 DEF PcbRight
    <3>2. P[r].wire = peer[r].wire
      BY <1>2, <1>3
    <3>3. CASE c.state \in {"SYN_SENT", "SYN_RCVD"}
      BY <2>1, <2>2, <2>3, <3>1, <3>2, <3>3 DEF SendRight
    <3>4. CASE c.state \in {"ESTABLISHED", "CLOSE_WAIT"}
      <4>1. Flowing(c, w, peer) /\ peer[r].st = "open"
        BY <2>3, <3>1, <3>4 DEF SendRight, PcbRight, Closing
      <4>2. At(r, c.snd_una) <= At(r, P[r].rcv)
        <5>1. CASE r = q
          <6>1. p.rcv \in Seqs /\ peer[q].rcv \in Seqs /\ c.snd_una \in Seqs
            BY <1>1, <2>3 DEF PeersType, PeerType, PcbOK, PcbType
          <6>2. At(q, p.rcv) \in Nat /\ At(q, peer[q].rcv) \in Nat /\ At(q, c.snd_una) \in Nat
            BY <6>1, AtFacts
          <6>3. At(q, c.snd_una) <= At(q, peer[q].rcv) /\ At(q, peer[q].rcv) <= At(q, p.rcv)
            BY <3>1, <4>1, <5>1 DEF Flowing
          <6>4. At(q, c.snd_una) <= At(q, p.rcv)
            BY <6>2, <6>3
          <6> QED BY <1>2, <1>3, <5>1, <6>4
        <5>2. CASE r # q
          BY <1>2, <1>3, <3>1, <4>1, <5>2 DEF Flowing
        <5> QED BY <5>1, <5>2
      <4>3. Flowing(c, w, P)
        BY <3>1, <3>2, <4>1, <4>2 DEF Flowing
      <4> QED BY <2>1, <2>2, <3>4, <4>3 DEF SendRight
    <3>5. CASE c.state = "LAST_ACK"
      BY <2>1, <2>2, <2>3, <3>5 DEF SendRight
    <3> QED BY <2>5, <3>3, <3>4, <3>5 DEF Live, Closing
  <2> QED BY <2>4, <2>5
<1>5. \A i \in Pcbs : SendRight(pcb'[i], wrote'[i], peer')
  BY <1>3, <1>4
<1>6. \A r \in Peers : WireRight(r, peer'[r])
  BY <1>2 DEF Sending
<1>7. TakenRight'
  BY DEF Sending, TakenRight
<1> QED BY <1>5, <1>6, <1>7 DEF Sending

(* A peer acknowledges what it has. *)
LEMMA AckingAcks ==
  ASSUME NEW p \in PeerType
  PROVE  Acking(p).wire = p.wire /\ \A a \in Acking(p).acks : a \in p.acks \/ a[1] = p.rcv
<1>1. PICK x : x = <<p.rcv, PeerBuf - p.unread>>
  OBVIOUS
<1>2. PICK b : b = p.acks \cup {x}
  OBVIOUS
<1>3. Acking(p) = [p EXCEPT !.acks = b]
  BY <1>1, <1>2 DEF Acking, PeerType
<1>4. Acking(p).wire = p.wire /\ Acking(p).acks = b
  BY <1>3 DEF PeerType
<1>5. x[1] = p.rcv
  BY <1>1
<1> QED BY <1>2, <1>4, <1>5

(* A peer has everything up to r, brought to it by some segment. *)
LEMMA PeerHas ==
  ASSUME Received, Sending, NEW q \in Peers, NEW o \in PeerType, o.st = "open",
         o.wire = peer[q].wire, o.acks = peer[q].acks,
         1 <= At(q, o.rcv), Brought(q, o), At(q, peer[q].rcv) <= At(q, o.rcv),
         peer[q].st = "open",
         peer' = [peer EXCEPT ![q] = Acking(o)], UNCHANGED <<pcb, taken, got, wrote>>
  PROVE  Sending'
<1>1. peer[q] \in PeerType
  BY DEF Received, TypeInv, PeersType
<1>2. WireRight(q, peer[q])
  BY DEF Sending
<1>3. PICK n : n = Acking(o)
  OBVIOUS
<1>4. /\ n \in PeerType /\ n.st = "open" /\ n.rcv = o.rcv /\ n.wire = o.wire
      /\ \A a \in n.acks : a \in peer[q].acks \/ a[1] = o.rcv
  BY <1>3, AckingFacts, AckingAcks
<1>5. PICK y \in Nat : y = At(q, o.rcv)
  <2>1. o.rcv \in Seqs
    BY DEF PeerType
  <2> QED BY <2>1, AtFacts
<1>6. PICK x \in Nat : x = At(q, peer[q].rcv)
  <2>1. peer[q].rcv \in Seqs
    BY <1>1 DEF PeerType
  <2> QED BY <2>1, AtFacts
<1>7. ASSUME NEW a \in n.acks PROVE At(q, a[1]) <= y
  <2>1. CASE a \in peer[q].acks
    <3>1. a \in Seqs \X Int
      BY <1>1, <2>1 DEF PeerType
    <3>2. At(q, a[1]) \in Nat
      BY <3>1, AtFacts
    <3>3. At(q, a[1]) <= x
      BY <1>2, <1>6, <2>1 DEF WireRight, Got
    <3> QED BY <1>5, <1>6, <3>2, <3>3
  <2>2. CASE a[1] = o.rcv
    BY <1>5, <2>2
  <2> QED BY <1>4, <2>1, <2>2
<1>8. Got(q, n)
  <2>1. Brought(q, n)
    BY <1>4 DEF Brought
  <2> QED BY <1>4, <1>5, <1>7, <2>1 DEF Got
<1>9. WireRight(q, n)
  BY <1>2, <1>4, <1>8 DEF WireRight
<1>10. n.wire = peer[q].wire /\ peer' = [peer EXCEPT ![q] = n] /\ At(q, peer[q].rcv) <= At(q, n.rcv)
  BY <1>3, <1>4
<1> QED BY <1>4, <1>9, <1>10, PeerSide

LEMMA PeerOpensSends ==
  ASSUME WritesFit, Received, Sending, NEW q \in Peers, NEW s \in peer[q].wire,
         PeerOpens(q, s), UNCHANGED <<pcb, taken, got, wrote>>
  PROVE  Sending'
<1>1. PICK p : p = peer[q]
  OBVIOUS
<1>2. p \in PeerType /\ PeerRight(q, p) /\ WireRight(q, p)
  BY <1>1 DEF Received, TypeInv, PeersType, Sending
<1>3. p.st # "open" /\ p.acks = {} /\ s.seq = Isn(q)
  BY <1>1, <1>2 DEF PeerOpens, PeerRight, WireRight, SegRight, Syn
<1>4. PICK r \in Seqs : r = Add(s.seq, 1) /\ At(q, r) = 1
  BY <1>3, AtIsn
<1>5. PICK o : o = [p EXCEPT !.st = "open", !.rcv = r]
  OBVIOUS
<1>6. /\ o \in PeerType /\ o.st = "open" /\ o.rcv = r /\ o.wire = p.wire /\ o.acks = {}
  BY <1>2, <1>3, <1>5 DEF PeerType
<1>7. PICK n : n = Acking(o)
  OBVIOUS
<1>8. /\ n \in PeerType /\ n.st = "open" /\ n.rcv = r /\ n.wire = p.wire
      /\ \A a \in n.acks : a[1] = r
  BY <1>6, <1>7, AckingFacts, AckingAcks
<1>9. Got(q, n)
  <2>1. Brought(q, n) /\ 1 <= At(q, n.rcv)
    BY <1>4, <1>8 DEF Brought
  <2>2. \A a \in n.acks : At(q, a[1]) <= At(q, n.rcv)
    BY <1>4, <1>8
  <2> QED BY <2>1, <2>2 DEF Got
<1>10. WireRight(q, n)
  BY <1>2, <1>8, <1>9 DEF WireRight
<1>11. peer' = [peer EXCEPT ![q] = n]
  BY <1>1, <1>4, <1>5, <1>7 DEF PeerOpens
<1>12. n.wire = peer[q].wire /\ peer[q].st # "open"
  BY <1>1, <1>3, <1>8
<1> QED BY <1>8, <1>10, <1>11, <1>12, PeerSide

(* The data or the FIN of s goes to where s ends, or one further. *)
LEMMA PeerTakesSends ==
  ASSUME WritesFit, Received, Sending, NEW q \in Peers, NEW s \in peer[q].wire,
         PeerTakes(q, s), UNCHANGED <<pcb, taken, got, wrote>>
  PROVE  Sending'
<1>1. PICK p : p = peer[q]
  OBVIOUS
<1>2. /\ p \in PeerType /\ WireRight(q, p) /\ p.st = "open" /\ ~Syn(s) /\ s \in p.wire
  BY <1>1 DEF Received, TypeInv, PeersType, PeerTakes, Sending, Syn
<1>3. p.rcv \in Seqs /\ p.unread \in Nat /\ s \in SegType
  BY <1>2 DEF PeerType
<1>4. PICK f \in Seqs : f = s.seq
  BY <1>3, SegTypes
<1>5. PICK l \in Nat : l = Len(s.data)
  BY <1>3, SegTypes
<1>6. PICK b \in Seqs : b = Sub(p.rcv, f)
  <2>1. p.rcv \in Int /\ f \in Int
    BY <1>3, <1>4 DEF Seqs
  <2> QED BY <2>1, SeqOps
<1>7. b \in Nat /\ Add(f, b) = p.rcv
  <2>1. Add(f, b) = p.rcv
    BY <1>3, <1>6, AddSub
  <2> QED BY <2>1 DEF Seqs
<1>8. PICK e \in Nat : e = At(q, f)
  BY AtFacts
<1>9. PICK x \in Nat : x = At(q, p.rcv)
  BY <1>3, AtFacts
<1>10. PICK M \in Nat : M = MaxOut[q]
  BY FitFacts
<1>11. /\ M + 2 < SeqMod /\ SeqMod \in Nat /\ 1 <= x /\ End(q, s) = e + l /\ e + l <= M + 1
       /\ Fin(s) => s.data = <<>>
  BY <1>2, <1>4, <1>5, <1>8, <1>9, <1>10, FitFacts DEF WireRight, SegRight, Got, End
<1>12. \/ /\ l - b > 0 /\ p.unread + (l - b) <= PeerBuf
          /\ peer' = [peer EXCEPT ![q] =
               Acking([p EXCEPT !.rcv = Add(p.rcv, l - b), !.unread = p.unread + (l - b)])]
       \/ /\ Fin(s) /\ b = 0
          /\ peer' = [peer EXCEPT ![q] = Acking([p EXCEPT !.rcv = Add(p.rcv, 1)])]
  BY <1>1, <1>4, <1>5, <1>6 DEF PeerTakes, Fin
<1>13. CASE /\ l - b > 0
            /\ peer' = [peer EXCEPT ![q] =
                 Acking([p EXCEPT !.rcv = Add(p.rcv, l - b), !.unread = p.unread + (l - b)])]
  <2>1. PICK n \in Nat : n = l - b
    BY <1>7, <1>13
  <2>2. x = e + b
    <3>1. e + b < SeqMod
      BY <1>7, <1>11, <1>13
    <3>2. At(q, f) + b < SeqMod
      BY <1>8, <3>1
    <3> QED BY <1>7, <1>8, <1>9, <3>2, AtAdd
  <2>3. PICK r : r = Add(p.rcv, n)
    OBVIOUS
  <2>4. At(q, r) = e + l /\ r \in Seqs
    <3>1. x + n = e + l
      BY <1>7, <2>1, <2>2
    <3>2. At(q, p.rcv) + n < SeqMod
      BY <1>9, <1>11, <3>1
    <3> QED BY <1>3, <1>9, <2>3, <3>1, <3>2, AtAdd
  <2>5. x <= e + l
    BY <1>7, <1>13, <2>2
  <2>6. PICK u \in Nat : u = p.unread + n
    BY <1>3
  <2>7. PICK o : o = [p EXCEPT !.rcv = r, !.unread = u]
    OBVIOUS
  <2>8. /\ o \in PeerType /\ o.st = "open" /\ o.rcv = r /\ o.wire = p.wire /\ o.acks = p.acks
    BY <1>2, <2>4, <2>6, <2>7 DEF PeerType
  <2>9. Brought(q, o)
    <3>1. e + l <= e + l + 0 /\ e + l <= e + l + 1
      OBVIOUS
    <3> QED BY <1>2, <1>11, <2>4, <2>8, <3>1 DEF Brought
  <2>10. 1 <= At(q, o.rcv) /\ At(q, p.rcv) <= At(q, o.rcv)
    BY <1>9, <1>11, <2>4, <2>5, <2>8
  <2>11. peer' = [peer EXCEPT ![q] = Acking(o)]
    BY <1>13, <2>1, <2>3, <2>6, <2>7
  <2> QED BY <1>1, <1>2, <2>8, <2>9, <2>10, <2>11, PeerHas
<1>14. CASE /\ Fin(s) /\ b = 0
            /\ peer' = [peer EXCEPT ![q] = Acking([p EXCEPT !.rcv = Add(p.rcv, 1)])]
  <2>1. p.rcv = f /\ l = 0
    <3>1. Add(f, 0) = f
      BY AddSmall
    <3>2. Len(<<>>) = 0
      OBVIOUS
    <3> QED BY <1>5, <1>7, <1>11, <1>14, <3>1, <3>2
  <2>2. x = e /\ End(q, s) = e
    BY <1>8, <1>9, <1>11, <2>1
  <2>3. PICK r : r = Add(p.rcv, 1)
    OBVIOUS
  <2>4. At(q, r) = e + 1 /\ r \in Seqs
    <3>1. PICK one \in Nat : one = 1
      OBVIOUS
    <3>2. At(q, p.rcv) + one < SeqMod
      BY <1>9, <1>11, <2>1, <2>2, <3>1
    <3>3. At(q, Add(p.rcv, one)) = At(q, p.rcv) + one /\ Add(p.rcv, one) \in Seqs
      BY <1>3, <3>2, AtAdd
    <3> QED BY <1>9, <2>2, <2>3, <3>1, <3>3
  <2>5. PICK o : o = [p EXCEPT !.rcv = r]
    OBVIOUS
  <2>6. /\ o \in PeerType /\ o.st = "open" /\ o.rcv = r /\ o.wire = p.wire /\ o.acks = p.acks
    BY <1>2, <2>4, <2>5 DEF PeerType
  <2>7. Brought(q, o)
    BY <1>2, <1>14, <2>2, <2>4, <2>6 DEF Brought
  <2>8. 1 <= At(q, o.rcv) /\ At(q, p.rcv) <= At(q, o.rcv)
    BY <1>9, <1>11, <2>2, <2>4, <2>6
  <2>9. peer' = [peer EXCEPT ![q] = Acking(o)]
    BY <1>14, <2>3, <2>5
  <2> QED BY <1>1, <1>2, <2>6, <2>7, <2>8, <2>9, PeerHas
<1> QED BY <1>12, <1>13, <1>14
-----------------------------------------------------------------------------
(* The specification *)

LEMMA InputSends ==
  ASSUME WritesFit, Received, Sending, NEW q \in Peers, tcp_input(q)
  PROVE  Sending'
<1>1. PICK s \in Segments(q), ok \in BOOLEAN, i \in tcp_find_pcb(q) :
        \/ \E j \in Pcbs : InputListen(i, q, s, j, ok)
        \/ InputSynSent(i, s, ok)
        \/ InputSynRcvd(i, s, ok)
        \/ InputReset(i, s)
        \/ InputFin(i, s, ok)
        \/ InputData(i, s, ok)
        \/ InputLastAck(i, s)
  BY DEF tcp_input
<1>2. taken' = taken
  BY DEF tcp_input
<1>3. i \in Pcbs
  BY FindFacts
<1>4. CASE \E j \in Pcbs : InputListen(i, q, s, j, ok)
  BY <1>2, <1>4, InputListenSends
<1>5. CASE InputSynSent(i, s, ok)
  BY <1>2, <1>5, InputSynSentSends
<1>6. CASE InputSynRcvd(i, s, ok)
  BY <1>2, <1>6, InputSynRcvdSends
<1>7. CASE InputReset(i, s) \/ InputLastAck(i, s)
  BY <1>2, <1>3, <1>7, ResetSends
<1>8. CASE InputFin(i, s, ok)
  BY <1>2, <1>8, InputFinSends
<1>9. CASE InputData(i, s, ok)
  BY <1>2, <1>9, InputDataSends
<1> QED BY <1>1, <1>4, <1>5, <1>6, <1>7, <1>8, <1>9

LEMMA PeerStepSends ==
  ASSUME WritesFit, Received, Sending, NEW q \in Peers, PeerStep(q)
  PROVE  Sending'
<1>1. PICK p : p = peer[q]
  OBVIOUS
<1>2. p \in PeerType /\ PeerRight(q, p) /\ peer \in PeersType /\ WireRight(q, p)
  BY <1>1 DEF Received, TypeInv, PeersType, Sending
<1>3. At(q, p.rcv) <= At(q, p.rcv)
  <2>1. p.rcv \in Seqs
    BY <1>2 DEF PeerType
  <2>2. At(q, p.rcv) \in Nat
    BY <2>1, AtFacts
  <2> QED BY <2>2
<1>4. ASSUME NEW n \in PeerType, n.st = "open" <=> p.st = "open",
             n.rcv = p.rcv, n.acks = p.acks,
             n.wire = p.wire, peer' = [peer EXCEPT ![q] = n],
             UNCHANGED <<pcb, taken, got, wrote>>
      PROVE  Sending'
  <2>1. Got(q, n)
    BY <1>2, <1>4 DEF WireRight, Got, Brought
  <2>2. WireRight(q, n)
    BY <1>2, <1>4, <2>1 DEF WireRight
  <2>3. n.wire = peer[q].wire /\ At(q, peer[q].rcv) <= At(q, n.rcv)
    BY <1>1, <1>3, <1>4
  <2> QED BY <1>4, <2>2, <2>3, PeerSide
<1>5. CASE PeerSyn(q)
  <2>1. PICK n : n = [p EXCEPT !.st = "syn"]
    OBVIOUS
  <2>2. /\ n \in PeerType /\ n.st = "syn" /\ p.st # "open" /\ n.rcv = p.rcv
        /\ n.acks = p.acks /\ n.wire = p.wire
    BY <1>1, <1>2, <1>5, <2>1 DEF PeerType, PeerSyn
  <2>3. peer' = [peer EXCEPT ![q] = n] /\ UNCHANGED <<pcb, taken, got, wrote>>
    BY <1>1, <1>2, <1>5, <2>1 DEF PeerSyn, PeersType
  <2> QED BY <1>4, <2>2, <2>3
<1>6. CASE PeerRecv(q)
  BY <1>6, PeerOpensSends, PeerTakesSends DEF PeerRecv
<1>7. CASE PeerRead(q)
  <2>1. p.st = "open"
    BY <1>1, <1>2, <1>7 DEF PeerRead, PeerRight
  <2>2. PICK o : o = [p EXCEPT !.unread = 0]
    OBVIOUS
  <2>3. /\ o \in PeerType /\ o.st = "open" /\ o.rcv = p.rcv /\ o.acks = p.acks
        /\ o.wire = p.wire
    BY <1>2, <2>1, <2>2 DEF PeerType
  <2>4. 1 <= At(q, o.rcv) /\ Brought(q, o)
    BY <1>2, <2>1, <2>3 DEF WireRight, Got, Brought
  <2>5. peer' = [peer EXCEPT ![q] = Acking(o)] /\ UNCHANGED <<pcb, taken, got, wrote>>
    BY <1>1, <1>2, <1>7, <2>2 DEF PeerRead, PeersType
  <2>6. /\ o.wire = peer[q].wire /\ o.acks = peer[q].acks /\ peer[q].st = "open"
        /\ At(q, peer[q].rcv) <= At(q, o.rcv)
    BY <1>1, <1>3, <2>1, <2>3
  <2> QED BY <2>3, <2>4, <2>5, <2>6, PeerHas
<1>8. CASE PeerSend(q)
  <2>1. PICK n : n = [p EXCEPT !.sent = p.sent + 1]
    OBVIOUS
  <2>2. n \in PeerType /\ n.st = p.st /\ n.rcv = p.rcv /\ n.acks = p.acks /\ n.wire = p.wire
    BY <1>2, <2>1 DEF PeerType
  <2>3. peer' = [peer EXCEPT ![q] = n] /\ UNCHANGED <<pcb, taken, got, wrote>>
    BY <1>1, <1>2, <1>8, <2>1 DEF PeerSend, PeersType
  <2>4. n.st = "open" <=> p.st = "open"
    BY <2>2
  <2> QED BY <1>4, <2>2, <2>3, <2>4
<1>9. CASE PeerEnd(q)
  <2>1. PICK n : /\ n = [p EXCEPT !.fin = TRUE] \/ n = [p EXCEPT !.rst = TRUE]
                 /\ peer' = [peer EXCEPT ![q] = n]
    <3>1. CASE peer' = [peer EXCEPT ![q].fin = TRUE]
      BY <1>1, <1>2, <3>1 DEF PeersType
    <3>2. CASE peer' = [peer EXCEPT ![q].rst = TRUE]
      BY <1>1, <1>2, <3>2 DEF PeersType
    <3> QED BY <1>9, <3>1, <3>2 DEF PeerEnd
  <2>2. UNCHANGED <<pcb, taken, got, wrote>>
    BY <1>9 DEF PeerEnd
  <2>3. n \in PeerType /\ n.st = p.st /\ n.rcv = p.rcv /\ n.acks = p.acks /\ n.wire = p.wire
    BY <1>2, <2>1 DEF PeerType
  <2>4. n.st = "open" <=> p.st = "open"
    BY <2>3
  <2>5. peer' = [peer EXCEPT ![q] = n]
    BY <2>1
  <2> QED BY <1>4, <2>2, <2>3, <2>4, <2>5
<1> QED BY <1>5, <1>6, <1>7, <1>8, <1>9 DEF PeerStep

LEMMA ApplicationsSend ==
  ASSUME WritesFit, Received, Sending, NEW i \in Pcbs, Applications(i)
  PROVE  Sending'
<1>1. CASE GetPcb(i)
  BY <1>1, GetPcbSends
<1>2. ASSUME NEW n \in Sizes, NEW k \in 0 .. n, tcp_send(i, n, k)
      PROVE  Sending'
  <2>1. n \in Nat /\ k \in Nat
    BY ConstFacts
  <2> QED BY <1>2, <2>1, SendSends
<1>3. ASSUME NEW n \in Sizes, NEW ok \in BOOLEAN, tcp_send_data(i, n, ok)
      PROVE  Sending'
  <2>1. n \in Nat
    BY ConstFacts
  <2> QED BY <1>3, <2>1, SendDataSends
<1>4. ASSUME NEW n \in 1 .. RxMax, Recv(i, n)
      PROVE  Sending'
  BY <1>4, RecvSends
<1>5. CASE tcp_announce_window(i)
  BY <1>5, AnnounceSends
<1>6. CASE Close(i)
  BY <1>6, CloseSends
<1> QED BY <1>1, <1>2, <1>3, <1>4, <1>5, <1>6 DEF Applications

LEMMA TickSends ==
  ASSUME WritesFit, Received, Sending, NEW i \in Pcbs, tcp_tick(i)
  PROVE  Sending'
BY ReapSends, GiveUpSends, RetransmitSends DEF tcp_tick

LEMMA StutterSends ==
  ASSUME Sending, UNCHANGED vars
  PROVE  Sending'
<1>1. UNCHANGED <<pcb, taken, wrote, peer>>
  BY DEF vars
<1>2. \A i \in Pcbs : SendRight(pcb'[i], wrote'[i], peer')
  BY <1>1 DEF Sending
<1>3. \A q \in Peers : WireRight(q, peer'[q])
  BY <1>1 DEF Sending
<1>4. TakenRight'
  BY <1>1 DEF Sending, TakenRight
<1> QED BY <1>2, <1>3, <1>4 DEF Sending

LEMMA NextSends ==
  ASSUME WritesFit, Received, Sending, [Next]_vars
  PROVE  Sending'
<1>1. ASSUME NEW i \in Pcbs, Applications(i) \/ tcp_tick(i) PROVE Sending'
  BY <1>1, ApplicationsSend, TickSends
<1>2. ASSUME NEW q \in Servers, NEW ok \in BOOLEAN, tcp_connect(q, ok) PROVE Sending'
  BY <1>2, ConnectSends
<1>3. ASSUME NEW q \in Peers, tcp_input(q) \/ PeerStep(q) PROVE Sending'
  BY <1>3, InputSends, PeerStepSends
<1> QED BY <1>1, <1>2, <1>3, StutterSends DEF Next

LEMMA InitSends ==
  ASSUME Init
  PROVE  Sending
<1>1. ASSUME NEW i \in Pcbs PROVE SendRight(pcb[i], wrote[i], peer)
  BY InitIs DEF SendRight
<1>2. ASSUME NEW q \in Peers PROVE WireRight(q, peer[q])
  <2>1. peer[q].wire = {} /\ peer[q].st = "idle"
    BY DEF Init, NewPeer
  <2> QED BY <2>1 DEF WireRight, Agree, OnlySyns, Got
<1>3. TakenRight
  BY DEF Init, TakenRight
<1> QED BY <1>1, <1>2, <1>3 DEF Sending

LEMMA AlwaysSending ==
  ASSUME \A p \in Peers : MaxIn[p] < SeqMod, WritesFit
  PROVE  Spec => [](Received /\ Sending)
<1>1. Init => Received /\ Sending
  BY InitRight, InitSends
<1>2. Received /\ Sending /\ [Next]_vars => Received' /\ Sending'
  BY NextKeeps, NextSends
<1> QED BY <1>1, <1>2, PTL DEF Spec

(* Two segments to a peer never disagree about a byte: what tcp_tick       *)
(* repeats is what was sent, or begins where the sent data ends, whichever *)
(* tries IP refused and whatever an earlier connection left in last_tx.    *)
THEOREM RepeatsAreCopies ==
  ASSUME \A p \in Peers : MaxIn[p] < SeqMod, WritesFit
  PROVE  Spec => []WireConsistent
<1>1. Sending => WireConsistent
  BY DEF Sending, WireRight, Agree, WireConsistent
<1> QED BY <1>1, AlwaysSending, PTL

(* The peer of an open connection has no more than snd_nxt says was sent,  *)
(* although tcp_send_data tracks a segment it could not send and tcp_tick  *)
(* sends that later; and snd_una, which takes the ack of any segment that  *)
(* arrives, is never ahead of the peer.                                    *)
THEOREM SendSpaceIsRight ==
  ASSUME \A p \in Peers : MaxIn[p] < SeqMod, WritesFit
  PROVE  Spec => []SendSpaceRight
<1>1. ASSUME Received, Sending, NEW i \in Pcbs, NEW c, c = pcb[i], c.state = "ESTABLISHED",
             NEW q, q = c.remote
      PROVE  /\ At(q, c.snd_una) <= At(q, peer[q].rcv)
             /\ At(q, peer[q].rcv) <= At(q, c.snd_nxt)
  <2>1. c.state \in {"ESTABLISHED", "CLOSE_WAIT"} /\ c.state \in {"ESTABLISHED", "CLOSE_WAIT", "LAST_ACK"}
    BY <1>1
  <2>2. q \in Peers /\ peer[q].st = "open"
    BY <1>1, <2>1, OpenFacts
  <2>3. PICK p : p = peer[q]
    OBVIOUS
  <2>4. Flowing(c, wrote[i], peer) /\ Got(q, p) /\ p \in PeerType /\ p.st = "open"
    BY <1>1, <2>1, <2>2, <2>3 DEF Sending, SendRight, WireRight, Received, TypeInv, PeersType
  <2>5. PICK y \in Nat : y = At(q, c.snd_nxt)
    BY <1>1, PcbFacts, AtFacts DEF PcbOK, PcbType
  <2>6. PICK x \in Nat : x = At(q, p.rcv)
    BY <2>4, AtFacts DEF PeerType
  <2>7. At(q, c.snd_una) <= x /\ 1 <= y
    BY <1>1, <2>3, <2>4, <2>5, <2>6 DEF Flowing
  <2>8. CASE x = 1
    BY <2>3, <2>5, <2>6, <2>7, <2>8
  <2>9. CASE x # 1
    <3>1. PICK s \in p.wire : ~Syn(s) /\ x <= End(q, s) + (IF Fin(s) THEN 1 ELSE 0)
      BY <2>4, <2>6, <2>9 DEF Got, Brought
    <3>2. ~Fin(s) /\ End(q, s) <= y
      BY <1>1, <2>3, <2>4, <2>5, <3>1 DEF Flowing
    <3>3. PICK e \in Nat : e = End(q, s)
      <4>1. s \in SegType
        BY <2>4 DEF PeerType
      <4>2. At(q, s.seq) \in Nat /\ Len(s.data) \in Nat
        BY <4>1, SegTypes, AtFacts
      <4> QED BY <4>2 DEF End
    <3>4. x <= e /\ e <= y
      BY <3>1, <3>2, <3>3
    <3>5. x <= y
      BY <3>3, <3>4
    <3> QED BY <2>3, <2>5, <2>6, <2>7, <3>5
  <2> QED BY <2>8, <2>9
<1>2. Received /\ Sending => SendSpaceRight
  BY <1>1 DEF SendSpaceRight, At, Isn
<1> QED BY <1>2, AlwaysSending, PTL

=============================================================================
