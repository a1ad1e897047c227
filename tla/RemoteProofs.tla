----------------------------- MODULE RemoteProofs ---------------------------
(***************************************************************************)
(* Proofs about the servers for every value of the constants: the slots of *)
(* the SSH server (SshSlots) and TCP of the 64-bit kernel (Tcp64).  Each   *)
(* has its inductive invariant; a behaviour of MCRemote is one of the      *)
(* component in part, whose invariant it keeps.                            *)
(***************************************************************************)
EXTENDS MCRemote, WellFoundedInduction, FiniteSetTheorems, TLAPS

(* The least number principle for sets, which needs no induction over an     *)
(* operator: the order of the naturals is well founded.                      *)
LEMMA LeastNat ==
  ASSUME NEW S \in SUBSET Nat, S # {}
  PROVE  \E m \in S : \A k \in S : m <= k
<1>1. PICK R : R = {p \in Nat \X Nat : p[1] < p[2]}
  OBVIOUS
<1>2. IsWellFoundedOn(R, Nat)
  BY <1>1, NatLessThanWellFounded DEF OpToRel
<1>3. PICK m \in S : \A k \in S : ~ (<<k, m>> \in R)
  BY <1>2, WFMin
<1>4. ASSUME NEW k \in S PROVE m <= k
  <2>1. k \in Nat /\ m \in Nat
    OBVIOUS
  <2>2. <<k, m>> \in Nat \X Nat /\ <<k, m>>[1] = k /\ <<k, m>>[2] = m
    BY <2>1
  <2>3. ~(k < m)
    BY <1>1, <1>3, <2>2, Zenon
  <2> QED BY <2>1, <2>3
<1> QED BY <1>4

(* A nonempty set of slots has a first one and a last one: what the loops    *)
(* that stop at a match return, written CHOOSE in the modules.               *)
LEMMA FirstOf ==
  ASSUME NEW n \in Nat, NEW S \in SUBSET (1 .. n), S # {}
  PROVE  \E i \in S : /\ i = (CHOOSE k \in S : \A j \in S : k <= j)
                      /\ \A j \in S : i <= j
<1>1. S \in SUBSET Nat
  OBVIOUS
<1>2. \E k \in S : \A j \in S : k <= j
  BY <1>1, LeastNat
<1> QED BY <1>2

-----------------------------------------------------------------------------
(* SshSlots: a slot that names a pcb names one that serves a connection, or  *)
(* that was closed behind SSH's back; the slot a key exchange runs on is     *)
(* that of the connection that asked, until it leaves or is taken over.      *)
SlotType == [pcb : 0 .. SlPcbs, computing : BOOLEAN, closing : BOOLEAN, auth : BOOLEAN, bufs : BOOLEAN]
PcbType == [st : {"closed", "syn", "est", "lastack"}, gen : Nat]
SlTypes ==
  /\ slots \in [1 .. SlSlots -> SlotType] /\ pcbs \in [1 .. SlPcbs -> PcbType]
  /\ kexRun \in [slot : 0 .. SlSlots, gen : Nat] /\ (kexRun # NoKex => kexRun.slot # 0)
  /\ slHist.made \in Nat /\ slHist.taken \in BOOLEAN
SlotsDiffer ==
  \A s, t \in 1 .. SlSlots : (s # t /\ slots[s].pcb # 0) => slots[s].pcb # slots[t].pcb
EstablishedHeld ==
  \A p \in 1 .. SlPcbs : pcbs[p].st = "est" => \E s \in 1 .. SlSlots : slots[s].pcb = p
SlotsServe ==
  \A s \in 1 .. SlSlots : slots[s].pcb # 0 =>
     /\ slots[s].bufs /\ ~slots[s].closing /\ pcbs[slots[s].pcb].gen # 0
     /\ s \notin slHist.silent => pcbs[slots[s].pcb].st \in {"est", "lastack"}
PcbsNumbered == \A p \in 1 .. SlPcbs : pcbs[p].st # "closed" => pcbs[p].gen # 0
Serves(c, gen) == c.computing /\ pcbs[c.pcb].st = "est" /\ pcbs[c.pcb].gen = gen
KexServed ==
  kexRun # NoKex /\ ~slHist.taken =>
    slots[kexRun.slot].pcb = 0 \/ Serves(slots[kexRun.slot], kexRun.gen)
SlRight ==
  /\ SlTypes /\ SlotsDiffer /\ EstablishedHeld /\ SlotsServe
  /\ PcbsNumbered /\ KexServed /\ RepliesReachAsker

(* There are no connections at first.                                        *)
LEMMA SlStarts == SlInit => SlRight
BY SlAssumption
   DEF SlInit, SlRight, SlTypes, SlotsDiffer, EstablishedHeld, SlotsServe, PcbsNumbered,
       KexServed, RepliesReachAsker, SlotType, PcbType, EmptySlot, NoKex

(* The slot found by a loop over the slots.                                  *)
LEMMA Lowest ==
  ASSUME NEW ss \in SUBSET (1 .. SlSlots), ss # {}
  PROVE  LowestSlot(ss) \in ss
BY SlAssumption, FirstOf DEF LowestSlot

(* ssh_find_connection: the slots of closed pcbs are reaped, and the slot    *)
(* found is this pcb's, or was free and is given to it.                      *)
ReapedSlot(s) ==
  IF slots[s].pcb # 0 /\ pcbs'[slots[s].pcb].st = "closed" THEN EmptySlot ELSE slots[s]
FoundFor(n, sl, p, mem) ==
  /\ n \in 0 .. SlSlots /\ sl \in [1 .. SlSlots -> SlotType]
  /\ \A s \in 1 .. SlSlots :
        sl[s] = IF s = n /\ ReapedSlot(s).pcb # p THEN Initialised(p) ELSE ReapedSlot(s)
  /\ n # 0 => \/ ReapedSlot(n).pcb = p
              \/ mem /\ ReapedSlot(n).pcb = 0 /\ \A s \in 1 .. SlSlots : ReapedSlot(s).pcb # p
  /\ n = 0 => \A s \in 1 .. SlSlots : ReapedSlot(s).pcb # p /\ (mem => ReapedSlot(s).pcb # 0)
(* The loop that looks for the slot of a pcb finds it, or there is none.     *)
LEMMA Found ==
  ASSUME SlTypes, NEW p \in 1 .. SlPcbs, NEW mem \in BOOLEAN,
         NEW r, r = ssh_find_connection(slots, p, mem)
  PROVE  FoundFor(r[1], r[2], p, mem)
<1> DEFINE R == Reaped(slots)
           free == {s \in DOMAIN R : R[s].pcb = 0}
<1>1. /\ DOMAIN R = 1 .. SlSlots /\ R \in [1 .. SlSlots -> SlotType]
      /\ \A s \in 1 .. SlSlots : R[s] = ReapedSlot(s)
  BY SlAssumption DEF Reaped, ReapedSlot, SlTypes, SlotType, EmptySlot
<1>2. Initialised(p) \in SlotType
  BY SlAssumption DEF Initialised, SlotType
<1>3. r = IF Holding(R, p) # {} THEN <<LowestSlot(Holding(R, p)), R>>
          ELSE IF free = {} \/ ~mem THEN <<0, R>>
          ELSE <<LowestSlot(free), [R EXCEPT ![LowestSlot(free)] = Initialised(p)]>>
  BY DEF ssh_find_connection
<1> HIDE DEF R
<1>4. CASE Holding(R, p) # {}
  <2>1. LowestSlot(Holding(R, p)) \in Holding(R, p)
    BY <1>1, <1>4, Lowest DEF Holding
  <2>2. PICK n : n = LowestSlot(Holding(R, p)) /\ n \in 1 .. SlSlots /\ R[n].pcb = p
    BY <1>1, <2>1 DEF Holding
  <2>3. r[1] = n /\ r[2] = R
    BY <1>3, <1>4, <2>2
  <2> QED BY <1>1, <2>2, <2>3, SlAssumption DEF FoundFor
<1>5. CASE Holding(R, p) = {} /\ (free = {} \/ ~mem)
  <2>1. r[1] = 0 /\ r[2] = R
    BY <1>3, <1>5
  <2> QED BY <1>1, <1>5, <2>1, SlAssumption DEF FoundFor, Holding
<1>6. CASE Holding(R, p) = {} /\ ~(free = {} \/ ~mem)
  <2>1. LowestSlot(free) \in free
    BY <1>1, <1>6, Lowest
  <2>2. PICK n : n = LowestSlot(free) /\ n \in 1 .. SlSlots /\ R[n].pcb = 0
    BY <1>1, <2>1
  <2>3. r[1] = n /\ r[2] = [R EXCEPT ![n] = Initialised(p)]
    BY <1>3, <1>6, <2>2
  <2>4. \A s \in 1 .. SlSlots : R[s].pcb # p
    BY <1>1, <1>6 DEF Holding
  <2>5. p # 0
    BY SlAssumption
  <2>6. /\ R[n] = ReapedSlot(n) /\ r[1] = n /\ r[2][n] = Initialised(p)
        /\ \A s \in 1 .. SlSlots : s # n => r[2][s] = ReapedSlot(s)
        /\ r[2] \in [1 .. SlSlots -> SlotType]
    BY <1>1, <1>2, <2>2, <2>3
  <2>7. \A s \in 1 .. SlSlots : ReapedSlot(s).pcb # p
    BY <1>1, <2>4
  <2>8. mem
    BY <1>6
  <2>9. n \in 0 .. SlSlots /\ n # 0
    BY <2>2, SlAssumption
  <2> QED BY <2>2, <2>5, <2>6, <2>7, <2>8, <2>9 DEF FoundFor
<1> QED BY <1>4, <1>5, <1>6

(* A slot is found while pcb p is given the state it is to have: what it     *)
(* leaves of the other slots, and of the one a key exchange runs on.         *)
Finds(p, mem, st, n, sl) ==
  /\ p \in 1 .. SlPcbs /\ pcbs[p].st \in {"syn", "est"} /\ st \in {"est", "lastack"}
  /\ pcbs' \in [1 .. SlPcbs -> PcbType] /\ pcbs'[p].st = st /\ pcbs'[p].gen = pcbs[p].gen
  /\ \A q \in 1 .. SlPcbs : q # p => pcbs'[q] = pcbs[q]
  /\ FoundFor(n, sl, p, mem) /\ slots' \in [1 .. SlSlots -> SlotType]
  /\ \A s \in 1 .. SlSlots :
        /\ slots'[s].pcb = sl[s].pcb /\ slots'[s].bufs = sl[s].bufs
        /\ slots'[s].computing = sl[s].computing /\ slots'[s].closing = sl[s].closing
  /\ st = "est" \/ pcbs[p].st = "est" => n # 0
  /\ pcbs[p].st = "est" => ~sl[n].computing
  /\ kexRun' = kexRun /\ slHist' = [slHist EXCEPT !.taken = @ \/ Takes(slots, n)]
ServesNext(c, gen) == c.computing /\ pcbs'[c.pcb].st = "est" /\ pcbs'[c.pcb].gen = gen
(* A step that looks for the slot of a pcb, and may give it one.             *)
LEMMA FindsKeep ==
  ASSUME SlRight, NEW p, NEW mem, NEW st, NEW n, NEW sl, Finds(p, mem, st, n, sl)
  PROVE  SlRight'
<1>0. SlTypes /\ SlSlots \in Nat /\ SlPcbs \in Nat
  BY SlAssumption DEF SlRight
<1>1. /\ p \in 1 .. SlPcbs /\ st \in {"est", "lastack"} /\ n \in 0 .. SlSlots
      /\ pcbs'[p].st = st /\ pcbs'[p].gen = pcbs[p].gen /\ pcbs[p].gen # 0
      /\ \A q \in 1 .. SlPcbs : q # p => pcbs'[q] = pcbs[q]
  BY DEF Finds, FoundFor, SlRight, PcbsNumbered
<1>2. /\ slHist'.made = slHist.made /\ slHist'.silent = slHist.silent
      /\ slHist'.replies = slHist.replies /\ kexRun' = kexRun
      /\ slHist'.taken = (slHist.taken \/ Takes(slots, n))
  BY DEF Finds
<1>3. ASSUME NEW s \in 1 .. SlSlots
      PROVE  \/ s = n /\ slots'[s].pcb = p /\ slots'[s].bufs /\ ~slots'[s].closing /\ slots[s].pcb # p
             \/ /\ slots'[s].pcb = slots[s].pcb /\ slots'[s].computing = slots[s].computing
                /\ slots'[s].bufs = slots[s].bufs /\ slots'[s].closing = slots[s].closing
                /\ (s = n => slots[s].pcb = p)
             \/ slots'[s].pcb = 0 /\ s # n /\ slots[s].pcb # 0 /\ pcbs'[slots[s].pcb].st = "closed"
  <2>1. /\ slots'[s].pcb = sl[s].pcb /\ slots'[s].bufs = sl[s].bufs
        /\ slots'[s].computing = sl[s].computing /\ slots'[s].closing = sl[s].closing
        /\ sl[s] = IF s = n /\ ReapedSlot(s).pcb # p THEN Initialised(p) ELSE ReapedSlot(s)
    BY DEF Finds, FoundFor
  <2>2. CASE s = n /\ ReapedSlot(s).pcb # p
    <3>1. slots[s].pcb # p
      BY <1>1, <2>2 DEF ReapedSlot
    <3>2. sl[s] = Initialised(p)
      BY <2>1, <2>2
    <3>3. sl[s].pcb = p /\ sl[s].bufs /\ ~sl[s].closing
      BY <3>2 DEF Initialised
    <3> QED BY <2>1, <2>2, <3>1, <3>3
  <2>3. CASE ~(s = n /\ ReapedSlot(s).pcb # p)
    <3>1. p # 0
      BY <1>0, <1>1
    <3>2. sl[s] = ReapedSlot(s)
      BY <2>1, <2>3
    <3>3. CASE slots[s].pcb # 0 /\ pcbs'[slots[s].pcb].st = "closed"
      <4>1. sl[s].pcb = 0
        BY <3>2, <3>3 DEF ReapedSlot, EmptySlot
      <4> QED BY <2>1, <2>3, <3>1, <3>2, <3>3, <4>1
    <3>4. CASE ~(slots[s].pcb # 0 /\ pcbs'[slots[s].pcb].st = "closed")
      <4>1. sl[s] = slots[s] /\ ReapedSlot(s) = slots[s]
        BY <3>2, <3>4 DEF ReapedSlot
      <4> QED BY <2>1, <2>3, <4>1
    <3> QED BY <3>3, <3>4
  <2> QED BY <2>2, <2>3
<1>4. ASSUME NEW s \in 1 .. SlSlots, slots[s].pcb = p
      PROVE  n # 0 /\ slots'[n].pcb = p /\ slots[n].pcb = p
  <2>1. ReapedSlot(s).pcb = p
    BY <1>1, <1>4 DEF ReapedSlot
  <2>2. n # 0 /\ ReapedSlot(n).pcb = p
    BY <2>1 DEF Finds, FoundFor
  <2>3. p # 0
    BY <1>0, <1>1
  <2>4. slots[n].pcb = p
    BY <2>2, <2>3 DEF ReapedSlot, EmptySlot
  <2> QED BY <1>0, <1>1, <1>3, <2>2, <2>4
<1>5. n # 0 => slots'[n].pcb = p
  <2> SUFFICES ASSUME n # 0 PROVE slots'[n].pcb = p
    OBVIOUS
  <2>1. n \in 1 .. SlSlots
    BY <1>0, <1>1
  <2> QED BY <1>3, <2>1
<1>6. \A s \in 1 .. SlSlots : slots[s].pcb \in 0 .. SlPcbs /\ slots'[s].pcb \in 0 .. SlPcbs
  BY DEF Finds, SlRight, SlTypes, SlotType
<1>7. SlTypes'
  BY <1>0, <1>2 DEF Finds, SlTypes, NoKex, Takes
<1>8. SlotsDiffer'
  <2>1. ASSUME NEW s \in 1 .. SlSlots, NEW t \in 1 .. SlSlots, s # t, slots'[s].pcb # 0
        PROVE  slots'[s].pcb # slots'[t].pcb
    <3>1. slots[s].pcb # 0 => slots[s].pcb # slots[t].pcb
      BY <2>1 DEF SlRight, SlotsDiffer
    <3>2. slots[s].pcb = p => s = n
      BY <1>4, <1>0, <1>1, <2>1 DEF SlRight, SlotsDiffer
    <3>3. slots[t].pcb = p => t = n
      BY <1>4, <1>0, <1>1, <2>1 DEF SlRight, SlotsDiffer
    <3> QED BY <1>3, <2>1, <3>1, <3>2, <3>3
  <2> QED BY <2>1 DEF SlotsDiffer
<1>9. EstablishedHeld'
  <2>1. ASSUME NEW q \in 1 .. SlPcbs, pcbs'[q].st = "est"
        PROVE  \E s \in 1 .. SlSlots : slots'[s].pcb = q
    <3>1. CASE q = p
      BY <1>0, <1>1, <1>5, <2>1, <3>1 DEF Finds
    <3>2. CASE q # p
      <4>1. PICK s \in 1 .. SlSlots : slots[s].pcb = q
        BY <1>1, <2>1, <3>2 DEF SlRight, EstablishedHeld
      <4>2. q # 0 /\ pcbs'[slots[s].pcb].st # "closed"
        BY <1>0, <2>1, <4>1
      <4>3. s # n \/ slots[n].pcb = p \/ slots[n].pcb = 0
        <5>1. SUFFICES ASSUME s = n, ReapedSlot(n).pcb # p PROVE slots[n].pcb = 0
          BY <3>2, <4>1, <4>2 DEF ReapedSlot
        <5>2. n # 0 /\ ReapedSlot(n).pcb = 0
          BY <1>0, <5>1 DEF Finds, FoundFor
        <5> QED BY <4>2, <5>1, <5>2 DEF ReapedSlot
      <4> QED BY <1>3, <3>2, <4>1, <4>2, <4>3
    <3> QED BY <3>1, <3>2
  <2> QED BY <2>1 DEF EstablishedHeld
<1>10. SlotsServe'
  <2>1. ASSUME NEW s \in 1 .. SlSlots, slots'[s].pcb # 0
        PROVE  /\ slots'[s].bufs /\ ~slots'[s].closing /\ pcbs'[slots'[s].pcb].gen # 0
               /\ s \notin slHist'.silent => pcbs'[slots'[s].pcb].st \in {"est", "lastack"}
    <3>1. CASE slots'[s].pcb = p
      BY <1>1, <1>2, <1>3, <2>1, <3>1 DEF SlRight, SlotsServe
    <3>2. CASE slots'[s].pcb # p
      <4>1. /\ slots'[s].pcb = slots[s].pcb /\ slots'[s].bufs = slots[s].bufs
            /\ slots'[s].closing = slots[s].closing
        BY <1>3, <2>1, <3>2
      <4>2. slots[s].pcb \in 1 .. SlPcbs
        BY <1>0, <1>6, <2>1, <4>1
      <4> QED BY <1>1, <1>2, <2>1, <3>2, <4>1, <4>2 DEF SlRight, SlotsServe
    <3> QED BY <3>1, <3>2
  <2> QED BY <2>1 DEF SlotsServe
<1>11. PcbsNumbered'
  BY <1>1 DEF SlRight, PcbsNumbered
<1>12. KexServed'
  <2> SUFFICES ASSUME kexRun # NoKex, ~slHist.taken, ~Takes(slots, n)
               PROVE  slots'[kexRun.slot].pcb = 0 \/ ServesNext(slots'[kexRun.slot], kexRun.gen)
    BY <1>2 DEF KexServed, Serves, ServesNext, NoKex
  <2> DEFINE k == kexRun.slot
  <2>1. k \in 1 .. SlSlots
    BY <1>0 DEF SlTypes
  <2>2. slots[k].pcb = 0 \/ Serves(slots[k], kexRun.gen)
    BY DEF SlRight, KexServed
  <2>3. CASE slots[k].pcb = 0
    <3>1. n # k
      BY <1>0, <2>1, <2>3 DEF Takes
    <3> QED BY <1>3, <2>1, <2>3, <3>1
  <2>4. CASE slots[k].pcb # 0
    <3>1. slots[k].computing /\ pcbs[slots[k].pcb].st = "est" /\ pcbs[slots[k].pcb].gen = kexRun.gen
      BY <2>2, <2>4 DEF Serves
    <3>2. slots[k].pcb \in 1 .. SlPcbs
      BY <1>0, <1>6, <2>1, <2>4
    <3>3. CASE slots[k].pcb = p
      <4>1. n # 0 /\ slots[n].pcb = p
        BY <1>4, <2>1, <3>3
      <4>2. n = k
        BY <1>0, <1>1, <2>1, <2>4, <3>3, <4>1 DEF SlRight, SlotsDiffer
      <4>3. slots'[k].computing = slots[k].computing
        BY <1>3, <2>1, <3>3, <4>2, <4>1, <2>4, <1>5
      <4>4. ~sl[n].computing /\ slots'[n].computing = sl[n].computing
        BY <2>1, <3>1, <3>3, <4>2 DEF Finds
      <4> QED BY <3>1, <4>2, <4>3, <4>4
    <3>4. CASE slots[k].pcb # p
      <4>1. pcbs'[slots[k].pcb] = pcbs[slots[k].pcb]
        BY <1>1, <3>2, <3>4
      <4>2. n # k
        <5>1. SUFFICES ASSUME n = k PROVE FALSE
          OBVIOUS
        <5>2. ReapedSlot(n) = slots[k]
          BY <3>1, <4>1, <5>1 DEF ReapedSlot
        <5>3. ReapedSlot(n).pcb \in {0, p}
          BY <1>0, <2>1, <5>1 DEF Finds, FoundFor
        <5> QED BY <2>4, <3>4, <5>2, <5>3
      <4> QED BY <1>3, <2>1, <3>1, <4>1, <4>2 DEF ServesNext
    <3> QED BY <3>3, <3>4
  <2> QED BY <2>3, <2>4
<1>13. RepliesReachAsker'
  BY <1>2 DEF SlRight, RepliesReachAsker
<1> QED BY <1>7, <1>8, <1>9, <1>10, <1>11, <1>12, <1>13 DEF SlRight

(* The slot of a pcb that is closed is cleared, or, while its key exchange   *)
(* runs, let go: no slot names the pcb afterwards.                           *)
LEMMA ClosedFor ==
  ASSUME SlRight, NEW p \in 1 .. SlPcbs, NEW st, SlCloses(p, st)
  PROVE  /\ slots' \in [1 .. SlSlots -> SlotType]
         /\ \A s \in 1 .. SlSlots :
              (slots'[s] = slots[s] /\ slots[s].pcb # p) \/ (slots'[s].pcb = 0 /\ slots[s].pcb = p)
<1>0. SlTypes /\ SlSlots \in Nat /\ SlPcbs \in Nat
  BY SlAssumption DEF SlRight
<1> DEFINE H == Holding(slots, p)
<1>1. \A s : s \in H <=> s \in 1 .. SlSlots /\ slots[s].pcb = p
  BY <1>0 DEF Holding, SlTypes
<1>2. CASE H = {}
  <2>1. slots' = slots
    BY <1>2 DEF SlCloses
  <2> QED BY <1>0, <1>1, <1>2, <2>1 DEF SlTypes
<1>3. CASE H # {}
  <2>1. LowestSlot(H) \in H
    BY <1>0, <1>1, <1>3, Lowest
  <2>2. PICK k : k = LowestSlot(H) /\ k \in 1 .. SlSlots /\ slots[k].pcb = p
    BY <1>1, <2>1
  <2>3. slots' = CloseSlot(slots, k)
    BY <1>3, <2>2 DEF SlCloses
  <2>4. /\ slots' \in [1 .. SlSlots -> SlotType] /\ slots'[k].pcb = 0
        /\ \A s \in 1 .. SlSlots : s # k => slots'[s] = slots[s]
    <3>1. CASE slots[k].computing
      BY <1>0, <2>2, <2>3, <3>1 DEF CloseSlot, SlTypes, SlotType
    <3>2. CASE ~slots[k].computing
      BY <1>0, <2>2, <2>3, <3>2 DEF CloseSlot, Destroyed, EmptySlot, SlTypes, SlotType
    <3> QED BY <3>1, <3>2
  <2>5. \A s \in 1 .. SlSlots : s # k => slots[s].pcb # p
    BY <1>0, <2>2 DEF SlRight, SlotsDiffer
  <2> QED BY <2>2, <2>4, <2>5
<1> QED BY <1>2, <1>3

(* A step that closes a pcb, told to SSH or not.                             *)
LEMMA CloseKeeps ==
  ASSUME SlRight, NEW p \in 1 .. SlPcbs, NEW st \in {"lastack", "closed"}, SlCloses(p, st),
         pcbs[p].st # "closed"
  PROVE  SlRight'
<1>0. SlTypes /\ SlSlots \in Nat /\ SlPcbs \in Nat
  BY SlAssumption DEF SlRight
<1>1. /\ pcbs' = [pcbs EXCEPT ![p].st = st] /\ kexRun' = kexRun
      /\ slHist'.made = slHist.made /\ slHist'.silent = slHist.silent
      /\ slHist'.taken = slHist.taken /\ slHist'.replies = slHist.replies
  BY DEF SlCloses
<1>2. /\ pcbs' \in [1 .. SlPcbs -> PcbType] /\ pcbs'[p].st = st
      /\ \A q \in 1 .. SlPcbs : pcbs'[q].gen = pcbs[q].gen /\ (q # p => pcbs'[q] = pcbs[q])
  BY <1>0, <1>1 DEF SlTypes, PcbType
<1>3. /\ slots' \in [1 .. SlSlots -> SlotType]
      /\ \A s \in 1 .. SlSlots :
           (slots'[s] = slots[s] /\ slots[s].pcb # p) \/ (slots'[s].pcb = 0 /\ slots[s].pcb = p)
  BY ClosedFor
<1>4. \A s \in 1 .. SlSlots : slots[s].pcb \in 0 .. SlPcbs
  BY <1>0 DEF SlTypes, SlotType
<1>5. SlTypes'
  BY <1>0, <1>1, <1>2, <1>3 DEF SlTypes, NoKex
<1>6. SlotsDiffer'
  BY <1>0, <1>3, <1>4 DEF SlRight, SlotsDiffer
<1>7. EstablishedHeld'
  <2>1. ASSUME NEW q \in 1 .. SlPcbs, pcbs'[q].st = "est"
        PROVE  \E s \in 1 .. SlSlots : slots'[s].pcb = q
    <3>1. q # p /\ pcbs[q].st = "est"
      BY <1>2, <2>1
    <3>2. PICK s \in 1 .. SlSlots : slots[s].pcb = q
      BY <3>1 DEF SlRight, EstablishedHeld
    <3> QED BY <1>3, <3>1, <3>2
  <2> QED BY <2>1 DEF EstablishedHeld
<1>8. SlotsServe'
  <2>1. ASSUME NEW s \in 1 .. SlSlots, slots'[s].pcb # 0
        PROVE  /\ slots'[s].bufs /\ ~slots'[s].closing /\ pcbs'[slots'[s].pcb].gen # 0
               /\ s \notin slHist'.silent => pcbs'[slots'[s].pcb].st \in {"est", "lastack"}
    <3>1. slots'[s] = slots[s] /\ slots[s].pcb # p
      BY <1>3, <2>1
    <3>2. slots[s].pcb \in 1 .. SlPcbs
      BY <1>0, <1>4, <2>1, <3>1
    <3> QED BY <1>1, <1>2, <2>1, <3>1, <3>2 DEF SlRight, SlotsServe
  <2> QED BY <2>1 DEF SlotsServe
<1>9. PcbsNumbered'
  <2>1. pcbs[p].gen # 0
    BY DEF SlRight, PcbsNumbered
  <2> QED BY <1>2, <2>1 DEF SlRight, PcbsNumbered
<1>10. KexServed'
  <2> SUFFICES ASSUME kexRun # NoKex, ~slHist.taken
               PROVE  slots'[kexRun.slot].pcb = 0 \/ ServesNext(slots'[kexRun.slot], kexRun.gen)
    BY <1>1 DEF KexServed, Serves, ServesNext, NoKex
  <2> DEFINE k == kexRun.slot
  <2>1. k \in 1 .. SlSlots
    BY <1>0 DEF SlTypes
  <2>2. CASE slots'[k] = slots[k] /\ slots[k].pcb # p /\ slots[k].pcb # 0
    <3>1. Serves(slots[k], kexRun.gen) /\ slots[k].pcb \in 1 .. SlPcbs
      BY <1>0, <1>4, <2>1, <2>2 DEF SlRight, KexServed
    <3> QED BY <1>2, <2>2, <3>1 DEF Serves, ServesNext
  <2> QED BY <1>3, <2>1, <2>2
<1>11. RepliesReachAsker'
  BY <1>1 DEF SlRight, RepliesReachAsker
<1> QED BY <1>5, <1>6, <1>7, <1>8, <1>9, <1>10, <1>11 DEF SlRight

(* A SYN gives a closed pcb to a new connection; a pcb is closed and nobody  *)
(* is told.  The slots keep what they have.                                  *)
LEMMA PcbKeeps ==
  ASSUME SlRight, NEW p \in 1 .. SlPcbs, Syn(p) \/ SilentlyClosed(p)
  PROVE  SlRight'
<1>0. SlTypes /\ SlSlots \in Nat /\ SlPcbs \in Nat
  BY SlAssumption DEF SlRight
<1>1. /\ slots' = slots /\ kexRun' = kexRun
      /\ slHist'.made \in Nat /\ slHist'.taken = slHist.taken
      /\ slHist'.replies = slHist.replies
  <2>1. CASE Syn(p)
    BY <1>0, <2>1 DEF Syn, SlTypes
  <2>2. CASE SilentlyClosed(p)
    BY <1>0, <2>2 DEF SilentlyClosed, SlTypes
  <2> QED BY <2>1, <2>2
<1>2. /\ pcbs' \in [1 .. SlPcbs -> PcbType] /\ pcbs[p].st # "est"
      /\ pcbs'[p].st \in {"syn", "closed"} /\ (pcbs[p].gen # 0 => pcbs'[p].gen # 0)
      /\ (pcbs'[p].st = "syn" => pcbs'[p].gen # 0)
      /\ \A q \in 1 .. SlPcbs : q # p => pcbs'[q] = pcbs[q]
  <2>1. CASE Syn(p)
    BY <1>0, <2>1 DEF Syn, SlTypes, PcbType
  <2>2. CASE SilentlyClosed(p)
    BY <1>0, <2>2 DEF SilentlyClosed, SlTypes, PcbType
  <2> QED BY <2>1, <2>2
<1>3. \A s \in 1 .. SlSlots : s \in slHist.silent => s \in slHist'.silent
  <2>1. CASE Syn(p)
    BY <2>1 DEF Syn
  <2>2. CASE SilentlyClosed(p)
    BY <2>2 DEF SilentlyClosed
  <2> QED BY <2>1, <2>2
<1>4. \A s \in 1 .. SlSlots : slots[s].pcb = p => s \in slHist'.silent
  <2>1. CASE Syn(p)
    BY <1>0, <1>3, <2>1 DEF Syn, SlRight, SlotsServe
  <2>2. CASE SilentlyClosed(p)
    BY <1>0, <2>2 DEF SilentlyClosed, SlTypes
  <2> QED BY <2>1, <2>2
<1>5. \A s \in 1 .. SlSlots : slots[s].pcb \in 0 .. SlPcbs
  BY <1>0 DEF SlTypes, SlotType
<1>6. SlTypes'
  BY <1>0, <1>1, <1>2 DEF SlTypes, NoKex
<1>7. SlotsDiffer' /\ EstablishedHeld'
  BY <1>0, <1>1, <1>2 DEF SlRight, SlotsDiffer, EstablishedHeld
<1>8. SlotsServe'
  <2>1. ASSUME NEW s \in 1 .. SlSlots, slots[s].pcb # 0
        PROVE  /\ slots[s].bufs /\ ~slots[s].closing /\ pcbs'[slots[s].pcb].gen # 0
               /\ s \notin slHist'.silent => pcbs'[slots[s].pcb].st \in {"est", "lastack"}
    <3>1. slots[s].pcb \in 1 .. SlPcbs
      BY <1>0, <1>5, <2>1
    <3>2. /\ slots[s].bufs /\ ~slots[s].closing /\ pcbs[slots[s].pcb].gen # 0
          /\ s \notin slHist.silent => pcbs[slots[s].pcb].st \in {"est", "lastack"}
      BY <2>1 DEF SlRight, SlotsServe
    <3> QED BY <1>2, <1>3, <1>4, <3>1, <3>2
  <2> QED BY <1>1, <2>1 DEF SlotsServe
<1>9. PcbsNumbered'
  BY <1>2 DEF SlRight, PcbsNumbered
<1>10. KexServed'
  <2> SUFFICES ASSUME kexRun # NoKex, ~slHist.taken, slots[kexRun.slot].pcb # 0
               PROVE  ServesNext(slots[kexRun.slot], kexRun.gen)
    BY <1>1 DEF KexServed, Serves, ServesNext, NoKex
  <2> DEFINE k == kexRun.slot
  <2>1. k \in 1 .. SlSlots
    BY <1>0 DEF SlTypes
  <2>2. Serves(slots[k], kexRun.gen) /\ slots[k].pcb \in 1 .. SlPcbs
    BY <1>0, <1>5, <2>1 DEF SlRight, KexServed
  <2> QED BY <1>2, <2>2 DEF Serves, ServesNext
<1>11. RepliesReachAsker'
  BY <1>1 DEF SlRight, RepliesReachAsker
<1> QED BY <1>6, <1>7, <1>8, <1>9, <1>10, <1>11 DEF SlRight

(* The ACK that completes a handshake: the connection gets a slot, or is     *)
(* closed.                                                                   *)
LEMMA NewConnectionKeeps ==
  ASSUME SlRight, NEW p \in 1 .. SlPcbs, NEW mem \in BOOLEAN, ssh_handle_new_connection(p, mem)
  PROVE  SlRight'
<1>0. SlTypes /\ SlSlots \in Nat /\ SlPcbs \in Nat
  BY SlAssumption DEF SlRight
<1> DEFINE st == IF \/ Holding(slots, p) # {}
                    \/ mem /\ \E s \in DOMAIN slots : slots[s].pcb = 0 \/ pcbs[slots[s].pcb].st = "closed"
                 THEN "est" ELSE "lastack"
           r == ssh_find_connection(slots, p, mem)
<1>1. /\ pcbs[p].st = "syn" /\ pcbs' = [pcbs EXCEPT ![p].st = st]
      /\ kexRun' = kexRun /\ slots' = r[2]
      /\ slHist' = [slHist EXCEPT !.taken = @ \/ Takes(slots, r[1])]
  BY DEF ssh_handle_new_connection
<1>2. FoundFor(r[1], r[2], p, mem)
  BY <1>0, Found
<1>3. st \in {"est", "lastack"}
  OBVIOUS
<1>4. st = "est" => r[1] # 0
  <2> SUFFICES ASSUME st = "est", r[1] = 0 PROVE FALSE
    OBVIOUS
  <2>1. \A s \in 1 .. SlSlots : ReapedSlot(s).pcb # p /\ (mem => ReapedSlot(s).pcb # 0)
    BY <1>2 DEF FoundFor
  <2>2. \A s \in 1 .. SlSlots : slots[s].pcb # p
    <3>1. pcbs'[p].st # "closed"
      BY <1>0, <1>1, <1>3 DEF SlTypes, PcbType
    <3> QED BY <2>1, <3>1 DEF ReapedSlot
  <2>3. Holding(slots, p) = {}
    BY <1>0, <2>2 DEF Holding, SlTypes
  <2>4. PICK s \in 1 .. SlSlots : slots[s].pcb = 0 \/ pcbs[slots[s].pcb].st = "closed"
    BY <1>0, <2>3 DEF SlTypes
  <2>5. mem
    BY <2>3
  <2>6. ReapedSlot(s).pcb # 0
    BY <2>1, <2>5
  <2>7. slots[s].pcb \in 0 .. SlPcbs
    BY <1>0 DEF SlTypes, SlotType
  <2>8. slots[s].pcb # 0
    BY <2>6 DEF ReapedSlot
  <2>9. pcbs[slots[s].pcb].st = "closed" /\ slots[s].pcb \in 1 .. SlPcbs /\ slots[s].pcb # p
    BY <1>0, <1>1, <2>4, <2>7, <2>8
  <2>10. pcbs'[slots[s].pcb].st = "closed"
    BY <1>0, <1>1, <2>9 DEF SlTypes
  <2> QED BY <2>6, <2>8, <2>10 DEF ReapedSlot, EmptySlot
<1> HIDE DEF st, r
<1>5. /\ pcbs' \in [1 .. SlPcbs -> PcbType] /\ pcbs'[p].st = st /\ pcbs'[p].gen = pcbs[p].gen
      /\ \A q \in 1 .. SlPcbs : q # p => pcbs'[q] = pcbs[q]
  BY <1>0, <1>1, <1>3 DEF SlTypes, PcbType
<1>6. Finds(p, mem, st, r[1], r[2])
  BY <1>1, <1>2, <1>3, <1>4, <1>5 DEF Finds, FoundFor
<1> QED BY <1>6, FindsKeep

(* A message of an established connection: its slot is found; what it makes  *)
(* of the session leaves the slot's pcb alone.                               *)
LEMMA MessageKeeps ==
  ASSUME SlRight, NEW p \in 1 .. SlPcbs, NEW what \in {"auth", "quit", "other"},
         Message(p, what, TRUE)
  PROVE  SlRight'
<1>0. SlTypes /\ SlSlots \in Nat /\ SlPcbs \in Nat
  BY SlAssumption DEF SlRight
<1> DEFINE st == IF what = "quit" THEN "lastack" ELSE "est"
           r == ssh_find_connection(slots, p, TRUE)
<1>1. /\ pcbs[p].st = "est" /\ st \in {"est", "lastack"}
      /\ pcbs' = IF what = "quit" THEN [pcbs EXCEPT ![p].st = "lastack"] ELSE pcbs
      /\ r[1] # 0 /\ ~r[2][r[1]].computing
      /\ slots' = IF what = "auth" THEN [r[2] EXCEPT ![r[1]].auth = TRUE] ELSE r[2]
      /\ slHist' = [slHist EXCEPT !.taken = @ \/ Takes(slots, r[1])]
      /\ kexRun' = kexRun
  BY DEF Message
<1>2. FoundFor(r[1], r[2], p, TRUE)
  BY <1>0, Found
<1>3. /\ pcbs' \in [1 .. SlPcbs -> PcbType] /\ pcbs'[p].st = st /\ pcbs'[p].gen = pcbs[p].gen
      /\ \A q \in 1 .. SlPcbs : q # p => pcbs'[q] = pcbs[q]
  <2>1. CASE what = "quit"
    BY <1>0, <1>1, <2>1 DEF SlTypes, PcbType
  <2>2. CASE what # "quit"
    BY <1>0, <1>1, <2>2 DEF SlTypes
  <2> QED BY <2>1, <2>2
<1> HIDE DEF st, r
<1>4. r[2] \in [1 .. SlSlots -> SlotType]
  BY <1>2 DEF FoundFor
<1>5. /\ slots' \in [1 .. SlSlots -> SlotType]
      /\ \A s \in 1 .. SlSlots :
           /\ slots'[s].pcb = r[2][s].pcb /\ slots'[s].bufs = r[2][s].bufs
           /\ slots'[s].computing = r[2][s].computing /\ slots'[s].closing = r[2][s].closing
  <2>1. CASE what = "auth"
    BY <1>1, <1>4, <2>1 DEF SlotType
  <2>2. CASE what # "auth"
    BY <1>1, <1>4, <2>2
  <2> QED BY <2>1, <2>2
<1>6. Finds(p, TRUE, st, r[1], r[2])
  BY <1>1, <1>2, <1>3, <1>5 DEF Finds
<1> QED BY <1>6, FindsKeep

(* A key exchange starts on the slot of the pcb it was asked over.           *)
LEMMA KexStartKeeps ==
  ASSUME SlRight, NEW p \in 1 .. SlPcbs, NEW bad \in BOOLEAN, KexStarts(p, bad)
  PROVE  SlRight'
<1>0. SlTypes /\ SlSlots \in Nat /\ SlPcbs \in Nat
  BY SlAssumption DEF SlRight
<1>1. /\ kexRun = NoKex /\ pcbs[p].st = "est" /\ Holding(slots, p) # {}
      /\ pcbs' = pcbs /\ slHist' = slHist
  BY DEF KexStarts
<1>2. LowestSlot(Holding(slots, p)) \in Holding(slots, p)
  BY <1>0, <1>1, Lowest DEF Holding, SlTypes
<1>3. PICK k : k = LowestSlot(Holding(slots, p)) /\ k \in 1 .. SlSlots /\ slots[k].pcb = p
  BY <1>0, <1>2 DEF Holding, SlTypes
<1>4. /\ slots' = [slots EXCEPT ![k].computing = TRUE]
      /\ kexRun' = IF bad THEN NoKex ELSE [slot |-> k, gen |-> pcbs[p].gen]
  BY <1>3 DEF KexStarts
<1>5. /\ slots' \in [1 .. SlSlots -> SlotType] /\ slots'[k].computing
      /\ \A s \in 1 .. SlSlots : /\ slots'[s].pcb = slots[s].pcb /\ slots'[s].bufs = slots[s].bufs
                                 /\ slots'[s].closing = slots[s].closing
  BY <1>0, <1>3, <1>4 DEF SlTypes, SlotType
<1>6. SlTypes'
  BY <1>0, <1>1, <1>3, <1>4, <1>5 DEF SlTypes, PcbType, NoKex
<1>7. SlotsDiffer' /\ EstablishedHeld' /\ SlotsServe' /\ PcbsNumbered' /\ RepliesReachAsker'
  BY <1>1, <1>5
     DEF SlRight, SlotsDiffer, EstablishedHeld, SlotsServe, PcbsNumbered, RepliesReachAsker
<1>8. KexServed'
  BY <1>1, <1>3, <1>4, <1>5 DEF KexServed, Serves, NoKex
<1> QED BY <1>6, <1>7, <1>8 DEF SlRight

(* A key exchange ends: on a slot that was let go it is dropped, else its    *)
(* reply goes to the connection the slot names.                              *)
LEMMA KexEndKeeps ==
  ASSUME SlRight, KexEnds
  PROVE  SlRight'
<1>0. SlTypes /\ SlSlots \in Nat /\ SlPcbs \in Nat
  BY SlAssumption DEF SlRight
<1> DEFINE k == kexRun.slot
           c == slots[k]
<1>1. /\ kexRun # NoKex /\ k \in 1 .. SlSlots
      /\ kexRun' = NoKex /\ pcbs' = pcbs
  BY <1>0 DEF KexEnds, SlTypes
<1>2. CASE Aborts(c)
  <2>1. slots' = [slots EXCEPT ![k] = EmptySlot] /\ slHist' = slHist
    BY <1>2 DEF KexEnds, Destroyed
  <2>2. /\ slots' \in [1 .. SlSlots -> SlotType] /\ slots'[k].pcb = 0
        /\ \A s \in 1 .. SlSlots : s # k => slots'[s] = slots[s]
    BY <1>0, <1>1, <2>1 DEF SlTypes, SlotType, EmptySlot
  <2>3. SlTypes' /\ PcbsNumbered' /\ RepliesReachAsker' /\ KexServed'
    BY <1>0, <1>1, <2>1, <2>2
       DEF SlRight, SlTypes, NoKex, PcbsNumbered, RepliesReachAsker, KexServed
  <2>4. SlotsDiffer' /\ SlotsServe'
    BY <1>1, <2>1, <2>2 DEF SlRight, SlotsDiffer, SlotsServe
  <2>5. EstablishedHeld'
    <3>1. ASSUME NEW q \in 1 .. SlPcbs, pcbs[q].st = "est"
          PROVE  \E s \in 1 .. SlSlots : slots'[s].pcb = q
      <4>1. PICK s \in 1 .. SlSlots : slots[s].pcb = q
        BY <3>1 DEF SlRight, EstablishedHeld
      <4>2. s # k \/ slots[k].pcb = q
        BY <4>1
      <4>3. CASE s # k
        BY <2>2, <4>1, <4>3
      <4>4. CASE s = k
        <5>1. q # 0 /\ slots[k].pcb = q
          BY <1>0, <4>1, <4>4
        <5> QED BY <1>1, <1>2, <5>1 DEF Aborts, SlRight, SlotsServe
      <4> QED BY <4>3, <4>4
    <3> QED BY <1>1, <3>1 DEF EstablishedHeld
  <2> QED BY <2>3, <2>4, <2>5 DEF SlRight
<1>3. CASE ~Aborts(c)
  <2>1. /\ slots' = [slots EXCEPT ![k].computing = FALSE]
        /\ slHist' = [slHist EXCEPT !.replies = @ \cup
             {[asked |-> kexRun.gen, to |-> IF c.pcb = 0 THEN 0 ELSE pcbs[c.pcb].gen]}]
    BY <1>3 DEF KexEnds
  <2>2. c.pcb # 0
    BY <1>3 DEF Aborts
  <2>3. /\ slots' \in [1 .. SlSlots -> SlotType]
        /\ \A s \in 1 .. SlSlots : /\ slots'[s].pcb = slots[s].pcb /\ slots'[s].bufs = slots[s].bufs
                                 /\ slots'[s].closing = slots[s].closing
    BY <1>0, <1>1, <2>1 DEF SlTypes, SlotType
  <2>4. /\ slHist'.made = slHist.made /\ slHist'.silent = slHist.silent
        /\ slHist'.taken = slHist.taken
        /\ slHist'.replies =
             slHist.replies \cup {[asked |-> kexRun.gen, to |-> pcbs[c.pcb].gen]}
    BY <2>1, <2>2
  <2>5. SlTypes' /\ KexServed'
    BY <1>0, <1>1, <2>3, <2>4 DEF SlTypes, NoKex, KexServed
  <2>6. SlotsDiffer' /\ EstablishedHeld' /\ SlotsServe' /\ PcbsNumbered'
    BY <1>1, <2>3, <2>4 DEF SlRight, SlotsDiffer, EstablishedHeld, SlotsServe, PcbsNumbered
  <2>7. pcbs[c.pcb].gen # 0 /\ (kexRun.gen = pcbs[c.pcb].gen \/ slHist.taken)
    BY <1>1, <2>2 DEF SlRight, SlotsServe, KexServed, Serves
  <2>8. RepliesReachAsker'
    BY <2>4, <2>7 DEF SlRight, RepliesReachAsker
  <2> QED BY <2>5, <2>6, <2>8 DEF SlRight
<1> QED BY <1>2, <1>3

(* sshd_stop lets every established connection go with its slot.             *)
LEMMA StopKeeps ==
  ASSUME SlRight, sshd_stop
  PROVE  SlRight'
<1>0. SlTypes /\ SlSlots \in Nat /\ SlPcbs \in Nat
  BY SlAssumption DEF SlRight
<1>1. kexRun = NoKex /\ kexRun' = kexRun /\ slHist' = slHist
  BY DEF sshd_stop
<1>2. /\ slots' \in [1 .. SlSlots -> SlotType]
      /\ \A s \in 1 .. SlSlots : slots'[s].pcb = 0
  BY <1>0 DEF sshd_stop, SlTypes, SlotType, EmptySlot
<1>3. \A q \in 1 .. SlPcbs : pcbs[q].st = "est" => Holding(slots, q) # {}
  BY <1>0 DEF SlRight, EstablishedHeld, Holding, SlTypes
<1> DEFINE Let(q) == IF pcbs[q].st = "est" THEN [pcbs[q] EXCEPT !.st = "lastack"] ELSE pcbs[q]
<1>4. pcbs' = [q \in 1 .. SlPcbs |-> Let(q)]
  BY <1>0, <1>3 DEF sshd_stop, SlTypes
<1>5. \A q \in 1 .. SlPcbs :
        /\ Let(q) \in PcbType /\ Let(q).gen = pcbs[q].gen /\ Let(q).st # "est"
        /\ pcbs[q].st = "closed" => Let(q).st = "closed"
  BY <1>0 DEF SlTypes, PcbType
<1> HIDE DEF Let
<1>6. pcbs' \in [1 .. SlPcbs -> PcbType]
  BY <1>4, <1>5
<1>7. SlTypes'
  BY <1>0, <1>1, <1>2, <1>6 DEF SlTypes, NoKex
<1>8. SlotsDiffer' /\ EstablishedHeld' /\ SlotsServe' /\ KexServed' /\ RepliesReachAsker'
  BY <1>1, <1>2, <1>4, <1>5
     DEF SlRight, SlotsDiffer, EstablishedHeld, SlotsServe, KexServed, RepliesReachAsker, NoKex
<1>9. PcbsNumbered'
  BY <1>4, <1>5 DEF SlRight, PcbsNumbered
<1> QED BY <1>7, <1>8, <1>9 DEF SlRight

(* Every step of the slots keeps the invariant.                              *)
LEMMA SlKept ==
  ASSUME SlRight, [SlNext]_slVars
  PROVE  SlRight'
<1>1. ASSUME NEW p \in 1 .. SlPcbs,
             \/ Syn(p) \/ Fin(p) \/ Rst(p) \/ LastAck(p) \/ SilentlyClosed(p)
             \/ \E mem \in BOOLEAN : ssh_handle_new_connection(p, mem)
             \/ \E what \in {"auth", "quit", "other"} : Message(p, what, TRUE)
             \/ \E bad \in BOOLEAN : KexStarts(p, bad)
      PROVE  SlRight'
  <2>1. CASE Syn(p) \/ SilentlyClosed(p)
    BY <2>1, PcbKeeps
  <2>2. CASE Fin(p) \/ Rst(p) \/ LastAck(p)
    <3>1. \E st \in {"lastack", "closed"} : SlCloses(p, st)
      BY <2>2 DEF Fin, Rst, LastAck
    <3>2. pcbs[p].st # "closed"
      BY <2>2 DEF Fin, Rst, LastAck
    <3> QED BY <3>1, <3>2, CloseKeeps
  <2> QED BY <1>1, <2>1, <2>2, NewConnectionKeeps, MessageKeeps, KexStartKeeps
<1>2. CASE sshd_start \/ UNCHANGED slVars
  <2>1. UNCHANGED <<slots, pcbs, kexRun, slHist>>
    BY <1>2 DEF sshd_start, slVars
  <2> QED BY <2>1 DEF SlRight, SlTypes, SlotsDiffer, EstablishedHeld, SlotsServe, PcbsNumbered,
             KexServed, Serves, RepliesReachAsker
<1> QED BY <1>1, <1>2, KexEndKeeps, StopKeeps DEF SlNext

(* The invariant shows the properties.                                       *)
LEMMA SlShown == SlRight => SlTypeOK /\ SlotPerPcb /\ SlotsMatch /\ RepliesReachAsker
BY DEF SlRight, SlTypes, SlotType, PcbType, SlotsDiffer, EstablishedHeld, SlotsServe,
       SlTypeOK, SlotPerPcb, SlotsMatch, Holding
-----------------------------------------------------------------------------
(* Tcp64: while the machine fetches, the control block is that of its own    *)
(* connection, and what it has read is the page up to the next sequence      *)
(* number; while a client of the web server is connected, the same holds of  *)
(* the request and that client, if requests fit in srv_req: what does not    *)
(* fit is passed over.                                                       *)
Pieces == ({"page"} \cup T64Clients) \X Nat
Kinds64 == {"none", "SYN", "SYNACK", "request", "answer", "FIN"}
Segs64 == {"SYN", "SYNACK", "request", "answer", "FIN"}
TcbType ==
  [state : {"CLOSED", "SYN_SENT", "ESTABLISHED", "DONE", "LISTEN", "SYN_RCVD"},
   peer : {"none", "remote"} \cup T64Clients, lport : Nat, n : 0 .. T64Conns,
   seq : Nat, una : Nat, rcv : Nat, rx : Seq(Pieces), fin : BOOLEAN,
   last : [kind : Kinds64, seq : Nat], tries : Nat]
GoneType == [peer : {"none", "remote"} \cup T64Clients, segs : SUBSET Kinds64]
T64Types ==
  /\ tcb \in TcbType /\ Len(tcb.rx) <= T64RxCap /\ tcb.tries <= T64Retries
  /\ web64 \in [on : BOOLEAN, req : Seq(Pieces)] /\ Len(web64.req) <= T64SrvCap
  /\ fetch \in {"none", "connect", "send", "recv"} /\ handling \in BOOLEAN
  /\ gone \in [Conns64 -> GoneType]
  /\ hist64 \in [short : BOOLEAN, early : BOOLEAN, sent : {"none", "ok", "failed"}]
ConnsNumbered ==
  /\ \A m, n \in Conns64 : m < n /\ gone[n] # NoConn64 => gone[m] # NoConn64
  /\ \A m \in Conns64 : gone[m] # NoConn64 => gone[m].peer # "none"
  /\ tcb.n # 0 => gone[tcb.n].peer # "none"

(* rd is s as far as rcv tells.                                              *)
ReadTo(rd, s, rcv) == \E k \in 0 .. Len(s) : rd = SubSeq(s, 1, k) /\ rcv = PeerIsn + 1 + k
OwnConn ==
  /\ tcb.peer = "remote" /\ tcb.lport = tcb.n /\ tcb.n \in Conns64
  /\ gone[tcb.n].peer = "remote"
  /\ tcb.state \in {"CLOSED", "SYN_SENT", "ESTABLISHED", "DONE"}
Connecting ==
  /\ "request" \notin gone[tcb.n].segs /\ tcb.una \in {Isn(tcb.n), Isn(tcb.n) + 1}
  /\ tcb.last = Unsent \/ tcb.last.kind = "SYN"
  /\ tcb.state = "SYN_SENT" => tcb.seq = Isn(tcb.n) /\ tcb.rx = <<>> /\ ~tcb.fin
  /\ tcb.state \in {"ESTABLISHED", "DONE"} => tcb.seq = Isn(tcb.n) + 1
Requesting ==
  /\ tcb.state # "SYN_SENT" /\ tcb.seq = Isn(tcb.n) + 2 /\ tcb.una <= tcb.seq
  /\ tcb.last = Unsent \/ fetch = "recv" => tcb.una = tcb.seq \/ hist64.early
PageRead ==
  ~hist64.short =>
    /\ tcb.fin => tcb.rx = Page
    /\ tcb.state = "ESTABLISHED" => ~tcb.fin /\ ReadTo(tcb.rx, Page, tcb.rcv)
    /\ tcb.state = "DONE" => tcb.fin /\ tcb.rcv = PeerIsn + T64Page + 2
    /\ \E k \in 0 .. T64Page : tcb.rx = SubSeq(Page, 1, k)
Fetching ==
  fetch # "none" =>
    /\ OwnConn /\ PageRead
    /\ fetch = "connect" => Connecting
    /\ fetch # "connect" => Requesting
Serving ==
  /\ handling \/ tcb.state \in {"LISTEN", "SYN_RCVD"} => web64.on
  /\ tcb.state \in {"LISTEN", "SYN_RCVD"} => fetch = "none"
  /\ tcb.state = "SYN_RCVD" =>
       tcb.peer \in T64Clients /\ web64.req = <<>> /\ tcb.rcv = PeerIsn + 1
  /\ tcb.state = "ESTABLISHED" /\ tcb.peer \in T64Clients =>
       web64.on /\ (T64Request <= T64SrvCap => ReadTo(web64.req, RequestOf(tcb.peer), tcb.rcv))
T64Right == T64Types /\ ConnsNumbered /\ Fetching /\ Serving

(* The connection opened next is a new one.                                  *)
LEMMA NewConnFresh ==
  ASSUME T64Right
  PROVE  /\ NewConn \in Nat \ {0}
         /\ \A m \in Conns64 : gone[m] # NoConn64 <=> m < NewConn
<1> DEFINE S == {n \in Conns64 : gone[n] # NoConn64}
           c == Cardinality(S)
<1>1. IsFiniteSet(Conns64) /\ IsFiniteSet(S)
  <2>1. IsFiniteSet(Conns64)
    BY T64Assumption, FS_Interval DEF Conns64
  <2>2. S \subseteq Conns64
    OBVIOUS
  <2> QED BY <2>1, <2>2, FS_Subset
<1>2. c \in Nat
  BY <1>1, FS_CardinalityType
<1>3. ASSUME NEW m \in Conns64, m < c + 1 PROVE m \in S
  <2> SUFFICES ASSUME m \notin S PROVE FALSE
    OBVIOUS
  <2>0. m \in Nat /\ m >= 1
    BY T64Assumption DEF Conns64
  <2>1. S \subseteq 1 .. (m - 1)
    BY <2>0, T64Assumption DEF T64Right, ConnsNumbered, Conns64
  <2>2. IsFiniteSet(1 .. (m - 1)) /\ Cardinality(1 .. (m - 1)) = m - 1
    BY <2>0, FS_Interval
  <2>3. c <= m - 1
    BY <2>1, <2>2, FS_Subset
  <2> QED BY <1>2, <1>3, <2>0, <2>3
<1>4. ASSUME NEW m \in S PROVE m < c + 1
  <2>0. m \in Nat /\ m >= 1
    BY T64Assumption DEF Conns64
  <2>1. 1 .. m \subseteq S
    BY <2>0, T64Assumption DEF T64Right, ConnsNumbered, Conns64
  <2>2. Cardinality(1 .. m) = m
    BY <2>0, FS_Interval
  <2>3. m <= c
    BY <1>1, <2>1, <2>2, FS_Subset
  <2> QED BY <1>2, <2>0, <2>3
<1> QED BY <1>2, <1>3, <1>4 DEF NewConn

(* A segment leaves, of a connection there is.                               *)
LEMMA SentRight ==
  ASSUME NEW o \in [Conns64 -> GoneType], NEW b, b.n \in Nat, NEW kind \in Kinds64
  PROVE  /\ Sent(o, b, kind) \in [Conns64 -> GoneType]
         /\ \A m \in Conns64 :
              /\ Sent(o, b, kind)[m].peer = o[m].peer
              /\ m # b.n => Sent(o, b, kind)[m] = o[m]
              /\ Sent(o, b, kind)[m].segs \subseteq o[m].segs \cup {kind}
BY DEF Sent, GoneType

(* A connection is added to what has left, the control block is of it; or    *)
(* neither changes in that respect.                                          *)
LEMMA NumberedKept ==
  ASSUME T64Right, NewConn \in Conns64, gone' \in [Conns64 -> GoneType],
         \A m \in Conns64 \ {NewConn} : gone'[m] = gone[m],
         gone'[NewConn].peer # "none", tcb'.n = NewConn
  PROVE  ConnsNumbered'
<1>1. \A m \in Conns64 : m \in Nat
  BY T64Assumption DEF Conns64
<1>2. gone'[NewConn] # NoConn64
  BY DEF NoConn64
<1>3. \A m \in Conns64 : gone'[m] # NoConn64 <=> m <= NewConn
  BY <1>1, <1>2, NewConnFresh
<1>4. \A m \in Conns64 : gone'[m] # NoConn64 => gone'[m].peer # "none"
  BY DEF T64Right, ConnsNumbered
<1> QED BY <1>1, <1>3, <1>4 DEF ConnsNumbered

(* Segments leave, of connections there are.                                 *)
LEMMA NumberedSame ==
  ASSUME T64Right, gone' \in [Conns64 -> GoneType],
         \A m \in Conns64 : gone'[m].peer = gone[m].peer /\ (m # tcb.n => gone'[m] = gone[m]),
         tcb'.n = tcb.n
  PROVE  ConnsNumbered'
<1>1. tcb.n \in 0 .. T64Conns /\ T64Conns \in Nat
  BY T64Assumption DEF T64Right, T64Types, TcbType
<1>2. \A m \in Conns64 : gone'[m] # NoConn64 <=> gone[m] # NoConn64
  <2>1. ASSUME NEW m \in Conns64, m = tcb.n PROVE gone'[m] # NoConn64 /\ gone[m] # NoConn64
    <3>1. gone[m].peer # "none" /\ gone'[m].peer # "none"
      BY <1>1, <2>1 DEF T64Right, ConnsNumbered, Conns64
    <3> QED BY <3>1 DEF NoConn64
  <2> QED BY <2>1
<1>3. tcb.n # 0 => tcb.n \in Conns64
  BY <1>1 DEF Conns64
<1> QED BY <1>2, <1>3 DEF T64Right, ConnsNumbered

(* What can arrive: of the peer that is fetched from, for the connection the *)
(* port names, an answer to the SYN or a piece of the page; of a client, a   *)
(* SYN, an RST or a piece of its request.                                    *)
PieceOf(g, s) ==
  /\ "ACK" \in g.fl /\ "SYN" \notin g.fl /\ "RST" \notin g.fl
  /\ \E i \in 1 .. Len(s) + 1, j \in 0 .. Len(s) :
        /\ i - 1 <= j /\ g.seq = PeerIsn + i /\ g.data = SubSeq(s, i, j)
        /\ "FIN" \in g.fl => j = Len(s)
SynAnswer(g, n) ==
  /\ g.data = <<>> /\ "FIN" \notin g.fl /\ g.ack = Isn(n) + 1 /\ g.seq \in Nat
  /\ g.fl = {"SYN", "ACK"} => g.seq = PeerIsn
OfRemote(g) ==
  /\ g.from = "remote" /\ g.dport \in Conns64 /\ gone[g.dport].peer = "remote" /\ g.fl # {"SYN"}
  /\ \/ SynAnswer(g, g.dport)
     \/ "request" \in gone[g.dport].segs /\ g.ack = Isn(g.dport) + 2 /\ PieceOf(g, Page)
OfClient(g) ==
  /\ g.from \in T64Clients /\ g.dport = 80
  /\ g.ack \in Nat /\ g.seq \in Nat
  /\ \/ g.data = <<>> /\ "FIN" \notin g.fl /\ g.fl # {"SYN", "ACK"} /\ (g.fl = {"SYN"} => g.seq = PeerIsn)
     \/ PieceOf(g, RequestOf(g.from))

(* The streams the peers send are sequences of pieces.                       *)
LEMMA StreamsTyped ==
  /\ Page \in Seq(Pieces) /\ Len(Page) = T64Page
  /\ \A c \in T64Clients : RequestOf(c) \in Seq(Pieces) /\ Len(RequestOf(c)) = T64Request
<1>1. T64Page \in Nat /\ T64Request \in Nat
  BY T64Assumption
<1>2. Page \in [1 .. T64Page -> Pieces]
  BY <1>1 DEF Page, Pieces
<1>3. \A c \in T64Clients : RequestOf(c) \in [1 .. T64Request -> Pieces]
  BY <1>1 DEF RequestOf, Pieces
<1> QED BY <1>1, <1>2, <1>3

(* A segment of a stream carries a piece of it.                              *)
LEMMA Streamed ==
  ASSUME NEW from, NEW port, NEW s \in Seq(Pieces), NEW ack,
         NEW g \in Stream(from, port, s, ack)
  PROVE  g.from = from /\ g.dport = port /\ g.ack = ack /\ PieceOf(g, s) /\ g.fl # {"SYN"}
<1>1. Len(s) \in Nat
  OBVIOUS
<1>2. CASE g = Seg(from, port, {"ACK"}, PeerIsn + 1, ack, <<>>)
  <2>1. /\ g.from = from /\ g.dport = port /\ g.ack = ack /\ g.fl = {"ACK"}
        /\ g.seq = PeerIsn + 1 /\ g.data = <<>>
    BY <1>2 DEF Seg
  <2>2. SubSeq(s, 1, 0) = <<>>
    OBVIOUS
  <2>3. 1 \in 1 .. Len(s) + 1 /\ 0 \in 0 .. Len(s) /\ 1 - 1 <= 0
    BY <1>1
  <2>4. "ACK" \in g.fl /\ "SYN" \notin g.fl /\ "RST" \notin g.fl /\ "FIN" \notin g.fl /\ g.fl # {"SYN"}
    BY <2>1
  <2>5. PieceOf(g, s)
    BY <2>1, <2>2, <2>3, <2>4 DEF PieceOf
  <2> QED BY <2>1, <2>4, <2>5
<1>3. CASE \E i \in 1 .. Len(s) + 1, j \in 0 .. Len(s) : i - 1 <= j /\ g \in Piece(from, port, s, ack, i, j)
  <2>1. PICK i \in 1 .. Len(s) + 1, j \in 0 .. Len(s) : i - 1 <= j /\ g \in Piece(from, port, s, ack, i, j)
    BY <1>3
  <2>2. PICK f \in {{}, {"FIN"}} :
             /\ j = Len(s) \/ f = {}
             /\ g = Seg(from, port, {"ACK"} \cup f, PeerIsn + i, ack, SubSeq(s, i, j))
    BY <2>1 DEF Piece
  <2>3. /\ g.from = from /\ g.dport = port /\ g.ack = ack /\ g.fl = {"ACK"} \cup f
        /\ g.seq = PeerIsn + i /\ g.data = SubSeq(s, i, j)
    BY <2>2 DEF Seg
  <2>4. "FIN" \in g.fl => j = Len(s)
    BY <2>2, <2>3
  <2>5. "ACK" \in g.fl /\ "SYN" \notin g.fl /\ "RST" \notin g.fl /\ g.fl # {"SYN"}
    BY <2>2, <2>3
  <2>6. PieceOf(g, s)
    BY <2>1, <2>3, <2>4, <2>5 DEF PieceOf
  <2> QED BY <2>3, <2>5, <2>6
<1>4. \/ g = Seg(from, port, {"ACK"}, PeerIsn + 1, ack, <<>>)
      \/ \E i \in 1 .. Len(s) + 1 : \E j \in i - 1 .. Len(s) : g \in Piece(from, port, s, ack, i, j)
  BY DEF Stream
<1>5. \A i \in 1 .. Len(s) + 1 : \A j \in i - 1 .. Len(s) : j \in 0 .. Len(s) /\ i - 1 <= j
  BY <1>1
<1> QED BY <1>2, <1>3, <1>4, <1>5

(* Whatever arrives is of one of the two kinds.                              *)
LEMMA Arrivals ==
  ASSUME T64Right, NEW g \in Arriving
  PROVE  OfRemote(g) \/ OfClient(g)
<1>0. /\ gone \in [Conns64 -> GoneType] /\ {"none", "remote"} \cap T64Clients = {}
      /\ T64Page \in Nat /\ T64Request \in Nat /\ T64Conns \in Nat
  BY T64Assumption DEF T64Right, T64Types
<1>1. CASE \E c \in T64Clients : g = Seg(c, 80, {"SYN"}, PeerIsn, 0, <<>>)
  <2>1. /\ g.from \in T64Clients /\ g.dport = 80 /\ g.data = <<>> /\ g.fl = {"SYN"} /\ g.seq = PeerIsn
        /\ g.ack \in Nat /\ g.seq \in Nat
    BY <1>1 DEF Seg, PeerIsn
  <2>2. {"SYN"} # {"SYN", "ACK"} /\ "FIN" \notin {"SYN"}
    OBVIOUS
  <2>3. g.fl # {"SYN", "ACK"} /\ "FIN" \notin g.fl
    BY <2>1, <2>2
  <2> QED BY <2>1, <2>3, Zenon DEF OfClient
<1>2. ASSUME NEW n \in Conns64, g \in Inbound(n)
      PROVE  OfRemote(g) \/ OfClient(g)
  <2> DEFINE o == gone[n]
  <2>0. n \in Nat
    BY <1>0 DEF Conns64
  <2>1. CASE o.peer = "remote"
    <3>1. CASE g \in {Seg("remote", n, {"SYN", "ACK"}, PeerIsn, Isn(n) + 1, <<>>),
                     Seg("remote", n, {"RST", "ACK"}, PeerIsn, Isn(n) + 1, <<>>),
                     Seg("remote", n, {"ACK"}, PeerIsn + 1, Isn(n) + 1, <<>>)}
      <4>1. /\ g.from = "remote" /\ g.dport = n /\ g.data = <<>> /\ g.ack = Isn(n) + 1
            /\ \/ g.fl = {"SYN", "ACK"} /\ g.seq = PeerIsn
               \/ g.fl = {"RST", "ACK"} /\ g.seq = PeerIsn
               \/ g.fl = {"ACK"} /\ g.seq = PeerIsn + 1
        BY <3>1 DEF Seg
      <4>2. "FIN" \notin g.fl /\ g.seq \in Nat /\ (g.fl = {"SYN", "ACK"} => g.seq = PeerIsn)
        <5>1. PeerIsn \in Nat /\ PeerIsn + 1 \in Nat
          BY DEF PeerIsn
        <5>2. {"ACK"} # {"SYN", "ACK"}
          OBVIOUS
        <5> QED BY <4>1, <5>1, <5>2
      <4>3. g.fl # {"SYN"}
        BY <4>1
      <4> QED BY <1>2, <2>1, <4>1, <4>2, <4>3 DEF OfRemote, SynAnswer
    <3>2. CASE "request" \in o.segs /\ g \in Stream("remote", n, Page, Isn(n) + 2)
      <4>1. Page \in Seq(Pieces)
        BY <1>0, StreamsTyped
      <4>2. /\ g.from = "remote" /\ g.dport = n /\ g.ack = Isn(n) + 2
            /\ PieceOf(g, Page) /\ g.fl # {"SYN"}
        BY <1>0, <3>2, <4>1, Streamed
      <4> QED BY <1>2, <2>1, <3>2, <4>2 DEF OfRemote
    <3> QED BY <1>2, <2>1, <3>1, <3>2 DEF Inbound
  <2>2. CASE o.peer # "remote" /\ o.peer \in T64Clients /\ "SYNACK" \in o.segs
    <3>1. CASE g = Seg(o.peer, 80, {"RST"}, PeerIsn + 1, 0, <<>>)
      <4>1. g.from = o.peer /\ g.dport = 80 /\ g.data = <<>> /\ g.fl = {"RST"} /\ g.ack \in Nat /\ g.seq \in Nat
        BY <3>1 DEF Seg, PeerIsn
      <4>2. {"RST"} # {"SYN", "ACK"} /\ {"RST"} # {"SYN"} /\ "FIN" \notin {"RST"}
        OBVIOUS
      <4>3. g.fl # {"SYN", "ACK"} /\ g.fl # {"SYN"} /\ "FIN" \notin g.fl
        BY <4>1, <4>2
      <4>4. g.from \in T64Clients
        BY <2>2, <4>1
      <4> QED BY <4>1, <4>3, <4>4, Zenon DEF OfClient
    <3>2. CASE g \in Stream(o.peer, 80, RequestOf(o.peer), Isn(n) + 1)
      <4> DEFINE R == RequestOf(o.peer)
      <4>1. R \in Seq(Pieces)
        BY <2>2, StreamsTyped
      <4>2. g.from = o.peer /\ g.dport = 80 /\ g.ack = Isn(n) + 1 /\ PieceOf(g, R)
        BY <1>0, <3>2, <4>1, Streamed
      <4>3. g.ack \in Nat /\ g.seq \in Nat
        BY <2>0, <4>2 DEF Isn, PieceOf, PeerIsn
      <4>4. PieceOf(g, RequestOf(g.from)) /\ g.from \in T64Clients
        BY <2>2, <4>2
      <4> QED BY <4>2, <4>3, <4>4 DEF OfClient
    <3> QED BY <1>2, <2>2, <3>1, <3>2 DEF Inbound
  <2> QED BY <1>2, <2>1, <2>2 DEF Inbound
<1>3. \/ \E n \in Conns64 : g \in Inbound(n)
      \/ \E c \in T64Clients : g = Seg(c, 80, {"SYN"}, PeerIsn, 0, <<>>)
  <2>1. \/ g \in UNION {Inbound(n) : n \in Conns64}
        \/ g \in {Seg(c, 80, {"SYN"}, PeerIsn, 0, <<>>) : c \in T64Clients}
    BY Zenon DEF Arriving
  <2>2. g \in UNION {Inbound(n) : n \in Conns64} => \E n \in Conns64 : g \in Inbound(n)
    OBVIOUS
  <2>3. g \in {Seg(c, 80, {"SYN"}, PeerIsn, 0, <<>>) : c \in T64Clients} =>
          \E c \in T64Clients : g = Seg(c, 80, {"SYN"}, PeerIsn, 0, <<>>)
    OBVIOUS
  <2> QED BY <2>1, <2>2, <2>3
<1> QED BY <1>1, <1>2, <1>3

(* A prefix and the piece after it are a prefix.                             *)
LEMMA Adjacent ==
  ASSUME NEW s \in Seq(Pieces), NEW k \in 0 .. Len(s), NEW j \in 0 .. Len(s), k <= j
  PROVE  SubSeq(s, 1, k) \o SubSeq(s, k + 1, j) = SubSeq(s, 1, j)
OBVIOUS

(* The segment kept for repetition has a type.                               *)
LEMMA UnsentTyped == Unsent \in [kind : Kinds64, seq : Nat]
BY DEF Unsent, Kinds64

(* So are its updates by an ACK and by data.                                 *)
LEMMA TcbTyped ==
  ASSUME NEW b \in TcbType, NEW u \in Nat, NEW r \in Seq(Pieces)
  PROVE  /\ [b EXCEPT !.una = u, !.last = Unsent, !.tries = 0] \in TcbType
         /\ [[b EXCEPT !.last = Unsent] EXCEPT !.rx = r, !.rcv = u] \in TcbType
BY UnsentTyped DEF TcbType

(* A piece that goes on where the reading has got to.                        *)
LEMMA ReadOn ==
  ASSUME NEW s \in Seq(Pieces), NEW rd, NEW rcv, NEW g, ReadTo(rd, s, rcv), PieceOf(g, s)
  PROVE  /\ rcv \in Nat /\ Len(g.data) \in Nat /\ g.seq \in Nat /\ rd \in Seq(Pieces)
         /\ g.data \in Seq(Pieces) /\ Len(rd) <= Len(s)
         /\ ("FIN" \in g.fl => g.seq + Len(g.data) = PeerIsn + Len(s) + 1)
         /\ (g.seq = rcv => /\ ReadTo(rd \o g.data, s, rcv + Len(g.data))
                            /\ Len(rd) + Len(g.data) <= Len(s))
         /\ ("FIN" \in g.fl /\ rcv = PeerIsn + Len(s) + 1 => rd = s)
<1>1. PICK k \in 0 .. Len(s) : rd = SubSeq(s, 1, k) /\ rcv = PeerIsn + 1 + k
  BY DEF ReadTo
<1>2. PICK i \in 1 .. Len(s) + 1, j \in 0 .. Len(s) :
        /\ i - 1 <= j /\ g.seq = PeerIsn + i /\ g.data = SubSeq(s, i, j)
        /\ "FIN" \in g.fl => j = Len(s)
  BY DEF PieceOf
<1>3. PeerIsn \in Nat /\ Len(s) \in Nat /\ k \in Nat /\ i \in Nat /\ j \in Nat
  BY DEF PeerIsn
<1>4. Len(g.data) = j - i + 1 /\ g.data \in Seq(Pieces) /\ Len(rd) = k /\ rd \in Seq(Pieces)
  BY <1>1, <1>2, <1>3
<1>5. ASSUME g.seq = rcv
      PROVE  /\ ReadTo(rd \o g.data, s, rcv + Len(g.data))
             /\ Len(rd) + Len(g.data) <= Len(s)
  <2>1. i = k + 1
    BY <1>1, <1>2, <1>3, <1>5
  <2>2. rd \o g.data = SubSeq(s, 1, j)
    BY <1>1, <1>2, <2>1, Adjacent
  <2>3. rcv + Len(g.data) = PeerIsn + 1 + j /\ Len(rd) + Len(g.data) = j
    BY <1>1, <1>3, <1>4, <2>1
  <2>4. ReadTo(rd \o g.data, s, rcv + Len(g.data))
    BY <2>2, <2>3 DEF ReadTo
  <2>5. Len(rd) + Len(g.data) <= Len(s)
    BY <1>3, <2>3
  <2> QED BY <2>4, <2>5
<1>6. rcv \in Nat /\ g.seq \in Nat /\ Len(g.data) \in Nat
  BY <1>1, <1>2, <1>3, <1>4
<1>7. ASSUME "FIN" \in g.fl PROVE g.seq + Len(g.data) = PeerIsn + Len(s) + 1
  BY <1>2, <1>3, <1>4, <1>7
<1>8. ASSUME rcv = PeerIsn + Len(s) + 1 PROVE rd = s
  <2>1. k = Len(s)
    BY <1>1, <1>3, <1>8
  <2> QED BY <1>1, <1>3, <2>1
<1> QED BY <1>3, <1>4, <1>5, <1>6, <1>7, <1>8

(* What is read so is a prefix.                                              *)
LEMMA ReadShown ==
  ASSUME NEW s \in Seq(Pieces), NEW rd, NEW k \in 0 .. Len(s), rd = SubSeq(s, 1, k)
  PROVE  IsPrefix(rd, s)
<1>1. rd \in Seq(Pieces) /\ Len(rd) = k /\ k <= Len(s) /\ SubSeq(rd, 1, k) = rd
  OBVIOUS
<1> QED BY <1>1 DEF IsPrefix

(* What a segment of the connection's peer makes of the control block.       *)
Acked(g) == "ACK" \in g.fl /\ g.ack > tcb.una
Takes64(g) == g.data # <<>> /\ tcb.state = "ESTABLISHED" /\ g.seq = tcb.rcv
NextRcv(g) == IF Takes64(g) THEN tcb.rcv + Len(g.data) ELSE tcb.rcv
Ends64(g) == "FIN" \in g.fl /\ (tcb.state = "ESTABLISHED" \/ g.seq + Len(g.data) = NextRcv(g))
Fitted(g) == Len(tcb.rx) + Len(g.data) <= T64RxCap
(* Received, field by field.                                                 *)
LEMMA ReceivedRight ==
  ASSUME T64Types, NEW g, Received(g), g.data \in Seq(Pieces), g.ack \in Nat, g.seq \in Nat
  PROVE  /\ tcb.state \in {"ESTABLISHED", "DONE"} /\ g.dport = tcb.lport /\ g.from = tcb.peer
         /\ tcb'.state = (IF Ends64(g) THEN "DONE" ELSE tcb.state)
         /\ tcb'.peer = tcb.peer /\ tcb'.lport = tcb.lport /\ tcb'.n = tcb.n /\ tcb'.seq = tcb.seq
         /\ tcb'.una = (IF Acked(g) THEN g.ack ELSE tcb.una)
         /\ tcb'.rx = (IF Takes64(g) /\ Fitted(g) THEN tcb.rx \o g.data ELSE tcb.rx)
         /\ tcb'.rcv = (IF Ends64(g) THEN g.seq + Len(g.data) + 1 ELSE NextRcv(g))
         /\ tcb'.fin = (Ends64(g) \/ tcb.fin)
         /\ tcb'.last = (IF Acked(g) \/ Takes64(g) \/ Ends64(g) THEN Unsent ELSE tcb.last)
         /\ tcb'.tries \in {0, tcb.tries}
         /\ tcb' \in TcbType /\ Len(tcb'.rx) <= T64RxCap /\ tcb'.tries <= T64Retries
         /\ web64' = (IF Takes64(g) /\ web64.on /\ Len(web64.req) + Len(g.data) <= T64SrvCap
                      THEN [web64 EXCEPT !.req = @ \o g.data] ELSE web64)
         /\ hist64'.short \/ ~((Takes64(g) /\ ~Fitted(g)) \/ hist64.short \/
                               (Ends64(g) /\ tcb.state = "ESTABLISHED" /\ g.seq + Len(g.data) # NextRcv(g)))
         /\ fetch = "send" /\ Acked(g) /\ g.ack < tcb.seq => hist64'.early
         /\ hist64.early => hist64'.early
         /\ hist64' \in [short : BOOLEAN, early : BOOLEAN, sent : {"none", "ok", "failed"}]
         /\ hist64'.sent = hist64.sent
         /\ UNCHANGED <<fetch, handling, gate, gone>>
<1> DEFINE a == IF "ACK" \in g.fl THEN seg_ack_from_peer(tcb, g.ack) ELSE tcb
           d == Data64(a, g)
           f == Fin64(d, g)
<1>1. /\ tcb' = f /\ tcb \in TcbType /\ g.from = tcb.peer /\ g.dport = tcb.lport
      /\ tcb.state \in {"ESTABLISHED", "DONE"}
  BY DEF Received, Mine, T64Types
<1>2. /\ a \in TcbType /\ a.tries \in {0, tcb.tries}
      /\ a.state = tcb.state /\ a.peer = tcb.peer /\ a.lport = tcb.lport /\ a.n = tcb.n
      /\ a.seq = tcb.seq /\ a.rcv = tcb.rcv /\ a.rx = tcb.rx /\ a.fin = tcb.fin
      /\ a.una = (IF Acked(g) THEN g.ack ELSE tcb.una)
      /\ a.last = (IF Acked(g) THEN Unsent ELSE tcb.last)
  <2>1. CASE Acked(g)
    <3>1. a = [tcb EXCEPT !.una = g.ack, !.last = Unsent, !.tries = 0]
      BY <2>1 DEF Acked, seg_ack_from_peer
    <3>2. a \in TcbType
      <4>1. PICK u \in Nat : u = g.ack
        OBVIOUS
      <4>2. [tcb EXCEPT !.una = u, !.last = Unsent, !.tries = 0] \in TcbType
        <5>1. tcb \in TcbType /\ <<>> \in Seq(Pieces)
          BY <1>1
        <5> QED BY <5>1, TcbTyped
      <4> HIDE DEF a
      <4> QED BY <3>1, <4>1, <4>2
    <3>3. a.una = g.ack /\ a.last = Unsent /\ a.tries = 0
      BY <1>1, <3>1 DEF TcbType
    <3>4. /\ a.state = tcb.state /\ a.peer = tcb.peer /\ a.lport = tcb.lport /\ a.n = tcb.n
          /\ a.seq = tcb.seq /\ a.rcv = tcb.rcv /\ a.rx = tcb.rx /\ a.fin = tcb.fin
      BY <1>1, <3>1 DEF TcbType
    <3> QED BY <2>1, <3>2, <3>3, <3>4
  <2>2. CASE ~Acked(g)
    <3>1. a = tcb
      BY <2>2 DEF Acked, seg_ack_from_peer
    <3> QED BY <1>1, <2>2, <3>1
  <2> QED BY <2>1, <2>2
<1>3. InOrder(a, g) = Takes64(g) /\ Fits64(a, g) = Fitted(g)
  BY <1>2 DEF InOrder, Takes64, Fits64, Fitted
<1> HIDE DEF a
<1>4. /\ d \in TcbType /\ d.tries = a.tries
      /\ d.state = a.state /\ d.peer = a.peer /\ d.lport = a.lport /\ d.n = a.n
      /\ d.seq = a.seq /\ d.rcv = NextRcv(g) /\ d.fin = a.fin /\ d.una = a.una
      /\ d.rx = (IF Takes64(g) /\ Fitted(g) THEN a.rx \o g.data ELSE a.rx)
      /\ d.last = (IF Takes64(g) THEN Unsent ELSE a.last)
  <2>1. CASE Takes64(g) /\ Fitted(g)
    <3>1. d = [[a EXCEPT !.last = Unsent] EXCEPT !.rx = @ \o g.data, !.rcv = @ + Len(g.data)]
      BY <1>3, <2>1 DEF Data64, Untracked
    <3>2. tcb.rcv + Len(g.data) \in Nat
      BY <1>1 DEF TcbType
    <3>3. d \in TcbType
      <4>1. a.rx \in Seq(Pieces) /\ a.rx \o g.data \in Seq(Pieces)
        BY <1>2 DEF TcbType
      <4>2. a.rcv = tcb.rcv
        BY <1>2
      <4>3. PICK u \in Nat : u = tcb.rcv + Len(g.data)
        BY <3>2
      <4>4. PICK r \in Seq(Pieces) : r = a.rx \o g.data
        BY <4>1
      <4>5. [[a EXCEPT !.last = Unsent] EXCEPT !.rx = r, !.rcv = u] \in TcbType
        BY <1>2, TcbTyped
      <4>6. d = [[a EXCEPT !.last = Unsent] EXCEPT !.rx = r, !.rcv = u]
        BY <3>1, <4>2, <4>3, <4>4, <1>2 DEF TcbType
      <4> HIDE DEF d
      <4> QED BY <4>5, <4>6
    <3>4. d.rx = a.rx \o g.data /\ d.rcv = tcb.rcv + Len(g.data) /\ d.last = Unsent
      BY <1>2, <3>1 DEF TcbType
    <3>5. /\ d.tries = a.tries /\ d.state = a.state /\ d.peer = a.peer /\ d.lport = a.lport
          /\ d.n = a.n /\ d.seq = a.seq /\ d.fin = a.fin /\ d.una = a.una
      BY <1>2, <3>1 DEF TcbType
    <3> QED BY <2>1, <3>3, <3>4, <3>5 DEF NextRcv
  <2>2. CASE Takes64(g) /\ ~Fitted(g)
    <3>1. d = [[a EXCEPT !.last = Unsent] EXCEPT !.rx = @, !.rcv = @ + Len(g.data)]
      BY <1>3, <2>2 DEF Data64, Untracked
    <3>2. tcb.rcv + Len(g.data) \in Nat
      BY <1>1 DEF TcbType
    <3>3. d \in TcbType
      <4>1. a.rx \in Seq(Pieces) /\ a.rx \o g.data \in Seq(Pieces)
        BY <1>2 DEF TcbType
      <4>2. a.rcv = tcb.rcv
        BY <1>2
      <4>3. PICK u \in Nat : u = tcb.rcv + Len(g.data)
        BY <3>2
      <4>4. PICK r \in Seq(Pieces) : r = a.rx
        BY <4>1
      <4>5. [[a EXCEPT !.last = Unsent] EXCEPT !.rx = r, !.rcv = u] \in TcbType
        BY <1>2, TcbTyped
      <4>6. d = [[a EXCEPT !.last = Unsent] EXCEPT !.rx = r, !.rcv = u]
        BY <3>1, <4>2, <4>3, <4>4, <1>2 DEF TcbType
      <4> HIDE DEF d
      <4> QED BY <4>5, <4>6
    <3>4. d.rx = a.rx /\ d.rcv = tcb.rcv + Len(g.data) /\ d.last = Unsent
      BY <1>2, <3>1 DEF TcbType
    <3>5. /\ d.tries = a.tries /\ d.state = a.state /\ d.peer = a.peer /\ d.lport = a.lport
          /\ d.n = a.n /\ d.seq = a.seq /\ d.fin = a.fin /\ d.una = a.una
      BY <1>2, <3>1 DEF TcbType
    <3> QED BY <2>2, <3>3, <3>4, <3>5 DEF NextRcv
  <2>3. CASE ~Takes64(g)
    <3>1. d = a
      BY <1>3, <2>3 DEF Data64
    <3> QED BY <1>2, <2>3, <3>1 DEF NextRcv
  <2> QED BY <2>1, <2>2, <2>3
<1> HIDE DEF d
<1>5. Len(g.data) \in Nat /\ NextRcv(g) \in Nat
  BY <1>1 DEF NextRcv, TcbType
<1>6. /\ f \in TcbType /\ f.tries = d.tries
      /\ f.state = (IF Ends64(g) THEN "DONE" ELSE d.state) /\ f.peer = d.peer
      /\ f.lport = d.lport /\ f.n = d.n /\ f.seq = d.seq /\ f.una = d.una /\ f.rx = d.rx
      /\ f.rcv = (IF Ends64(g) THEN g.seq + Len(g.data) + 1 ELSE d.rcv)
      /\ f.fin = (Ends64(g) \/ d.fin)
      /\ f.last = (IF Ends64(g) THEN Unsent ELSE d.last)
  <2>1. CASE Ends64(g)
    <3>1. f = [[d EXCEPT !.last = Unsent] EXCEPT !.rcv = g.seq + Len(g.data) + 1, !.fin = TRUE,
                                                 !.state = "DONE"]
      BY <1>2, <1>4, <2>1 DEF Fin64, Ends64, Untracked
    <3>2. g.seq + Len(g.data) + 1 \in Nat
      BY <1>5
    <3>3. f \in TcbType
      BY <1>4, <3>1, <3>2, UnsentTyped DEF TcbType
    <3>4. /\ f.rcv = g.seq + Len(g.data) + 1 /\ f.last = Unsent /\ f.fin = TRUE
          /\ f.state = "DONE"
      BY <1>4, <3>1 DEF TcbType
    <3>5. /\ f.tries = d.tries /\ f.peer = d.peer /\ f.lport = d.lport /\ f.n = d.n
          /\ f.seq = d.seq /\ f.una = d.una /\ f.rx = d.rx
      BY <1>4, <3>1 DEF TcbType
    <3> QED BY <2>1, <3>3, <3>4, <3>5
  <2>2. CASE ~Ends64(g)
    <3>1. f = d
      BY <1>2, <1>4, <2>2 DEF Fin64, Ends64
    <3> QED BY <1>4, <2>2, <3>1 DEF TcbType
  <2> QED BY <2>1, <2>2
<1>7. Ends64(g) /\ tcb.state = "ESTABLISHED" => Fin64(a, g) # a
  <2> SUFFICES ASSUME Ends64(g), tcb.state = "ESTABLISHED" PROVE Fin64(a, g).state # a.state
    OBVIOUS
  <2>1. Fin64(a, g) = [[a EXCEPT !.last = Unsent] EXCEPT !.rcv = g.seq + Len(g.data) + 1, !.fin = TRUE,
                                                         !.state = "DONE"]
    BY <1>2 DEF Fin64, Ends64, Untracked
  <2>2. Fin64(a, g).state = "DONE"
    BY <1>2, <2>1 DEF TcbType
  <2> QED BY <1>2, <2>2
<1>8. /\ hist64' = [hist64 EXCEPT
           !.short = @ \/ (InOrder(a, g) /\ ~Fits64(a, g))
                       \/ (Fin64(a, g) # a /\ g.seq + Len(g.data) # d.rcv),
           !.early = @ \/ (fetch = "send" /\ a.una # tcb.una /\ g.ack < tcb.seq)]
      /\ UNCHANGED <<fetch, handling, gate, gone>>
      /\ web64' = (IF InOrder(a, g) /\ web64.on /\ Len(web64.req) + Len(g.data) <= T64SrvCap
                   THEN [web64 EXCEPT !.req = @ \o g.data] ELSE web64)
  BY DEF Received, a, d
<1>9. /\ hist64' \in [short : BOOLEAN, early : BOOLEAN, sent : {"none", "ok", "failed"}]
      /\ hist64'.sent = hist64.sent
      /\ hist64'.short = (hist64.short \/ (Takes64(g) /\ ~Fitted(g))
                          \/ (Fin64(a, g) # a /\ g.seq + Len(g.data) # NextRcv(g)))
      /\ hist64'.early = (hist64.early \/ (fetch = "send" /\ a.una # tcb.una /\ g.ack < tcb.seq))
  BY <1>3, <1>4, <1>8 DEF T64Types
<1>10. Acked(g) => a.una # tcb.una
  BY <1>1, <1>2 DEF Acked, TcbType
<1>11. Len(f.rx) <= T64RxCap
  BY <1>1, <1>2, <1>4, <1>6 DEF Fitted, T64Types, TcbType
<1>12. T64Retries \in Nat
  BY T64Assumption
<1>13. f.tries \in {0, tcb.tries} /\ f.tries <= T64Retries
  BY <1>1, <1>2, <1>4, <1>6, <1>12 DEF T64Types
<1> HIDE DEF f
<1>14. /\ tcb'.state = (IF Ends64(g) THEN "DONE" ELSE tcb.state)
       /\ tcb'.peer = tcb.peer /\ tcb'.lport = tcb.lport /\ tcb'.n = tcb.n /\ tcb'.seq = tcb.seq
       /\ tcb'.una = (IF Acked(g) THEN g.ack ELSE tcb.una)
       /\ tcb'.rx = (IF Takes64(g) /\ Fitted(g) THEN tcb.rx \o g.data ELSE tcb.rx)
       /\ tcb'.rcv = (IF Ends64(g) THEN g.seq + Len(g.data) + 1 ELSE NextRcv(g))
       /\ tcb'.fin = (Ends64(g) \/ tcb.fin)
       /\ tcb'.last = (IF Acked(g) \/ Takes64(g) \/ Ends64(g) THEN Unsent ELSE tcb.last)
       /\ tcb'.tries \in {0, tcb.tries} /\ tcb'.tries <= T64Retries
       /\ tcb' \in TcbType /\ Len(tcb'.rx) <= T64RxCap
  BY <1>1, <1>2, <1>4, <1>6, <1>11, <1>13
<1> QED BY <1>1, <1>3, <1>7, <1>8, <1>9, <1>10, <1>14

(* The machine opens a connection, also in the middle of a request.          *)
LEMMA ConnectKeeps ==
  ASSUME T64Right, tcp64_connect
  PROVE  T64Right'
<1> DEFINE c == NewConn
           b == [state |-> "SYN_SENT", peer |-> "remote", lport |-> c, n |-> c,
                 seq |-> Isn(c), una |-> Isn(c), rcv |-> 0, rx |-> <<>>, fin |-> FALSE,
                 last |-> Unsent, tries |-> 0]
           o == [gone EXCEPT ![c] = [peer |-> "remote", segs |-> {}]]
<1>0. T64Types /\ c \in Conns64 /\ c \in Nat \ {0} /\ c \in 0 .. T64Conns /\ T64RxCap \in Nat
      /\ T64Retries \in Nat /\ T64Page \in Nat
  BY T64Assumption, NewConnFresh DEF tcp64_connect, T64Right, Conns64
<1>1. /\ tcb' = [b EXCEPT !.last = [kind |-> "SYN", seq |-> b.seq]]
      /\ gone' = Sent(o, b, "SYN") /\ fetch' = "connect" /\ fetch = "none"
      /\ hist64' = [short |-> FALSE, early |-> FALSE, sent |-> "none"]
      /\ web64' = web64 /\ handling' = handling
  BY Zenon DEF tcp64_connect, seg_send
<1>2. Isn(c) \in Nat /\ b.n = c /\ [kind |-> "SYN", seq |-> b.seq] \in [kind : Kinds64, seq : Nat]
  BY <1>0 DEF Isn, Kinds64
<1>3. /\ tcb'.state = "SYN_SENT" /\ tcb'.peer = "remote" /\ tcb'.lport = c /\ tcb'.n = c
      /\ tcb'.seq = Isn(c) /\ tcb'.una = Isn(c) /\ tcb'.rcv = 0 /\ tcb'.rx = <<>>
      /\ tcb'.fin = FALSE /\ tcb'.last.kind = "SYN" /\ tcb'.tries = 0
  BY <1>1
<1>4. tcb' \in TcbType
  <2>1. b \in TcbType
    <3>1. Isn(c) \in Nat /\ c \in Nat /\ c \in 0 .. T64Conns /\ <<>> \in Seq(Pieces)
      BY <1>0, <1>2
    <3> QED BY <3>1, UnsentTyped DEF TcbType
  <2> HIDE DEF b
  <2> QED BY <1>1, <1>2, <2>1 DEF TcbType
<1>5. /\ o \in [Conns64 -> GoneType] /\ o[c].peer = "remote" /\ o[c].segs = {}
      /\ \A m \in Conns64 \ {c} : o[m] = gone[m]
  BY <1>0 DEF T64Types, GoneType, Kinds64
<1> HIDE DEF o, b
<1>6. /\ gone' \in [Conns64 -> GoneType] /\ gone'[c].peer = "remote"
      /\ gone'[c].segs \subseteq {"SYN"} /\ \A m \in Conns64 \ {c} : gone'[m] = gone[m]
  <2>1. b.n \in Nat /\ "SYN" \in Kinds64
    BY <1>0, <1>2 DEF Kinds64
  <2>2. /\ gone' \in [Conns64 -> GoneType]
        /\ \A m \in Conns64 :
             /\ gone'[m].peer = o[m].peer /\ (m # c => gone'[m] = o[m])
             /\ gone'[m].segs \subseteq o[m].segs \cup {"SYN"}
    BY <1>1, <1>2, <1>5, <2>1, SentRight
  <2> QED BY <1>0, <1>5, <2>2
<1>7. T64Types'
  BY <1>0, <1>1, <1>3, <1>4, <1>6 DEF T64Types
<1>8. ConnsNumbered'
  BY <1>0, <1>3, <1>6, NumberedKept
<1>9. Serving'
  BY <1>1, <1>3, T64Assumption DEF T64Right, Serving
<1>10. PageRead'
  <2>1. SubSeq(Page, 1, 0) = <<>> /\ 0 \in 0 .. T64Page
    BY <1>0, StreamsTyped
  <2> QED BY <1>3, <2>1 DEF PageRead
<1>11. OwnConn' /\ Connecting'
  BY <1>0, <1>3, <1>6 DEF OwnConn, Connecting
<1> QED BY <1>1, <1>7, <1>8, <1>9, <1>10, <1>11 DEF T64Right, Fetching

(* The control block is left alone.                                          *)
LEMMA BlockKept ==
  ASSUME T64Right, UNCHANGED <<tcb, gone>>, T64Types',
         fetch' # "none" => Fetching',
         web64' = web64, handling' => web64.on,
         fetch' # "none" => fetch # "none"
  PROVE  T64Right'
<1>1. Serving'
  BY DEF T64Right, Serving
<1>2. ConnsNumbered'
  BY DEF T64Right, ConnsNumbered
<1> QED BY <1>1, <1>2 DEF T64Right, Fetching

(* A fetch returns: the connection is closed.                                *)
LEMMA ReturnKeeps ==
  ASSUME T64Right, FetchReturns, fetch # "none",
         hist64' \in [short : BOOLEAN, early : BOOLEAN, sent : {"none", "ok", "failed"}]
  PROVE  T64Right'
<1>0. T64Types /\ tcb \in TcbType
  BY DEF T64Right, T64Types
<1>1. /\ tcb' = [tcb EXCEPT !.seq = IF tcb.state = "ESTABLISHED" THEN @ + 1 ELSE @, !.last = Unsent,
                            !.state = "CLOSED"]
      /\ fetch' = "none" /\ UNCHANGED <<web64, handling, gate, gone>>
  BY DEF FetchReturns, tcp64_close
<1>2. PICK q \in Nat : q = IF tcb.state = "ESTABLISHED" THEN tcb.seq + 1 ELSE tcb.seq
  BY <1>0 DEF TcbType
<1>3. tcb' = [tcb EXCEPT !.seq = q, !.last = Unsent, !.state = "CLOSED"]
  BY <1>1, <1>2
<1>4. tcb' \in TcbType
  BY <1>0, <1>3, UnsentTyped DEF TcbType
<1>5. tcb'.state = "CLOSED" /\ tcb'.rx = tcb.rx /\ tcb'.tries = tcb.tries /\ tcb'.n = tcb.n
  BY <1>0, <1>3 DEF TcbType
<1>6. T64Types'
  BY <1>0, <1>1, <1>4, <1>5 DEF T64Types
<1>7. ConnsNumbered'
  BY <1>1, <1>5 DEF T64Right, ConnsNumbered
<1>8. Serving'
  BY <1>1, <1>5 DEF T64Right, Serving
<1> QED BY <1>1, <1>6, <1>7, <1>8 DEF T64Right, Fetching

(* A connect, a send or a wait for data has ended.                           *)
LEMMA ConnectEndKeeps ==
  ASSUME T64Right, ConnectEnds
  PROVE  T64Right'
<1>0. T64Types /\ tcb \in TcbType /\ fetch = "connect" /\ OwnConn /\ PageRead /\ Connecting
  BY DEF T64Right, T64Types, Fetching, ConnectEnds
<1>1. CASE tcb.state = "ESTABLISHED"
  <2> DEFINE l == [kind |-> "request", seq |-> tcb.seq]
  <2>1. /\ tcb' = [[tcb EXCEPT !.last = l] EXCEPT !.seq = @ + 1]
        /\ gone' = Sent(gone, tcb, "request") /\ fetch' = "send"
        /\ UNCHANGED <<web64, handling, gate, hist64>>
    BY <1>1 DEF ConnectEnds, seg_send
  <2>2. tcb.seq \in Nat /\ tcb.seq + 1 \in Nat /\ l \in [kind : Kinds64, seq : Nat]
    BY <1>0 DEF TcbType, Kinds64
  <2>3. tcb' \in TcbType
    <3> HIDE DEF l
    <3> QED BY <1>0, <2>1, <2>2 DEF TcbType
  <2>4. /\ tcb'.state = tcb.state /\ tcb'.peer = tcb.peer /\ tcb'.lport = tcb.lport /\ tcb'.n = tcb.n
        /\ tcb'.seq = tcb.seq + 1 /\ tcb'.una = tcb.una /\ tcb'.rcv = tcb.rcv /\ tcb'.rx = tcb.rx
        /\ tcb'.fin = tcb.fin /\ tcb'.last = l /\ tcb'.tries = tcb.tries
    <3> HIDE DEF l
    <3> QED BY <1>0, <2>1 DEF TcbType
  <2>5. /\ gone' \in [Conns64 -> GoneType]
        /\ \A m \in Conns64 : gone'[m].peer = gone[m].peer /\ (m # tcb.n => gone'[m] = gone[m])
    <3>1. tcb.n \in Nat /\ "request" \in Kinds64 /\ gone \in [Conns64 -> GoneType]
      BY <1>0, T64Assumption DEF TcbType, Kinds64, T64Types
    <3> QED BY <2>1, <3>1, SentRight
  <2>6. T64Types'
    BY <1>0, <2>1, <2>3, <2>4, <2>5 DEF T64Types
  <2>7. ConnsNumbered'
    BY <2>4, <2>5, NumberedSame
  <2>8. Serving'
    BY <1>0, <1>1, <2>1, <2>4, T64Assumption DEF T64Right, Serving, OwnConn
  <2>9. OwnConn' /\ PageRead'
    BY <1>0, <2>1, <2>4, <2>5 DEF OwnConn, PageRead
  <2>10. Requesting'
    <3>1. tcb.n \in Nat /\ Isn(tcb.n) \in Nat
      BY <1>0, T64Assumption DEF TcbType, Isn
    <3>2. tcb.seq = Isn(tcb.n) + 1 /\ tcb.una \in {Isn(tcb.n), Isn(tcb.n) + 1}
      BY <1>0, <1>1 DEF Connecting
    <3>3. l # Unsent
      BY DEF Unsent
    <3> QED BY <1>1, <2>1, <2>4, <3>1, <3>2, <3>3 DEF Requesting
  <2> QED BY <2>1, <2>6, <2>7, <2>8, <2>9, <2>10 DEF T64Right, Fetching
<1>2. CASE tcb.state # "ESTABLISHED"
  <2>1. fetch' = "none" /\ UNCHANGED <<tcb, web64, handling, gate, gone, hist64>>
    BY <1>2 DEF ConnectEnds
  <2>2. T64Types'
    BY <1>0, <2>1 DEF T64Types
  <2>3. handling => web64.on
    BY DEF T64Right, Serving
  <2> QED BY <2>1, <2>2, <2>3, BlockKept
<1> QED BY <1>1, <1>2

(* The end of the wait in tcp64_send.                                        *)
LEMMA SendEndKeeps ==
  ASSUME T64Right, SendEnds
  PROVE  T64Right'
<1>0. T64Types /\ tcb \in TcbType /\ fetch = "send" /\ OwnConn /\ PageRead /\ Requesting
  BY DEF T64Right, T64Types, Fetching, SendEnds
<1>1. /\ hist64' \in [short : BOOLEAN, early : BOOLEAN, sent : {"none", "ok", "failed"}]
      /\ hist64'.short = hist64.short /\ hist64'.early = hist64.early
  BY <1>0 DEF SendEnds, SendResult, T64Types
<1>2. CASE SendResult(tcb) = "ok"
  <2>1. fetch' = "recv" /\ UNCHANGED <<tcb, web64, handling, gate, gone>>
    BY <1>2 DEF SendEnds
  <2>2. T64Types'
    BY <1>0, <1>1, <2>1 DEF T64Types
  <2>3. handling => web64.on
    BY DEF T64Right, Serving
  <2>4. tcb.last = Unsent
    BY <1>2 DEF SendResult
  <2>5. OwnConn' /\ PageRead' /\ Requesting'
    BY <1>0, <1>1, <2>1, <2>4 DEF OwnConn, PageRead, Requesting
  <2>6. Fetching'
    BY <2>1, <2>5 DEF Fetching
  <2> QED BY <1>0, <2>1, <2>2, <2>3, <2>6, BlockKept
<1>3. CASE SendResult(tcb) # "ok"
  BY <1>0, <1>1, <1>3, ReturnKeeps DEF SendEnds
<1> QED BY <1>2, <1>3

(* The segment last sent is sent again.                                      *)
LEMMA RetransmitKeeps ==
  ASSUME T64Right, retransmit_check
  PROVE  T64Right'
<1>0. T64Types /\ tcb \in TcbType /\ fetch # "none" /\ OwnConn /\ PageRead
      /\ tcb.last # Unsent /\ tcb.tries < T64Retries /\ T64Retries \in Nat
  BY T64Assumption DEF T64Right, T64Types, Fetching, retransmit_check
<1>1. /\ tcb' = [tcb EXCEPT !.tries = @ + 1] /\ gone' = Sent(gone, tcb, tcb.last.kind)
      /\ UNCHANGED <<web64, fetch, handling, gate, hist64>>
  BY DEF retransmit_check
<1>2. /\ tcb'.state = tcb.state /\ tcb'.peer = tcb.peer /\ tcb'.lport = tcb.lport /\ tcb'.n = tcb.n
      /\ tcb'.seq = tcb.seq /\ tcb'.una = tcb.una /\ tcb'.rcv = tcb.rcv /\ tcb'.rx = tcb.rx
      /\ tcb'.fin = tcb.fin /\ tcb'.last = tcb.last /\ tcb'.tries = tcb.tries + 1
      /\ tcb' \in TcbType /\ tcb.tries \in Nat
  BY <1>0, <1>1 DEF TcbType
<1>3. PICK kind \in Kinds64 : kind = tcb.last.kind
  BY <1>0 DEF TcbType
<1>4. /\ gone' \in [Conns64 -> GoneType]
      /\ \A m \in Conns64 : /\ gone'[m].peer = gone[m].peer /\ (m # tcb.n => gone'[m] = gone[m])
                            /\ gone'[m].segs \subseteq gone[m].segs \cup {tcb.last.kind}
  <2>1. tcb.n \in Nat /\ gone \in [Conns64 -> GoneType]
    BY <1>0, T64Assumption DEF TcbType, T64Types
  <2> QED BY <1>1, <1>3, <2>1, SentRight
<1>5. T64Types'
  BY <1>0, <1>1, <1>2, <1>4 DEF T64Types
<1>6. ConnsNumbered'
  BY <1>2, <1>4, NumberedSame
<1>7. Serving'
  BY <1>1, <1>2 DEF T64Right, Serving
<1>8. OwnConn' /\ PageRead'
  BY <1>0, <1>1, <1>2, <1>4 DEF OwnConn, PageRead
<1>9. ASSUME fetch = "connect" PROVE Connecting'
  <2>1. Connecting /\ tcb.last.kind = "SYN" /\ tcb.n \in Conns64
    BY <1>0, <1>9 DEF T64Right, Fetching, Connecting, OwnConn
  <2>2. "request" \notin gone'[tcb.n].segs
    BY <1>4, <2>1 DEF Connecting
  <2> QED BY <1>2, <2>1, <2>2 DEF Connecting
<1>10. ASSUME fetch # "connect" PROVE Requesting'
  BY <1>0, <1>1, <1>2, <1>10 DEF T64Right, Fetching, Requesting
<1> QED BY <1>1, <1>5, <1>6, <1>7, <1>8, <1>9, <1>10 DEF T64Right, Fetching

(* srv_reqlen = 0 keeps the types.                                           *)
LEMMA RequestDropped ==
  ASSUME NEW w, w \in [on : BOOLEAN, req : Seq(Pieces)]
  PROVE  /\ [w EXCEPT !.req = <<>>] \in [on : BOOLEAN, req : Seq(Pieces)]
         /\ [w EXCEPT !.req = <<>>].req = <<>> /\ [w EXCEPT !.req = <<>>].on = w.on
         /\ Len([w EXCEPT !.req = <<>>].req) = 0
<1>0. <<>> \in Seq(Pieces) /\ Len(<<>>) = 0
  OBVIOUS
<1>1. PICK e \in Seq(Pieces) : e = <<>> /\ Len(e) = 0
  BY <1>0, Zenon
<1>2. /\ [w EXCEPT !.req = e] \in [on : BOOLEAN, req : Seq(Pieces)]
      /\ [w EXCEPT !.req = e].req = e /\ [w EXCEPT !.req = e].on = w.on
  OBVIOUS
<1> QED BY <1>1, <1>2

(* The web server starts, takes a request, answers it.                       *)
LEMMA ServeKeeps ==
  ASSUME T64Right, tcp64_serve_start
  PROVE  T64Right'
<1>0. T64Types /\ tcb \in TcbType
  BY DEF T64Right, T64Types
<1>1. /\ tcb' = [[tcb EXCEPT !.last = Unsent] EXCEPT !.lport = 80, !.state = "LISTEN"]
      /\ web64' = [on |-> TRUE, req |-> <<>>] /\ fetch = "none"
      /\ UNCHANGED <<fetch, handling, gate, gone, hist64>>
  BY DEF tcp64_serve_start, Untracked
<1>2. tcb' \in TcbType
  BY <1>0, <1>1, UnsentTyped DEF TcbType
<1>3. tcb'.state = "LISTEN" /\ tcb'.rx = tcb.rx /\ tcb'.tries = tcb.tries /\ tcb'.n = tcb.n
  BY <1>0, <1>1 DEF TcbType
<1>4. /\ web64' \in [on : BOOLEAN, req : Seq(Pieces)] /\ Len(web64'.req) = 0 /\ web64'.on
      /\ 0 <= T64SrvCap
  BY <1>1, T64Assumption
<1>5. T64Types'
  BY <1>0, <1>1, <1>2, <1>3, <1>4 DEF T64Types
<1>6. ConnsNumbered'
  BY <1>1, <1>3 DEF T64Right, ConnsNumbered
<1>7. Serving'
  BY <1>1, <1>3, <1>4 DEF Serving
<1> QED BY <1>1, <1>5, <1>6, <1>7 DEF T64Right, Fetching

(* The answer to a request, from whichever connection there is by then.      *)
LEMMA RespondKeeps ==
  ASSUME T64Right, srv_respond
  PROVE  T64Right'
<1>0. T64Types /\ tcb \in TcbType /\ web64.on /\ fetch = "none"
  BY DEF T64Right, T64Types, Serving, srv_respond
<1>1. /\ tcb' = [[tcb EXCEPT !.last = Unsent] EXCEPT !.seq = @ + 2, !.state = "LISTEN"]
      /\ web64' = [web64 EXCEPT !.req = <<>>] /\ handling' = FALSE
      /\ UNCHANGED <<fetch, gate, hist64>>
  BY DEF srv_respond, Untracked
<1>2. tcb'.state = "LISTEN" /\ tcb'.rx = tcb.rx /\ tcb'.tries = tcb.tries /\ tcb'.n = tcb.n
  BY <1>0, <1>1 DEF TcbType
<1>3. tcb' \in TcbType
  <2>1. tcb.seq + 2 \in Nat
    BY <1>0 DEF TcbType
  <2>2. tcb' = [[tcb EXCEPT !.last = Unsent] EXCEPT !.seq = tcb.seq + 2, !.state = "LISTEN"]
    BY <1>0, <1>1 DEF TcbType
  <2>3. PICK q \in Nat : q = tcb.seq + 2
    BY <2>1
  <2>4. [[tcb EXCEPT !.last = Unsent] EXCEPT !.seq = q, !.state = "LISTEN"] \in TcbType
    BY <1>0, UnsentTyped DEF TcbType
  <2> QED BY <2>2, <2>3, <2>4
<1>4. /\ web64' \in [on : BOOLEAN, req : Seq(Pieces)] /\ Len(web64'.req) = 0 /\ web64'.on
      /\ 0 <= T64SrvCap
  <2>1. web64 \in [on : BOOLEAN, req : Seq(Pieces)] /\ 0 <= T64SrvCap
    BY <1>0, T64Assumption DEF T64Types
  <2> QED BY <1>0, <1>1, <2>1, RequestDropped
<1>5. /\ gone' \in [Conns64 -> GoneType]
      /\ \A m \in Conns64 : gone'[m].peer = gone[m].peer /\ (m # tcb.n => gone'[m] = gone[m])
  <2>1. /\ tcb.n \in Nat /\ "answer" \in Kinds64 /\ "FIN" \in Kinds64
        /\ gone \in [Conns64 -> GoneType]
    BY <1>0, T64Assumption DEF TcbType, Kinds64, T64Types
  <2>2. PICK long \in BOOLEAN :
          gone' = Sent(IF long THEN gone ELSE Sent(gone, tcb, "answer"), tcb, "FIN")
    BY DEF srv_respond
  <2>3. PICK o : o = IF long THEN gone ELSE Sent(gone, tcb, "answer")
    OBVIOUS
  <2>4. /\ o \in [Conns64 -> GoneType]
        /\ \A m \in Conns64 : o[m].peer = gone[m].peer /\ (m # tcb.n => o[m] = gone[m])
    BY <2>1, <2>3, SentRight
  <2>5. gone' = Sent(o, tcb, "FIN")
    BY <2>2, <2>3
  <2>6. /\ gone' \in [Conns64 -> GoneType]
        /\ \A m \in Conns64 : gone'[m].peer = o[m].peer /\ (m # tcb.n => gone'[m] = o[m])
    BY <2>1, <2>4, <2>5, SentRight
  <2> QED BY <2>4, <2>6
<1>6. T64Types'
  BY <1>0, <1>1, <1>2, <1>3, <1>4, <1>5 DEF T64Types
<1>7. ConnsNumbered'
  BY <1>2, <1>5, NumberedSame
<1>8. Serving'
  BY <1>0, <1>1, <1>2, <1>4 DEF Serving
<1> QED BY <1>0, <1>1, <1>6, <1>7, <1>8 DEF T64Right, Fetching

(* A SYN of a client, while the server listens.                              *)
LEMMA AcceptKeeps ==
  ASSUME T64Right, NEW g \in Arriving, Accept(g)
  PROVE  T64Right'
<1> DEFINE c == NewConn
           l == [kind |-> "SYNACK", seq |-> Isn(c)]
           b == [tcb EXCEPT !.peer = g.from, !.n = c, !.rcv = g.seq + 1, !.seq = Isn(c) + 1,
                            !.state = "SYN_RCVD", !.last = l]
           o == [gone EXCEPT ![c] = [peer |-> g.from, segs |-> {}]]
<1>0. /\ T64Types /\ tcb \in TcbType /\ c \in Conns64 /\ c \in Nat \ {0} /\ c \in 0 .. T64Conns
      /\ tcb.state = "LISTEN" /\ web64.on /\ fetch = "none"
  BY T64Assumption, NewConnFresh DEF Accept, T64Right, T64Types, Serving, Conns64
<1>1. /\ tcb' = b /\ web64' = [web64 EXCEPT !.req = <<>>]
      /\ gone' = Sent([gone EXCEPT ![b.n] = [peer |-> g.from, segs |-> {}]], b, "SYNACK")
      /\ UNCHANGED <<fetch, handling, gate, hist64>> /\ g.fl = {"SYN"}
  BY Zenon DEF Accept
<1>2. g.from \in T64Clients /\ g.seq = PeerIsn
  <2>1. OfClient(g)
    BY <1>1, Arrivals DEF OfRemote
  <2>2. ~PieceOf(g, RequestOf(g.from))
    BY <1>1 DEF PieceOf
  <2> QED BY <1>1, <2>1, <2>2 DEF OfClient
<1>3. Isn(c) \in Nat /\ Isn(c) + 1 \in Nat /\ PeerIsn + 1 \in Nat /\ l \in [kind : Kinds64, seq : Nat]
  BY <1>0 DEF Isn, Kinds64, PeerIsn
<1>4. /\ b.state = "SYN_RCVD" /\ b.peer = g.from /\ b.n = c /\ b.rx = tcb.rx
      /\ b.tries = tcb.tries /\ b.rcv = PeerIsn + 1
  <2> HIDE DEF l
  <2> QED BY <1>0, <1>2 DEF TcbType
<1>5. b \in TcbType
  <2>1. PICK p \in T64Clients, r \in Nat, q \in Nat, d \in 0 .. T64Conns,
             k \in [kind : Kinds64, seq : Nat] :
          p = g.from /\ r = g.seq + 1 /\ q = Isn(c) + 1 /\ d = c /\ k = l
    BY <1>0, <1>2, <1>3
  <2>2. [tcb EXCEPT !.peer = p, !.n = d, !.rcv = r, !.seq = q, !.state = "SYN_RCVD", !.last = k]
          \in TcbType
    BY <1>0 DEF TcbType
  <2> QED BY <2>1, <2>2
<1>6. /\ o \in [Conns64 -> GoneType] /\ o[c].peer = g.from
      /\ \A m \in Conns64 \ {c} : o[m] = gone[m]
  BY <1>0, <1>2 DEF T64Types, GoneType, Kinds64
<1>7. gone' = Sent(o, b, "SYNACK")
  BY <1>1, <1>4
<1> HIDE DEF o, b, l
<1>8. /\ gone' \in [Conns64 -> GoneType] /\ gone'[c].peer = g.from
      /\ \A m \in Conns64 \ {c} : gone'[m] = gone[m]
  <2>1. b.n \in Nat /\ "SYNACK" \in Kinds64
    BY <1>0, <1>4 DEF Kinds64
  <2>2. /\ gone' \in [Conns64 -> GoneType]
        /\ \A m \in Conns64 : gone'[m].peer = o[m].peer /\ (m # c => gone'[m] = o[m])
    BY <1>4, <1>6, <1>7, <2>1, SentRight
  <2> QED BY <1>0, <1>6, <2>2
<1>9. /\ web64' \in [on : BOOLEAN, req : Seq(Pieces)] /\ web64'.req = <<>> /\ web64'.on
      /\ 0 <= T64SrvCap
  <2>1. web64 \in [on : BOOLEAN, req : Seq(Pieces)] /\ 0 <= T64SrvCap
    BY <1>0, T64Assumption DEF T64Types
  <2> QED BY <1>0, <1>1, <2>1, RequestDropped
<1>10. T64Types'
  BY <1>0, <1>1, <1>4, <1>5, <1>8, <1>9 DEF T64Types
<1>11. ConnsNumbered'
  <2>1. gone'[c].peer # "none"
    BY <1>2, <1>8, T64Assumption
  <2> QED BY <1>0, <1>1, <1>4, <1>8, <2>1, NumberedKept
<1>12. Serving'
  BY <1>0, <1>1, <1>2, <1>4, <1>9 DEF Serving
<1> QED BY <1>0, <1>1, <1>10, <1>11, <1>12 DEF T64Right, Fetching

(* The client's ACK: connected, with nothing read.                           *)
LEMMA AcceptedKeeps ==
  ASSUME T64Right, NEW g, Accepted(g)
  PROVE  T64Right'
<1>0. T64Types /\ tcb \in TcbType /\ tcb.state = "SYN_RCVD"
  BY DEF T64Right, T64Types, Accepted
<1>1. /\ tcb' = [[tcb EXCEPT !.last = Unsent] EXCEPT !.state = "ESTABLISHED"]
      /\ UNCHANGED <<web64, fetch, handling, gate, gone, hist64>>
  BY DEF Accepted, Untracked
<1>2. tcb' \in TcbType
  BY <1>0, <1>1, UnsentTyped DEF TcbType
<1>3. /\ tcb'.state = "ESTABLISHED" /\ tcb'.rx = tcb.rx /\ tcb'.tries = tcb.tries
      /\ tcb'.n = tcb.n /\ tcb'.peer = tcb.peer /\ tcb'.rcv = tcb.rcv
  BY <1>0, <1>1 DEF TcbType
<1>4. T64Types'
  BY <1>0, <1>1, <1>2, <1>3 DEF T64Types
<1>5. ConnsNumbered'
  BY <1>1, <1>3 DEF T64Right, ConnsNumbered
<1>6. web64.on /\ tcb.peer \in T64Clients /\ web64.req = <<>> /\ tcb.rcv = PeerIsn + 1 /\ fetch = "none"
  BY <1>0 DEF T64Right, Serving
<1>7. ReadTo(<<>>, RequestOf(tcb.peer), PeerIsn + 1)
  <2>1. PICK s \in Seq(Pieces) : s = RequestOf(tcb.peer)
    BY <1>6, StreamsTyped
  <2>2. 0 \in 0 .. Len(s) /\ SubSeq(s, 1, 0) = <<>> /\ PeerIsn + 1 = PeerIsn + 1 + 0
    BY DEF PeerIsn
  <2> QED BY <2>1, <2>2 DEF ReadTo
<1>8. Serving'
  BY <1>1, <1>3, <1>6, <1>7 DEF Serving
<1> QED BY <1>1, <1>4, <1>5, <1>6, <1>8 DEF T64Right, Fetching

(* The answer to the machine's SYN.                                          *)
LEMMA OpenedKeeps ==
  ASSUME T64Right, NEW g \in Arriving, Opened64(g)
  PROVE  T64Right'
<1>0. /\ T64Types /\ tcb \in TcbType /\ tcb.state = "SYN_SENT"
      /\ g.dport = tcb.lport /\ g.from = tcb.peer /\ g.fl = {"SYN", "ACK"} /\ g.ack = tcb.seq + 1
  BY DEF T64Right, T64Types, Opened64, Mine
<1>1. /\ tcb' = [[tcb EXCEPT !.last = Unsent] EXCEPT !.seq = g.ack, !.rcv = g.seq + 1, !.state = "ESTABLISHED"]
      /\ UNCHANGED <<web64, fetch, handling, gate, gone, hist64>>
  BY DEF Opened64, Untracked
<1>2. g.from = "remote" /\ g.seq = PeerIsn
  <2>1. ~PieceOf(g, Page) /\ ~PieceOf(g, RequestOf(g.from))
    BY <1>0 DEF PieceOf
  <2> QED BY <1>0, <2>1, Arrivals DEF OfRemote, OfClient, SynAnswer
<1>3. PICK q \in Nat, r \in Nat : q = tcb.seq + 1 /\ q = g.ack /\ r = PeerIsn + 1
  BY <1>0 DEF TcbType, PeerIsn
<1>4. tcb' = [[tcb EXCEPT !.last = Unsent] EXCEPT !.seq = q, !.rcv = r, !.state = "ESTABLISHED"]
  BY <1>1, <1>2, <1>3
<1>5. tcb' \in TcbType
  BY <1>0, <1>4, UnsentTyped DEF TcbType
<1>6. /\ tcb'.state = "ESTABLISHED" /\ tcb'.rx = tcb.rx /\ tcb'.tries = tcb.tries
      /\ tcb'.n = tcb.n /\ tcb'.peer = tcb.peer /\ tcb'.rcv = PeerIsn + 1 /\ tcb'.seq = tcb.seq + 1
      /\ tcb'.lport = tcb.lport /\ tcb'.una = tcb.una /\ tcb'.fin = tcb.fin /\ tcb'.last = Unsent
  BY <1>0, <1>3, <1>4 DEF TcbType
<1>7. T64Types'
  BY <1>0, <1>1, <1>5, <1>6 DEF T64Types
<1>8. ConnsNumbered'
  BY <1>1, <1>6 DEF T64Right, ConnsNumbered
<1>9. tcb.peer \notin T64Clients
  BY <1>0, <1>2, T64Assumption
<1>10. Serving'
  BY <1>1, <1>6, <1>9 DEF T64Right, Serving
<1>11. ASSUME fetch # "none" PROVE fetch = "connect" /\ OwnConn' /\ PageRead' /\ Connecting'
  <2>1. fetch = "connect" /\ OwnConn /\ PageRead /\ Connecting
    BY <1>0, <1>11 DEF T64Right, Fetching, Requesting
  <2>2. tcb.rx = <<>> /\ ~tcb.fin /\ tcb.seq = Isn(tcb.n)
    BY <1>0, <2>1 DEF Connecting
  <2>3. OwnConn' /\ Connecting'
    BY <1>1, <1>6, <2>1, <2>2 DEF OwnConn, Connecting
  <2>4. ReadTo(<<>>, Page, PeerIsn + 1) /\ \E k \in 0 .. T64Page : <<>> = SubSeq(Page, 1, k)
    <3>1. PICK s \in Seq(Pieces) : s = Page /\ Len(s) = T64Page
      BY StreamsTyped
    <3>2. 0 \in 0 .. Len(s) /\ SubSeq(s, 1, 0) = <<>> /\ PeerIsn + 1 = PeerIsn + 1 + 0
      BY DEF PeerIsn
    <3> QED BY <3>1, <3>2 DEF ReadTo
  <2>5. PageRead'
    BY <1>1, <1>6, <2>2, <2>4 DEF PageRead
  <2> QED BY <2>1, <2>3, <2>5
<1> QED BY <1>1, <1>7, <1>8, <1>10, <1>11 DEF T64Right, Fetching

(* A reset closes the connection.                                            *)
LEMMA ResetKeeps ==
  ASSUME T64Right, NEW g, ResetBy(g)
  PROVE  T64Right'
<1>0. T64Types /\ tcb \in TcbType
  BY DEF T64Right, T64Types
<1>1. /\ tcb' = [tcb EXCEPT !.state = "CLOSED"]
      /\ UNCHANGED <<web64, fetch, handling, gate, gone, hist64>>
  BY DEF ResetBy
<1>2. /\ tcb' \in TcbType /\ tcb'.state = "CLOSED" /\ tcb'.peer = tcb.peer /\ tcb'.lport = tcb.lport
      /\ tcb'.n = tcb.n /\ tcb'.seq = tcb.seq /\ tcb'.una = tcb.una /\ tcb'.rcv = tcb.rcv
      /\ tcb'.rx = tcb.rx /\ tcb'.fin = tcb.fin /\ tcb'.last = tcb.last /\ tcb'.tries = tcb.tries
  BY <1>0, <1>1 DEF TcbType
<1>3. T64Types'
  BY <1>0, <1>1, <1>2 DEF T64Types
<1>4. ConnsNumbered' /\ Serving'
  BY <1>1, <1>2 DEF T64Right, ConnsNumbered, Serving
<1>5. Fetching'
  BY <1>1, <1>2 DEF T64Right, Fetching, OwnConn, PageRead, Connecting, Requesting
<1> QED BY <1>3, <1>4, <1>5 DEF T64Right

(* The fields of a piece of a stream.                                        *)
LEMMA PieceTyped ==
  ASSUME NEW s \in Seq(Pieces), NEW g, PieceOf(g, s)
  PROVE  /\ Len(g.data) \in Nat /\ g.seq \in Nat /\ g.data \in Seq(Pieces)
         /\ ("FIN" \in g.fl => g.seq + Len(g.data) = PeerIsn + Len(s) + 1)
<1>1. 0 \in 0 .. Len(s) /\ SubSeq(s, 1, 0) = <<>> /\ PeerIsn + 1 = PeerIsn + 1 + 0
  BY DEF PeerIsn
<1>2. PICK rd, r : ReadTo(rd, s, r)
  BY <1>1 DEF ReadTo
<1> QED BY <1>2, ReadOn

(* A segment of the connection's peer keeps what the fetch has read and how  *)
(* much of what was sent is acknowledged.                                    *)
LEMMA ReceivedFetching ==
  ASSUME T64Right, NEW g \in Arriving, Received(g), fetch # "none",
         g.data \in Seq(Pieces), g.ack \in Nat, g.seq \in Nat
  PROVE  Fetching'
<1>0. /\ T64Types /\ tcb \in TcbType /\ OwnConn /\ PageRead /\ tcb.state \in {"ESTABLISHED", "DONE"}
      /\ g.from = "remote" /\ g.dport = tcb.n /\ UNCHANGED <<fetch, gone>>
  <2>1. T64Types /\ OwnConn /\ PageRead
    BY DEF T64Right, Fetching
  <2> QED BY <2>1, ReceivedRight DEF OwnConn, T64Types
<1>1. OfRemote(g)
  BY <1>0, T64Assumption, Arrivals DEF OfClient
<1>2. /\ tcb'.state = (IF Ends64(g) THEN "DONE" ELSE tcb.state)
      /\ tcb'.peer = tcb.peer /\ tcb'.lport = tcb.lport /\ tcb'.n = tcb.n /\ tcb'.seq = tcb.seq
      /\ tcb'.una = (IF Acked(g) THEN g.ack ELSE tcb.una)
      /\ tcb'.last = (IF Acked(g) \/ Takes64(g) \/ Ends64(g) THEN Unsent ELSE tcb.last)
  BY <1>0, ReceivedRight
<1>3. /\ tcb'.rx = (IF Takes64(g) /\ Fitted(g) THEN tcb.rx \o g.data ELSE tcb.rx)
      /\ tcb'.rcv = (IF Ends64(g) THEN g.seq + Len(g.data) + 1 ELSE NextRcv(g))
      /\ tcb'.fin = (Ends64(g) \/ tcb.fin)
      /\ hist64'.short \/ ~((Takes64(g) /\ ~Fitted(g)) \/ hist64.short \/
                            (Ends64(g) /\ tcb.state = "ESTABLISHED" /\ g.seq + Len(g.data) # NextRcv(g)))
  BY <1>0, ReceivedRight
<1>4. /\ fetch = "send" /\ Acked(g) /\ g.ack < tcb.seq => hist64'.early
      /\ hist64.early => hist64'.early
  BY <1>0, ReceivedRight
<1>5. tcb.n \in Nat /\ Isn(tcb.n) \in Nat /\ tcb.una \in Nat /\ tcb.seq \in Nat
  BY <1>0, T64Assumption DEF TcbType, Isn
<1>6. SynAnswer(g, tcb.n) => ~Takes64(g) /\ ~Ends64(g) /\ g.ack = Isn(tcb.n) + 1
  BY DEF SynAnswer, Takes64, Ends64
<1>7. OwnConn'
  BY <1>0, <1>2 DEF OwnConn
<1>8. ASSUME fetch = "connect" PROVE Connecting'
  <2>1. Connecting /\ "request" \notin gone[tcb.n].segs
    BY <1>8 DEF T64Right, Fetching, Connecting
  <2>2. SynAnswer(g, tcb.n)
    BY <1>0, <1>1, <2>1 DEF OfRemote
  <2> QED BY <1>0, <1>2, <1>6, <2>1, <2>2 DEF Connecting
<1>9. ASSUME fetch # "connect" PROVE Requesting'
  <2>1. Requesting
    BY <1>9 DEF T64Right, Fetching
  <2>2. tcb.seq = Isn(tcb.n) + 2 /\ tcb.una <= tcb.seq /\ fetch \in {"send", "recv"}
    BY <1>0, <1>9, <2>1 DEF Requesting, T64Types
  <2>3. /\ g.ack = Isn(tcb.n) + 1 \/ g.ack = Isn(tcb.n) + 2
        /\ Takes64(g) \/ Ends64(g) => g.ack = Isn(tcb.n) + 2 /\ "ACK" \in g.fl
    BY <1>0, <1>1, <1>6 DEF OfRemote, PieceOf
  <2>4. tcb'.una <= tcb'.seq
    BY <1>2, <1>5, <2>2, <2>3
  <2>5. ASSUME tcb'.last = Unsent \/ fetch = "recv" PROVE tcb'.una = tcb'.seq \/ hist64'.early
    <3>1. CASE Acked(g)
      <4>1. g.ack > tcb.una /\ tcb'.una = g.ack
        BY <1>2, <3>1 DEF Acked
      <4>2. CASE g.ack = Isn(tcb.n) + 2
        BY <1>2, <2>2, <4>1, <4>2
      <4>3. CASE g.ack = Isn(tcb.n) + 1 /\ fetch = "send"
        BY <1>4, <1>5, <2>2, <3>1, <4>3
      <4>4. CASE g.ack = Isn(tcb.n) + 1 /\ fetch = "recv"
        <5>1. tcb.una = tcb.seq \/ hist64.early
          BY <2>1, <4>4 DEF Requesting
        <5> QED BY <1>4, <1>5, <2>2, <4>1, <4>4, <5>1
      <4> QED BY <2>2, <2>3, <4>2, <4>3, <4>4
    <3>2. CASE ~Acked(g) /\ (Takes64(g) \/ Ends64(g))
      <4>1. ~(g.ack > tcb.una)
        BY <2>3, <3>2 DEF Acked
      <4> QED BY <1>2, <1>5, <2>2, <2>3, <3>2, <4>1
    <3>3. CASE ~Acked(g) /\ ~(Takes64(g) \/ Ends64(g))
      BY <1>2, <1>4, <2>1, <2>5, <3>3 DEF Requesting
    <3> QED BY <3>1, <3>2, <3>3
  <2>6. tcb'.state # "SYN_SENT"
    BY <1>0, <1>2
  <2> QED BY <1>0, <1>2, <2>2, <2>4, <2>5, <2>6 DEF Requesting
<1>10. PageRead'
  <2> SUFFICES ASSUME ~hist64'.short PROVE PageRead'
    BY DEF PageRead
  <2>1. /\ ~hist64.short /\ (Takes64(g) => Fitted(g))
        /\ Ends64(g) /\ tcb.state = "ESTABLISHED" => g.seq + Len(g.data) = NextRcv(g)
    BY <1>3
  <2>2. /\ tcb.fin => tcb.rx = Page
        /\ tcb.state = "ESTABLISHED" => ~tcb.fin /\ ReadTo(tcb.rx, Page, tcb.rcv)
        /\ tcb.state = "DONE" => tcb.fin /\ tcb.rcv = PeerIsn + T64Page + 2
        /\ \E k \in 0 .. T64Page : tcb.rx = SubSeq(Page, 1, k)
    BY <1>0, <2>1 DEF PageRead
  <2>3. CASE ~Takes64(g) /\ ~Ends64(g)
    <3>1. tcb'.rx = tcb.rx /\ tcb'.rcv = tcb.rcv /\ tcb'.fin = tcb.fin /\ tcb'.state = tcb.state
      BY <1>0, <1>2, <1>3, <2>3 DEF NextRcv, TcbType
    <3> QED BY <2>2, <3>1 DEF PageRead
  <2>4. CASE Takes64(g) \/ Ends64(g)
    <3>1. PICK s \in Seq(Pieces) : s = Page /\ Len(s) = T64Page
      BY StreamsTyped
    <3>2. PieceOf(g, s)
      BY <1>0, <1>1, <1>6, <2>4, <3>1 DEF OfRemote
    <3>3. /\ Len(g.data) \in Nat /\ T64Page \in Nat /\ PeerIsn \in Nat
          /\ "FIN" \in g.fl => g.seq + Len(g.data) = PeerIsn + T64Page + 1
      BY <3>1, <3>2, PieceTyped, T64Assumption DEF PeerIsn
    <3>4. tcb.state = "ESTABLISHED"
      <4> SUFFICES ASSUME tcb.state = "DONE" PROVE FALSE
        BY <1>0
      <4>1. ~Takes64(g) /\ NextRcv(g) = tcb.rcv
        BY DEF Takes64, NextRcv
      <4> QED BY <2>2, <2>4, <3>3, <4>1 DEF Ends64
    <3>5. ReadTo(tcb.rx, s, tcb.rcv) /\ ~tcb.fin
      BY <2>2, <3>1, <3>4
    <3>6. ReadTo(tcb'.rx, s, NextRcv(g))
      <4>1. CASE Takes64(g)
        <5>1. g.seq = tcb.rcv /\ NextRcv(g) = tcb.rcv + Len(g.data) /\ tcb'.rx = tcb.rx \o g.data
          BY <1>3, <2>1, <4>1 DEF Takes64, NextRcv
        <5>2. ReadTo(tcb.rx \o g.data, s, tcb.rcv + Len(g.data))
          BY <3>2, <3>5, <5>1, ReadOn
        <5> QED BY <5>1, <5>2
      <4>2. CASE ~Takes64(g)
        BY <1>3, <3>5, <4>2 DEF NextRcv
      <4> QED BY <4>1, <4>2
    <3>7. \E k \in 0 .. T64Page : tcb'.rx = SubSeq(Page, 1, k)
      BY <3>1, <3>6 DEF ReadTo
    <3>8. CASE Ends64(g)
      <4>1. NextRcv(g) = PeerIsn + T64Page + 1 /\ "FIN" \in g.fl
        BY <2>1, <3>3, <3>4, <3>8 DEF Ends64
      <4>2. tcb'.rx = Page
        BY <3>1, <3>2, <3>6, <4>1, ReadOn
      <4>3. tcb'.state = "DONE" /\ tcb'.fin /\ tcb'.rcv = PeerIsn + T64Page + 2
        <5>1. g.seq + Len(g.data) = PeerIsn + T64Page + 1
          BY <3>3, <4>1
        <5>2. tcb'.rcv = g.seq + Len(g.data) + 1
          BY <1>3, <3>8
        <5>3. tcb'.rcv = PeerIsn + T64Page + 2
          BY <3>3, <5>1, <5>2
        <5>4. tcb'.state = "DONE"
          BY <1>2, <3>8
        <5>5. tcb'.fin
          BY <1>3, <3>8, Zenon
        <5> QED BY <5>3, <5>4, <5>5
      <4> QED BY <3>7, <4>2, <4>3 DEF PageRead
    <3>9. CASE ~Ends64(g)
      <4>1. tcb'.state = "ESTABLISHED" /\ ~tcb'.fin /\ tcb'.rcv = NextRcv(g)
        BY <1>2, <1>3, <3>4, <3>5, <3>9
      <4> QED BY <3>1, <3>6, <3>7, <4>1 DEF PageRead
    <3> QED BY <3>8, <3>9
  <2> QED BY <2>3, <2>4
<1> QED BY <1>0, <1>7, <1>8, <1>9, <1>10 DEF Fetching

(* And what the web server has read of a request.                            *)
LEMMA ReceivedKeeps ==
  ASSUME T64Right, NEW g \in Arriving, Received(g)
  PROVE  T64Right'
<1>0. /\ T64Types /\ tcb \in TcbType /\ T64Page \in Nat /\ T64Request \in Nat /\ T64SrvCap \in Nat
      /\ web64 \in [on : BOOLEAN, req : Seq(Pieces)]
  BY T64Assumption DEF T64Right, T64Types
<1>1. g.data \in Seq(Pieces) /\ g.ack \in Nat /\ g.seq \in Nat
  <2>1. CASE OfRemote(g)
    <3>1. g.dport \in Nat /\ Isn(g.dport) \in Nat
      BY <2>1, T64Assumption DEF OfRemote, Conns64, Isn
    <3>2. PICK s \in Seq(Pieces) : s = Page
      BY StreamsTyped
    <3>3. CASE SynAnswer(g, g.dport)
      <4>1. <<>> \in Seq(Pieces)
        OBVIOUS
      <4>2. g.data = <<>> /\ g.ack = Isn(g.dport) + 1 /\ g.seq \in Nat
        BY <3>3 DEF SynAnswer
      <4>3. g.ack \in Nat
        BY <3>1, <4>2
      <4>4. g.data \in Seq(Pieces)
        BY <4>1, <4>2, Zenon
      <4> QED BY <4>2, <4>3, <4>4
    <3>4. CASE g.ack = Isn(g.dport) + 2 /\ PieceOf(g, s)
      <4>1. g.seq \in Nat /\ g.data \in Seq(Pieces)
        BY <3>4, PieceTyped
      <4> QED BY <3>1, <3>4, <4>1
    <3> QED BY <2>1, <3>2, <3>3, <3>4 DEF OfRemote
  <2>2. CASE OfClient(g)
    <3>1. PICK s \in Seq(Pieces) : s = RequestOf(g.from)
      BY <2>2, StreamsTyped DEF OfClient
    <3>2. PieceOf(g, s) => g.data \in Seq(Pieces)
      BY PieceTyped
    <3>3. <<>> \in Seq(Pieces)
      OBVIOUS
    <3>4. g.ack \in Nat /\ g.seq \in Nat /\ (g.data = <<>> \/ PieceOf(g, s))
      BY <2>2, <3>1, Zenon DEF OfClient
    <3>5. g.data \in Seq(Pieces)
      BY <3>2, <3>3, <3>4, Zenon
    <3> QED BY <3>4, <3>5
  <2> QED BY <2>1, <2>2, Arrivals
<1>2. /\ g.from = tcb.peer /\ tcb'.n = tcb.n /\ tcb'.peer = tcb.peer
      /\ tcb.state \in {"ESTABLISHED", "DONE"}
      /\ tcb'.state = (IF Ends64(g) THEN "DONE" ELSE tcb.state)
      /\ tcb'.rcv = (IF Ends64(g) THEN g.seq + Len(g.data) + 1 ELSE NextRcv(g))
      /\ web64' = (IF Takes64(g) /\ web64.on /\ Len(web64.req) + Len(g.data) <= T64SrvCap
                   THEN [web64 EXCEPT !.req = @ \o g.data] ELSE web64)
      /\ UNCHANGED <<fetch, handling, gate, gone>>
  BY <1>0, <1>1, ReceivedRight
<1>3. /\ tcb' \in TcbType /\ Len(tcb'.rx) <= T64RxCap /\ tcb'.tries <= T64Retries
      /\ hist64' \in [short : BOOLEAN, early : BOOLEAN, sent : {"none", "ok", "failed"}]
  BY <1>0, <1>1, ReceivedRight
<1>4. /\ web64' \in [on : BOOLEAN, req : Seq(Pieces)] /\ Len(web64'.req) <= T64SrvCap
      /\ web64'.on = web64.on
  <2>1. CASE Takes64(g) /\ web64.on /\ Len(web64.req) + Len(g.data) <= T64SrvCap
    <3>1. web64' = [web64 EXCEPT !.req = web64.req \o g.data]
      BY <1>0, <1>2, <2>1
    <3>2. web64.req \o g.data \in Seq(Pieces) /\ Len(web64.req \o g.data) = Len(web64.req) + Len(g.data)
      BY <1>0, <1>1
    <3> QED BY <1>0, <2>1, <3>1, <3>2
  <2>2. CASE ~(Takes64(g) /\ web64.on /\ Len(web64.req) + Len(g.data) <= T64SrvCap)
    BY <1>0, <1>2, <2>2 DEF T64Types
  <2> QED BY <2>1, <2>2
<1>5. T64Types'
  BY <1>0, <1>2, <1>3, <1>4 DEF T64Types
<1>6. ConnsNumbered'
  BY <1>2 DEF T64Right, ConnsNumbered
<1>7. ASSUME tcb'.state = "ESTABLISHED", tcb.peer \in T64Clients, T64Request <= T64SrvCap
      PROVE  ReadTo(web64'.req, RequestOf(tcb.peer), tcb'.rcv)
  <2>1. tcb.state = "ESTABLISHED" /\ tcb'.rcv = NextRcv(g)
    BY <1>2, <1>7
  <2>2. PICK s \in Seq(Pieces) : s = RequestOf(tcb.peer) /\ Len(s) = T64Request
    BY <1>7, StreamsTyped
  <2>3. web64.on /\ ReadTo(web64.req, s, tcb.rcv)
    BY <1>7, <2>1, <2>2 DEF T64Right, Serving
  <2>4. CASE Takes64(g)
    <3>1. PieceOf(g, s)
      <4>1. ~OfRemote(g) /\ g.data # <<>>
        BY <1>2, <1>7, <2>4, T64Assumption DEF OfRemote, Takes64
      <4> QED BY <1>2, <2>2, <4>1, Arrivals DEF OfClient
    <3>2. g.seq = tcb.rcv /\ NextRcv(g) = tcb.rcv + Len(g.data)
      BY <2>4 DEF Takes64, NextRcv
    <3>3. /\ ReadTo(web64.req \o g.data, s, tcb.rcv + Len(g.data))
          /\ Len(web64.req) + Len(g.data) <= Len(s)
      BY <2>3, <3>1, <3>2, ReadOn
    <3>4. Len(web64.req) + Len(g.data) <= T64SrvCap
      BY <1>0, <1>1, <1>7, <2>2, <3>3
    <3>5. web64'.req = web64.req \o g.data
      BY <1>0, <1>2, <2>3, <2>4, <3>4
    <3> QED BY <1>4, <2>1, <2>2, <2>3, <3>2, <3>3, <3>5
  <2>5. CASE ~Takes64(g)
    BY <1>2, <2>1, <2>2, <2>3, <2>5 DEF NextRcv
  <2> QED BY <2>4, <2>5
<1>8. Serving'
  <2>1. tcb'.state \notin {"LISTEN", "SYN_RCVD"}
    BY <1>2
  <2>2. handling => web64.on
    BY DEF T64Right, Serving
  <2>3. tcb'.state = "ESTABLISHED" /\ tcb.peer \in T64Clients => web64'.on
    BY <1>2, <1>4 DEF T64Right, Serving
  <2> QED BY <1>2, <1>4, <1>7, <2>1, <2>2, <2>3 DEF Serving
<1>9. Fetching'
  <2>1. CASE fetch # "none"
    BY <1>1, <2>1, ReceivedFetching
  <2>2. CASE fetch = "none"
    BY <1>2, <2>2 DEF Fetching
  <2> QED BY <2>1, <2>2
<1> QED BY <1>5, <1>6, <1>8, <1>9 DEF T64Right

(* There are no connections at first.                                        *)
LEMMA T64Starts == T64Init => T64Right
<1> SUFFICES ASSUME T64Init PROVE T64Right
  OBVIOUS
<1>0. /\ 0 \in 0 .. T64Conns /\ <<>> \in Seq(Pieces) /\ 0 <= T64RxCap /\ 0 <= T64Retries
      /\ 0 <= T64SrvCap
  BY T64Assumption
<1>1. tcb \in TcbType
  BY <1>0, UnsentTyped DEF T64Init, TcbType
<1>2. T64Types
  BY <1>0, <1>1 DEF T64Init, T64Types, NoConn64, GoneType
<1>3. ConnsNumbered
  BY DEF T64Init, ConnsNumbered
<1>4. Fetching /\ Serving
  BY DEF T64Init, Fetching, Serving
<1> QED BY <1>2, <1>3, <1>4 DEF T64Right

(* Every step keeps the invariant.                                           *)
LEMMA T64Kept ==
  ASSUME T64Right, [T64Next]_t64Vars
  PROVE  T64Right'
<1>1. CASE tcp64_server_pump \/ net64_arp_resolve \/ arp_rx \/ UNCHANGED t64Vars
  <2>1. /\ UNCHANGED <<tcb, web64, fetch, gone, hist64>> /\ (handling' => handling \/ web64.on)
        /\ handling' \in BOOLEAN
    <3>1. handling \in BOOLEAN
      BY DEF T64Right, T64Types
    <3>2. CASE tcp64_server_pump
      BY <3>2 DEF tcp64_server_pump
    <3>3. CASE net64_arp_resolve
      BY <3>1, <3>3 DEF net64_arp_resolve
    <3>4. CASE arp_rx
      BY <3>1, <3>4 DEF arp_rx
    <3>5. CASE UNCHANGED t64Vars
      BY <3>1, <3>5 DEF t64Vars
    <3> QED BY <1>1, <3>2, <3>3, <3>4, <3>5
  <2>2. T64Types' /\ Fetching'
    BY <2>1 DEF T64Right, T64Types, Fetching, OwnConn, PageRead, Connecting, Requesting
  <2>3. handling => web64.on
    BY DEF T64Right, Serving
  <2> QED BY <2>1, <2>2, <2>3, BlockKept
<1>2. CASE RecvEnds
  BY <1>2, ReturnKeeps DEF RecvEnds, T64Right, T64Types
<1>3. CASE net64_poll
  <2>1. PICK g \in Arriving : Accept(g) \/ Accepted(g) \/ Opened64(g) \/ ResetBy(g) \/ Received(g)
    BY <1>3 DEF net64_poll, tcp64_rx
  <2> QED BY <2>1, AcceptKeeps, AcceptedKeeps, OpenedKeeps, ResetKeeps, ReceivedKeeps
<1> QED BY <1>1, <1>2, <1>3, ConnectKeeps, ConnectEndKeeps, SendEndKeeps, RetransmitKeeps,
           ServeKeeps, RespondKeeps DEF T64Next

(* The invariant shows the properties.                                       *)
LEMMA T64Shown ==
  ASSUME T64Right
  PROVE  /\ T64TypeOK /\ Page64IsPrefix /\ Send64Honest
         /\ T64Request <= T64SrvCap => Request64OneClient
<1>1. T64TypeOK
  BY DEF T64Right, T64Types, TcbType, Fetching, OwnConn, T64TypeOK
<1>2. Page64IsPrefix
  <2> SUFFICES ASSUME fetch # "none", ~hist64.short
               PROVE  IsPrefix(tcb.rx, Page) /\ (tcb.fin => tcb.rx = Page)
    BY DEF Page64IsPrefix
  <2>1. PICK s \in Seq(Pieces) : s = Page /\ Len(s) = T64Page
    BY StreamsTyped
  <2>2. PICK k \in 0 .. T64Page : tcb.rx = SubSeq(s, 1, k) /\ (tcb.fin => tcb.rx = Page)
    BY <2>1 DEF T64Right, Fetching, PageRead
  <2> QED BY <2>1, <2>2, ReadShown
<1>3. ASSUME T64Request <= T64SrvCap PROVE Request64OneClient
  <2> SUFFICES ASSUME tcb.state = "ESTABLISHED", tcb.peer \in T64Clients
               PROVE  IsPrefix(web64.req, RequestOf(tcb.peer))
    BY DEF Request64OneClient
  <2>1. PICK s \in Seq(Pieces) : s = RequestOf(tcb.peer)
    BY StreamsTyped
  <2>2. ReadTo(web64.req, s, tcb.rcv)
    BY <1>3, <2>1 DEF T64Right, Serving
  <2> QED BY <2>1, <2>2, ReadShown DEF ReadTo
<1>4. Send64Honest
  BY DEF T64Right, Fetching, Requesting, Send64Honest
<1> QED BY <1>1, <1>2, <1>3, <1>4
-----------------------------------------------------------------------------
(* The servers: each component's invariant holds in the behaviours that are  *)
(* its own.                                                                  *)
RemoteInv ==
  /\ part = "SshSlots" => SlRight
  /\ part = "Tcp64" => T64Right

(* The invariants hold at first.                                             *)
LEMMA RemoteStarts == Init => RemoteInv
BY SlStarts, T64Starts DEF Init, RemoteInv

(* A step is one of the component of the behaviour, and keeps its invariant. *)
LEMMA RemoteKept == RemoteInv /\ [Next]_remoteVars => RemoteInv'
<1> SUFFICES ASSUME RemoteInv, [Next]_remoteVars PROVE RemoteInv'
  OBVIOUS
<1>1. part' = part
  BY DEF Next, remoteVars
<1>2. ASSUME part = "SshSlots" PROVE SlRight'
  <2>1. [SlNext]_slVars
    BY <1>2 DEF Next, remoteVars
  <2> QED BY <1>2, <2>1, SlKept DEF RemoteInv
<1>3. ASSUME part = "Tcp64" PROVE T64Right'
  <2>1. [T64Next]_t64Vars
    BY <1>3 DEF Next, remoteVars
  <2> QED BY <1>3, <2>1, T64Kept DEF RemoteInv
<1> QED BY <1>1, <1>2, <1>3 DEF RemoteInv

(* ssh.c: for any number of slots, pcbs and connections, a pcb has at most   *)
(* one slot and an established connection has one, a slot names a closed or  *)
(* reused pcb only if SSH was not told of the close, and the reply of a key  *)
(* exchange reaches the connection that asked unless that one left and its   *)
(* slot was taken over meanwhile.                                            *)
THEOREM SshSlotsAreSound == Spec => []SshSlotsSound
<1>1. RemoteInv => SshSlotsSound
  BY SlShown DEF RemoteInv, SshSlotsSound
<1> QED BY <1>1, RemoteStarts, RemoteKept, PTL DEF Spec

(* tcp64.c: over a network that loses, repeats, delays and reorders, for any *)
(* number of clients and connections and any size of page and buffers, what  *)
(* a fetch has read is the beginning of the page while the pieces fit, and a *)
(* tcp64_send that returned 0 was acknowledged unless the ACK of the SYN     *)
(* came once more.                                                           *)
THEOREM FetchIsSound ==
  Spec => [](part = "Tcp64" => T64TypeOK /\ Page64IsPrefix /\ Send64Honest)
<1>1. RemoteInv => (part = "Tcp64" => T64TypeOK /\ Page64IsPrefix /\ Send64Honest)
  BY T64Shown DEF RemoteInv
<1> QED BY <1>1, RemoteStarts, RemoteKept, PTL DEF Spec

(* And what the web server collects is the beginning of one client's         *)
(* request, if requests fit in srv_req: tcp64_rx skips a piece that does not *)
(* fit and appends a later one that does.                                    *)
THEOREM Tcp64IsSound ==
  ASSUME T64Request <= T64SrvCap
  PROVE  Spec => []Tcp64Sound
<1>1. RemoteInv => Tcp64Sound
  BY T64Shown DEF RemoteInv, Tcp64Sound
<1> QED BY <1>1, RemoteStarts, RemoteKept, PTL DEF Spec
=============================================================================
