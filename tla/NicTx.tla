-------------------------------- MODULE NicTx --------------------------------
(***************************************************************************)
(* The transmit ring of one e1000 device (src/src/e1000.c).  The shell calls *)
(* e1000_tx_send_raw with interrupts enabled, so its statements are steps;   *)
(* the timer interrupt, which answers ARP and TCP, may run the whole         *)
(* function between any two of them.  The device sends the descriptors from  *)
(* TDH up to TDT and sets DD in each.  Frames are numbered.                  *)
(***************************************************************************)
EXTENDS Integers, Sequences, FiniteSets

CONSTANTS
  TxRing,      \* E1000_TX_RING_SIZE
  TxFrames     \* bound: frames given to e1000_tx_send_raw

ASSUME TxAssumption == TxRing \in Nat /\ TxRing > 1 /\ TxFrames \in Nat

VARIABLES
  txUp,        \* dev->enabled
  txDesc,      \* tx_ring with tx_bufs: status.DD and the frame in the buffer
  txTail,      \* rings->tx_tail
  tdh, tdt,    \* the device's registers
  txWire,      \* frames sent, in order
  txNo,        \* frames so far
  shellTx,     \* the shell's call: next statement, its frame and its idx
  txHanded,    \* history: frames whose descriptor was announced in TDT, in order
  txSaid,      \* history: frames whose call returned 1
  txRaced,     \* history: a call ran inside the shell's, on the same descriptor
  txFull       \* history: all descriptors were once waiting together

txVars == <<txUp, txDesc, txTail, tdh, tdt, txWire, txNo, shellTx,
            txHanded, txSaid, txRaced, txFull>>

NoTx == [at |-> 0, frame |-> 0, idx |-> 0]
TxNext(i) == (i + 1) % TxRing

(* e1000_tx_init *)
TxClear == [i \in 0 .. TxRing - 1 |-> [dd |-> TRUE, frame |-> 0]]
TxInit ==
  /\ txUp = TRUE /\ txDesc = TxClear /\ txTail = 0 /\ tdh = 0 /\ tdt = 0
  /\ txWire = <<>> /\ txNo = 0 /\ shellTx = NoTx
  /\ txHanded = <<>> /\ txSaid = {} /\ txRaced = FALSE /\ txFull = FALSE

Waiting(desc) == {i \in DOMAIN desc : ~desc[i].dd}

(* The statements of e1000_tx_send_raw from the copy on, in their order.     *)
TxOrder == <<"copy", "arm", "tell", "move">>

(* The descriptor is taken only if the device has finished with it.          *)
TxFree_Unchecked(i) == TRUE                              \* mutant: no test of DD
TxFree(i) == txDesc[i].dd

Stated(desc, tail, t, frame, idx, stmt) ==
  [desc |-> CASE stmt = "copy" -> [desc EXCEPT ![idx].frame = frame]
              [] stmt = "arm"  -> [desc EXCEPT ![idx].dd = FALSE]
              [] OTHER         -> desc,
   tail |-> IF stmt = "move" THEN TxNext(idx) ELSE tail,
   tdt  |-> IF stmt = "tell" THEN TxNext(idx) ELSE t]

(* The shell's call up to its first statement: device up, length within 1518 *)
(* (fits), descriptor free; otherwise it returns 0 at once.                  *)
ShellSend(fits) ==
  /\ shellTx.at = 0 /\ txNo < TxFrames
  /\ txNo' = txNo + 1
  /\ shellTx' = IF txUp /\ fits /\ TxFree(txTail)
                  THEN [at |-> 1, frame |-> txNo + 1, idx |-> txTail] ELSE NoTx
  /\ UNCHANGED <<txUp, txDesc, txTail, tdh, tdt, txWire, txHanded, txSaid, txRaced, txFull>>

ShellStep ==
  LET stmt == TxOrder[shellTx.at]
      r == Stated(txDesc, txTail, tdt, shellTx.frame, shellTx.idx, stmt)
  IN  /\ shellTx.at \in 1 .. Len(TxOrder)
      /\ txDesc' = r.desc /\ txTail' = r.tail /\ tdt' = r.tdt
      /\ txHanded' = IF stmt = "tell" THEN Append(txHanded, shellTx.frame) ELSE txHanded
      /\ txFull' = (txFull \/ Cardinality(Waiting(r.desc)) = TxRing)
      /\ shellTx' = [shellTx EXCEPT !.at = @ + 1]
      /\ UNCHANGED <<txUp, tdh, txWire, txNo, txSaid, txRaced>>

(* The wait of 20000 turns for DD: 1 if it is seen, 0 when the turns are up. *)
ShellWait(seen) ==
  /\ shellTx.at = Len(TxOrder) + 1
  /\ seen => txDesc[shellTx.idx].dd
  /\ txSaid' = IF seen THEN txSaid \cup {shellTx.frame} ELSE txSaid
  /\ shellTx' = NoTx
  /\ UNCHANGED <<txUp, txDesc, txTail, tdh, tdt, txWire, txNo, txHanded, txRaced, txFull>>

(* The same call in the interrupt: nothing of the kernel runs in between.    *)
(* done says whether the device empties the ring before the wait is over.    *)
IrqSend(done) ==
  LET idx  == txTail
      next == TxNext(idx)
      armed == [txDesc EXCEPT ![idx] = [dd |-> FALSE, frame |-> txNo + 1]]
      sent == [k \in 1 .. ((next - tdh) % TxRing) |-> armed[(tdh + k - 1) % TxRing].frame]
      mid  == shellTx.at \in 1 .. Len(TxOrder)
  IN  /\ txNo < TxFrames
      /\ txNo' = txNo + 1
      /\ IF txUp /\ TxFree(idx)
           THEN /\ txTail' = next /\ tdt' = next
                /\ txHanded' = Append(txHanded, txNo + 1)
                /\ txRaced' = (txRaced \/ mid)
                /\ txFull' = (txFull \/ Cardinality(Waiting(armed)) = TxRing)
                /\ IF done
                     THEN /\ txWire' = txWire \o sent
                          /\ tdh' = next
                          /\ txDesc' = [i \in DOMAIN armed |->
                               IF \E k \in DOMAIN sent : i = (tdh + k - 1) % TxRing
                                 THEN [armed[i] EXCEPT !.dd = TRUE] ELSE armed[i]]
                          /\ txSaid' = IF txDesc'[idx].dd THEN txSaid \cup {txNo + 1}
                                       ELSE txSaid
                     ELSE txDesc' = armed /\ UNCHANGED <<txWire, tdh, txSaid>>
           ELSE UNCHANGED <<txDesc, txTail, tdh, tdt, txWire, txHanded, txSaid, txRaced, txFull>>
      /\ UNCHANGED <<txUp, shellTx>>

(* The device. *)
DeviceSends ==
  /\ tdh # tdt
  /\ txWire' = Append(txWire, txDesc[tdh].frame)
  /\ txDesc' = [txDesc EXCEPT ![tdh].dd = TRUE]
  /\ tdh' = TxNext(tdh)
  /\ UNCHANGED <<txUp, txTail, tdt, txNo, shellTx, txHanded, txSaid, txRaced, txFull>>

(* ifconfig down and up; up initialises the ring again.                      *)
IfDown ==
  /\ shellTx.at = 0 /\ txUp
  /\ txUp' = FALSE
  /\ UNCHANGED <<txDesc, txTail, tdh, tdt, txWire, txNo, shellTx, txHanded, txSaid, txRaced, txFull>>
IfUp ==
  /\ shellTx.at = 0
  /\ txUp' = TRUE
  /\ txDesc' = TxClear /\ txTail' = 0 /\ tdh' = 0 /\ tdt' = 0
  /\ txHanded' = txWire                     \* what was not sent is lost with the ring
  /\ UNCHANGED <<txWire, txNo, shellTx, txSaid, txRaced, txFull>>

NicTxNext ==
  \/ \E b \in BOOLEAN : ShellSend(b) \/ ShellWait(b) \/ IrqSend(b)
  \/ ShellStep \/ DeviceSends \/ IfDown \/ IfUp

(* Ring indexes stay in the ring and the counters within their bounds.       *)
TxTypeOK ==
  /\ txTail \in 0 .. TxRing - 1 /\ tdh \in 0 .. TxRing - 1 /\ tdt \in 0 .. TxRing - 1
  /\ txNo \in 0 .. TxFrames
  /\ shellTx.at \in 0 .. Len(TxOrder) + 1

(* Unless the interrupt sent from inside the shell's call, what is on the    *)
(* wire is what was announced, in order and once each, and a call that       *)
(* returned 1 had its frame sent (e1000_tx_send_raw).                        *)
TxFaithful ==
  ~txRaced =>
    /\ Len(txWire) <= Len(txHanded)
    /\ \A k \in DOMAIN txWire : txWire[k] = txHanded[k]
    /\ \A f \in txSaid : \E k \in DOMAIN txWire : txWire[k] = f

(* Unless the interrupt sent from inside the shell's call, or the ring once  *)
(* filled up so that TDT came round to TDH, a device with nothing left to    *)
(* send leaves the next descriptor usable: the ring is never wedged.         *)
TxNoWedge ==
  (~txRaced /\ ~txFull /\ tdh = tdt /\ shellTx.at = 0) => txDesc[txTail].dd
=============================================================================
