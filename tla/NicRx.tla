-------------------------------- MODULE NicRx --------------------------------
(***************************************************************************)
(* The receive ring of one e1000 device and its budgeted poller             *)
(* (src/src/e1000.c, src/src/netdev.c).  The shell polls with interrupts     *)
(* enabled, the timer interrupt polls too, possibly inside the shell's poll. *)
(* The device fills descriptors from RDH up to RDT.  Frames are numbered.    *)
(***************************************************************************)
EXTENDS Integers, Sequences

CONSTANTS
  RxRing,      \* E1000_RX_RING_SIZE
  RxFrames,    \* bound: frames that arrive
  RxBudget,    \* frames a poll may take
  RxStuckMax,  \* 8: polls before the indexes are forced back into agreement
  RxZeroMax    \* 128: idle polls before NAPI is completed by force

ASSUME RxAssumption ==
  /\ RxRing \in Nat /\ RxRing > 2 /\ {RxFrames, RxBudget} \subseteq Nat
  /\ {RxStuckMax, RxZeroMax} \subseteq Nat \ {0}

VARIABLES
  rxUp,        \* dev->enabled
  rxDesc,      \* rx_ring with rx_bufs: status.DD and the frame
  rxHead,      \* rings->rx_head
  rdh, rdt,    \* the device's registers
  rxCause,     \* ICR holds a cause
  rxMasked,    \* the device's interrupts are masked
  napi,        \* e1000_napi_scheduled
  stuckN,      \* stuck_n of the device
  zeroN,       \* napi_zero_while_pending
  polls,       \* the polls of the shell and of the timer: statement, idx, frames taken
  rxNo,        \* frames that arrived
  rxTaken,     \* history: frames the device put in the ring
  rxGiven,     \* history: frames given to ethernet_input
  rxOom,       \* history: a frame was dropped for want of a pbuf
  rxNested,    \* history: the timer polled inside the shell's poll
  rxStreak,    \* history: polls in a row that found the ring stuck
  rxHasty      \* history: the indexes were forced before RxStuckMax such polls in a row

rxRingVars == <<rxDesc, rxHead, rdh, rdt>>
rxIrqVars  == <<rxCause, rxMasked, napi>>
rxHist     == <<rxNo, rxTaken, rxGiven, rxOom, rxNested, rxStreak, rxHasty>>
rxVars == <<rxUp, rxRingVars, rxIrqVars, stuckN, zeroN, polls, rxHist>>

NoPoll == [at |-> "none", idx |-> 0, done |-> 0]
RxPrev(i) == (i + RxRing - 1) % RxRing

(* e1000_rx_init *)
RxClear == [i \in 0 .. RxRing - 1 |-> [dd |-> FALSE, frame |-> 0]]
RxInit ==
  /\ rxUp = TRUE /\ rxDesc = RxClear /\ rxHead = 0 /\ rdh = 0 /\ rdt = RxRing - 1
  /\ rxCause = FALSE /\ rxMasked = FALSE /\ napi = FALSE /\ stuckN = 0 /\ zeroN = 0
  /\ polls = [c \in {"shell", "timer"} |-> NoPoll]
  /\ rxNo = 0 /\ rxTaken = <<>> /\ rxGiven = <<>>
  /\ rxOom = FALSE /\ rxNested = FALSE /\ rxStreak = 0 /\ rxHasty = FALSE

(* A frame arrives; with RDH = RDT the device has no descriptor for it.      *)
RxArrives ==
  /\ rxNo < RxFrames
  /\ rxNo' = rxNo + 1
  /\ IF rdh = rdt THEN UNCHANGED <<rxDesc, rdh, rxCause, rxTaken>>
     ELSE /\ rxDesc' = [rxDesc EXCEPT ![rdh] = [dd |-> TRUE, frame |-> rxNo + 1]]
          /\ rdh' = (rdh + 1) % RxRing
          /\ rxCause' = TRUE
          /\ rxTaken' = Append(rxTaken, rxNo + 1)
  /\ UNCHANGED <<rxUp, rxHead, rdt, rxMasked, napi, stuckN, zeroN, polls,
                 rxGiven, rxOom, rxNested, rxStreak, rxHasty>>

(* e1000_irq_handler: reading ICR clears it.                                 *)
e1000_irq_handler ==
  /\ rxCause /\ ~rxMasked /\ polls["timer"].at = "none"
  /\ rxCause' = FALSE
  /\ rxMasked' = TRUE /\ napi' = TRUE
  /\ UNCHANGED <<rxUp, rxRingVars, stuckN, zeroN, polls, rxHist>>

(* e1000_napi_poll, first the test of e1000_rx_qemu_unstick_rdh_rdt: frames  *)
(* between rx_head and RDH but no DD at rx_head.  The count is not reset by  *)
(* a poll that finds the ring in order.                                      *)
Stuck == rdh # rxHead /\ ~rxDesc[rxHead].dd
PollStart(c) ==
  LET n == IF Stuck THEN stuckN + 1 ELSE stuckN
      streak == IF Stuck THEN rxStreak + 1 ELSE 0
      resync == Stuck /\ n >= RxStuckMax
  IN  /\ polls[c].at = "none"
      /\ c = "shell" => polls["timer"].at = "none"
      /\ polls' = [polls EXCEPT ![c] = [at |-> "scan", idx |-> 0, done |-> 0]]
      /\ rxNested' = (rxNested \/ (c = "timer" /\ polls["shell"].at # "none"))
      /\ IF rxUp
           THEN /\ stuckN' = IF resync THEN 0 ELSE n
                /\ rxStreak' = IF resync THEN 0 ELSE streak
                /\ rxHasty' = (rxHasty \/ (resync /\ streak < RxStuckMax))
                /\ rxHead' = IF resync THEN rdh ELSE rxHead
                /\ rdt' = IF resync THEN RxPrev(rdh) ELSE rdt
           ELSE UNCHANGED <<stuckN, rxStreak, rxHasty, rxHead, rdt>>
      /\ UNCHANGED <<rxUp, rxDesc, rdh, rxIrqVars, zeroN, rxNo, rxTaken, rxGiven, rxOom>>

(* The timer's poll runs to its end before the shell goes on.                *)
Runs(c) == c = "shell" => polls["timer"].at = "none"

(* e1000_rx_poll_one: the head descriptor, if ready, is copied to a pbuf     *)
(* (mem) and given to ethernet_input.                                        *)
TakesHead == rxUp /\ rxDesc[rxHead].dd
PollTake(c, mem) ==
  /\ Runs(c) /\ polls[c].at = "scan" /\ polls[c].done < RxBudget /\ TakesHead
  /\ polls' = [polls EXCEPT ![c].at = "recycle", ![c].idx = rxHead]
  /\ rxGiven' = IF mem THEN Append(rxGiven, rxDesc[rxHead].frame) ELSE rxGiven
  /\ rxOom' = (rxOom \/ ~mem)
  /\ UNCHANGED <<rxUp, rxRingVars, rxIrqVars, stuckN, zeroN, rxNo, rxTaken,
                 rxNested, rxStreak, rxHasty>>

(* ... then the descriptor goes back: status, RDT and rx_head.  RDT is the   *)
(* descriptor before it, so that it never meets RDH.                         *)
NewRdt(idx) == RxPrev(idx)
PollClear(c) ==
  /\ Runs(c) /\ polls[c].at = "recycle"
  /\ rxDesc' = [rxDesc EXCEPT ![polls[c].idx].dd = FALSE]
  /\ polls' = [polls EXCEPT ![c].at = "move"]
  /\ UNCHANGED <<rxUp, rxHead, rdh, rdt, rxIrqVars, stuckN, zeroN, rxHist>>
HeadAfter(idx) == (idx + 1) % RxRing
PollMove(c) ==
  /\ Runs(c) /\ polls[c].at = "move"
  /\ rdt' = NewRdt(polls[c].idx)
  /\ rxHead' = HeadAfter(polls[c].idx)
  /\ polls' = [polls EXCEPT ![c].at = "scan", ![c].done = @ + 1]
  /\ UNCHANGED <<rxUp, rxDesc, rdh, rxIrqVars, stuckN, zeroN, rxHist>>

(* The end of e1000_napi_poll: with nothing ready NAPI is completed and the  *)
(* interrupts come back; otherwise idle polls are counted.                   *)
PollEnds(c) ==
  /\ Runs(c) /\ polls[c].at = "scan"
  /\ polls[c].done = RxBudget \/ ~TakesHead
  /\ polls' = [polls EXCEPT ![c].at = "complete"]
  /\ UNCHANGED <<rxUp, rxRingVars, rxIrqVars, stuckN, zeroN, rxHist>>

NapiDone_NoUnmask == rxMasked              \* mutant: interrupts are not enabled again
NapiDone == IF rxUp THEN FALSE ELSE rxMasked
PollComplete(c) ==
  LET force == zeroN + 1 >= RxZeroMax
      idle  == napi /\ TakesHead /\ polls[c].done = 0
  IN  /\ Runs(c) /\ polls[c].at = "complete"
      /\ polls' = [polls EXCEPT ![c] = NoPoll]
      /\ zeroN' = IF idle /\ ~force THEN zeroN + 1 ELSE 0
      /\ IF napi /\ (~TakesHead \/ (idle /\ force))
           THEN /\ napi' = FALSE /\ rxMasked' = NapiDone
                /\ rxCause' = IF TakesHead THEN FALSE ELSE rxCause
           ELSE UNCHANGED rxIrqVars
      /\ UNCHANGED <<rxUp, rxRingVars, stuckN, rxHist>>

(* A BIOS disk call: interrupts are masked around it and come back after it, *)
(* whatever NAPI was doing (disk.c).                                         *)
BiosCall ==
  /\ polls["shell"].at = "none" /\ polls["timer"].at = "none"
  /\ rxMasked' = IF rxUp THEN FALSE ELSE TRUE
  /\ UNCHANGED <<rxUp, rxRingVars, rxCause, napi, stuckN, zeroN, polls, rxHist>>

(* ifconfig down and up, at the prompt; up initialises the ring and unmasks. *)
RxDown ==
  /\ rxUp /\ polls["shell"].at = "none" /\ polls["timer"].at = "none"
  /\ rxUp' = FALSE
  /\ UNCHANGED <<rxRingVars, rxIrqVars, stuckN, zeroN, polls, rxHist>>
RxUp ==
  /\ polls["shell"].at = "none" /\ polls["timer"].at = "none"
  /\ rxUp' = TRUE /\ rxDesc' = RxClear /\ rxHead' = 0 /\ rdh' = 0 /\ rdt' = RxRing - 1
  /\ rxCause' = FALSE /\ rxMasked' = FALSE
  /\ rxTaken' = rxGiven
  /\ UNCHANGED <<napi, stuckN, zeroN, polls, rxNo, rxGiven, rxOom, rxNested, rxStreak, rxHasty>>

NicRxNext ==
  \/ RxArrives \/ e1000_irq_handler \/ BiosCall \/ RxDown \/ RxUp
  \/ \E c \in {"shell", "timer"} :
        \/ PollStart(c) \/ PollClear(c) \/ PollMove(c) \/ PollEnds(c) \/ PollComplete(c)
        \/ \E mem \in BOOLEAN : PollTake(c, mem)

(* Indexes stay in the ring and the two counters below their limits.         *)
RxTypeOK ==
  /\ rxHead \in 0 .. RxRing - 1 /\ rdh \in 0 .. RxRing - 1 /\ rdt \in 0 .. RxRing - 1
  /\ stuckN \in 0 .. RxStuckMax - 1 /\ zeroN \in 0 .. RxZeroMax - 1
  /\ \A c \in DOMAIN polls : polls[c].done \in 0 .. RxBudget

InRing == [k \in 1 .. ((rdh - rxHead) % RxRing) |-> rxDesc[(rxHead + k - 1) % RxRing].frame]
HeadOut == \E c \in DOMAIN polls : polls[c].at \in {"recycle", "move"}

(* While the timer never polls inside the shell's poll and pbufs last, the   *)
(* stack gets what the device took, in order and once each; the rest is in   *)
(* the ring (e1000_rx_poll_one).                                             *)
RxInOrder ==
  (~rxNested /\ ~rxOom) =>
     rxTaken = rxGiven \o (IF HeadOut /\ InRing # <<>> THEN Tail(InRing) ELSE InRing)

(* ... and the device never runs out of descriptors the driver has given     *)
(* back: a ring the driver has emptied always has room for a frame.          *)
RxNeverDeaf ==
  (~rxNested /\ rxUp /\ ~HeadOut /\ rdh = rxHead) => rdh # rdt

(* A device that is up and masked has a poll scheduled, so its interrupts    *)
(* come back (e1000_irq_handler, e1000_napi_poll).                           *)
RxNotLeftMasked ==
  (rxUp /\ rxMasked) => napi

(* e1000.c:466 and 487: the indexes are forced only when the ring was stuck  *)
(* for 8 consecutive polls.                                                  *)
ResyncAfterConsecutive == ~rxHasty
=============================================================================
