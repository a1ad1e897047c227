------------------------------ MODULE TlsClient ------------------------------
(***************************************************************************)
(* Fetching a page over TLS: browser_fetch of src/src/browser.c on the       *)
(* client half of src/src/tls.c. tls_pump takes complete records out of      *)
(* app_rx_buf and moves the rest down while the network interrupt appends to *)
(* it. A record is two chunks of the TCP stream; what is sent is numbered.   *)
(***************************************************************************)
EXTENDS Integers, Sequences

CONSTANTS
  TcPage,        \* application records the server sends
  TcCap,         \* TLS_APP_DATA_CAP, in records
  TcRxMax        \* TCP_APP_RX_MAX, in chunks

VARIABLES
  tls,           \* phase of the fetch, tls.sseq, tls.finished_ok, how it ended
  pump,          \* the tls_pump call: mode, where it is, off, remaining
  rxb,           \* app_rx_buf
  page,          \* app_out: numbers of the application records
  peer,          \* the server: script position, chunk within the record, FIN, window,
                 \* whether it sends close_notify first
  tcHist         \* history: chunks lost, chunks that came since tls_read last looked

tcVars == <<tls, pump, rxb, page, peer, tcHist>>

(* What the server sends, in order. It answers the ClientHello, then our     *)
(* Finished, then the request; sealed records carry numbers from 0.          *)
Script ==
  <<[kind |-> "hs", need |-> "hello", seq |-> -1], [kind |-> "shd", need |-> "hello", seq |-> -1],
    [kind |-> "ccs", need |-> "finished", seq |-> -1], [kind |-> "fin", need |-> "finished", seq |-> 0]>>
  \o [i \in 1 .. TcPage |-> [kind |-> "app", need |-> "page", seq |-> i]]
  \o (IF peer.notify THEN <<[kind |-> "alert", need |-> "page", seq |-> TcPage + 1]>> ELSE <<>>)
Asked(need) == CASE need = "hello" -> TRUE
                 [] need = "finished" -> tls.phase \in {"finished", "page", "read", "look"}
                 [] OTHER -> tls.phase \in {"page", "read", "look"}

(* ---- tls_pump ------------------------------------------------------------- *)
(* tls_gcm_open: both chunks are of one record and it is the next one.        *)
Opened(a, b) == a.rec = b.rec /\ a.half = 1 /\ b.half = 2 /\ Script[a.rec].seq = tls.sseq
(* What is over the cap is decrypted and dropped. *)
Kept(n) == IF Len(page) < TcCap THEN Append(page, n) ELSE page

(* One turn of the loop. a is where a header is read; when it is not the      *)
(* start of a record its type and length are garbage: the loop may stop       *)
(* there, skip, or take it for a record whose tag then fails.                 *)
Fatal == pump' = [pump EXCEPT !.at = "idle"] /\ tls' = [tls EXCEPT !.bad = TRUE] /\ UNCHANGED page
Skips(n) == pump' = [pump EXCEPT !.off = @ + n] /\ UNCHANGED <<tls, page>>
PumpRecord ==
  LET a == rxb[pump.off + 1]  b == rxb[pump.off + 2]
      kind == Script[a.rec].kind
      ok == Opened(a, b)
      on == pump' = [pump EXCEPT !.off = @ + 2]
  IN  /\ pump.at = "loop" /\ pump.off + 2 <= pump.len /\ UNCHANGED <<rxb, peer, tcHist>>
      /\ IF a.half = 2 THEN Fatal \/ Skips(1) \/ Skips(2) \/ (pump' = [pump EXCEPT !.at = "move"] /\ UNCHANGED <<tls, page>>)
         ELSE CASE kind = "alert" -> Fatal
                [] pump.mode = "hello" /\ kind \in {"hs", "shd"} ->
                     on /\ UNCHANGED page
                        /\ tls' = [tls EXCEPT !.ok = IF b.half = 2 /\ b.rec = a.rec /\ kind = "shd" THEN TRUE ELSE @,
                                              !.hs = IF b.half = 2 /\ b.rec = a.rec THEN @ + 1 ELSE 0]
                [] pump.mode = "finished" /\ kind = "fin" ->
                     IF ok /\ tls.hs = 2
                     THEN on /\ tls' = [tls EXCEPT !.ok = TRUE, !.sseq = @ + 1] /\ UNCHANGED page
                     ELSE Fatal
                [] pump.mode = "read" /\ kind = "app" ->
                     IF ~ok THEN Fatal
                     ELSE /\ on /\ tls' = [tls EXCEPT !.sseq = @ + 1]
                          /\ page' = Kept(Script[a.rec].seq)
                [] OTHER -> Skips(2)
PumpScanned ==                          \* no complete record is left
  /\ pump.at = "loop" /\ pump.off + 2 > pump.len
  /\ pump' = [pump EXCEPT !.at = "move"] /\ UNCHANGED <<tls, rxb, page, peer, tcHist>>
(* remaining is read, the bytes are moved, then app_rx_len is set: what the  *)
(* interrupt appends in between is cut off.                                  *)
PumpMoves ==
  /\ pump.at = "move" /\ UNCHANGED <<tls, page, rxb, peer, tcHist>>
  /\ pump' = [pump EXCEPT !.at = IF pump.off = 0 THEN "idle" ELSE "set", !.rem = Len(rxb) - pump.off]
PumpSets ==
  /\ rxb' = SubSeq(rxb, pump.off + 1, pump.off + pump.rem)
  /\ tcHist' = [tcHist EXCEPT !.lost = @ \/ pump.off + pump.rem < Len(rxb)]
PumpDone ==
  /\ pump.at = "set" /\ PumpSets /\ pump' = [pump EXCEPT !.at = "idle"]
  /\ UNCHANGED <<tls, page, peer>>

(* ---- tls_handshake and browser_fetch -------------------------------------- *)
Call(mode) == pump' = [mode |-> mode, at |-> "loop", off |-> 0, len |-> Len(rxb), rem |-> 0]
Poll ==                                 \* the loops call tls_pump again
  /\ pump.at = "idle" /\ ~tls.bad /\ tls.phase \in {"hello", "finished", "page"} /\ ~tls.ok
  /\ Call(IF tls.phase = "page" THEN "read" ELSE tls.phase)
  /\ tls' = [tls EXCEPT !.phase = IF @ = "page" THEN "read" ELSE @]
  /\ tcHist' = [tcHist EXCEPT !.late = FALSE] /\ UNCHANGED <<rxb, page, peer>>
(* A segment we send tells the server how much room there is.                *)
Segment == peer' = IF peer.fin THEN peer ELSE [peer EXCEPT !.wnd = TcRxMax - Len(rxb)]
(* ServerHelloDone seen: our key exchange, CCS and Finished; then the        *)
(* server's Finished seen: the request.                                      *)
HandshakeStep ==
  /\ pump.at = "idle" /\ tls.ok /\ tls.phase \in {"hello", "finished"}
  /\ tls' = [tls EXCEPT !.ok = FALSE, !.phase = IF @ = "hello" THEN "finished" ELSE "page"]
  /\ Segment /\ UNCHANGED <<pump, rxb, page, tcHist>>
Ends(how) == tls' = [tls EXCEPT !.phase = "ended", !.how = how]
HandshakeFails ==                       \* a fatal record, or 8 seconds without the message
  /\ pump.at = "idle" /\ tls.phase \in {"hello", "finished"} /\ Ends("failed")
  /\ UNCHANGED <<pump, rxb, page, peer, tcHist>>
(* After tls_read: announce the window, look for the end. *)
Announced == Segment
AfterRead ==
  /\ pump.at = "idle" /\ tls.phase = "read" /\ Announced
  /\ tls' = [tls EXCEPT !.phase = "look"] /\ UNCHANGED <<pump, rxb, page, tcHist>>
LooksForEnd ==
  /\ tls.phase = "look" /\ UNCHANGED <<pump, rxb, page, peer, tcHist>>
  /\ IF page # <<>> /\ peer.fin THEN Ends("fin")
     ELSE IF Len(page) >= TcCap THEN Ends("cap")
     ELSE IF tls.bad THEN Ends("alert")
     ELSE tls' = [tls EXCEPT !.phase = "page"]
GivesUp ==                              \* 20 seconds quiet, or 180 in all
  /\ tls.phase = "page" /\ Ends("timeout") /\ UNCHANGED <<pump, rxb, page, peer, tcHist>>

(* ---- the server and the interrupt ------------------------------------------ *)
Arrives ==
  LET s == Script[peer.rec]
  IN  /\ peer.rec <= Len(Script) /\ Asked(s.need) /\ peer.wnd > 0 /\ tls.phase # "ended"
      /\ rxb' = Append(rxb, [rec |-> peer.rec, half |-> peer.half])
      /\ peer' = [peer EXCEPT !.rec = IF peer.half = 2 THEN @ + 1 ELSE @, !.half = 3 - @,
                              !.wnd = TcRxMax - Len(rxb')]
      /\ tcHist' = [tcHist EXCEPT !.late = TRUE] /\ UNCHANGED <<tls, pump, page>>
PeerFin ==
  /\ peer.rec > Len(Script) /\ ~peer.fin /\ peer' = [peer EXCEPT !.fin = TRUE]
  /\ UNCHANGED <<tls, pump, rxb, page, tcHist>>

TcInit ==
  /\ tls = [phase |-> "hello", sseq |-> 0, ok |-> FALSE, hs |-> 0, bad |-> FALSE, how |-> "none"]
  /\ pump = [mode |-> "hello", at |-> "idle", off |-> 0, len |-> 0, rem |-> 0]
  /\ rxb = <<>> /\ page = <<>> 
  /\ \E n \in BOOLEAN : peer = [rec |-> 1, half |-> 1, fin |-> FALSE, wnd |-> TcRxMax, notify |-> n]
  /\ tcHist = [lost |-> FALSE, late |-> FALSE]
TcNext ==
  \/ PumpRecord \/ PumpScanned \/ PumpMoves \/ PumpDone
  \/ Poll \/ HandshakeStep \/ HandshakeFails \/ AfterRead \/ LooksForEnd \/ GivesUp
  \/ Arrives \/ PeerFin

TcTypeOK ==
  /\ Len(rxb) <= TcRxMax /\ Len(page) <= TcCap
  /\ pump.at # "idle" => pump.off <= pump.len /\ pump.len <= Len(rxb)

(* Whatever the interrupt does to the buffer under tls_pump, what the        *)
(* browser gets is a prefix of what the server sent: the record number in    *)
(* the tag stops it at the first gap (tls_gcm_open).                         *)
PageIsPrefix == page = [i \in 1 .. Len(page) |-> i]

(* A page that ended with the server's FIN is short only because bytes were  *)
(* cut off by the move, arrived after the last tls_read, or were over the    *)
(* cap (tls_pump, browser_fetch).                                            *)
ShortOnlyTheseWays ==
  tls.how \in {"fin", "alert"} /\ Len(page) < TcPage
    => tcHist.lost \/ tcHist.late \/ Len(page) = TcCap

(* A page that ended with the server's FIN is the page the server sent.      *)
FinMeansWhole == tls.how = "fin" => Len(page) \in {TcPage, TcCap}

(* When the browser goes back to sleep, the server knows of all the room in  *)
(* the buffer, so a page larger than the buffer does not stall               *)
(* (tcp_announce_window after tls_read).                                     *)
RoomAnnounced == tls.phase \in {"look", "page"} /\ ~peer.fin => peer.wnd = TcRxMax - Len(rxb)
=============================================================================
