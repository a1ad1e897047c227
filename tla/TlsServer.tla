------------------------------ MODULE TlsServer ------------------------------
(***************************************************************************)
(* The HTTPS server (src/src/tls.c, second half): one session, tls_srv,      *)
(* shared by every connection to port 443, driven from tcp_input as records  *)
(* arrive. A secret is abstracted to the three things it is derived from, so *)
(* a record opens exactly under the keys and the sequence number it was      *)
(* sealed with, and two transcripts are equal when their messages are.       *)
(***************************************************************************)
EXTENDS Integers, Sequences, SequencesExt

CONSTANTS
  TlsConns,      \* connections to port 443, in the order they are opened
  TlsParts,      \* records a request is sent in
  TlsTickets     \* bound: handshake records a client sends after the handshake

VARIABLES
  srv,           \* tls_srv
  tcl,           \* connection to its client and the records between them
  flights,       \* history: flights sent, each with fresh secrets
  served         \* history: <<connection, parts>> given to http_handle_connection

tlsVars == <<srv, tcl, flights, served>>

(* tls_server_reset: the keys stay, but nothing is sealed until established. *)
NoKeys == [ch |-> 0, flight |-> 0, share |-> 0]
Fresh(keys) == [state |-> "CH", ccs |-> FALSE, cke |-> FALSE, est |-> FALSE, cseq |-> 0, sseq |-> 0,
                hs |-> <<>>, plain |-> <<>>, keys |-> keys, ch |-> 0, flight |-> 0]
tls_server_reset_KeepsPlain(s) == [Fresh(s.keys) EXCEPT !.plain = s.plain]  \* mutant
tls_server_reset(s) == Fresh(s.keys)

(* ---- records --------------------------------------------------------------- *)
Clear(kind, c) == [kind |-> kind, from |-> c, keys |-> NoKeys, seq |-> 0, body |-> <<>>]
Seal(kind, keys, seq, body) == [kind |-> kind, from |-> 0, keys |-> keys, seq |-> seq, body |-> body]
Opens(s, r) == r.keys = s.keys /\ r.keys # NoKeys /\ r.seq = s.cseq

(* The work of one tls_server_input call: the session, whether the pcb is    *)
(* still open, what is sent, what is dispatched, records used, loop ended.   *)
Work(c) == [s |-> srv, c |-> c, open |-> TRUE, out |-> <<>>, done |-> <<>>,
            used |-> 0, n |-> flights, stop |-> FALSE, broke |-> FALSE]
Used(w) == [w EXCEPT !.used = @ + 1]
TlsClosed_NoReset(w) == [w EXCEPT !.open = FALSE, !.stop = TRUE]     \* mutant: the session stays
TlsClosed(w) == [w EXCEPT !.open = FALSE, !.s = tls_server_reset(@), !.stop = TRUE]
srv_fatal(w) == [TlsClosed(w) EXCEPT !.out = Append(@, Clear("alert", 0))]

(* ClientHello: reset, then srv_parse_ch and srv_send_flight. Whether the    *)
(* suite is offered is up to the client.                                     *)
Flight(w, r) ==
  [w EXCEPT !.s = [tls_server_reset(@) EXCEPT !.state = "CKE", !.ch = r.from, !.flight = w.n + 1,
                                              !.hs = <<r.from, w.n + 1>>],
            !.n = @ + 1, !.out = Append(@, [Clear("flight", 0) EXCEPT !.seq = w.n + 1])]
Hello(w, r) == IF r.kind = "hello" THEN Used(Flight(w, r)) ELSE srv_fatal(w)

(* srv_do_cke derives the keys from our secret, their share and both randoms.*)
srv_do_cke(w, r) ==
  [Used(w) EXCEPT !.s.keys = [ch |-> w.s.ch, flight |-> w.s.flight, share |-> r.from],
                  !.s.cke = TRUE, !.s.hs = Append(@, r.from)]

(* srv_do_finished: open, compare with the transcript, then our CCS and      *)
(* Finished, the first record under the new keys.                            *)
srv_do_finished(w, r) == Opens(w.s, r) /\ r.kind = "finished" /\ r.body = w.s.hs
FinishedOk(w, r) ==
  [Used(w) EXCEPT !.s.state = "APP", !.s.est = TRUE, !.s.cseq = @ + 1, !.s.sseq = @ + 1,
                  !.out = @ \o <<Clear("ccs", 0), Seal("finished", w.s.keys, w.s.sseq, w.s.hs)>>]

StateCH(w, r) == IF r.kind \in {"hello", "badhello"} THEN Hello(w, r) ELSE srv_fatal(w)
(* In state CKE application data is passed over; a record of type 22 is a    *)
(* restart, the key exchange or the Finished, by the flags.                  *)
StateCKE(w, r) ==
  CASE r.kind = "ccs" -> [Used(w) EXCEPT !.s.ccs = TRUE]
    [] r.kind = "alert" -> TlsClosed(w)
    [] r.kind = "app" -> Used(w)
    [] r.kind \in {"hello", "badhello"} /\ ~w.s.ccs -> Hello(w, r)
    [] OTHER -> IF ~w.s.cke THEN IF r.kind = "cke" THEN srv_do_cke(w, r) ELSE srv_fatal(w)
                ELSE IF ~w.s.ccs THEN srv_fatal(w)
                ELSE IF srv_do_finished(w, r) THEN FinishedOk(w, r) ELSE TlsClosed(w)

(* tls_server_write under http_handle_connection, which closes the pcb.      *)
Reply(w) == [w EXCEPT !.out = Append(@, Seal("app", w.s.keys, w.s.sseq, w.s.plain)),
                      !.s.sseq = @ + 1, !.s.plain = <<>>, !.done = w.s.plain,
                      !.open = FALSE, !.stop = TRUE]
http_ready(plain) == Len(plain) = TlsParts          \* srv_http_ready
StateAPP(w, r) ==
  LET read == [Used(w) EXCEPT !.s.cseq = @ + 1, !.s.plain = @ \o r.body]
  IN  CASE r.kind = "app" -> IF ~Opens(w.s, r) THEN TlsClosed(w)
                             ELSE IF http_ready(read.s.plain) THEN Reply(read) ELSE read
        [] r.kind = "alert" -> TlsClosed(w)
        [] r.kind = "ccs" -> Used(w)
        [] OTHER -> IF Opens(w.s, r)      \* type 22: the loop ends and the record stays
                    THEN [w EXCEPT !.s.cseq = @ + 1, !.broke = TRUE]
                    ELSE Hello([w EXCEPT !.s = tls_server_reset(@)], r)

OneRecord(w, r) ==
  IF w.stop \/ w.broke THEN w
  ELSE CASE w.s.state = "CH" -> StateCH(w, r)
         [] w.s.state = "CKE" -> StateCKE(w, r)
         [] OTHER -> StateAPP(w, r)

(* tls_server_input over the complete records in app_rx_buf. After a stop    *)
(* nothing is consumed, but the pcb is closed.                               *)
tls_server_input(c, rx) ==
  LET w == FoldLeft(OneRecord, Work(c), rx)
  IN  /\ srv' = w.s /\ flights' = w.n
      /\ served' = IF w.done = <<>> THEN served ELSE Append(served, [c |-> c, parts |-> w.done])
      /\ tcl' = [tcl EXCEPT ![c].rx = IF w.stop THEN <<>> ELSE SubSeq(rx, w.used + 1, Len(rx)),
                            ![c].open = w.open, ![c].in = @ \o w.out,
                            ![c].wire = IF w.open THEN SubSeq(@, Len(rx) - Len(tcl[c].rx) + 1, Len(@))
                                        ELSE <<>>]
TlsDeliver(c, n) ==
  /\ tcl[c].open /\ n <= Len(tcl[c].wire)
  /\ tls_server_input(c, tcl[c].rx \o SubSeq(tcl[c].wire, 1, n))

(* ---- the clients: they follow the protocol, and may stop at any point ------- *)
NewClient == [stage |-> "new", open |-> FALSE, wire |-> <<>>, rx |-> <<>>, in |-> <<>>,
              keys |-> NoKeys, cseq |-> 0, sseq |-> 0, sent |-> 0, tickets |-> 0]
Put(c, stage, rs) == tcl' = [tcl EXCEPT ![c].stage = stage, ![c].wire = @ \o rs]
ClientHello(c) ==
  /\ tcl[c].stage = "new" /\ \A d \in 1 .. c - 1 : tcl[d].stage # "new"
  /\ \E k \in {"hello", "badhello"} :
       tcl' = [tcl EXCEPT ![c].stage = "hello", ![c].open = TRUE, ![c].wire = <<Clear(k, c)>>]
  /\ UNCHANGED <<srv, flights, served>>
(* It takes the next record of the server's; the flight makes it answer.     *)
ClientKeys(c, flight) == [ch |-> c, flight |-> flight, share |-> c]
ClientTakes(c) ==
  LET r == Head(tcl[c].in)  k == ClientKeys(c, r.seq)
      took == [tcl EXCEPT ![c].in = Tail(@)]
  IN  /\ tcl[c].in # <<>> /\ tcl[c].stage # "gone" /\ UNCHANGED <<srv, flights, served>>
      /\ tcl' = CASE r.kind = "flight" /\ tcl[c].stage = "hello" ->
                       [took EXCEPT ![c].stage = "keyed", ![c].keys = k, ![c].cseq = 1,
                          ![c].wire = @ \o <<Clear("cke", c), Clear("ccs", c),
                                             Seal("finished", k, 0, <<c, r.seq, c>>)>>]
                  [] r.kind = "finished" -> [took EXCEPT ![c].stage = "app", ![c].sseq = 1]
                  [] r.kind = "app" -> [took EXCEPT ![c].stage = "gone", ![c].open = FALSE]
                  [] r.kind = "alert" -> [took EXCEPT ![c].stage = "gone", ![c].open = FALSE]
                  [] OTHER -> took
ClientSends(c) ==
  /\ tcl[c].stage = "app" /\ tcl[c].open /\ tcl[c].sent < TlsParts
  /\ tcl' = [tcl EXCEPT ![c].sent = @ + 1, ![c].cseq = @ + 1,
       ![c].wire = Append(@, Seal("app", tcl[c].keys, tcl[c].cseq, <<<<c, tcl[c].sent>>>>))]
  /\ UNCHANGED <<srv, flights, served>>
ClientTicket(c) ==
  /\ tcl[c].stage = "app" /\ tcl[c].open /\ tcl[c].tickets < TlsTickets
  /\ tcl' = [tcl EXCEPT ![c].tickets = @ + 1, ![c].cseq = @ + 1,
       ![c].wire = Append(@, Seal("ticket", tcl[c].keys, tcl[c].cseq, <<>>))]
  /\ UNCHANGED <<srv, flights, served>>
(* It goes away, telling the server or not. *)
ClientLeaves(c) ==
  /\ tcl[c].open /\ tcl[c].stage \notin {"new", "gone"} /\ UNCHANGED <<srv, flights, served>>
  /\ \/ tcl' = [tcl EXCEPT ![c].stage = "gone", ![c].open = FALSE, ![c].wire = <<>>]
     \/ tcl' = [tcl EXCEPT ![c].stage = "gone", ![c].wire = Append(@, Clear("alert", c))]

TlsInit ==
  /\ srv = Fresh(NoKeys) /\ tcl = [c \in TlsConns |-> NewClient] /\ flights = 0 /\ served = <<>>
TlsNext ==
  \E c \in TlsConns :
    \/ \E n \in 1 .. 2 : TlsDeliver(c, n)
    \/ ClientHello(c) \/ ClientTakes(c) \/ ClientSends(c) \/ ClientTicket(c) \/ ClientLeaves(c)

TlsTypeOK ==
  /\ srv.state \in {"CH", "CKE", "APP"} /\ (srv.state = "APP" => srv.est /\ srv.cke /\ srv.ccs)
  /\ srv.est => srv.state = "APP"
  /\ Len(srv.plain) < TlsParts

(* What is handed to the HTTP server on a connection is the whole request    *)
(* that connection's client sent, in order and nothing of anybody else's,    *)
(* although all connections share the session (tls_server_input).            *)
RequestsFaithful ==
  \A i \in DOMAIN served : served[i].parts = [k \in 1 .. TlsParts |-> <<served[i].c, k - 1>>]

(* Every sealed record a client is sent opens with its own keys at the       *)
(* number it expects next: a reply never goes out under another session.     *)
RepliesReadable ==
  \A c \in TlsConns :
    LET sealed == SelectSeq(tcl[c].in, LAMBDA r : r.keys # NoKeys)
    IN  \A i \in DOMAIN sealed : /\ sealed[i].keys = tcl[c].keys
                                 /\ sealed[i].seq = tcl[c].sseq + i - 1

(* A stale session refuses at most one ClientHello: whatever was left behind *)
(* by clients that went away, the next call answers it or starts afresh      *)
(* (the restart and fresh-reset branches of tls_server_input).               *)
HelloAnsweredOrReset ==
  [][\A c \in TlsConns :
       tcl[c].open /\ tcl[c].rx = <<>> /\ tcl[c].wire # <<>> /\ tcl'[c].wire # tcl[c].wire
         /\ Len(tcl[c].wire) = 1 /\ tcl[c].wire[1].kind = "hello"
         /\ tcl'[c].stage = tcl[c].stage
       => flights' = flights + 1 \/ srv'.state = "CH"]_tlsVars

(* tls.c ignores an encrypted handshake record in state APP: it never makes  *)
(* the server end the connection.                                            *)
TicketsIgnored ==
  [][\A c \in TlsConns :
       tcl[c].open /\ ~tcl'[c].open /\ srv.state = "APP" /\ srv.keys = tcl[c].keys
         /\ tcl'[c].stage = tcl[c].stage /\ tcl[c].rx # <<>>
       => Head(tcl[c].rx).kind # "ticket"]_tlsVars
=============================================================================
