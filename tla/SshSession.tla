------------------------------ MODULE SshSession -----------------------------
(***************************************************************************)
(* One SSH session (src/src/ssh.c) with a client that follows the protocol:  *)
(* key exchange, authentication, one channel, its windows, and the commands  *)
(* typed on it.  ssh_handle_connection is re-entered while a command it      *)
(* started runs, because the command polls the network; the activations are  *)
(* a stack, the innermost first.  TCP delivers whole packets in order; parts *)
(* of packets change nothing.  A packet carries the position in the key      *)
(* stream (n) and the sequence number (seq) it was made with: it decrypts at *)
(* the receiver's same position only, anything else being noise.  Output is  *)
(* counted in units, one per call of ssh_send_channel_data_raw.              *)
(***************************************************************************)
EXTENDS Integers, Sequences, FiniteSets

CONSTANTS
  SshPending,    \* SSH_SHELL_PENDING_MAX
  SshWindow,     \* units of output the client allows at first
  SshCredit,     \* units of input we allow at first (server_window)
  SshLines,      \* bound: lines typed
  SshOutputs,    \* bound: units commands write
  SshAdjusts,    \* bound: WINDOW_ADJUST messages of the client
  SshExec,       \* whether the client may use exec
  SshOther       \* whether it sends other messages while a command runs

VARIABLES
  conn,          \* struct ssh_connection
  stk,           \* activations, the innermost first
  stdin,         \* bytes in ssh_stdin_buf
  cl,            \* the client
  sshHist        \* history: lines enqueued, started and what went wrong

sshVars == <<conn, stk, stdin, cl, sshHist>>

SshFrame(f, x, ran) == [f |-> f, x |-> x, ran |-> ran]
Push(f, x) == <<SshFrame(f, x, FALSE)>> \o stk

SshInit ==
  /\ conn = [state |-> "version", derived |-> FALSE, enc |-> FALSE, strict |-> FALSE,
             auth |-> FALSE, shell |-> FALSE, win |-> 0, defer |-> 0, pend |-> <<>>,
             proc |-> FALSE, rx |-> <<>>, rctr |-> 0, rseq |-> 0, sseq |-> 0,
             rcnt |-> 0, scnt |-> 0]
  /\ stk = <<>> /\ stdin = 0
  /\ cl \in [phase : {"version"}, n : {0}, seq : {0}, exp : {0}, strict : BOOLEAN,
             win : {SshWindow}, credit : {SshCredit}, lines : {0}, adjusts : {0}, outs : {0}]
  /\ sshHist = [queued |-> <<>>, started |-> <<>>, bad |-> {}]

Bad(why) == sshHist' = [sshHist EXCEPT !.bad = @ \cup {why}]
Working == "reset" \notin sshHist.bad      \* after a reset the stream is noise and not followed
Top(f) == Working /\ stk # <<>> /\ Head(stk).f = f
InCommand == \E i \in DOMAIN stk : stk[i].f = "cmd"        \* ssh_remote_shell_execute_depth > 0
TxDepth == Cardinality({i \in DOMAIN stk : stk[i].f \in {"out", "prompt"}})

-----------------------------------------------------------------------------
(* Sending.  Unencrypted packets are counted; encrypted ones carry send_seq. *)
SshSent(c, k) == IF c.enc THEN [c EXCEPT !.sseq = @ + k] ELSE [c EXCEPT !.scnt = @ + k]
Heard(k) == [cl EXCEPT !.exp = @ + k]

(* ssh_send_channel_window_adjust, put off inside a CHANNEL_DATA send.       *)
Refill(c, k) == IF TxDepth > 0 THEN [c EXCEPT !.defer = @ + k] ELSE SshSent(c, 1)
RefillHeard(k) == IF TxDepth > 0 THEN cl ELSE [cl EXCEPT !.exp = @ + 1, !.credit = @ + k]

(* ssh_enqueue_shell_command, for each line of a packet.                     *)
Fits(c, lines) ==                                    \* the rest are dropped
  LET room == SshPending - Len(c.pend)
  IN  SubSeq(lines, 1, IF Len(lines) < room THEN Len(lines) ELSE room)
Enqueued(c, lines) == [c EXCEPT !.pend = @ \o Fits(c, lines)]
QueuedNow(c, lines) == [sshHist EXCEPT !.queued = @ \o Fits(c, lines)]

(* The packet at the front of rx_buf is done with; before encryption all but *)
(* the version line are counted.                                             *)
Consumed(c) == [c EXCEPT !.rx = IF @ = <<>> THEN @ ELSE Tail(@), !.rseq = @ + 1]
ConsumedPlain(c) ==
  [c EXCEPT !.rx = Tail(@), !.rcnt = IF Head(c.rx).type = "version" THEN @ ELSE @ + 1]

(* NEWKEYS: the derived keys are taken into use.                             *)
FirstSeq_NotCounted(c) == IF c.strict THEN 0 ELSE c.rcnt     \* mutant: NEWKEYS is not counted
FirstSeq(c) == IF c.strict THEN 0 ELSE c.rcnt + 1
FirstSent(c) == IF c.strict THEN 0 ELSE c.scnt
NewKeys(c) ==
  IF ~c.derived THEN [c EXCEPT !.state = "service"]
  ELSE [c EXCEPT !.enc = TRUE, !.rctr = 0, !.rseq = FirstSeq(c),
                 !.sseq = FirstSent(c), !.state = "service"]
(* ssh_restore_derived_crypto and the clearing of rx_buf *)
SshRestored(c) ==
  [c EXCEPT !.rctr = 0, !.rx = <<>>, !.rseq = IF c.strict THEN 0 ELSE c.rcnt + 1,
            !.sseq = FirstSent(c), !.proc = FALSE]

-----------------------------------------------------------------------------
(* The key exchange, before encryption.  Each handler sends its answers and  *)
(* moves on; the group exchange ends with keys derived and NEWKEYS sent, the *)
(* plain exchange sends its reply and NEWKEYS and derives nothing.           *)
ssh_send_packet_sshbuf(c) == SshSent(c, 1)
ssh_handle_version(c) == [ssh_send_packet_sshbuf(c) EXCEPT !.state = "kexinit"]
ssh_handle_kexinit(c, p) == [c EXCEPT !.strict = p.strict, !.state = "kexdh"]
ssh_handle_kexdh_init(c) == SshSent(c, 2)
ssh_handle_kexdh_gex_request(c) == [SshSent(c, 1) EXCEPT !.state = "kexdh"]
ssh_handle_kexdh_gex_init(c) == [SshSent(c, 2) EXCEPT !.derived = TRUE, !.state = "kexdh"]
Plain(c, p) ==
  CASE p.type = "version" -> ssh_handle_version(c)
    [] p.type = "kexinit" -> ssh_handle_kexinit(c, p)
    [] p.type = "dhinit"  -> ssh_handle_kexdh_init(c)
    [] p.type = "gexreq"  -> ssh_handle_kexdh_gex_request(c)
    [] p.type = "gexinit" -> ssh_handle_kexdh_gex_init(c)
    [] p.type = "newkeys" -> NewKeys(c)
(* What the client makes of the answers: after NEWKEYS a strict client       *)
(* counts from zero again.                                                   *)
PlainHeard(p) ==
  CASE p.type \in {"version", "gexreq"} -> Heard(1)
    [] p.type \in {"gexinit", "dhinit"} -> IF cl.strict THEN [cl EXCEPT !.exp = 0] ELSE Heard(2)
    [] OTHER -> cl
LoopPlain ==
  /\ Top("loop") /\ conn.rx # <<>> /\ ~conn.enc
  /\ conn' = ConsumedPlain(Plain(conn, Head(conn.rx)))
  /\ cl' = PlainHeard(Head(conn.rx))
  /\ UNCHANGED <<stk, stdin, sshHist>>

(* Encrypted packets: decrypted where the key stream stands.                 *)
Reads(c) == c.rx # <<>> /\ Head(c.rx).n = c.rctr /\ Head(c.rx).seq = c.rseq
LoopNoise ==
  /\ Top("loop") /\ conn.rx # <<>> /\ conn.enc /\ ~Reads(conn)
  /\ conn' = SshRestored(conn) /\ stk' = Tail(stk)
  /\ Bad("reset") /\ UNCHANGED <<stdin, cl>>

(* Messages handled at once, then consumed, then the queued commands.        *)
ssh_handle_service_request(c) == [SshSent(c, 1) EXCEPT !.state = "auth"]
ssh_handle_auth_request(c, ok) ==
  IF ok THEN [SshSent(c, 1) EXCEPT !.auth = TRUE, !.state = "chopen"] ELSE SshSent(c, 1)
ssh_handle_channel_open(c) ==
  IF c.auth THEN [SshSent(c, 1) EXCEPT !.state = "active", !.win = SshWindow, !.shell = FALSE]
  ELSE SshSent(c, 1)
ssh_handle_channel_window_adjust(c) == [c EXCEPT !.win = @ + 1]
Quick == {"service", "badauth", "auth", "open", "adjust", "ignore"}
QuickDone(c, p) ==
  CASE p.type = "service" -> ssh_handle_service_request(c)
    [] p.type = "badauth" -> ssh_handle_auth_request(c, FALSE)
    [] p.type = "auth"    -> ssh_handle_auth_request(c, TRUE)
    [] p.type = "open"    -> ssh_handle_channel_open(c)
    [] p.type = "adjust"  -> ssh_handle_channel_window_adjust(c)
    [] OTHER              -> c
LoopQuick ==
  /\ Top("loop") /\ conn.enc /\ Reads(conn) /\ Head(conn.rx).type \in Quick
  /\ LET p == Head(conn.rx)
     IN  /\ conn' = Consumed(QuickDone([conn EXCEPT !.rctr = @ + 1], p))
         /\ cl' = IF p.type \in {"service", "badauth", "auth", "open"} THEN Heard(1) ELSE cl
         /\ stk' = Push("flush", FALSE)
  /\ UNCHANGED <<stdin, sshHist>>

(* ssh_handle_channel_request: shell prints a welcome before the packet is   *)
(* consumed; exec runs its command before it is.                             *)
LoopShell ==
  /\ Top("loop") /\ conn.enc /\ Reads(conn) /\ Head(conn.rx).type = "shell"
  /\ conn' = SshSent([conn EXCEPT !.rctr = @ + 1, !.shell = TRUE], 1) /\ cl' = Heard(1)
  /\ stk' = Push("echo", FALSE) /\ UNCHANGED <<stdin, sshHist>>
LoopExec ==
  /\ Top("loop") /\ conn.enc /\ Reads(conn) /\ Head(conn.rx).type = "exec"
  /\ conn' = Enqueued(SshSent([conn EXCEPT !.rctr = @ + 1], 1), Head(conn.rx).lines)
  /\ sshHist' = [QueuedNow(conn, Head(conn.rx).lines) EXCEPT !.bad = @ \cup {"exec"}]
  /\ cl' = Heard(1)
  /\ stk' = Push("flush", TRUE) /\ UNCHANGED stdin

(* ssh_handle_channel_data: while a command runs the bytes are its input,    *)
(* otherwise they are echoed and a line is queued.                           *)
LoopData ==
  /\ Top("loop") /\ conn.enc /\ Reads(conn) /\ Head(conn.rx).type = "data"
  /\ LET p == Head(conn.rx)
         c == [conn EXCEPT !.rctr = @ + 1]
     IN  IF InCommand /\ conn.shell
           THEN /\ stdin' = stdin + 1
                /\ conn' = Consumed(Refill(c, 1)) /\ cl' = RefillHeard(1)
                /\ stk' = Push("flush", FALSE) /\ UNCHANGED sshHist
           ELSE IF conn.shell
           THEN conn' = c /\ stk' = Push("echo", FALSE) /\ UNCHANGED <<stdin, cl, sshHist>>
           ELSE /\ conn' = Consumed(Refill(Enqueued(c, p.lines), 1)) /\ cl' = RefillHeard(1)
                /\ sshHist' = QueuedNow(conn, p.lines)
                /\ stk' = Push("flush", FALSE) /\ UNCHANGED stdin

(* The echo of a line, or the welcome, has been sent or given up: the line   *)
(* is queued and the packet consumed.                                        *)
EchoDone(c, heard) ==
  LET p == Head(c.rx)
      q == IF p.type = "data" THEN Refill(Enqueued(c, p.lines), 1) ELSE c
  IN  /\ conn' = Consumed(q)
      /\ cl' = IF p.type # "data" THEN heard
               ELSE IF TxDepth > 0 THEN heard
               ELSE [heard EXCEPT !.exp = @ + 1, !.credit = @ + 1]
      /\ sshHist' = IF p.type = "data" THEN QueuedNow(c, p.lines) ELSE sshHist
      /\ stk' = <<SshFrame("flush", FALSE, FALSE)>> \o Tail(stk)
      /\ UNCHANGED stdin
(* One unit of output: ssh_send_channel_data_raw with the window open.       *)
Unit(c) == [SshSent(c, 1) EXCEPT !.win = @ - 1]
MaySend(c) == c.win > 0
UnitHeard == [cl EXCEPT !.exp = @ + 1, !.win = @ - 1]
EchoSends == Top("echo") /\ MaySend(conn) /\ EchoDone(Unit(conn), UnitHeard)
(* ssh_wait_client_send_window gives up after a minute; the chunk is dropped.*)
EchoGivesUp == Top("echo") /\ conn.win = 0 /\ EchoDone(conn, cl)

LoopEnds ==
  /\ Top("loop") /\ conn.rx = <<>>
  /\ conn' = [conn EXCEPT !.proc = FALSE] /\ stk' = Tail(stk)
  /\ UNCHANGED <<stdin, cl, sshHist>>

-----------------------------------------------------------------------------
(* ssh_flush_pending_shell_commands: the next line is taken off the queue    *)
(* and run, with processing cleared, so that packets are handled meanwhile.  *)
Dequeued(q) == Tail(q)
FlushRuns ==
  /\ Top("flush") /\ conn.pend # <<>>
  /\ sshHist' = [sshHist EXCEPT !.started = Append(@, Head(conn.pend))]
  /\ conn' = [conn EXCEPT !.pend = Dequeued(@), !.proc = FALSE]
  /\ stdin' = 0
  /\ stk' = <<SshFrame("cmd", FALSE, FALSE), [Head(stk) EXCEPT !.ran = TRUE]>> \o Tail(stk)
  /\ UNCHANGED cl
CommandWrites ==
  /\ Top("cmd") /\ cl.outs < SshOutputs
  /\ cl' = [cl EXCEPT !.outs = @ + 1] /\ stk' = Push("out", FALSE)
  /\ UNCHANGED <<conn, stdin, sshHist>>
CommandReads == Top("cmd") /\ stdin > 0 /\ stdin' = stdin - 1 /\ UNCHANGED <<conn, stk, cl, sshHist>>
CommandEnds ==
  /\ Top("cmd")
  /\ conn' = [conn EXCEPT !.proc = TRUE] /\ stdin' = 0 /\ stk' = Tail(stk)
  /\ UNCHANGED <<cl, sshHist>>
(* Nothing is queued: a prompt if something ran in an interactive session;   *)
(* exec sends its exit status, EOF and CLOSE and only then is its packet     *)
(* consumed.                                                                 *)
FlushEnds ==
  /\ Top("flush") /\ conn.pend = <<>>
  /\ LET h == Head(stk)
     IN  IF h.ran /\ conn.shell
           THEN /\ stk' = <<SshFrame("prompt", FALSE, FALSE), [h EXCEPT !.ran = FALSE]>> \o Tail(stk)
                /\ UNCHANGED <<conn, cl>>
           ELSE IF h.x
           THEN /\ conn' = Consumed(SshSent(conn, 3)) /\ cl' = Heard(3)
                /\ stk' = <<SshFrame("flush", FALSE, FALSE)>> \o Tail(stk)
           ELSE stk' = Tail(stk) /\ UNCHANGED <<conn, cl>>
  /\ UNCHANGED <<stdin, sshHist>>

(* A unit of a command's output or of the prompt goes out, or is given up;   *)
(* then what the client is owed is sent.                                     *)
Owed(c) == IF TxDepth = 1 /\ c.defer > 0 THEN SshSent([c EXCEPT !.defer = 0], 1) ELSE c
OwedHeard(h) ==
  IF TxDepth = 1 /\ conn.defer > 0 THEN [h EXCEPT !.exp = @ + 1, !.credit = @ + conn.defer] ELSE h
OutSends ==
  /\ Top("out") \/ Top("prompt")
  /\ MaySend(conn)
  /\ conn' = Owed(Unit(conn)) /\ cl' = OwedHeard(UnitHeard)
  /\ stk' = Tail(stk) /\ UNCHANGED <<stdin, sshHist>>
OutGivesUp ==
  /\ Top("out") \/ Top("prompt")
  /\ conn.win = 0
  /\ conn' = Owed(conn) /\ cl' = OwedHeard(cl)
  /\ stk' = Tail(stk) /\ UNCHANGED <<stdin, sshHist>>

(* ssh_drain_rx_encrypted_window_adjust, while output waits: messages that   *)
(* read right are handled in place.  At any other message it stops, with the *)
(* key stream already past it.                                               *)
DrainTakes(c) == [c EXCEPT !.rx = Tail(@), !.rctr = @ + 1, !.rseq = @ + 1]
SshDrain ==
  /\ Top("out") \/ Top("prompt")
  /\ conn.win = 0 /\ Reads(conn)
  /\ LET p == Head(conn.rx)
         c == DrainTakes(conn)
     IN  CASE p.type = "adjust" -> conn' = ssh_handle_channel_window_adjust(c) /\ UNCHANGED <<stdin, sshHist>>
           [] p.type = "ignore" -> conn' = c /\ UNCHANGED <<stdin, sshHist>>
           [] p.type = "data" /\ InCommand /\ conn.shell ->
                conn' = Refill(c, 1) /\ stdin' = stdin + 1 /\ UNCHANGED sshHist
           [] p.type = "data" /\ ~(InCommand /\ conn.shell) ->
                /\ conn' = Refill(Enqueued(c, p.lines), 1) /\ UNCHANGED stdin
                /\ sshHist' = QueuedNow(conn, p.lines)
           [] OTHER -> conn' = [conn EXCEPT !.rctr = @ + 1] /\ Bad("drain") /\ UNCHANGED stdin
  /\ UNCHANGED <<stk, cl>>

-----------------------------------------------------------------------------
(* The client's next packet arrives: appended, and handled unless a packet   *)
(* is being handled.                                                         *)
EncPhases == {"service", "auth", "open", "request", "active"}
SshArrives(type, next, lines, uses) ==
  LET p == [type |-> type, n |-> IF cl.phase \in EncPhases THEN cl.n ELSE 0, seq |-> cl.seq,
            strict |-> cl.strict, lines |-> lines]
  IN  /\ conn' = [conn EXCEPT !.rx = Append(@, p), !.proc = TRUE]
      /\ stk' = IF ~conn.proc THEN Push("loop", FALSE) ELSE stk
      /\ cl' = [uses EXCEPT !.phase = next,
                            !.n = IF cl.phase \in EncPhases THEN @ + 1 ELSE @,
                            !.seq = IF type = "version" \/ (type = "newkeys" /\ cl.strict) THEN 0 ELSE @ + 1]
      /\ UNCHANGED <<stdin, sshHist>>

(* The client: each step of the handshake follows the answer to the one      *)
(* before it, only KEXINIT does not wait.                                    *)
Answered == conn.rx = <<>> /\ stk = <<>>
ClientSteps ==
  \/ cl.phase = "version" /\ SshArrives("version", "kexinit", <<>>, cl)
  \/ cl.phase = "kexinit" /\ SshArrives("kexinit", "kex", <<>>, cl)
  \/ cl.phase = "kex" /\ Answered /\ SshArrives("gexreq", "gex", <<>>, cl)
  \/ cl.phase = "kex" /\ Answered /\ SshArrives("dhinit", "gone", <<>>, cl)
  \/ cl.phase = "gex" /\ Answered /\ SshArrives("gexinit", "newkeys", <<>>, cl)
  \/ cl.phase = "newkeys" /\ Answered /\ SshArrives("newkeys", "service", <<>>, cl)
  \/ cl.phase = "service" /\ Answered /\ SshArrives("service", "auth", <<>>, cl)
  \/ cl.phase = "auth" /\ Answered /\ SshArrives("badauth", "auth", <<>>, cl) /\ cl.seq < 7
  \/ cl.phase = "auth" /\ Answered /\ SshArrives("auth", "open", <<>>, cl)
  \/ cl.phase = "open" /\ Answered /\ SshArrives("open", "request", <<>>, cl)
  \/ cl.phase = "request" /\ Answered /\ SshArrives("shell", "active", <<>>, cl)
ClientExec ==
  /\ cl.phase \in {"request", "active"} /\ SshExec /\ cl.lines < SshLines
  /\ cl.phase = "active" => SshOther
  /\ SshArrives("exec", "active", <<cl.lines + 1>>, [cl EXCEPT !.lines = @ + 1])
ClientTypes(k) ==                                   \* a line is typed, or k are pasted at once
  /\ cl.phase = "active" /\ cl.lines + k <= SshLines /\ cl.credit > 0
  /\ SshArrives("data", "active", [i \in 1 .. k |-> cl.lines + i],
             [cl EXCEPT !.lines = @ + k, !.credit = @ - 1])
ClientAdjusts ==
  /\ cl.phase = "active" /\ cl.adjusts < SshAdjusts
  /\ SshArrives("adjust", "active", <<>>, [cl EXCEPT !.adjusts = @ + 1, !.win = @ + 1])
ClientIgnore ==
  /\ cl.phase = "active" /\ cl.adjusts < SshAdjusts
  /\ SshArrives("ignore", "active", <<>>, [cl EXCEPT !.adjusts = @ + 1])

SshNext ==
  \/ LoopPlain \/ LoopNoise \/ LoopQuick \/ LoopShell \/ LoopExec \/ LoopData \/ LoopEnds
  \/ EchoSends \/ EchoGivesUp \/ FlushRuns \/ FlushEnds
  \/ CommandWrites \/ CommandReads \/ CommandEnds \/ OutSends \/ OutGivesUp \/ SshDrain
  \/ Working /\ (ClientSteps \/ ClientExec \/ (\E k \in {1, 3} : ClientTypes(k)) \/ ClientAdjusts \/ ClientIgnore)

-----------------------------------------------------------------------------
SshTypeOK ==
  /\ Len(conn.pend) <= SshPending
  /\ conn.state \in {"version", "kexinit", "kexdh", "service", "auth", "chopen", "active"}
  /\ conn.win \in 0 .. SshWindow + SshAdjusts /\ conn.defer \in 0 .. SshLines
  /\ stdin \in 0 .. SshLines

(* The session is lost to a packet that does not decrypt only in two ways:   *)
(* something arrived while an exec request, not yet consumed, ran its        *)
(* command, or output waited for the window and the drain met a message it   *)
(* leaves for later (ssh.c:2574 and ssh.c:2219).                             *)
LostOnlyTwoWays == "reset" \in sshHist.bad => sshHist.bad \cap {"exec", "drain"} # {}

(* Lines are started in the order they were queued, each once, although      *)
(* ssh_flush_pending_shell_commands is re-entered while a line runs.         *)
StartsInOrder ==
  /\ Len(sshHist.started) <= Len(sshHist.queued)
  /\ sshHist.started = SubSeq(sshHist.queued, 1, Len(sshHist.started))
  /\ sshHist.started \o conn.pend = sshHist.queued

(* Never more output than the client's window allows, whatever is nested.    *)
WindowRespected == cl.win >= 0

(* The sequence number the next packet will carry is the one the client      *)
(* expects.                                                                  *)
SeqAgree == (conn.enc /\ Working) => conn.sseq = cl.exp

(* When everything is handled the client may type as much as at the start:   *)
(* refills put off during a send have been sent.                             *)
RefillComplete == (stk = <<>> /\ Working) => (cl.credit = SshCredit /\ conn.defer = 0)

(* ssh.c:2702: "Run lines queued by CHANNEL_DATA after the current           *)
(* ciphertext record is consumed", so that the key stream stays in step.     *)
StaysInStep == "reset" \notin sshHist.bad
=============================================================================
