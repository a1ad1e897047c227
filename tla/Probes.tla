------------------------------- MODULE Probes -------------------------------
(***************************************************************************)
(* ping and traceroute (src/src/kernel.c) and the globals icmp_input leaves *)
(* the last answers in (src/src/icmp.c).  One command runs at the console,  *)
(* another may run meanwhile in an SSH session, in the interrupt: the       *)
(* console's stands still until it ends.  The network delays and repeats:   *)
(* a probe that has been sent can be answered at any later moment, again    *)
(* and again (icmp_input).                                                  *)
(***************************************************************************)
EXTENDS Integers, FiniteSets

CONSTANTS
  PrDests,     \* destinations
  PrFar,       \* the distance of a destination
  PrHops,      \* hops traceroute tries
  PrProbes,    \* probes per hop
  PrPings,     \* echo requests per ping
  PrRuns,      \* commands (bound)
  PrTicks      \* pit_ticks (bound)

VARIABLES
  prTick,      \* pit_ticks
  prEcho,      \* icmp_last_echo_reply_src, _id, _seq; history: of which run's probe
  prExceeded,  \* icmp_last_time_exceeded_src, _id, _seq, _tick; history: of which run's probe
  prGen,       \* ping_seq_gen
  prCmd,       \* the command of each shell
  prRun,       \* commands so far
  prWire,      \* the probes sent
  prSaw        \* history: what was taken for an answer, by whom, and whether the taking of
               \* a ping's number was interrupted by another ping

prVars == <<prTick, prEcho, prExceeded, prGen, prCmd, prRun, prWire, prSaw>>

PrShells == {"console", "remote"}
PrNone == [at |-> "idle", kind |-> "none", run |-> 0, dest |-> "none", ttl |-> 0, probe |-> 0,
           seq |-> 0, start |-> 0, reached |-> FALSE]
PrInit ==
  /\ prTick = 1 /\ prGen = 0 /\ prRun = 0 /\ prWire = {}
  /\ prEcho = [src |-> <<"none", 0>>, id |-> "none", seq |-> 0, run |-> 0]
  /\ prExceeded = [src |-> <<"none", 0>>, id |-> "none", seq |-> 0, run |-> 0, tick |-> 0]
  /\ prCmd = [w \in PrShells |-> PrNone]
  /\ prSaw = [hops |-> {}, pongs |-> {}, raced |-> FALSE]

PrTurn(w) == w = "remote" \/ prCmd["remote"].at = "idle"
PrIs(w, kind, at) == PrTurn(w) /\ prCmd[w].kind = kind /\ prCmd[w].at = at
PrUpd(w, c) == prCmd' = [prCmd EXCEPT ![w] = c]
PrProbe(c) == [id |-> c.kind, dest |-> c.dest, ttl |-> c.ttl, seq |-> c.seq, run |-> c.run]

PrTickStep ==
  /\ prTick < PrTicks /\ prTick' = prTick + 1
  /\ UNCHANGED <<prEcho, prExceeded, prGen, prCmd, prRun, prWire, prSaw>>

PrStart(w, kind, d) ==
  /\ PrTurn(w) /\ prCmd[w].at = "idle" /\ prRun < PrRuns
  /\ prRun' = prRun + 1
  /\ PrUpd(w, [PrNone EXCEPT !.at = "probe", !.kind = kind, !.run = prRun + 1, !.dest = d,
                             !.ttl = IF kind = "trace" THEN 1 ELSE PrFar])
  /\ UNCHANGED <<prTick, prEcho, prExceeded, prGen, prWire, prSaw>>
cmd_ping(w) == \E d \in PrDests : PrStart(w, "ping", d)
cmd_traceroute(w) == \E d \in PrDests : PrStart(w, "trace", d)
PrReturns(w) ==
  /\ PrUpd(w, PrNone) /\ UNCHANGED <<prTick, prEcho, prExceeded, prGen, prRun, prWire, prSaw>>

(* ---- ping ------------------------------------------------------------------- *)
(* ++ping_seq_gen, a load and a store; the request is sent.                  *)
PingSeq(c) == prGen + 1
PingTakes(w) ==
  /\ PrIs(w, "ping", "probe") /\ prCmd[w].probe < PrPings
  /\ PrUpd(w, [prCmd[w] EXCEPT !.at = "number", !.seq = PingSeq(prCmd[w])])
  /\ UNCHANGED <<prTick, prEcho, prExceeded, prGen, prRun, prWire, prSaw>>
PingNext(c) == [c EXCEPT !.at = "probe", !.probe = @ + 1]
PingSends(w) ==
  LET c == [prCmd[w] EXCEPT !.at = "wait", !.start = prTick]
  IN  /\ PrIs(w, "ping", "number") /\ prGen' = c.seq
      /\ \/ PrUpd(w, c) /\ prWire' = prWire \cup {PrProbe(c)}
         \/ PrUpd(w, PingNext(c)) /\ UNCHANGED prWire                 \* ip4_output failed
      /\ prSaw' = [prSaw EXCEPT !.raced = @ \/ \E v \in PrShells \ {w} : prCmd[v].at = "number"]
      /\ UNCHANGED <<prTick, prEcho, prExceeded, prRun>>
(* A new number cannot have been answered before: icmp_echo_reply_count adds nothing. *)
PingMatches(c) == prEcho.src = <<c.dest, PrFar>> /\ prEcho.id = "ping" /\ prEcho.seq = c.seq
PingGot(w) ==
  /\ PrIs(w, "ping", "wait") /\ PingMatches(prCmd[w]) /\ PrUpd(w, PingNext(prCmd[w]))
  /\ prSaw' = [prSaw EXCEPT !.pongs = @ \cup {[run |-> prCmd[w].run, answers |-> prEcho.run]}]
  /\ UNCHANGED <<prTick, prEcho, prExceeded, prGen, prRun, prWire>>
PingTimeout(w) ==
  /\ PrIs(w, "ping", "wait") /\ prTick > prCmd[w].start /\ PrUpd(w, PingNext(prCmd[w]))
  /\ UNCHANGED <<prTick, prEcho, prExceeded, prGen, prRun, prWire, prSaw>>

PingEnds(w) == PrIs(w, "ping", "probe") /\ PrReturns(w)      \* a key, or the last one

(* ---- traceroute --------------------------------------------------------------- *)
(* The probe's number is its hop and its place, the same in every run.       *)
TraceSends(w) ==
  LET c == [prCmd[w] EXCEPT !.at = "sent", !.seq = PrProbes * prCmd[w].ttl + prCmd[w].probe]
  IN  /\ PrIs(w, "trace", "probe") /\ PrUpd(w, c)
      /\ prExceeded' = [prExceeded EXCEPT !.tick = 0] /\ prEcho' = [prEcho EXCEPT !.id = "none"]
      /\ prWire' = prWire \cup {PrProbe(c)}
      /\ UNCHANGED <<prTick, prGen, prRun, prSaw>>
TraceAborts(w) == PrIs(w, "trace", "probe") /\ PrReturns(w)  \* a key
TraceWaits(w) ==                    \* wait_start = pit_ticks
  /\ PrIs(w, "trace", "sent") /\ PrUpd(w, [prCmd[w] EXCEPT !.at = "wait", !.start = prTick])
  /\ UNCHANGED <<prTick, prEcho, prExceeded, prGen, prRun, prWire, prSaw>>
TraceExceeded(c) == prExceeded.tick > c.start /\ prExceeded.id = "trace" /\ prExceeded.seq = c.seq
TraceReplied(c) == prEcho.id = "trace" /\ prEcho.seq = c.seq
(* The next probe; after the last one the next hop, or the end.              *)
TraceNext(c) ==
  IF c.probe + 1 < PrProbes THEN [c EXCEPT !.at = "probe", !.probe = @ + 1]
  ELSE IF c.reached \/ c.ttl >= PrHops THEN PrNone
  ELSE [c EXCEPT !.at = "probe", !.probe = 0, !.ttl = @ + 1]
TraceGot(w) ==
  LET c == prCmd[w]
      hop == IF TraceExceeded(c) THEN prExceeded ELSE prEcho
  IN  /\ PrIs(w, "trace", "wait")
      /\ TraceExceeded(c) \/ TraceReplied(c)
      /\ PrUpd(w, TraceNext([c EXCEPT !.reached = @ \/ ~TraceExceeded(c)]))
      /\ prSaw' = [prSaw EXCEPT !.hops = @ \cup
                     {[run |-> c.run, ttl |-> c.ttl, answers |-> hop.run, src |-> hop.src]}]
      /\ UNCHANGED <<prTick, prEcho, prExceeded, prGen, prRun, prWire>>
TraceTimeout(w) ==
  /\ PrIs(w, "trace", "wait") /\ prTick > prCmd[w].start /\ PrUpd(w, TraceNext(prCmd[w]))
  /\ UNCHANGED <<prTick, prEcho, prExceeded, prGen, prRun, prWire, prSaw>>

TraceNoBuffer(w) ==                 \* pbuf_alloc failed: on to the next hop
  /\ PrIs(w, "trace", "probe") /\ PrUpd(w, TraceNext([prCmd[w] EXCEPT !.probe = PrProbes - 1]))
  /\ prExceeded' = [prExceeded EXCEPT !.tick = 0] /\ prEcho' = [prEcho EXCEPT !.id = "none"]
  /\ UNCHANGED <<prTick, prGen, prRun, prWire, prSaw>>

(* ---- the interrupt --------------------------------------------------------------- *)
(* icmp_input: a probe that got as far as its ttl is answered by the router  *)
(* there, or by the destination; only the last answer of a kind is kept.     *)
PrAnswer(p) ==
  IF p.ttl < PrFar
    THEN /\ prExceeded' = [src |-> <<p.dest, p.ttl>>, id |-> p.id, seq |-> p.seq, run |-> p.run,
                           tick |-> prTick]
         /\ UNCHANGED <<prTick, prEcho, prGen, prCmd, prRun, prWire, prSaw>>
    ELSE /\ prEcho' = [src |-> <<p.dest, PrFar>>, id |-> p.id, seq |-> p.seq, run |-> p.run]
         /\ UNCHANGED <<prTick, prExceeded, prGen, prCmd, prRun, prWire, prSaw>>

PrNext ==
  \/ \E w \in PrShells :
       \/ cmd_ping(w) \/ cmd_traceroute(w)
       \/ PingTakes(w) \/ PingSends(w) \/ PingGot(w) \/ PingTimeout(w) \/ PingEnds(w)
       \/ TraceSends(w) \/ TraceWaits(w) \/ TraceGot(w) \/ TraceTimeout(w)
       \/ TraceNoBuffer(w) \/ TraceAborts(w)
  \/ \E p \in prWire : PrAnswer(p)
  \/ PrTickStep

-----------------------------------------------------------------------------
(* traceroute stays inside its hops and its probes, ping inside its requests. *)
PrTypeOK ==
  \A w \in PrShells :
    /\ prCmd[w].at \in {"idle", "probe", "number", "sent", "wait"}
    /\ prCmd[w].kind = "trace" => prCmd[w].ttl \in 1 .. PrHops /\ prCmd[w].probe \in 0 .. PrProbes - 1
    /\ prCmd[w].kind = "ping" => prCmd[w].probe \in 0 .. PrPings

(* A reply that ping counts answers a request of this very ping, not one of  *)
(* an earlier ping or of the one in the other shell, unless the two took     *)
(* their number at the same time.                                            *)
PingCountsOwn == ~prSaw.raced => \A x \in prSaw.pongs : x.answers = x.run

(* The address traceroute prints for a hop is one at that distance, on the   *)
(* way to what this run or another one traced.                               *)
TraceAtDistance == \A x \in prSaw.hops : x.src[2] = x.ttl \/ (x.ttl >= PrFar /\ x.src[2] = PrFar)

(* Without the exception: ++ping_seq_gen gives every request its own number. *)
PingNumbersApart == \A x \in prSaw.pongs : x.answers = x.run
(* The address printed answers a probe of this run.                          *)
TraceThisRun == \A x \in prSaw.hops : x.answers = x.run
(* An answer that has come for the probe being waited for is seen: not when  *)
(* it came in the tick in which the wait began (tick > wait_start).          *)
TraceSeesFastHop ==
  \A w \in PrShells :
    LET c == prCmd[w] IN
    c.kind = "trace" /\ c.at = "wait" /\ prExceeded.id = "trace" /\ prExceeded.seq = c.seq
      /\ prExceeded.run = c.run /\ prExceeded.tick # 0 => TraceExceeded(c)
=============================================================================
