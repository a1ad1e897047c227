------------------------------- MODULE WebApps -------------------------------
(***************************************************************************)
(* The HTTP server (src/src/http.c), the registry of installed web apps      *)
(* (webreg.c), appinstall and the running of scripts (kernel.c, ajlang.c).   *)
(* Requests are handled in the network interrupt, or by the shell while it   *)
(* polls the network; the shell installs apps and runs scripts of its own.   *)
(* An app's text is a sequence of pieces; a piece <<v, "import">> names      *)
(* a package, a piece <<v, "code">> prints.                                  *)
(***************************************************************************)
EXTENDS Integers, Sequences, SequencesExt, FiniteSets

CONSTANTS
  WebSlots,      \* WEBREG_MAX
  WebCap,        \* WEBREG_APPCAP, in pieces
  WebNames,      \* names of apps
  WebFiles,      \* those with a file under webapp/
  WebInstalls,   \* bound: appinstall commands
  WebConns,      \* connections to port 80
  WebScript      \* statements of the script the shell runs

VARIABLES
  reg,           \* webreg_slots
  inst,          \* the shell's appinstall: at, name, text, slot, next piece, number
  http,          \* the POST of each connection whose body is still to come: name, route
  sent,          \* history: the last reply: kind, whole, asked for a redirect
  web,           \* the app run by a poll and its page, NoRun when none (webapp_busy)
  aj,            \* the interpreter's globals: src, pos, n (g_tokens), cap (g_out_buf)
  script,        \* the shell's `ajlang` command: at, done, what reached the console, and
                 \* history: whether it ended short, whether an app ran since it started
  live           \* history: the text the last completed install left under each name

webVars == <<reg, inst, http, sent, web, aj, script, live>>

WSlots == 1 .. WebSlots
NoText == <<>>
FileText == <<<<0, "import">>, <<0, "code">>>>           \* one of Texts(0)
Texts(v) == {<<<<v, "code">>>>, <<<<v, "import">>, <<v, "code">>>>}
BlankPiece == <<0, "blank">>
NotFound == [kind |-> "404", whole |-> TRUE, asked |-> FALSE]
NoRun == [c |-> 0, page |-> NotFound]
NoRequest == [name |-> "", route |-> "none"]
Requests == [name : WebNames, route : {"app", "raw"}] \cup [name : {""}, route : {"auth", "other"}]

(* ---- webreg.c ------------------------------------------------------------- *)
SlotsOf(name) == {i \in WSlots : reg[i].used /\ reg[i].name = name}
FirstSlot(S) == CHOOSE i \in S : \A j \in S : i <= j
TextOf(i) == SubSeq(reg[i].buf, 1, reg[i].len)
webreg_lookup(name) == IF SlotsOf(name) = {} THEN NoText ELSE TextOf(FirstSlot(SlotsOf(name)))
InstallSlot(name) ==
  IF SlotsOf(name) # {} THEN SlotsOf(name) ELSE {i \in WSlots : ~reg[i].used}
(* The end of the text is marked one byte past it: behind a text as long as  *)
(* the buffer that is the low byte of the next slot's used.                  *)
Terminated(r, i, len) ==
  IF len = WebCap /\ i < WebSlots THEN [r EXCEPT ![i + 1].used = FALSE] ELSE r
Stored(r, i, len) == [Terminated(r, i, len) EXCEPT ![i].len = len]

(* ---- the shell: appinstall ------------------------------------------------- *)
NoInst == [at |-> "idle", name |-> "", text |-> NoText, slot |-> 0, k |-> 0]
ShellFree == inst.at = "idle" /\ script.at = 0 /\ web = NoRun
(* appinstall_fetch connects (twice), asks and polls until the answer is     *)
(* there, the store closes, or 20 seconds are over.                          *)
appinstall_fetch(name) ==
  /\ ShellFree /\ live.n < WebInstalls /\ live' = [live EXCEPT !.n = @ + 1]
  /\ inst' = [NoInst EXCEPT !.at = "wait", !.name = name]
  /\ UNCHANGED <<reg, http, sent, web, aj, script>>
(* No connection, no answer, a status other than 200 or an HTML page: given  *)
(* up. A text longer than the registry's buffer is cut off.                  *)
FetchFails ==
  /\ inst.at = "wait" /\ web = NoRun /\ inst' = NoInst /\ UNCHANGED <<reg, http, sent, web, aj, script, live>>
webreg_install(text) ==
  LET S == InstallSlot(inst.name)
      new == SlotsOf(inst.name) = {} \/ FirstSlot(S) \notin SlotsOf(inst.name)
  IN  /\ inst.at = "wait" /\ web = NoRun /\ UNCHANGED <<http, sent, web, aj, script, live>>
      /\ IF S = {} THEN inst' = NoInst /\ UNCHANGED reg              \* registry full
         ELSE /\ inst' = [inst EXCEPT !.at = IF new THEN "name" ELSE "copy", !.text = text,
                                      !.slot = FirstSlot(S), !.k = 1]
              /\ reg' = [reg EXCEPT ![FirstSlot(S)].used = TRUE]
InstallNames ==
  /\ inst.at = "name" /\ inst' = [inst EXCEPT !.at = "copy"]
  /\ reg' = [reg EXCEPT ![inst.slot].name = inst.name] /\ UNCHANGED <<http, sent, web, aj, script, live>>
InstallCopies ==
  /\ inst.at = "copy" /\ inst.k <= Len(inst.text) /\ inst' = [inst EXCEPT !.k = @ + 1]
  /\ reg' = [reg EXCEPT ![inst.slot].buf[inst.k] = inst.text[inst.k]]
  /\ UNCHANGED <<http, sent, web, aj, script, live>>
InstallEnds ==
  /\ inst.at = "copy" /\ inst.k > Len(inst.text) /\ inst' = NoInst
  /\ reg' = Stored(reg, inst.slot, Len(inst.text))
  /\ live' = [live EXCEPT !.text[inst.name] = inst.text] /\ UNCHANGED <<http, sent, web, aj, script>>
webreg_remove(name) ==
  /\ ShellFree /\ SlotsOf(name) # {} /\ live' = [live EXCEPT !.text[name] = NoText]
  /\ reg' = [i \in WSlots |-> IF i \in SlotsOf(name) THEN [reg[i] EXCEPT !.used = FALSE] ELSE reg[i]]
  /\ UNCHANGED <<inst, http, sent, web, aj, script>>
FetchEnds == FetchFails \/ \E t \in Texts(live.n) : webreg_install(t)
cmd_appinstall(name) == appinstall_fetch(name) \/ webreg_remove(name)

(* ---- the interpreter -------------------------------------------------------- *)
(* ajlang_run starts at the first token; run_statement takes the next one.   *)
Loaded(who, n) == [aj EXCEPT !.src = who, !.n = n, !.pos = 0]
ScriptStarts ==
  /\ ShellFree /\ ~script.done /\ script' = [script EXCEPT !.at = 1, !.cut = FALSE]
  /\ aj' = Loaded("shell", WebScript) /\ UNCHANGED <<reg, inst, http, sent, web, live>>
ScriptStep ==
  /\ script.at > 0 /\ web = NoRun /\ aj.pos < aj.n /\ aj' = [aj EXCEPT !.pos = @ + 1]
  /\ script' = [script EXCEPT !.at = @ + 1, !.out = IF aj.cap THEN @ ELSE Append(@, aj.src)]
  /\ UNCHANGED <<reg, inst, http, sent, web, live>>
ScriptEnds ==
  /\ script.at > 0 /\ web = NoRun /\ aj.pos >= aj.n
  /\ script' = [script EXCEPT !.at = 0, !.done = TRUE, !.short = script.at <= WebScript]
  /\ UNCHANGED <<reg, inst, http, sent, web, aj, live>>

(* ---- requests ---------------------------------------------------------------- *)
(* ajlang_splice_imports loads the packages and overwrites the import lines  *)
(* in the text it is given, which for an installed app is the registry's.    *)
Spliced(text) == [i \in DOMAIN text |-> IF text[i][2] = "import" THEN BlankPiece ELSE text[i]]
SplicedReg(name) ==
  IF SlotsOf(name) = {} THEN reg
  ELSE LET i == FirstSlot(SlotsOf(name))
       IN  [reg EXCEPT ![i].buf = [k \in 1 .. WebCap |-> IF k <= reg[i].len THEN Spliced(TextOf(i))[k]
                                                         ELSE @[k]]]
(* ajlang_run_webapp(_buf): what the page is made of, and the interpreter     *)
(* afterwards. The capture buffer stays set.                                  *)
AppText(name) ==
  IF webreg_lookup(name) # NoText THEN webreg_lookup(name)
  ELSE IF name \in WebFiles THEN FileText ELSE NoText
AppRun(by) ==                                                   \* at the end of its tokens
  /\ aj' = [src |-> by, n |-> 1, pos |-> 1, cap |-> TRUE]
  /\ script' = [script EXCEPT !.cut = @ \/ script.at > 0]
(* web_redirect sets the flag, webreq_end clears it, and only then is it     *)
(* looked at.                                                                *)
webreq_begin == FALSE
webreq_end(flag) == FALSE
webreq_take_redirect(asked) == webreq_end(webreq_begin \/ asked)

(* Whether a text is one version of an app from its first piece to its last  *)
(* (import lines may be blank), or was served while its slot was written.    *)
OneVersion(text) ==
  \E t \in Texts(text[Len(text)][1]) :
    Len(t) = Len(text) /\ \A i \in DOMAIN t : text[i] = t[i] \/ (t[i][2] = "import" /\ text[i] = BlankPiece)
MidInstall(name) == inst.slot # 0 /\ reg[inst.slot].used /\ reg[inst.slot].name = name
Served(kind, name, asked) ==
  [kind |-> kind, whole |-> MidInstall(name) \/ OneVersion(AppText(name)), asked |-> asked]
PageOf(name, asked) == Served(IF webreq_take_redirect(asked) THEN "302" ELSE "page", name, asked)
Answered(c, r) == http' = [http EXCEPT ![c] = NoRequest] /\ sent' = r
MayRun_Always == TRUE                                            \* mutant: webapp_busy not looked at
MayRun == web = NoRun
http_handle_webapp(c, name) ==
  LET text == AppText(name)
  IN  IF text = NoText \/ ~MayRun THEN Answered(c, NotFound) /\ UNCHANGED <<reg, aj, script>>
      ELSE /\ \E asked \in BOOLEAN : Answered(c, PageOf(name, asked))
           /\ reg' = SplicedReg(name) /\ AppRun("irq")
http_handle_raw_app(c, name) ==
  /\ UNCHANGED <<reg, aj, script>>
  /\ Answered(c, IF AppText(name) = NoText THEN NotFound ELSE Served("raw", name, FALSE))
(* The other routes are answered with a page that is a file or built in,     *)
(* http_handle_auth with a redirect (the grant is in module Auth).           *)
http_static(c, kind) == Answered(c, [NotFound EXCEPT !.kind = kind]) /\ UNCHANGED <<reg, aj, script>>

http_handle_auth(c) == http_static(c, "302")
http_handle_connection(c, req) ==
  /\ UNCHANGED <<inst, web, live>>
  /\ CASE req.route = "app" -> http_handle_webapp(c, req.name)
       [] req.route = "raw" -> http_handle_raw_app(c, req.name)
       [] req.route = "auth" -> http_handle_auth(c)
       [] OTHER -> http_static(c, "login")
(* tcp_check_http_data waits for the headers and, of a POST, for the body;   *)
(* of the POSTs the login form is modelled.                                  *)
HeadersOfPost(c, req) ==
  /\ http[c] = NoRequest /\ web.c # c /\ req.route = "auth"
  /\ http' = [http EXCEPT ![c] = req] /\ UNCHANGED <<reg, inst, sent, web, aj, script, live>>
tcp_check_http_data(c, req) ==
  /\ web.c # c /\ \/ http[c] = NoRequest /\ req.route # "auth"
                  \/ http[c] = req
  /\ http_handle_connection(c, req)
(* The shell polls while it waits for the store: an app it runs there can be *)
(* interrupted by other requests until it ends.                              *)
PolledAppStarts(c, name) ==
  /\ web = NoRun /\ inst.at = "wait" /\ http[c] = NoRequest
  /\ AppText(name) # NoText /\ reg' = SplicedReg(name)
  /\ web' = [c |-> c, page |-> PageOf(name, FALSE)]
  /\ AppRun("poll") /\ UNCHANGED <<inst, http, sent, live>>
(* Another run would have taken the tokens and the output buffer.            *)
PolledAppEnds ==
  /\ web # NoRun /\ web' = NoRun /\ UNCHANGED <<reg, inst, http, aj, script, live>>
  /\ sent' = IF aj.src = "poll" THEN web.page ELSE [web.page EXCEPT !.whole = FALSE]

WebInit ==
  /\ reg = [i \in WSlots |-> [used |-> FALSE, name |-> "", buf |-> [k \in 1 .. WebCap |-> BlankPiece], len |-> 0]]
  /\ inst = NoInst /\ web = NoRun /\ sent = NotFound /\ aj = [src |-> "shell", pos |-> 0, n |-> 0, cap |-> FALSE]
  /\ http = [c \in WebConns |-> NoRequest]
  /\ script = [at |-> 0, out |-> <<>>, done |-> FALSE, short |-> FALSE, cut |-> FALSE]
  /\ live = [n |-> 0, text |-> [n \in WebNames |-> NoText]]
WebNext ==
  \/ \E n \in WebNames : cmd_appinstall(n)
  \/ FetchEnds
  \/ InstallNames \/ InstallCopies \/ InstallEnds
  \/ ScriptStarts \/ ScriptStep \/ ScriptEnds
  \/ \E c \in WebConns : \/ \E q \in Requests : HeadersOfPost(c, q) \/ tcp_check_http_data(c, q)
                         \/ \E n \in WebNames : PolledAppStarts(c, n)
  \/ PolledAppEnds

(* Two slots never hold an app of the same name once its install is over:    *)
(* an install replaces (webreg_install).                                     *)
WebTypeOK ==
  /\ inst.at = "idle" => \A n \in WebNames : Cardinality(SlotsOf(n)) <= 1
  /\ \A i \in WSlots : reg[i].len <= WebCap
  /\ web # NoRun => inst.at = "wait" /\ http[web.c] = NoRequest

(* Apart from requests that hit an install of that app half done, what is    *)
(* served is one version of the app from its first piece to its last; only   *)
(* import lines can be missing from it (webreg_lookup, http_handle_raw_app). *)
ServedWhole == sent.whole

(* A script of the shell ends before its last statement only if an app ran   *)
(* in between, and before any app has run all it prints is on the console:   *)
(* the interpreter's globals are shared (ajlang_run, aj_out_puts).           *)
ScriptsRunThrough ==
  /\ script.short => script.cut
  /\ ~aj.cap => script.out = [i \in 1 .. (IF script.done THEN WebScript ELSE Len(script.out)) |-> "shell"]

(* An installed app is found under its name, as installed, until it is       *)
(* replaced or removed.                                                      *)
InstallSurvives ==
  \A n \in WebNames : inst.at = "idle" /\ live.text[n] # NoText => webreg_lookup(n) = live.text[n]

(* An installed app is lost or changed only in two ways: an install that     *)
(* fills the buffer of the slot before it, or a request that spliced its     *)
(* imports (webreg_install, ajlang_splice_imports).                          *)
InstallChangesOnly ==
  \A n \in WebNames : inst.at = "idle" /\ live.text[n] # NoText /\ webreg_lookup(n) # live.text[n] =>
    \/ Spliced(live.text[n]) = webreg_lookup(n)
    \/ /\ SlotsOf(n) = {}
       /\ \E i \in WSlots \ {1} : ~reg[i].used /\ reg[i].name = n /\ reg[i - 1].len = WebCap

(* A script that asked for a redirect is answered with one.                  *)
RedirectReported ==
  sent.asked /\ sent.kind # "404" => sent.kind = "302"
=============================================================================
