--------------------------------- MODULE Sftp ------------------------------
(***************************************************************************)
(* The SFTP server (src/src/sftp.c) on the boot volume's root directory.    *)
(*                                                                          *)
(* A session buffers what the channel delivers (sftp_feed) and dispatches   *)
(* complete requests (sftp_process_pending), one at a time in the whole     *)
(* system.  While a reply is being sent the network runs: more data is fed, *)
(* the connection may go, another may take the session slot.  A file's data *)
(* is loaded at the first use of its handle and stored when it is closed.   *)
(* The root is listed from the directory as it was at boot, corrected by    *)
(* two bounded lists of what SFTP has removed and added since.              *)
(*                                                                          *)
(* A file is the sequence of its bytes; a directory is DIR.                 *)
(***************************************************************************)
EXTENDS Integers, Sequences, SequencesExt, FiniteSets, FiniteSetsExt

CONSTANTS
  SfConns,      \* SSH connections
  SfSlots,      \* SFTP_MAX_SESSIONS
  SfHandles,    \* SFTP_MAX_HANDLES
  SfNames,      \* names in the root
  SfFlags,      \* flags of OPEN: sets of "W", "T", "C", "A", "X"
  SfMaxFile,    \* SFTP_MAX_FILE
  SfRxMax,      \* requests that fit into rx_store
  SfDelta,      \* SFTP_ROOT_DELTA
  SfOpens,      \* bound: handles opened by a session
  SfChanges     \* bound: changes of the root directory

DIR == <<-1>>
NoConn == "none"

VARIABLES
  sfSess,     \* sftp_sessions[]: conn, rx (requests buffered), next_id, handles
  sfRun,      \* sftp_dispatching: the slot, and the connection being answered
  sfDisk,     \* the root directory: name -> content
  sfSnap,     \* sftp_boot_root: name -> size
  sfGone,     \* sftp_root_gone
  sfExtra,    \* sftp_root_extra: sequence of [name, size]
  sfOwed,     \* history: requests fed and not answered, by connection; -1 unknown
  sfStale,    \* history: names the lists could not follow
  sfGhost,    \* history: names announced by OPEN and not yet stored
  sfMoved,    \* history: the last rename, while nothing else has happened
  sfCount     \* changes of the root directory so far

sfVars == <<sfSess, sfRun, sfDisk, sfSnap, sfGone, sfExtra, sfOwed, sfStale, sfGhost, sfMoved, sfCount>>

NoHandle == [id |-> 0, dir |-> FALSE, name |-> "", flags |-> {}, has |-> FALSE, data |-> <<>>,
             size |-> 0, tried |-> FALSE, dirty |-> FALSE, exp |-> <<>>, known |-> FALSE]
NoSess == [conn |-> NoConn, rx |-> 0, next |-> 0, hs |-> [h \in 1 .. SfHandles |-> NoHandle]]
NotRunning == [slot |-> 0, conn |-> NoConn]
NoMove == [old |-> "", new |-> "", data |-> <<>>]

SfSize(c) == IF c = DIR THEN 0 ELSE Len(c)

SfInit ==
  /\ sfSess = [i \in 1 .. SfSlots |-> NoSess]
  /\ sfRun = NotRunning
  /\ sfDisk = ((CHOOSE f \in SfNames : TRUE) :> <<1>>)
  /\ sfSnap = [n \in DOMAIN sfDisk |-> SfSize(sfDisk[n])]
  /\ sfGone = <<>> /\ sfExtra = <<>>
  /\ sfOwed = [c \in SfConns |-> 0]
  /\ sfStale = {} /\ sfGhost = {} /\ sfMoved = NoMove /\ sfCount = 0

-----------------------------------------------------------------------------
(* The root directory and the lists that correct its snapshot.               *)

Noted(g, x) == [gone |-> g, extra |-> x]
Lists == Noted(sfGone, sfExtra)

(* sftp_root_note: the name leaves both lists and joins one, if it has room. *)
sftp_root_note(l, n, size, gone) ==
  LET g == SelectSeq(l.gone, LAMBDA x : x # n)
      e == SelectSeq(l.extra, LAMBDA x : x.name # n)
  IN  IF gone THEN Noted(IF Len(g) < SfDelta THEN Append(g, n) ELSE g, e)
      ELSE Noted(g, IF Len(e) < SfDelta THEN Append(e, [name |-> n, size |-> size]) ELSE e)

(* sftp_apply_root_overlay: the size a name is listed with, -1 if it is not. *)
Extras(l, n) == SelectSeq(l.extra, LAMBDA x : x.name = n)
sftp_apply_root_overlay(l, n) ==
  IF Extras(l, n) # <<>> THEN Last(Extras(l, n)).size
  ELSE IF n \in DOMAIN sfSnap /\ ~Contains(l.gone, n) THEN sfSnap[n] ELSE -1
Listed(n) == sftp_apply_root_overlay(Lists, n)
Room(l, n, gone) ==
  IF gone THEN Len(SelectSeq(l.gone, LAMBDA x : x # n)) < SfDelta
  ELSE Len(SelectSeq(l.extra, LAMBDA x : x.name # n)) < SfDelta

(* The lists, and what is known of them, after a change of name n.           *)
Follow(n, size, gone) ==
  LET l == sftp_root_note(Lists, n, size, gone)
  IN  /\ sfGone' = l.gone /\ sfExtra' = l.extra
      /\ sfStale' = IF Room(Lists, n, gone) THEN sfStale \ {n} ELSE sfStale \cup {n}
ListsUnchanged == UNCHANGED <<sfGone, sfExtra, sfStale>>
RootUnchanged == ListsUnchanged /\ UNCHANGED <<sfDisk, sfGhost>>

FileAt(n) == n \in DOMAIN sfDisk /\ sfDisk[n] # DIR
IsDir(n) == n \in DOMAIN sfDisk /\ sfDisk[n] = DIR

(* sftp_store_file, sftp_remove_file: the disk, then the lists; ok says      *)
(* whether the file system did it.                                           *)
sftp_store_file(n, bytes, ok) ==
  IF ok /\ ~IsDir(n)
    THEN /\ sfDisk' = (n :> bytes) @@ sfDisk
         /\ sfGhost' = sfGhost \ {n}
         /\ Follow(n, Len(bytes), FALSE)
    ELSE RootUnchanged
sftp_remove_file(n, ok) ==
  IF ok /\ FileAt(n)
    THEN /\ sfDisk' = [x \in DOMAIN sfDisk \ {n} |-> sfDisk[x]]
         /\ sfGhost' = sfGhost
         /\ Follow(n, 0, TRUE)
    ELSE RootUnchanged

-----------------------------------------------------------------------------
(* Sessions. *)

SessOf(c) == {i \in 1 .. SfSlots : sfSess[i].conn = c}

(* sftp_session_init: the connection's session, if any, goes first.          *)
sftp_session_init(c) ==
  LET closed == [i \in 1 .. SfSlots |-> IF sfSess[i].conn = c THEN NoSess ELSE sfSess[i]]
      free   == {i \in 1 .. SfSlots : closed[i].conn = NoConn}
  IN  /\ SessOf(c) = {} /\ free # {}
      /\ sfSess' = [closed EXCEPT ![Min(free)] = [NoSess EXCEPT !.conn = c, !.next = 1]]
      /\ sfOwed' = [sfOwed EXCEPT ![c] = 0]
      /\ UNCHANGED sfRun /\ sfMoved' = NoMove /\ RootUnchanged

(* sftp_session_close: the handles are freed, what they hold is not stored.  *)
sftp_session_close(c) ==
  /\ SessOf(c) # {}
  /\ sfSess' = [i \in 1 .. SfSlots |-> IF sfSess[i].conn = c THEN NoSess ELSE sfSess[i]]
  /\ sfOwed' = [sfOwed EXCEPT ![c] = 0]
  /\ sfRun' = IF sfRun.conn = c THEN [sfRun EXCEPT !.conn = NoConn] ELSE sfRun
  /\ sfMoved' = NoMove /\ RootUnchanged

(* sftp_feed: a request; when it does not fit, everything buffered is        *)
(* dropped.                                                                  *)
sftp_feed(c) ==
  \E i \in SessOf(c) :
    /\ IF sfSess[i].rx < SfRxMax
         THEN /\ sfSess' = [sfSess EXCEPT ![i].rx = @ + 1]
              /\ sfOwed' = [sfOwed EXCEPT ![c] = IF @ < 0 THEN @ ELSE @ + 1]
         ELSE /\ sfSess' = [sfSess EXCEPT ![i].rx = 0]
              /\ sfOwed' = [sfOwed EXCEPT ![c] = -1]
    /\ UNCHANGED sfRun /\ sfMoved' = NoMove /\ RootUnchanged

(* sftp_process_pending takes the next request: no other is being answered,  *)
(* or this is the next turn of the loop that runs.                           *)
Taken(i) == [sfSess EXCEPT ![i].rx = @ - 1]
CanDispatch(i) == sfRun.slot = 0 /\ sfSess[i].conn # NoConn /\ sfSess[i].rx > 0
Answer(i) ==
  /\ sfRun' = [slot |-> i, conn |-> sfSess[i].conn]
  /\ UNCHANGED sfOwed

(* The reply has been sent; a session closed meanwhile has none to send.     *)
SfReplied ==
  /\ sfRun.slot # 0
  /\ sfRun' = NotRunning
  /\ sfOwed' = IF sfRun.conn # NoConn /\ sfOwed[sfRun.conn] > 0
                 THEN [sfOwed EXCEPT ![sfRun.conn] = @ - 1] ELSE sfOwed
  /\ UNCHANGED sfSess /\ sfMoved' = NoMove /\ RootUnchanged

-----------------------------------------------------------------------------
(* Handles. *)

FreeHandles(i) == {h \in 1 .. SfHandles : sfSess[i].hs[h].id = 0}
sftp_handle_by_id(i) == {h \in 1 .. SfHandles : sfSess[i].hs[h].id # 0}

sftp_handle_alloc(i) == sfSess[i].next + 1

(* OPEN: by what the listing says.  The handle is answered before the file   *)
(* is looked at, and a new name is announced before anything is written.     *)
SfOpen(i, n, fl) ==
  LET exists == Listed(n) >= 0
      new    == "C" \in fl /\ ~exists
      empty  == "T" \in fl \/ new
      h      == Min(FreeHandles(i))
  IN  /\ CanDispatch(i) /\ sfSess[i].next <= SfOpens /\ Answer(i)
      /\ IF (exists /\ IsDir(n)) \/ (exists /\ {"C", "X"} \subseteq fl) \/ ~(exists \/ "C" \in fl)
            \/ FreeHandles(i) = {}
           THEN sfSess' = Taken(i) /\ RootUnchanged
           ELSE /\ sfSess' = [Taken(i) EXCEPT
                     ![i].next = sftp_handle_alloc(i),
                     ![i].hs[h] = [NoHandle EXCEPT
                        !.id = sftp_handle_alloc(i), !.name = n, !.flags = fl,
                        !.size = IF empty THEN 0 ELSE Listed(n),
                        !.dirty = empty, !.tried = empty,
                        !.exp = IF ~empty /\ FileAt(n) THEN sfDisk[n] ELSE <<>>,
                        !.known = empty \/ FileAt(n)]]
                /\ IF new THEN Follow(n, 0, FALSE) /\ sfGhost' = sfGhost \cup {n}
                   ELSE ListsUnchanged /\ UNCHANGED sfGhost
                /\ UNCHANGED sfDisk
      /\ sfMoved' = NoMove

(* OPENDIR of the root. *)
SfOpenDir(i) ==
  LET h == Min(FreeHandles(i))
  IN  /\ CanDispatch(i) /\ sfSess[i].next <= SfOpens /\ FreeHandles(i) # {} /\ Answer(i)
      /\ sfSess' = [Taken(i) EXCEPT ![i].next = sftp_handle_alloc(i),
                      ![i].hs[h] = [NoHandle EXCEPT !.id = sftp_handle_alloc(i), !.dir = TRUE]]
      /\ sfMoved' = NoMove /\ RootUnchanged

(* sftp_ensure_loaded: once; ok says whether reading the file succeeds.      *)
sftp_ensure_loaded(hd, ok) ==
  IF hd.has \/ hd.tried THEN hd
  ELSE IF ok /\ FileAt(hd.name)
    THEN [hd EXCEPT !.tried = TRUE, !.has = TRUE, !.data = sfDisk[hd.name],
                    !.size = Len(sfDisk[hd.name])]
    ELSE [hd EXCEPT !.tried = TRUE, !.known = FALSE, !.exp = <<>>]

Zeros(n) == [j \in 1 .. n |-> 0]
Grown(d, n) == [j \in 1 .. n |-> IF j <= Len(d) THEN d[j] ELSE 0]
Upto(d, n) == SubSeq(d, 1, Min({n, Len(d)}))

(* READ loads; WRITE of one byte loads, grows the buffer and puts the byte.  *)
SfRead(i, h, ok) ==
  LET hd == sfSess[i].hs[h]
  IN  /\ CanDispatch(i) /\ ~hd.dir /\ Answer(i)
      /\ sfSess' = [Taken(i) EXCEPT ![i].hs[h] =
                      IF "T" \in hd.flags THEN hd ELSE sftp_ensure_loaded(hd, ok)]
      /\ sfMoved' = NoMove /\ RootUnchanged

Written(hd, off, v) ==
  LET d == IF Len(hd.data) >= off + 1 THEN hd.data ELSE Grown(Upto(hd.data, hd.size), off + 1)
  IN  [hd EXCEPT !.has = TRUE, !.dirty = TRUE,
                 !.data = [d EXCEPT ![off + 1] = v],
                 !.size = IF off + 1 > @ THEN off + 1 ELSE @,
                 !.exp = IF hd.known THEN [Grown(@, Max({off + 1, Len(@)})) EXCEPT ![off + 1] = v] ELSE @]
SfWrite(i, h, at, v, ok, mem) ==
  LET hd  == sfSess[i].hs[h]
      ld  == IF "T" \in hd.flags THEN hd ELSE sftp_ensure_loaded(hd, ok)
      off == IF "A" \in hd.flags THEN (IF ld.has THEN ld.size ELSE hd.size) ELSE at
  IN  /\ CanDispatch(i) /\ ~hd.dir /\ "W" \in hd.flags /\ Answer(i)
      /\ sfSess' = [Taken(i) EXCEPT ![i].hs[h] =
                      IF off + 1 > SfMaxFile \/ (off + 1 > Len(ld.data) /\ ~mem) THEN ld
                      ELSE Written(ld, off, v)]
      /\ sfMoved' = NoMove /\ RootUnchanged

(* FSETSTAT with a size: sftp_handle_resize. *)
sftp_handle_resize(hd, n, ok, mem) ==
  LET ld == IF "T" \in hd.flags THEN hd ELSE sftp_ensure_loaded(hd, ok)
      exp == IF ~ld.known THEN <<>> ELSE IF n <= Len(hd.exp) THEN Upto(hd.exp, n) ELSE Grown(hd.exp, n)
  IN  IF n = 0 THEN [hd EXCEPT !.has = FALSE, !.data = <<>>, !.size = 0, !.tried = TRUE,
                               !.dirty = TRUE, !.exp = <<>>, !.known = TRUE]
      ELSE IF n > SfMaxFile THEN hd
      ELSE IF n > Len(ld.data) /\ ~mem THEN ld
      ELSE [ld EXCEPT !.has = TRUE, !.size = n, !.dirty = TRUE, !.tried = TRUE, !.exp = exp,
              !.data = IF n > Len(ld.data) THEN Grown(Upto(ld.data, ld.size), n)
                       ELSE [j \in DOMAIN ld.data |-> IF j > ld.size /\ j <= n THEN 0 ELSE ld.data[j]]]
SfResize(i, h, n, ok, mem) ==
  /\ CanDispatch(i) /\ ~sfSess[i].hs[h].dir /\ Answer(i)
  /\ sfSess' = [Taken(i) EXCEPT ![i].hs[h] = sftp_handle_resize(@, n, ok, mem)]
  /\ sfMoved' = NoMove /\ RootUnchanged

(* A file that changed under a handle that has not loaded it.                *)
Others(sess, n) ==
  [i \in 1 .. SfSlots |->
     [sess[i] EXCEPT !.hs = [h \in 1 .. SfHandles |->
        IF @[h].name = n /\ ~@[h].has /\ ~@[h].tried THEN [@[h] EXCEPT !.known = FALSE, !.exp = <<>>] ELSE @[h]]]]

(* CLOSE: stored if dirty; the handle goes whatever came of it.              *)
JUNKBYTE == 9   \* read from behind the buffer
ToStore(hd) == [j \in 1 .. hd.size |-> IF j <= Len(hd.data) THEN hd.data[j] ELSE JUNKBYTE]
SfClose(i, h, ok) ==
  LET hd == sfSess[i].hs[h]
      sess == [Taken(i) EXCEPT ![i].hs[h] = NoHandle]
  IN  /\ CanDispatch(i) /\ Answer(i)
      /\ IF hd.dirty THEN sftp_store_file(hd.name, ToStore(hd), ok) ELSE RootUnchanged
      /\ sfSess' = IF hd.dirty THEN Others(sess, hd.name) ELSE sess
      /\ sfMoved' = NoMove

-----------------------------------------------------------------------------
(* INIT, REALPATH, STAT, FSTAT, READDIR, statvfs, fsync, and what is refused *)
(* for its form or its handle: answered, nothing changes.                    *)
SfAnswerOnly(i) ==
  /\ CanDispatch(i) /\ Answer(i)
  /\ sfSess' = Taken(i)
  /\ sfMoved' = NoMove /\ RootUnchanged

(* Requests that name files. *)

SfRemove(i, n, ok) ==
  /\ CanDispatch(i) /\ Answer(i)
  /\ sftp_remove_file(n, ok)
  /\ sfSess' = Others(Taken(i), n)
  /\ sfMoved' = NoMove

(* MKDIR and RMDIR; a directory is never filled here. *)
sftp_do_mkdir(i, n) ==
  /\ CanDispatch(i) /\ Answer(i)
  /\ IF n \notin DOMAIN sfDisk
       THEN sfDisk' = (n :> DIR) @@ sfDisk /\ Follow(n, 0, FALSE) /\ sfGhost' = sfGhost \ {n}
       ELSE RootUnchanged
  /\ sfSess' = Others(Taken(i), n)
  /\ sfMoved' = NoMove
sftp_do_rmdir(i, n) ==
  /\ CanDispatch(i) /\ Answer(i)
  /\ IF IsDir(n) /\ Listed(n) >= 0
       THEN /\ sfDisk' = [x \in DOMAIN sfDisk \ {n} |-> sfDisk[x]]
            /\ sfGhost' = sfGhost
            /\ Follow(n, 0, TRUE)
       ELSE RootUnchanged
  /\ sfSess' = Others(Taken(i), n)
  /\ sfMoved' = NoMove

(* SETSTAT with a size: sftp_truncate_path. *)
sftp_truncate_path(i, n, size, ok, load) ==
  LET old == IF FileAt(n) /\ load THEN sfDisk[n] ELSE <<>>
  IN  /\ CanDispatch(i) /\ Answer(i) /\ size <= SfMaxFile
      /\ IF Listed(n) >= 0 /\ ~IsDir(n) THEN sftp_store_file(n, Grown(Upto(old, size), size), ok)
         ELSE RootUnchanged
      /\ sfSess' = Others(Taken(i), n)
      /\ sfMoved' = NoMove

(* RENAME and posix-rename: the target is removed, the source is copied,     *)
(* then removed.  Each part may fail and ends the rename there: got says how *)
(* far it comes.                                                             *)
RenameSteps_RemoveFirst == <<"target", "source", "store">>   \* mutant: the source goes first
RenameSteps == <<"target", "store", "source">>
RenameDone(got, what) == \E k \in 1 .. got : RenameSteps[k] = what
sftp_do_rename(i, old, new, over, got) ==
  LET target == Listed(new) >= 0
      copied == RenameDone(got, "store") /\ FileAt(old)
      gone   == (IF RenameDone(got, "target") /\ target THEN {new} ELSE {})
                \cup (IF RenameDone(got, "source") THEN {old} ELSE {})
      disk   == [x \in (DOMAIN sfDisk \ gone) |-> sfDisk[x]]
      l1     == IF RenameDone(got, "target") /\ target THEN sftp_root_note(Lists, new, 0, TRUE) ELSE Lists
      l2     == IF copied THEN sftp_root_note(l1, new, Len(sfDisk[old]), FALSE) ELSE l1
      l3     == IF RenameDone(got, "source") THEN sftp_root_note(l2, old, 0, TRUE) ELSE l2
      after  == IF copied THEN (new :> sfDisk[old]) @@ disk ELSE disk
  IN  /\ CanDispatch(i) /\ old # new /\ Answer(i)
      /\ FileAt(old) /\ Listed(old) >= 0 /\ ~IsDir(new)
      /\ target => over /\ FileAt(new)
      /\ got > 0
      /\ sfDisk' = after
      /\ sfGone' = l3.gone /\ sfExtra' = l3.extra
      /\ sfStale' = {n \in SfNames :
                       IF n = new /\ copied THEN ~Room(l1, n, FALSE)
                       ELSE IF n \in gone THEN ~Room(l2, n, TRUE)
                       ELSE n \in sfStale}
      /\ sfGhost' = IF copied THEN sfGhost \ {new} ELSE sfGhost
      /\ sfMoved' = [old |-> old, new |-> new, data |-> sfDisk[old]]
      /\ sfSess' = Others(Others(Taken(i), old), new)

(* The console writes or removes a file; SFTP's lists do not follow it.      *)
(* Bound: between sessions.                                                  *)
ConsoleWrites(n, c) ==
  /\ sfRun.slot = 0 /\ \A i \in 1 .. SfSlots : sfSess[i].conn = NoConn
  /\ ~IsDir(n)
  /\ sfDisk' = IF c = DIR THEN [x \in DOMAIN sfDisk \ {n} |-> sfDisk[x]] ELSE (n :> c) @@ sfDisk
  /\ sfStale' = sfStale \cup {n}
  /\ sfSess' = Others(sfSess, n)
  /\ sfMoved' = NoMove
  /\ UNCHANGED <<sfRun, sfGone, sfExtra, sfOwed, sfGhost>>

SfNext ==
  /\ UNCHANGED sfSnap
  /\ \/ \E c \in SfConns : sftp_session_init(c) \/ sftp_session_close(c) \/ sftp_feed(c)
     \/ SfReplied
     \/ \E i \in 1 .. SfSlots :
          \/ \E n \in SfNames, fl \in SfFlags : SfOpen(i, n, fl)
          \/ SfOpenDir(i) \/ SfAnswerOnly(i)
          \/ \E h \in sftp_handle_by_id(i), ok \in BOOLEAN : SfRead(i, h, ok) \/ SfClose(i, h, ok)
          \/ \E h \in sftp_handle_by_id(i), at \in 0 .. SfMaxFile, ok, mem \in BOOLEAN :
               SfWrite(i, h, at, 1, ok, mem) \/ SfResize(i, h, at, ok, mem)
          \/ \E n \in SfNames, ok \in BOOLEAN : SfRemove(i, n, ok)
          \/ \E n \in SfNames : sftp_do_mkdir(i, n) \/ sftp_do_rmdir(i, n)
          \/ \E n \in SfNames, z \in {0, SfMaxFile}, ok, ld \in BOOLEAN : sftp_truncate_path(i, n, z, ok, ld)
          \/ \E n, o \in SfNames, v \in BOOLEAN, g \in 1 .. 3 : sftp_do_rename(i, n, o, v, g)
     \/ \E n \in SfNames, c \in {DIR, <<>>} : ConsoleWrites(n, c)
  /\ sfCount' = IF sfDisk' # sfDisk THEN sfCount + 1 ELSE sfCount
  /\ sfCount' <= SfChanges

-----------------------------------------------------------------------------
LiveHandles == {x \in (1 .. SfSlots) \X (1 .. SfHandles) : sfSess[x[1]].hs[x[2]].id # 0}
Hd(x) == sfSess[x[1]].hs[x[2]]

(* Handles of a session have different identifiers, the buffered requests    *)
(* fit, and the lists keep their bound.                                      *)
SfTypeOK ==
  /\ \A x, y \in LiveHandles : x[1] = y[1] /\ x # y => Hd(x).id # Hd(y).id
  /\ \A i \in 1 .. SfSlots : sfSess[i].rx \in 0 .. SfRxMax
  /\ Len(sfGone) <= SfDelta /\ Len(sfExtra) <= SfDelta

(* What CLOSE will store is what the client wrote over what the file held,   *)
(* whenever the file is loaded, and CLOSE never reads behind its buffer,     *)
(* unless the load failed or the file changed before it.                     *)
SfStoresWrites ==
  \A x \in LiveHandles :
    LET hd == Hd(x) IN hd.dirty /\ hd.known => hd.size <= Len(hd.data) /\ ToStore(hd) = hd.exp

(* The listing of the root is the root: a name is listed with its size just  *)
(* when it is there, except for names OPEN has announced and nobody has      *)
(* stored, names the bounded lists had no room for, and what the console     *)
(* changed.                                                                  *)
SfListingRight ==
  \A n \in SfNames \ (sfStale \cup sfGhost) :
    Listed(n) = IF n \in DOMAIN sfDisk THEN SfSize(sfDisk[n]) ELSE -1

(* A rename, whichever part of it fails, leaves the file under one of the    *)
(* two names.                                                                *)
SfRenameKeeps ==
  sfMoved # NoMove => \E n \in {sfMoved.old, sfMoved.new} : n \in DOMAIN sfDisk /\ sfDisk[n] = sfMoved.data

(* Every request fed is buffered, being answered or answered, as long as the *)
(* buffer has not overflowed; connections that come and go while another is  *)
(* answered do not disturb that.                                             *)
SfNoneForgotten ==
  \A c \in SfConns : sfOwed[c] >= 0 =>
    sfOwed[c] = (IF SessOf(c) = {} THEN 0 ELSE sfSess[Min(SessOf(c))].rx)
                + (IF sfRun.conn = c THEN 1 ELSE 0)
=============================================================================
