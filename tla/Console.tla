------------------------------- MODULE Console -----------------------------
(***************************************************************************)
(* The keyboard and the line editor of the shell (src/src/kernel.c): the     *)
(* interrupt puts scancodes into a ring, input_getkey turns them into keys,  *)
(* and readline edits a line with a history and completion.  A command that  *)
(* polls for a key (ping, traceroute, nc) reads the same ring through        *)
(* input_getkey_noblock, which keeps an E0 flag of its own.                  *)
(*                                                                          *)
(* A scancode is a small string: the names of keys, "shift" and "shiftup",   *)
(* "E0", and what follows it.  A line is a sequence of characters.           *)
(***************************************************************************)
EXTENDS Integers, Sequences, SequencesExt, FiniteSets, FiniteSetsExt

CONSTANTS
  KbdBufSize,    \* KBD_BUF_SIZE: one place of it stays empty
  ConChars,      \* characters that keys produce
  LineCap,       \* LINE_MAX
  HistorySize,   \* HISTORY_SIZE
  ConWords,      \* commands, in the order of shell_commands
  TabMatchMax,   \* SHELL_TAB_MATCH_MAX
  ConLines       \* bound: lines entered

VARIABLES
  kbdBuf,      \* the ring: scancodes not yet read
  shiftDown,   \* keyboard_shift_down
  extPrefix,   \* ext_prefix of input_getkey
  extPoll,     \* ext_prefix of input_getkey_noblock
  polling,     \* a command polls the keyboard
  line,        \* readline: out, and the cursor pos
  browse,      \* readline: browsing, browse_pos, saved_line
  ring,        \* history[]
  histCount,   \* history_count
  held,        \* environment: Shift is held
  kbdLost,     \* history: a scancode was dropped, or eaten by a polling command
  entered      \* history: every line given to history_add

conVars == <<kbdBuf, shiftDown, extPrefix, extPoll, polling, line, browse, ring,
             histCount, held, kbdLost, entered>>

NoBrowse == [on |-> FALSE, at |-> 0, saved |-> <<>>]

ConInit ==
  /\ kbdBuf = <<>> /\ shiftDown = FALSE /\ extPrefix = FALSE /\ extPoll = FALSE
  /\ polling = FALSE
  /\ line = [s |-> <<>>, pos |-> 0]
  /\ browse = NoBrowse
  /\ ring = [i \in 0 .. HistorySize - 1 |-> <<>>]
  /\ histCount = 0
  /\ held = FALSE /\ kbdLost = FALSE
  /\ entered = <<>>

lineVars == <<line, browse, ring, histCount, entered>>
keyVars  == <<kbdBuf, shiftDown, extPrefix, extPoll, held, kbdLost>>

-----------------------------------------------------------------------------
(* kbd_push_scancode: one place of the ring stays empty; what does not fit   *)
(* is dropped.                                                               *)
kbd_push_scancode(sc) ==
  IF Len(kbdBuf) + 1 >= KbdBufSize THEN kbdBuf' = kbdBuf /\ kbdLost' = TRUE
  ELSE kbdBuf' = Append(kbdBuf, sc) /\ UNCHANGED kbdLost

Presses == ConChars \cup {"enter", "bs", "tab"}
Extended == {"up", "down", "left", "right", "del"}

(* The keyboard interrupt: a key, an extended key after its prefix, Shift.   *)
KeyPress(sc) ==
  /\ ~polling
  /\ kbd_push_scancode(sc)
  /\ UNCHANGED <<shiftDown, extPrefix, extPoll, polling, held, lineVars>>
ExtPress(sc) ==
  /\ kbdBuf = <<>> /\ ~polling      \* bound: an extended key into an empty ring
  /\ kbdBuf' = <<"E0", sc>>
  /\ UNCHANGED <<shiftDown, extPrefix, extPoll, polling, held, kbdLost, lineVars>>
ShiftKey ==
  /\ held' = ~held
  /\ kbd_push_scancode(IF held THEN "shiftup" ELSE "shift")
  /\ UNCHANGED <<shiftDown, extPrefix, extPoll, polling, lineVars>>

-----------------------------------------------------------------------------
(* readline *)

(* history_add: not twice in a row. *)
history_add(s) ==
  IF s = <<>> \/ (histCount > 0 /\ ring[(histCount - 1) % HistorySize] = s)
    THEN UNCHANGED <<ring, histCount, entered>>
    ELSE /\ ring' = [ring EXCEPT ![histCount % HistorySize] = s]
         /\ histCount' = histCount + 1
         /\ entered' = Append(entered, s)

history_get_Linear(i) == ring[IF i < HistorySize THEN i ELSE HistorySize - 1]   \* mutant
history_get(i) == ring[i % HistorySize]

(* shell_tab_complete for a command word: the words that begin with it, at   *)
(* most TabMatchMax of them; one replaces the word and adds a blank, several *)
(* extend it to what they have in common.  shell_apply_word refuses what     *)
(* does not fit.                                                             *)
Candidates(s) == SelectSeq(ConWords, LAMBDA w : IsPrefix(s, w))
shell_apply_word(s, w, blank) ==
  LET n == IF blank THEN Append(w, " ") ELSE w
  IN  IF Len(n) >= LineCap THEN s ELSE n
Common(ms) == LongestCommonPrefix(ToSet(ms))
shell_tab_complete(s) ==
  LET ms == SubSeq(Candidates(s), 1, Min({Len(Candidates(s)), TabMatchMax}))
  IN  IF Len(ms) = 1 THEN shell_apply_word(s, ms[1], TRUE)
      ELSE IF Len(ms) > 1 /\ Len(Common(ms)) > Len(s) THEN shell_apply_word(s, Common(ms), FALSE)
      ELSE s

Show(s) == line' = [s |-> s, pos |-> Len(s)]
HistoryUnchanged == UNCHANGED <<ring, histCount, entered>>

Enter ==
  /\ history_add(line.s)
  /\ line' = [s |-> <<>>, pos |-> 0]
  /\ browse' = NoBrowse
TabKey ==
  /\ IF line.pos = Len(line.s) THEN Show(shell_tab_complete(line.s)) ELSE UNCHANGED line
  /\ HistoryUnchanged /\ UNCHANGED browse
Backspace ==
  /\ line' = IF line.pos = 0 THEN line
             ELSE [s |-> RemoveAt(line.s, line.pos), pos |-> line.pos - 1]
  /\ HistoryUnchanged /\ UNCHANGED browse
Delete ==
  /\ line' = IF line.pos = Len(line.s) THEN line
             ELSE [line EXCEPT !.s = RemoveAt(line.s, line.pos + 1)]
  /\ HistoryUnchanged /\ UNCHANGED browse
Left  == /\ line' = [line EXCEPT !.pos = IF @ > 0 THEN @ - 1 ELSE @]
         /\ HistoryUnchanged /\ UNCHANGED browse
Right == /\ line' = [line EXCEPT !.pos = IF @ < Len(line.s) THEN @ + 1 ELSE @]
         /\ HistoryUnchanged /\ UNCHANGED browse

(* KEY_UP keeps the line being typed and shows ever older lines; KEY_DOWN    *)
(* goes back, after the newest to the kept line.  An empty history ignores   *)
(* both, and KEY_DOWN only works while browsing.                             *)
Up ==
  /\ HistoryUnchanged
  /\ IF histCount = 0 THEN UNCHANGED <<line, browse>>
     ELSE LET at == IF ~browse.on THEN histCount - 1
                    ELSE IF browse.at > 0 THEN browse.at - 1 ELSE 0
          IN  /\ browse' = [on |-> TRUE, at |-> at,
                            saved |-> IF browse.on THEN browse.saved ELSE line.s]
              /\ Show(history_get(at))
Down ==
  /\ HistoryUnchanged
  /\ IF histCount = 0 \/ ~browse.on THEN UNCHANGED <<line, browse>>
     ELSE IF browse.at < histCount - 1
       THEN browse' = [browse EXCEPT !.at = @ + 1] /\ Show(history_get(browse.at + 1))
       ELSE browse' = [browse EXCEPT !.on = FALSE] /\ Show(browse.saved)

(* A character goes in at the cursor if there is room, and ends browsing. *)
Insert(c) ==
  /\ HistoryUnchanged
  /\ IF Len(line.s) + 1 < LineCap
       THEN /\ line' = [s |-> InsertAt(line.s, line.pos + 1, c), pos |-> line.pos + 1]
            /\ browse' = [browse EXCEPT !.on = FALSE]
       ELSE UNCHANGED <<line, browse>>

Key(k) ==
  CASE k = "enter" -> Enter
    [] k = "tab"   -> TabKey
    [] k = "bs"    -> Backspace
    [] k = "del"   -> Delete
    [] k = "left"  -> Left
    [] k = "right" -> Right
    [] k = "up"    -> Up
    [] k = "down"  -> Down
    [] OTHER       -> Insert(k)

-----------------------------------------------------------------------------
(* input_getkey: one scancode of the ring. *)
input_getkey_shift(sc) ==
  IF sc = "shift" THEN TRUE ELSE IF sc = "shiftup" THEN FALSE ELSE shiftDown

input_getkey ==
  LET sc == Head(kbdBuf)
  IN  /\ ~polling /\ kbdBuf # <<>>
      /\ Len(entered) < ConLines
      /\ kbdBuf' = Tail(kbdBuf)
      /\ IF sc = "E0" THEN extPrefix' = TRUE /\ UNCHANGED <<shiftDown, lineVars>>
         ELSE IF extPrefix
           THEN /\ extPrefix' = FALSE /\ UNCHANGED shiftDown
                /\ IF sc \in Extended THEN Key(sc) ELSE UNCHANGED lineVars
         ELSE /\ UNCHANGED extPrefix
              /\ shiftDown' = input_getkey_shift(sc)
              /\ IF sc \in {"shift", "shiftup"} THEN UNCHANGED lineVars
                 ELSE IF sc \in Presses THEN Key(sc)
                 ELSE UNCHANGED lineVars         \* a code that is no key
      /\ UNCHANGED <<extPoll, polling, held, kbdLost>>

(* A polling command starts, reads (input_getkey_noblock: the presses it     *)
(* returns are thrown away, Shift among them) and ends.                      *)
PollStart == ~polling /\ polling' = TRUE /\ UNCHANGED <<keyVars, lineVars>>
input_getkey_noblock ==
  LET sc == Head(kbdBuf)
  IN  /\ polling /\ kbdBuf # <<>>
      /\ kbdBuf' = Tail(kbdBuf)
      /\ extPoll' = (sc = "E0")
      /\ shiftDown' = IF ~extPoll /\ sc = "shiftup" THEN FALSE ELSE shiftDown
      /\ kbdLost' = (kbdLost \/ sc \notin {"shiftup"})
      /\ UNCHANGED <<extPrefix, polling, held, lineVars>>
PollEnd == polling /\ polling' = FALSE /\ UNCHANGED <<keyVars, lineVars>>

ConNext ==
  \/ \E sc \in Presses : KeyPress(sc)
  \/ \E sc \in Extended : ExtPress(sc)
  \/ ShiftKey
  \/ input_getkey
  \/ PollStart \/ input_getkey_noblock \/ PollEnd

-----------------------------------------------------------------------------
(* The variables have their types; the cursor is in the line and the line in *)
(* its buffer.                                                               *)
ConTypeOK ==
  /\ Len(kbdBuf) < KbdBufSize
  /\ line.pos \in 0 .. Len(line.s) /\ Len(line.s) < LineCap
  /\ histCount \in Nat /\ (browse.on => browse.at < histCount)

(* The flag the scancodes are translated with follows the key: when the ring *)
(* has been read, Shift is down if it is held, unless a scancode was dropped *)
(* or taken by a command that polls.                                         *)
ShiftFollows == kbdBuf = <<>> /\ ~kbdLost => shiftDown = held

(* The last HistorySize lines entered can be recalled, whatever the ring has *)
(* wrapped over.                                                             *)
HistoryRecalls ==
  \A i \in 1 .. histCount : i > histCount - HistorySize => history_get(i - 1) = entered[i]

(* Completion keeps what was typed and adds only what every command with     *)
(* that beginning has, as long as the matches fit into the table.            *)
TabHonest ==
  LET s == line.s IN
  Len(Candidates(s)) <= TabMatchMax =>
    /\ IsPrefix(s, shell_tab_complete(s))
    /\ shell_tab_complete(s) = s
       \/ \A i \in DOMAIN Candidates(s) :
            \/ IsPrefix(shell_tab_complete(s), Candidates(s)[i])
            \/ Len(Candidates(s)) = 1
=============================================================================
