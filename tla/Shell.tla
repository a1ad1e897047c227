-------------------------------- MODULE Shell ------------------------------
(***************************************************************************)
(* Where output goes and where files come from (src/src/kernel.c,            *)
(* src/src/fat.c, src/src/editor.c): log_putchar with its sinks, the         *)
(* redirection of shell_execute, and the RAM file slots that the editor      *)
(* fills and cat asks before the disk.                                       *)
(*                                                                          *)
(* A command of an SSH session runs shell_execute inside the timer           *)
(* interrupt, in the middle of a command of the console.  Output is a        *)
(* sequence of pieces that say who wrote them.                               *)
(***************************************************************************)
EXTENDS Integers, Sequences, FiniteSets, FiniteSetsExt

CONSTANTS
  ShNames,      \* file names as they are typed
  ShFold(_),    \* the 8.3 name of each on the disk
  ShSlots,      \* FILE_SLOTS
  ShValues,     \* contents the editor saves
  RedirCap      \* pieces that fit into shell_redirect_buf

NoName == "-"

VARIABLES
  shCmd,      \* the commands running: "local" and, nested, "remote"
  redirOn,    \* shell_redirect_active
  redirBuf,   \* shell_redirect_buf up to shell_redirect_ptr
  shDisk,     \* files on the disk by 8.3 name: sequences of pieces
  slotTab,    \* file_slots[]: name and content, or NoName
  mixed,      \* history: something else wrote during the local command
  edLast      \* history: by 8.3 name, the name and content last saved with success

shVars == <<shCmd, redirOn, redirBuf, shDisk, slotTab, mixed, edLast>>

ShWho == {"local", "remote"}
NoCmd == [on |-> FALSE, fn |-> NoName, wrote |-> <<>>]
NoSlot == [name |-> NoName, val |-> <<>>]

ShInit ==
  /\ shCmd = [w \in ShWho |-> NoCmd]
  /\ redirOn = FALSE /\ redirBuf = <<>>
  /\ shDisk = <<>>
  /\ slotTab = [i \in 1 .. ShSlots |-> NoSlot]
  /\ mixed = FALSE /\ edLast = <<>>

ShPut(f, k, v) == [x \in DOMAIN f \cup {k} |-> IF x = k THEN v ELSE f[x]]
ShDrop(f, k) == [x \in DOMAIN f \ {k} |-> f[x]]
OnDisk(n) == ShFold(n) \in DOMAIN shDisk

-----------------------------------------------------------------------------
(* log_putchar: into the redirection buffer while there is one and room in   *)
(* it; else to the console or the SSH session.                               *)
Captured(p) == IF Len(redirBuf) < RedirCap THEN Append(redirBuf, p) ELSE redirBuf

(* shell_execute up to shell_dispatch: with > or >> the buffer is emptied or *)
(* filled with what the file holds.  The console waits for its command; a    *)
(* remote one interrupts it.                                                 *)
RedirStart_Kept(fn, append) == redirBuf   \* mutant: shell_redirect_ptr is not reset
RedirStart(fn, append) == IF append /\ OnDisk(fn) THEN shDisk[ShFold(fn)] ELSE <<>>
ShBegin(w, fn, append) ==
  /\ ~shCmd[w].on /\ (w = "local" => ~shCmd["remote"].on)
  /\ shCmd' = [shCmd EXCEPT ![w] = [on |-> TRUE, fn |-> fn,
                 wrote |-> IF append /\ OnDisk(fn) THEN shDisk[ShFold(fn)] ELSE <<>>]]
  /\ IF fn = NoName THEN UNCHANGED <<redirOn, redirBuf>>
     ELSE /\ redirOn' = TRUE
          /\ redirBuf' = RedirStart(fn, append)
  /\ mixed' = IF w = "local" THEN FALSE ELSE (mixed \/ shCmd["local"].on)
  /\ UNCHANGED <<shDisk, slotTab, edLast>>

(* The running command, or an interrupt handler, writes a piece. *)
ShTop == IF shCmd["remote"].on THEN "remote" ELSE "local"
ShOutput(p) ==
  /\ shCmd[ShTop].on /\ Len(shCmd[ShTop].wrote) < RedirCap
  /\ redirBuf' = IF redirOn THEN Captured(p) ELSE redirBuf
  /\ shCmd' = IF p = ShTop THEN [shCmd EXCEPT ![ShTop].wrote = Append(@, p)] ELSE shCmd
  /\ mixed' = (mixed \/ p # "local")
  /\ UNCHANGED <<redirOn, shDisk, slotTab, edLast>>

(* shell_execute after shell_dispatch: whoever ends first and finds the      *)
(* capture active ends it, and writes the file its own line named.           *)
ShEnd_File(w) == {fn \in ShNames : redirOn /\ fn = shCmd[w].fn}
ShEnd(w, ok) ==
  /\ shCmd[w].on /\ (w = "local" => ~shCmd["remote"].on)
  /\ redirOn' = FALSE
  /\ shDisk' = IF ok /\ ShEnd_File(w) # {}
                 THEN ShPut(shDisk, ShFold(CHOOSE f \in ShEnd_File(w) : TRUE), redirBuf) ELSE shDisk
  /\ edLast' = IF ShEnd_File(w) # {} THEN ShDrop(edLast, ShFold(shCmd[w].fn)) ELSE edLast
  /\ shCmd' = [shCmd EXCEPT ![w] = NoCmd]
  /\ UNCHANGED <<redirBuf, slotTab, mixed>>

-----------------------------------------------------------------------------
(* File slots. *)

SlotsNamed(n) == {i \in DOMAIN slotTab : slotTab[i].name = n}
SlotsFree == {i \in DOMAIN slotTab : slotTab[i].name = NoName}

(* file_slot_save: the slot of that name, else a free one; -1 when there is  *)
(* none, and kmalloc may fail.                                               *)
file_slot_save(n) ==
  IF SlotsNamed(n) # {} THEN Min(SlotsNamed(n))
  ELSE IF SlotsFree # {} THEN Min(SlotsFree) ELSE -1

Quiet == ~shCmd["local"].on /\ ~shCmd["remote"].on

(* EditorSaves: into a slot, then onto the disk; only the slot's outcome is      *)
(* reported.                                                                 *)
EditorSaves(n, v, mem, fat) ==
  LET i == file_slot_save(n)
      saved == i # -1 /\ mem
  IN  /\ Quiet
      /\ slotTab' = IF saved THEN [slotTab EXCEPT ![i] = [name |-> n, val |-> <<v>>]] ELSE slotTab
      /\ shDisk' = IF fat THEN ShPut(shDisk, ShFold(n), <<v>>) ELSE shDisk
      /\ edLast' = IF saved THEN ShPut(edLast, ShFold(n), [name |-> n, val |-> <<v>>])
                   ELSE ShDrop(edLast, ShFold(n))
      /\ UNCHANGED <<shCmd, redirOn, redirBuf, mixed>>

(* What cat, the editor and ajlang read: the slot of that name before the    *)
(* disk.                                                                     *)
file_slot_read(n) == slotTab[Min(SlotsNamed(n))].val
Cat(n) == IF SlotsNamed(n) # {} THEN file_slot_read(n)
          ELSE IF OnDisk(n) THEN shDisk[ShFold(n)] ELSE <<>>

(* cmd_rm: the file, then the slot of the very name it was given. *)
file_slot_drop(n) == [i \in DOMAIN slotTab |-> IF slotTab[i].name = n THEN NoSlot ELSE slotTab[i]]
cmd_rm(n) ==
  /\ Quiet /\ OnDisk(n)
  /\ shDisk' = ShDrop(shDisk, ShFold(n))
  /\ slotTab' = file_slot_drop(n)
  /\ edLast' = IF ShFold(n) \in DOMAIN edLast /\ edLast[ShFold(n)].name = n
                 THEN ShPut(edLast, ShFold(n), [name |-> n, val |-> <<>>])
                 ELSE ShDrop(edLast, ShFold(n))
  /\ UNCHANGED <<shCmd, redirOn, redirBuf, mixed>>

(* cmd_freeram *)
cmd_freeram(n) ==
  /\ Quiet /\ SlotsNamed(n) # {}
  /\ slotTab' = [slotTab EXCEPT ![Min(SlotsNamed(n))] = NoSlot]
  /\ edLast' = ShDrop(edLast, ShFold(n))
  /\ UNCHANGED <<shCmd, redirOn, redirBuf, shDisk, mixed>>

ShNext ==
  \/ \E w \in ShWho, fn \in ShNames \cup {NoName}, a \in BOOLEAN : ShBegin(w, fn, a)
  \/ \E p \in ShWho \cup {"irq"} : ShOutput(p)
  \/ \E w \in ShWho, ok \in BOOLEAN : ShEnd(w, ok)
  \/ \E n \in ShNames, v \in ShValues, mem, fat \in BOOLEAN : EditorSaves(n, v, mem, fat)
  \/ \E n \in ShNames : cmd_rm(n) \/ cmd_freeram(n)

-----------------------------------------------------------------------------
(* The variables have their types. *)
ShTypeOK ==
  /\ Len(redirBuf) <= RedirCap
  /\ \A i \in DOMAIN slotTab : slotTab[i].name \in ShNames \cup {NoName}

(* While only the console's command writes, the capture holds exactly what   *)
(* it wrote, behind what the file held if it appends: shell_execute ends     *)
(* with that in the file.                                                    *)
RedirectFaithful ==
  shCmd["local"].on /\ shCmd["local"].fn # NoName /\ ~mixed =>
    /\ redirOn
    /\ redirBuf = shCmd["local"].wrote

(* What the editor reported as saved is what cat shows under that name, and  *)
(* after rm of that name it is gone: "so cat stops serving it".              *)
EditorSaveSeen ==
  \A f \in DOMAIN edLast :
    \/ Cat(edLast[f].name) = edLast[f].val
    \/ edLast[f].val = <<>> /\ SlotsNamed(edLast[f].name) = {}
=============================================================================
