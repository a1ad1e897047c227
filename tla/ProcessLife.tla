---------------------------- MODULE ProcessLife ----------------------------
(***************************************************************************)
(* What the process system promises, one process at a time: pids are given *)
(* out in order and never again, a process exits once, its exit code is    *)
(* told to at most one waiter, and only after that exit.                   *)
(*                                                                         *)
(* One exception: the shell's wait holds on to a slot of the table, not to *)
(* a pid.  If the pid it was given is reaped by its parent and the slot is *)
(* taken again meanwhile, wait tells the code of whoever exited there.     *)
(***************************************************************************)
EXTENDS Integers

CONSTANTS Pids, Codes, NoCode, NoReport

VARIABLES
  life,     \* where each pid is in its life
  code,     \* the code of a zombie
  report    \* what the last step told a waiter

vars == <<life, code, report>>

Init ==
  /\ life = [p \in Pids |-> IF p \in {0, 1} THEN "alive" ELSE "unborn"]
  /\ code = [p \in Pids |-> NoCode]
  /\ report = NoReport

(* process_alloc *)
Born(p) ==
  /\ life[p] = "unborn" /\ \A q \in Pids : q < p => life[q] # "unborn"
  /\ life' = [life EXCEPT ![p] = "alive"]
  /\ report' = NoReport
  /\ UNCHANGED code

(* user_process_exit *)
Exit(p, c) ==
  /\ life[p] = "alive" /\ p \notin {0, 1}
  /\ life' = [life EXCEPT ![p] = "zombie"]
  /\ code' = [code EXCEPT ![p] = c]
  /\ report' = NoReport

(* waitpid, wait, run3: the zombie goes and its code is told. *)
Reap(p) ==
  /\ life[p] = "zombie"
  /\ life' = [life EXCEPT ![p] = "gone"]
  /\ code' = [code EXCEPT ![p] = NoCode]
  /\ report' = <<p, code[p]>>

(* wait, on a slot that changed hands: nobody is reaped. *)
Mistold(p) ==
  /\ life[p] = "gone"
  /\ \E q \in Pids : life[q] = "zombie" /\ report' = <<p, code[q]>>
  /\ UNCHANGED <<life, code>>

(* kill, or a creation that fails: gone without a word. *)
Kill(p) ==
  /\ life[p] \in {"alive", "zombie"} /\ p \notin {0, 1}
  /\ life' = [life EXCEPT ![p] = "gone"]
  /\ code' = [code EXCEPT ![p] = NoCode]
  /\ report' = NoReport

Quiet ==
  report # NoReport /\ report' = NoReport /\ UNCHANGED <<life, code>>

Next ==
  \/ \E p \in Pids : \/ Born(p) \/ Reap(p) \/ Mistold(p) \/ Kill(p)
                     \/ \E c \in Codes : Exit(p, c)
  \/ Quiet

Spec == Init /\ [][Next]_vars
=============================================================================
