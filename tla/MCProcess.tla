----------------------------- MODULE MCProcess -----------------------------
(* Instances of Process for TLC.  Each kernel stack, window and page        *)
(* directory takes one page, so that a program takes three: eight pages     *)
(* hold two programs and the reserve, four hold one.                        *)
EXTENDS Process

FourPages == 1 .. 4
EightPages == 1 .. 8
AllRemoteCmds == {"kill", "run3bg", "run3fg", "wait"}
=============================================================================
