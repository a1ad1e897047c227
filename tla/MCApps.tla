------------------------------- MODULE MCApps -------------------------------
(***************************************************************************)
(* The console and the applications for TLC: keyboard and line editor, the *)
(* shell's redirection and file slots, the system log, the text editor,    *)
(* web apps. A behaviour is one of the component in part.                  *)
(***************************************************************************)
EXTENDS Console, Shell, Syslog, Editor, WebApps

VARIABLE part      \* the component that runs in this behaviour

MCWords == << <<"a", "a">>, <<"a">> >>
MCFold(n) == "A"

Init ==
  /\ part \in {"Console", "Shell", "Syslog", "Editor", "WebApps"}
  /\ ConInit /\ ShInit /\ SysInit /\ EdInit /\ WebInit

Next ==
  \/ part = "Console" /\ ConNext
     /\ UNCHANGED <<part, shVars, sysVars, edVars, webVars>>
  \/ part = "Shell" /\ ShNext
     /\ UNCHANGED <<part, conVars, sysVars, edVars, webVars>>
  \/ part = "Syslog" /\ SysNext
     /\ UNCHANGED <<part, conVars, shVars, edVars, webVars>>
  \/ part = "Editor" /\ EdNext
     /\ UNCHANGED <<part, conVars, shVars, sysVars, webVars>>
  \/ part = "WebApps" /\ WebNext
     /\ UNCHANGED <<part, conVars, shVars, sysVars, edVars>>

-----------------------------------------------------------------------------
(* Each property is asked of the behaviours of its component; in the others  *)
(* the component's variables do not change.                                  *)

(* The line readline edits is the one typed: shift follows its key when the  *)
(* ring has been read (unless a scancode was dropped or taken by a polling   *)
(* command), the last lines entered can be recalled however the ring         *)
(* wrapped, completion adds only what all matches have, and no buffer is     *)
(* overrun.                                                                  *)
ConsoleSound ==
  part = "Console" =>
    /\ ConTypeOK
    /\ ShiftFollows
    /\ HistoryRecalls /\ TabHonest

(* Saving and opening again gives the rows there were, but for empty ones at *)
(* the end (and at most one of those); the grid is never left.               *)
EditorKeepsText ==
  part = "Editor" =>
    /\ EdTypeOK
    /\ EdRoundTrip /\ EdRowsKept

(* Requests in the interrupt and the shell's installs and scripts share the  *)
(* registry and the interpreter: a page is one version of an app but for     *)
(* import lines, a script ends early only if an app ran in between, and an   *)
(* install changes what it installs only, but for the two exceptions         *)
(* InstallChangesOnly names.                                                 *)
WebAppsSound ==
  part = "WebApps" =>
    /\ WebTypeOK
    /\ ServedWhole
    /\ ScriptsRunThrough
    /\ InstallChangesOnly

(* What is written is there: the capture of a redirected command holds its   *)
(* output while only the console's command writes, a saved file is the one   *)
(* cat shows, and logged lines are kept once and in order as long as memory  *)
(* and the file under /var/log can be had.                                   *)
OutputKept ==
  /\ part = "Shell" => ShTypeOK /\ RedirectFaithful /\ EditorSaveSeen
  /\ part = "Syslog" => SysTypeOK /\ SyslogKeeps
=============================================================================
