------------------------------ MODULE MCRemote ------------------------------
(***************************************************************************)
(* The servers and the 64-bit kernel for TLC: SSH sessions and their       *)
(* slots, SFTP, HTTPS, and the processes and TCP of the 64-bit kernel. A   *)
(* behaviour is one of the component in part.                              *)
(***************************************************************************)
EXTENDS SshSession, SshSlots, Sftp, TlsServer, Proc64, Tcp64

VARIABLE part      \* the component that runs in this behaviour

Init ==
  /\ part \in {"SshSession", "SshSlots", "Sftp", "TlsServer", "Proc64", "Tcp64"}
  /\ SshInit /\ SlInit /\ SfInit /\ TlsInit /\ P64Init /\ T64Init
  /\ part # "SshSession" => ~cl.strict
  /\ part # "Proc64" => p64.held = {}

Next ==
  \/ part = "SshSession" /\ SshNext
     /\ UNCHANGED <<part, slVars, sfVars, tlsVars, p64Vars, t64Vars>>
  \/ part = "SshSlots" /\ SlNext
     /\ UNCHANGED <<part, sshVars, sfVars, tlsVars, p64Vars, t64Vars>>
  \/ part = "Sftp" /\ SfNext
     /\ UNCHANGED <<part, sshVars, slVars, tlsVars, p64Vars, t64Vars>>
  \/ part = "TlsServer" /\ TlsNext
     /\ UNCHANGED <<part, sshVars, slVars, sfVars, p64Vars, t64Vars>>
  \/ part = "Proc64" /\ P64Next
     /\ UNCHANGED <<part, sshVars, slVars, sfVars, tlsVars, t64Vars>>
  \/ part = "Tcp64" /\ T64Next
     /\ UNCHANGED <<part, sshVars, slVars, sfVars, tlsVars, p64Vars>>

remoteVars == <<part, sshVars, slVars, sfVars, tlsVars, p64Vars, t64Vars>>
Spec == Init /\ [][Next]_remoteVars

-----------------------------------------------------------------------------
(* Each property is asked of the behaviours of its component; in the others  *)
(* the component's variables do not change.                                  *)

(* Although the handler is re-entered while a command runs: lines start in   *)
(* order and once, the client's window is kept and its credit refilled,      *)
(* sequence numbers agree, and the session is lost to a packet that does not *)
(* decrypt in two ways only.                                                 *)
SshSound ==
  part = "SshSession" =>
    /\ SshTypeOK
    /\ StartsInOrder
    /\ WindowRespected /\ RefillComplete
    /\ SeqAgree /\ LostOnlyTwoWays

(* Although pcbs and slots are given away during a key exchange: a pcb has   *)
(* one slot and an established connection has one, a slot names a closed pcb *)
(* only if SSH was not told, and the reply of a key exchange reaches the one *)
(* that asked unless that one left and its slot was taken.                   *)
SshSlotsSound ==
  part = "SshSlots" =>
    /\ SlTypeOK
    /\ SlotPerPcb /\ SlotsMatch
    /\ RepliesReachAsker

(* Although dispatching is nested and files change meanwhile: CLOSE stores   *)
(* what was written over what the file held, a listing is the directory, a   *)
(* rename that fails half-way leaves the file under one name, and every      *)
(* request is buffered or answered; the exceptions are in the parts.         *)
SftpSound ==
  part = "Sftp" =>
    /\ SfTypeOK
    /\ SfStoresWrites
    /\ SfListingRight
    /\ SfRenameKeeps
    /\ SfNoneForgotten

(* Although all connections share one session: what is handed to HTTP is the *)
(* whole request of that connection's client, and every sealed record a      *)
(* client is sent opens with its keys at the number it expects.              *)
HttpsSound ==
  part = "TlsServer" =>
    /\ TlsTypeOK
    /\ RequestsFaithful
    /\ RepliesReadable

(* Every used frame belongs to one process and none is free below the hint,  *)
(* a program resumes where it was left with its own stack, whoever waits has *)
(* a child that has not ended, and an exit code is told once (proc64.c's     *)
(* dispatcher, fork, exec, wait, exit).                                      *)
Proc64Sound ==
  part = "Proc64" =>
    /\ P64TypeOK
    /\ Frames64Right
    /\ ResumesWhereLeft
    /\ WaitersWaitForTheLiving
    /\ ToldOnce

(* Although one control block serves the web server and the machine's own    *)
(* fetches: a fetched page is a prefix of what was sent as long as every     *)
(* piece fitted, a request is that of one client, and a send that reports    *)
(* success was acknowledged unless a repeated ACK of the SYN was taken for   *)
(* it.                                                                       *)
Tcp64Sound ==
  part = "Tcp64" =>
    /\ T64TypeOK
    /\ Page64IsPrefix
    /\ Request64OneClient
    /\ Send64Honest

(* A ClientHello is answered or resets the session (tls_server_input), and   *)
(* the 64-bit kernel gets the CPU back from a foreground wait only when the  *)
(* process waited for has ended (focus_done).                                *)
NobodyLeftWaiting ==
  /\ HelloAnsweredOrReset
  /\ ForegroundEnds
=============================================================================
