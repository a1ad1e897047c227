------------------------------- MODULE MCTcp -------------------------------
(* Tcp for TLC.  Sequence numbers are taken modulo 16 and the peers start at *)
(* 14, so that what they send wraps round after two bytes.                  *)
EXTENDS Tcp, TLC

CONSTANTS l, p1, p2, q1, q3

AppListener == [i \in {l} |-> "app"]
SshListener == [i \in {l} |-> "ssh"]
AllApp == [q \in Clients |-> "app"]
AllSsh == [q \in Clients |-> "ssh"]
TwoEach == [q \in Peers |-> 2]
OneEach == [q \in Peers |-> 1]
ToServers == [q \in Peers |-> IF q \in Servers THEN 1 ELSE 0]
SamePcbs == Permutations({p1, p2})
=============================================================================
