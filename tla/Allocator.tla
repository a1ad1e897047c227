----------------------------- MODULE Allocator -----------------------------
(* What a memory allocator of the kernel promises its clients: the extents  *)
(* it hands out never overlap one that is still held.  An extent is a set   *)
(* of units (pages, or objects of a slab); who holds it is a client.        *)
CONSTANTS Extents, Clients
VARIABLE held

AllocInit == held = [c \in Clients |-> {}]

Grant(c, e) ==
  /\ \A d \in Clients : \A f \in held[d] : e \cap f = {}
  /\ held' = [held EXCEPT ![c] = @ \cup {e}]

Return(c, e) ==
  /\ e \in held[c]
  /\ held' = [held EXCEPT ![c] = @ \ {e}]

AllocNext ==
  \E c \in Clients : \/ \E e \in Extents : Grant(c, e)
                     \/ \E e \in held[c] : Return(c, e)

AllocSpec == AllocInit /\ [][AllocNext]_held
=============================================================================
