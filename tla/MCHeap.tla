------------------------------- MODULE MCHeap ------------------------------
(* Heap for TLC: the 2048-byte cache has one object per slab, the other two; *)
(* three pages start as a block of two and a block of one, so that blocks   *)
(* are split, lists run dry and slabs compete with blocks.                  *)
EXTENDS Heap

TwoCaches == {"c1024", "c2048"}
ObjsPerSlab == [c \in TwoCaches |-> IF c = "c2048" THEN 1 ELSE 2]
=============================================================================
