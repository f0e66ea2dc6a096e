----------------------------- MODULE MCHeapFile -----------------------------
(* HeapFile with sizes scaled down so that blocks split, merge and are      *)
(* filled under a small FileLimit; ids 1 and 2 collide.                     *)
EXTENDS HeapFile

Symmetry == Permutations(Ptr)

MCHash == [id \in Id |-> id \div 3]

MCBlobSize == [data \in Data |-> data]
=============================================================================
