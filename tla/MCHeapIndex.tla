----------------------------- MODULE MCHeapIndex -----------------------------
(* HeapIndex on small block sizes: every split and merge fits under Limit. *)
EXTENDS HeapIndex

Symmetry == Permutations(Ptr)
=============================================================================
