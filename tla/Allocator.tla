------------------------------ MODULE Allocator ------------------------------
(***************************************************************************)
(* What a user of HeapIndex is promised, without lists, multimaps or free  *)
(* records: a set of allocated blocks of a file that never overlap, each   *)
(* of which stays where it is until it is given back.                      *)
(***************************************************************************)
EXTENDS Integers

CONSTANT Key   \* the tags a block is allocated under

VARIABLE blocks  \* the allocated blocks, records with offset, key and size

Block == [offset : Nat, key : Key, size : Nat]

EndOf(b) == b.offset + b.size

Disjoint(a, b) == EndOf(a) <= b.offset \/ EndOf(b) <= a.offset

Init == blocks = {}

\* One more block appears, disjoint from all the others; no other one moves.
Grant ==
  \E b \in blocks' :
    /\ b \in Block
    /\ b \notin blocks
    /\ b.size > 0
    /\ blocks' = blocks \cup {b}
    /\ \A c \in blocks : Disjoint(b, c)

\* One block is given back; no other one moves.
Return == \E b \in blocks : blocks' = blocks \ {b}

\* All blocks are given up at once.
Reset == blocks' = {}

Next == Grant \/ Return \/ Reset

Spec == Init /\ [][Next]_blocks

\* The allocated blocks never share a byte of the file.
NoOverlap == \A b, c \in blocks : b = c \/ Disjoint(b, c)
=============================================================================
