----------------------------- MODULE MCDiskFormat -----------------------------
(* DiskFormat with bytes of three bits and integers of two and four bytes,  *)
(* on hosts of both orders, where htonll knows the order of the host.       *)
EXTENDS DiskFormat, Bitwise

MCWord == 0 .. BYTE ^ W - 1

\* A table, which is computed once.
MCXors == [a, b \in MCWord |-> a ^^ b]

MCBitXor(a, b) == MCXors[a, b]

Ones(n) == [i \in 1 .. n |-> 1]

\* No byte, one, the longest that is stored, and the shortest that is not.
MCId == {<<>>, <<1>>, <<4>>, Ones(7), Ones(8)}

\* The size of the last one and its id is more than an integer can hold.
MCData == {<<>>, <<3>>, <<3, 0, 7>>, Ones(60)}

MCKey == {<<>>, <<5>>, <<1, 6>>}

BothKnown ==
  {[little |-> TRUE, swaps64 |-> TRUE], [little |-> FALSE, swaps64 |-> FALSE]}

\* A host whose compiler does not define __LITTLE_ENDIAN__.
OneUnknown == BothKnown \cup {[little |-> TRUE, swaps64 |-> FALSE]}
=============================================================================
