------------------------------ MODULE ByteFile ------------------------------
(***************************************************************************)
(* What a user of MmapFile is promised, without windows or mappings: a     *)
(* file is a sequence of bytes.  The user asks for a range, which the file *)
(* grows to hold, and may then write it; no other byte changes, and the    *)
(* bytes a file grows by are zero.                                         *)
(***************************************************************************)
EXTENDS Integers, Sequences

CONSTANTS
  Offset,  \* where a range may start
  Size,    \* how long it may be
  Keep,    \* sizes the user may cut the file to
  Byte     \* what the user writes

VARIABLES
  bytes,  \* the file
  range   \* the range the user may write, empty when there is none

vars == <<bytes, range>>

None == [offset |-> 0, size |-> 0]

Resized(n) == [i \in 1 .. n |-> IF i <= Len(bytes) THEN bytes[i] ELSE 0]

Init == bytes = <<>> /\ range = None

\* The user asks for a range, for reading or for writing.  It may be refused,
\* before the file has grown or after.
Ask(offset, size) ==
  /\ bytes' \in {bytes, IF Len(bytes) < offset + size
                        THEN Resized(offset + size) ELSE bytes}
  /\ \/ range' = None
     \/ Len(bytes') >= offset + size /\ range' = [offset |-> offset, size |-> size]

Cut(n) == bytes' = Resized(n) /\ range' = None

Write(v) ==
  /\ bytes' = [i \in DOMAIN bytes |->
                 IF range.offset < i /\ i <= range.offset + range.size
                 THEN v ELSE bytes[i]]
  /\ UNCHANGED range

\* The user forgets the file, or is refused the cut.
Forget == range' = None /\ UNCHANGED bytes

Next ==
  \/ \E offset \in Offset, size \in Size : Ask(offset, size)
  \/ \E n \in Keep \cup {0} : Cut(n)
  \/ \E v \in Byte : Write(v)
  \/ Forget

Spec == Init /\ [][Next]_vars
=============================================================================
