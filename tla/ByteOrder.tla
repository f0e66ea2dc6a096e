------------------------------ MODULE ByteOrder ------------------------------
(***************************************************************************)
(* Integers as bytes in memory, and their conversion between the order of  *)
(* a host and the order in the file (byte_order.h, byte_order.cpp).  The   *)
(* widths are a byte, W bytes (uint32_t) and 2 * W bytes (uint64_t).       *)
(***************************************************************************)
EXTENDS Integers, Sequences, SequencesExt

CONSTANTS
  BYTE,  \* the number of values of a byte
  W,     \* sizeof(uint32_t)
  Host   \* the machines and builds the library runs on

\* Does it store the least significant byte first, and was __LITTLE_ENDIAN__
\* defined when htonll was compiled?
ASSUME ByteOrderAssumption ==
  /\ BYTE \in Nat \ {0, 1}
  /\ W \in Nat \ {0, 1}
  /\ Host \subseteq [little : BOOLEAN, swaps64 : BOOLEAN]

\* What ^ is, of which the provers know no more than that it is an integer.
ASSUME PowerAssumption ==
  BYTE ^ 0 = 1 /\ \A i \in 0 .. 2 * W : BYTE ^ (i + 1) = BYTE * BYTE ^ i

Byte == 0 .. BYTE - 1

U32 == BYTE ^ W

\* The number whose bytes these are, the most significant one first.
Number(bytes) == FoldLeft(LAMBDA n, byte : n * BYTE + byte, 0, bytes)

Digits(n, len) == [i \in 1 .. len |-> (n \div BYTE ^ (len - i)) % BYTE]

\* An integer of len bytes in the memory of a host, and back.
InMemory(host, n, len) ==
  IF host.little THEN Reverse(Digits(n, len)) ELSE Digits(n, len)

Value(host, bytes) == Number(IF host.little THEN Reverse(bytes) ELSE bytes)

\* htonl: the integer that a host has in memory as n's bytes in network order.
Htonl(host, n) == Value(host, Digits(n, W))

\* (fault) the halves are swapped each in itself and not with each other
HtonllHalves(host, n) ==
  IF host.swaps64 THEN Htonl(host, n \div U32) * U32 + Htonl(host, n % U32)
  ELSE n

Htonll(host, n) ==
  IF host.swaps64 THEN Htonl(host, n % U32) * U32 + Htonl(host, n \div U32)
  ELSE n

\* h2n, overloaded on the width; n2h does the same.
H2N(host, n, len) ==
  CASE len = 1     -> n
    [] len = W     -> Htonl(host, n)
    [] len = 2 * W -> Htonll(host, n)

\* What writeH2N stores, and what readN2H finds in the bytes it reads.
WriteH2N(host, n, len) == InMemory(host, H2N(host, n, len), len)

ReadN2H(host, bytes) == H2N(host, Value(host, bytes), Len(bytes))
=============================================================================
