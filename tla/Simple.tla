-------------------------------- MODULE Simple --------------------------------
(***************************************************************************)
(* Encryption::Simple (simple_encrypt.h, simple_encrypt.cpp): every byte   *)
(* is combined by exclusive or with the byte of the key at its place, the  *)
(* key being repeated as often as necessary.                               *)
(***************************************************************************)
EXTENDS Integers, Sequences

CONSTANTS
  Word,        \* integers that have an exclusive or, bytes included
  BitXor(_,_)  \* the operator ^ of C++

ASSUME XorAssumption ==
  /\ Word \subseteq Nat
  /\ 0 \in Word
  /\ \A a, b \in Word : /\ BitXor(a, b) \in Word
                         /\ BitXor(a, b) = BitXor(b, a)
                         /\ BitXor(BitXor(a, b), b) = a

\* The constructor: the empty key becomes one zero, as good as no key.
MKey(key) == IF key = <<>> THEN <<0>> ELSE key

XOR(m_key, in) ==
  [i \in DOMAIN in |-> BitXor(in[i], m_key[((i - 1) % Len(m_key)) + 1])]

Encrypt(key, clear) == XOR(MKey(key), clear)
Decrypt(key, cipher) == XOR(MKey(key), cipher)
=============================================================================
