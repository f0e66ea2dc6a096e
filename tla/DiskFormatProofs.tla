--------------------------- MODULE DiskFormatProofs ---------------------------
(***************************************************************************)
(* That what is written to a file is read back from it, byte by byte: the  *)
(* folds Number and Hash, the conversions of ByteOrder, encryption, the    *)
(* bounds that Blob checks, and the properties of DiskFormat.              *)
(***************************************************************************)
EXTENDS DiskFormat, WellFoundedInduction, TLAPS

-----------------------------------------------------------------------------
(* Encryption and bounds *)

\* Simple::decrypt undoes Simple::encrypt with the same key, be it empty,
\* shorter or longer than the bytes (simple_encrypt.cpp).
THEOREM DecryptInverts ==
  ASSUME NEW k \in Seq(Word), NEW clear \in Seq(Word)
  PROVE  Decrypt(k, Encrypt(k, clear)) = clear
<1> DEFINE m == MKey(k)
           cipher == Encrypt(k, clear)
           At1(i) == ((i - 1) % Len(m)) + 1
<1>1. m \in Seq(Word) /\ Len(m) \in Nat \ {0}
  BY XorAssumption DEF MKey
<1>2. ASSUME NEW i \in DOMAIN clear PROVE m[At1(i)] \in Word
  <2>1. i \in Nat \ {0}
    OBVIOUS
  <2>2. At1(i) \in 1 .. Len(m)
    BY <1>1, <2>1, SMT
  <2> QED BY <1>1, <2>2
<1> HIDE DEF m
<1>3. cipher = [i \in DOMAIN clear |-> BitXor(clear[i], m[At1(i)])]
  BY DEF Encrypt, XOR, m
<1>4. Decrypt(k, cipher)
        = [i \in DOMAIN clear |-> BitXor(cipher[i], m[At1(i)])]
  BY <1>3 DEF Decrypt, XOR, m
<1>5. ASSUME NEW i \in DOMAIN clear
      PROVE  BitXor(cipher[i], m[At1(i)]) = clear[i]
  <2>1. clear[i] \in Word
    OBVIOUS
  <2>2. cipher[i] = BitXor(clear[i], m[At1(i)])
    BY <1>3
  <2>3. \A a, b \in Word : BitXor(BitXor(a, b), b) = a
    BY XorAssumption
  <2> HIDE DEF At1, cipher
  <2> QED BY <1>2, <2>1, <2>2, <2>3
<1>6. clear = [i \in DOMAIN clear |-> clear[i]]
  OBVIOUS
<1> QED BY <1>4, <1>5, <1>6

\* hasId reads no further than any block of MIN_SIZE bytes reaches, which no
\* IdSizeType is as large as, and getData no further than its block, whatever
\* bytes are there (heap_blob.cpp).
THEOREM ReadsStayInAnyBlock ==
  ASSUME NEW f \in Seq(Byte), NEW rec, NEW h, NEW id \in Seq(Byte),
         rec.offset \in Nat, rec.size \in Nat,
         BYTE <= rec.size,
         DataSize(h, f, rec) \in Nat
  PROVE  /\ HasIdReads(f, rec, id) <= rec.size
         /\ GetDataReads(h, f, rec) <= rec.size
<1>1. BYTE \in Nat /\ BYTE >= 2 /\ W \in Nat /\ W >= 1
  BY ByteOrderAssumption
<1>2. IdSize(f, rec) \in Byte
  <2>1. At(f, rec.offset, 1)[1]
          = IF rec.offset + 1 <= Len(f) THEN f[rec.offset + 1] ELSE 0
    BY DEF At
  <2>2. 0 \in Byte
    BY <1>1 DEF Byte
  <2> QED BY <2>1, <2>2 DEF IdSize
<1>3. HasIdReads(f, rec, id) <= rec.size
  BY <1>1, <1>2 DEF HasIdReads, Byte
<1>4. GetDataReads(h, f, rec) <= rec.size
  BY <1>1, <1>2 DEF GetDataReads, HeaderFits, DataFits, Overhead, Byte
<1> QED BY <1>3, <1>4
-----------------------------------------------------------------------------
(* Induction, over sets of natural numbers *)

LEMMA AllNaturals ==
  ASSUME NEW T, 0 \in T, \A n \in Nat : n \in T => n + 1 \in T
  PROVE  \A n \in Nat : n \in T
<1> DEFINE R == OpToRel(<, Nat)
           Bad == Nat \ T
<1> SUFFICES ASSUME Bad # {} PROVE FALSE
  OBVIOUS
<1>1. IsWellFoundedOn(R, Nat)
  BY NatLessThanWellFounded
<1> HIDE DEF R
<1>2. PICK m \in Bad : \A k \in Bad : <<k, m>> \notin R
  BY <1>1, WFMin
<1>3. m \in Nat \ {0} /\ m - 1 \in Nat /\ (m - 1) + 1 = m /\ m - 1 < m
  OBVIOUS
<1>4. <<m - 1, m>> \in R
  BY <1>3 DEF R, OpToRel
<1>5. m - 1 \in T
  BY <1>2, <1>3, <1>4
<1> QED
  BY <1>3, <1>5

\* The same, for the numbers up to a bound.
LEMMA Along ==
  ASSUME NEW n \in Nat, NEW S, 0 \in S, \A i \in 1 .. n : i - 1 \in S => i \in S
  PROVE  \A i \in 0 .. n : i \in S
<1> DEFINE Good == {i \in Nat : i <= n => i \in S}
<1>1. 0 \in Good
  OBVIOUS
<1>2. ASSUME NEW i \in Nat, i \in Good PROVE i + 1 \in Good
  <2> SUFFICES ASSUME i + 1 <= n PROVE i + 1 \in S
    OBVIOUS
  <2>1. i + 1 \in 1 .. n /\ (i + 1) - 1 = i /\ i \in S
    BY <1>2
  <2> QED
    BY <2>1
<1> HIDE DEF Good
<1>3. \A i \in Nat : i \in Good
  BY <1>1, <1>2, AllNaturals
<1> QED
  BY <1>3 DEF Good

-----------------------------------------------------------------------------
(* Powers of BYTE *)

LEMMA PowerNext ==
  ASSUME NEW i \in 0 .. 2 * W
  PROVE  BYTE ^ (i + 1) = BYTE * BYTE ^ i
BY PowerAssumption

LEMMA PowersPositive ==
  \A i \in 0 .. 2 * W + 1 : BYTE ^ i \in Nat \ {0}
<1>1. BYTE \in Nat /\ BYTE >= 2 /\ W \in Nat /\ 2 * W + 1 \in Nat
  BY ByteOrderAssumption
<1> DEFINE n == 2 * W + 1
           S == {i \in 0 .. n : BYTE ^ i \in Nat \ {0}}
<1>2. 0 \in S
  BY <1>1, PowerAssumption
<1>3. ASSUME NEW i \in 1 .. n, i - 1 \in S PROVE i \in S
  <2>1. i - 1 \in 0 .. 2 * W /\ (i - 1) + 1 = i /\ i \in 0 .. n
    BY <1>1
  <2>2. BYTE ^ i = BYTE * BYTE ^ (i - 1)
    BY <2>1, PowerNext
  <2> QED
    BY <1>1, <1>3, <2>1, <2>2
<1>4. \A i \in 0 .. n : i \in S
  <2> HIDE DEF S
  <2> QED
    BY <1>1, <1>2, <1>3, Along
<1> QED
  BY <1>4

\* An integer of W bytes has room for the size of an index, and for a byte.
LEMMA PowersLarge ==
  /\ U32 \in Nat /\ U32 >= 2 * W /\ U32 >= BYTE
<1>1. BYTE \in Nat /\ BYTE >= 2 /\ W \in Nat /\ W >= 2
  BY ByteOrderAssumption
<1> DEFINE Large(i) == BYTE ^ (i + 1) >= 2 * (i + 1) /\ BYTE ^ (i + 1) >= BYTE
           S == {i \in 0 .. W - 1 : Large(i)}
<1>2. 0 \in S
  <2>1. 0 \in 0 .. 2 * W /\ 0 \in 0 .. W - 1
    BY <1>1
  <2>2. BYTE ^ (0 + 1) = BYTE
    BY <1>1, <2>1, PowerAssumption
  <2>3. Large(0)
    BY <1>1, <2>2
  <2> QED
    BY <2>1, <2>3
<1>3. ASSUME NEW i \in 1 .. W - 1, i - 1 \in S PROVE i \in S
  <2>1. /\ i \in 0 .. 2 * W /\ i \in Nat /\ (i - 1) + 1 = i
        /\ i \in 0 .. W - 1 /\ i \in 0 .. 2 * W + 1
    BY <1>1
  <2>2. BYTE ^ (i + 1) = BYTE * BYTE ^ i
    BY <2>1, PowerNext
  <2>3. PICK x \in Nat : x = BYTE ^ i
    BY <2>1, PowersPositive
  <2>4. x >= 2 * i /\ x >= BYTE
    <3>1. Large(i - 1)
      BY <1>3
    <3> QED
      BY <2>1, <2>3, <3>1
  <2>5. BYTE * x >= 2 * x /\ BYTE * x \in Nat
    BY <1>1
  <2>6. PICK y \in Nat : y = BYTE * x
    BY <2>5
  <2>7. y >= 2 * (i + 1) /\ y >= BYTE
    BY <1>1, <2>1, <2>4, <2>5, <2>6
  <2>8. Large(i)
    BY <2>2, <2>3, <2>6, <2>7
  <2> QED
    BY <2>1, <2>8
<1>4. \A i \in 0 .. W - 1 : i \in S
  <2>1. W - 1 \in Nat
    BY <1>1
  <2> HIDE DEF S
  <2> QED
    BY <2>1, <1>2, <1>3, Along
<1>5. Large(W - 1) /\ (W - 1) + 1 = W
  <2>1. W - 1 \in 0 .. W - 1
    BY <1>1
  <2> QED
    BY <1>1, <1>4, <2>1
<1>6. U32 \in Nat
  <2>1. W \in 0 .. 2 * W + 1
    BY <1>1
  <2> QED
    BY <2>1, PowersPositive DEF U32
<1> QED
  BY <1>1, <1>5, <1>6 DEF U32

-----------------------------------------------------------------------------
(* Folds: Number and Hash go over a sequence from left to right *)

LEMMA MaxProperties ==
  ASSUME NEW n \in Nat, NEW t \in SUBSET (1 .. n), t # {}
  PROVE  Max(t) \in t /\ \A y \in t : y <= Max(t)
<1> DEFINE Has(u) == \E x \in u : \A y \in u : x >= y
           Good == {k \in Nat : \A u \in SUBSET (1 .. k) : u # {} => Has(u)}
<1>1. 0 \in Good
  <2>1. \A u \in SUBSET (1 .. 0) : u = {}
    OBVIOUS
  <2> QED
    BY <2>1
<1>2. ASSUME NEW k \in Nat, k \in Good PROVE k + 1 \in Good
  <2> SUFFICES ASSUME NEW u \in SUBSET (1 .. k + 1), u # {} PROVE Has(u)
    OBVIOUS
  <2>1. CASE k + 1 \in u
    BY <2>1
  <2>2. CASE k + 1 \notin u
    <3>1. u \in SUBSET (1 .. k)
      BY <2>2
    <3> QED
      BY <1>2, <3>1
  <2> QED
    BY <2>1, <2>2
<1>3. \A k \in Nat : k \in Good
  <2> HIDE DEF Good
  <2> QED
    BY <1>1, <1>2, AllNaturals
<1>4. Has(t)
  BY <1>3
<1>5. Max(t) \in t /\ \A y \in t : Max(t) >= y
  BY <1>4 DEF Max
<1> QED
  BY <1>5

\* The position that a fold looks at last, and those it has looked at before.
LEMMA MaxOfPrefix ==
  ASSUME NEW n \in Nat, NEW i \in 1 .. n
  PROVE  /\ 1 .. i \in SUBSET (1 .. n) /\ 1 .. i # {}
         /\ Max(1 .. i) = i /\ (1 .. i) \ {i} = 1 .. (i - 1)
<1>1. 1 .. i \in SUBSET (1 .. n) /\ 1 .. i # {} /\ i \in 1 .. i
  OBVIOUS
<1>2. Max(1 .. i) \in 1 .. i /\ i <= Max(1 .. i)
  BY <1>1, MaxProperties
<1>3. (1 .. i) \ {i} = 1 .. (i - 1)
  OBVIOUS
<1> QED
  BY <1>1, <1>2, <1>3

\* A table of a fold over n values: what it comes to for each set of them.
IsFold(g, T, b, n, st) ==
  /\ g \in [SUBSET (1 .. n) -> T]
  /\ \A t \in SUBSET (1 .. n) :
       g[t] = IF t = {} THEN b ELSE st[<<Max(t), g[t \ {Max(t)}]>>]

\* A fold whose steps stay in a set is defined.
LEMMA FoldDefined ==
  ASSUME NEW T, NEW b \in T, NEW n \in Nat, NEW st \in [(1 .. n) \X T -> T]
  PROVE  \E g : IsFold(g, T, b, n, st)
<1> DEFINE Eq(g, t) ==
             g[t] = IF t = {} THEN b ELSE st[<<Max(t), g[t \ {Max(t)}]>>]
           Defined(k) == \E g \in [SUBSET (1 .. k) -> T] :
                           \A t \in SUBSET (1 .. k) : Eq(g, t)
           Good == {k \in Nat : k <= n => Defined(k)}
<1>1. 0 \in Good
  <2> DEFINE g0 == [t \in SUBSET (1 .. 0) |-> b]
  <2>1. g0 \in [SUBSET (1 .. 0) -> T]
    OBVIOUS
  <2>2. \A t \in SUBSET (1 .. 0) : t = {} /\ Eq(g0, t)
    OBVIOUS
  <2>3. Defined(0)
    BY <2>1, <2>2
  <2> HIDE DEF Defined
  <2> QED
    BY <2>3
<1>2. ASSUME NEW k \in Nat, k \in Good PROVE k + 1 \in Good
  <2>0. k + 1 <= n => Defined(k)
    <3> HIDE DEF Defined
    <3> QED
      BY <1>2
  <2> SUFFICES ASSUME k + 1 <= n PROVE Defined(k + 1)
    <3> HIDE DEF Defined
    <3> QED
      OBVIOUS
  <2>1. PICK g \in [SUBSET (1 .. k) -> T] : \A t \in SUBSET (1 .. k) : Eq(g, t)
    BY <2>0
  <2> DEFINE h == [t \in SUBSET (1 .. k + 1) |->
                     IF k + 1 \in t THEN st[<<k + 1, g[t \ {k + 1}]>>] ELSE g[t]]
  <2>2. ASSUME NEW t \in SUBSET (1 .. k + 1), k + 1 \in t
        PROVE  /\ Max(t) = k + 1 /\ t \ {k + 1} \in SUBSET (1 .. k)
               /\ h[t] = st[<<k + 1, g[t \ {k + 1}]>>]
    <3>0. k + 1 \in Nat /\ t # {}
      BY <2>2
    <3>1. Max(t) \in t /\ k + 1 <= Max(t)
      BY <2>2, <3>0, MaxProperties
    <3>2. Max(t) = k + 1
      <4>1. Max(t) \in 1 .. (k + 1)
        BY <3>1
      <4> QED
        BY <3>1, <4>1
    <3>3. t \ {k + 1} \in SUBSET (1 .. k)
      OBVIOUS
    <3> QED
      BY <2>2, <3>2, <3>3
  <2>3. ASSUME NEW t \in SUBSET (1 .. k + 1), k + 1 \notin t
        PROVE  /\ t \in SUBSET (1 .. k) /\ h[t] = g[t]
               /\ t # {} => t \ {Max(t)} \in SUBSET (1 .. k)
    <3>1. t \in SUBSET (1 .. k)
      BY <2>3
    <3> QED
      BY <2>3, <3>1
  <2>4. \A t \in SUBSET (1 .. k) : t \in SUBSET (1 .. k + 1) /\ h[t] = g[t]
    <3> TAKE t \in SUBSET (1 .. k)
    <3>1. t \in SUBSET (1 .. k + 1) /\ k + 1 \notin t
      OBVIOUS
    <3> QED
      BY <2>3, <3>1
  <2>5. ASSUME NEW t \in SUBSET (1 .. k + 1) PROVE h[t] \in T
    <3>1. CASE k + 1 \in t
      <4>1. g[t \ {k + 1}] \in T /\ k + 1 \in 1 .. n
        BY <2>1, <2>2, <3>1
      <4>2. st[<<k + 1, g[t \ {k + 1}]>>] \in T
        BY <4>1
      <4> QED
        BY <2>2, <3>1, <4>2
    <3>2. CASE k + 1 \notin t
      BY <2>1, <2>3, <3>2
    <3> QED
      BY <3>1, <3>2
  <2>6. h \in [SUBSET (1 .. k + 1) -> T]
    BY <2>5
  <2> HIDE DEF h
  <2>7. ASSUME NEW t \in SUBSET (1 .. k + 1) PROVE Eq(h, t)
    <3>1. CASE k + 1 \in t
      BY <2>2, <2>4, <3>1
    <3>2. CASE k + 1 \notin t
      BY <2>1, <2>3, <2>4, <3>2
    <3> QED
      BY <3>1, <3>2
  <2> QED
    BY <2>6, <2>7
<1>3. \A k \in Nat : k \in Good
  <2> HIDE DEF Good
  <2> QED
    BY <1>1, <1>2, AllNaturals
<1>4. Defined(n)
  <2> HIDE DEF Defined
  <2> QED
    BY <1>3
<1> QED
  BY <1>4 DEF IsFold
\* The numbers of the prefixes of a sequence, the last of which is its own.
Sums(v, s) ==
  /\ v \in [0 .. Len(s) -> Nat]
  /\ v[0] = 0 /\ Number(s) = v[Len(s)]
  /\ \A i \in 1 .. Len(s) : v[i] = v[i - 1] * BYTE + s[i]

LEMMA NumberFold ==
  ASSUME NEW s \in Seq(Nat)
  PROVE  \E v : Sums(v, s)
<1> DEFINE n == Len(s)
           Step(g, t) == IF t = {} THEN 0
                         ELSE g[t \ {Max(t)}] * BYTE + s[Max(t)]
           Fold(g) == g = [t \in SUBSET DOMAIN s |-> Step(g, t)]
           iter == CHOOSE g : Fold(g)
           v == [i \in 0 .. n |-> iter[1 .. i]]
<1>1. n \in Nat /\ DOMAIN s = 1 .. n /\ BYTE \in Nat
      /\ \A i \in 1 .. n : s[i] \in Nat
  BY ByteOrderAssumption
<1>2. Number(s) = iter[DOMAIN s]
  BY DEF Number, FoldLeft, MapThenFoldSet
<1>3. \E g : Fold(g)
  <2> DEFINE st == [p \in (1 .. n) \X Nat |-> p[2] * BYTE + s[p[1]]]
  <2>1. st \in [(1 .. n) \X Nat -> Nat]
    <3> SUFFICES ASSUME NEW p \in (1 .. n) \X Nat PROVE p[2] * BYTE + s[p[1]] \in Nat
      OBVIOUS
    <3>1. p[2] \in Nat /\ s[p[1]] \in Nat
      BY <1>1
    <3>2. p[2] * BYTE \in Nat
      BY <1>1, <3>1
    <3> QED
      BY <3>1, <3>2
  <2> HIDE DEF n
  <2>2. PICK g : IsFold(g, Nat, 0, n, st)
    <3> HIDE DEF st
    <3> QED
      BY <1>1, <2>1, FoldDefined
  <2>3. ASSUME NEW t \in SUBSET (1 .. n), t # {}
        PROVE  st[<<Max(t), g[t \ {Max(t)}]>>] = g[t \ {Max(t)}] * BYTE + s[Max(t)]
    <3>1. Max(t) \in 1 .. n
      BY <1>1, <2>3, MaxProperties
    <3>2. g[t \ {Max(t)}] \in Nat
      BY <2>2 DEF IsFold
    <3> QED
      BY <3>1, <3>2
  <2>4. \A t \in SUBSET (1 .. n) : g[t] = Step(g, t)
    BY <2>2, <2>3 DEF IsFold
  <2> HIDE DEF Step
  <2>5. Fold(g)
    BY <1>1, <2>2, <2>4 DEF IsFold
  <2> QED
    BY <2>5
<1>4. Fold(iter)
  <2> HIDE DEF Fold
  <2> QED
    BY <1>3
<1>5. \A t \in SUBSET (1 .. n) : iter[t] = Step(iter, t)
  <2> HIDE DEF iter, Step, n
  <2> QED
    BY <1>1, <1>4
<1> HIDE DEF iter
<1>6. v[0] = 0 /\ Number(s) = v[n]
  <2>1. 1 .. 0 = {} /\ {} \in SUBSET (1 .. n) /\ 0 \in 0 .. n /\ n \in 0 .. n
    BY <1>1
  <2>2. iter[{}] = 0
    BY <1>5, <2>1
  <2> QED
    BY <1>1, <1>2, <2>1, <2>2
<1>7. ASSUME NEW i \in 1 .. n PROVE v[i] = v[i - 1] * BYTE + s[i]
  <2>1. /\ 1 .. i \in SUBSET (1 .. n) /\ 1 .. i # {}
        /\ Max(1 .. i) = i /\ (1 .. i) \ {i} = 1 .. (i - 1)
    BY <1>1, MaxOfPrefix
  <2>2. iter[1 .. i] = iter[1 .. (i - 1)] * BYTE + s[i]
    BY <1>5, <2>1
  <2>3. i \in 0 .. n /\ i - 1 \in 0 .. n
    BY <1>1
  <2> QED
    BY <2>2, <2>3
<1>8. DOMAIN v = 0 .. n /\ v = [i \in 0 .. n |-> v[i]]
  OBVIOUS
<1> HIDE DEF v
<1>9. ASSUME NEW i \in 1 .. n, v[i - 1] \in Nat PROVE v[i] \in Nat
  <2>1. v[i - 1] * BYTE \in Nat
    BY <1>1, <1>9
  <2> QED
    BY <1>1, <1>7, <2>1
<1>10. \A i \in 0 .. n : v[i] \in Nat
  <2> DEFINE S == {i \in 0 .. n : v[i] \in Nat}
  <2>1. 0 \in S
    BY <1>1, <1>6
  <2>2. ASSUME NEW i \in 1 .. n, i - 1 \in S PROVE i \in S
    BY <1>1, <1>9, <2>2
  <2>3. \A i \in 0 .. n : i \in S
    <3> HIDE DEF S, n
    <3> QED
      BY <1>1, <2>1, <2>2, Along
  <2> QED
    BY <2>3
<1>11. v \in [0 .. n -> Nat]
  BY <1>8, <1>10
<1> QED
  BY <1>6, <1>7, <1>11 DEF Sums

\* The hash is one of the integers that there is room for in the file.
\* The hashes of the prefixes of a sequence, the last of which is its own.
HashStep(h, b) == BitXor((h * 32 + h) % U32, b)

Hashes(v, s) ==
  /\ v \in [0 .. Len(s) -> Word]
  /\ v[0] = 5381 % U32 /\ Hash(s) = v[Len(s)]
  /\ \A i \in 1 .. Len(s) : v[i] = HashStep(v[i - 1], s[i])

LEMMA HashStepIsWord ==
  ASSUME NEW h \in Word, NEW b \in Word
  PROVE  HashStep(h, b) \in Word
<1>1. U32 \in Nat \ {0} /\ h \in Nat
  BY PowersLarge, ByteOrderAssumption, BlobAssumption
<1>2. (h * 32 + h) % U32 \in Word
  BY <1>1, BlobAssumption
<1> QED
  BY <1>2, XorAssumption DEF HashStep

LEMMA HashFold ==
  ASSUME NEW s \in Seq(Word)
  PROVE  \E v : Hashes(v, s)
<1> DEFINE n == Len(s)
           b0 == 5381 % U32
           Step(g, t) == IF t = {} THEN b0
                         ELSE HashStep(g[t \ {Max(t)}], s[Max(t)])
           Fold(g) == g = [t \in SUBSET DOMAIN s |-> Step(g, t)]
           iter == CHOOSE g : Fold(g)
           v == [i \in 0 .. n |-> iter[1 .. i]]
<1>1. n \in Nat /\ DOMAIN s = 1 .. n /\ \A i \in 1 .. n : s[i] \in Word
  OBVIOUS
<1>2. Hash(s) = iter[DOMAIN s]
  BY DEF Hash, HashStep, FoldLeft, MapThenFoldSet
<1>3. \A h, b \in Word : HashStep(h, b) \in Word
  BY HashStepIsWord
<1>4. b0 \in Word
  BY PowersLarge, ByteOrderAssumption, BlobAssumption
<1> HIDE DEF b0
<1>5. \E g : Fold(g)
  <2> DEFINE st == [p \in (1 .. n) \X Word |-> HashStep(p[2], s[p[1]])]
  <2>1. st \in [(1 .. n) \X Word -> Word]
    BY <1>1, <1>3
  <2> HIDE DEF n
  <2>2. PICK g : IsFold(g, Word, b0, n, st)
    <3> HIDE DEF st
    <3> QED
      BY <1>1, <1>4, <2>1, FoldDefined
  <2>3. ASSUME NEW t \in SUBSET (1 .. n), t # {}
        PROVE  st[<<Max(t), g[t \ {Max(t)}]>>] = HashStep(g[t \ {Max(t)}], s[Max(t)])
    <3>1. Max(t) \in 1 .. n
      BY <1>1, <2>3, MaxProperties
    <3>2. g[t \ {Max(t)}] \in Word
      BY <2>2 DEF IsFold
    <3> QED
      BY <3>1, <3>2
  <2>4. \A t \in SUBSET (1 .. n) : g[t] = Step(g, t)
    BY <2>2, <2>3 DEF IsFold
  <2> HIDE DEF Step
  <2>5. Fold(g)
    BY <1>1, <2>2, <2>4 DEF IsFold
  <2> QED
    BY <2>5
<1>6. Fold(iter)
  <2> HIDE DEF Fold
  <2> QED
    BY <1>5
<1>7. \A t \in SUBSET (1 .. n) : iter[t] = Step(iter, t)
  <2> HIDE DEF iter, Step, n
  <2> QED
    BY <1>1, <1>6
<1> HIDE DEF iter
<1>8. v[0] = b0 /\ Hash(s) = v[n]
  <2>1. 1 .. 0 = {} /\ {} \in SUBSET (1 .. n) /\ 0 \in 0 .. n /\ n \in 0 .. n
    BY <1>1
  <2>2. iter[{}] = b0
    BY <1>7, <2>1
  <2> QED
    BY <1>1, <1>2, <2>1, <2>2
<1>9. ASSUME NEW i \in 1 .. n PROVE v[i] = HashStep(v[i - 1], s[i])
  <2>1. /\ 1 .. i \in SUBSET (1 .. n) /\ 1 .. i # {}
        /\ Max(1 .. i) = i /\ (1 .. i) \ {i} = 1 .. (i - 1)
    BY <1>1, MaxOfPrefix
  <2>2. iter[1 .. i] = HashStep(iter[1 .. (i - 1)], s[i])
    BY <1>7, <2>1
  <2>3. i \in 0 .. n /\ i - 1 \in 0 .. n
    BY <1>1
  <2> QED
    BY <2>2, <2>3
<1> HIDE DEF v, n
<1>10. \A i \in 0 .. n : v[i] \in Word
  <2> DEFINE S == {i \in 0 .. n : v[i] \in Word}
  <2>1. 0 \in S
    BY <1>1, <1>4, <1>8
  <2>2. ASSUME NEW i \in 1 .. n, i - 1 \in S PROVE i \in S
    BY <1>1, <1>3, <1>9, <2>2
  <2>3. \A i \in 0 .. n : i \in S
    <3> HIDE DEF S
    <3> QED
      BY <1>1, <2>1, <2>2, Along
  <2> QED
    BY <2>3
<1>11. v \in [0 .. n -> Word]
  BY <1>10 DEF v
<1> QED
  BY <1>8, <1>9, <1>11 DEF Hashes, n, b0

LEMMA HashIsWord ==
  ASSUME NEW s \in Seq(Word)
  PROVE  Hash(s) \in Word
<1>1. PICK v : Hashes(v, s)
  BY HashFold
<1> QED
  BY <1>1 DEF Hashes

\* One step of the hash loses nothing: neither of what it had nor of the byte.
LEMMA HashStepInjective ==
  ASSUME NEW h \in Word, NEW g \in Word, NEW b \in Word, NEW c \in Word,
         HashStep(h, b) = HashStep(g, c)
  PROVE  h = g <=> b = c
<1>1. PICK x, y \in Word : x = (h * 32 + h) % U32 /\ y = (g * 32 + g) % U32
  <2>1. U32 \in Nat \ {0} /\ h \in Nat /\ g \in Nat
    BY PowersLarge, ByteOrderAssumption, BlobAssumption
  <2>2. (h * 32 + h) % U32 \in 0 .. U32 - 1 /\ (g * 32 + g) % U32 \in 0 .. U32 - 1
    BY <2>1
  <2> QED
    BY <2>2, BlobAssumption, Zenon
<1>2. BitXor(x, b) = BitXor(y, c)
  BY <1>1 DEF HashStep
<1>3. BitXor(BitXor(x, b), b) = x /\ BitXor(BitXor(y, c), c) = y
  BY XorAssumption
<1>4. BitXor(BitXor(x, b), x) = b /\ BitXor(BitXor(y, c), y) = c
  BY XorAssumption
<1>5. x = y <=> h = g
  BY <1>1, BlobAssumption
<1> QED
  BY <1>2, <1>3, <1>4, <1>5

\* One changed byte changes the hash: no step of it forgets what was before.
LEMMA HashDetects ==
  ASSUME NEW s \in Seq(Word), NEW t \in Seq(Word), Len(s) = Len(t),
         NEW j \in 1 .. Len(s), s[j] # t[j],
         \A i \in 1 .. Len(s) : i # j => s[i] = t[i]
  PROVE  Hash(s) # Hash(t)
<1>1. PICK n \in Nat : n = Len(s) /\ n = Len(t)
  OBVIOUS
<1>2. PICK u, v : Hashes(u, s) /\ Hashes(v, t)
  BY HashFold
<1>3. \A k \in 1 .. n : u[k] = HashStep(u[k - 1], s[k])
  BY <1>1, <1>2 DEF Hashes
<1>4. \A k \in 1 .. n : v[k] = HashStep(v[k - 1], t[k])
  BY <1>1, <1>2 DEF Hashes
<1> DEFINE S == {i \in 0 .. n : u[i] = v[i] <=> i < j}
<1>5. 0 \in S
  BY <1>1, <1>2 DEF Hashes
<1>6. ASSUME NEW i \in 1 .. n, i - 1 \in S PROVE i \in S
  <2>1. /\ u[i - 1] \in Word /\ v[i - 1] \in Word /\ s[i] \in Word /\ t[i] \in Word
        /\ u[i] = HashStep(u[i - 1], s[i]) /\ v[i] = HashStep(v[i - 1], t[i])
    <3>1. i \in 1 .. Len(s) /\ i \in 1 .. Len(t) /\ i - 1 \in 0 .. n
      BY <1>1
    <3>2. s[i] \in Word /\ t[i] \in Word
      BY <3>1
    <3>3. u \in [0 .. n -> Word] /\ v \in [0 .. n -> Word]
      BY <1>1, <1>2 DEF Hashes
    <3>4. u[i] = HashStep(u[i - 1], s[i]) /\ v[i] = HashStep(v[i - 1], t[i])
      BY <1>3, <1>4
    <3> QED
      BY <3>1, <3>2, <3>3, <3>4
  <2>2. u[i - 1] = v[i - 1] <=> i - 1 < j
    BY <1>6
  <2>3. CASE i < j
    BY <1>1, <2>1, <2>2, <2>3
  <2>4. CASE i = j
    <3>1. u[i - 1] = v[i - 1] /\ s[i] # t[i]
      BY <1>1, <2>2, <2>4
    <3>2. u[i] # v[i]
      BY <2>1, <3>1, HashStepInjective
    <3> QED
      BY <1>1, <2>4, <3>2
  <2>5. CASE j < i
    <3>1. u[i - 1] # v[i - 1] /\ s[i] = t[i]
      BY <1>1, <2>2, <2>5
    <3>2. u[i] # v[i]
      BY <2>1, <3>1, HashStepInjective
    <3> QED
      BY <1>1, <2>5, <3>2
  <2> QED
    BY <1>1, <2>3, <2>4, <2>5
<1>7. \A i \in 0 .. n : i \in S
  <2> HIDE DEF S
  <2> QED
    BY <1>1, <1>5, <1>6, Along
<1>8. n \in S /\ ~(n < j)
  BY <1>1, <1>7
<1> QED
  BY <1>1, <1>2, <1>8 DEF Hashes
-----------------------------------------------------------------------------
(* Division *)

LEMMA DivUnique ==
  ASSUME NEW q \in Nat, NEW d \in Nat \ {0}, NEW r \in Nat, r < d,
         NEW n \in Nat, n = q * d + r
  PROVE  n \div d = q /\ n % d = r
<1> DEFINE p == n \div d
           s == n % d
<1>1. p \in Nat /\ s \in Nat /\ s < d /\ n = p * d + s
  BY SMT
<1> HIDE DEF p, s
<1>2. (p - q) * d = r - s
  BY <1>1
<1>3. CASE p = q
  <2>1. s = r
    BY <1>1, <1>3
  <2> QED
    BY <1>3, <2>1 DEF p, s
<1>4. CASE p > q
  <2>1. (p - q) * d >= d
    BY <1>1, <1>4
  <2> QED
    BY <1>1, <1>2, <2>1
<1>5. CASE p < q
  <2>1. (q - p) * d >= d
    BY <1>1, <1>5
  <2>2. (q - p) * d = s - r
    BY <1>1
  <2> QED
    BY <1>1, <2>1, <2>2
<1> QED
  BY <1>1, <1>3, <1>4, <1>5

LEMMA DivMod ==
  ASSUME NEW n \in Nat, NEW d \in Nat \ {0}
  PROVE  /\ n \div d \in Nat /\ n % d \in Nat /\ n % d < d
         /\ n = (n \div d) * d + (n % d)
BY SMT

LEMMA DivDiv ==
  ASSUME NEW n \in Nat, NEW a \in Nat \ {0}, NEW b \in Nat \ {0}
  PROVE  (n \div a) \div b = n \div (b * a)
<1>1. PICK m, r0 : m = n \div a /\ r0 = n % a
  OBVIOUS
<1>2. m \in Nat /\ r0 \in Nat /\ r0 < a /\ n = m * a + r0
  BY <1>1, DivMod
<1>3. PICK q, r1 : q = m \div b /\ r1 = m % b
  OBVIOUS
<1>4. q \in Nat /\ r1 \in Nat /\ r1 < b /\ m = q * b + r1
  BY <1>2, <1>3, DivMod
<1>5. b * a \in Nat \ {0}
  BY SMT
<1>6. r1 * a + r0 \in Nat /\ r1 * a + r0 < b * a
  <2>1. r1 * a <= (b - 1) * a
    BY <1>4
  <2>2. (b - 1) * a = b * a - a
    OBVIOUS
  <2>3. r1 * a \in Nat
    BY <1>4
  <2> QED
    BY <1>2, <1>5, <2>1, <2>2, <2>3
<1>7. n = q * (b * a) + (r1 * a + r0)
  <2>1. m * a = q * (b * a) + r1 * a
    BY <1>4
  <2>2. r1 * a \in Nat /\ q * (b * a) \in Nat
    BY <1>4, <1>5
  <2> QED
    BY <1>2, <2>1, <2>2
<1>8. n \div (b * a) = q
  BY <1>4, <1>5, <1>6, <1>7, DivUnique
<1> QED
  BY <1>1, <1>3, <1>8
-----------------------------------------------------------------------------
(* Numbers and their digits *)

LEMMA BytesAreSmall ==
  ASSUME NEW s \in Seq(Byte)
  PROVE  s \in Seq(Nat) /\ \A i \in 1 .. Len(s) : s[i] \in Nat /\ s[i] < BYTE
<1>1. Byte \subseteq Nat /\ \A b \in Byte : b < BYTE
  BY ByteOrderAssumption DEF Byte
<1>2. \A i \in 1 .. Len(s) : s[i] \in Byte
  OBVIOUS
<1>3. s \in Seq(Nat)
  <2>1. Len(s) \in Nat /\ s = [i \in 1 .. Len(s) |-> s[i]]
    OBVIOUS
  <2>2. \A i \in 1 .. Len(s) : s[i] \in Nat
    BY <1>1, <1>2
  <2> QED
    BY <2>1, <2>2
<1> QED
  BY <1>1, <1>2, <1>3

LEMMA DigitsTyped ==
  ASSUME NEW n \in Nat, NEW len \in 0 .. 2 * W
  PROVE  /\ Digits(n, len) \in Seq(Byte) /\ Len(Digits(n, len)) = len
         /\ \A i \in 1 .. len :
              Digits(n, len)[i] = (n \div BYTE ^ (len - i)) % BYTE
<1>1. BYTE \in Nat /\ BYTE >= 2 /\ W \in Nat /\ len \in Nat
  BY ByteOrderAssumption
<1>2. ASSUME NEW i \in 1 .. len
      PROVE  (n \div BYTE ^ (len - i)) % BYTE \in Byte
  <2>1. len - i \in 0 .. 2 * W + 1
    BY <1>1
  <2>2. PICK p \in Nat \ {0} : p = BYTE ^ (len - i)
    BY <2>1, PowersPositive
  <2>3. n \div p \in Nat
    BY <2>2, DivMod
  <2>4. PICK q \in Nat : q = n \div p
    BY <2>3
  <2>5. q % BYTE \in Nat /\ q % BYTE < BYTE
    BY <1>1, DivMod
  <2> QED
    BY <1>1, <2>2, <2>4, <2>5 DEF Byte
<1> QED
  BY <1>1, <1>2 DEF Digits

\* The digits of a number, put together, are the number.
LEMMA NumberOfDigits ==
  ASSUME NEW len \in 0 .. 2 * W, NEW num \in Nat, num < BYTE ^ len
  PROVE  Number(Digits(num, len)) = num
<1> DEFINE s == Digits(num, len)
<1>1. BYTE \in Nat \ {0} /\ W \in Nat /\ len \in Nat
  BY ByteOrderAssumption
<1>2. s \in Seq(Nat) /\ Len(s) = len
      /\ \A i \in 1 .. len : s[i] = (num \div BYTE ^ (len - i)) % BYTE
  <2>1. s \in Seq(Byte) /\ Len(s) = len
    BY DigitsTyped
  <2>2. s \in Seq(Nat)
    BY <2>1, BytesAreSmall
  <2> QED
    BY <2>1, <2>2, DigitsTyped
<1> HIDE DEF s
<1>3. PICK v \in [0 .. len -> Nat] :
        /\ v[0] = 0 /\ Number(s) = v[len]
        /\ \A i \in 1 .. len : v[i] = v[i - 1] * BYTE + s[i]
  BY <1>2, NumberFold DEF Sums
<1> DEFINE S == {i \in 0 .. len : v[i] = num \div BYTE ^ (len - i)}
<1>4. 0 \in S
  <2>1. len \in 0 .. 2 * W + 1 /\ len - 0 = len
    BY <1>1
  <2>2. PICK p \in Nat \ {0} : p = BYTE ^ len
    BY <2>1, PowersPositive
  <2>3. num \div p = 0
    <3>1. num = 0 * p + num /\ num < p
      BY <2>2
    <3> QED
      BY <2>2, <3>1, DivUnique
  <2>4. 0 \in 0 .. len /\ BYTE ^ (len - 0) = p
    BY <1>1, <2>1, <2>2
  <2> QED
    BY <1>3, <2>3, <2>4
<1>5. ASSUME NEW i \in 1 .. len, i - 1 \in S PROVE i \in S
  <2>1. /\ i - 1 \in 0 .. len /\ i \in 0 .. len /\ len - i \in 0 .. 2 * W
        /\ len - (i - 1) = (len - i) + 1 /\ len - i \in 0 .. 2 * W + 1
    BY <1>1
  <2>2. PICK p \in Nat \ {0} : p = BYTE ^ (len - i)
    BY <2>1, PowersPositive
  <2>3. BYTE ^ (len - (i - 1)) = BYTE * p
    BY <2>1, <2>2, PowerNext
  <2>4. PICK q \in Nat : q = num \div p
    BY <2>2, DivMod
  <2>5. v[i - 1] = q \div BYTE
    <3>1. v[i - 1] = num \div (BYTE * p)
      BY <1>5, <2>1, <2>3
    <3> QED
      BY <1>1, <2>4, <3>1, DivDiv
  <2>6. s[i] = q % BYTE
    BY <1>2, <2>2, <2>4
  <2>7. v[i] = (q \div BYTE) * BYTE + (q % BYTE)
    BY <1>3, <2>5, <2>6
  <2>8. v[i] = q
    BY <1>1, <2>7, DivMod
  <2> QED
    BY <2>1, <2>2, <2>4, <2>8
<1> HIDE DEF S
<1>6. \A i \in 0 .. len : i \in S
  BY <1>1, <1>4, <1>5, Along
<1>7. v[len] = num \div BYTE ^ (len - len)
  <2>1. len \in 0 .. len
    BY <1>1
  <2>2. len \in S
    BY <1>6, <2>1
  <2> QED
    BY <2>1, <2>2 DEF S
<1>8. num \div 1 = num
  BY SMT
<1> QED
  <2>1. len - len = 0
    BY <1>1
  <2> QED
    BY <1>3, <1>7, <1>8, <2>1, PowerAssumption DEF s

\* The bytes of a sequence are the digits of its number.
LEMMA DigitsOfNumber ==
  ASSUME NEW len \in 0 .. 2 * W, NEW s \in Seq(Byte), Len(s) = len
  PROVE  /\ Number(s) \in Nat /\ Number(s) < BYTE ^ len
         /\ Digits(Number(s), len) = s
<1>1. BYTE \in Nat \ {0} /\ W \in Nat /\ len \in Nat
  BY ByteOrderAssumption
<1>2. s \in Seq(Nat) /\ \A i \in 1 .. len : s[i] \in Nat /\ s[i] < BYTE
  BY BytesAreSmall
<1>3. PICK v \in [0 .. len -> Nat] :
        /\ v[0] = 0 /\ Number(s) = v[len]
        /\ \A i \in 1 .. len : v[i] = v[i - 1] * BYTE + s[i]
  BY <1>2, NumberFold DEF Sums
<1>4. v[len] \in Nat /\ v[len] < BYTE ^ len
  <2> DEFINE S == {i \in 0 .. len : v[i] < BYTE ^ i}
  <2>1. 0 \in S
    <3>1. 0 \in 0 .. len /\ v[0] < BYTE ^ 0
      BY <1>1, <1>3, PowerAssumption
    <3> QED
      BY <3>1
  <2>2. ASSUME NEW i \in 1 .. len, i - 1 \in S PROVE i \in S
    <3>1. /\ i - 1 \in 0 .. len /\ i \in 0 .. len /\ i - 1 \in 0 .. 2 * W
          /\ (i - 1) + 1 = i /\ i - 1 \in 0 .. 2 * W + 1
      BY <1>1
    <3>2. PICK p \in Nat \ {0} : p = BYTE ^ (i - 1)
      BY <3>1, PowersPositive
    <3>3. BYTE ^ i = BYTE * p
      BY <3>1, <3>2, PowerNext
    <3>4. PICK a \in Nat : a = v[i - 1]
      BY <1>3, <3>1
    <3>5. a <= p - 1
      <4>1. i - 1 \in S
        BY <2>2
      <4>2. v[i - 1] < BYTE ^ (i - 1)
        BY <3>1, <4>1
      <4> QED
        BY <3>2, <3>4, <4>2
    <3>6. a * BYTE <= (p - 1) * BYTE
      BY <1>1, <3>5
    <3>7. (p - 1) * BYTE = BYTE * p - BYTE
      BY <1>1
    <3>8. a * BYTE \in Nat /\ BYTE * p \in Nat
      BY <1>1
    <3>9. v[i] = a * BYTE + s[i]
      BY <1>3, <3>4
    <3>10. v[i] < BYTE * p
      <4>1. s[i] \in Nat /\ s[i] < BYTE
        BY <1>2
      <4>2. PICK x, y \in Nat : x = a * BYTE /\ y = BYTE * p
        BY <3>8
      <4>3. x <= y - BYTE
        BY <3>6, <3>7, <4>2
      <4>4. PICK d \in Nat : d = s[i] /\ d < BYTE
        BY <4>1
      <4>5. v[i] = x + d
        BY <3>9, <4>2, <4>4
      <4>6. x + d < y
        BY <1>1, <4>3, <4>4
      <4> QED
        BY <4>2, <4>5, <4>6
    <3> QED
      BY <3>1, <3>3, <3>10
  <2> HIDE DEF S
  <2>3. \A i \in 0 .. len : i \in S
    BY <1>1, <2>1, <2>2, Along
  <2>4. len \in 0 .. len
    BY <1>1
  <2>5. len \in S
    BY <2>3, <2>4
  <2> QED
    BY <1>3, <2>4, <2>5 DEF S
<1>5. \A j \in 0 .. len : v[len - j] = v[len] \div BYTE ^ j
  <2> DEFINE S == {j \in 0 .. len : v[len - j] = v[len] \div BYTE ^ j}
  <2>1. 0 \in S
    <3>1. v[len] \div 1 = v[len]
      BY <1>4, SMT
    <3>2. len - 0 = len /\ 0 \in 0 .. len /\ BYTE ^ 0 = 1
      BY <1>1, PowerAssumption
    <3> QED
      BY <3>1, <3>2
  <2>2. ASSUME NEW j \in 1 .. len, j - 1 \in S PROVE j \in S
    <3>1. /\ j - 1 \in 0 .. len /\ j \in 0 .. len /\ j - 1 \in 0 .. 2 * W
          /\ (j - 1) + 1 = j /\ j - 1 \in 0 .. 2 * W + 1
          /\ len - (j - 1) \in 1 .. len /\ (len - (j - 1)) - 1 = len - j
          /\ len - j \in 0 .. len
      BY <1>1
    <3>2. PICK p \in Nat \ {0} : p = BYTE ^ (j - 1)
      BY <3>1, PowersPositive
    <3>3. BYTE ^ j = BYTE * p
      BY <3>1, <3>2, PowerNext
    <3>4. PICK a \in Nat : a = v[len - j]
      BY <1>3, <3>1
    <3>5. PICK k \in 1 .. len : k = len - (j - 1)
      BY <3>1
    <3>6. v[k] = a * BYTE + s[k]
      BY <1>3, <3>1, <3>4, <3>5
    <3>7. v[k] \in Nat /\ v[k] = v[len] \div p
      <4>1. j - 1 \in S
        BY <2>2
      <4>2. v[len - (j - 1)] = v[len] \div BYTE ^ (j - 1)
        BY <3>1, <4>1
      <4>3. k \in 0 .. len
        BY <1>1
      <4> QED
        BY <1>3, <3>2, <3>5, <4>2, <4>3
    <3>8. v[k] \div BYTE = a
      <4>1. s[k] \in Nat /\ s[k] < BYTE
        BY <1>2
      <4>2. PICK d, x \in Nat : d = s[k] /\ x = v[k]
        BY <3>7, <4>1
      <4>3. x = a * BYTE + d /\ d < BYTE
        BY <3>6, <4>1, <4>2
      <4> QED
        <5>1. x \div BYTE = a
          BY <1>1, <4>3, DivUnique
        <5> QED
          BY <4>2, <5>1
    <3>9. (v[len] \div p) \div BYTE = v[len] \div (BYTE * p)
      BY <1>1, <1>4, DivDiv
    <3> QED
      BY <3>1, <3>3, <3>4, <3>7, <3>8, <3>9
  <2> HIDE DEF S
  <2>3. \A j \in 0 .. len : j \in S
    BY <1>1, <2>1, <2>2, Along
  <2> QED
    BY <2>3 DEF S
<1>6. ASSUME NEW i \in 1 .. len
      PROVE  (v[len] \div BYTE ^ (len - i)) % BYTE = s[i]
  <2>1. len - i \in 0 .. len /\ len - (len - i) = i /\ i - 1 \in 0 .. len
        /\ i \in 0 .. len
    BY <1>1
  <2>2. v[len] \div BYTE ^ (len - i) = v[i]
    BY <1>5, <2>1
  <2>3. PICK a \in Nat : a = v[i - 1]
    BY <1>3, <2>1
  <2>4. v[i] = a * BYTE + s[i] /\ v[i] \in Nat
    BY <1>3, <2>1, <2>3
  <2>5. v[i] % BYTE = s[i]
    <3>1. PICK d, x \in Nat : d = s[i] /\ x = v[i]
      BY <1>2, <2>4
    <3>2. x = a * BYTE + d /\ d < BYTE
      BY <1>2, <2>4, <3>1
    <3>3. x \div BYTE = a /\ x % BYTE = d
      <4>1. PICK b \in Nat \ {0} : b = BYTE
        BY <1>1
      <4>2. x = a * b + d /\ d < b
        BY <3>2, <4>1
      <4>3. x \div b = a
        BY <4>2, DivUnique
      <4>4. x = a * b + (x % b) /\ x % b \in Nat
        BY <4>3, DivMod
      <4>5. PICK e \in Nat : e = x % b
        BY <4>4
      <4>6. e = d
        BY <4>2, <4>4, <4>5
      <4> QED
        BY <4>1, <4>3, <4>5, <4>6
    <3> QED
      BY <3>1, <3>3
  <2> QED
    BY <2>2, <2>5
<1>7. Digits(v[len], len) = s
  <2>1. s = [i \in 1 .. len |-> s[i]]
    OBVIOUS
  <2> QED
    BY <1>6, <2>1 DEF Digits
<1> QED
  BY <1>3, <1>4, <1>7
-----------------------------------------------------------------------------
(* Two halves of an integer, and the bytes in the other order *)

LEMMA PowerTwice == BYTE ^ (2 * W) = U32 * U32
<1>1. BYTE \in Nat /\ W \in Nat /\ W \in 0 .. 2 * W + 1
  BY ByteOrderAssumption
<1>2. U32 \in Nat
  BY PowersLarge
<1> DEFINE S == {i \in 0 .. W : BYTE ^ (W + i) = U32 * BYTE ^ i}
<1>3. 0 \in S
  <2>1. W + 0 = W /\ 0 \in 0 .. W /\ U32 * 1 = U32
    BY <1>1, <1>2
  <2> QED
    BY <2>1, PowerAssumption DEF U32
<1>4. ASSUME NEW i \in 1 .. W, i - 1 \in S PROVE i \in S
  <2>1. /\ i - 1 \in 0 .. 2 * W /\ (i - 1) + 1 = i /\ i \in 0 .. W
        /\ W + (i - 1) \in 0 .. 2 * W /\ (W + (i - 1)) + 1 = W + i
        /\ i - 1 \in 0 .. 2 * W + 1
    BY <1>1
  <2>2. PICK p \in Nat : p = BYTE ^ (i - 1)
    BY <2>1, PowersPositive
  <2>3. BYTE ^ i = BYTE * p
    BY <2>1, <2>2, PowerNext
  <2>4. BYTE ^ (W + i) = BYTE * BYTE ^ (W + (i - 1))
    BY <2>1, PowerNext
  <2>5. BYTE ^ (W + (i - 1)) = U32 * p
    BY <1>4, <2>2
  <2>6. BYTE * (U32 * p) = U32 * (BYTE * p)
    BY <1>1, <1>2
  <2> QED
    BY <2>1, <2>3, <2>4, <2>5, <2>6
<1>5. \A i \in 0 .. W : i \in S
  <2> HIDE DEF S
  <2> QED
    BY <1>1, <1>3, <1>4, Along
<1>6. BYTE ^ (W + W) = U32 * BYTE ^ W
  BY <1>1, <1>5
<1>7. W + W = 2 * W
  BY <1>1
<1> QED
  BY <1>6, <1>7 DEF U32

LEMMA ConcatProperties ==
  ASSUME NEW T, NEW x \in Seq(T), NEW y \in Seq(T)
  PROVE  /\ x \o y \in Seq(T) /\ Len(x \o y) = Len(x) + Len(y)
         /\ \A i \in 1 .. Len(x) : (x \o y)[i] = x[i]
         /\ \A i \in 1 .. Len(y) : (x \o y)[Len(x) + i] = y[i]
OBVIOUS

LEMMA NumberConcat ==
  ASSUME NEW x \in Seq(Byte), NEW y \in Seq(Byte), Len(x) = W, Len(y) = W
  PROVE  Number(x \o y) = Number(x) * U32 + Number(y)
<1> DEFINE z == x \o y
<1>1. BYTE \in Nat /\ W \in Nat /\ W \in 0 .. 2 * W + 1
  BY ByteOrderAssumption
<1>2. U32 \in Nat
  BY PowersLarge
<1>3. /\ z \in Seq(Byte) /\ Len(z) = W + W
      /\ \A i \in 1 .. W : z[i] = x[i] /\ z[W + i] = y[i]
  <2>1. /\ x \o y \in Seq(Byte) /\ Len(x \o y) = Len(x) + Len(y)
        /\ \A i \in 1 .. Len(x) : (x \o y)[i] = x[i]
        /\ \A i \in 1 .. Len(y) : (x \o y)[Len(x) + i] = y[i]
    <3> HIDE DEF z
    <3> QED
      OBVIOUS
  <2>2. z = x \o y
    OBVIOUS
  <2> HIDE DEF z
  <2>3. /\ z \in Seq(Byte) /\ Len(z) = Len(x) + Len(y)
        /\ \A i \in 1 .. Len(x) : z[i] = x[i]
        /\ \A i \in 1 .. Len(y) : z[Len(x) + i] = y[i]
    BY <2>1, <2>2, Zenon
  <2> QED
    BY <1>1, <2>3
<1> HIDE DEF z
<1>4. x \in Seq(Nat) /\ y \in Seq(Nat) /\ z \in Seq(Nat)
      /\ \A i \in 1 .. W : y[i] \in Nat
  BY <1>3, BytesAreSmall
<1>5. PICK v \in [0 .. W + W -> Nat] :
        /\ v[0] = 0 /\ Number(z) = v[W + W]
        /\ \A i \in 1 .. W + W : v[i] = v[i - 1] * BYTE + z[i]
  <2>1. PICK u : Sums(u, z)
    BY <1>4, NumberFold
  <2> QED
    BY <1>3, <2>1 DEF Sums
<1>6. PICK vx \in [0 .. W -> Nat] :
        /\ vx[0] = 0 /\ Number(x) = vx[W]
        /\ \A i \in 1 .. W : vx[i] = vx[i - 1] * BYTE + x[i]
  <2>1. PICK u : Sums(u, x)
    BY <1>4, NumberFold
  <2> QED
    BY <1>3, <2>1 DEF Sums
<1>7. PICK vy \in [0 .. W -> Nat] :
        /\ vy[0] = 0 /\ Number(y) = vy[W]
        /\ \A i \in 1 .. W : vy[i] = vy[i - 1] * BYTE + y[i]
  <2>1. PICK u : Sums(u, y)
    BY <1>4, NumberFold
  <2> QED
    BY <1>3, <2>1 DEF Sums
<1>8. v[W] = vx[W]
  <2> DEFINE S == {i \in 0 .. W : v[i] = vx[i]}
  <2>1. 0 \in S
    BY <1>1, <1>5, <1>6
  <2>2. ASSUME NEW i \in 1 .. W, i - 1 \in S PROVE i \in S
    <3>1. i \in 1 .. W + W /\ i \in 0 .. W
      BY <1>1
    <3>2. v[i - 1] = vx[i - 1] /\ z[i] = x[i]
      BY <1>3, <2>2
    <3> QED
      BY <1>5, <1>6, <3>1, <3>2
  <2>3. \A i \in 0 .. W : i \in S
    <3> HIDE DEF S
    <3> QED
      BY <1>1, <2>1, <2>2, Along
  <2> QED
    BY <1>1, <2>3
<1>9. PICK a \in Nat : a = vx[W]
  BY <1>1, <1>6
<1>10. v[W + W] = a * U32 + vy[W]
  <2> DEFINE S == {j \in 0 .. W : v[W + j] = a * BYTE ^ j + vy[j]}
  <2>1. 0 \in S
    <3>1. W + 0 = W /\ a * 1 + 0 = a /\ 0 \in 0 .. W
      BY <1>1
    <3> QED
      BY <1>7, <1>8, <1>9, <3>1, PowerAssumption
  <2>2. ASSUME NEW j \in 1 .. W, j - 1 \in S PROVE j \in S
    <3>1. /\ j - 1 \in 0 .. W /\ j \in 0 .. W /\ j - 1 \in 0 .. 2 * W
          /\ (j - 1) + 1 = j /\ j - 1 \in 0 .. 2 * W + 1
          /\ W + j \in 1 .. W + W /\ (W + j) - 1 = W + (j - 1)
      BY <1>1
    <3>2. PICK p \in Nat : p = BYTE ^ (j - 1)
      BY <3>1, PowersPositive
    <3>3. BYTE ^ j = BYTE * p
      BY <3>1, <3>2, PowerNext
    <3>4. PICK b, c \in Nat : b = vy[j - 1] /\ c = y[j]
      BY <1>4, <1>7, <3>1
    <3>5. v[W + (j - 1)] = a * p + b
      BY <2>2, <3>2, <3>4
    <3>6. v[W + j] = (a * p + b) * BYTE + c
      BY <1>3, <1>5, <3>1, <3>4, <3>5
    <3>7. vy[j] = b * BYTE + c
      BY <1>7, <3>4
    <3>8. (a * p + b) * BYTE + c = a * (BYTE * p) + (b * BYTE + c)
      BY <1>1
    <3> QED
      BY <3>1, <3>3, <3>6, <3>7, <3>8
  <2>3. \A j \in 0 .. W : j \in S
    <3> HIDE DEF S
    <3> QED
      BY <1>1, <2>1, <2>2, Along
  <2>4. W \in S
    BY <1>1, <2>3
  <2> QED
    BY <2>4 DEF U32
<1> QED
  BY <1>5, <1>6, <1>7, <1>9, <1>10 DEF z

LEMMA ReverseProperties ==
  ASSUME NEW s \in Seq(Byte)
  PROVE  /\ Reverse(s) \in Seq(Byte) /\ Len(Reverse(s)) = Len(s)
         /\ \A i \in 1 .. Len(s) : Reverse(s)[i] = s[(Len(s) - i) + 1]
         /\ Reverse(Reverse(s)) = s
<1>1. PICK n \in Nat : n = Len(s)
  OBVIOUS
<1>2. /\ Reverse(s) \in Seq(Byte) /\ Len(Reverse(s)) = n
      /\ \A i \in 1 .. n : Reverse(s)[i] = s[(n - i) + 1]
  <2>1. \A i \in 1 .. n : (n - i) + 1 \in 1 .. n /\ s[(n - i) + 1] \in Byte
    BY <1>1
  <2>2. Reverse(s) = [i \in 1 .. n |-> s[(n - i) + 1]]
    BY <1>1 DEF Reverse
  <2> QED
    BY <2>1, <2>2
<1>3. PICK r \in Seq(Byte) : r = Reverse(s)
  BY <1>2
<1>4. Reverse(r) = [i \in 1 .. n |-> r[(n - i) + 1]]
  BY <1>2, <1>3 DEF Reverse
<1>5. \A i \in 1 .. n : (n - i) + 1 \in 1 .. n /\ (n - ((n - i) + 1)) + 1 = i
  OBVIOUS
<1>6. \A i \in 1 .. n : r[(n - i) + 1] = s[i]
  BY <1>2, <1>3, <1>5
<1>7. s = [i \in 1 .. n |-> s[i]]
  BY <1>1
<1>8. Reverse(r) = s
  BY <1>4, <1>6, <1>7
<1> QED
  BY <1>1, <1>2, <1>3, <1>8

LEMMA ReverseConcat ==
  ASSUME NEW x \in Seq(Byte), NEW y \in Seq(Byte)
  PROVE  Reverse(x \o y) = Reverse(y) \o Reverse(x)
<1>1. PICK n, m \in Nat : n = Len(x) /\ m = Len(y)
  OBVIOUS
<1>2. PICK z \in Seq(Byte) : z = x \o y
  BY ConcatProperties
<1>3. Len(z) = n + m /\ (\A i \in 1 .. n : z[i] = x[i])
      /\ \A i \in 1 .. m : z[n + i] = y[i]
  BY <1>1, <1>2, ConcatProperties
<1>4. PICK a, b, c \in Seq(Byte) :
        a = Reverse(z) /\ b = Reverse(y) /\ c = Reverse(x)
  BY ReverseProperties
<1>5. Len(a) = n + m /\ \A i \in 1 .. n + m : a[i] = z[((n + m) - i) + 1]
  <2>1. /\ Len(Reverse(z)) = Len(z)
        /\ \A i \in 1 .. Len(z) : Reverse(z)[i] = z[(Len(z) - i) + 1]
    BY ReverseProperties
  <2> QED
    BY <1>3, <1>4, <2>1
<1>6. Len(b) = m /\ \A i \in 1 .. m : b[i] = y[(m - i) + 1]
  BY <1>1, <1>4, ReverseProperties
<1>7. Len(c) = n /\ \A i \in 1 .. n : c[i] = x[(n - i) + 1]
  BY <1>1, <1>4, ReverseProperties
<1>8. PICK d \in Seq(Byte) : d = b \o c
  BY ConcatProperties
<1>9. Len(d) = n + m /\ (\A i \in 1 .. m : d[i] = b[i])
      /\ \A i \in 1 .. n : d[m + i] = c[i]
  <2>1. /\ Len(b \o c) = Len(b) + Len(c)
        /\ \A i \in 1 .. Len(b) : (b \o c)[i] = b[i]
        /\ \A i \in 1 .. Len(c) : (b \o c)[Len(b) + i] = c[i]
    OBVIOUS
  <2> QED
    BY <1>6, <1>7, <1>8, <2>1
<1>10. ASSUME NEW i \in 1 .. n + m PROVE a[i] = d[i]
  <2>0. a[i] = z[((n + m) - i) + 1]
    BY <1>5
  <2>1. CASE i <= m
    <3>1. PICK k \in 1 .. m : k = (m - i) + 1
      BY <2>1
    <3>2. i \in 1 .. m /\ ((n + m) - i) + 1 = n + k
      BY <2>1, <3>1
    <3>3. a[i] = y[k]
      BY <1>3, <2>0, <3>2
    <3>4. d[i] = y[k]
      BY <1>6, <1>9, <3>1, <3>2
    <3> QED
      BY <3>3, <3>4
  <2>2. CASE i > m
    <3>1. PICK j \in 1 .. n : j = i - m
      BY <2>2
    <3>2. PICK k \in 1 .. n : k = (n - j) + 1
      OBVIOUS
    <3>3. i = m + j /\ ((n + m) - i) + 1 = k
      BY <2>2, <3>1, <3>2
    <3>4. a[i] = x[k]
      BY <1>3, <2>0, <3>3
    <3>5. d[i] = x[k]
      BY <1>7, <1>9, <3>2, <3>3
    <3> QED
      BY <3>4, <3>5
  <2> QED
    BY <2>1, <2>2
<1>11. a = d
  <2>1. a = [i \in 1 .. n + m |-> a[i]] /\ d = [i \in 1 .. n + m |-> d[i]]
    BY <1>5, <1>9
  <2> QED
    BY <1>10, <2>1
<1> QED
  BY <1>2, <1>4, <1>8, <1>11
-----------------------------------------------------------------------------
(* Conversions: an integer is in the file as its digits, whoever wrote it *)

\* htonll is compiled for the order that the host has.
OrdersKnown == \A h \in Host : h.swaps64 = h.little

LEMMA WidthsDiffer ==
  /\ W \in Nat /\ W # 1 /\ 2 * W # 1 /\ 2 * W # W
  /\ W \in 0 .. 2 * W /\ 2 * W \in 0 .. 2 * W
BY ByteOrderAssumption

LEMMA MemoryInverts ==
  ASSUME NEW h, NEW len \in 0 .. 2 * W, NEW s \in Seq(Byte), Len(s) = len
  PROVE  /\ Value(h, s) \in Nat /\ Value(h, s) < BYTE ^ len
         /\ InMemory(h, Value(h, s), len) = s
<1>1. CASE h.little
  <2>1. PICK r \in Seq(Byte) : r = Reverse(s)
    BY ReverseProperties
  <2>2. Len(r) = len /\ Reverse(r) = s
    BY <2>1, ReverseProperties
  <2>3. Value(h, s) = Number(r)
    BY <1>1, <2>1 DEF Value
  <2>4. Number(r) \in Nat /\ Number(r) < BYTE ^ len /\ Digits(Number(r), len) = r
    BY <2>2, DigitsOfNumber
  <2> QED
    BY <1>1, <2>2, <2>3, <2>4 DEF InMemory
<1>2. CASE ~h.little
  <2>1. Value(h, s) = Number(s)
    BY <1>2 DEF Value
  <2>2. Number(s) \in Nat /\ Number(s) < BYTE ^ len /\ Digits(Number(s), len) = s
    BY DigitsOfNumber
  <2> QED
    BY <1>2, <2>1, <2>2 DEF InMemory
<1> QED
  BY <1>1, <1>2

\* h2n gives the integer that a host has in memory as the digits of another.
LEMMA H2NIsValue ==
  ASSUME OrdersKnown, NEW h \in Host, NEW len \in {W, 2 * W},
         NEW num \in Nat, num < BYTE ^ len
  PROVE  H2N(h, num, len) = Value(h, Digits(num, len))
<1>1. CASE len = W
  BY <1>1, WidthsDiffer DEF H2N, Htonl
<1>2. CASE len = 2 * W /\ ~h.little
  <2>1. H2N(h, num, len) = num
    BY <1>2, WidthsDiffer DEF H2N, Htonll, OrdersKnown
  <2>2. Value(h, Digits(num, len)) = num
    BY <1>2, WidthsDiffer, NumberOfDigits DEF Value
  <2> QED
    BY <2>1, <2>2
<1>3. CASE len = 2 * W /\ h.little
  <2>1. U32 \in Nat \ {0} /\ num < U32 * U32
    BY <1>3, PowerTwice, PowersLarge, ByteOrderAssumption
  <2>2. PICK a, b \in Nat : a = num \div U32 /\ b = num % U32
    BY <2>1, DivMod
  <2>3. b < U32 /\ num = a * U32 + b
    BY <2>1, <2>2, DivMod
  <2>4. a < U32
    <3> SUFFICES ASSUME a >= U32 PROVE FALSE
      BY <2>1
    <3>1. a * U32 >= U32 * U32
      BY <2>1
    <3>2. a * U32 \in Nat /\ U32 * U32 \in Nat
      BY <2>1
    <3> QED
      BY <2>1, <2>3, <3>1, <3>2
  <2>5. PICK x, y \in Seq(Byte) : x = Digits(a, W) /\ y = Digits(b, W)
    BY DigitsTyped, WidthsDiffer
  <2>6. Len(x) = W /\ Len(y) = W /\ Number(x) = a /\ Number(y) = b
    BY <2>3, <2>4, <2>5, DigitsTyped, NumberOfDigits, WidthsDiffer DEF U32
  <2>7. PICK z \in Seq(Byte) : z = x \o y
    BY ConcatProperties
  <2>8. Len(z) = 2 * W
    <3>1. Len(z) = Len(x) + Len(y)
      BY <2>7, ConcatProperties
    <3> QED
      BY <2>6, <3>1, WidthsDiffer
  <2>9. Number(z) = num
    BY <2>3, <2>6, <2>7, NumberConcat
  <2>10. Digits(num, 2 * W) = z
    BY <2>8, <2>9, DigitsOfNumber, WidthsDiffer
  <2>11. Value(h, Digits(num, len)) = Number(Reverse(y) \o Reverse(x))
    BY <1>3, <2>7, <2>10, ReverseConcat DEF Value
  <2>12. Number(Reverse(y) \o Reverse(x))
           = Number(Reverse(y)) * U32 + Number(Reverse(x))
    BY <2>6, ReverseProperties, NumberConcat
  <2>13. H2N(h, num, len) = Htonl(h, b) * U32 + Htonl(h, a)
    BY <1>3, <2>2, WidthsDiffer DEF H2N, Htonll, OrdersKnown
  <2>14. Htonl(h, b) = Number(Reverse(y)) /\ Htonl(h, a) = Number(Reverse(x))
    BY <1>3, <2>5 DEF Htonl, Value
  <2> QED
    BY <2>11, <2>12, <2>13, <2>14
<1> QED
  BY <1>1, <1>2, <1>3

\* writeH2N puts the digits of an integer into the file, on every host.
LEMMA WriteIsDigits ==
  ASSUME OrdersKnown, NEW h \in Host, NEW len \in {W, 2 * W},
         NEW num \in Nat, num < BYTE ^ len
  PROVE  WriteH2N(h, num, len) = Digits(num, len)
<1>1. len \in 0 .. 2 * W
  BY WidthsDiffer
<1>2. Digits(num, len) \in Seq(Byte) /\ Len(Digits(num, len)) = len
  BY <1>1, DigitsTyped
<1>3. InMemory(h, Value(h, Digits(num, len)), len) = Digits(num, len)
  BY <1>1, <1>2, MemoryInverts
<1> QED
  BY <1>3, H2NIsValue DEF WriteH2N

\* readN2H reads the number of the bytes in the file, on every host.
LEMMA ReadIsNumber ==
  ASSUME OrdersKnown, NEW h \in Host, NEW s \in Seq(Byte), Len(s) \in {W, 2 * W}
  PROVE  ReadN2H(h, s) = Number(s)
<1>1. PICK len \in {W, 2 * W} : len = Len(s)
  OBVIOUS
<1>2. len \in 0 .. 2 * W
  BY WidthsDiffer
<1>3. PICK num \in Nat : num = Value(h, s) /\ num < BYTE ^ len
  BY <1>1, <1>2, MemoryInverts
<1>4. ReadN2H(h, s) = Value(h, Digits(num, len))
  BY <1>1, <1>3, H2NIsValue DEF ReadN2H
<1>5. CASE h.little
  <2>1. PICK r \in Seq(Byte) : r = Reverse(s)
    BY ReverseProperties
  <2>2. Len(r) = len /\ Reverse(r) = s
    BY <1>1, <2>1, ReverseProperties
  <2>3. num = Number(r)
    BY <1>3, <1>5, <2>1 DEF Value
  <2>4. Digits(num, len) = r
    BY <1>2, <2>2, <2>3, DigitsOfNumber
  <2> QED
    BY <1>4, <1>5, <2>2, <2>4 DEF Value
<1>6. CASE ~h.little
  <2>1. num = Number(s)
    BY <1>3, <1>6 DEF Value
  <2>2. Digits(num, len) = s
    BY <1>1, <1>2, <2>1, DigitsOfNumber
  <2> QED
    BY <1>4, <1>6, <2>2 DEF Value
<1> QED
  BY <1>5, <1>6

\* What any host writes, any host reads (writeH2N and readN2H).
THEOREM WrittenIsRead ==
  ASSUME OrdersKnown, NEW h \in Host, NEW g \in Host, NEW len \in {W, 2 * W},
         NEW num \in Nat, num < BYTE ^ len
  PROVE  ReadN2H(g, WriteH2N(h, num, len)) = num
<1>1. len \in 0 .. 2 * W
  BY WidthsDiffer
<1>2. PICK s \in Seq(Byte) : s = Digits(num, len) /\ Len(s) = len
  BY <1>1, DigitsTyped
<1>3. WriteH2N(h, num, len) = s
  BY <1>2, WriteIsDigits
<1>4. ReadN2H(g, s) = Number(s)
  BY <1>2, ReadIsNumber
<1>5. Number(s) = num
  BY <1>1, <1>2, NumberOfDigits
<1> QED
  BY <1>3, <1>4, <1>5
-----------------------------------------------------------------------------
(* Bytes in a file *)

ByteAt(f, k) == IF k <= Len(f) THEN f[k] ELSE 0

LEMMA AtDefined ==
  ASSUME NEW f, NEW off, NEW len
  PROVE  At(f, off, len) = [i \in 1 .. len |-> ByteAt(f, off + i)]
BY DEF At, ByteAt

LEMMA AtProperties ==
  ASSUME NEW f \in Seq(Byte), NEW off \in Nat, NEW len \in Nat
  PROVE  /\ At(f, off, len) = [i \in 1 .. len |-> ByteAt(f, off + i)]
         /\ At(f, off, len) \in Seq(Byte) /\ Len(At(f, off, len)) = len
<1>1. 0 \in Byte
  BY ByteOrderAssumption DEF Byte
<1>2. \A k \in Nat \ {0} : ByteAt(f, k) \in Byte
  BY <1>1 DEF ByteAt
<1>3. At(f, off, len) = [i \in 1 .. len |-> ByteAt(f, off + i)]
  BY AtDefined
<1>4. \A i \in 1 .. len : ByteAt(f, off + i) \in Byte
  BY <1>2
<1> QED
  BY <1>3, <1>4

\* What a memcpy into the file changes, and what it leaves.
LEMMA PutProperties ==
  ASSUME NEW f \in Seq(Byte), NEW off \in Nat, NEW s \in Seq(Byte)
  PROVE  /\ Put(f, off, s) \in Seq(Byte) /\ Len(Put(f, off, s)) = Len(f)
         /\ \A k \in 1 .. Len(f) : off < k /\ k <= off + Len(s) =>
              ByteAt(Put(f, off, s), k) = s[k - off]
         /\ \A k \in Nat \ {0} : k <= off \/ off + Len(s) < k =>
              ByteAt(Put(f, off, s), k) = ByteAt(f, k)
<1>1. PICK n, m \in Nat : n = Len(f) /\ m = Len(s)
  OBVIOUS
<1>2. DOMAIN f = 1 .. n /\ DOMAIN s = 1 .. m
      /\ (\A i \in 1 .. n : f[i] \in Byte) /\ \A i \in 1 .. m : s[i] \in Byte
  BY <1>1
<1>3. ASSUME NEW i \in 1 .. n
      PROVE  i - off \in 1 .. m <=> off < i /\ i <= off + m
  OBVIOUS
<1>4. PICK g : g = Put(f, off, s)
  OBVIOUS
<1>5. g = [i \in 1 .. n |-> IF i - off \in 1 .. m THEN s[i - off] ELSE f[i]]
  BY <1>2, <1>4 DEF Put
<1>6. g \in Seq(Byte) /\ Len(g) = n
  BY <1>2, <1>5
<1>7. ASSUME NEW k \in 1 .. n, off < k, k <= off + m
      PROVE  ByteAt(g, k) = s[k - off]
  BY <1>3, <1>5, <1>6, <1>7 DEF ByteAt
<1>8. ASSUME NEW k \in Nat \ {0}, k <= off \/ off + m < k
      PROVE  ByteAt(g, k) = ByteAt(f, k)
  <2>1. CASE k <= n
    <3>1. k \in 1 .. n /\ ~(off < k /\ k <= off + m)
      BY <1>8, <2>1
    <3>2. g[k] = f[k]
      BY <1>3, <1>5, <3>1
    <3> QED
      BY <1>1, <1>6, <2>1, <3>2 DEF ByteAt
  <2>2. CASE ~(k <= n)
    BY <1>1, <1>6, <2>2 DEF ByteAt
  <2> QED
    BY <2>1, <2>2
<1> QED
  BY <1>1, <1>4, <1>6, <1>7, <1>8

LEMMA ResizeProperties ==
  ASSUME NEW f \in Seq(Byte), NEW n \in Nat
  PROVE  /\ Resize(f, n) \in Seq(Byte) /\ Len(Resize(f, n)) = n
         /\ \A k \in 1 .. n : ByteAt(Resize(f, n), k) = ByteAt(f, k)
<1>1. PICK g : g = Resize(f, n)
  OBVIOUS
<1>2. g \in Seq(Byte) /\ Len(g) = n /\ g = [i \in 1 .. n |-> ByteAt(f, 0 + i)]
  BY <1>1, AtProperties DEF Resize
<1>3. ASSUME NEW k \in 1 .. n PROVE ByteAt(g, k) = ByteAt(f, k)
  <2>1. 0 + k = k /\ k <= Len(g)
    BY <1>2
  <2>2. g[k] = ByteAt(f, k)
    BY <1>2, <2>1
  <2>3. ByteAt(g, k) = g[k]
    BY <2>1 DEF ByteAt
  <2> QED
    BY <2>2, <2>3
<1> QED
  BY <1>1, <1>2, <1>3

\* The same bytes, one by one.
LEMMA AtSame ==
  ASSUME NEW f \in Seq(Byte), NEW g \in Seq(Byte), NEW off \in Nat, NEW len \in Nat,
         \A j \in 1 .. len : ByteAt(g, off + j) = ByteAt(f, off + j)
  PROVE  At(g, off, len) = At(f, off, len)
<1>1. At(g, off, len) = [j \in 1 .. len |-> ByteAt(g, off + j)]
  BY AtDefined
<1>2. At(f, off, len) = [j \in 1 .. len |-> ByteAt(f, off + j)]
  BY AtDefined
<1> QED
  BY <1>1, <1>2

LEMMA PutElsewhere ==
  ASSUME NEW f \in Seq(Byte), NEW off \in Nat, NEW s \in Seq(Byte),
         NEW k \in Nat \ {0}, k <= off \/ off + Len(s) < k
  PROVE  ByteAt(Put(f, off, s), k) = ByteAt(f, k)
BY PutProperties

LEMMA ReplaceByte ==
  ASSUME NEW f \in Seq(Byte), NEW i \in DOMAIN f, NEW b \in Byte
  PROVE  /\ ReplaceAt(f, i, b) \in Seq(Byte)
         /\ \A k \in Nat \ {0} :
              ByteAt(ReplaceAt(f, i, b), k) = IF k = i THEN b ELSE ByteAt(f, k)
<1>1. PICK g : g = ReplaceAt(f, i, b)
  OBVIOUS
<1>2. g \in Seq(Byte) /\ Len(g) = Len(f) /\ g[i] = b
      /\ \A k \in DOMAIN f : k # i => g[k] = f[k]
  BY <1>1 DEF ReplaceAt
<1>3. ASSUME NEW k \in Nat \ {0}
      PROVE  ByteAt(g, k) = IF k = i THEN b ELSE ByteAt(f, k)
  BY <1>2 DEF ByteAt
<1> QED
  BY <1>1, <1>2, <1>3

\* What is written is there.
LEMMA AtPut ==
  ASSUME NEW f \in Seq(Byte), NEW off \in Nat, NEW s \in Seq(Byte),
         off + Len(s) <= Len(f)
  PROVE  At(Put(f, off, s), off, Len(s)) = s
<1>1. PICK m \in Nat : m = Len(s)
  OBVIOUS
<1>2. PICK g \in Seq(Byte) : g = Put(f, off, s)
        /\ \A k \in 1 .. Len(f) : off < k /\ k <= off + Len(s) =>
             ByteAt(g, k) = s[k - off]
  BY PutProperties
<1>3. ASSUME NEW i \in 1 .. m PROVE ByteAt(g, off + i) = s[i]
  <2>1. PICK k \in 1 .. Len(f) :
          k = off + i /\ k - off = i /\ off < k /\ k <= off + Len(s)
    BY <1>1
  <2>2. ByteAt(g, k) = s[k - off]
    BY <1>2, <2>1
  <2> QED
    BY <2>1, <2>2
<1>4. At(g, off, m) = [i \in 1 .. m |-> ByteAt(g, off + i)]
  BY AtProperties
<1>5. s = [i \in 1 .. m |-> s[i]]
  BY <1>1
<1> QED
  BY <1>1, <1>2, <1>3, <1>4, <1>5

\* What is elsewhere stays there.
LEMMA AtPutElsewhere ==
  ASSUME NEW f \in Seq(Byte), NEW at \in Nat, NEW s \in Seq(Byte),
         NEW off \in Nat, NEW len \in Nat,
         off + len <= at \/ at + Len(s) <= off
  PROVE  At(Put(f, at, s), off, len) = At(f, off, len)
<1>1. PICK m \in Nat : m = Len(s)
  OBVIOUS
<1>2. PICK g \in Seq(Byte) : g = Put(f, at, s)
  BY PutProperties
<1>3. ASSUME NEW i \in 1 .. len PROVE ByteAt(g, off + i) = ByteAt(f, off + i)
  <2>1. PICK k \in Nat \ {0} : k = off + i
    OBVIOUS
  <2>2. k <= at \/ at + Len(s) < k
    BY <1>1, <2>1
  <2> QED
    BY <1>2, <2>1, <2>2, PutElsewhere
<1>4. At(g, off, len) = At(f, off, len)
  BY <1>3, AtSame
<1> QED
  BY <1>2, <1>4

\* Bytes that are a concatenation, part by part.
Reads(f, off, s) == At(f, off, Len(s)) = s

LEMMA ReadsConcat ==
  ASSUME NEW f \in Seq(Byte), NEW off \in Nat, NEW x \in Seq(Byte),
         NEW y \in Seq(Byte), Reads(f, off, x \o y)
  PROVE  Reads(f, off, x) /\ Reads(f, off + Len(x), y)
<1>1. PICK n, m \in Nat : n = Len(x) /\ m = Len(y)
  OBVIOUS
<1>2. PICK z \in Seq(Byte) : z = x \o y
  BY ConcatProperties
<1>3. Len(z) = n + m
      /\ (\A i \in 1 .. n : z[i] = x[i]) /\ \A i \in 1 .. m : z[n + i] = y[i]
  BY <1>1, <1>2, ConcatProperties
<1>4. z = [i \in 1 .. n + m |-> ByteAt(f, off + i)]
  <2>1. PICK len \in Nat : len = n + m
    OBVIOUS
  <2>2. At(f, off, len) = [i \in 1 .. len |-> ByteAt(f, off + i)]
    BY AtProperties
  <2> QED
    BY <1>2, <1>3, <2>1, <2>2 DEF Reads
<1>5. ASSUME NEW i \in 1 .. n PROVE ByteAt(f, off + i) = x[i]
  <2>1. i \in 1 .. n + m
    OBVIOUS
  <2> QED
    BY <1>3, <1>4, <2>1
<1>6. ASSUME NEW i \in 1 .. m PROVE ByteAt(f, (off + n) + i) = y[i]
  <2>1. PICK k \in 1 .. n + m : k = n + i /\ off + k = (off + n) + i
    OBVIOUS
  <2>2. z[k] = ByteAt(f, off + k)
    BY <1>4
  <2> QED
    BY <1>3, <2>1, <2>2
<1>7. At(f, off, n) = x
  <2>1. At(f, off, n) = [i \in 1 .. n |-> ByteAt(f, off + i)]
    BY AtProperties
  <2>2. x = [i \in 1 .. n |-> x[i]]
    BY <1>1
  <2> QED
    BY <1>5, <2>1, <2>2
<1>8. At(f, off + n, m) = y
  <2>1. PICK at \in Nat : at = off + n
    OBVIOUS
  <2>2. At(f, at, m) = [i \in 1 .. m |-> ByteAt(f, at + i)]
    BY AtProperties
  <2>3. y = [i \in 1 .. m |-> y[i]]
    BY <1>1
  <2> QED
    BY <1>6, <2>1, <2>2, <2>3
<1> QED
  BY <1>1, <1>7, <1>8 DEF Reads

\* The b bytes after the first a of those at an offset.
Part(f, off, len, a, b) ==
  SubSeq(At(f, off, len), a + 1, a + b) = At(f, off + a, b)

LEMMA AtSubSeq ==
  ASSUME NEW f \in Seq(Byte), NEW off \in Nat, NEW len \in Nat,
         NEW a \in Nat, NEW b \in Nat, a + b <= len
  PROVE  Part(f, off, len, a, b)
<1>1. PICK s \in Seq(Byte) :
        s = At(f, off, len) /\ s = [i \in 1 .. len |-> ByteAt(f, off + i)]
  BY AtProperties
<1>2. SubSeq(s, a + 1, a + b) = [i \in 1 .. b |-> s[a + i]]
  <2>1. (a + b) - (a + 1) + 1 = b
    OBVIOUS
  <2>2. \A i \in 1 .. b : (a + 1) + i - 1 = a + i
    OBVIOUS
  <2> QED
    BY <2>1, <2>2
<1>3. ASSUME NEW i \in 1 .. b PROVE s[a + i] = ByteAt(f, (off + a) + i)
  <2>1. PICK k \in 1 .. len : k = a + i /\ off + k = (off + a) + i
    OBVIOUS
  <2>2. s[k] = ByteAt(f, off + k)
    BY <1>1
  <2> QED
    BY <2>1, <2>2
<1>4. At(f, off + a, b) = [i \in 1 .. b |-> ByteAt(f, (off + a) + i)]
  <2>1. PICK at \in Nat : at = off + a
    OBVIOUS
  <2>2. At(f, at, b) = [i \in 1 .. b |-> ByteAt(f, at + i)]
    BY AtProperties
  <2> QED
    BY <2>1, <2>2
<1> QED
  BY <1>1, <1>2, <1>3, <1>4 DEF Part
-----------------------------------------------------------------------------
(* An object in its block *)

LEMMA BytesAreWords ==
  /\ Byte \subseteq Word /\ 0 \in Byte /\ Word = 0 .. U32 - 1
  /\ U32 \in Nat /\ U32 >= BYTE /\ BYTE \in Nat /\ BYTE >= 2
BY PowersLarge, ByteOrderAssumption, BlobAssumption DEF Byte

LEMMA OneByte ==
  ASSUME NEW b \in Byte
  PROVE  <<b>> \in Seq(Byte) /\ Len(<<b>>) = 1
OBVIOUS

LEMMA WordSequence ==
  ASSUME NEW s \in Seq(Byte)
  PROVE  s \in Seq(Word)
<1>1. Len(s) \in Nat /\ s = [i \in 1 .. Len(s) |-> s[i]]
  OBVIOUS
<1>2. \A i \in 1 .. Len(s) : s[i] \in Word
  <2>1. \A i \in 1 .. Len(s) : s[i] \in Byte
    OBVIOUS
  <2> QED
    BY <2>1, BytesAreWords
<1> QED
  BY <1>1, <1>2

LEMMA EncryptProperties ==
  ASSUME NEW k \in Seq(Byte), NEW s \in Seq(Byte)
  PROVE  /\ Encrypt(k, s) \in Seq(Byte) /\ Len(Encrypt(k, s)) = Len(s)
         /\ Encrypt(k, s) \in Seq(Word)
         /\ Decrypt(k, Encrypt(k, s)) = s
<1>1. PICK m \in Seq(Byte) : m = MKey(k) /\ Len(m) \in Nat \ {0}
  <2>1. PICK zero \in Seq(Byte) : zero = <<0>> /\ Len(zero) = 1
    <3>1. 0 \in Byte
      BY BytesAreWords
    <3> QED
      BY <3>1, OneByte
  <2>2. CASE k = <<>>
    <3>1. MKey(k) = zero
      BY <2>1, <2>2 DEF MKey
    <3>2. Len(zero) \in Nat \ {0}
      BY <2>1
    <3> QED
      BY <3>1, <3>2, Zenon
  <2>3. CASE k # <<>>
    <3>1. Len(k) \in Nat \ {0} /\ MKey(k) = k
      BY <2>3 DEF MKey
    <3> QED
      BY <3>1
  <2> QED
    BY <2>2, <2>3
<1>2. PICK n \in Nat, l \in Nat \ {0} : n = Len(s) /\ l = Len(m)
  BY <1>1
<1>3. ASSUME NEW i \in 1 .. n
      PROVE  BitXor(s[i], m[((i - 1) % l) + 1]) \in Byte
  <2>1. PICK j \in 1 .. l : j = ((i - 1) % l) + 1
    BY <1>2, SMT
  <2>2. s[i] \in Byte /\ m[j] \in Byte
    BY <1>2
  <2> QED
    BY <2>1, <2>2, BlobAssumption
<1>4. Encrypt(k, s) = [i \in 1 .. n |-> BitXor(s[i], m[((i - 1) % l) + 1])]
  <2>1. DOMAIN s = 1 .. n
    BY <1>2
  <2> QED
    BY <1>1, <1>2, <2>1 DEF Encrypt, XOR
<1>5. Encrypt(k, s) \in Seq(Byte) /\ Len(Encrypt(k, s)) = n
  BY <1>3, <1>4
<1>6. k \in Seq(Word) /\ s \in Seq(Word)
  BY WordSequence
<1>7. Encrypt(k, s) \in Seq(Word)
  BY <1>5, WordSequence
<1>8. Decrypt(k, Encrypt(k, s)) = s
  BY <1>6, DecryptInverts
<1> QED
  BY <1>2, <1>5, <1>7, <1>8

\* A record of a block that an object may be in.
GoodRecord(r) == r \in Record /\ r.offset = HEAD_SIZE /\ MIN_SIZE <= r.size

\* The bytes of an id and of data, both encrypted, where writeData puts them.
Stored(f, r, id, data) ==
  /\ At(f, r.offset, 1) = <<Len(id)>>
  /\ At(f, r.offset + 1, Len(id)) = id
  /\ At(f, HashAt(r, Len(id)), W) = Digits(Hash(data), W)
  /\ At(f, DataSizeAt(r, Len(id)), W) = Digits(Len(data), W)
  /\ At(f, DataAt(r, Len(id)), Len(data)) = data

LEMMA WordProperties ==
  ASSUME OrdersKnown, NEW h \in Host, NEW num \in Word
  PROVE  /\ num \in Nat /\ num < BYTE ^ W /\ W \in 0 .. 2 * W /\ W \in Nat
         /\ WriteH2N(h, num, W) = Digits(num, W)
         /\ Digits(num, W) \in Seq(Byte) /\ Len(Digits(num, W)) = W
         /\ ReadN2H(h, Digits(num, W)) = num
<1>1. num \in Nat /\ num < BYTE ^ W
  BY BytesAreWords DEF U32
<1>2. W \in {W, 2 * W} /\ W \in 0 .. 2 * W /\ W \in Nat
  BY WidthsDiffer
<1>3. WriteH2N(h, num, W) = Digits(num, W)
  BY <1>1, <1>2, WriteIsDigits
<1>4. Digits(num, W) \in Seq(Byte) /\ Len(Digits(num, W)) = W
  BY <1>1, <1>2, DigitsTyped
<1>5. ReadN2H(h, WriteH2N(h, num, W)) = num
  BY <1>1, <1>2, WrittenIsRead
<1> QED
  BY <1>1, <1>2, <1>3, <1>4, <1>5

\* An offset, which is as wide as the head.
Offset == 0 .. U32 * U32 - 1

LEMMA OffsetsAreNatural == \A x \in Offset : x \in Nat
BY PowersLarge DEF Offset

LEMMA OffsetProperties ==
  ASSUME OrdersKnown, NEW h \in Host, NEW num \in Offset
  PROVE  /\ num \in Nat /\ num < BYTE ^ (2 * W)
         /\ 2 * W \in 0 .. 2 * W /\ 2 * W \in Nat
         /\ WriteH2N(h, num, 2 * W) = Digits(num, 2 * W)
         /\ Digits(num, 2 * W) \in Seq(Byte) /\ Len(Digits(num, 2 * W)) = 2 * W
         /\ ReadN2H(h, Digits(num, 2 * W)) = num
<1>1. num \in Nat /\ num < BYTE ^ (2 * W)
  BY PowersLarge, PowerTwice DEF Offset
<1>2. 2 * W \in {W, 2 * W} /\ 2 * W \in 0 .. 2 * W /\ 2 * W \in Nat
  BY WidthsDiffer
<1>3. WriteH2N(h, num, 2 * W) = Digits(num, 2 * W)
  BY <1>1, <1>2, WriteIsDigits
<1>4. Digits(num, 2 * W) \in Seq(Byte) /\ Len(Digits(num, 2 * W)) = 2 * W
  BY <1>1, <1>2, DigitsTyped
<1>5. ReadN2H(h, WriteH2N(h, num, 2 * W)) = num
  BY <1>1, <1>2, WrittenIsRead
<1> QED
  BY <1>1, <1>2, <1>3, <1>4, <1>5

LEMMA EndProperties ==
  ASSUME NEW r, GoodRecord(r)
  PROVE  /\ r.offset \in Nat /\ r.size \in Nat /\ BYTE <= r.size
         /\ End(r) \in Offset /\ r.offset \in Offset /\ 1 \in Word
         /\ r.offset = 2 * W /\ End(r) = 2 * W + r.size
         /\ r.key \in Word /\ r.size \in Word
<1>1. r.offset = 2 * W /\ r.key \in Word /\ r.size \in Word /\ MIN_SIZE <= r.size
  BY DEF GoodRecord, Record, HEAD_SIZE
<1>2. PICK u \in Nat : u = U32 /\ u >= 2 * W /\ u >= 2
  BY PowersLarge, ByteOrderAssumption
<1>3. W \in Nat /\ Word = 0 .. u - 1 /\ MIN_SIZE \in Nat /\ MIN_SIZE >= BYTE
      /\ BYTE \in Nat
  BY <1>2, WidthsDiffer, BytesAreWords, DiskFormatAssumption
<1>4. 2 * u <= u * u /\ u * u \in Nat
  BY <1>2
<1>5. PICK w \in Nat : w = u * u
  BY <1>4
<1>6. 2 * W + r.size \in 0 .. w - 1 /\ 2 * W \in 0 .. w - 1
  BY <1>1, <1>2, <1>3, <1>4, <1>5
<1> QED
  BY <1>1, <1>2, <1>3, <1>5, <1>6 DEF Offset, End

SameBlock(f, g, r) == \A k \in Nat \ {0} : InBlock(r, k) => ByteAt(g, k) = ByteAt(f, k)

LEMMA SamePart ==
  ASSUME NEW f \in Seq(Byte), NEW g \in Seq(Byte), NEW r, SameBlock(f, g, r),
         r.offset \in Nat, r.size \in Nat, NEW off \in Nat, NEW len \in Nat,
         r.offset <= off, off + len <= End(r)
  PROVE  At(g, off, len) = At(f, off, len)
<1>1. PICK b, e \in Nat : b = r.offset /\ e = End(r)
  BY DEF End
<1>2. ASSUME NEW j \in 1 .. len PROVE ByteAt(g, off + j) = ByteAt(f, off + j)
  <2>1. PICK k \in Nat \ {0} : k = off + j /\ b < k /\ k <= e
    BY <1>1
  <2> QED
    BY <1>1, <2>1 DEF SameBlock, InBlock
<1>3. At(g, off, len) = [j \in 1 .. len |-> ByteAt(g, off + j)]
  BY AtDefined
<1>4. At(f, off, len) = [j \in 1 .. len |-> ByteAt(f, off + j)]
  BY AtDefined
<1> QED
  BY <1>2, <1>3, <1>4

\* The object stays where the bytes of its block do.
LEMMA StoredStays ==
  ASSUME NEW f \in Seq(Byte), NEW g \in Seq(Byte), NEW r, GoodRecord(r),
         NEW id \in Seq(Byte), NEW data \in Seq(Byte),
         Fits(r, id, data), Stored(f, r, id, data), SameBlock(f, g, r)
  PROVE  Stored(g, r, id, data)
<1>1. PICK n, m, b, z \in Nat :
        n = Len(id) /\ m = Len(data) /\ b = r.offset /\ z = r.size
  <2>1. Len(id) \in Nat /\ Len(data) \in Nat /\ r.offset \in Nat /\ r.size \in Nat
    BY EndProperties
  <2> QED
    BY <2>1
<1>2. End(r) = b + z
  BY <1>1 DEF End
<1>3. W \in Nat /\ W + W + 1 + n + m <= z
  BY <1>1, WidthsDiffer DEF Fits, Overhead
<1>4. PICK a1, a2, a3, a4 \in Nat :
        /\ a1 = b + 1 /\ a2 = b + 1 + n
        /\ a3 = b + 1 + n + W /\ a4 = b + 1 + n + W + W
  BY <1>3
<1>5. /\ a2 = HashAt(r, n) /\ a3 = DataSizeAt(r, n) /\ a4 = DataAt(r, n)
      /\ a1 = r.offset + 1
  BY <1>1, <1>4 DEF HashAt, DataSizeAt, DataAt
<1>6. /\ b + 1 <= b + z /\ a1 + n <= b + z /\ a2 + W <= b + z
      /\ a3 + W <= b + z /\ a4 + m <= b + z
      /\ b <= a1 /\ b <= a2 /\ b <= a3 /\ b <= a4
  BY <1>3, <1>4
<1> DEFINE Kept(off, len) == At(g, off, len) = At(f, off, len)
<1>7. \A off, len \in Nat : b <= off /\ off + len <= b + z => Kept(off, len)
  BY <1>1, <1>2, SamePart
<1> HIDE DEF Kept
<1>8. /\ Kept(b, 1) /\ Kept(a1, n) /\ Kept(a2, W) /\ Kept(a3, W) /\ Kept(a4, m)
  <2>1. Kept(b, 1)
    BY <1>6, <1>7
  <2>2. Kept(a1, n)
    BY <1>6, <1>7
  <2>3. Kept(a2, W) /\ Kept(a3, W)
    BY <1>3, <1>6, <1>7
  <2>4. Kept(a4, m)
    BY <1>6, <1>7
  <2> QED
    BY <2>1, <2>2, <2>3, <2>4
<1>9. /\ At(g, b, 1) = At(f, b, 1) /\ At(g, a1, n) = At(f, a1, n)
      /\ At(g, a2, W) = At(f, a2, W) /\ At(g, a3, W) = At(f, a3, W)
      /\ At(g, a4, m) = At(f, a4, m)
  BY <1>8 DEF Kept
<1> QED
  BY <1>1, <1>5, <1>9 DEF Stored

\* What hasId and getData find of an object that is stored.
LEMMA StoredIsRead ==
  ASSUME OrdersKnown, NEW h \in Host, NEW f \in Seq(Byte),
         NEW r, GoodRecord(r), NEW id \in Seq(Byte), NEW data \in Seq(Byte),
         Fits(r, id, data), Len(data) \in Word, Stored(f, r, id, data)
  PROVE  /\ \A x \in Seq(Byte) : HasId(f, r, x) <=> x = id
         /\ GetData(h, f, r) = {data}
<1>1. PICK n, m, z \in Nat : n = Len(id) /\ m = Len(data) /\ z = r.size
  BY EndProperties
<1>2. IdSize(f, r) = n
  BY <1>1 DEF IdSize, Stored
<1>3. StoredId(f, r) = id
  BY <1>1, <1>2 DEF StoredId, Stored
<1>4. StoredHash(h, f, r) = Hash(data)
  <2>1. Hash(data) \in Word
    BY WordSequence, HashIsWord
  <2>2. StoredHash(h, f, r) = ReadN2H(h, Digits(Hash(data), W))
    BY <1>1, <1>2 DEF StoredHash, Stored
  <2> QED
    BY <2>1, <2>2, WordProperties
<1>5. DataSize(h, f, r) = m
  <2>1. DataSize(h, f, r) = ReadN2H(h, Digits(m, W))
    BY <1>1, <1>2 DEF DataSize, Stored
  <2> QED
    BY <1>1, <2>1, WordProperties
<1>6. StoredData(h, f, r) = data
  BY <1>1, <1>2, <1>5 DEF StoredData, Stored
<1>7. W \in Nat /\ W + W + 1 + n + m <= z
  BY <1>1, WidthsDiffer DEF Fits, Overhead
<1>8. HeaderFits(f, r) /\ DataFits(h, f, r)
  BY <1>1, <1>2, <1>5, <1>7 DEF HeaderFits, DataFits, Overhead
<1>9. GetData(h, f, r) = {data}
  BY <1>4, <1>6, <1>8 DEF GetData
<1>10. \A x \in Seq(Byte) : HasId(f, r, x) <=> x = id
  BY <1>1, <1>2, <1>3, <1>7 DEF HasId, ComparesId
<1> QED
  BY <1>9, <1>10

\* writeData puts an object into its block, and nothing elsewhere.
LEMMA WriteStores ==
  ASSUME OrdersKnown, NEW h \in Host, NEW f \in Seq(Byte),
         NEW r, GoodRecord(r), NEW id \in Seq(Byte), NEW data \in Seq(Byte),
         Fits(r, id, data), IdIsStorable(id), Len(data) \in Word,
         End(r) <= Len(f)
  PROVE  /\ WriteData(h, f, r, id, data) \in Seq(Byte)
         /\ Len(WriteData(h, f, r, id, data)) = Len(f)
         /\ Stored(WriteData(h, f, r, id, data), r, id, data)
         /\ \E s \in Seq(Byte) :
              WriteData(h, f, r, id, data) = Put(f, r.offset, s) /\ Len(s) <= r.size
<1>1. PICK n, m, b, z \in Nat :
        n = Len(id) /\ m = Len(data) /\ b = r.offset /\ z = r.size
  <2>1. Len(id) \in Nat /\ Len(data) \in Nat /\ r.offset \in Nat /\ r.size \in Nat
    BY EndProperties
  <2> QED
    BY <2>1
<1>2. W \in Nat /\ W + W + 1 + n + m <= z
  BY <1>1, WidthsDiffer DEF Fits, Overhead
<1>3. PICK x1 \in Seq(Byte) : x1 = <<n>> /\ Len(x1) = 1
  <2>1. n \in Byte
    BY <1>1, BytesAreWords DEF IdIsStorable, Byte
  <2> QED
    BY <2>1, OneByte
<1>4. PICK x3, x4 \in Seq(Byte) :
        /\ x3 = Digits(Hash(data), W) /\ Len(x3) = W
        /\ x4 = Digits(Len(data), W) /\ Len(x4) = W
        /\ WriteH2N(h, Hash(data), W) = x3 /\ WriteH2N(h, Len(data), W) = x4
  <2>1. Hash(data) \in Word
    BY WordSequence, HashIsWord
  <2> QED
    BY <2>1, WordProperties
<1>5. PICK y2 \in Seq(Byte) : y2 = x1 \o id /\ Len(y2) = 1 + n
  <2>1. x1 \o id \in Seq(Byte) /\ Len(x1 \o id) = Len(x1) + Len(id)
    BY ConcatProperties
  <2> QED
    BY <1>1, <1>3, <2>1
<1>6. PICK y3 \in Seq(Byte) : y3 = y2 \o x3 /\ Len(y3) = 1 + n + W
  <2>1. y2 \o x3 \in Seq(Byte) /\ Len(y2 \o x3) = Len(y2) + Len(x3)
    BY ConcatProperties
  <2> QED
    BY <1>4, <1>5, <2>1
<1>7. PICK y4 \in Seq(Byte) : y4 = y3 \o x4 /\ Len(y4) = 1 + n + W + W
  <2>1. y3 \o x4 \in Seq(Byte) /\ Len(y3 \o x4) = Len(y3) + Len(x4)
    BY ConcatProperties
  <2> QED
    BY <1>4, <1>6, <2>1
<1>8. PICK s \in Seq(Byte) : s = y4 \o data /\ Len(s) = 1 + n + W + W + m
  <2>1. y4 \o data \in Seq(Byte) /\ Len(y4 \o data) = Len(y4) + Len(data)
    BY ConcatProperties
  <2> QED
    BY <1>1, <1>7, <2>1
<1>9. WriteData(h, f, r, id, data) = Put(f, b, s)
  BY <1>1, <1>3, <1>4, <1>5, <1>6, <1>7, <1>8 DEF WriteData
<1>10. PICK g \in Seq(Byte) : g = Put(f, b, s) /\ Len(g) = Len(f)
  BY PutProperties
<1>11. Reads(g, b, s)
  <2>1. PICK l, k \in Nat : l = Len(f) /\ k = Len(s)
    OBVIOUS
  <2>2. b + z <= l /\ k <= z
    BY <1>1, <1>2, <1>8, <2>1 DEF End
  <2>3. b + Len(s) <= Len(f)
    BY <2>1, <2>2
  <2> QED
    BY <1>10, <2>3, AtPut DEF Reads
<1>12. Reads(g, b, y4) /\ Reads(g, b + Len(y4), data)
  BY <1>8, <1>11, ReadsConcat
<1>13. Reads(g, b, y3) /\ Reads(g, b + Len(y3), x4)
  BY <1>7, <1>12, ReadsConcat
<1>14. Reads(g, b, y2) /\ Reads(g, b + Len(y2), x3)
  BY <1>6, <1>13, ReadsConcat
<1>15. Reads(g, b, x1) /\ Reads(g, b + Len(x1), id)
  BY <1>5, <1>14, ReadsConcat
<1>16. /\ b + Len(y2) = HashAt(r, n) /\ b + Len(y3) = DataSizeAt(r, n)
       /\ b + Len(y4) = DataAt(r, n)
  <2>1. b + (1 + n) = b + 1 + n /\ b + (1 + n + W) = b + 1 + n + W
        /\ b + (1 + n + W + W) = b + 1 + n + W + W
    BY <1>2
  <2> QED
    BY <1>1, <1>5, <1>6, <1>7, <2>1 DEF HashAt, DataSizeAt, DataAt
<1>17. Stored(g, r, id, data)
  BY <1>1, <1>3, <1>4, <1>12, <1>13, <1>14, <1>15, <1>16 DEF Stored, Reads
<1>18. Len(s) <= z
  <2>1. 1 + n + W + W + m <= z
    BY <1>2
  <2> QED
    BY <1>8, <2>1, Zenon
<1> QED
  BY <1>1, <1>9, <1>10, <1>17, <1>18

LEMMA WriteElsewhere ==
  ASSUME OrdersKnown, NEW h \in Host, NEW f \in Seq(Byte),
         NEW r, GoodRecord(r), NEW id \in Seq(Byte), NEW data \in Seq(Byte),
         Fits(r, id, data), IdIsStorable(id), Len(data) \in Word,
         End(r) <= Len(f), NEW k \in Nat \ {0}, ~InBlock(r, k)
  PROVE  ByteAt(WriteData(h, f, r, id, data), k) = ByteAt(f, k)
<1>1. PICK s \in Seq(Byte) :
        WriteData(h, f, r, id, data) = Put(f, r.offset, s) /\ Len(s) <= r.size
  BY WriteStores
<1>2. PICK b, z, n \in Nat : b = r.offset /\ z = r.size /\ n = Len(s) /\ n <= z
  BY <1>1, EndProperties
<1>3. k <= b \/ b + Len(s) < k
  BY <1>2 DEF InBlock, End
<1>4. ByteAt(Put(f, b, s), k) = ByteAt(f, k)
  BY <1>3, PutProperties
<1> QED
  BY <1>1, <1>2, <1>4
-----------------------------------------------------------------------------
(* The inductive invariant *)

\* An id or data as it is in the file.
Cipher(o, clear) == Encrypt(o.key, clear)

\* What writeBlob makes sure of before it writes.
GoodObject(o) ==
  /\ o.id \in Id /\ o.data \in Data /\ o.key \in Key \cup {<<>>}
  /\ GoodRecord(o.record) /\ o.record.key = Hash(Cipher(o, o.id))
  /\ IdIsStorable(Cipher(o, o.id))
  /\ Fits(o.record, Cipher(o, o.id), Cipher(o, o.data))

StoredObject(f, o) ==
  Stored(f, o.record, Cipher(o, o.id), Cipher(o, o.data))

\* The head and the table of a file with one record.
Committed(f, r) ==
  /\ Len(f) = End(r) + IndexSize(1)
  /\ Reads(f, 0, Digits(End(r), 2 * W))
  /\ Reads(f, End(r), Digits(1, W))
  /\ Reads(f, End(r) + W, Digits(r.offset, 2 * W))
  /\ Reads(f, End(r) + W + 2 * W, Digits(r.key, W))
  /\ Reads(f, End(r) + W + 2 * W + W, Digits(r.size, W))

Objects == \A o \in object : object = {o} /\ GoodObject(o)

Undamaged == damaged = {} => \A o \in object : StoredObject(file, o)

\* The object can be had by putting back the one byte that has changed.
OneDamaged ==
  \A i \in damaged :
    /\ damaged = {i} /\ i \in DOMAIN file
    /\ \E o \in object :
         InBlock(o.record, i) /\ \E b \in Byte : StoredObject(ReplaceAt(file, i, b), o)

\* There is an object and a table that leads to it, or nothing.
WhenClosed ==
  phase = "closed" =>
    /\ records = <<>>
    /\ object = {} => file = <<>>
    /\ \A o \in object : Committed(file, o.record)

\* The index knows of the object, if there is one, and of nothing else.
WhenOpen ==
  phase = "open" =>
    /\ object = {} => records = <<>>
    /\ \A o \in object : records = <<o.record>> /\ End(o.record) <= Len(file)

\* TypeOK alone would let a closed file hold any bytes, and a record come back
\* from it for a block that is no block.
IInv == TypeOK /\ Objects /\ Undamaged /\ OneDamaged /\ WhenClosed /\ WhenOpen
-----------------------------------------------------------------------------
(* Opening and closing *)

\* The constructor finds the record that the destructor wrote.
LEMMA OpenFinds ==
  ASSUME OrdersKnown, NEW h \in Host, NEW f \in Seq(Byte), NEW r, GoodRecord(r),
         Committed(f, r)
  PROVE  /\ ReadN2H(h, At(f, 0, HEAD_SIZE)) = End(r)
         /\ End(r) < Len(f)
         /\ ReadN2H(h, At(f, End(r), W)) = 1
         /\ Deserialize(h, At(f, End(r) + W, SERIALIZED_SIZE)) = r
<1>1. PICK e, w \in Nat : e = End(r) /\ w = W /\ w >= 2
  BY EndProperties, ByteOrderAssumption DEF Offset
<1>2. At(f, 0, 2 * w) = Digits(e, 2 * w) /\ ReadN2H(h, Digits(e, 2 * w)) = e
  BY <1>1, EndProperties, OffsetProperties DEF Committed, Reads
<1>3. At(f, e, w) = Digits(1, w) /\ ReadN2H(h, Digits(1, w)) = 1
  BY <1>1, EndProperties, WordProperties DEF Committed, Reads
<1>4. PICK t \in Nat : t = e + w
  OBVIOUS
<1>5. At(f, t, 2 * w) = Digits(r.offset, 2 * w)
      /\ ReadN2H(h, Digits(r.offset, 2 * w)) = r.offset
  BY <1>1, <1>4, EndProperties, OffsetProperties DEF Committed, Reads
<1>6. At(f, t + 2 * w, w) = Digits(r.key, w)
      /\ ReadN2H(h, Digits(r.key, w)) = r.key
  BY <1>1, <1>4, EndProperties, WordProperties DEF Committed, Reads
<1>7. At(f, t + 2 * w + w, w) = Digits(r.size, w)
      /\ ReadN2H(h, Digits(r.size, w)) = r.size
  BY <1>1, <1>4, EndProperties, WordProperties DEF Committed, Reads
<1>8. PICK s : s = At(f, t, 4 * w)
  OBVIOUS
<1>9. SubSeq(s, 1, 2 * w) = At(f, t, 2 * w)
  <2>1. PICK a, b, n \in Nat : a = 0 /\ b = 2 * w /\ n = 4 * w
    OBVIOUS
  <2>2. a + b <= n /\ a + 1 = 1 /\ a + b = 2 * w /\ t + a = t
    BY <2>1
  <2>3. Part(f, t, n, a, b)
    BY <2>2, AtSubSeq
  <2> QED
    BY <1>8, <2>1, <2>2, <2>3 DEF Part
<1>10. SubSeq(s, 2 * w + 1, 3 * w) = At(f, t + 2 * w, w)
  <2>1. PICK a, n \in Nat : a = 2 * w /\ n = 4 * w
    OBVIOUS
  <2>2. a + w <= n /\ a + w = 3 * w
    BY <2>1
  <2>3. Part(f, t, n, a, w)
    BY <2>2, AtSubSeq
  <2> QED
    BY <1>8, <2>1, <2>2, <2>3 DEF Part
<1>11. SubSeq(s, 3 * w + 1, 4 * w) = At(f, t + 2 * w + w, w)
  <2>1. PICK a, n \in Nat : a = 3 * w /\ n = 4 * w
    OBVIOUS
  <2>2. a + w <= n /\ a + w = 4 * w /\ t + a = t + 2 * w + w
    BY <2>1
  <2>3. Part(f, t, n, a, w)
    BY <2>2, AtSubSeq
  <2> QED
    BY <1>8, <2>1, <2>2, <2>3 DEF Part
<1>12. Deserialize(h, s) = [offset |-> r.offset, key |-> r.key, size |-> r.size]
  BY <1>1, <1>5, <1>6, <1>7, <1>9, <1>10, <1>11 DEF Deserialize
<1>13. r = [offset |-> r.offset, key |-> r.key, size |-> r.size]
  BY DEF GoodRecord, Record
<1>14. e < Len(f)
  <2>1. Len(f) = e + (w + 1 * (4 * w))
    BY <1>1 DEF Committed, IndexSize, SERIALIZED_SIZE
  <2> QED
    BY <1>1, <2>1
<1> QED
  BY <1>1, <1>2, <1>3, <1>4, <1>8, <1>12, <1>13, <1>14 DEF HEAD_SIZE, SERIALIZED_SIZE

\* Record::serialize writes the members one after another.
LEMMA SerializeProperties ==
  ASSUME OrdersKnown, host \in Host, NEW r, GoodRecord(r)
  PROVE  /\ Serialize(r) \in Seq(Byte) /\ Len(Serialize(r)) = 4 * W
         /\ \A g \in Seq(Byte), t \in Nat : Reads(g, t, Serialize(r)) =>
              /\ Reads(g, t, Digits(r.offset, 2 * W))
              /\ Reads(g, t + 2 * W, Digits(r.key, W))
              /\ Reads(g, t + 2 * W + W, Digits(r.size, W))
<1>1. PICK w \in Nat : w = W
  BY WidthsDiffer
<1>2. PICK y1 \in Seq(Byte) :
        /\ y1 = Digits(r.offset, 2 * w) /\ Len(y1) = 2 * w
        /\ y1 = WriteH2N(host, r.offset, 2 * w)
  BY <1>1, EndProperties, OffsetProperties
<1>3. PICK y2, y3 \in Seq(Byte) :
        /\ y2 = Digits(r.key, w) /\ Len(y2) = w /\ y2 = WriteH2N(host, r.key, w)
        /\ y3 = Digits(r.size, w) /\ Len(y3) = w /\ y3 = WriteH2N(host, r.size, w)
  BY <1>1, EndProperties, WordProperties
<1>4. PICK z1 \in Seq(Byte) : z1 = y1 \o y2 /\ Len(z1) = 2 * w + w
  <2>1. y1 \o y2 \in Seq(Byte) /\ Len(y1 \o y2) = Len(y1) + Len(y2)
    BY ConcatProperties
  <2> QED
    BY <1>2, <1>3, <2>1
<1>5. PICK z2 \in Seq(Byte) : z2 = z1 \o y3 /\ Len(z2) = 4 * w
  <2>1. z1 \o y3 \in Seq(Byte) /\ Len(z1 \o y3) = Len(z1) + Len(y3)
    BY ConcatProperties
  <2>2. (2 * w + w) + w = 4 * w
    OBVIOUS
  <2> QED
    BY <1>3, <1>4, <2>1, <2>2, Zenon
<1>6. Serialize(r) = z2
  BY <1>1, <1>2, <1>3, <1>4, <1>5 DEF Serialize
<1>7. ASSUME NEW g \in Seq(Byte), NEW t \in Nat, Reads(g, t, z2)
      PROVE  /\ Reads(g, t, y1) /\ Reads(g, t + 2 * w, y2)
             /\ Reads(g, t + 2 * w + w, y3)
  <2>1. Reads(g, t, z1) /\ Reads(g, t + Len(z1), y3)
    BY <1>5, <1>7, ReadsConcat
  <2>2. Reads(g, t, y1) /\ Reads(g, t + Len(y1), y2)
    BY <1>4, <2>1, ReadsConcat
  <2>3. t + (2 * w + w) = t + 2 * w + w
    OBVIOUS
  <2>4. t + Len(z1) = t + 2 * w + w /\ t + Len(y1) = t + 2 * w
    BY <1>2, <1>4, <2>3, Zenon
  <2> QED
    BY <2>1, <2>2, <2>4
<1> QED
  BY <1>1, <1>2, <1>3, <1>5, <1>6, <1>7

\* The file with head and table behind it.
Saved(f, r) ==
  Put(Put(Resize(f, End(r) + IndexSize(1)), 0, WriteH2N(host, End(r), HEAD_SIZE)),
      End(r), WriteH2N(host, 1, W) \o Serialize(r))

\* The destructor writes head and table, and leaves the block as it is.
LEMMA CloseCommits ==
  ASSUME OrdersKnown, host \in Host, NEW f \in Seq(Byte), NEW r, GoodRecord(r)
  PROVE  /\ Saved(f, r) \in Seq(Byte)
         /\ Committed(Saved(f, r), r)
         /\ End(r) <= Len(Saved(f, r))
         /\ SameBlock(f, Saved(f, r), r)
<1>1. PICK e, w, l \in Nat : /\ e = End(r) /\ w = W /\ w >= 2 /\ 2 * w <= e
                             /\ l = e + w + 4 * w
  BY EndProperties, ByteOrderAssumption DEF Offset
<1>2. e + IndexSize(1) = l
  <2>1. IndexSize(1) = w + 1 * (4 * w)
    BY <1>1 DEF IndexSize, SERIALIZED_SIZE
  <2> QED
    BY <1>1, <2>1
<1>3. PICK head \in Seq(Byte) :
        /\ head = Digits(e, 2 * w) /\ Len(head) = 2 * w
        /\ head = WriteH2N(host, e, HEAD_SIZE)
  BY <1>1, EndProperties, OffsetProperties DEF HEAD_SIZE
<1>4. PICK count, z \in Seq(Byte) :
        /\ count = Digits(1, w) /\ Len(count) = w /\ count = WriteH2N(host, 1, w)
        /\ z = Serialize(r) /\ Len(z) = 4 * w
  BY <1>1, EndProperties, WordProperties, SerializeProperties
<1>5. PICK s \in Seq(Byte) : s = count \o z /\ Len(s) = w + 4 * w
  <2>1. count \o z \in Seq(Byte) /\ Len(count \o z) = Len(count) + Len(z)
    BY ConcatProperties
  <2> QED
    BY <1>4, <2>1
<1>6. PICK f1 \in Seq(Byte) : f1 = Resize(f, l) /\ Len(f1) = l
  BY ResizeProperties
<1>7. PICK f2 \in Seq(Byte) : f2 = Put(f1, 0, head) /\ Len(f2) = l
  <2>1. Put(f1, 0, head) \in Seq(Byte) /\ Len(Put(f1, 0, head)) = Len(f1)
    BY PutProperties
  <2> QED
    BY <1>6, <2>1, Zenon
<1>8. PICK g \in Seq(Byte) : g = Put(f2, e, s) /\ Len(g) = l
  <2>1. Put(f2, e, s) \in Seq(Byte) /\ Len(Put(f2, e, s)) = Len(f2)
    BY PutProperties
  <2> QED
    BY <1>7, <2>1, Zenon
<1>9. g = Saved(f, r)
  BY <1>1, <1>2, <1>3, <1>4, <1>5, <1>6, <1>7, <1>8 DEF Saved
<1>10. Reads(g, e, s)
  <2>1. e + (w + 4 * w) <= e + w + 4 * w
    OBVIOUS
  <2>2. e + Len(s) <= Len(f2)
    BY <1>1, <1>5, <1>7, <2>1, Zenon
  <2> QED
    BY <1>8, <2>2, AtPut DEF Reads
<1>11. Reads(g, e, count) /\ Reads(g, e + w, z)
  BY <1>4, <1>5, <1>10, ReadsConcat
<1>12. Reads(g, 0, head)
  <2>1. At(f2, 0, 2 * w) = head
    <3>1. 0 + Len(head) <= Len(f1)
      BY <1>1, <1>3, <1>6
    <3> QED
      BY <1>3, <1>7, <3>1, AtPut
  <2>2. At(g, 0, 2 * w) = At(f2, 0, 2 * w)
    <3>1. PICK n \in Nat : n = 2 * w /\ 0 + n <= e
      BY <1>1
    <3> QED
      BY <1>8, <3>1, AtPutElsewhere
  <2> QED
    BY <1>3, <2>1, <2>2 DEF Reads
<1>13. /\ Reads(g, e + w, Digits(r.offset, 2 * w))
       /\ Reads(g, e + w + 2 * w, Digits(r.key, w))
       /\ Reads(g, e + w + 2 * w + w, Digits(r.size, w))
  <2>1. PICK t \in Nat : t = e + w
    OBVIOUS
  <2> QED
    BY <1>1, <1>4, <1>11, <2>1, SerializeProperties
<1>14. Committed(g, r)
  BY <1>1, <1>2, <1>3, <1>4, <1>8, <1>11, <1>12, <1>13 DEF Committed
<1>15. ASSUME NEW k \in Nat \ {0}, InBlock(r, k) PROVE ByteAt(g, k) = ByteAt(f, k)
  <2>1. 2 * w < k /\ k <= e /\ k \in 1 .. l
    <3>1. 2 * w < k /\ k <= e
      BY <1>1, <1>15, EndProperties, Zenon DEF InBlock
    <3>2. e <= l
      BY <1>1
    <3> QED
      BY <3>1, <3>2
  <2>2. ByteAt(Put(f2, e, s), k) = ByteAt(f2, k)
    BY <2>1, PutElsewhere
  <2>3. ByteAt(Put(f1, 0, head), k) = ByteAt(f1, k)
    <3>1. 0 + Len(head) < k
      BY <1>3, <2>1
    <3> QED
      BY <3>1, PutElsewhere
  <2>4. ByteAt(f1, k) = ByteAt(f, k)
    BY <1>6, <2>1, ResizeProperties
  <2> QED
    BY <1>7, <1>8, <2>2, <2>3, <2>4, Zenon
<1>16. SameBlock(f, g, r)
  BY <1>15 DEF SameBlock
<1> QED
  BY <1>1, <1>8, <1>9, <1>14, <1>16
-----------------------------------------------------------------------------
(* Steps *)

LEMMA ConstantTypes ==
  /\ AnyHost \in Host
  /\ \A k \in Key \cup {<<>>} : k \in Seq(Byte)
  /\ \A i \in Id \cup Data : i \in Seq(Byte)
  /\ \A d \in Data : Len(d) \in Word
<1>1. AnyHost \in Host
  BY DiskFormatAssumption DEF AnyHost
<1>2. \A i \in Id \cup Data \cup Key : i \in Seq(Byte)
  BY DiskFormatAssumption
<1>3. <<>> \in Seq(Byte)
  OBVIOUS
<1>4. ASSUME NEW d \in Data PROVE Len(d) \in Word
  <2>1. Len(d) \in Nat /\ Len(d) < U32
    BY <1>2, DiskFormatAssumption
  <2> QED
    BY <2>1, BytesAreWords
<1> QED
  BY <1>1, <1>2, <1>3, <1>4

LEMMA ObjectTypes ==
  ASSUME NEW o, GoodObject(o)
  PROVE  /\ o.id \in Seq(Byte) /\ o.data \in Seq(Byte) /\ o.key \in Seq(Byte)
         /\ Cipher(o, o.id) \in Seq(Byte) /\ Cipher(o, o.data) \in Seq(Byte)
         /\ Len(Cipher(o, o.data)) \in Word
<1>1. o.id \in Seq(Byte) /\ o.data \in Seq(Byte) /\ o.key \in Seq(Byte)
      /\ Len(o.data) \in Word
  BY ConstantTypes DEF GoodObject
<1> QED
  BY <1>1, EncryptProperties DEF Cipher

\* A record of a block, as the index has it.
LEMMA OneRecord ==
  ASSUME NEW r, GoodRecord(r)
  PROVE  <<r>> \in Seq(Record) /\ Len(<<r>>) = 1
BY DEF GoodRecord

LEMMA InitIsGood == Init => IInv
<1> SUFFICES ASSUME Init PROVE IInv
  OBVIOUS
<1>1. TypeOK
  <2>1. <<>> \in Seq(Byte) /\ <<>> \in Seq(Record) /\ Len(<<>>) = 0
    OBVIOUS
  <2> QED
    BY <2>1, ConstantTypes DEF Init, TypeOK
<1> QED
  BY <1>1 DEF Init, IInv, Objects, Undamaged, OneDamaged, WhenClosed, WhenOpen, NoObject

\* The constructor finds the one record that the table lists, or no table.
LEMMA OpenStep ==
  ASSUME OrdersKnown, IInv, NEW h \in Host, NEW k \in Key, Open(h, k)
  PROVE  IInv'
<1> DEFINE head  == ReadN2H(h, At(file, 0, HEAD_SIZE))
           count == ReadN2H(h, At(file, head, W))
           Read(i) == Deserialize(h, At(file, head + W + (i - 1) * SERIALIZED_SIZE,
                                        SERIALIZED_SIZE))
<1>1. /\ phase = "closed" /\ phase' = "open" /\ host' = h /\ key' = k
      /\ object' = object /\ damaged' = damaged
      /\ IF head < Len(file)
         THEN records' = [i \in 1 .. count |-> Read(i)] /\ file' = file
         ELSE records' = <<>> /\ file' = <<>>
  BY DEF Open
<1>2. file \in Seq(Byte) /\ Objects
  BY DEF IInv, TypeOK
<1>3. CASE object = {}
  <2>1. file = <<>>
    BY <1>1, <1>3 DEF IInv, WhenClosed
  <2>2. head \in Nat
    <3>1. PICK n \in Nat : n = HEAD_SIZE /\ n = 2 * W
      BY WidthsDiffer DEF HEAD_SIZE
    <3>2. PICK x \in Seq(Byte) : x = At(file, 0, n) /\ Len(x) = n
      <4>1. At(file, 0, n) \in Seq(Byte) /\ Len(At(file, 0, n)) = n
        BY <1>2, AtProperties
      <4> QED
        BY <4>1, Zenon
    <3>3. ReadN2H(h, x) = Number(x) /\ Number(x) \in Nat
      BY <3>1, <3>2, ReadIsNumber, DigitsOfNumber, WidthsDiffer
    <3> QED
      BY <3>1, <3>2, <3>3
  <2> HIDE DEF head, count, Read
  <2>3. records' = <<>> /\ file' = <<>>
    BY <1>1, <2>1, <2>2
  <2>4. TypeOK'
    <3>1. <<>> \in Seq(Byte) /\ <<>> \in Seq(Record) /\ Len(<<>>) = 0
      OBVIOUS
    <3> QED
      BY <1>1, <2>3, <3>1 DEF TypeOK
  <2> QED
    BY <1>1, <1>3, <2>3, <2>4 DEF IInv, Objects, Undamaged, OneDamaged, WhenClosed, WhenOpen
<1>4. CASE object # {}
  <2>1. PICK o : object = {o} /\ GoodObject(o) /\ Committed(file, o.record)
    BY <1>1, <1>2, <1>4 DEF Objects, IInv, WhenClosed
  <2>2. PICK r : r = o.record /\ GoodRecord(r)
    BY <2>1 DEF GoodObject
  <2>3. head = End(r) /\ End(r) < Len(file) /\ count = 1
        /\ Deserialize(h, At(file, head + W, SERIALIZED_SIZE)) = r
    BY <1>2, <2>1, <2>2, OpenFinds
  <2>4. Read(1) = r
    <3>1. PICK e, w, z \in Nat : e = head /\ w = W /\ z = SERIALIZED_SIZE
      BY <2>2, <2>3, EndProperties, WidthsDiffer DEF Offset, SERIALIZED_SIZE
    <3>2. e + w + (1 - 1) * z = e + w
      OBVIOUS
    <3>3. head + W + (1 - 1) * SERIALIZED_SIZE = head + W
      BY <3>1, <3>2
    <3> QED
      BY <2>3, <3>3
  <2> HIDE DEF head, count, Read
  <2>5. records' = <<r>> /\ file' = file
    <3>1. records' = [i \in 1 .. 1 |-> Read(i)] /\ file' = file
      BY <1>1, <2>3
    <3> QED
      BY <2>4, <3>1
  <2>6. TypeOK'
    BY <1>1, <1>2, <2>2, <2>5, OneRecord DEF TypeOK
  <2>7. End(r) <= Len(file)
    BY <1>2, <2>2, <2>3, EndProperties DEF Offset
  <2>8. Objects' /\ Undamaged' /\ OneDamaged'
    BY <1>1, <2>5 DEF IInv, Objects, Undamaged, OneDamaged
  <2>9. WhenClosed' /\ WhenOpen'
    BY <1>1, <2>1, <2>2, <2>5, <2>7 DEF WhenClosed, WhenOpen
  <2> QED
    BY <2>6, <2>8, <2>9 DEF IInv
<1> QED
  BY <1>3, <1>4
\* The destructor writes a table that the next constructor finds.
LEMMA CloseStep ==
  ASSUME OrdersKnown, IInv, Close
  PROVE  IInv'
<1>1. /\ phase = "open" /\ phase' = "closed" /\ records' = <<>>
      /\ host' = AnyHost /\ key' = <<>>
      /\ object' = object /\ damaged' = damaged
      /\ file' = IF records = <<>> THEN <<>> ELSE Saved(file, records[1])
  BY DEF Close, Saved
<1>2. file \in Seq(Byte) /\ host \in Host /\ Objects
  BY DEF IInv, TypeOK
<1>3. ASSUME file' \in Seq(Byte) PROVE TypeOK'
  <2>1. <<>> \in Seq(Record) /\ Len(<<>>) = 0
    OBVIOUS
  <2> QED
    BY <1>1, <1>3, <2>1, ConstantTypes DEF TypeOK
<1>4. CASE object = {}
  <2>1. file' = <<>>
    BY <1>1, <1>4 DEF IInv, WhenOpen
  <2>2. file' \in Seq(Byte)
    BY <2>1
  <2>3. TypeOK'
    BY <1>3, <2>2
  <2> QED
    BY <1>1, <1>4, <2>1, <2>3 DEF IInv, Objects, Undamaged, OneDamaged, WhenClosed, WhenOpen
<1>5. CASE object # {}
  <2>1. PICK o : object = {o} /\ GoodObject(o) /\ records = <<o.record>>
    BY <1>1, <1>2, <1>5 DEF Objects, IInv, WhenOpen
  <2>2. PICK r : r = o.record /\ GoodRecord(r)
    BY <2>1 DEF GoodObject
  <2>3. file' = Saved(file, r)
    BY <1>1, <2>1, <2>2
  <2>4. /\ file' \in Seq(Byte) /\ Committed(file', r)
        /\ End(r) <= Len(file')
        /\ SameBlock(file, file', r)
    BY <1>2, <2>2, <2>3, CloseCommits
  <2>5. ASSUME damaged = {} PROVE StoredObject(file', o)
    <3>1. Stored(file, r, Cipher(o, o.id), Cipher(o, o.data))
      BY <2>1, <2>2, <2>5 DEF IInv, Undamaged, StoredObject
    <3>2. Cipher(o, o.id) \in Seq(Byte) /\ Cipher(o, o.data) \in Seq(Byte)
          /\ Fits(r, Cipher(o, o.id), Cipher(o, o.data))
      BY <2>1, <2>2, ObjectTypes DEF GoodObject
    <3>3. Stored(file', r, Cipher(o, o.id), Cipher(o, o.data))
      BY <1>2, <2>2, <2>4, <3>1, <3>2, StoredStays
    <3> QED
      BY <2>2, <3>3 DEF StoredObject
  <2>6. TypeOK'
    BY <1>3, <2>4
  <2>7. Objects'
    BY <1>1, <1>2 DEF Objects
  <2>8. Undamaged'
    BY <1>1, <2>1, <2>5 DEF Undamaged
  <2>9. OneDamaged'
    <3> SUFFICES ASSUME NEW i \in damaged
                 PROVE  /\ damaged = {i} /\ i \in DOMAIN file' /\ InBlock(r, i)
                        /\ \E b \in Byte : StoredObject(ReplaceAt(file', i, b), o)
      BY <1>1, <2>1, <2>2 DEF OneDamaged
    <3>1. PICK b \in Byte : /\ damaged = {i} /\ i \in DOMAIN file /\ InBlock(r, i)
                            /\ StoredObject(ReplaceAt(file, i, b), o)
      BY <2>1, <2>2 DEF IInv, OneDamaged
    <3>2. i \in DOMAIN file'
      <4>1. PICK e, l \in Nat : e = End(r) /\ l = Len(file') /\ e <= l
        BY <2>2, <2>4, EndProperties DEF Offset
      <4>2. i \in Nat \ {0} /\ i <= e
        BY <1>2, <3>1, <4>1 DEF InBlock
      <4> QED
        BY <2>4, <4>1, <4>2
    <3>3. PICK f, g \in Seq(Byte) : f = ReplaceAt(file, i, b) /\ g = ReplaceAt(file', i, b)
      BY <1>2, <2>4, <3>1, <3>2, ReplaceByte
    <3>4. SameBlock(f, g, r)
      <4> SUFFICES ASSUME NEW k \in Nat \ {0}, InBlock(r, k)
                   PROVE  ByteAt(g, k) = ByteAt(f, k)
        BY DEF SameBlock
      <4>1. ByteAt(ReplaceAt(file, i, b), k) = IF k = i THEN b ELSE ByteAt(file, k)
        BY <1>2, <3>1, ReplaceByte
      <4>2. ByteAt(ReplaceAt(file', i, b), k) = IF k = i THEN b ELSE ByteAt(file', k)
        BY <2>4, <3>2, ReplaceByte
      <4>3. ByteAt(file', k) = ByteAt(file, k)
        BY <2>4 DEF SameBlock
      <4> QED
        BY <3>3, <4>1, <4>2, <4>3
    <3>5. Cipher(o, o.id) \in Seq(Byte) /\ Cipher(o, o.data) \in Seq(Byte)
          /\ Fits(r, Cipher(o, o.id), Cipher(o, o.data))
      BY <2>1, <2>2, ObjectTypes DEF GoodObject
    <3>6. Stored(f, r, Cipher(o, o.id), Cipher(o, o.data))
      BY <2>2, <3>1, <3>3 DEF StoredObject
    <3>7. Stored(g, r, Cipher(o, o.id), Cipher(o, o.data))
      BY <2>2, <3>4, <3>5, <3>6, StoredStays
    <3>8. StoredObject(ReplaceAt(file', i, b), o)
      BY <2>2, <3>3, <3>7 DEF StoredObject
    <3> QED
      BY <3>1, <3>2, <3>8
  <2>10. WhenClosed' /\ WhenOpen'
    BY <1>1, <2>1, <2>2, <2>4 DEF WhenClosed, WhenOpen
  <2> QED
    BY <2>6, <2>7, <2>8, <2>9, <2>10 DEF IInv
<1> QED
  BY <1>4, <1>5

\* What release leaves is a file.
LEMMA ReleasedIsFile ==
  ASSUME NEW f \in Seq(Byte)
  PROVE  Resize(f, HEAD_SIZE + IndexSize(0)) \in Seq(Byte)
<1>1. HEAD_SIZE + IndexSize(0) \in Nat
  <2>1. PICK w \in Nat : w = W
    BY WidthsDiffer
  <2>2. 2 * w + (w + 0 * (4 * w)) \in Nat
    OBVIOUS
  <2> QED
    BY <2>1, <2>2 DEF HEAD_SIZE, IndexSize, SERIALIZED_SIZE
<1> QED
  BY <1>1, ResizeProperties

\* Erasing leaves a file with a head and room for an empty index.
LEMMA EraseStep ==
  ASSUME IInv, NEW id \in Id, EraseBlob(id)
  PROVE  IInv'
<1>1. /\ phase = "open" /\ phase' = phase /\ host' = host /\ key' = key
      /\ file' = Released /\ records' = <<>> /\ object' = {} /\ damaged' = {}
  BY DEF EraseBlob, NoObject
<1>2. file' \in Seq(Byte)
  BY <1>1, ReleasedIsFile DEF Released, IInv, TypeOK
<1>3. TypeOK'
  <2>1. <<>> \in Seq(Record) /\ Len(<<>>) = 0
    OBVIOUS
  <2> QED
    BY <1>1, <1>2, <2>1 DEF TypeOK, IInv
<1> QED
  BY <1>1, <1>3 DEF IInv, Objects, Undamaged, OneDamaged, WhenClosed, WhenOpen

\* The record that writeBlob uses, and the file once it has been grown.
NewRecord(id, data, slack) ==
  LET size == BlobSize(Len(id), Len(data))
  IN  [offset |-> HEAD_SIZE, key |-> Hash(id),
       size   |-> (IF size < MIN_SIZE THEN MIN_SIZE ELSE size) + slack]

Grown(r) ==
  Resize(IF records = <<>> THEN file ELSE Released, End(r) + IndexSize(1))

LEMMA NewRecordIsGood ==
  ASSUME NEW id \in Seq(Byte), NEW data \in Seq(Byte), NEW slack \in Slack,
         slack = 0 \/ NewRecord(id, data, slack).size \in Word
  PROVE  GoodRecord(NewRecord(id, data, slack))
<1>1. PICK size \in Nat : size = BlobSize(Len(id), Len(data)) /\ size < U32
  <2>1. PICK n \in Nat : n = Overhead + Len(id) + Len(data)
    BY WidthsDiffer DEF Overhead
  <2>2. U32 \in Nat \ {0}
    BY BytesAreWords
  <2>3. n % U32 \in Nat /\ n % U32 < U32
    BY <2>2, DivMod
  <2> QED
    BY <2>1, <2>3 DEF BlobSize
<1>2. PICK r : r = NewRecord(id, data, slack)
  OBVIOUS
<1>3. r = [offset |-> HEAD_SIZE, key |-> Hash(id),
           size   |-> (IF size < MIN_SIZE THEN MIN_SIZE ELSE size) + slack]
  BY <1>1, <1>2 DEF NewRecord
<1>4. Hash(id) \in Word
  BY WordSequence, HashIsWord
<1>5. HEAD_SIZE \in Nat
  BY WidthsDiffer DEF HEAD_SIZE
<1>6. MIN_SIZE \in Nat /\ slack \in Nat /\ MIN_SIZE < U32
  BY DiskFormatAssumption
<1>7. MIN_SIZE <= r.size
  BY <1>3, <1>6
<1>8. r.size \in Word
  <2>1. CASE slack = 0
    <3>1. r.size \in Nat /\ r.size < U32
      BY <1>1, <1>3, <1>6, <2>1
    <3> QED
      BY <3>1, BytesAreWords
  <2> QED
    BY <1>2, <2>1
<1>9. r \in Record
  BY <1>3, <1>4, <1>5, <1>8 DEF Record
<1> QED
  BY <1>2, <1>3, <1>7, <1>9 DEF GoodRecord

LEMMA GrownProperties ==
  ASSUME file \in Seq(Byte), NEW r, GoodRecord(r)
  PROVE  /\ Grown(r) \in Seq(Byte)
         /\ Len(Grown(r)) = End(r) + IndexSize(1)
         /\ End(r) <= Len(Grown(r))
<1>1. PICK f \in Seq(Byte) : f = IF records = <<>> THEN file ELSE Released
  BY ReleasedIsFile DEF Released
<1>2. PICK e, n \in Nat : e = End(r) /\ n = IndexSize(1)
  <2>1. End(r) \in Nat
    BY EndProperties DEF Offset
  <2>2. IndexSize(1) \in Nat
    <3>1. PICK w \in Nat : w = W
      BY WidthsDiffer
    <3>2. w + 1 * (4 * w) \in Nat
      OBVIOUS
    <3> QED
      BY <3>1, <3>2 DEF IndexSize, SERIALIZED_SIZE
  <2> QED
    BY <2>1, <2>2
<1>3. PICK m \in Nat : m = e + n /\ e <= m
  BY <1>2
<1>4. Resize(f, m) \in Seq(Byte) /\ Len(Resize(f, m)) = m
  BY ResizeProperties
<1> QED
  BY <1>1, <1>2, <1>3, <1>4 DEF Grown
\* The ways in which writeBlob ends: the assertion of writeData, an id that is
\* not stored, and an object that is.
LEMMA WriteOutcomes ==
  ASSUME IInv, NEW id \in Id, NEW data \in Data, NEW slack \in Slack,
         WriteBlob(id, data, slack)
  PROVE  /\ phase = "open" /\ host' = host /\ key' = key /\ damaged' = {}
         /\ \E c, x \in Seq(Byte), r \in Record :
              /\ c = Encrypt(key, id) /\ x = Encrypt(key, data)
              /\ Len(x) \in Word /\ GoodRecord(r) /\ r.key = Hash(c)
              /\ \/ /\ phase' = "aborted" /\ file' = Grown(r)
                    /\ records' = <<r>> /\ object' = {}
                 \/ /\ phase' = "open" /\ records' = <<>> /\ object' = {}
                    /\ file' = Resize(Grown(r), HEAD_SIZE + IndexSize(0))
                 \/ /\ phase' = "open" /\ records' = <<r>>
                    /\ file' = WriteData(host, Grown(r), r, c, x)
                    /\ object' = {[id |-> id, data |-> data, key |-> key, record |-> r]}
                    /\ Fits(r, c, x) /\ IdIsStorable(c)
<1>1. key \in Seq(Byte) /\ id \in Seq(Byte) /\ data \in Seq(Byte) /\ Len(data) \in Word
  BY ConstantTypes DEF IInv, TypeOK
<1>2. PICK c, x \in Seq(Byte) : c = Encrypt(key, id) /\ x = Encrypt(key, data)
        /\ Len(x) = Len(data)
  BY <1>1, EncryptProperties
<1>3. PICK r : r = NewRecord(c, data, slack)
  OBVIOUS
<1>4. /\ phase = "open" /\ host' = host /\ key' = key /\ damaged' = {}
      /\ slack = 0 \/ r.size \in Word
      /\ CASE ~Fits(r, c, data) ->
                /\ phase' = "aborted" /\ file' = Grown(r)
                /\ records' = <<r>> /\ object' = {}
           [] Fits(r, c, data) /\ ~IdIsStorable(c) ->
                /\ file' = Resize(Grown(r), HEAD_SIZE + IndexSize(0))
                /\ records' = <<>> /\ object' = {} /\ phase' = phase
           [] OTHER ->
                /\ file' = WriteData(host, Grown(r), r, c, x)
                /\ records' = <<r>> /\ phase' = phase
                /\ object' = {[id |-> id, data |-> data, key |-> key, record |-> r]}
  BY <1>2, <1>3 DEF WriteBlob, NewRecord, Grown, NoObject
<1>5. GoodRecord(r)
  BY <1>1, <1>3, <1>4, NewRecordIsGood
<1>6. r.key = Hash(c)
  BY <1>3 DEF NewRecord
<1>7. Fits(r, c, x) <=> Fits(r, c, data)
  BY <1>2 DEF Fits
<1>8. \/ /\ phase' = "aborted" /\ file' = Grown(r)
         /\ records' = <<r>> /\ object' = {}
      \/ /\ phase' = "open" /\ records' = <<>> /\ object' = {}
         /\ file' = Resize(Grown(r), HEAD_SIZE + IndexSize(0))
      \/ /\ phase' = "open" /\ records' = <<r>>
         /\ file' = WriteData(host, Grown(r), r, c, x)
         /\ object' = {[id |-> id, data |-> data, key |-> key, record |-> r]}
         /\ Fits(r, c, x) /\ IdIsStorable(c)
  <2>1. CASE ~Fits(r, c, data)
    BY <1>4, <2>1
  <2>2. CASE Fits(r, c, data) /\ ~IdIsStorable(c)
    BY <1>4, <2>2
  <2>3. CASE Fits(r, c, data) /\ IdIsStorable(c)
    BY <1>4, <1>7, <2>3
  <2> QED
    BY <2>1, <2>2, <2>3
<1>9. Len(x) \in Word
  BY <1>1, <1>2
<1>10. r \in Record
  BY <1>5 DEF GoodRecord
<1> QED
  BY <1>2, <1>4, <1>5, <1>6, <1>8, <1>9, <1>10

\* Whatever writeBlob comes to, the index has the object that is in the file.
LEMMA WriteStep ==
  ASSUME OrdersKnown, IInv, NEW id \in Id, NEW data \in Data, NEW slack \in Slack,
         WriteBlob(id, data, slack)
  PROVE  IInv'
<1>1. phase = "open" /\ host' = host /\ key' = key /\ damaged' = {}
  BY WriteOutcomes
<1>2. PICK c, x \in Seq(Byte), r \in Record :
        /\ c = Encrypt(key, id) /\ x = Encrypt(key, data)
        /\ Len(x) \in Word /\ GoodRecord(r) /\ r.key = Hash(c)
        /\ \/ /\ phase' = "aborted" /\ file' = Grown(r)
              /\ records' = <<r>> /\ object' = {}
           \/ /\ phase' = "open" /\ records' = <<>> /\ object' = {}
              /\ file' = Resize(Grown(r), HEAD_SIZE + IndexSize(0))
           \/ /\ phase' = "open" /\ records' = <<r>>
              /\ file' = WriteData(host, Grown(r), r, c, x)
              /\ object' = {[id |-> id, data |-> data, key |-> key, record |-> r]}
              /\ Fits(r, c, x) /\ IdIsStorable(c)
  BY WriteOutcomes
<1>3. file \in Seq(Byte) /\ host \in Host /\ key \in Key \cup {<<>>}
  BY DEF IInv, TypeOK
<1>4. PICK f \in Seq(Byte) : f = Grown(r) /\ End(r) <= Len(f)
  BY <1>2, <1>3, GrownProperties
<1>5. <<r>> \in Seq(Record) /\ Len(<<r>>) = 1 /\ <<>> \in Seq(Record) /\ Len(<<>>) = 0
  BY <1>2, OneRecord
<1>6. CASE phase' = "aborted" /\ file' = f /\ records' = <<r>> /\ object' = {}
  <2>1. TypeOK'
    BY <1>1, <1>3, <1>5, <1>6 DEF TypeOK
  <2> QED
    BY <1>1, <1>6, <2>1 DEF IInv, Objects, Undamaged, OneDamaged, WhenClosed, WhenOpen
<1>7. CASE /\ phase' = "open" /\ records' = <<>> /\ object' = {}
           /\ file' = Resize(f, HEAD_SIZE + IndexSize(0))
  <2>1. file' \in Seq(Byte)
    BY <1>7, ReleasedIsFile
  <2>2. TypeOK'
    BY <1>1, <1>3, <1>5, <1>7, <2>1 DEF TypeOK
  <2> QED
    BY <1>1, <1>7, <2>2 DEF IInv, Objects, Undamaged, OneDamaged, WhenClosed, WhenOpen
<1>8. CASE /\ phase' = "open" /\ records' = <<r>>
           /\ file' = WriteData(host, f, r, c, x)
           /\ object' = {[id |-> id, data |-> data, key |-> key, record |-> r]}
           /\ Fits(r, c, x) /\ IdIsStorable(c)
  <2>1. PICK o : o = [id |-> id, data |-> data, key |-> key, record |-> r]
    OBVIOUS
  <2>2. /\ object' = {o} /\ o.id = id /\ o.data = data /\ o.key = key
        /\ o.record = r /\ Cipher(o, id) = c /\ Cipher(o, data) = x
    BY <1>2, <1>8, <2>1 DEF Cipher
  <2>3. GoodObject(o)
    BY <1>2, <1>3, <1>8, <2>2 DEF GoodObject
  <2>4. file' \in Seq(Byte) /\ Len(file') = Len(f) /\ Stored(file', r, c, x)
    BY <1>2, <1>3, <1>4, <1>8, WriteStores
  <2>5. StoredObject(file', o)
    BY <2>2, <2>4 DEF StoredObject
  <2>6. TypeOK'
    BY <1>1, <1>3, <1>5, <1>8, <2>4 DEF TypeOK
  <2>7. Objects' /\ Undamaged' /\ OneDamaged'
    BY <1>1, <2>2, <2>3, <2>5 DEF Objects, Undamaged, OneDamaged
  <2>8. WhenClosed' /\ WhenOpen'
    BY <1>4, <1>8, <2>2, <2>4 DEF WhenClosed, WhenOpen
  <2> QED
    BY <2>6, <2>7, <2>8 DEF IInv
<1> QED
  BY <1>2, <1>4, <1>6, <1>7, <1>8

\* A byte of the block is no byte of the head and none of the table.
LEMMA DamageStep ==
  ASSUME OrdersKnown, IInv, NEW i \in DOMAIN file, NEW byte \in Byte, Damage(i, byte)
  PROVE  IInv'
<1>1. /\ phase = "closed" /\ phase' = phase /\ records' = records /\ host' = host
      /\ key' = key /\ object' = object /\ damaged' = {i}
      /\ file' = [file EXCEPT ![i] = byte]
  BY DEF Damage
<1>2. PICK o : object = {o} /\ GoodObject(o) /\ InBlock(o.record, i)
  BY DEF Damage, IInv, Objects
<1>3. PICK r : r = o.record /\ GoodRecord(r) /\ InBlock(r, i) /\ Committed(file, r)
  BY <1>1, <1>2 DEF GoodObject, IInv, WhenClosed
<1>4. file \in Seq(Byte)
  BY DEF IInv, TypeOK
<1>5. PICK n \in Nat : n = Len(file) /\ DOMAIN file = 1 .. n
  BY <1>4
<1>6. file' \in Seq(Byte) /\ Len(file') = n
  BY <1>1, <1>4, <1>5
<1>7. PICK b, e \in Nat : b = r.offset /\ b = 2 * W /\ e = End(r) /\ b < i /\ i <= e
  BY <1>3, EndProperties DEF Offset, InBlock
<1>8. ASSUME NEW off \in Nat, NEW s, Len(s) \in Nat, Reads(file, off, s),
             off + Len(s) <= b \/ e <= off
      PROVE  Reads(file', off, s)
  <2>1. PICK len \in Nat : len = Len(s)
    BY <1>8
  <2>2. ASSUME NEW j \in 1 .. len PROVE ByteAt(file', off + j) = ByteAt(file, off + j)
    <3>1. off + j # i /\ off + j \in Nat \ {0}
      BY <1>5, <1>7, <1>8, <2>1
    <3> QED
      BY <1>1, <1>5, <1>6, <3>1 DEF ByteAt
  <2>3. At(file', off, len) = At(file, off, len)
    <3>1. At(file', off, len) = [j \in 1 .. len |-> ByteAt(file', off + j)]
      BY <1>6, AtProperties
    <3>2. At(file, off, len) = [j \in 1 .. len |-> ByteAt(file, off + j)]
      BY <1>4, AtProperties
    <3> QED
      BY <2>2, <3>1, <3>2
  <2> QED
    BY <1>8, <2>1, <2>3 DEF Reads
<1>9. Committed(file', r)
  <2>1. PICK w \in Nat : w = W
    BY WidthsDiffer
  <2>2. /\ Len(Digits(e, 2 * w)) = 2 * w /\ Len(Digits(1, w)) = w
        /\ Len(Digits(r.offset, 2 * w)) = 2 * w
        /\ Len(Digits(r.key, w)) = w /\ Len(Digits(r.size, w)) = w
    <3>1. \A x \in Offset : Len(Digits(x, 2 * W)) = 2 * W
      BY DigitsTyped, WidthsDiffer, OffsetsAreNatural
    <3>2. \A x \in Word : Len(Digits(x, W)) = W
      BY DigitsTyped, WidthsDiffer, BytesAreWords
    <3> QED
      BY <1>3, <1>7, <2>1, <3>1, <3>2, EndProperties
  <2>3. PICK t0, t1, t2, t3 \in Nat :
          /\ t0 = e + w /\ t1 = e + w + 2 * w /\ t2 = e + w + 2 * w + w
          /\ t3 = 0 /\ e <= t0 /\ e <= t1 /\ e <= t2 /\ 0 + 2 * w <= b
    BY <1>7, <2>1
  <2>4. Reads(file', t3, Digits(e, 2 * w))
    BY <1>3, <1>7, <1>8, <2>1, <2>2, <2>3 DEF Committed
  <2>5. Reads(file', e, Digits(1, w))
    BY <1>3, <1>7, <1>8, <2>1, <2>2 DEF Committed
  <2>6. Reads(file', t0, Digits(r.offset, 2 * w))
    BY <1>3, <1>7, <1>8, <2>1, <2>2, <2>3 DEF Committed
  <2>7. Reads(file', t1, Digits(r.key, w))
    BY <1>3, <1>7, <1>8, <2>1, <2>2, <2>3 DEF Committed
  <2>8. Reads(file', t2, Digits(r.size, w))
    BY <1>3, <1>7, <1>8, <2>1, <2>2, <2>3 DEF Committed
  <2> QED
    BY <1>3, <1>5, <1>6, <1>7, <2>1, <2>3, <2>4, <2>5, <2>6, <2>7, <2>8 DEF Committed
<1>10. TypeOK'
  BY <1>1, <1>6 DEF IInv, TypeOK
<1>11. Objects' /\ Undamaged'
  BY <1>1 DEF IInv, Objects, Undamaged
<1>12. OneDamaged'
  <2>1. PICK old \in Byte : old = file[i]
    BY <1>4
  <2>2. ReplaceAt(file', i, old) = file
    <3>1. file = [k \in 1 .. n |-> file[k]] /\ i \in 1 .. n
      BY <1>4, <1>5
    <3>2. file' = [k \in 1 .. n |-> IF k = i THEN byte ELSE file[k]]
      BY <1>1, <3>1
    <3>3. ReplaceAt(file', i, old) = [k \in 1 .. n |-> IF k = i THEN old ELSE file'[k]]
      BY <3>2 DEF ReplaceAt
    <3>4. \A k \in 1 .. n : (IF k = i THEN old ELSE file'[k]) = file[k]
      BY <2>1, <3>2
    <3> QED
      BY <3>1, <3>3, <3>4
  <2>3. StoredObject(file, o)
    BY <1>2 DEF Damage, IInv, Undamaged
  <2>4. i \in DOMAIN file'
    BY <1>1
  <2> QED
    BY <1>1, <1>2, <2>2, <2>3, <2>4 DEF OneDamaged
<1>13. WhenClosed' /\ WhenOpen'
  BY <1>1, <1>2, <1>3, <1>9 DEF IInv, WhenClosed, WhenOpen
<1> QED
  BY <1>10, <1>11, <1>13, <1>12 DEF IInv

-----------------------------------------------------------------------------
(* The properties of DiskFormat, on hosts whose htonll knows their order *)

LEMMA NextIsGood ==
  ASSUME OrdersKnown, IInv, [Next]_vars
  PROVE  IInv'
<1>1. CASE \E h \in Host, k \in Key : Open(h, k)
  BY <1>1, OpenStep
<1>2. CASE Close
  BY <1>2, CloseStep
<1>3. CASE \E id \in Id : EraseBlob(id)
  BY <1>3, EraseStep
<1>4. CASE \E id \in Id, data \in Data, slack \in Slack : WriteBlob(id, data, slack)
  BY <1>4, WriteStep
<1>5. CASE \E i \in DOMAIN file, byte \in Byte : Damage(i, byte)
  BY <1>5, DamageStep
<1>6. CASE UNCHANGED vars
  BY <1>6 DEF vars, IInv, TypeOK, Objects, Undamaged, OneDamaged, WhenClosed, WhenOpen
<1> QED
  BY <1>1, <1>2, <1>3, <1>4, <1>5, <1>6 DEF Next

\* What every program finds in the file and keeps true in it, whatever call of
\* HeapFileT it makes and on whatever host (heap_file.cpp).
THEOREM Inductive ==
  ASSUME OrdersKnown
  PROVE  Spec => []IInv
<1>1. Init => IInv
  BY InitIsGood
<1>2. IInv /\ [Next]_vars => IInv'
  BY NextIsGood
<1> QED
  BY <1>1, <1>2, PTL DEF Spec

\* What is in the file are bytes, and what the constructor finds in it are
\* records, of members as wide as they are there.
THEOREM TypeCorrect ==
  ASSUME OrdersKnown
  PROVE  Spec => []TypeOK
<1>1. IInv => TypeOK
  BY DEF IInv
<1> QED
  BY <1>1, Inductive, PTL

\* What the constructor finds is one record, of the object, or none.
LEMMA RecordsFound ==
  ASSUME IInv, phase = "open"
  PROVE  /\ object = {} => ToSet(records) = {}
         /\ \A o \in object : ToSet(records) = {o.record}
<1>1. ToSet(<<>>) = {}
  BY DEF ToSet
<1>2. \A r : ToSet(<<r>>) = {r}
  BY DEF ToSet
<1> QED
  BY <1>1, <1>2 DEF IInv, WhenOpen

LEMMA ReadsBackNow ==
  ASSUME OrdersKnown, IInv
  PROVE  ReadsBack
<1> SUFFICES ASSUME phase = "open", damaged = {}, NEW o \in object,
                    key = o.key, NEW id \in Id
             PROVE  GetBlob(id) = IF id = o.id THEN {o.data} ELSE {}
  BY DEF ReadsBack
<1>1. GoodObject(o) /\ StoredObject(file, o) /\ ToSet(records) = {o.record}
  BY RecordsFound DEF IInv, Objects, Undamaged
<1>2. PICK r : r = o.record /\ GoodRecord(r)
  BY <1>1 DEF GoodObject
<1>3. PICK c, x \in Seq(Byte) :
        /\ c = Encrypt(key, o.id) /\ x = Encrypt(key, o.data)
        /\ Len(x) \in Word /\ r.key = Hash(c) /\ Fits(r, c, x)
        /\ Stored(file, r, c, x)
  BY <1>1, <1>2, ObjectTypes DEF GoodObject, StoredObject, Cipher
<1>4. /\ \A y \in Seq(Byte) : HasId(file, r, y) <=> y = c
      /\ GetData(host, file, r) = {x}
  BY <1>2, <1>3, StoredIsRead DEF IInv, TypeOK
<1>5. key \in Seq(Byte) /\ id \in Seq(Byte) /\ o.id \in Seq(Byte)
      /\ o.data \in Seq(Byte)
  BY <1>1, ConstantTypes, ObjectTypes
<1>6. PICK y \in Seq(Byte) : y = Encrypt(key, id)
  BY <1>5, EncryptProperties
<1>7. y = c <=> id = o.id
  <2>1. Decrypt(key, y) = id /\ Decrypt(key, c) = o.id
    BY <1>3, <1>5, <1>6, EncryptProperties
  <2> QED
    BY <1>3, <1>6, <2>1, Zenon
<1>8. FindBlob(y) = IF id = o.id THEN {r} ELSE {}
  BY <1>1, <1>2, <1>3, <1>4, <1>7 DEF FindBlob
<1>9. Decrypt(key, x) = o.data
  BY <1>3, <1>5, EncryptProperties
<1>10. {Decrypt(key, data) : data \in GetData(host, file, r)} = {o.data}
  BY <1>4, <1>9
<1>11. GetBlob(id) = UNION {{Decrypt(key, data) : data \in GetData(host, file, q)} :
                              q \in FindBlob(y)}
  BY <1>6 DEF GetBlob
<1>12. CASE id = o.id
  <2>1. FindBlob(y) = {r}
    BY <1>8, <1>12
  <2> QED
    BY <1>10, <1>11, <1>12, <2>1
<1>13. CASE id # o.id
  <2>1. FindBlob(y) = {}
    BY <1>8, <1>13
  <2> QED
    BY <1>11, <1>13, <2>1
<1> QED
  BY <1>12, <1>13

\* getBlob returns an object to a program with the key that wrote it, however
\* often other programs, on whatever hosts, have had the file open since, and
\* for no other id (heap_file.cpp, heap_blob.cpp).
THEOREM AlwaysReadsBack ==
  ASSUME OrdersKnown
  PROVE  Spec => []ReadsBack
BY ReadsBackNow, Inductive, PTL

\* hasId and getData read nothing outside the block, whichever of its bytes
\* has changed (heap_blob.cpp).
THEOREM ReadsAlwaysStay ==
  ASSUME OrdersKnown
  PROVE  Spec => []ReadsStayInBlock
<1>1. IInv => ReadsStayInBlock
  <2> SUFFICES ASSUME IInv, phase = "open", NEW r \in ToSet(records)
               PROVE  /\ GetDataReads(host, file, r) <= r.size
                      /\ \A id \in Id : HasIdReads(file, r, Encrypt(key, id)) <= r.size
    BY DEF ReadsStayInBlock
  <2>1. GoodRecord(r)
    BY RecordsFound DEF IInv, Objects, GoodObject
  <2>2. file \in Seq(Byte) /\ host \in Host
    BY DEF IInv, TypeOK
  <2>3. \A id \in Id : Encrypt(key, id) \in Seq(Byte)
    BY ConstantTypes, EncryptProperties DEF IInv, TypeOK
  <2>4. PICK b, z, w \in Nat : b = r.offset /\ z = r.size /\ w = W /\ BYTE <= z
    BY <2>1, EndProperties, WidthsDiffer
  <2>5. DataSize(host, file, r) \in Nat
    <3>1. PICK n \in Nat : n = IdSize(file, r)
      <4>1. At(file, b, 1) \in Seq(Byte) /\ Len(At(file, b, 1)) = 1
        BY <2>2, AtProperties
      <4>2. At(file, b, 1)[1] \in Byte
        BY <4>1
      <4> QED
        BY <2>4, <4>2, BytesAreWords DEF IdSize, Byte
    <3>2. PICK d \in Nat : d = DataSizeAt(r, n)
      BY <2>4 DEF DataSizeAt, HashAt
    <3>3. PICK s \in Seq(Byte) : s = At(file, d, w) /\ Len(s) = w
      <4>1. At(file, d, w) \in Seq(Byte) /\ Len(At(file, d, w)) = w
        BY <2>2, AtProperties
      <4> QED
        BY <4>1, Zenon
    <3>4. ReadN2H(host, s) \in Nat
      BY <2>2, <2>4, <3>3, ReadIsNumber, DigitsOfNumber, WidthsDiffer
    <3> QED
      BY <2>4, <3>1, <3>2, <3>3, <3>4 DEF DataSize
  <2>6. <<>> \in Seq(Byte)
    OBVIOUS
  <2> QED
    BY <2>2, <2>3, <2>4, <2>5, <2>6, ReadsStayInAnyBlock
<1> QED
  BY <1>1, Inductive, PTL

\* What cutting and growing the file do to it.
LEMMA ResizeKeeps ==
  ASSUME NEW f \in Seq(Byte), NEW n \in Nat, NEW i \in Nat \ {0}
  PROVE  ByteAt(Resize(f, n), i) \in {0, ByteAt(f, i)}
<1>1. PICK g \in Seq(Byte) : g = Resize(f, n) /\ Len(g) = n
  BY ResizeProperties
<1>2. CASE i <= n
  BY <1>2, ResizeProperties
<1>3. CASE ~(i <= n)
  <2>1. ByteAt(g, i) = 0
    BY <1>1, <1>3 DEF ByteAt
  <2> QED
    BY <1>1, <2>1
<1> QED
  BY <1>2, <1>3

LEMMA GrownKeeps ==
  ASSUME file \in Seq(Byte), NEW r, GoodRecord(r), NEW i \in Nat \ {0}
  PROVE  ByteAt(Grown(r), i) \in {0, ByteAt(file, i)}
<1>1. PICK n \in Nat : n = HEAD_SIZE + IndexSize(0)
  <2>1. PICK w \in Nat : w = W
    BY WidthsDiffer
  <2>2. 2 * w + (w + 0 * (4 * w)) \in Nat
    OBVIOUS
  <2> QED
    BY <2>1, <2>2 DEF HEAD_SIZE, IndexSize, SERIALIZED_SIZE
<1>2. PICK f \in Seq(Byte) :
        f = (IF records = <<>> THEN file ELSE Released)
        /\ ByteAt(f, i) \in {0, ByteAt(file, i)}
  <2>1. ByteAt(Released, i) \in {0, ByteAt(file, i)}
    BY <1>1, ResizeKeeps DEF Released
  <2> QED
    BY <2>1, ReleasedIsFile DEF Released
<1>3. PICK m \in Nat : m = End(r) + IndexSize(1)
  BY GrownProperties
<1>4. ByteAt(Resize(f, m), i) \in {0, ByteAt(f, i)}
  BY ResizeKeeps
<1> QED
  BY <1>2, <1>3, <1>4 DEF Grown

\* writeBlob and eraseBlob change no byte outside the block of the object,
\* except that bytes are cut off and zeros appended (heap_file.cpp).
THEOREM WritesAlwaysStay ==
  ASSUME OrdersKnown
  PROVE  Spec => WritesStayInBlock
<1>1. IInv /\ [Next]_vars =>
        [phase = "open" /\ phase' # "closed" =>
           \A r \in ToSet(records') : \A i \in DOMAIN file' :
             InBlock(r, i) \/ file'[i] \in {0, At(file, 0, i)[i]}]_vars
  <2> SUFFICES ASSUME IInv, Next, phase = "open", phase' # "closed",
                      NEW q \in ToSet(records'), NEW i \in DOMAIN file',
                      ~InBlock(q, i)
               PROVE  file'[i] \in {0, At(file, 0, i)[i]}
    OBVIOUS
  <2>1. PICK id \in Id, data \in Data, slack \in Slack : WriteBlob(id, data, slack)
    <3>1. ToSet(<<>>) = {}
      BY DEF ToSet
    <3> QED
      BY <3>1 DEF Next, Open, Close, EraseBlob, Damage
  <2>2. file \in Seq(Byte) /\ host \in Host
    BY DEF IInv, TypeOK
  <2>3. PICK c, x \in Seq(Byte), r \in Record :
          /\ Len(x) \in Word /\ GoodRecord(r)
          /\ \/ file' = Grown(r) /\ records' = <<r>>
             \/ /\ file' = WriteData(host, Grown(r), r, c, x) /\ records' = <<r>>
                /\ Fits(r, c, x) /\ IdIsStorable(c)
    <3>1. records' # <<>>
      BY DEF ToSet
    <3> QED
      BY <2>1, <3>1, WriteOutcomes
  <2>4. PICK f \in Seq(Byte) : f = Grown(r) /\ End(r) <= Len(f)
    BY <2>2, <2>3, GrownProperties
  <2>5. q = r
    BY <2>3 DEF ToSet
  <2>6. i \in Nat \ {0} /\ file'[i] = ByteAt(file', i)
    <3>1. file' \in Seq(Byte)
      BY <2>2, <2>3, <2>4, WriteStores
    <3> QED
      BY <3>1 DEF ByteAt
  <2>7. At(file, 0, i)[i] = ByteAt(file, i)
    <3>1. 0 + i = i /\ i \in 1 .. i
      BY <2>6
    <3> QED
      BY <3>1 DEF At, ByteAt
  <2>8. ByteAt(f, i) \in {0, ByteAt(file, i)}
    BY <2>2, <2>3, <2>4, <2>6, GrownKeeps
  <2>9. ByteAt(file', i) = ByteAt(f, i)
    BY <2>2, <2>3, <2>4, <2>5, <2>6, WriteElsewhere
  <2> QED
    BY <2>6, <2>7, <2>8, <2>9
<1> QED
  BY <1>1, Inductive, PTL DEF Spec, WritesStayInBlock
-----------------------------------------------------------------------------
(* A changed byte *)

SameBut(f, g, i) == \A k \in Nat \ {0} : k # i => ByteAt(f, k) = ByteAt(g, k)

LEMMA AtSameBut ==
  ASSUME NEW f \in Seq(Byte), NEW g \in Seq(Byte), NEW i \in Nat \ {0},
         SameBut(f, g, i), NEW off \in Nat, NEW len \in Nat,
         ~(off < i /\ i <= off + len)
  PROVE  At(f, off, len) = At(g, off, len)
<1>1. ASSUME NEW j \in 1 .. len PROVE ByteAt(f, off + j) = ByteAt(g, off + j)
  <2>1. PICK k \in Nat \ {0} : k = off + j /\ k # i
    OBVIOUS
  <2> QED
    BY <2>1 DEF SameBut
<1> QED
  BY <1>1, AtSame

\* If the id is found and the length of the data has not changed, the hash
\* tells the object from any that is one byte away from it.
LEMMA ChangedByteIsFound ==
  ASSUME OrdersKnown, NEW h \in Host, NEW f \in Seq(Byte), NEW g \in Seq(Byte),
         NEW r, GoodRecord(r), NEW c \in Seq(Byte), NEW x \in Seq(Byte),
         Len(x) \in Word, Stored(g, r, c, x),
         NEW i \in Nat \ {0}, SameBut(f, g, i),
         ~(DataSizeAt(r, Len(c)) < i /\ i <= DataSizeAt(r, Len(c)) + W),
         HasId(f, r, c)
  PROVE  GetData(h, f, r) \subseteq {x}
<1>1. PICK n, m, w, b \in Nat : n = Len(c) /\ m = Len(x) /\ w = W /\ b = r.offset
  <2>1. Len(c) \in Nat /\ Len(x) \in Nat
    OBVIOUS
  <2> QED
    BY <2>1, EndProperties, WidthsDiffer, Zenon
<1>2. IdSize(f, r) = n
  BY <1>1 DEF HasId, ComparesId
<1>3. PICK a2, a3, a4 \in Nat :
        /\ a2 = HashAt(r, n) /\ a3 = DataSizeAt(r, n) /\ a4 = DataAt(r, n)
        /\ a3 = a2 + w /\ a4 = a3 + w
  BY <1>1 DEF HashAt, DataSizeAt, DataAt
<1>4. At(g, a2, w) = Digits(Hash(x), w) /\ At(g, a3, w) = Digits(m, w)
      /\ At(g, a4, m) = x
  BY <1>1, <1>3 DEF Stored
<1>5. DataSize(h, f, r) = m
  <2>1. At(f, a3, w) = At(g, a3, w)
    <3>1. ~(a3 < i /\ i <= a3 + w)
      BY <1>1, <1>3, Zenon
    <3> QED
      BY <3>1, AtSameBut
  <2>2. ReadN2H(h, Digits(m, w)) = m
    BY <1>1, WordProperties
  <2> QED
    BY <1>1, <1>2, <1>3, <1>4, <2>1, <2>2 DEF DataSize
<1>6. PICK y \in Seq(Byte) : y = At(f, a4, m) /\ Len(y) = m
        /\ y = [j \in 1 .. m |-> ByteAt(f, a4 + j)]
  <2>1. /\ At(f, a4, m) = [j \in 1 .. m |-> ByteAt(f, a4 + j)]
        /\ At(f, a4, m) \in Seq(Byte) /\ Len(At(f, a4, m)) = m
    BY AtProperties
  <2> QED
    BY <2>1, Zenon
<1>7. GetData(h, f, r) \subseteq {y} /\
      (GetData(h, f, r) # {} => Hash(y) = StoredHash(h, f, r))
  <2>1. StoredData(h, f, r) = y
    BY <1>2, <1>3, <1>5, <1>6 DEF StoredData
  <2> QED
    BY <2>1 DEF GetData
<1>8. ASSUME y # x, Hash(y) = StoredHash(h, f, r) PROVE FALSE
  <2>1. x = [j \in 1 .. m |-> ByteAt(g, a4 + j)]
    <3>1. At(g, a4, m) = [j \in 1 .. m |-> ByteAt(g, a4 + j)]
      BY AtDefined
    <3> QED
      BY <1>4, <3>1, Zenon
  <2>2. PICK j \in 1 .. m : y[j] # x[j]
    BY <1>6, <1>8, <2>1
  <2>3. i = a4 + j
    <3>1. PICK k \in Nat \ {0} : k = a4 + j
      OBVIOUS
    <3>2. ByteAt(f, k) # ByteAt(g, k)
      BY <1>6, <2>1, <2>2, <3>1
    <3> QED
      BY <3>1, <3>2 DEF SameBut
  <2>4. At(f, a2, w) = At(g, a2, w)
    <3>1. a2 + w <= (a2 + w) + w /\ a4 < a4 + j /\ a4 = (a2 + w) + w
      <4>1. a2 + w <= (a2 + w) + w /\ a4 < a4 + j
        OBVIOUS
      <4> QED
        BY <1>3, <4>1, Zenon
    <3>2. ~(a2 < i /\ i <= a2 + w)
      BY <2>3, <3>1
    <3> QED
      BY <3>2, AtSameBut
  <2>5. y \in Seq(Word) /\ x \in Seq(Word)
    BY WordSequence
  <2>6. StoredHash(h, f, r) = Hash(x)
    <3>1. ReadN2H(h, Digits(Hash(x), w)) = Hash(x)
      BY <1>1, <2>5, HashIsWord, WordProperties
    <3> QED
      BY <1>1, <1>2, <1>3, <1>4, <2>4, <3>1 DEF StoredHash
  <2>7. ASSUME NEW l \in 1 .. m, l # j PROVE y[l] = x[l]
    <3>1. PICK k \in Nat \ {0} : k = a4 + l /\ k # i
      BY <2>3, <2>7
    <3>2. ByteAt(f, k) = ByteAt(g, k)
      BY <3>1 DEF SameBut
    <3> QED
      BY <1>6, <2>1, <3>1, <3>2
  <2>8. Hash(y) # Hash(x)
    BY <1>1, <1>6, <2>2, <2>5, <2>7, HashDetects
  <2> QED
    BY <1>8, <2>6, <2>8
<1> QED
  BY <1>7, <1>8

\* The hash tests for corruption (heap_blob.h): whichever byte of a block has
\* changed, save those of the length of the data, the object is read as it was
\* written or not at all.
THEOREM DamageIsAlwaysDetected ==
  ASSUME OrdersKnown
  PROVE  Spec => []OneDamagedByteIsDetected
<1>1. IInv => OneDamagedByteIsDetected
  <2> SUFFICES ASSUME IInv, phase = "open", NEW o \in object, key = o.key,
                      damaged \cap DataSizeField(o.record, o.id) = {}
               PROVE  GetBlob(o.id) \subseteq {o.data}
    BY DEF OneDamagedByteIsDetected
  <2>1. GoodObject(o) /\ ToSet(records) = {o.record} /\ object = {o}
    BY RecordsFound DEF IInv, Objects
  <2>2. o.id \in Id
    BY <2>1 DEF GoodObject
  <2>3. CASE damaged = {}
    <3>1. GetBlob(o.id) = {o.data}
      BY <2>2, <2>3, ReadsBackNow DEF ReadsBack
    <3> QED
      BY <3>1
  <2>4. CASE damaged # {}
    <3>1. PICK i \in DOMAIN file, old \in Byte :
            damaged = {i} /\ StoredObject(ReplaceAt(file, i, old), o)
      BY <2>1, <2>4 DEF IInv, OneDamaged
    <3>2. PICK r : r = o.record /\ GoodRecord(r)
      BY <2>1 DEF GoodObject
    <3>3. file \in Seq(Byte) /\ host \in Host /\ i \in Nat \ {0}
      BY <3>1 DEF IInv, TypeOK
    <3>4. PICK c, x \in Seq(Byte) :
            /\ c = Encrypt(key, o.id) /\ x = Encrypt(key, o.data)
            /\ Len(x) \in Word /\ Len(c) = Len(o.id)
      BY <2>1, ObjectTypes, EncryptProperties DEF Cipher
    <3>5. PICK g \in Seq(Byte) : g = ReplaceAt(file, i, old) /\ Stored(g, r, c, x)
      BY <3>1, <3>2, <3>3, <3>4, ReplaceByte DEF StoredObject, Cipher
    <3>6. SameBut(file, g, i)
      BY <3>1, <3>3, <3>5, ReplaceByte DEF SameBut
    <3>7. ~(DataSizeAt(r, Len(c)) < i /\ i <= DataSizeAt(r, Len(c)) + W)
      <4>1. PICK a, w \in Nat : a = DataSizeAt(r, Len(c)) /\ w = W
        BY <3>2, EndProperties, WidthsDiffer DEF DataSizeAt, HashAt
      <4>2. i \notin a + 1 .. a + w
        BY <3>1, <3>2, <3>4, <4>1 DEF DataSizeField
      <4> QED
        BY <3>3, <4>1, <4>2
    <3>8. HasId(file, r, c) => GetData(host, file, r) \subseteq {x}
      BY <3>2, <3>3, <3>4, <3>5, <3>6, <3>7, ChangedByteIsFound
    <3>9. FindBlob(c) \subseteq {r} /\ (FindBlob(c) # {} => HasId(file, r, c))
      BY <2>1, <3>2 DEF FindBlob
    <3>10. Decrypt(key, x) = o.data
      BY <2>1, <3>4, ObjectTypes, EncryptProperties
    <3>11. GetBlob(o.id) = UNION {{Decrypt(key, data) : data \in GetData(host, file, q)} :
                                    q \in FindBlob(c)}
      BY <3>4 DEF GetBlob
    <3> QED
      BY <3>8, <3>9, <3>10, <3>11
  <2> QED
    BY <2>3, <2>4
<1> QED
  BY <1>1, Inductive, PTL
=============================================================================
