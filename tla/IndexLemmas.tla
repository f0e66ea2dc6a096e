----------------------------- MODULE IndexLemmas -----------------------------
(***************************************************************************)
(* The operators of IndexOps keep an index sound.  Each operation is taken *)
(* apart into what it does to the list and the records (Shape) and what it *)
(* does to the two multimaps (Filed, Coalesced).  Deallocation removes its *)
(* record from the multimaps before it merges the neighbours, so between   *)
(* its steps the index satisfies a weaker predicate, Limbo.                *)
(*                                                                         *)
(* First, the facts the proofs need of the operators of SequencesExt: what *)
(* inserting into and erasing from a std::list, modelled as a sequence,    *)
(* does to its elements.                                                   *)
(***************************************************************************)
EXTENDS IndexOps, SequenceTheorems, WellFoundedInduction, TLAPS

-----------------------------------------------------------------------------
(* Lists *)

\* The set of the elements of a list, by their positions (list::begin to end).
LEMMA ToSetProperties ==
  ASSUME NEW S, NEW s \in Seq(S)
  PROVE  /\ ToSet(s) \subseteq S
         /\ \A x : x \in ToSet(s) <=> \E i \in 1..Len(s) : s[i] = x
  BY LenProperties DEF ToSet

\* list::pop_back.
LEMMA FrontProperties ==
  ASSUME NEW S, NEW s \in Seq(S), s # <<>>
  PROVE  /\ Front(s) \in Seq(S)
         /\ Len(Front(s)) = Len(s) - 1
         /\ \A i \in 1..(Len(s) - 1) : Front(s)[i] = s[i]
<1> DEFINE n == Len(s) - 1
           f == SubSeq(s, 1, n)
<1>1. n \in Nat /\ Len(s) = n + 1
  BY EmptySeq
<1>2. \A i \in 1..n : s[i] \in S
  BY <1>1, ElementOfSeq
<1> HIDE DEF n
<1>3. /\ f \in Seq(S)
      /\ Len(f) = IF 1 <= n THEN n - 1 + 1 ELSE 0
      /\ \A i \in 1..(n - 1 + 1) : f[i] = s[1 + i - 1]
  BY <1>1, <1>2, SubSeqProperties
<1>4. Front(s) = f
  BY DEF Front, f, n
<1> HIDE DEF f
<1>5. Len(f) = n /\ \A i \in 1..n : f[i] = s[i]
  BY <1>1, <1>3
<1> QED
  BY <1>3, <1>4, <1>5 DEF n

\* list::erase of one element.
LEMMA RemoveAtProperties ==
  ASSUME NEW S, NEW s \in Seq(S), NEW k \in 1..Len(s)
  PROVE  /\ RemoveAt(s, k) \in Seq(S)
         /\ Len(RemoveAt(s, k)) = Len(s) - 1
         /\ \A i \in 1..(Len(s) - 1) :
              RemoveAt(s, k)[i] = IF i < k THEN s[i] ELSE s[i + 1]
<1> DEFINE left  == SubSeq(s, 1, k - 1)
           right == SubSeq(s, k + 1, Len(s))
<1>1. /\ Len(s) \in Nat
      /\ \A i \in 1..Len(s) : s[i] \in S
  BY LenProperties, ElementOfSeq
<1>2. /\ left \in Seq(S)
      /\ Len(left) = k - 1
      /\ \A i \in 1..(k - 1) : left[i] = s[i]
  <2>1. \A i \in 1..(k - 1) : s[i] \in S
    BY <1>1
  <2>2. /\ left \in Seq(S)
        /\ Len(left) = IF 1 <= k - 1 THEN (k - 1) - 1 + 1 ELSE 0
        /\ \A i \in 1..((k - 1) - 1 + 1) : left[i] = s[1 + i - 1]
    BY <1>1, <2>1, SubSeqProperties
  <2> QED
    BY <1>1, <2>2
<1>3. /\ right \in Seq(S)
      /\ Len(right) = Len(s) - k
      /\ \A i \in 1..(Len(s) - k) : right[i] = s[k + i]
  <2>1. \A i \in (k + 1)..Len(s) : s[i] \in S
    BY <1>1
  <2>2. /\ right \in Seq(S)
        /\ Len(right) = IF k + 1 <= Len(s) THEN Len(s) - (k + 1) + 1 ELSE 0
        /\ \A i \in 1..(Len(s) - (k + 1) + 1) : right[i] = s[(k + 1) + i - 1]
    BY <1>1, <2>1, SubSeqProperties
  <2> QED
    BY <1>1, <2>2
<1> HIDE DEF left, right
<1>4. /\ left \o right \in Seq(S)
      /\ Len(left \o right) = Len(left) + Len(right)
      /\ \A i \in 1..(Len(left) + Len(right)) : (left \o right)[i] =
           IF i <= Len(left) THEN left[i] ELSE right[i - Len(left)]
  BY <1>2, <1>3, ConcatProperties
<1>5. RemoveAt(s, k) = left \o right
  BY DEF RemoveAt, left, right
<1>6. ASSUME NEW i \in 1..(Len(s) - 1)
      PROVE  RemoveAt(s, k)[i] = IF i < k THEN s[i] ELSE s[i + 1]
  <2>1. CASE i < k
    BY <1>1, <1>2, <1>3, <1>4, <1>5, <2>1
  <2>2. CASE ~(i < k)
    <3>1. i - (k - 1) \in 1..(Len(s) - k)
      BY <1>1, <2>2
    <3>2. right[i - (k - 1)] = s[i + 1]
      BY <1>1, <1>3, <3>1
    <3> QED
      BY <1>1, <1>2, <1>3, <1>4, <1>5, <2>2, <3>2
  <2> QED
    BY <2>1, <2>2
<1>7. Len(left \o right) = Len(s) - 1
  BY <1>1, <1>2, <1>3, <1>4
<1> QED
  BY <1>4, <1>5, <1>6, <1>7

\* list::insert in front of the element at k.
LEMMA InsertAtProperties ==
  ASSUME NEW S, NEW s \in Seq(S), NEW k \in 1..Len(s), NEW e \in S
  PROVE  /\ InsertAt(s, k, e) \in Seq(S)
         /\ Len(InsertAt(s, k, e)) = Len(s) + 1
         /\ \A i \in 1..(Len(s) + 1) :
              InsertAt(s, k, e)[i] = IF i < k THEN s[i]
                                     ELSE IF i = k THEN e ELSE s[i - 1]
<1> DEFINE left  == SubSeq(s, 1, k - 1)
           right == SubSeq(s, k, Len(s))
           front == left \o <<e>>
<1>1. /\ Len(s) \in Nat
      /\ \A i \in 1..Len(s) : s[i] \in S
  BY LenProperties, ElementOfSeq
<1>2. /\ left \in Seq(S)
      /\ Len(left) = k - 1
      /\ \A i \in 1..(k - 1) : left[i] = s[i]
  <2>1. \A i \in 1..(k - 1) : s[i] \in S
    BY <1>1
  <2>2. /\ left \in Seq(S)
        /\ Len(left) = IF 1 <= k - 1 THEN (k - 1) - 1 + 1 ELSE 0
        /\ \A i \in 1..((k - 1) - 1 + 1) : left[i] = s[1 + i - 1]
    BY <1>1, <2>1, SubSeqProperties
  <2> QED
    BY <1>1, <2>2
<1>3. /\ right \in Seq(S)
      /\ Len(right) = Len(s) - k + 1
      /\ \A i \in 1..(Len(s) - k + 1) : right[i] = s[k + i - 1]
  <2>1. \A i \in k..Len(s) : s[i] \in S
    BY <1>1
  <2> QED
    BY <1>1, <2>1, SubSeqProperties
<1> HIDE DEF left, right
<1>4. <<e>> \in Seq(S) /\ Len(<<e>>) = 1 /\ <<e>>[1] = e
  OBVIOUS
<1>5. /\ front \in Seq(S)
      /\ Len(front) = k
      /\ \A i \in 1..k : front[i] = IF i < k THEN s[i] ELSE e
  <2>1. /\ front \in Seq(S)
        /\ Len(front) = Len(left) + 1
        /\ \A i \in 1..(Len(left) + 1) : front[i] =
             IF i <= Len(left) THEN left[i] ELSE <<e>>[i - Len(left)]
    BY <1>2, <1>4, ConcatProperties
  <2> HIDE DEF front
  <2> QED
    BY <1>1, <1>2, <1>4, <2>1
<1> HIDE DEF front
<1>6. /\ front \o right \in Seq(S)
      /\ Len(front \o right) = Len(front) + Len(right)
      /\ \A i \in 1..(Len(front) + Len(right)) : (front \o right)[i] =
           IF i <= Len(front) THEN front[i] ELSE right[i - Len(front)]
  BY <1>3, <1>5, ConcatProperties
<1>7. InsertAt(s, k, e) = front \o right
  BY DEF InsertAt, front, left, right
<1>8. ASSUME NEW i \in 1..(Len(s) + 1)
      PROVE  InsertAt(s, k, e)[i] = IF i < k THEN s[i]
                                    ELSE IF i = k THEN e ELSE s[i - 1]
  <2>1. CASE i <= k
    BY <1>1, <1>3, <1>5, <1>6, <1>7, <2>1
  <2>2. CASE ~(i <= k)
    <3>1. i - k \in 1..(Len(s) - k + 1)
      BY <1>1, <2>2
    <3>2. right[i - k] = s[i - 1]
      BY <1>1, <1>3, <3>1
    <3> QED
      BY <1>1, <1>3, <1>5, <1>6, <1>7, <2>2, <3>2
  <2> QED
    BY <2>1, <2>2
<1> QED
  BY <1>1, <1>3, <1>5, <1>6, <1>7, <1>8
-----------------------------------------------------------------------------
(* Lists without repetition, and a sum that runs along them *)

\* l enumerates the set D without repetition, at the positions 1 to n.
Enumerates(l, n, D) ==
  /\ \A j \in 1..n : l[j] \in D
  /\ \A x \in D : \E j \in 1..n : l[j] = x
  /\ \A i, j \in 1..n : l[i] = l[j] => i = j

\* Each element starts, at o, where the one before it ends, z further on.
Contiguous(l, n, o, z) ==
  \A j \in 1..n : j > 1 => o[l[j - 1]] + z[l[j - 1]] = o[l[j]]

\* Erasing one element of a list of distinct records forgets that one only.
LEMMA EraseEnumerates ==
  ASSUME NEW n \in Nat, NEW l, NEW m, NEW k \in 1..n, NEW D,
         Enumerates(l, n, D),
         \A j \in 1..(n - 1) : m[j] = IF j < k THEN l[j] ELSE l[j + 1]
  PROVE  Enumerates(m, n - 1, D \ {l[k]})
<1>1. ASSUME NEW j \in 1..(n - 1)
      PROVE  m[j] \in D \ {l[k]}
  <2>1. CASE j < k
    BY <2>1 DEF Enumerates
  <2>2. CASE ~(j < k)
    BY <2>2 DEF Enumerates
  <2> QED
    BY <2>1, <2>2
<1>2. ASSUME NEW x \in D \ {l[k]}
      PROVE  \E j \in 1..(n - 1) : m[j] = x
  <2>1. PICK t \in 1..n : l[t] = x
    BY DEF Enumerates
  <2>2. t # k
    BY <2>1
  <2>3. CASE t < k
    <3>1. t \in 1..(n - 1) /\ m[t] = x
      BY <2>1, <2>3
    <3> QED
      BY <3>1
  <2>4. CASE t > k
    <3>1. t - 1 \in 1..(n - 1) /\ ~(t - 1 < k) /\ (t - 1) + 1 = t
      BY <2>4
    <3>2. m[t - 1] = x
      BY <2>1, <3>1
    <3> QED
      BY <3>1, <3>2
  <2> QED
    BY <2>2, <2>3, <2>4
<1>3. ASSUME NEW i \in 1..(n - 1), NEW j \in 1..(n - 1), m[i] = m[j]
      PROVE  i = j
  <2> DEFINE a == IF i < k THEN i ELSE i + 1
             b == IF j < k THEN j ELSE j + 1
  <2>1. a \in 1..n /\ b \in 1..n /\ l[a] = l[b]
    BY <1>3
  <2>2. a = b
    BY <2>1 DEF Enumerates
  <2> QED
    BY <2>2
<1> QED
  BY <1>1, <1>2, <1>3 DEF Enumerates

\* Inserting a new element into a list of distinct records adds that one only.
LEMMA InsertEnumerates ==
  ASSUME NEW n \in Nat, NEW l, NEW m, NEW k \in 1..n, NEW D, NEW e, e \notin D,
         Enumerates(l, n, D),
         \A j \in 1..(n + 1) : m[j] = IF j < k THEN l[j]
                                      ELSE IF j = k THEN e ELSE l[j - 1]
  PROVE  Enumerates(m, n + 1, D \cup {e})
<1>1. ASSUME NEW j \in 1..(n + 1)
      PROVE  m[j] \in D \cup {e}
  BY DEF Enumerates
<1>2. ASSUME NEW x \in D \cup {e}
      PROVE  \E j \in 1..(n + 1) : m[j] = x
  <2>1. CASE x = e
    <3>1. k \in 1..(n + 1) /\ m[k] = x
      BY <2>1
    <3> QED
      BY <3>1
  <2>2. CASE x \in D
    <3>1. PICK t \in 1..n : l[t] = x
      BY <2>2 DEF Enumerates
    <3>2. CASE t < k
      <4>1. t \in 1..(n + 1) /\ m[t] = x
        BY <3>1, <3>2
      <4> QED
        BY <4>1
    <3>3. CASE ~(t < k)
      <4>1. t + 1 \in 1..(n + 1) /\ ~(t + 1 < k) /\ t + 1 # k /\ (t + 1) - 1 = t
        BY <3>3
      <4>2. m[t + 1] = x
        BY <3>1, <4>1
      <4> QED
        BY <4>1, <4>2
    <3> QED
      BY <3>2, <3>3
  <2> QED
    BY <2>1, <2>2
<1>3. ASSUME NEW i \in 1..(n + 1), NEW j \in 1..(n + 1), m[i] = m[j]
      PROVE  i = j
  <2>1. CASE m[i] = e
    <3>1. ASSUME NEW t \in 1..(n + 1), m[t] = e
          PROVE  t = k
      <4>1. CASE t < k
        BY <3>1, <4>1 DEF Enumerates
      <4>2. CASE t > k
        <5>1. t - 1 \in 1..n /\ m[t] = l[t - 1]
          BY <4>2
        <5> QED
          BY <3>1, <5>1 DEF Enumerates
      <4> QED
        BY <4>1, <4>2
    <3> QED
      BY <1>3, <2>1, <3>1
  <2>2. CASE m[i] # e
    <3> DEFINE a == IF i < k THEN i ELSE i - 1
               b == IF j < k THEN j ELSE j - 1
    <3>1. i # k /\ j # k
      BY <1>3, <2>2
    <3>2. a \in 1..n /\ b \in 1..n /\ l[a] = l[b]
      BY <1>3, <3>1
    <3>3. a = b
      BY <3>2 DEF Enumerates
    <3> QED
      BY <3>1, <3>3
  <2> QED
    BY <2>1, <2>2
<1> QED
  BY <1>1, <1>2, <1>3 DEF Enumerates

\* m is l after the element at i has been merged with the one right of it,
\* which is erased; o2 and z2 tell where the elements start and how long they
\* are after that.
MergesRight(l, n, D, o, z, i, m, o2, z2) ==
  /\ i \in 1..n
  /\ i + 1 \in 1..n
  /\ Enumerates(l, n, D)
  /\ Contiguous(l, n, o, z)
  /\ \A x \in D : o[x] \in Nat /\ z[x] \in Nat
  /\ \A j \in 1..(n - 1) : m[j] = IF j < i + 1 THEN l[j] ELSE l[j + 1]
  /\ \A x \in D : x # l[i] /\ x # l[i + 1] => o2[x] = o[x] /\ z2[x] = z[x]
  /\ o2[l[i]] = o[l[i]]
  /\ z2[l[i]] = z[l[i]] + z[l[i + 1]]

\* The merged list is contiguous.
LEMMA MergeRightContiguous ==
  ASSUME NEW n \in Nat, NEW l, NEW m, NEW D, NEW o, NEW z, NEW o2, NEW z2, NEW i,
         MergesRight(l, n, D, o, z, i, m, o2, z2)
  PROVE  Contiguous(m, n - 1, o2, z2)
<1> USE DEF MergesRight
<1> SUFFICES ASSUME NEW j \in 1..(n - 1), j > 1
             PROVE  o2[m[j - 1]] + z2[m[j - 1]] = o2[m[j]]
  BY DEF Contiguous
<1>1. \A t \in 1..n : t # i /\ t # i + 1 =>
        o2[l[t]] = o[l[t]] /\ z2[l[t]] = z[l[t]]
  BY DEF Enumerates
<1>2. \A t \in 1..n : o[l[t]] \in Nat /\ z[l[t]] \in Nat
  BY DEF Enumerates
<1>3. CASE j < i
  <2>1. m[j - 1] = l[j - 1] /\ m[j] = l[j] /\ j - 1 \in 1..n /\ j \in 1..n
    BY <1>3
  <2>2. o[l[j - 1]] + z[l[j - 1]] = o[l[j]]
    BY <2>1 DEF Contiguous
  <2> QED
    BY <1>1, <1>3, <2>1, <2>2
<1>4. CASE j = i
  <2>1. m[j - 1] = l[i - 1] /\ m[j] = l[i] /\ i - 1 \in 1..n
    BY <1>4
  <2>2. o[l[i - 1]] + z[l[i - 1]] = o[l[i]]
    BY <1>4 DEF Contiguous
  <2> QED
    BY <1>1, <2>1, <2>2
<1>5. CASE j = i + 1
  <2>1. m[j - 1] = l[i] /\ m[j] = l[i + 2] /\ i + 2 \in 1..n
    BY <1>5
  <2>2. o[l[i]] + z[l[i]] = o[l[i + 1]]
    BY DEF Contiguous
  <2>3. o[l[i + 1]] + z[l[i + 1]] = o[l[i + 2]]
    BY <2>1 DEF Contiguous
  <2> QED
    BY <1>1, <1>2, <2>1, <2>2, <2>3
<1>6. CASE j > i + 1
  <2>1. /\ m[j - 1] = l[j] /\ m[j] = l[j + 1]
        /\ j \in 1..n /\ j + 1 \in 1..n /\ j + 1 > 1 /\ (j + 1) - 1 = j
    BY <1>6
  <2>2. o[l[j]] + z[l[j]] = o[l[j + 1]]
    BY <2>1 DEF Contiguous
  <2> QED
    BY <1>1, <1>6, <2>1, <2>2
<1> QED
  BY <1>3, <1>4, <1>5, <1>6

\* The same for the one left of it, whose start the merged element takes.
MergesLeft(l, n, D, o, z, i, m, o2, z2) ==
  /\ i \in 1..n
  /\ i - 1 \in 1..n
  /\ Enumerates(l, n, D)
  /\ Contiguous(l, n, o, z)
  /\ \A x \in D : o[x] \in Nat /\ z[x] \in Nat
  /\ \A j \in 1..(n - 1) : m[j] = IF j < i - 1 THEN l[j] ELSE l[j + 1]
  /\ \A x \in D : x # l[i] /\ x # l[i - 1] => o2[x] = o[x] /\ z2[x] = z[x]
  /\ o2[l[i]] = o[l[i - 1]]
  /\ z2[l[i]] = z[l[i]] + z[l[i - 1]]

\* The merged list is contiguous.
LEMMA MergeLeftContiguous ==
  ASSUME NEW n \in Nat, NEW l, NEW m, NEW D, NEW o, NEW z, NEW o2, NEW z2, NEW i,
         MergesLeft(l, n, D, o, z, i, m, o2, z2)
  PROVE  Contiguous(m, n - 1, o2, z2)
<1> USE DEF MergesLeft
<1> SUFFICES ASSUME NEW j \in 1..(n - 1), j > 1
             PROVE  o2[m[j - 1]] + z2[m[j - 1]] = o2[m[j]]
  BY DEF Contiguous
<1>1. \A t \in 1..n : t # i /\ t # i - 1 =>
        o2[l[t]] = o[l[t]] /\ z2[l[t]] = z[l[t]]
  BY DEF Enumerates
<1>2. \A t \in 1..n : o[l[t]] \in Nat /\ z[l[t]] \in Nat
  BY DEF Enumerates
<1>3. CASE j < i - 1
  <2>1. m[j - 1] = l[j - 1] /\ m[j] = l[j] /\ j - 1 \in 1..n /\ j \in 1..n
    BY <1>3
  <2>2. o[l[j - 1]] + z[l[j - 1]] = o[l[j]]
    BY <2>1 DEF Contiguous
  <2> QED
    BY <1>1, <1>3, <2>1, <2>2
<1>4. CASE j = i - 1
  <2>1. /\ m[j - 1] = l[j - 1] /\ m[j] = l[i]
        /\ j - 1 \in 1..n /\ j \in 1..n /\ j - 1 # i /\ j - 1 # i - 1
    BY <1>4
  <2>2. o[l[j - 1]] + z[l[j - 1]] = o[l[j]]
    BY <2>1 DEF Contiguous
  <2> QED
    BY <1>1, <1>4, <2>1, <2>2
<1>5. CASE j = i
  <2>1. /\ m[j - 1] = l[i] /\ m[j] = l[i + 1]
        /\ i + 1 \in 1..n /\ i + 1 > 1 /\ (i + 1) - 1 = i /\ i > 1
    BY <1>5
  <2>2. o[l[i - 1]] + z[l[i - 1]] = o[l[i]]
    BY <2>1 DEF Contiguous
  <2>3. o[l[i]] + z[l[i]] = o[l[i + 1]]
    BY <2>1 DEF Contiguous
  <2> QED
    BY <1>1, <1>2, <2>1, <2>2, <2>3
<1>6. CASE j > i
  <2>1. /\ m[j - 1] = l[j] /\ m[j] = l[j + 1]
        /\ j \in 1..n /\ j + 1 \in 1..n /\ j + 1 > 1 /\ (j + 1) - 1 = j
    BY <1>6
  <2>2. o[l[j]] + z[l[j]] = o[l[j + 1]]
    BY <2>1 DEF Contiguous
  <2> QED
    BY <1>1, <1>6, <2>1, <2>2
<1> QED
  BY <1>3, <1>4, <1>5, <1>6

\* Splitting the element at k: the new one e in front of it takes its start
\* and the first c of its extent.
Splits(l, n, D, o, z, k, c, e, m, o2, z2) ==
  /\ k \in 1..n
  /\ c \in Nat
  /\ e \notin D
  /\ Enumerates(l, n, D)
  /\ Contiguous(l, n, o, z)
  /\ \A x \in D : o[x] \in Nat /\ z[x] \in Nat
  /\ \A j \in 1..(n + 1) : m[j] = IF j < k THEN l[j]
                                   ELSE IF j = k THEN e ELSE l[j - 1]
  /\ \A x \in D : x # l[k] => o2[x] = o[x] /\ z2[x] = z[x]
  /\ o2[e] = o[l[k]] /\ z2[e] = c
  /\ o2[l[k]] = o[l[k]] + c /\ z2[l[k]] = z[l[k]] - c

\* The list with both parts is contiguous.
LEMMA SplitContiguous ==
  ASSUME NEW n \in Nat, NEW l, NEW m, NEW D, NEW o, NEW z, NEW o2, NEW z2,
         NEW k, NEW e, NEW c, Splits(l, n, D, o, z, k, c, e, m, o2, z2)
  PROVE  Contiguous(m, n + 1, o2, z2)
<1> USE DEF Splits
<1> SUFFICES ASSUME NEW j \in 1..(n + 1), j > 1
             PROVE  o2[m[j - 1]] + z2[m[j - 1]] = o2[m[j]]
  BY DEF Contiguous
<1>1. \A t \in 1..n : t # k => o2[l[t]] = o[l[t]] /\ z2[l[t]] = z[l[t]]
  BY DEF Enumerates
<1>2. \A t \in 1..n : o[l[t]] \in Nat /\ z[l[t]] \in Nat
  BY DEF Enumerates
<1>3. CASE j < k
  <2>1. m[j - 1] = l[j - 1] /\ m[j] = l[j] /\ j - 1 \in 1..n /\ j \in 1..n
    BY <1>3
  <2>2. o[l[j - 1]] + z[l[j - 1]] = o[l[j]]
    BY <2>1 DEF Contiguous
  <2> QED
    BY <1>1, <1>3, <2>1, <2>2
<1>4. CASE j = k
  <2>1. m[j - 1] = l[k - 1] /\ m[j] = e /\ k - 1 \in 1..n /\ k > 1
    BY <1>4
  <2>2. o[l[k - 1]] + z[l[k - 1]] = o[l[k]]
    BY <2>1 DEF Contiguous
  <2> QED
    BY <1>1, <2>1, <2>2
<1>5. CASE j = k + 1
  <2>1. m[j - 1] = e /\ m[j] = l[k]
    BY <1>5
  <2> QED
    BY <2>1
<1>6. CASE j = k + 2
  <2>1. /\ m[j - 1] = l[k] /\ m[j] = l[k + 1]
        /\ k + 1 \in 1..n /\ k + 1 > 1 /\ (k + 1) - 1 = k
    BY <1>6
  <2>2. o[l[k]] + z[l[k]] = o[l[k + 1]]
    BY <2>1 DEF Contiguous
  <2> QED
    BY <1>1, <1>2, <2>1, <2>2
<1>7. CASE j > k + 2
  <2>1. /\ m[j - 1] = l[j - 2] /\ m[j] = l[j - 1]
        /\ j - 2 \in 1..n /\ j - 1 \in 1..n /\ j - 1 > 1 /\ (j - 1) - 1 = j - 2
    BY <1>7
  <2>2. o[l[j - 2]] + z[l[j - 2]] = o[l[j - 1]]
    BY <2>1 DEF Contiguous
  <2> QED
    BY <1>1, <1>7, <2>1, <2>2
<1> QED
  BY <1>3, <1>4, <1>5, <1>6, <1>7

-----------------------------------------------------------------------------
(* Free records among the others *)

\* No two neighbours of the list l of length n are in F, nor is its last one.
Spaced(l, n, F) ==
  /\ \A j \in 1..n : j > 1 => ~(l[j - 1] \in F /\ l[j] \in F)
  /\ n > 0 => l[n] \notin F

\* l without its k-th element, a member of F next to the i-th, which is none.
Unites(l, n, F, i, k, m, F2) ==
  /\ i \in 1..n /\ k \in 1..n
  /\ k = i - 1 \/ k = i + 1
  /\ Spaced(l, n, F)
  /\ l[i] \notin F
  /\ l[k] \in F
  /\ F2 \subseteq F
  /\ \A j \in 1..(n - 1) : m[j] = IF j < k THEN l[j] ELSE l[j + 1]

\* list::erase of a free neighbour: the survivor is not between free records
\* on the side the erased one was, and keeps its neighbour on the other.
LEMMA UniteSpaced ==
  ASSUME NEW n \in Nat, NEW l, NEW m, NEW F, NEW F2, NEW i, NEW k,
         Unites(l, n, F, i, k, m, F2)
  PROVE  /\ Spaced(m, n - 1, F2)
         /\ k = i - 1 => i - 1 \in 1..(n - 1) /\ m[i - 1] = l[i]
         /\ k = i + 1 => i \in 1..(n - 1) /\ m[i] = l[i]
         /\ k = i - 1 /\ i > 2 => m[i - 2] \notin F2
         /\ k = i + 1 /\ i < n - 1 => m[i + 1] \notin F2
         /\ k = i + 1 /\ i > 1 => m[i - 1] = l[i - 1]
<1> USE DEF Unites
<1>1. ASSUME NEW j \in 1..(n - 1), j > 1, m[j - 1] \in F2, m[j] \in F2
      PROVE  FALSE
  <2>1. m[j - 1] \in F /\ m[j] \in F
    BY <1>1
  <2>2. CASE j < k
    <3>1. m[j - 1] = l[j - 1] /\ m[j] = l[j] /\ j \in 1..n
      BY <1>1, <2>2
    <3> QED
      BY <1>1, <2>1, <3>1 DEF Spaced
  <2>3. CASE j = k
    <3>1. m[j - 1] = l[k - 1] /\ m[j] = l[k + 1]
      BY <1>1, <2>3
    <3> QED
      BY <2>1, <3>1
  <2>4. CASE j > k
    <3>1. m[j - 1] = l[j] /\ m[j] = l[j + 1] /\ j + 1 \in 1..n /\ (j + 1) - 1 = j
      BY <1>1, <2>4
    <3> QED
      BY <1>1, <2>1, <3>1 DEF Spaced
  <2> QED
    BY <2>2, <2>3, <2>4
<1>2. k < n
  BY DEF Spaced
<1>3. n - 1 > 0 => m[n - 1] \notin F2
  <2> SUFFICES ASSUME n - 1 > 0 PROVE m[n - 1] \notin F2
    OBVIOUS
  <2>1. m[n - 1] = l[n]
    BY <1>2
  <2> QED
    BY <2>1 DEF Spaced
<1>4. Spaced(m, n - 1, F2)
  BY <1>1, <1>3 DEF Spaced
<1>5. k = i - 1 /\ i > 2 => m[i - 2] \notin F2
  <2> SUFFICES ASSUME k = i - 1, i > 2 PROVE m[i - 2] \notin F2
    OBVIOUS
  <2>1. m[i - 2] = l[k - 1] /\ k > 1
    OBVIOUS
  <2> QED
    BY <2>1 DEF Spaced
<1>6. k = i + 1 /\ i < n - 1 => m[i + 1] \notin F2
  <2> SUFFICES ASSUME k = i + 1, i < n - 1 PROVE m[i + 1] \notin F2
    OBVIOUS
  <2>1. m[i + 1] = l[k + 1] /\ k + 1 \in 1..n /\ (k + 1) - 1 = k
    OBVIOUS
  <2> QED
    BY <2>1 DEF Spaced
<1> QED
  BY <1>2, <1>4, <1>5, <1>6
\* Taking a record out of the free ones cannot bring two together.
LEMMA SpacedSubset ==
  ASSUME NEW n \in Nat, NEW l, NEW F, NEW G, Spaced(l, n, F), G \subseteq F
  PROVE  Spaced(l, n, G)
  BY DEF Spaced

\* list::insert of an element that is not free, in front of another.
LEMMA InsertSpaced ==
  ASSUME NEW n \in Nat, NEW l, NEW F, NEW k \in 1..n, NEW e, NEW m, NEW G,
         Spaced(l, n, F), G \subseteq F, e \notin G,
         \A j \in 1..(n + 1) : m[j] = IF j < k THEN l[j]
                                      ELSE IF j = k THEN e ELSE l[j - 1]
  PROVE  Spaced(m, n + 1, G)
<1>1. ASSUME NEW j \in 1..(n + 1), j > 1, m[j - 1] \in G, m[j] \in G
      PROVE  FALSE
  <2>1. CASE j < k
    <3>1. m[j - 1] = l[j - 1] /\ m[j] = l[j] /\ j \in 1..n
      BY <1>1, <2>1
    <3> QED
      BY <1>1, <3>1 DEF Spaced
  <2>2. CASE j = k \/ j - 1 = k
    BY <1>1, <2>2
  <2>3. CASE j > k + 1
    <3>1. m[j - 1] = l[(j - 1) - 1] /\ m[j] = l[j - 1] /\ j - 1 \in 1..n /\ j - 1 > 1
      BY <1>1, <2>3
    <3> QED
      BY <1>1, <3>1 DEF Spaced
  <2> QED
    BY <2>1, <2>2, <2>3
<1>2. m[n + 1] = l[n]
  OBVIOUS
<1> QED
  BY <1>1, <1>2 DEF Spaced

\* list::push_back of e, of which no free element or only e itself is new.
LEMMA AppendSpaced ==
  ASSUME NEW n \in Nat, NEW l, NEW F, NEW e, NEW m, NEW G,
         Spaced(l, n, F), G \subseteq F, e \notin G,
         \A j \in 1..n : m[j] = l[j], m[n + 1] = e
  PROVE  Spaced(m, n + 1, G)
<1>1. ASSUME NEW j \in 1..(n + 1), j > 1, m[j - 1] \in G, m[j] \in G
      PROVE  FALSE
  <2>1. j \in 1..n /\ j - 1 \in 1..n
    BY <1>1
  <2> QED
    BY <1>1, <2>1 DEF Spaced
<1> QED
  BY <1>1 DEF Spaced

\* list::push_back of a free g and then of an e that is not.
LEMMA AppendTwoSpaced ==
  ASSUME NEW n \in Nat, NEW l, NEW F, NEW g, NEW e, NEW m, NEW G,
         Spaced(l, n, F), G \subseteq F \cup {g}, e \notin G,
         \A j \in 1..n : l[j] # g,
         \A j \in 1..n : m[j] = l[j], m[n + 1] = g, m[n + 2] = e
  PROVE  Spaced(m, n + 2, G)
<1>1. ASSUME NEW j \in 1..(n + 2), j > 1, m[j - 1] \in G, m[j] \in G
      PROVE  FALSE
  <2>1. j - 1 \in 1..(n + 1) /\ j # n + 2
    BY <1>1
  <2>2. CASE j = n + 1
    <3>1. j - 1 = n /\ n > 0 /\ m[n] = l[n] /\ l[n] # g
      BY <1>1, <2>2
    <3>2. l[n] \in F
      BY <1>1, <3>1
    <3> QED
      BY <3>1, <3>2 DEF Spaced
  <2>3. CASE j \in 1..n
    <3>1. j - 1 \in 1..n
      BY <1>1, <2>3
    <3>2. l[j - 1] \in F /\ l[j] \in F
      BY <1>1, <2>3, <3>1
    <3> QED
      BY <1>1, <2>3, <3>2 DEF Spaced
  <2> QED
    BY <2>1, <2>2, <2>3
<1> QED
  BY <1>1 DEF Spaced

\* list::push_back of a new record.
LEMMA AppendEnumerates ==
  ASSUME NEW n \in Nat, NEW l, NEW m, NEW D, NEW e, e \notin D,
         Enumerates(l, n, D), \A j \in 1..n : m[j] = l[j], m[n + 1] = e
  PROVE  Enumerates(m, n + 1, D \cup {e})
<1>1. ASSUME NEW j \in 1..(n + 1) PROVE m[j] \in D \cup {e}
  BY DEF Enumerates
<1>2. ASSUME NEW x \in D \cup {e} PROVE \E j \in 1..(n + 1) : m[j] = x
  <2>1. CASE x = e
    <3>1. n + 1 \in 1..(n + 1)
      OBVIOUS
    <3> QED
      BY <2>1, <3>1
  <2>2. CASE x \in D
    <3>1. PICK j \in 1..n : l[j] = x
      BY <2>2 DEF Enumerates
    <3>2. j \in 1..(n + 1) /\ m[j] = x
      BY <3>1
    <3> QED
      BY <3>2
  <2> QED
    BY <2>1, <2>2
<1>3. ASSUME NEW i \in 1..(n + 1), NEW j \in 1..(n + 1), m[i] = m[j] PROVE i = j
  <2>1. \A t \in 1..n : l[t] # e
    BY DEF Enumerates
  <2>2. CASE i = n + 1 \/ j = n + 1
    BY <1>3, <2>1, <2>2
  <2>3. CASE i \in 1..n /\ j \in 1..n
    BY <1>3, <2>3 DEF Enumerates
  <2> QED
    BY <2>2, <2>3
<1> QED
  BY <1>1, <1>2, <1>3 DEF Enumerates

\* m is l with one more element, which starts where the last one ends.
Extends(l, n, D, o, z, m, o2, z2) ==
  /\ Enumerates(l, n, D)
  /\ Contiguous(l, n, o, z)
  /\ \A j \in 1..n : m[j] = l[j]
  /\ \A x \in D : o2[x] = o[x] /\ z2[x] = z[x]
  /\ n > 0 => o[l[n]] + z[l[n]] = o2[m[n + 1]]

\* The extended list is contiguous.
LEMMA AppendContiguous ==
  ASSUME NEW n \in Nat, NEW l, NEW m, NEW D, NEW o, NEW z, NEW o2, NEW z2,
         Extends(l, n, D, o, z, m, o2, z2)
  PROVE  Contiguous(m, n + 1, o2, z2)
<1> USE DEF Extends
<1> SUFFICES ASSUME NEW j \in 1..(n + 1), j > 1
             PROVE  o2[m[j - 1]] + z2[m[j - 1]] = o2[m[j]]
  BY DEF Contiguous
<1>1. \A t \in 1..n : /\ l[t] \in D /\ o2[l[t]] = o[l[t]] /\ z2[l[t]] = z[l[t]]
  BY DEF Enumerates
<1>2. CASE j = n + 1
  <2>1. j - 1 = n /\ n \in 1..n /\ m[j - 1] = l[n]
    BY <1>2
  <2> QED
    BY <1>1, <1>2, <2>1
<1>3. CASE j \in 1..n
  <2>1. j - 1 \in 1..n /\ m[j - 1] = l[j - 1] /\ m[j] = l[j]
    BY <1>3
  <2>2. o[l[j - 1]] + z[l[j - 1]] = o[l[j]]
    BY <1>3 DEF Contiguous
  <2> QED
    BY <1>1, <1>3, <2>1, <2>2
<1> QED
  BY <1>2, <1>3
-----------------------------------------------------------------------------
(* Order along a list *)

\* A non-empty set of natural numbers has a least element: what the proofs by
\* induction on a position of a list rest on.
LEMMA LeastElement ==
  ASSUME NEW T, T \subseteq Nat, T # {}
  PROVE  \E m \in T : \A k \in T : m <= k
<1> DEFINE R == OpToRel(<, Nat)
<1>1. IsWellFoundedOn(R, Nat)
  BY NatLessThanWellFounded
<1> HIDE DEF R
<1>2. PICK m \in T : \A k \in T : <<k, m>> \notin R
  BY <1>1, WFMin
<1>3. ASSUME NEW k \in T PROVE m <= k
  <2>1. ~(k < m)
    BY <1>2 DEF R, OpToRel
  <2> QED
    BY <2>1
<1> QED
  BY <1>3

\* What is contiguous is ordered: an element ends no later than any element
\* behind it starts (the order of m_list that lower_bound by offset needs).
LEMMA ContiguousOrdered ==
  ASSUME NEW n \in Nat, NEW l, NEW o, NEW z, Contiguous(l, n, o, z),
         \A i \in 1..n : o[l[i]] \in Nat /\ z[l[i]] \in Nat
  PROVE  \A i, j \in 1..n : i < j => o[l[i]] + z[l[i]] <= o[l[j]]
<1> SUFFICES ASSUME NEW i \in 1..n
             PROVE  \A j \in 1..n : i < j => o[l[i]] + z[l[i]] <= o[l[j]]
  OBVIOUS
<1> DEFINE Bad == {j \in Nat : j \in 1..n /\ i < j /\ ~(o[l[i]] + z[l[i]] <= o[l[j]])}
<1>1. ASSUME Bad # {} PROVE FALSE
  <2>1. PICK j \in Bad : \A m \in Bad : j <= m
    <3>1. Bad \subseteq Nat
      OBVIOUS
    <3> QED
      BY <1>1, <3>1, LeastElement
  <2>2. j - 1 \notin Bad
    BY <2>1
  <2>3. j - 1 \in 1..n /\ j \in 1..n /\ j > 1
    BY <2>1
  <2>4. o[l[j - 1]] + z[l[j - 1]] = o[l[j]]
    BY <2>3 DEF Contiguous
  <2>5. CASE j - 1 = i
    BY <2>1, <2>4, <2>5
  <2>6. CASE j - 1 # i
    <3>1. i < j - 1
      BY <2>1, <2>6
    <3>2. o[l[i]] + z[l[i]] <= o[l[j - 1]]
      BY <2>2, <2>3, <3>1
    <3> QED
      BY <2>1, <2>3, <2>4, <3>2
  <2> QED
    BY <2>5, <2>6
<1> QED
  BY <1>1

-----------------------------------------------------------------------------
(* Predicates on an index *)

\* No record ends past the offset L.
Bounded(ix, L) == \A p \in DOMAIN ix.heap : End(ix.heap[p]) <= L

\* The list and the records it holds, whatever the multimaps say.
Shape(ix, L) == IsIndex(ix) /\ Listed(ix) /\ Tiled(ix) /\ Bounded(ix, L)

\* The record at p is in neither multimap, and every other one is filed once.
FiledBut(ix, p) ==
  /\ \A q \in DOMAIN ix.heap \ {p} :
       (AllocEntry(ix, q) \in ix.m_alloc) # (FreeEntry(ix, q) \in ix.m_free)
  /\ \A e \in ix.m_alloc : e[2] \in DOMAIN ix.heap \ {p} /\ e = AllocEntry(ix, e[2])
  /\ \A e \in ix.m_free  : e[2] \in DOMAIN ix.heap \ {p} /\ e = FreeEntry(ix, e[2])

\* What deallocate has established after removing p from m_alloc.
Limbo(ix, p, L) ==
  /\ Shape(ix, L)
  /\ p \in DOMAIN ix.heap
  /\ FiledBut(ix, p)
  /\ Coalesced(ix)

\* An index whose containers agree.
Sound(ix, L) == Shape(ix, L) /\ Filed(ix) /\ Coalesced(ix)

\* Where the records start, and how long they are.
Offsets(ix) == [p \in DOMAIN ix.heap |-> ix.heap[p].offset]
Sizes(ix)   == [p \in DOMAIN ix.heap |-> ix.heap[p].size]

\* ix is the record with these four fields.
Has(ix, l, a, f, h) ==
  ix \in [m_list : {l}, m_alloc : {a}, m_free : {f}, heap : {h}]

\* Four values of the types of the class's containers.
Containers(l, a, f, h) ==
  /\ l \in Seq(Ptr)
  /\ a \in SUBSET (Key \X Ptr)
  /\ f \in SUBSET (Nat \X Ptr)
  /\ DOMAIN h \subseteq Ptr
  /\ h \in [DOMAIN h -> Record]

-----------------------------------------------------------------------------
(* Reading the predicates *)

\* The fields of an index value: any other value with these four types is one
\* (the containers of class HeapIndex).
LEMMA IndexTypes ==
  ASSUME NEW ix, IsIndex(ix)
  PROVE  /\ ix.m_list \in Seq(Ptr)
         /\ Len(ix.m_list) \in Nat
         /\ DOMAIN ix.m_list = 1..Len(ix.m_list)
         /\ ix.m_alloc \subseteq Key \X Ptr
         /\ ix.m_free \subseteq Nat \X Ptr
         /\ DOMAIN ix.heap \subseteq Ptr
         /\ \A p \in DOMAIN ix.heap :
              /\ ix.heap[p] \in Record
              /\ ix.heap[p].offset \in Nat
              /\ ix.heap[p].key \in Key
              /\ ix.heap[p].size \in Nat
<1>1. /\ ix.m_list \in Seq(Ptr)
      /\ ix.m_alloc \subseteq Key \X Ptr
      /\ ix.m_free \subseteq Nat \X Ptr
      /\ DOMAIN ix.heap \subseteq Ptr
      /\ ix.heap \in [DOMAIN ix.heap -> Record]
  BY DEF IsIndex
<1>2. ASSUME NEW p \in DOMAIN ix.heap
      PROVE  /\ ix.heap[p] \in Record
             /\ ix.heap[p].offset \in Nat
             /\ ix.heap[p].key \in Key
             /\ ix.heap[p].size \in Nat
  BY <1>1 DEF Record
<1> QED
  BY <1>1, <1>2, LenProperties

\* Shape, by the positions of the list: the form the proofs below use.
LEMMA ShapeByPosition ==
  ASSUME NEW ix, NEW L, Shape(ix, L)
  PROVE  /\ Enumerates(ix.m_list, Len(ix.m_list), DOMAIN ix.heap)
         /\ Contiguous(ix.m_list, Len(ix.m_list), Offsets(ix), Sizes(ix))
         /\ \A p \in DOMAIN ix.heap :
              /\ Offsets(ix)[p] = ix.heap[p].offset /\ Sizes(ix)[p] = ix.heap[p].size
              /\ ix.heap[p].offset \in Nat /\ ix.heap[p].size \in Nat
              /\ ix.heap[p].size > 0
              /\ ix.heap[p].offset + ix.heap[p].size <= L
<1> DEFINE l == ix.m_list
           n == Len(l)
<1>1. l \in Seq(Ptr) /\ DOMAIN l = 1..n
  BY IndexTypes DEF Shape
<1>2. ToSet(l) = DOMAIN ix.heap
  BY DEF Shape, Listed
<1>3. \A p : p \in ToSet(l) <=> \E i \in 1..n : l[i] = p
  BY <1>1, ToSetProperties
<1>4. \A i, j \in 1..n : l[i] = l[j] => i = j
  BY <1>1 DEF Shape, Listed
<1>5. \A p \in DOMAIN ix.heap :
        ix.heap[p].offset \in Nat /\ ix.heap[p].size \in Nat
  BY IndexTypes DEF Shape
<1>6. \A p \in DOMAIN ix.heap : ix.heap[p].offset + ix.heap[p].size <= L
  BY DEF Shape, Bounded, End
<1>7. /\ \A i \in 1..n : ix.heap[l[i]].size > 0
      /\ \A i \in 1..n : i > 1 =>
           ix.heap[l[i - 1]].offset + ix.heap[l[i - 1]].size = ix.heap[l[i]].offset
  BY <1>1 DEF Shape, Tiled, SharesRightBoundary, End
<1>8. \A p \in DOMAIN ix.heap :
        Offsets(ix)[p] = ix.heap[p].offset /\ Sizes(ix)[p] = ix.heap[p].size
  BY DEF Offsets, Sizes
<1>9. \A i \in 1..n : l[i] \in DOMAIN ix.heap
  BY <1>2, <1>3
<1> HIDE DEF l, n
<1>10. n \in Nat
  BY IndexTypes DEF Shape, n, l
<1>11. Enumerates(l, n, DOMAIN ix.heap)
  BY <1>2, <1>3, <1>4, <1>9 DEF Enumerates
<1>12. Contiguous(l, n, Offsets(ix), Sizes(ix))
  <2> SUFFICES ASSUME NEW j \in 1..n, j > 1
               PROVE  Offsets(ix)[l[j - 1]] + Sizes(ix)[l[j - 1]] = Offsets(ix)[l[j]]
    BY DEF Contiguous
  <2>1. j - 1 \in 1..n
    BY <1>10
  <2> QED
    BY <1>7, <1>8, <1>9, <2>1
<1>13. \A p \in DOMAIN ix.heap : ix.heap[p].size > 0
  BY <1>7, <1>11 DEF Enumerates
<1> QED
  BY <1>5, <1>6, <1>8, <1>11, <1>12, <1>13 DEF l, n

\* And back.
LEMMA ShapeFromPositions ==
  ASSUME NEW ix, NEW L, IsIndex(ix), NEW n \in Nat, n = Len(ix.m_list),
         Enumerates(ix.m_list, n, DOMAIN ix.heap),
         Contiguous(ix.m_list, n, Offsets(ix), Sizes(ix)),
         \A p \in DOMAIN ix.heap :
           ix.heap[p].size > 0 /\ ix.heap[p].offset + ix.heap[p].size <= L
  PROVE  Shape(ix, L)
<1> DEFINE l == ix.m_list
<1>1. l \in Seq(Ptr) /\ DOMAIN l = 1..n
  BY IndexTypes
<1>2. \A p : p \in ToSet(l) <=> \E i \in 1..n : l[i] = p
  BY <1>1, ToSetProperties
<1>3. \A p \in DOMAIN ix.heap :
        Offsets(ix)[p] = ix.heap[p].offset /\ Sizes(ix)[p] = ix.heap[p].size
  BY DEF Offsets, Sizes
<1> HIDE DEF l
<1>4. Enumerates(l, n, DOMAIN ix.heap) /\ Contiguous(l, n, Offsets(ix), Sizes(ix))
  BY DEF l
<1>5. \A i \in 1..n : l[i] \in DOMAIN ix.heap
  BY <1>4 DEF Enumerates
<1>6. ToSet(l) = DOMAIN ix.heap
  <2>1. ASSUME NEW p \in ToSet(l) PROVE p \in DOMAIN ix.heap
    <3>1. PICK i \in 1..n : l[i] = p
      BY <1>2
    <3> QED
      BY <1>5, <3>1
  <2>2. ASSUME NEW p \in DOMAIN ix.heap PROVE p \in ToSet(l)
    BY <1>2, <1>4 DEF Enumerates
  <2> QED
    BY <2>1, <2>2
<1>7. \A i, j \in 1..n : l[i] = l[j] => i = j
  BY <1>4 DEF Enumerates
<1>8. Listed(ix)
  BY <1>1, <1>6, <1>7 DEF Listed, l
<1>9. \A i \in 1..n : ix.heap[l[i]].size > 0
  BY <1>5
<1>10. \A i \in 1..n : i > 1 =>
         ix.heap[l[i - 1]].offset + ix.heap[l[i - 1]].size = ix.heap[l[i]].offset
  <2> SUFFICES ASSUME NEW i \in 1..n, i > 1
               PROVE  ix.heap[l[i - 1]].offset + ix.heap[l[i - 1]].size
                        = ix.heap[l[i]].offset
    OBVIOUS
  <2>1. i - 1 \in 1..n
    OBVIOUS
  <2>2. Offsets(ix)[l[i - 1]] + Sizes(ix)[l[i - 1]] = Offsets(ix)[l[i]]
    BY <1>4 DEF Contiguous
  <2> QED
    BY <1>3, <1>5, <2>1, <2>2
<1>11. Tiled(ix)
  BY <1>1, <1>9, <1>10 DEF Tiled, SharesRightBoundary, End, l
<1>12. Bounded(ix, L)
  BY DEF Bounded, End
<1> QED
  BY <1>8, <1>11, <1>12 DEF Shape

\* The list is searched for a live record by its offset and it is found.
LEMMA PositionOfProperties ==
  ASSUME NEW ix, NEW L, Shape(ix, L), NEW p \in DOMAIN ix.heap
  PROVE  /\ PositionOf(ix, p) \in 1..Len(ix.m_list)
         /\ ix.m_list[PositionOf(ix, p)] = p
<1>1. \E i \in DOMAIN ix.m_list : ix.m_list[i] = p
  BY ShapeByPosition, IndexTypes DEF Shape, Enumerates
<1>2. /\ PositionOf(ix, p) \in DOMAIN ix.m_list
      /\ ix.m_list[PositionOf(ix, p)] = p
  BY <1>1 DEF PositionOf
<1> QED
  BY <1>2, IndexTypes DEF Shape

\* The last element of a list that is not empty is live.
LEMMA BackProperties ==
  ASSUME NEW ix, NEW L, Shape(ix, L), ix.m_list # <<>>
  PROVE  /\ Len(ix.m_list) \in Nat \ {0}
         /\ Back(ix) = ix.m_list[Len(ix.m_list)]
         /\ Back(ix) \in DOMAIN ix.heap
<1>1. ix.m_list \in Seq(Ptr) /\ Len(ix.m_list) \in Nat
  BY IndexTypes DEF Shape
<1>2. Len(ix.m_list) \in Nat \ {0}
  BY <1>1, EmptySeq
<1>3. Back(ix) = ix.m_list[Len(ix.m_list)]
  BY DEF Back, Last
<1> QED
  BY <1>2, <1>3, ShapeByPosition DEF Enumerates

\* Records at different places start at different offsets, so that what the
\* code compares by value (heap_index.cpp: isLast, isFree, the searches of
\* deallocate and coalesce) is the same record.
LEMMA RecordsDiffer ==
  ASSUME NEW ix, NEW L, Shape(ix, L), NEW p \in DOMAIN ix.heap,
         NEW q \in DOMAIN ix.heap, ix.heap[p].offset = ix.heap[q].offset
  PROVE  p = q
<1> DEFINE l == ix.m_list
           n == Len(l)
           o == Offsets(ix)
           z == Sizes(ix)
<1>1. /\ Enumerates(l, n, DOMAIN ix.heap) /\ Contiguous(l, n, o, z)
      /\ \A x \in DOMAIN ix.heap : /\ o[x] = ix.heap[x].offset
                                   /\ z[x] = ix.heap[x].size
                                   /\ o[x] \in Nat /\ z[x] \in Nat /\ z[x] > 0
  BY ShapeByPosition
<1>2. n \in Nat
  BY IndexTypes DEF Shape
<1> HIDE DEF l, n, o, z
<1>3. \A k \in 1..n : l[k] \in DOMAIN ix.heap
  BY <1>1 DEF Enumerates
<1>4. PICK i \in 1..n : l[i] = p
  BY <1>1 DEF Enumerates
<1>5. PICK j \in 1..n : l[j] = q
  BY <1>1 DEF Enumerates
<1>6. \A a, b \in 1..n : a < b => o[l[a]] + z[l[a]] <= o[l[b]]
  BY <1>1, <1>2, <1>3, ContiguousOrdered
<1>7. o[p] = o[q] /\ o[p] \in Nat /\ z[p] \in Nat /\ z[p] > 0 /\ z[q] \in Nat /\ z[q] > 0
  BY <1>1
<1>8. ~(i < j)
  BY <1>4, <1>5, <1>6, <1>7
<1>9. ~(j < i)
  BY <1>4, <1>5, <1>6, <1>7
<1> QED
  BY <1>4, <1>5, <1>8, <1>9

LEMMA LastByAddress ==
  ASSUME NEW ix, NEW L, Shape(ix, L), NEW p \in DOMAIN ix.heap
  PROVE  ix.m_list # <<>> /\ (IsLast(ix, p) <=> Back(ix) = p)
<1>1. ix.m_list # <<>>
  <2>1. PositionOf(ix, p) \in 1..Len(ix.m_list)
    BY PositionOfProperties
  <2> QED
    BY <2>1
<1>2. Back(ix) \in DOMAIN ix.heap
  BY <1>1, BackProperties
<1>3. ix.heap[p] = LastRecord(ix) => Back(ix) = p
  BY <1>2, RecordsDiffer DEF LastRecord
<1> QED
  BY <1>1, <1>3 DEF IsLast, LastRecord

LEMMA FirstByAddress ==
  ASSUME NEW ix, NEW L, Shape(ix, L), NEW p \in DOMAIN ix.heap
  PROVE  FirstEqual(ix, p) = p
<1> DEFINE l == ix.m_list
           equal == {i \in DOMAIN l : ix.heap[l[i]] = ix.heap[p]}
           k == PositionOf(ix, p)
<1>1. /\ l \in Seq(Ptr) /\ DOMAIN l = 1..Len(l) /\ Len(l) \in Nat
  BY IndexTypes DEF Shape
<1>2. k \in 1..Len(l) /\ l[k] = p
  BY PositionOfProperties
<1>3. /\ \A i \in 1..Len(l) : l[i] \in DOMAIN ix.heap
      /\ \A i, j \in 1..Len(l) : l[i] = l[j] => i = j
  BY ShapeByPosition DEF Enumerates
<1>4. equal = {k}
  <2>1. ASSUME NEW i \in equal PROVE i = k
    <3>1. l[i] = p
      BY <1>1, <1>3, RecordsDiffer
    <3> QED
      BY <1>1, <1>2, <1>3, <3>1
  <2> QED
    BY <1>1, <1>2, <2>1
<1> HIDE DEF k
<1>5. FirstEqual(ix, p) = l[CHOOSE i \in equal : \A j \in equal : i <= j]
  BY DEF FirstEqual
<1> HIDE DEF equal
<1>6. (CHOOSE i \in equal : \A j \in equal : i <= j) = k
  BY <1>1, <1>2, <1>4
<1> QED
  BY <1>2, <1>5, <1>6

LEMMA FreeByAddress ==
  ASSUME NEW ix, NEW L, Shape(ix, L), NEW p \in DOMAIN ix.heap,
         \A e \in ix.m_free : e[2] \in DOMAIN ix.heap /\ e = FreeEntry(ix, e[2])
  PROVE  IsFree(ix, p) <=> FiledFree(ix, p)
<1>1. ASSUME NEW e \in ix.m_free, ix.heap[e[2]] = ix.heap[p]
      PROVE  FreeEntry(ix, p) \in ix.m_free
  <2>1. e[2] = p
    BY <1>1, RecordsDiffer
  <2> QED
    BY <1>1, <2>1
<1>2. FreeEntry(ix, p)[1] = ix.heap[p].size /\ FreeEntry(ix, p)[2] = p
  BY DEF FreeEntry
<1> QED
  BY <1>1, <1>2 DEF IsFree, FiledFree

-----------------------------------------------------------------------------
(* Merging two records *)

\* Record::coalesce of adjacent records under a bound below 2^32 is their
\* union: the sum of the sizes does not wrap.
LEMMA CoalesceProperties ==
  ASSUME NEW L \in Nat, L < U32, NEW r \in Record, NEW s \in Record,
         End(r) <= L, End(s) <= L,
         End(r) = s.offset \/ End(s) = r.offset
  PROVE  /\ Coalesce(r, s) \in Record
         /\ Coalesce(r, s).offset = IF End(r) = s.offset THEN r.offset ELSE s.offset
         /\ Coalesce(r, s).key = r.key
         /\ Coalesce(r, s).size = r.size + s.size
         /\ End(Coalesce(r, s)) = IF End(r) = s.offset THEN End(s) ELSE End(r)
<1> DEFINE low == IF s.offset < r.offset THEN s.offset ELSE r.offset
<1>1. /\ r.offset \in Nat /\ r.size \in Nat /\ r.key \in Key
      /\ s.offset \in Nat /\ s.size \in Nat
      /\ U32 \in Nat \ {0}
  BY IndexAssumption DEF Record
<1>2. r.size + s.size <= L
  BY <1>1 DEF End
<1>3. (r.size + s.size) % U32 = r.size + s.size
  BY <1>1, <1>2
<1>4. /\ Coalesce(r, s) \in Record
      /\ Coalesce(r, s).offset = low
      /\ Coalesce(r, s).key = r.key
      /\ Coalesce(r, s).size = r.size + s.size
  <2> DEFINE sum == (r.size + s.size) % U32
             c   == [r EXCEPT !.offset = low, !.size = sum]
  <2>1. Coalesce(r, s) = c
    BY DEF Coalesce
  <2>2. low \in Nat /\ sum \in Nat
    BY <1>1, <1>3
  <2> HIDE DEF sum, low
  <2>3. c \in Record
    BY <2>2 DEF Record
  <2>4. c.offset = low /\ c.key = r.key /\ c.size = sum
    BY DEF Record
  <2> QED
    BY <1>3, <2>1, <2>3, <2>4 DEF sum
<1>5. low = IF End(r) = s.offset THEN r.offset ELSE s.offset
  BY <1>1 DEF End
<1> QED
  BY <1>1, <1>4, <1>5 DEF End

\* Four containers of the right types are an index (class HeapIndex).
LEMMA IndexFromFields ==
  ASSUME NEW ix, NEW l, NEW a, NEW f, NEW h,
         Containers(l, a, f, h), Has(ix, l, a, f, h)
  PROVE  /\ IsIndex(ix)
         /\ ix.m_list = l /\ ix.m_alloc = a /\ ix.m_free = f /\ ix.heap = h
<1>1. ix.m_list = l /\ ix.m_alloc = a /\ ix.m_free = f /\ ix.heap = h
  BY DEF Has
<1>2. ix \in [m_list : Seq(Ptr), m_alloc : SUBSET (Key \X Ptr),
             m_free : SUBSET (Nat \X Ptr), heap : {ix.heap}]
  BY <1>1 DEF Has, Containers
<1> QED
  BY <1>1, <1>2 DEF IsIndex, Containers

\* Absorb when the neighbour is free, field by field.
LEMMA AbsorbFields ==
  ASSUME NEW ix, IsIndex(ix), NEW p \in DOMAIN ix.heap, NEW k \in 1..Len(ix.m_list),
         ix.m_list[k] \in DOMAIN ix.heap, p # ix.m_list[k],
         FreeEntry(ix, ix.m_list[k]) \in ix.m_free,
         NEW h, h = [x \in DOMAIN ix.heap \ {ix.m_list[k]} |->
                       IF x = p THEN Coalesce(ix.heap[p], ix.heap[ix.m_list[k]])
                       ELSE ix.heap[x]]
  PROVE  Has(Absorb(ix, p, k), RemoveAt(ix.m_list, k), ix.m_alloc,
             ix.m_free \ {FreeEntry(ix, ix.m_list[k])}, h)
<1> DEFINE l == RemoveAt(ix.m_list, k)
           f == ix.m_free \ {FreeEntry(ix, ix.m_list[k])}
<1>1. Absorb(ix, p, k) = [ix EXCEPT !.m_list = l, !.m_free = f, !.heap = h]
  BY DEF Absorb
<1> HIDE DEF l, f
<1>2. [ix EXCEPT !.m_list = l, !.m_free = f, !.heap = h]
        \in [m_list : {l}, m_alloc : {ix.m_alloc}, m_free : {f}, heap : {h}]
  BY DEF IsIndex
<1> QED
  BY <1>1, <1>2 DEF Has, l, f

\* iy is ix, whose list has length n, after the record p at the i-th position
\* has swallowed its neighbour q at the k-th, a free record.
Absorbs(ix, L, n, i, k, p, q, iy) ==
  /\ Shape(ix, L)
  /\ n = Len(ix.m_list)
  /\ i \in 1..n /\ k \in 1..n
  /\ k = i - 1 \/ k = i + 1
  /\ p = ix.m_list[i] /\ q = ix.m_list[k]
  /\ FreeEntry(ix, q) \in ix.m_free
  /\ iy = Absorb(ix, p, k)

\* And this is what has changed.
Absorbed(ix, L, n, i, k, p, q, iy) ==
  /\ Shape(iy, L)
  /\ iy.m_list \in Seq(Ptr)
  /\ Len(iy.m_list) = n - 1
  /\ \A j \in 1..(n - 1) :
       iy.m_list[j] = IF j < k THEN ix.m_list[j] ELSE ix.m_list[j + 1]
  /\ iy.m_alloc = ix.m_alloc
  /\ iy.m_free = ix.m_free \ {FreeEntry(ix, q)}
  /\ p # q /\ p \in DOMAIN ix.heap /\ q \in DOMAIN ix.heap
  /\ DOMAIN iy.heap = DOMAIN ix.heap \ {q}
  /\ \A x \in DOMAIN iy.heap : x # p => iy.heap[x] = ix.heap[x]
  /\ iy.heap[p].key = ix.heap[p].key
  /\ k = i + 1 => iy.heap[p].offset = ix.heap[p].offset
  /\ k = i - 1 => iy.heap[p].offset = ix.heap[q].offset

\* Merging p with the free record next to it leaves a tiling: the list stays
\* ordered and gapless and no record is lost (HeapIndex::coalesce).
LEMMA AbsorbShape ==
  ASSUME NEW ix, NEW L \in Nat, L < U32, NEW n, NEW i, NEW k, NEW p, NEW q, NEW iy,
         Absorbs(ix, L, n, i, k, p, q, iy)
  PROVE  Absorbed(ix, L, n, i, k, p, q, iy)
<1> /\ Shape(ix, L)
    /\ n = Len(ix.m_list)
    /\ i \in 1..n /\ k \in 1..n
    /\ k = i - 1 \/ k = i + 1
    /\ p = ix.m_list[i] /\ q = ix.m_list[k]
    /\ FreeEntry(ix, q) \in ix.m_free
    /\ iy = Absorb(ix, p, k)
  BY DEF Absorbs
<1> DEFINE l == ix.m_list
           m == RemoveAt(l, k)
           r == ix.heap[p]
           s == ix.heap[q]
           c == Coalesce(r, s)
           D == DOMAIN ix.heap \ {q}
           h == [x \in D |-> IF x = p THEN c ELSE ix.heap[x]]
           f == ix.m_free \ {FreeEntry(ix, q)}
           o == Offsets(ix)
           z == Sizes(ix)
<1>1. IsIndex(ix)
  BY DEF Shape
<1>2. /\ l \in Seq(Ptr) /\ n \in Nat
      /\ ix.m_alloc \in SUBSET (Key \X Ptr)
      /\ f \in SUBSET (Nat \X Ptr)
      /\ D \in SUBSET Ptr
      /\ \A x \in DOMAIN ix.heap : ix.heap[x] \in Record
  BY <1>1, IndexTypes
<1>3. /\ Enumerates(l, n, DOMAIN ix.heap)
      /\ Contiguous(l, n, o, z)
      /\ \A x \in DOMAIN ix.heap :
           /\ o[x] = ix.heap[x].offset /\ z[x] = ix.heap[x].size
           /\ ix.heap[x].offset \in Nat /\ ix.heap[x].size \in Nat
           /\ ix.heap[x].size > 0
           /\ ix.heap[x].offset + ix.heap[x].size <= L
  BY ShapeByPosition
<1>4. /\ m \in Seq(Ptr)
      /\ Len(m) = n - 1
      /\ \A j \in 1..(n - 1) : m[j] = IF j < k THEN l[j] ELSE l[j + 1]
  BY <1>2, RemoveAtProperties
<1> HIDE DEF l, m, o, z
<1>5. p = l[i] /\ q = l[k]
  BY DEF l
<1>6. p \in DOMAIN ix.heap /\ q \in DOMAIN ix.heap /\ p # q
  BY <1>2, <1>3, <1>5 DEF Enumerates
<1>7. /\ r \in Record /\ s \in Record /\ End(r) <= L /\ End(s) <= L
      /\ r.offset \in Nat /\ r.size \in Nat /\ r.size > 0
      /\ s.offset \in Nat /\ s.size \in Nat /\ s.size > 0
      /\ o[p] = r.offset /\ z[p] = r.size /\ o[q] = s.offset /\ z[q] = s.size
  BY <1>2, <1>3, <1>6 DEF End
<1> HIDE DEF r, s
<1>8. /\ k = i + 1 => End(r) = s.offset
      /\ k = i - 1 => End(s) = r.offset
  <2>1. CASE k = i + 1
    <3>1. o[l[k - 1]] + z[l[k - 1]] = o[l[k]] /\ k - 1 = i
      BY <1>2, <1>3, <2>1 DEF Contiguous
    <3> QED
      BY <1>5, <1>7, <2>1, <3>1 DEF End
  <2>2. CASE k = i - 1
    <3>1. o[l[i - 1]] + z[l[i - 1]] = o[l[i]]
      BY <1>2, <1>3, <2>2 DEF Contiguous
    <3> QED
      BY <1>5, <1>7, <2>2, <3>1 DEF End
  <2> QED
    BY <2>1, <2>2
<1>9. /\ c \in Record
      /\ c.key = r.key
      /\ c.size = r.size + s.size
      /\ k = i + 1 => c.offset = r.offset
      /\ k = i - 1 => c.offset = s.offset
      /\ End(c) <= L
  <2>1. /\ c \in Record
        /\ c.offset = IF End(r) = s.offset THEN r.offset ELSE s.offset
        /\ c.key = r.key
        /\ c.size = r.size + s.size
        /\ End(c) = IF End(r) = s.offset THEN End(s) ELSE End(r)
    BY <1>7, <1>8, CoalesceProperties
  <2>2. k = i - 1 => End(r) # s.offset
    BY <1>7, <1>8 DEF End
  <2> HIDE DEF c
  <2> QED
    BY <1>7, <1>8, <2>1, <2>2
<1>10. Has(iy, m, ix.m_alloc, f, h)
  BY <1>1, <1>5, <1>6, AbsorbFields DEF r, s, l, m
<1> HIDE DEF c
<1>11. h \in [D -> Record]
  BY <1>2, <1>9
<1>12. /\ h[p] = c
       /\ \A x \in D : x # p => h[x] = ix.heap[x]
       /\ p \in D
  BY <1>6
<1> DEFINE a == ix.m_alloc
<1>22. a \in SUBSET (Key \X Ptr) /\ f \in SUBSET (Nat \X Ptr) /\ D \in SUBSET Ptr
  BY <1>2
<1>23. D = DOMAIN ix.heap \ {l[k]} /\ D \subseteq DOMAIN ix.heap
  BY <1>5
<1>24. Has(iy, m, a, f, h)
  BY <1>10
<1>25. DOMAIN h = D /\ DOMAIN h \subseteq Ptr /\ h \in [DOMAIN h -> Record]
  BY <1>11, <1>22
<1>26. Containers(m, a, f, h)
  BY <1>4, <1>22, <1>25 DEF Containers
<1> HIDE DEF f, h, D, a
<1>13. /\ IsIndex(iy)
       /\ iy.m_list = m /\ iy.m_alloc = a /\ iy.m_free = f /\ iy.heap = h
       /\ DOMAIN iy.heap = D
  BY <1>24, <1>25, <1>26, IndexFromFields
<1> DEFINE o2 == Offsets(iy)
           z2 == Sizes(iy)
<1>14. \A x \in D : o2[x] = h[x].offset /\ z2[x] = h[x].size
  BY <1>13 DEF Offsets, Sizes
<1> HIDE DEF o2, z2
<1>15. /\ \A x \in D : x # p => o2[x] = o[x] /\ z2[x] = z[x]
       /\ o2[p] = c.offset /\ z2[p] = z[p] + z[q]
  <2>1. ASSUME NEW x \in D, x # p PROVE o2[x] = o[x] /\ z2[x] = z[x]
    <3>1. o2[x] = h[x].offset /\ z2[x] = h[x].size
      BY <1>14
    <3>2. h[x] = ix.heap[x] /\ x \in DOMAIN ix.heap
      BY <1>12, <1>23, <2>1
    <3>3. o[x] = ix.heap[x].offset /\ z[x] = ix.heap[x].size
      BY <1>3, <3>2
    <3> QED
      BY <3>1, <3>2, <3>3
  <2>2. o2[p] = c.offset /\ z2[p] = c.size
    BY <1>12, <1>14
  <2> QED
    BY <1>7, <1>9, <2>1, <2>2
<1>16. Enumerates(m, n - 1, D)
  BY <1>2, <1>3, <1>4, <1>23, EraseEnumerates
<1>17. Contiguous(m, n - 1, o2, z2)
  <2>1. \A x \in DOMAIN ix.heap : o[x] \in Nat /\ z[x] \in Nat
    BY <1>3
  <2>2. \A x \in DOMAIN ix.heap : x # l[i] /\ x # l[k] => o2[x] = o[x] /\ z2[x] = z[x]
    BY <1>5, <1>15 DEF D
  <2>3. CASE k = i + 1
    <3>1. /\ o2[l[i]] = o[l[i]]
          /\ z2[l[i]] = z[l[i]] + z[l[i + 1]]
          /\ i + 1 \in 1..n
          /\ \A j \in 1..(n - 1) : m[j] = IF j < i + 1 THEN l[j] ELSE l[j + 1]
      BY <1>4, <1>5, <1>7, <1>9, <1>15, <2>3
    <3>2. \A x \in DOMAIN ix.heap :
            x # l[i] /\ x # l[i + 1] => o2[x] = o[x] /\ z2[x] = z[x]
      BY <2>2, <2>3
    <3>3. MergesRight(l, n, DOMAIN ix.heap, o, z, i, m, o2, z2)
      BY <1>3, <2>1, <3>1, <3>2 DEF MergesRight
    <3> QED
      BY <1>2, <3>3, MergeRightContiguous
  <2>4. CASE k = i - 1
    <3>1. /\ o2[l[i]] = o[l[i - 1]]
          /\ z2[l[i]] = z[l[i]] + z[l[i - 1]]
          /\ i - 1 \in 1..n
          /\ \A j \in 1..(n - 1) : m[j] = IF j < i - 1 THEN l[j] ELSE l[j + 1]
      BY <1>4, <1>5, <1>7, <1>9, <1>15, <2>4
    <3>2. \A x \in DOMAIN ix.heap :
            x # l[i] /\ x # l[i - 1] => o2[x] = o[x] /\ z2[x] = z[x]
      BY <2>2, <2>4
    <3>3. MergesLeft(l, n, DOMAIN ix.heap, o, z, i, m, o2, z2)
      BY <1>3, <2>1, <3>1, <3>2 DEF MergesLeft
    <3> QED
      BY <1>2, <3>3, MergeLeftContiguous
  <2> QED
    BY <2>3, <2>4
<1>18. \A x \in DOMAIN iy.heap :
         iy.heap[x].size > 0 /\ iy.heap[x].offset + iy.heap[x].size <= L
  <2> SUFFICES ASSUME NEW x \in D
               PROVE  h[x].size > 0 /\ h[x].offset + h[x].size <= L
    BY <1>13
  <2>1. CASE x = p
    <3>1. c.size = r.size + s.size /\ c.size > 0
      BY <1>7, <1>9
    <3>2. c.offset + c.size <= L
      BY <1>9 DEF End
    <3> QED
      BY <1>12, <2>1, <3>1, <3>2
  <2>2. CASE x # p
    BY <1>3, <1>12, <2>2 DEF D
  <2> QED
    BY <2>1, <2>2
<1>19. Shape(iy, L)
  <2>1. n - 1 \in Nat /\ n - 1 = Len(iy.m_list)
    BY <1>2, <1>4, <1>13
  <2> QED
    BY <1>13, <1>16, <1>17, <1>18, <2>1, ShapeFromPositions DEF o2, z2
<1>20. /\ \A x \in DOMAIN iy.heap : x # p => iy.heap[x] = ix.heap[x]
       /\ iy.heap[p].key = ix.heap[p].key
       /\ k = i + 1 => iy.heap[p].offset = ix.heap[p].offset
       /\ k = i - 1 => iy.heap[p].offset = ix.heap[q].offset
  BY <1>9, <1>12, <1>13 DEF r, s
<1>21. \A j \in 1..(n - 1) :
         iy.m_list[j] = IF j < k THEN ix.m_list[j] ELSE ix.m_list[j + 1]
  BY <1>4, <1>13 DEF l
<1> QED
  BY <1>4, <1>6, <1>13, <1>19, <1>20, <1>21 DEF Absorbed, D, f, a
-----------------------------------------------------------------------------
(* deallocate: from allocated, through limbo, to free or gone *)

\* The records that are filed as free.
FreeSet(ix) == {p \in DOMAIN ix.heap : FiledFree(ix, p)}

\* The record next to p on that side, if there is one, is not free.
LeftClear(ix, p) ==
  \A j \in 1..Len(ix.m_list) :
    ix.m_list[j] = p /\ j > 1 => ix.m_list[j - 1] \notin FreeSet(ix)
RightClear(ix, p) ==
  \A j \in 1..Len(ix.m_list) :
    ix.m_list[j] = p /\ j < Len(ix.m_list) => ix.m_list[j + 1] \notin FreeSet(ix)

\* Coalesced, by the positions of the list.
LEMMA CoalescedByPosition ==
  ASSUME NEW ix, NEW L, Shape(ix, L)
  PROVE  Coalesced(ix) <=> Spaced(ix.m_list, Len(ix.m_list), FreeSet(ix))
<1> DEFINE l == ix.m_list
           n == Len(l)
           F == FreeSet(ix)
<1>1. l \in Seq(Ptr) /\ DOMAIN l = 1..n /\ n \in Nat
  BY IndexTypes DEF Shape
<1>2. \A j \in 1..n : l[j] \in DOMAIN ix.heap
  BY ShapeByPosition DEF Enumerates
<1>3. \A j \in 1..n : FiledFree(ix, l[j]) <=> l[j] \in F
  BY <1>2 DEF FreeSet
<1>4. \A j \in 1..n : j > 1 => j - 1 \in 1..n
  BY <1>1
<1>5. /\ l # <<>> <=> n > 0
      /\ l # <<>> => Back(ix) = l[n]
  BY <1>1, EmptySeq DEF Back, Last
<1>6. Coalesced(ix) <=>
        /\ \A j \in 1..n : j > 1 => ~(FiledFree(ix, l[j - 1]) /\ FiledFree(ix, l[j]))
        /\ n > 0 => ~FiledFree(ix, l[n])
  BY <1>1, <1>5 DEF Coalesced
<1> HIDE DEF l, n, F
<1>7. n > 0 => n \in 1..n
  BY <1>1
<1>8. Spaced(l, n, F) <=>
        /\ \A j \in 1..n : j > 1 => ~(FiledFree(ix, l[j - 1]) /\ FiledFree(ix, l[j]))
        /\ n > 0 => ~FiledFree(ix, l[n])
  BY <1>3, <1>4, <1>7 DEF Spaced
<1> QED
  BY <1>6, <1>8 DEF l, n, F

\* One side of HeapIndex::coalesce, when it finds a free neighbour: that one
\* leaves the list, the multimap and the heap together, and the record being
\* freed is not next to a free record on that side any more.
LEMMA AbsorbLimbo ==
  ASSUME NEW ix, NEW L \in Nat, L < U32, NEW p, Limbo(ix, p, L),
         NEW n, n = Len(ix.m_list), NEW i \in 1..n, NEW k \in 1..n,
         k = i - 1 \/ k = i + 1, p = ix.m_list[i], FiledFree(ix, ix.m_list[k]),
         NEW iy, iy = Absorb(ix, p, k)
  PROVE  /\ Limbo(iy, p, L)
         /\ k = i - 1 => LeftClear(iy, p)
         /\ k = i + 1 => RightClear(iy, p)
         /\ k = i + 1 /\ LeftClear(ix, p) => LeftClear(iy, p)
<1> DEFINE l == ix.m_list
           m == iy.m_list
           q == l[k]
           F == FreeSet(ix)
           G == FreeSet(iy)
           D == DOMAIN ix.heap
<1>1. /\ Shape(ix, L) /\ p \in D /\ FiledBut(ix, p) /\ Coalesced(ix)
  BY DEF Limbo
<1>2. /\ Shape(iy, L)
      /\ m \in Seq(Ptr)
      /\ Len(m) = n - 1
      /\ \A j \in 1..(n - 1) : m[j] = IF j < k THEN l[j] ELSE l[j + 1]
      /\ iy.m_alloc = ix.m_alloc
      /\ iy.m_free = ix.m_free \ {FreeEntry(ix, q)}
      /\ p # q /\ q \in D
      /\ DOMAIN iy.heap = D \ {q}
      /\ \A x \in DOMAIN iy.heap : x # p => iy.heap[x] = ix.heap[x]
  <2>1. Absorbs(ix, L, n, i, k, p, ix.m_list[k], iy)
    BY <1>1 DEF Absorbs, FiledFree
  <2>2. Absorbed(ix, L, n, i, k, p, ix.m_list[k], iy)
    BY <2>1, AbsorbShape
  <2> QED
    BY <2>2 DEF Absorbed
<1>3. n \in Nat
  BY <1>1, IndexTypes DEF Shape
<1>4. p \notin F /\ q \in F
  BY <1>1, <1>2 DEF FreeSet, FiledFree, FiledBut, FreeEntry
<1>5. \A x \in D : x # p /\ x # q =>
        FreeEntry(iy, x) = FreeEntry(ix, x) /\ AllocEntry(iy, x) = AllocEntry(ix, x)
  BY <1>2 DEF FreeEntry, AllocEntry
<1>6. FiledBut(iy, p)
  <2>1. ASSUME NEW x \in DOMAIN iy.heap \ {p}
        PROVE  (AllocEntry(iy, x) \in iy.m_alloc) # (FreeEntry(iy, x) \in iy.m_free)
    <3>1. x \in D /\ x # p /\ x # q
      BY <1>2
    <3>2. FreeEntry(ix, x) # FreeEntry(ix, q)
      BY <3>1 DEF FreeEntry
    <3>3. /\ FreeEntry(iy, x) \in iy.m_free <=> FreeEntry(ix, x) \in ix.m_free
          /\ AllocEntry(iy, x) \in iy.m_alloc <=> AllocEntry(ix, x) \in ix.m_alloc
      BY <1>2, <1>5, <3>1, <3>2
    <3>4. (AllocEntry(ix, x) \in ix.m_alloc) # (FreeEntry(ix, x) \in ix.m_free)
      BY <1>1, <3>1 DEF FiledBut
    <3> QED
      BY <3>3, <3>4
  <2>2. ASSUME NEW e \in iy.m_alloc
        PROVE  e[2] \in DOMAIN iy.heap \ {p} /\ e = AllocEntry(iy, e[2])
    <3>1. e \in ix.m_alloc /\ e[2] \in D \ {p} /\ e = AllocEntry(ix, e[2])
      BY <1>1, <1>2 DEF FiledBut
    <3>2. e[2] # q
      <4>1. FreeEntry(ix, q) \in ix.m_free /\ q \in D \ {p}
        BY <1>2 DEF FiledFree
      <4>2. AllocEntry(ix, q) \notin ix.m_alloc
        BY <1>1, <4>1 DEF FiledBut
      <4> QED
        BY <3>1, <4>2
    <3> QED
      BY <1>2, <1>5, <3>1, <3>2
  <2>3. ASSUME NEW e \in iy.m_free
        PROVE  e[2] \in DOMAIN iy.heap \ {p} /\ e = FreeEntry(iy, e[2])
    <3>1. /\ e \in ix.m_free /\ e # FreeEntry(ix, q)
          /\ e[2] \in D \ {p} /\ e = FreeEntry(ix, e[2])
      BY <1>1, <1>2 DEF FiledBut
    <3> QED
      BY <1>2, <1>5, <3>1
  <2> QED
    BY <2>1, <2>2, <2>3 DEF FiledBut
<1>7. G \subseteq F
  <2> SUFFICES ASSUME NEW x \in G PROVE x \in F
    OBVIOUS
  <2>1. x \in DOMAIN iy.heap /\ FreeEntry(iy, x) \in iy.m_free
    BY DEF FreeSet, FiledFree
  <2>2. x # p
    BY <1>6, <2>1 DEF FiledBut, FreeEntry
  <2> QED
    BY <1>2, <1>5, <2>1, <2>2 DEF FreeSet, FiledFree
<1>8. Spaced(l, n, F)
  BY <1>1, CoalescedByPosition
<1>9. Enumerates(m, n - 1, DOMAIN iy.heap)
  BY <1>2, ShapeByPosition
<1>10. Len(iy.m_list) = n - 1
  BY <1>2
<1>11. \A j \in 1..(n - 1) : m[j] = IF j < k THEN l[j] ELSE l[j + 1]
  BY <1>2
<1>12. p = l[i] /\ q = l[k]
  OBVIOUS
<1>13. LeftClear(ix, p) => (i > 1 => l[i - 1] \notin F)
  BY <1>12 DEF LeftClear
<1>14. (\A j \in 1..(n - 1) : m[j] = p /\ j > 1 => m[j - 1] \notin G)
         => LeftClear(iy, p)
  BY <1>10 DEF LeftClear
<1>15. (\A j \in 1..(n - 1) : m[j] = p /\ j < n - 1 => m[j + 1] \notin G)
         => RightClear(iy, p)
  BY <1>10 DEF RightClear
<1> HIDE DEF l, m, q, F, G, D
<1>16. Unites(l, n, F, i, k, m, G)
  BY <1>4, <1>7, <1>8, <1>11, <1>12 DEF Unites
<1>17. /\ Spaced(m, n - 1, G)
       /\ k = i - 1 => i - 1 \in 1..(n - 1) /\ m[i - 1] = p
       /\ k = i + 1 => i \in 1..(n - 1) /\ m[i] = p
       /\ k = i - 1 /\ i > 2 => m[i - 2] \notin G
       /\ k = i + 1 /\ i < n - 1 => m[i + 1] \notin G
       /\ k = i + 1 /\ i > 1 => m[i - 1] = l[i - 1]
  BY <1>3, <1>12, <1>16, UniteSpaced
<1>18. Coalesced(iy)
  BY <1>2, <1>10, <1>17, CoalescedByPosition DEF m, G
<1>19. Limbo(iy, p, L)
  BY <1>1, <1>2, <1>6, <1>18 DEF Limbo, D
<1>20. \A j, t \in 1..(n - 1) : m[j] = m[t] => j = t
  BY <1>9 DEF Enumerates
<1>21. k = i - 1 => LeftClear(iy, p)
  <2> SUFFICES ASSUME k = i - 1, NEW j \in 1..(n - 1), m[j] = p, j > 1
               PROVE  m[j - 1] \notin G
    BY <1>14
  <2>1. j = i - 1
    BY <1>17, <1>20
  <2> QED
    BY <1>17, <2>1
<1>22. k = i + 1 => RightClear(iy, p)
  <2> SUFFICES ASSUME k = i + 1, NEW j \in 1..(n - 1), m[j] = p, j < n - 1
               PROVE  m[j + 1] \notin G
    BY <1>15
  <2>1. j = i
    BY <1>17, <1>20
  <2> QED
    BY <1>17, <2>1
<1>23. k = i + 1 /\ LeftClear(ix, p) => LeftClear(iy, p)
  <2> SUFFICES ASSUME k = i + 1, LeftClear(ix, p),
                      NEW j \in 1..(n - 1), m[j] = p, j > 1
               PROVE  m[j - 1] \notin G
    BY <1>14
  <2>1. j = i
    BY <1>17, <1>20
  <2> QED
    BY <1>7, <1>13, <1>17, <2>1
<1> QED
  BY <1>19, <1>21, <1>22, <1>23
\* The left half of HeapIndex::coalesce.
LEMMA CoalesceLeftLimbo ==
  ASSUME NEW ix, NEW L \in Nat, L < U32, NEW p, Limbo(ix, p, L)
  PROVE  Limbo(CoalesceLeft(ix, p), p, L) /\ LeftClear(CoalesceLeft(ix, p), p)
<1> DEFINE n == Len(ix.m_list)
           i == PositionOf(ix, p)
<1>1. Shape(ix, L) /\ p \in DOMAIN ix.heap
  BY DEF Limbo
<1>2. n \in Nat /\ i \in 1..n /\ ix.m_list[i] = p
  BY <1>1, PositionOfProperties, IndexTypes DEF Shape
<1>3. \A j, t \in 1..n : ix.m_list[j] = ix.m_list[t] => j = t
  BY <1>1, ShapeByPosition DEF Enumerates
<1>4. \A j \in 1..n : ix.m_list[j] = p => j = i
  BY <1>2, <1>3
<1>5. CASE i = 1
  <2>1. CoalesceLeft(ix, p) = ix
    BY <1>5 DEF CoalesceLeft
  <2>2. LeftClear(ix, p)
    BY <1>4, <1>5 DEF LeftClear
  <2> QED
    BY <2>1, <2>2
<1>6. CASE i # 1
  <2>1. i - 1 \in 1..n
    BY <1>2, <1>6
  <2>2. CoalesceLeft(ix, p) = Absorb(ix, p, i - 1)
    BY <1>6 DEF CoalesceLeft
  <2>3. CASE FiledFree(ix, ix.m_list[i - 1])
    <3> HIDE DEF n, i
    <3> QED
      BY <1>2, <2>1, <2>2, <2>3, AbsorbLimbo DEF n
  <2>4. CASE ~FiledFree(ix, ix.m_list[i - 1])
    <3>1. Absorb(ix, p, i - 1) = ix
      BY <2>4 DEF Absorb, FiledFree
    <3>2. LeftClear(ix, p)
      BY <1>4, <2>4 DEF LeftClear, FreeSet
    <3> QED
      BY <2>2, <3>1, <3>2
  <2> QED
    BY <2>3, <2>4
<1> QED
  BY <1>5, <1>6

\* The right half.
LEMMA CoalesceRightLimbo ==
  ASSUME NEW ix, NEW L \in Nat, L < U32, NEW p, Limbo(ix, p, L), LeftClear(ix, p)
  PROVE  /\ Limbo(CoalesceRight(ix, p), p, L)
         /\ LeftClear(CoalesceRight(ix, p), p)
         /\ RightClear(CoalesceRight(ix, p), p)
<1> DEFINE n == Len(ix.m_list)
           i == PositionOf(ix, p)
<1>1. Shape(ix, L) /\ p \in DOMAIN ix.heap
  BY DEF Limbo
<1>2. n \in Nat /\ i \in 1..n /\ ix.m_list[i] = p
  BY <1>1, PositionOfProperties, IndexTypes DEF Shape
<1>3. \A j, t \in 1..n : ix.m_list[j] = ix.m_list[t] => j = t
  BY <1>1, ShapeByPosition DEF Enumerates
<1>4. \A j \in 1..n : ix.m_list[j] = p => j = i
  BY <1>2, <1>3
<1>5. CASE i = n
  <2>1. CoalesceRight(ix, p) = ix
    BY <1>5 DEF CoalesceRight
  <2>2. RightClear(ix, p)
    BY <1>4, <1>5 DEF RightClear
  <2> QED
    BY <2>1, <2>2
<1>6. CASE i # n
  <2>1. i + 1 \in 1..n
    BY <1>2, <1>6
  <2>2. CoalesceRight(ix, p) = Absorb(ix, p, i + 1)
    BY <1>6 DEF CoalesceRight
  <2>3. CASE FiledFree(ix, ix.m_list[i + 1])
    <3> HIDE DEF n, i
    <3> QED
      BY <1>2, <2>1, <2>2, <2>3, AbsorbLimbo DEF n
  <2>4. CASE ~FiledFree(ix, ix.m_list[i + 1])
    <3>1. Absorb(ix, p, i + 1) = ix
      BY <2>4 DEF Absorb, FiledFree
    <3>2. RightClear(ix, p)
      BY <1>4, <2>4 DEF RightClear, FreeSet
    <3> QED
      BY <2>2, <3>1, <3>2
  <2> QED
    BY <2>3, <2>4
<1> QED
  BY <1>5, <1>6

\* deallocate starts by taking the record out of m_alloc.
LEMMA UnfileLimbo ==
  ASSUME NEW ix, NEW L, Sound(ix, L), NEW p \in DOMAIN ix.heap,
         AllocEntry(ix, p) \in ix.m_alloc
  PROVE  Limbo(Unfile(ix, p), p, L)
<1> DEFINE iy == Unfile(ix, p)
           a == ix.m_alloc \ {AllocEntry(ix, p)}
<1>1. Shape(ix, L) /\ Filed(ix) /\ Coalesced(ix) /\ IsIndex(ix)
  BY DEF Sound, Shape
<1>2. Containers(ix.m_list, a, ix.m_free, ix.heap)
  <2>1. ix.heap \in [DOMAIN ix.heap -> Record]
    BY <1>1 DEF IsIndex
  <2> QED
    BY <1>1, <2>1, IndexTypes DEF Containers
<1>3. Has(iy, ix.m_list, a, ix.m_free, ix.heap)
  <2> HIDE DEF a
  <2>1. iy = [ix EXCEPT !.m_alloc = a]
    BY DEF Unfile, a
  <2>2. [ix EXCEPT !.m_alloc = a]
          \in [m_list : {ix.m_list}, m_alloc : {a}, m_free : {ix.m_free}, heap : {ix.heap}]
    BY <1>1 DEF IsIndex
  <2> QED
    BY <2>1, <2>2 DEF Has
<1>4. /\ IsIndex(iy)
      /\ iy.m_list = ix.m_list /\ iy.m_alloc = a
      /\ iy.m_free = ix.m_free /\ iy.heap = ix.heap
  BY <1>2, <1>3, IndexFromFields
<1> HIDE DEF iy
<1>5. Shape(iy, L) /\ Coalesced(iy)
  BY <1>1, <1>4 DEF Shape, Listed, Tiled, Bounded, Coalesced, FiledFree, FreeEntry, Back
<1>6. /\ \A q : AllocEntry(iy, q) = AllocEntry(ix, q) /\ FreeEntry(iy, q) = FreeEntry(ix, q)
      /\ DOMAIN iy.heap = DOMAIN ix.heap
  BY <1>4 DEF AllocEntry, FreeEntry
<1>7. FiledBut(iy, p)
  <2>1. ASSUME NEW q \in DOMAIN ix.heap \ {p}
        PROVE  (AllocEntry(ix, q) \in a) # (FreeEntry(ix, q) \in ix.m_free)
    <3>1. AllocEntry(ix, q) # AllocEntry(ix, p)
      BY DEF AllocEntry
    <3>2. (AllocEntry(ix, q) \in ix.m_alloc) # (FreeEntry(ix, q) \in ix.m_free)
      BY <1>1 DEF Filed
    <3> QED
      BY <3>1, <3>2
  <2>2. ASSUME NEW e \in a
        PROVE  e[2] \in DOMAIN ix.heap \ {p} /\ e = AllocEntry(ix, e[2])
    BY <1>1 DEF Filed
  <2>3. ASSUME NEW e \in ix.m_free
        PROVE  e[2] \in DOMAIN ix.heap \ {p} /\ e = FreeEntry(ix, e[2])
    <3>1. e[2] \in DOMAIN ix.heap /\ e = FreeEntry(ix, e[2])
      BY <1>1 DEF Filed
    <3>2. FreeEntry(ix, p) \notin ix.m_free
      BY <1>1 DEF Filed
    <3> QED
      BY <3>1, <3>2
  <2> QED
    BY <1>4, <1>6, <2>1, <2>2, <2>3 DEF FiledBut
<1>8. Limbo(iy, p, L)
  BY <1>5, <1>6, <1>7 DEF Limbo
<1> QED
  BY <1>8 DEF iy
\* The shape of an index is a matter of its list and of where its records are.
LEMMA SameShape ==
  ASSUME NEW ix, NEW L, Shape(ix, L), NEW iy, IsIndex(iy),
         iy.m_list = ix.m_list, DOMAIN iy.heap = DOMAIN ix.heap,
         \A x \in DOMAIN ix.heap : /\ iy.heap[x].offset = ix.heap[x].offset
                                   /\ iy.heap[x].size = ix.heap[x].size
  PROVE  Shape(iy, L)
<1>1. \A x \in DOMAIN ix.heap : End(iy.heap[x]) = End(ix.heap[x])
  BY DEF End
<1>2. \A j \in DOMAIN ix.m_list : ix.m_list[j] \in DOMAIN ix.heap
  BY ShapeByPosition, IndexTypes DEF Shape, Enumerates
<1>3. Listed(iy) /\ Bounded(iy, L)
  BY <1>1 DEF Shape, Listed, Bounded
<1>4. \A j \in DOMAIN ix.m_list : j > 1 => j - 1 \in DOMAIN ix.m_list
  BY IndexTypes DEF Shape
<1>5. Tiled(iy)
  BY <1>1, <1>2, <1>4 DEF Shape, Tiled, SharesRightBoundary
<1> QED
  BY <1>3, <1>5 DEF Shape

\* The end of deallocate for the last record: it is popped and deleted.
LEMMA PopSound ==
  ASSUME NEW ix, NEW L, NEW p, Limbo(ix, p, L), LeftClear(ix, p), Back(ix) = p
  PROVE  Sound(Retire(ix, p), L)
<1> DEFINE iy == Retire(ix, p)
           l == ix.m_list
           n == Len(l)
           m == Front(l)
           D == DOMAIN ix.heap
           h == [x \in D \ {p} |-> ix.heap[x]]
           F == FreeSet(ix)
           G == FreeSet(iy)
<1>1. Shape(ix, L) /\ p \in D /\ FiledBut(ix, p) /\ Coalesced(ix) /\ IsIndex(ix)
  BY DEF Limbo, Shape
<1>2. /\ l \in Seq(Ptr) /\ n \in Nat
      /\ ix.m_alloc \in SUBSET (Key \X Ptr)
      /\ ix.m_free \in SUBSET (Nat \X Ptr)
      /\ D \subseteq Ptr
      /\ \A x \in D : ix.heap[x] \in Record
  BY <1>1, IndexTypes
<1>3. /\ Enumerates(l, n, D)
      /\ Contiguous(l, n, Offsets(ix), Sizes(ix))
      /\ \A x \in D : /\ Offsets(ix)[x] = ix.heap[x].offset
                      /\ Sizes(ix)[x] = ix.heap[x].size
                      /\ ix.heap[x].size > 0
                      /\ ix.heap[x].offset + ix.heap[x].size <= L
  BY <1>1, ShapeByPosition
<1>4. l # <<>>
  <2>1. \E j \in 1..n : l[j] = p
    BY <1>1, <1>3 DEF Enumerates
  <2> QED
    BY <2>1
<1>5. n > 0 /\ l[n] = p
  BY <1>1, <1>4, BackProperties
<1>6. m \in Seq(Ptr) /\ Len(m) = n - 1 /\ \A j \in 1..(n - 1) : m[j] = l[j]
  BY <1>2, <1>4, FrontProperties
<1>7. DOMAIN h = D \ {p} /\ \A x \in D \ {p} : h[x] = ix.heap[x]
  OBVIOUS
<1>8. iy = [ix EXCEPT !.m_list = m, !.heap = h]
  BY <1>1, LastByAddress DEF Retire
<1>9. n > 1 => l[n - 1] \notin F
  BY <1>2, <1>5 DEF LeftClear
<1> HIDE DEF iy, l, n, m, D, h
<1>10. h \in [DOMAIN h -> Record]
  <2> SUFFICES h \in [D \ {p} -> Record]
    BY <1>7
  <2> QED
    BY <1>2 DEF h
<1>11. Containers(m, ix.m_alloc, ix.m_free, h)
  BY <1>2, <1>6, <1>7, <1>10 DEF Containers
<1>12. Has(iy, m, ix.m_alloc, ix.m_free, h)
  BY <1>1, <1>8 DEF Has, IsIndex
<1>13. /\ IsIndex(iy)
       /\ iy.m_list = m /\ iy.m_alloc = ix.m_alloc
       /\ iy.m_free = ix.m_free /\ iy.heap = h
  BY <1>11, <1>12, IndexFromFields
<1>14. \A x \in D \ {p} : Offsets(iy)[x] = Offsets(ix)[x] /\ Sizes(iy)[x] = Sizes(ix)[x]
  BY <1>3, <1>7, <1>13 DEF Offsets, Sizes
<1>15. Enumerates(m, n - 1, D \ {p})
  <2>1. n \in 1..n /\ \A j \in 1..(n - 1) : m[j] = IF j < n THEN l[j] ELSE l[j + 1]
    BY <1>2, <1>5, <1>6
  <2> QED
    BY <1>2, <1>3, <1>5, <2>1, EraseEnumerates
<1>16. Contiguous(m, n - 1, Offsets(iy), Sizes(iy))
  <2> SUFFICES ASSUME NEW j \in 1..(n - 1), j > 1
               PROVE  Offsets(iy)[m[j - 1]] + Sizes(iy)[m[j - 1]] = Offsets(iy)[m[j]]
    BY DEF Contiguous
  <2>1. j \in 1..n /\ j - 1 \in 1..(n - 1) /\ j \in 1..(n - 1)
    BY <1>2
  <2>2. Offsets(ix)[l[j - 1]] + Sizes(ix)[l[j - 1]] = Offsets(ix)[l[j]]
    BY <1>3, <2>1 DEF Contiguous
  <2>3. m[j - 1] = l[j - 1] /\ m[j] = l[j] /\ m[j - 1] \in D \ {p} /\ m[j] \in D \ {p}
    BY <1>6, <1>15, <2>1 DEF Enumerates
  <2> QED
    BY <1>14, <2>2, <2>3
<1>17. Shape(iy, L)
  <2>1. n - 1 \in Nat /\ n - 1 = Len(iy.m_list)
    BY <1>2, <1>5, <1>6, <1>13
  <2>2. \A x \in DOMAIN iy.heap :
          iy.heap[x].size > 0 /\ iy.heap[x].offset + iy.heap[x].size <= L
    BY <1>3, <1>7, <1>13
  <2> QED
    BY <1>7, <1>13, <1>15, <1>16, <2>1, <2>2, ShapeFromPositions
<1>18. \A x \in D \ {p} :
         AllocEntry(iy, x) = AllocEntry(ix, x) /\ FreeEntry(iy, x) = FreeEntry(ix, x)
  BY <1>7, <1>13 DEF AllocEntry, FreeEntry
<1>19. Filed(iy)
  BY <1>1, <1>7, <1>13, <1>18 DEF Filed, FiledBut, D
<1>20. \A x \in D \ {p} : x \in G <=> x \in F
  BY <1>7, <1>13, <1>18 DEF FreeSet, FiledFree, D
<1>21. Spaced(l, n, F)
  BY <1>1, CoalescedByPosition DEF l, n
<1> HIDE DEF F, G
<1>22. Spaced(m, n - 1, G)
  <2>1. \A j \in 1..(n - 1) : m[j] \in G <=> l[j] \in F
    BY <1>6, <1>15, <1>20 DEF Enumerates
  <2>2. ASSUME NEW j \in 1..(n - 1), j > 1
        PROVE  ~(m[j - 1] \in G /\ m[j] \in G)
    <3>1. j \in 1..n /\ j - 1 \in 1..(n - 1)
      BY <1>2, <2>2
    <3> QED
      BY <1>21, <2>1, <2>2, <3>1 DEF Spaced
  <2>3. n - 1 > 0 => m[n - 1] \notin G
    BY <1>2, <1>9, <2>1
  <2> QED
    BY <2>2, <2>3 DEF Spaced
<1>23. Coalesced(iy)
  BY <1>6, <1>13, <1>17, <1>22, CoalescedByPosition DEF G
<1>24. Sound(iy, L)
  BY <1>17, <1>19, <1>23 DEF Sound
<1> QED
  BY <1>24 DEF iy

\* The end of deallocate for any other record: it is filed as free.
LEMMA FileSound ==
  ASSUME NEW ix, NEW L, NEW p, Limbo(ix, p, L),
         LeftClear(ix, p), RightClear(ix, p), Back(ix) # p
  PROVE  Sound(Retire(ix, p), L)
<1> DEFINE iy == Retire(ix, p)
           l == ix.m_list
           n == Len(l)
           f == ix.m_free \cup {FreeEntry(ix, p)}
           F == FreeSet(ix)
           G == FreeSet(iy)
<1>1. Shape(ix, L) /\ p \in DOMAIN ix.heap /\ FiledBut(ix, p) /\ Coalesced(ix)
      /\ IsIndex(ix)
  BY DEF Limbo, Shape
<1>2. /\ n \in Nat
      /\ FreeEntry(ix, p) \in Nat \X Ptr
      /\ ix.m_free \in SUBSET (Nat \X Ptr)
  BY <1>1, IndexTypes DEF FreeEntry
<1>3. Containers(l, ix.m_alloc, f, ix.heap)
  <2>1. ix.heap \in [DOMAIN ix.heap -> Record]
    BY <1>1 DEF IsIndex
  <2> QED
    BY <1>1, <1>2, <2>1, IndexTypes DEF Containers
<1>4. Has(iy, l, ix.m_alloc, f, ix.heap)
  <2> HIDE DEF f
  <2>1. iy = [ix EXCEPT !.m_free = f]
    BY <1>1, LastByAddress DEF Retire, f
  <2> QED
    BY <1>1, <2>1 DEF Has, IsIndex
<1>5. /\ IsIndex(iy)
      /\ iy.m_list = l /\ iy.m_alloc = ix.m_alloc
      /\ iy.m_free = f /\ iy.heap = ix.heap
  BY <1>3, <1>4, IndexFromFields
<1> HIDE DEF iy
<1>6. Shape(iy, L)
  BY <1>1, <1>5, SameShape
<1>7. \A q : AllocEntry(iy, q) = AllocEntry(ix, q) /\ FreeEntry(iy, q) = FreeEntry(ix, q)
  BY <1>5 DEF AllocEntry, FreeEntry
<1>8. Filed(iy)
  <2>1. ASSUME NEW q \in DOMAIN ix.heap
        PROVE  (AllocEntry(ix, q) \in ix.m_alloc) # (FreeEntry(ix, q) \in f)
    <3>1. CASE q = p
      <4>1. AllocEntry(ix, p) \notin ix.m_alloc
        BY <1>1 DEF FiledBut, AllocEntry
      <4> QED
        BY <3>1, <4>1
    <3>2. CASE q # p
      <4>1. FreeEntry(ix, q) # FreeEntry(ix, p)
        BY <3>2 DEF FreeEntry
      <4>2. (AllocEntry(ix, q) \in ix.m_alloc) # (FreeEntry(ix, q) \in ix.m_free)
        BY <1>1, <3>2 DEF FiledBut
      <4> QED
        BY <4>1, <4>2
    <3> QED
      BY <3>1, <3>2
  <2>2. \A e \in ix.m_alloc : e[2] \in DOMAIN ix.heap /\ e = AllocEntry(ix, e[2])
    BY <1>1 DEF FiledBut
  <2>3. ASSUME NEW e \in f
        PROVE  e[2] \in DOMAIN ix.heap /\ e = FreeEntry(ix, e[2])
    <3>1. CASE e \in ix.m_free
      BY <1>1, <3>1 DEF FiledBut
    <3>2. CASE e = FreeEntry(ix, p)
      BY <1>1, <3>2 DEF FreeEntry
    <3> QED
      BY <3>1, <3>2
  <2> QED
    BY <1>5, <1>7, <2>1, <2>2, <2>3 DEF Filed
<1>9. G = F \cup {p}
  <2>1. ASSUME NEW q \in DOMAIN ix.heap
        PROVE  FreeEntry(ix, q) \in f <=> FreeEntry(ix, q) \in ix.m_free \/ q = p
    BY DEF FreeEntry
  <2>2. G = {q \in DOMAIN ix.heap : FreeEntry(ix, q) \in f}
    BY <1>5, <1>7 DEF FreeSet, FiledFree
  <2>3. F = {q \in DOMAIN ix.heap : FreeEntry(ix, q) \in ix.m_free}
    BY DEF FreeSet, FiledFree
  <2> HIDE DEF f, F, G
  <2> QED
    BY <1>1, <2>1, <2>2, <2>3
<1>10. /\ \A j \in 1..n : l[j] = p /\ j > 1 => l[j - 1] \notin F
       /\ \A j \in 1..n : l[j] = p /\ j < n => l[j + 1] \notin F
  BY DEF LeftClear, RightClear
<1>11. Spaced(l, n, F) /\ \A i, j \in 1..n : l[i] = l[j] => i = j
  BY <1>1, CoalescedByPosition, ShapeByPosition DEF Enumerates
<1>12. n > 0 => l[n] # p
  <2> SUFFICES ASSUME n > 0 PROVE l[n] # p
    OBVIOUS
  <2>1. l # <<>>
    OBVIOUS
  <2> QED
    BY <1>1, <2>1, BackProperties
<1> HIDE DEF l, n, F, G
<1>13. Spaced(l, n, G)
  <2>1. ASSUME NEW j \in 1..n, j > 1, l[j - 1] \in G, l[j] \in G
        PROVE  FALSE
    <3>1. j - 1 \in 1..n /\ j - 1 < n /\ (j - 1) + 1 = j /\ j - 1 # j
      BY <1>2, <2>1
    <3>2. l[j - 1] \in F \/ l[j - 1] = p
      BY <1>9, <2>1
    <3>3. l[j] \in F \/ l[j] = p
      BY <1>9, <2>1
    <3>4. ~(l[j - 1] \in F /\ l[j] \in F)
      BY <1>11, <2>1 DEF Spaced
    <3>5. ~(l[j - 1] = p /\ l[j] = p)
      BY <1>11, <3>1
    <3>6. ~(l[j - 1] = p /\ l[j] \in F)
      BY <1>10, <3>1
    <3>7. ~(l[j - 1] \in F /\ l[j] = p)
      BY <1>10, <2>1
    <3> QED
      BY <3>2, <3>3, <3>4, <3>5, <3>6, <3>7
  <2>2. n > 0 => l[n] \notin G
    BY <1>9, <1>11, <1>12 DEF Spaced
  <2> QED
    BY <2>1, <2>2 DEF Spaced
<1>14. Coalesced(iy)
  BY <1>5, <1>6, <1>13, CoalescedByPosition DEF l, n, G
<1>15. Sound(iy, L)
  BY <1>6, <1>8, <1>14 DEF Sound
<1> QED
  BY <1>15 DEF iy

\* deallocate keeps the index sound, whatever record it is given.
LEMMA DeallocateSound ==
  ASSUME NEW ix, NEW L \in Nat, L < U32, Sound(ix, L), NEW p \in DOMAIN ix.heap
  PROVE  Sound(Deallocate(ix, p), L)
<1>1. CASE AllocEntry(ix, p) \notin ix.m_alloc
  BY <1>1 DEF Deallocate
<1>2. CASE AllocEntry(ix, p) \in ix.m_alloc
  <2> DEFINE i1 == Unfile(ix, p)
             i2 == CoalesceLeft(i1, p)
             i3 == CoalesceRight(i2, p)
  <2>1. Deallocate(ix, p) = Retire(i3, p)
    BY <1>2 DEF Deallocate
  <2> HIDE DEF i1, i2, i3
  <2>2. Limbo(i1, p, L)
    BY <1>2, UnfileLimbo DEF i1
  <2>3. Limbo(i2, p, L) /\ LeftClear(i2, p)
    BY <2>2, CoalesceLeftLimbo DEF i2
  <2>4. Limbo(i3, p, L) /\ LeftClear(i3, p) /\ RightClear(i3, p)
    BY <2>3, CoalesceRightLimbo DEF i3
  <2> QED
    BY <2>1, <2>4, PopSound, FileSound
<1> QED
  BY <1>1, <1>2
-----------------------------------------------------------------------------
(* allocate *)

\* Taking a free block whole changes its key and the multimap it is in.
LEMMA TakeWholeSound ==
  ASSUME NEW ix, NEW L, Sound(ix, L), NEW e \in ix.m_free, NEW key \in Key
  PROVE  Sound(TakeWhole(ix, e, key), L)
<1> DEFINE iy == TakeWhole(ix, e, key)
           q == e[2]
           D == DOMAIN ix.heap
           a == ix.m_alloc \cup {<<key, q>>}
           f == ix.m_free \ {e}
           r == [ix.heap[q] EXCEPT !.key = key]
           h == [ix.heap EXCEPT ![q] = r]
           F == FreeSet(ix)
           G == FreeSet(iy)
<1>1. Shape(ix, L) /\ Filed(ix) /\ Coalesced(ix) /\ IsIndex(ix)
  BY DEF Sound, Shape
<1>2. q \in D /\ e = FreeEntry(ix, q) /\ e = <<ix.heap[q].size, q>>
  BY <1>1 DEF Filed, FreeEntry
<1>3. /\ ix.m_alloc \in SUBSET (Key \X Ptr) /\ ix.m_free \in SUBSET (Nat \X Ptr)
      /\ D \subseteq Ptr /\ ix.m_list \in Seq(Ptr) /\ Len(ix.m_list) \in Nat
      /\ \A x \in D : ix.heap[x] \in Record
      /\ ix.heap \in [D -> Record]
  BY <1>1, IndexTypes DEF IsIndex
<1>4. iy = [ix EXCEPT !.m_alloc = a, !.m_free = f, !.heap = h]
  BY DEF TakeWhole
<1>5. /\ r \in Record /\ r.offset = ix.heap[q].offset
      /\ r.size = ix.heap[q].size /\ r.key = key
  BY <1>2, <1>3 DEF Record
<1> HIDE DEF r
<1>6. DOMAIN h = D /\ h[q] = r /\ \A x \in D : x # q => h[x] = ix.heap[x]
  BY <1>2, <1>3
<1>7. h \in [D -> Record]
  BY <1>3, <1>5
<1>8. a \in SUBSET (Key \X Ptr) /\ f \in SUBSET (Nat \X Ptr)
  BY <1>2, <1>3
<1> HIDE DEF iy, q, a, f, h, D
<1>9. Containers(ix.m_list, a, f, h)
  BY <1>3, <1>6, <1>7, <1>8 DEF Containers
<1>10. Has(iy, ix.m_list, a, f, h)
  BY <1>1, <1>4 DEF Has, IsIndex
<1>11. /\ IsIndex(iy)
       /\ iy.m_list = ix.m_list /\ iy.m_alloc = a /\ iy.m_free = f /\ iy.heap = h
  BY <1>9, <1>10, IndexFromFields
<1>12. Shape(iy, L)
  <2>1. \A x \in D : h[x].offset = ix.heap[x].offset /\ h[x].size = ix.heap[x].size
    BY <1>5, <1>6
  <2> QED
    BY <1>1, <1>6, <1>11, <2>1, SameShape DEF D
<1>13. /\ \A x \in D : FreeEntry(iy, x) = FreeEntry(ix, x)
       /\ \A x \in D : x # q => AllocEntry(iy, x) = AllocEntry(ix, x)
       /\ AllocEntry(iy, q) = <<key, q>>
  BY <1>2, <1>5, <1>6, <1>11 DEF FreeEntry, AllocEntry
<1>14. Filed(iy)
  <2>1. ASSUME NEW x \in D
        PROVE  (AllocEntry(iy, x) \in a) # (FreeEntry(iy, x) \in f)
    <3>1. CASE x = q
      <4>1. AllocEntry(iy, x) \in a
        BY <1>13, <3>1 DEF a
      <4>2. FreeEntry(iy, x) \notin f
        BY <1>2, <1>13, <3>1 DEF f
      <4> QED
        BY <4>1, <4>2
    <3>2. CASE x # q
      <4>1. AllocEntry(ix, x) # <<key, q>> /\ FreeEntry(ix, x) # e
        BY <1>2, <3>2 DEF AllocEntry, FreeEntry
      <4>2. (AllocEntry(ix, x) \in ix.m_alloc) # (FreeEntry(ix, x) \in ix.m_free)
        BY <1>1 DEF Filed, D
      <4>3. /\ AllocEntry(iy, x) \in a <=> AllocEntry(ix, x) \in ix.m_alloc
            /\ FreeEntry(iy, x) \in f <=> FreeEntry(ix, x) \in ix.m_free
        BY <1>13, <3>2, <4>1 DEF a, f
      <4> QED
        BY <4>2, <4>3
    <3> QED
      BY <3>1, <3>2
  <2>2. ASSUME NEW d \in a PROVE d[2] \in D /\ d = AllocEntry(iy, d[2])
    <3>1. CASE d = <<key, q>>
      BY <1>2, <1>13, <3>1
    <3>2. CASE d \in ix.m_alloc
      <4>1. d[2] \in D /\ d = AllocEntry(ix, d[2])
        BY <1>1, <3>2 DEF Filed, D
      <4>2. d[2] # q
        <5>1. FreeEntry(ix, q) \in ix.m_free
          BY <1>2
        <5>2. AllocEntry(ix, q) \notin ix.m_alloc
          BY <1>1, <1>2, <5>1 DEF Filed, D
        <5> QED
          BY <3>2, <4>1, <5>2
      <4> QED
        BY <1>13, <4>1, <4>2
    <3> QED
      BY <3>1, <3>2 DEF a
  <2>3. ASSUME NEW d \in f PROVE d[2] \in D /\ d = FreeEntry(iy, d[2])
    BY <1>1, <1>13 DEF Filed, D, f
  <2> QED
    BY <1>6, <1>11, <2>1, <2>2, <2>3 DEF Filed
<1>15. G \subseteq F
  BY <1>6, <1>11, <1>13 DEF FreeSet, FiledFree, D, f
<1>16. Coalesced(iy)
  <2> HIDE DEF F, G
  <2>1. Spaced(ix.m_list, Len(ix.m_list), F)
    BY <1>1, CoalescedByPosition DEF F
  <2>2. Spaced(ix.m_list, Len(ix.m_list), G)
    BY <1>3, <1>15, <2>1, SpacedSubset
  <2> QED
    BY <1>11, <1>12, <2>2, CoalescedByPosition DEF G
<1>17. Sound(iy, L)
  BY <1>12, <1>14, <1>16 DEF Sound
<1> QED
  BY <1>17 DEF iy

\* The record a split hands out.
Handed(r, size, key) == [LeftPart(r, size) EXCEPT !.key = key]

\* Record::splitOffLeft of less than the whole: two records, one after the
\* other, neither of them empty.
LEMMA SplitProperties ==
  ASSUME NEW r \in Record, NEW size \in Nat, size > 0, ~TakesWhole(r, size),
         NEW key \in Key
  PROVE  /\ Handed(r, size, key) \in Record
         /\ Handed(r, size, key).offset = r.offset
         /\ Handed(r, size, key).size = size
         /\ Handed(r, size, key).key = key
         /\ RightPart(r, size) \in Record
         /\ RightPart(r, size).offset = r.offset + size
         /\ RightPart(r, size).size = r.size - size
         /\ RightPart(r, size).size > 0
         /\ RightPart(r, size).key = r.key
<1>1. /\ r.offset \in Nat /\ r.size \in Nat /\ r.key \in Key
      /\ MIN_SIZE \in Nat \ {0} /\ 0 \in Key /\ Key \subseteq Nat
  BY IndexAssumption DEF Record
<1>2. r.size - size \in Nat /\ r.size - size > 0
  BY <1>1 DEF TakesWhole
<1>3. r.offset + size \in Nat
  BY <1>1
<1> DEFINE t == Handed(r, size, key)
<1>4. t = [offset |-> r.offset, key |-> key, size |-> size]
  BY DEF Handed, LeftPart, MakeRecord
<1> DEFINE c == r.offset + size
           d == r.size - size
<1>5. RightPart(r, size) = [r EXCEPT !.offset = c, !.size = d]
  BY DEF RightPart
<1>6. c \in Nat /\ d \in Nat /\ d > 0
  BY <1>2, <1>3
<1> HIDE DEF c, d
<1>7. /\ RightPart(r, size) \in Record
      /\ RightPart(r, size).offset = c
      /\ RightPart(r, size).size = d
      /\ RightPart(r, size).key = r.key
  BY <1>5, <1>6 DEF Record
<1>8. t \in Record /\ t.offset = r.offset /\ t.size = size /\ t.key = key
  <2> DEFINE u == [offset |-> r.offset, key |-> key, size |-> size]
  <2>1. u \in Record
    BY <1>1 DEF Record
  <2>2. u.offset = r.offset /\ u.size = size /\ u.key = key
    OBVIOUS
  <2>3. t = u
    BY <1>4
  <2> HIDE DEF u
  <2> QED
    BY <2>1, <2>2, <2>3
<1> QED
  BY <1>6, <1>7, <1>8 DEF c, d
\* The old record of a split keeps its place in the list and in m_free, under
\* its new size; the new one goes in front of it and into m_alloc.
LEMMA TakeLeftSound ==
  ASSUME NEW ix, NEW L \in Nat, Sound(ix, L), NEW e \in ix.m_free, NEW key \in Key,
         NEW size \in Nat, size > 0, ~TakesWhole(ix.heap[e[2]], size),
         NEW p \in Fresh(ix)
  PROVE  Sound(TakeLeft(ix, e, size, key, p), L)
<1> DEFINE iy == TakeLeft(ix, e, size, key, p)
           l == ix.m_list
           n == Len(l)
           D == DOMAIN ix.heap
           q == e[2]
           k == PositionOf(ix, q)
           r == ix.heap[q]
           m == InsertAt(l, k, p)
           a == ix.m_alloc \cup {<<key, p>>}
           f == (ix.m_free \ {e}) \cup {<<r.size - size, q>>}
           t == Handed(r, size, key)
           u == RightPart(r, size)
           h == [x \in D \cup {p} |-> CASE x = p -> t [] x = q -> u [] OTHER -> ix.heap[x]]
           F == FreeSet(ix)
           G == FreeSet(iy)
           o == Offsets(ix)
           z == Sizes(ix)
           o2 == Offsets(iy)
           z2 == Sizes(iy)
<1>1. Shape(ix, L) /\ Filed(ix) /\ Coalesced(ix) /\ IsIndex(ix)
  BY DEF Sound, Shape
<1>2. q \in D /\ e = FreeEntry(ix, q) /\ e = <<r.size, q>>
  BY <1>1 DEF Filed, FreeEntry
<1>3. /\ l \in Seq(Ptr) /\ n \in Nat
      /\ ix.m_alloc \in SUBSET (Key \X Ptr) /\ ix.m_free \in SUBSET (Nat \X Ptr)
      /\ D \subseteq Ptr
      /\ \A x \in D : ix.heap[x] \in Record
      /\ p \in Ptr /\ p \notin D
  BY <1>1, IndexTypes DEF Fresh
<1>4. k \in 1..n /\ l[k] = q
  BY <1>1, <1>2, PositionOfProperties
<1>5. /\ Enumerates(l, n, D) /\ Contiguous(l, n, o, z)
      /\ \A x \in D : /\ o[x] = ix.heap[x].offset /\ z[x] = ix.heap[x].size
                      /\ ix.heap[x].offset \in Nat /\ ix.heap[x].size \in Nat
                      /\ ix.heap[x].size > 0
                      /\ ix.heap[x].offset + ix.heap[x].size <= L
  BY <1>1, ShapeByPosition
<1>6. iy = [ix EXCEPT !.m_list = m, !.m_alloc = a, !.m_free = f, !.heap = h]
  BY DEF TakeLeft, Handed
<1>7. /\ t \in Record /\ t.offset = r.offset /\ t.size = size /\ t.key = key
      /\ u \in Record /\ u.offset = r.offset + size /\ u.size = r.size - size
      /\ u.size > 0 /\ u.key = r.key
  <2>1. r \in Record
    BY <1>2, <1>3
  <2> HIDE DEF r
  <2>2. ~TakesWhole(r, size)
    BY DEF r
  <2> QED
    BY <2>1, <2>2, SplitProperties
<1>8. r.offset \in Nat /\ r.size \in Nat /\ r.offset + r.size <= L /\ u.size \in Nat
  BY <1>2, <1>5, <1>7 DEF Record
<1> HIDE DEF t, u, o, z, o2, z2
<1>9. /\ DOMAIN h = D \cup {p}
      /\ h[p] = t /\ h[q] = u
      /\ \A x \in D : x # q => h[x] = ix.heap[x]
  BY <1>2, <1>3
<1> HIDE DEF iy, l, n, k, r, m, a, f, h, D, F, G
<1>10. \A x \in D \cup {p} : h[x] \in Record
  <2> SUFFICES ASSUME NEW x \in D \cup {p} PROVE h[x] \in Record
    OBVIOUS
  <2> QED
    BY <1>2, <1>3, <1>7, <1>9
<1>11. h \in [DOMAIN h -> Record]
  <2>1. h \in [D \cup {p} -> Record]
    <3>1. h = [x \in D \cup {p} |-> h[x]]
      BY DEF h
    <3> QED
      BY <1>10, <3>1
  <2> QED
    BY <1>9, <2>1
<1>12. /\ m \in Seq(Ptr) /\ Len(m) = n + 1
       /\ \A j \in 1..(n + 1) :
            m[j] = IF j < k THEN l[j] ELSE IF j = k THEN p ELSE l[j - 1]
  BY <1>3, <1>4, InsertAtProperties DEF n, m
<1>13. a \in SUBSET (Key \X Ptr) /\ f \in SUBSET (Nat \X Ptr)
  <2>1. r.size - size \in Nat
    BY <1>7, <1>8
  <2> QED
    BY <1>2, <1>3, <2>1 DEF a, f
<1>14. Containers(m, a, f, h)
  BY <1>3, <1>9, <1>11, <1>12, <1>13 DEF Containers
<1>15. Has(iy, m, a, f, h)
  BY <1>1, <1>6 DEF Has, IsIndex
<1>16. /\ IsIndex(iy)
       /\ iy.m_list = m /\ iy.m_alloc = a /\ iy.m_free = f /\ iy.heap = h
  BY <1>14, <1>15, IndexFromFields
<1>17. \A x \in D \cup {p} : o2[x] = h[x].offset /\ z2[x] = h[x].size
  BY <1>9, <1>16 DEF o2, z2, Offsets, Sizes
<1>18. Splits(l, n, D, o, z, k, size, p, m, o2, z2)
  <2>1. \A x \in D : x # q => o2[x] = o[x] /\ z2[x] = z[x]
    BY <1>5, <1>9, <1>17
  <2>2. o2[p] = o[q] /\ z2[p] = size
    BY <1>2, <1>5, <1>7, <1>9, <1>17 DEF r
  <2>3. o2[q] = o[q] + size /\ z2[q] = z[q] - size
    BY <1>2, <1>5, <1>7, <1>9, <1>17 DEF r
  <2>4. \A x \in D : o[x] \in Nat /\ z[x] \in Nat
    BY <1>5
  <2> QED
    BY <1>3, <1>4, <1>5, <1>12, <2>1, <2>2, <2>3, <2>4 DEF Splits
<1>19. Contiguous(m, n + 1, o2, z2)
  BY <1>3, <1>18, SplitContiguous
<1>20. Enumerates(m, n + 1, D \cup {p})
  BY <1>3, <1>4, <1>5, <1>12, InsertEnumerates
<1>21. Shape(iy, L)
  <2>1. \A x \in DOMAIN iy.heap :
          iy.heap[x].size > 0 /\ iy.heap[x].offset + iy.heap[x].size <= L
    <3> SUFFICES ASSUME NEW x \in D \cup {p}
                 PROVE  h[x].size > 0 /\ h[x].offset + h[x].size <= L
      BY <1>9, <1>16
    <3>1. CASE x = p
      BY <1>7, <1>8, <1>9, <3>1
    <3>2. CASE x = q
      BY <1>7, <1>8, <1>9, <3>2
    <3>3. CASE x # p /\ x # q
      BY <1>5, <1>9, <3>3
    <3> QED
      BY <3>1, <3>2, <3>3
  <2>2. n + 1 \in Nat /\ n + 1 = Len(iy.m_list)
    BY <1>3, <1>12, <1>16
  <2> QED
    BY <1>9, <1>16, <1>19, <1>20, <2>1, <2>2, ShapeFromPositions DEF o2, z2
<1>22. /\ \A x \in D : x # q =>
            FreeEntry(iy, x) = FreeEntry(ix, x) /\ AllocEntry(iy, x) = AllocEntry(ix, x)
       /\ AllocEntry(iy, q) = AllocEntry(ix, q)
       /\ FreeEntry(iy, q) = <<r.size - size, q>>
       /\ AllocEntry(iy, p) = <<key, p>>
       /\ FreeEntry(iy, p) = <<size, p>>
  BY <1>7, <1>9, <1>16 DEF FreeEntry, AllocEntry, r
<1>23. \A c, x, y : (<<c, x>> \in ix.m_alloc \/ <<c, x>> \in ix.m_free) => x \in D
  BY <1>1 DEF Filed, D
<1>24. Filed(iy)
  <2>1. ASSUME NEW x \in D \cup {p}
        PROVE  (AllocEntry(iy, x) \in a) # (FreeEntry(iy, x) \in f)
    <3>1. CASE x = p
      <4>1. <<size, p>> \notin f
        BY <1>2, <1>3, <1>23 DEF f
      <4> QED
        BY <1>22, <3>1, <4>1 DEF a
    <3>2. CASE x = q
      <4>1. FreeEntry(iy, q) \in f
        BY <1>22 DEF f
      <4>2. FreeEntry(ix, q) \in ix.m_free
        BY <1>2
      <4>3. AllocEntry(ix, q) \notin ix.m_alloc
        BY <1>1, <1>2, <4>2 DEF Filed, D
      <4>4. AllocEntry(ix, q) # <<key, p>>
        BY <1>2, <1>3 DEF AllocEntry
      <4>5. AllocEntry(iy, q) \notin a
        BY <1>22, <4>3, <4>4 DEF a
      <4> QED
        BY <3>2, <4>1, <4>5
    <3>3. CASE x # p /\ x # q
      <4>1. x \in D
        BY <3>3
      <4>2. /\ AllocEntry(ix, x) # <<key, p>>
            /\ FreeEntry(ix, x) # <<r.size - size, q>>
            /\ FreeEntry(ix, x) # <<r.size, q>>
        BY <3>3 DEF AllocEntry, FreeEntry
      <4>3. (AllocEntry(ix, x) \in ix.m_alloc) # (FreeEntry(ix, x) \in ix.m_free)
        BY <1>1, <4>1 DEF Filed, D
      <4>4. /\ AllocEntry(iy, x) \in a <=> AllocEntry(ix, x) \in ix.m_alloc
            /\ FreeEntry(iy, x) \in f <=> FreeEntry(ix, x) \in ix.m_free
        BY <1>2, <1>22, <3>3, <4>1, <4>2 DEF a, f
      <4> QED
        BY <4>3, <4>4
    <3> QED
      BY <3>1, <3>2, <3>3
  <2>2. ASSUME NEW d \in a PROVE d[2] \in D \cup {p} /\ d = AllocEntry(iy, d[2])
    <3>1. CASE d = <<key, p>>
      BY <1>22, <3>1
    <3>2. CASE d \in ix.m_alloc
      <4>1. d[2] \in D /\ d = AllocEntry(ix, d[2])
        BY <1>1, <3>2 DEF Filed, D
      <4> QED
        BY <1>22, <4>1
    <3> QED
      BY <3>1, <3>2 DEF a
  <2>3. ASSUME NEW d \in f PROVE d[2] \in D \cup {p} /\ d = FreeEntry(iy, d[2])
    <3>1. CASE d = <<r.size - size, q>>
      BY <1>2, <1>22, <3>1
    <3>2. CASE d \in ix.m_free /\ d # e
      <4>1. d[2] \in D /\ d = FreeEntry(ix, d[2])
        BY <1>1, <3>2 DEF Filed, D
      <4>2. d[2] # q
        BY <1>2, <3>2, <4>1
      <4> QED
        BY <1>22, <4>1, <4>2
    <3> QED
      BY <3>1, <3>2 DEF f
  <2> QED
    BY <1>9, <1>16, <2>1, <2>2, <2>3 DEF Filed
<1>25. G \subseteq F /\ p \notin G
  <2>1. p \notin G
    <3>1. FreeEntry(iy, p) \notin f
      BY <1>2, <1>3, <1>22, <1>23 DEF f
    <3> QED
      BY <1>16, <3>1 DEF G, FreeSet, FiledFree
  <2>2. ASSUME NEW x \in G PROVE x \in F
    <3>1. x \in D /\ FreeEntry(iy, x) \in f
      BY <1>9, <1>16, <2>1 DEF G, FreeSet, FiledFree
    <3>2. CASE x = q
      <4>1. FreeEntry(ix, q) \in ix.m_free
        BY <1>2
      <4> QED
        BY <3>1, <3>2, <4>1 DEF F, FreeSet, FiledFree, D
    <3>3. CASE x # q
      <4>1. FreeEntry(ix, x) # <<r.size - size, q>>
        BY <3>3 DEF FreeEntry
      <4>2. FreeEntry(ix, x) \in ix.m_free
        BY <1>22, <3>1, <3>3, <4>1 DEF f
      <4> QED
        BY <3>1, <4>2 DEF F, FreeSet, FiledFree, D
    <3> QED
      BY <3>2, <3>3
  <2> QED
    BY <2>1, <2>2
<1>26. Coalesced(iy)
  <2>1. Spaced(l, n, F)
    BY <1>1, CoalescedByPosition DEF l, n, F
  <2>2. Spaced(m, n + 1, G)
    BY <1>3, <1>4, <1>12, <1>25, <2>1, InsertSpaced
  <2> QED
    BY <1>12, <1>16, <1>21, <2>2, CoalescedByPosition DEF G
<1>27. Sound(iy, L)
  BY <1>21, <1>24, <1>26 DEF Sound
<1> QED
  BY <1>27 DEF iy

\* allocate keeps the index sound, whatever fitting free block it takes.
LEMMA AllocateSound ==
  ASSUME NEW ix, NEW L \in Nat, Sound(ix, L), NEW key \in Key, NEW size \in Nat, size > 0,
         NEW e \in LowerBound(ix, size), NEW p \in Fresh(ix)
  PROVE  Sound(Allocate(ix, e, size, key, p), L)
<1>1. e \in ix.m_free
  BY DEF LowerBound
<1> QED
  BY <1>1, TakeWholeSound, TakeLeftSound DEF Allocate
-----------------------------------------------------------------------------
(* addAllocatedBlock *)

\* iy is ix with the record r pushed to the end of the list, at the address p,
\* and with the multimaps a and f instead of its own.
Pushes(ix, L, p, r, a, f, iy) ==
  /\ Shape(ix, L)
  /\ p \in Fresh(ix)
  /\ r \in Record
  /\ r.size > 0
  /\ End(r) <= L
  /\ ix.m_list # <<>> => SharesRightBoundary(LastRecord(ix), r)
  /\ a \in SUBSET (Key \X Ptr) /\ f \in SUBSET (Nat \X Ptr)
  /\ Has(iy, Append(ix.m_list, p), a, f,
         [x \in DOMAIN ix.heap \cup {p} |-> IF x = p THEN r ELSE ix.heap[x]])

\* And this is what a push has changed.
Pushed(ix, L, p, r, a, f, iy) ==
  /\ Shape(iy, L)
  /\ iy.m_list \in Seq(Ptr)
  /\ Len(iy.m_list) = Len(ix.m_list) + 1
  /\ \A j \in 1..Len(ix.m_list) : iy.m_list[j] = ix.m_list[j]
  /\ iy.m_list[Len(ix.m_list) + 1] = p
  /\ iy.m_alloc = a /\ iy.m_free = f
  /\ p \in Ptr /\ p \notin DOMAIN ix.heap
  /\ DOMAIN iy.heap = DOMAIN ix.heap \cup {p}
  /\ \A x \in DOMAIN ix.heap : iy.heap[x] = ix.heap[x]
  /\ iy.heap[p] = r
  /\ iy.m_list # <<>> /\ LastRecord(iy) = r

\* A record that starts where the last one ends extends the tiling.
LEMMA PushShape ==
  ASSUME NEW ix, NEW L \in Nat, NEW p, NEW r, NEW a, NEW f, NEW iy,
         Pushes(ix, L, p, r, a, f, iy)
  PROVE  Pushed(ix, L, p, r, a, f, iy)
<1> DEFINE l == ix.m_list
           n == Len(l)
           m == Append(l, p)
           D == DOMAIN ix.heap
           h == [x \in D \cup {p} |-> IF x = p THEN r ELSE ix.heap[x]]
           o == Offsets(ix)
           z == Sizes(ix)
           o2 == Offsets(iy)
           z2 == Sizes(iy)
<1>1. /\ Shape(ix, L) /\ IsIndex(ix)
      /\ p \in Ptr /\ p \notin D
      /\ r \in Record /\ r.size > 0 /\ End(r) <= L
      /\ a \in SUBSET (Key \X Ptr) /\ f \in SUBSET (Nat \X Ptr)
      /\ l # <<>> => SharesRightBoundary(LastRecord(ix), r)
  BY DEF Pushes, Fresh, Shape
<1>2. /\ l \in Seq(Ptr) /\ n \in Nat /\ D \subseteq Ptr
      /\ \A x \in D : ix.heap[x] \in Record
  BY <1>1, IndexTypes
<1>3. /\ Enumerates(l, n, D) /\ Contiguous(l, n, o, z)
      /\ \A x \in D : /\ o[x] = ix.heap[x].offset /\ z[x] = ix.heap[x].size
                      /\ ix.heap[x].size > 0
                      /\ ix.heap[x].offset + ix.heap[x].size <= L
  BY <1>1, ShapeByPosition
<1>4. n > 0 => /\ l # <<>> /\ LastRecord(ix) = ix.heap[l[n]]
               /\ l[n] \in D
               /\ ix.heap[l[n]].offset + ix.heap[l[n]].size = r.offset
  <2> SUFFICES ASSUME n > 0
               PROVE  /\ l # <<>> /\ LastRecord(ix) = ix.heap[l[n]]
                      /\ l[n] \in D
                      /\ ix.heap[l[n]].offset + ix.heap[l[n]].size = r.offset
    OBVIOUS
  <2>1. l # <<>>
    OBVIOUS
  <2>2. Back(ix) = l[n] /\ l[n] \in D
    BY <1>1, <2>1, BackProperties
  <2> QED
    BY <1>1, <2>1, <2>2 DEF LastRecord, SharesRightBoundary, End
<1>5. /\ m \in Seq(Ptr) /\ Len(m) = n + 1
      /\ \A j \in 1..n : m[j] = l[j]
      /\ m[n + 1] = p
      /\ m # <<>>
  <2>1. /\ m \in Seq(Ptr) /\ Len(m) = n + 1
        /\ \A j \in 1..n : m[j] = l[j]
        /\ m[n + 1] = p
    BY <1>1, <1>2, AppendProperties
  <2> QED
    BY <1>2, <2>1
<1>6. DOMAIN h = D \cup {p} /\ h[p] = r /\ \A x \in D : h[x] = ix.heap[x]
  BY <1>1
<1>7. Has(iy, m, a, f, h)
  BY DEF Pushes
<1> HIDE DEF l, n, m, D, h, o, z, o2, z2
<1>8. h \in [DOMAIN h -> Record]
  <2>1. \A x \in D \cup {p} : h[x] \in Record
    BY <1>1, <1>2, <1>6
  <2>2. h = [x \in D \cup {p} |-> h[x]]
    BY DEF h
  <2>3. h \in [D \cup {p} -> Record]
    BY <2>1, <2>2
  <2> QED
    BY <1>6, <2>3
<1>9. Containers(m, a, f, h)
  BY <1>1, <1>2, <1>5, <1>6, <1>8 DEF Containers
<1>10. /\ IsIndex(iy)
       /\ iy.m_list = m /\ iy.m_alloc = a /\ iy.m_free = f /\ iy.heap = h
  BY <1>7, <1>9, IndexFromFields
<1>11. \A x \in D \cup {p} : o2[x] = h[x].offset /\ z2[x] = h[x].size
  BY <1>6, <1>10 DEF o2, z2, Offsets, Sizes
<1>12. Enumerates(m, n + 1, D \cup {p})
  BY <1>1, <1>2, <1>3, <1>5, AppendEnumerates
<1>13. Contiguous(m, n + 1, o2, z2)
  <2>1. \A x \in D : o2[x] = o[x] /\ z2[x] = z[x]
    BY <1>3, <1>6, <1>11
  <2>2. n > 0 => o[l[n]] + z[l[n]] = o2[m[n + 1]]
    BY <1>3, <1>4, <1>5, <1>6, <1>11
  <2> QED
    <3>1. Extends(l, n, D, o, z, m, o2, z2)
      BY <1>3, <1>5, <2>1, <2>2 DEF Extends
    <3> QED
      BY <1>2, <3>1, AppendContiguous
<1>14. Shape(iy, L)
  <2>1. \A x \in DOMAIN iy.heap :
          iy.heap[x].size > 0 /\ iy.heap[x].offset + iy.heap[x].size <= L
    BY <1>1, <1>3, <1>6, <1>10 DEF End
  <2>2. n + 1 \in Nat /\ n + 1 = Len(iy.m_list)
    BY <1>2, <1>5, <1>10
  <2> QED
    BY <1>6, <1>10, <1>12, <1>13, <2>1, <2>2, ShapeFromPositions DEF o2, z2
<1>15. LastRecord(iy) = r
  <2>1. Back(iy) = p
    BY <1>5, <1>10 DEF Back, Last
  <2> QED
    BY <1>6, <1>10, <2>1 DEF LastRecord
<1> QED
  BY <1>1, <1>5, <1>6, <1>10, <1>14, <1>15 DEF Pushed, l, n, D

\* One more allocated record at the end.
LEMMA PushAllocatedFiled ==
  ASSUME NEW ix, NEW L, NEW p, NEW r, NEW iy, Filed(ix), IsIndex(ix),
         Pushed(ix, L, p, r, ix.m_alloc \cup {<<r.key, p>>}, ix.m_free, iy)
  PROVE  Filed(iy) /\ FreeSet(iy) = FreeSet(ix) /\ p \notin FreeSet(iy)
<1> DEFINE D == DOMAIN ix.heap
<1>1. /\ iy.m_alloc = ix.m_alloc \cup {<<r.key, p>>}
      /\ iy.m_free = ix.m_free
      /\ p \notin D
      /\ DOMAIN iy.heap = D \cup {p}
      /\ \A x \in D : iy.heap[x] = ix.heap[x]
      /\ iy.heap[p] = r
  BY DEF Pushed
<1>2. /\ \A x \in D : AllocEntry(iy, x) = AllocEntry(ix, x)
                      /\ FreeEntry(iy, x) = FreeEntry(ix, x)
      /\ AllocEntry(iy, p) = <<r.key, p>> /\ FreeEntry(iy, p) = <<r.size, p>>
  BY <1>1 DEF AllocEntry, FreeEntry
<1>3. /\ \A d \in ix.m_alloc : d[2] \in D /\ d = AllocEntry(ix, d[2])
      /\ \A d \in ix.m_free : d[2] \in D /\ d = FreeEntry(ix, d[2])
      /\ \A x \in D : (AllocEntry(ix, x) \in ix.m_alloc) # (FreeEntry(ix, x) \in ix.m_free)
  BY DEF Filed
<1>4. FreeEntry(iy, p) \notin ix.m_free
  BY <1>1, <1>2, <1>3
<1> HIDE DEF D
<1>5. \A x \in D : AllocEntry(ix, x) # <<r.key, p>>
  BY <1>1 DEF AllocEntry
<1>6. Filed(iy)
  <2>1. ASSUME NEW x \in D \cup {p}
        PROVE  (AllocEntry(iy, x) \in iy.m_alloc) # (FreeEntry(iy, x) \in iy.m_free)
    <3>1. CASE x = p
      BY <1>1, <1>2, <1>4, <3>1
    <3>2. CASE x \in D
      <4>1. /\ AllocEntry(iy, x) \in iy.m_alloc <=> AllocEntry(ix, x) \in ix.m_alloc
            /\ FreeEntry(iy, x) \in iy.m_free <=> FreeEntry(ix, x) \in ix.m_free
        BY <1>1, <1>2, <1>5, <3>2
      <4> QED
        BY <1>3, <3>2, <4>1
    <3> QED
      BY <3>1, <3>2
  <2>2. \A d \in iy.m_alloc : d[2] \in D \cup {p} /\ d = AllocEntry(iy, d[2])
    BY <1>1, <1>2, <1>3
  <2>3. \A d \in iy.m_free : d[2] \in D \cup {p} /\ d = FreeEntry(iy, d[2])
    BY <1>1, <1>2, <1>3
  <2> QED
    BY <1>1, <2>1, <2>2, <2>3 DEF Filed
<1>7. FreeSet(iy) = FreeSet(ix) /\ p \notin FreeSet(iy)
  BY <1>1, <1>2, <1>4 DEF FreeSet, FiledFree, D
<1> QED
  BY <1>6, <1>7

\* One more free record at the end.
LEMMA PushFreeFiled ==
  ASSUME NEW ix, NEW L, NEW p, NEW r, NEW f, NEW iy, Filed(ix), IsIndex(ix),
         f = ix.m_free \cup {<<r.size, p>>},
         Pushed(ix, L, p, r, ix.m_alloc, f, iy)
  PROVE  Filed(iy) /\ \A x \in FreeSet(iy) : x \in FreeSet(ix) \/ x = p
<1> DEFINE D == DOMAIN ix.heap
<1>1. /\ iy.m_alloc = ix.m_alloc
      /\ iy.m_free = ix.m_free \cup {<<r.size, p>>}
      /\ p \notin D
      /\ DOMAIN iy.heap = D \cup {p}
      /\ \A x \in D : iy.heap[x] = ix.heap[x]
      /\ iy.heap[p] = r
  BY DEF Pushed
<1>2. /\ \A x \in D : AllocEntry(iy, x) = AllocEntry(ix, x)
                      /\ FreeEntry(iy, x) = FreeEntry(ix, x)
      /\ AllocEntry(iy, p) = <<r.key, p>> /\ FreeEntry(iy, p) = <<r.size, p>>
  BY <1>1 DEF AllocEntry, FreeEntry
<1>3. /\ \A d \in ix.m_alloc : d[2] \in D /\ d = AllocEntry(ix, d[2])
      /\ \A d \in ix.m_free : d[2] \in D /\ d = FreeEntry(ix, d[2])
      /\ \A x \in D : (AllocEntry(ix, x) \in ix.m_alloc) # (FreeEntry(ix, x) \in ix.m_free)
  BY DEF Filed
<1>4. AllocEntry(iy, p) \notin ix.m_alloc
  BY <1>1, <1>2, <1>3
<1> HIDE DEF D
<1>5. \A x \in D : FreeEntry(ix, x) # <<r.size, p>>
  BY <1>1 DEF FreeEntry
<1>6. Filed(iy)
  <2>1. ASSUME NEW x \in D \cup {p}
        PROVE  (AllocEntry(iy, x) \in iy.m_alloc) # (FreeEntry(iy, x) \in iy.m_free)
    <3>1. CASE x = p
      BY <1>1, <1>2, <1>4, <3>1
    <3>2. CASE x \in D
      <4>1. /\ AllocEntry(iy, x) \in iy.m_alloc <=> AllocEntry(ix, x) \in ix.m_alloc
            /\ FreeEntry(iy, x) \in iy.m_free <=> FreeEntry(ix, x) \in ix.m_free
        BY <1>1, <1>2, <1>5, <3>2
      <4> QED
        BY <1>3, <3>2, <4>1
    <3> QED
      BY <3>1, <3>2
  <2>2. \A d \in iy.m_alloc : d[2] \in D \cup {p} /\ d = AllocEntry(iy, d[2])
    BY <1>1, <1>2, <1>3
  <2>3. \A d \in iy.m_free : d[2] \in D \cup {p} /\ d = FreeEntry(iy, d[2])
    BY <1>1, <1>2, <1>3
  <2> QED
    BY <1>1, <2>1, <2>2, <2>3 DEF Filed
<1>7. FreeSet(iy) = FreeSet(ix) \cup {p}
  <2>1. \A x \in D : FreeEntry(iy, x) \in iy.m_free <=> FreeEntry(ix, x) \in ix.m_free
    BY <1>1, <1>2, <1>5
  <2>2. FreeEntry(iy, p) \in iy.m_free
    BY <1>1, <1>2
  <2> QED
    BY <1>1, <2>1, <2>2 DEF FreeSet, FiledFree, D
<1> QED
  BY <1>6, <1>7

\* Both pushes are pushes of a record under some multimaps.
LEMMA PushFields ==
  ASSUME NEW ix, IsIndex(ix), NEW p, NEW r, NEW h,
         h = [x \in DOMAIN ix.heap \cup {p} |-> IF x = p THEN r ELSE ix.heap[x]]
  PROVE  /\ Has(PushAllocated(ix, p, r), Append(ix.m_list, p),
                ix.m_alloc \cup {<<r.key, p>>}, ix.m_free, h)
         /\ Has(PushFree(ix, p, r), Append(ix.m_list, p),
                ix.m_alloc, ix.m_free \cup {<<r.size, p>>}, h)
<1> DEFINE l == Append(ix.m_list, p)
           ip == Push(ix, p, r)
           a == ip.m_alloc \cup {<<r.key, p>>}
           f == ip.m_free \cup {<<r.size, p>>}
<1>1. ip = [ix EXCEPT !.m_list = l, !.heap = h]
  BY DEF Push
<1> HIDE DEF l, ip
<1>2. ip \in [m_list : {l}, m_alloc : {ix.m_alloc}, m_free : {ix.m_free}, heap : {h}]
  BY <1>1 DEF IsIndex
<1>3. ip.m_alloc = ix.m_alloc /\ ip.m_free = ix.m_free
  BY <1>2
<1>4. /\ PushAllocated(ix, p, r) = [ip EXCEPT !.m_alloc = a]
      /\ PushFree(ix, p, r) = [ip EXCEPT !.m_free = f]
  BY DEF PushAllocated, PushFree, ip
<1> HIDE DEF a, f
<1>5. /\ [ip EXCEPT !.m_alloc = a]
           \in [m_list : {l}, m_alloc : {a}, m_free : {ix.m_free}, heap : {h}]
      /\ [ip EXCEPT !.m_free = f]
           \in [m_list : {l}, m_alloc : {ix.m_alloc}, m_free : {f}, heap : {h}]
  BY <1>2
<1> QED
  BY <1>3, <1>4, <1>5 DEF Has, l, a, f

\* addAllocatedBlock at the end of the last record, or of an empty index.
LEMMA AddOne ==
  ASSUME NEW ix, NEW L \in Nat, Sound(ix, L), NEW p \in Fresh(ix), NEW g,
         NEW r \in Record, r.size > 0, End(r) <= L,
         ix.m_list = <<>> \/ SharesRightBoundary(LastRecord(ix), r),
         NEW iy, iy = AddAllocatedBlock(ix, p, g, r)
  PROVE  Pushed(ix, L, p, r, ix.m_alloc \cup {<<r.key, p>>}, ix.m_free, iy)
<1> DEFINE a == ix.m_alloc \cup {<<r.key, p>>}
<1>1. /\ Shape(ix, L) /\ IsIndex(ix)
      /\ ix.m_alloc \in SUBSET (Key \X Ptr) /\ ix.m_free \in SUBSET (Nat \X Ptr)
  BY IndexTypes DEF Sound, Shape
<1>2. r.key \in Key /\ p \in Ptr
  BY DEF Record, Fresh
<1>3. iy = PushAllocated(ix, p, r)
  BY DEF AddAllocatedBlock
<1>4. a \in SUBSET (Key \X Ptr)
  BY <1>1, <1>2
<1>5. Has(iy, Append(ix.m_list, p), a, ix.m_free,
          [x \in DOMAIN ix.heap \cup {p} |-> IF x = p THEN r ELSE ix.heap[x]])
  BY <1>1, <1>3, PushFields
<1> HIDE DEF a
<1>6. Pushes(ix, L, p, r, a, ix.m_free, iy)
  BY <1>1, <1>4, <1>5 DEF Pushes
<1>7. Pushed(ix, L, p, r, a, ix.m_free, iy)
  BY <1>6, PushShape
<1> QED
  BY <1>7 DEF a

\* And behind a hole, which gets a record of its own.
LEMMA AddTwo ==
  ASSUME NEW ix, NEW L \in Nat, L < U32, Sound(ix, L),
         NEW p \in Fresh(ix), NEW g \in Fresh(ix), p # g,
         NEW r \in Record, r.size > 0, End(r) <= L, ~Overlaps(ix, r),
         ix.m_list # <<>>, ~SharesRightBoundary(LastRecord(ix), r),
         NEW iy, iy = AddAllocatedBlock(ix, p, g, r)
  PROVE  \E t, im :
           /\ Pushed(ix, L, g, t, ix.m_alloc, ix.m_free \cup {<<t.size, g>>}, im)
           /\ Pushed(im, L, p, r, im.m_alloc \cup {<<r.key, p>>}, im.m_free, iy)
<1> DEFINE s == LastRecord(ix)
           t == GapRecord(s, r)
           im == PushFree(ix, g, t)
           a == ix.m_alloc
           f == ix.m_free \cup {<<t.size, g>>}
           b == im.m_alloc \cup {<<r.key, p>>}
<1>1. /\ Shape(ix, L) /\ IsIndex(ix)
      /\ ix.m_alloc \in SUBSET (Key \X Ptr) /\ ix.m_free \in SUBSET (Nat \X Ptr)
  BY IndexTypes DEF Sound, Shape
<1>2. /\ r.key \in Key /\ r.size \in Nat /\ r.offset \in Nat
      /\ p \in Ptr /\ g \in Ptr /\ p \notin DOMAIN ix.heap /\ g \notin DOMAIN ix.heap
  BY DEF Record, Fresh
<1>3. iy = PushAllocated(im, p, r)
  BY DEF AddAllocatedBlock
<1>4. /\ s \in Record /\ s.offset \in Nat /\ s.size \in Nat /\ s.size > 0
      /\ End(s) = s.offset + s.size
  BY <1>1, BackProperties, IndexTypes, ShapeByPosition DEF LastRecord, End
<1>5. End(s) \in Nat /\ r.offset - End(s) \in Nat /\ r.offset - End(s) > 0
      /\ r.offset - End(s) < U32
  <2>1. ~(r.offset < End(s)) /\ End(s) # r.offset
    BY DEF Overlaps, SharesRightBoundary
  <2>2. r.offset + r.size <= L
    BY DEF End
  <2> HIDE DEF s
  <2>3. End(s) \in Nat
    BY <1>4
  <2>4. U32 \in Nat
    BY IndexAssumption
  <2> QED
    BY <1>2, <2>1, <2>2, <2>3, <2>4
<1>6. /\ t \in Record
      /\ t.offset = End(s) /\ t.size = r.offset - End(s) /\ t.size > 0
      /\ SharesRightBoundary(s, t)
      /\ SharesRightBoundary(t, r)
      /\ End(t) <= L
  <2>1. (r.offset - End(s)) % U32 = r.offset - End(s)
    BY <1>5, IndexAssumption
  <2>2. t = [offset |-> End(s), key |-> 0, size |-> r.offset - End(s)]
    BY <2>1 DEF GapRecord, MakeRecord
  <2> HIDE DEF s, t
  <2>3. t \in Record
    BY <1>5, <2>2, IndexAssumption DEF Record
  <2>4. t.offset = End(s) /\ t.size = r.offset - End(s)
    BY <2>2
  <2>5. End(t) = r.offset
    BY <1>2, <1>5, <2>4 DEF End
  <2>6. r.offset <= L
    BY <1>2 DEF End
  <2> QED
    BY <1>5, <2>3, <2>4, <2>5, <2>6 DEF SharesRightBoundary
<1> HIDE DEF s
<1>7. Has(im, Append(ix.m_list, g), a, f,
          [x \in DOMAIN ix.heap \cup {g} |-> IF x = g THEN t ELSE ix.heap[x]])
  BY <1>1, PushFields
<1> HIDE DEF t
<1>8. f \in SUBSET (Nat \X Ptr)
  <2>1. t.size \in Nat
    BY <1>6 DEF Record
  <2> QED
    BY <1>1, <1>2, <2>1
<1> HIDE DEF im, f
<1>9. Pushes(ix, L, g, t, a, f, im)
  BY <1>1, <1>6, <1>7, <1>8 DEF Pushes, s
<1>10. Pushed(ix, L, g, t, a, f, im)
  BY <1>9, PushShape
<1>11. /\ Shape(im, L) /\ IsIndex(im)
       /\ im.m_alloc = a /\ im.m_free = f
       /\ DOMAIN im.heap = DOMAIN ix.heap \cup {g}
       /\ LastRecord(im) = t
  BY <1>10 DEF Pushed, Shape
<1>12. p \in Fresh(im)
  BY <1>2, <1>11 DEF Fresh
<1>13. b \in SUBSET (Key \X Ptr)
  BY <1>1, <1>2, <1>11
<1>14. Has(iy, Append(im.m_list, p), b, im.m_free,
           [x \in DOMAIN im.heap \cup {p} |-> IF x = p THEN r ELSE im.heap[x]])
  BY <1>3, <1>11, PushFields
<1> HIDE DEF b
<1>15. Pushes(im, L, p, r, b, im.m_free, iy)
  BY <1>6, <1>8, <1>11, <1>12, <1>13, <1>14 DEF Pushes
<1>16. Pushed(im, L, p, r, b, im.m_free, iy)
  BY <1>15, PushShape
<1> QED
  BY <1>10, <1>16 DEF a, b, f

\* addAllocatedBlock keeps the index sound, with a record for the hole in
\* front of the new block or without.
LEMMA AddSound ==
  ASSUME NEW ix, NEW L \in Nat, L < U32, Sound(ix, L),
         NEW p \in Fresh(ix), NEW g \in Fresh(ix), p # g,
         NEW r \in Record, r.size > 0, End(r) <= L, ~Overlaps(ix, r)
  PROVE  Sound(AddAllocatedBlock(ix, p, g, r), L)
<1> DEFINE n == Len(ix.m_list)
           iy == AddAllocatedBlock(ix, p, g, r)
<1>1. Shape(ix, L) /\ Filed(ix) /\ Coalesced(ix) /\ IsIndex(ix)
  BY DEF Sound, Shape
<1>2. /\ n \in Nat
      /\ Enumerates(ix.m_list, n, DOMAIN ix.heap)
      /\ Spaced(ix.m_list, n, FreeSet(ix))
  BY <1>1, IndexTypes, ShapeByPosition, CoalescedByPosition
<1> HIDE DEF iy
<1>3. CASE ix.m_list = <<>> \/ SharesRightBoundary(LastRecord(ix), r)
  <2>1. Pushed(ix, L, p, r, ix.m_alloc \cup {<<r.key, p>>}, ix.m_free, iy)
    BY <1>3, AddOne DEF iy
  <2>2. Filed(iy) /\ FreeSet(iy) = FreeSet(ix) /\ p \notin FreeSet(iy)
    BY <1>1, <2>1, PushAllocatedFiled
  <2>3. /\ Shape(iy, L) /\ Len(iy.m_list) = n + 1
        /\ \A j \in 1..n : iy.m_list[j] = ix.m_list[j]
        /\ iy.m_list[n + 1] = p
    BY <2>1 DEF Pushed
  <2> HIDE DEF n
  <2>4. Spaced(iy.m_list, n + 1, FreeSet(iy))
    BY <1>2, <2>2, <2>3, AppendSpaced
  <2>5. Coalesced(iy)
    BY <2>3, <2>4, CoalescedByPosition
  <2> QED
    BY <2>2, <2>3, <2>5 DEF Sound, iy
<1>4. CASE ix.m_list # <<>> /\ ~SharesRightBoundary(LastRecord(ix), r)
  <2>1. PICK t, im :
          /\ Pushed(ix, L, g, t, ix.m_alloc, ix.m_free \cup {<<t.size, g>>}, im)
          /\ Pushed(im, L, p, r, im.m_alloc \cup {<<r.key, p>>}, im.m_free, iy)
    BY <1>4, AddTwo DEF iy
  <2>2. Filed(im) /\ FreeSet(im) \subseteq FreeSet(ix) \cup {g}
    <3> DEFINE f == ix.m_free \cup {<<t.size, g>>}
    <3>1. f = ix.m_free \cup {<<t.size, g>>}
      OBVIOUS
    <3>2. Pushed(ix, L, g, t, ix.m_alloc, f, im)
      BY <2>1
    <3> HIDE DEF f
    <3>3. Filed(ix) /\ IsIndex(ix)
      BY <1>1
    <3>4. Filed(im) /\ \A x \in FreeSet(im) : x \in FreeSet(ix) \/ x = g
      BY ONLY <3>1, <3>2, <3>3, PushFreeFiled
    <3> QED
      BY <3>4
  <2>3. /\ Shape(im, L) /\ IsIndex(im) /\ Len(im.m_list) = n + 1
        /\ \A j \in 1..n : im.m_list[j] = ix.m_list[j]
        /\ im.m_list[n + 1] = g
    BY <2>1 DEF Pushed, Shape
  <2>4. Filed(iy) /\ FreeSet(iy) = FreeSet(im) /\ p \notin FreeSet(iy)
    BY <2>1, <2>2, <2>3, PushAllocatedFiled
  <2>5. /\ Shape(iy, L) /\ Len(iy.m_list) = Len(im.m_list) + 1
        /\ \A j \in 1..Len(im.m_list) : iy.m_list[j] = im.m_list[j]
        /\ iy.m_list[Len(im.m_list) + 1] = p
    BY <2>1 DEF Pushed
  <2> HIDE DEF n
  <2>6. /\ Len(iy.m_list) = n + 2
        /\ \A j \in 1..n : iy.m_list[j] = ix.m_list[j]
        /\ iy.m_list[n + 1] = g /\ iy.m_list[n + 2] = p
    BY <1>2, <2>3, <2>5
  <2>7. \A j \in 1..n : ix.m_list[j] # g
    BY <1>2 DEF Enumerates, Fresh
  <2>8. Spaced(iy.m_list, n + 2, FreeSet(iy))
    BY <1>2, <2>2, <2>4, <2>6, <2>7, AppendTwoSpaced
  <2>9. Coalesced(iy)
    BY <2>5, <2>6, <2>8, CoalescedByPosition
  <2> QED
    BY <2>4, <2>5, <2>9 DEF Sound, iy
<1> QED
  BY <1>3, <1>4

-----------------------------------------------------------------------------
(* clear *)

\* What clear leaves: nothing is filed and no record is alive, but the list
\* still has the addresses it had.
Husk(ix) ==
  IsIndex(ix) /\ ix.m_alloc = {} /\ ix.m_free = {} /\ DOMAIN ix.heap = {}

\* clear leaves a husk, if all that is alive is listed.
LEMMA ClearListed ==
  ASSUME NEW ix, IsIndex(ix), DOMAIN ix.heap \subseteq ToSet(ix.m_list)
  PROVE  Husk(Clear(ix))
<1> DEFINE iy == Clear(ix)
           h == [x \in DOMAIN ix.heap \ ToSet(ix.m_list) |-> ix.heap[x]]
<1>1. IsIndex(ix) /\ DOMAIN ix.heap \subseteq ToSet(ix.m_list)
  OBVIOUS
<1>2. DOMAIN h = {} /\ h \in [DOMAIN h -> Record]
  BY <1>1
<1>3. iy = [ix EXCEPT !.m_alloc = {}, !.m_free = {}, !.heap = h]
  BY DEF Clear
<1> HIDE DEF h, iy
<1>4. Has(iy, ix.m_list, {}, {}, h)
  BY <1>1, <1>3 DEF Has, IsIndex
<1>5. Containers(ix.m_list, {}, {}, h)
  <2>1. ix.m_list \in Seq(Ptr)
    BY <1>1, IndexTypes
  <2> QED
    BY <1>2, <2>1 DEF Containers
<1>6. /\ IsIndex(iy) /\ iy.m_alloc = {} /\ iy.m_free = {} /\ iy.heap = h
  BY <1>4, <1>5, IndexFromFields
<1> QED
  BY <1>2, <1>6 DEF Husk, iy

\* As in a sound index, and in another husk.
LEMMA ClearHusk ==
  ASSUME NEW ix, NEW L, Sound(ix, L) \/ Husk(ix)
  PROVE  Husk(Clear(ix))
<1>1. IsIndex(ix) /\ DOMAIN ix.heap \subseteq ToSet(ix.m_list)
  BY DEF Sound, Shape, Listed, Husk
<1> QED
  BY <1>1, ClearListed

\* A husk without an address in its list is sound, and so can be used again.
LEMMA EmptyHuskSound ==
  ASSUME NEW ix, NEW L, Husk(ix), ~Dangling(ix)
  PROVE  Sound(ix, L)
<1>1. IsIndex(ix) /\ DOMAIN ix.heap = {} /\ ix.m_alloc = {} /\ ix.m_free = {}
  BY DEF Husk
<1>2. DOMAIN ix.m_list = {}
  BY <1>1 DEF Dangling
<1>3. ix.m_list = <<>>
  <2>1. ix.m_list \in Seq(Ptr) /\ Len(ix.m_list) \in Nat
        /\ DOMAIN ix.m_list = 1..Len(ix.m_list)
    BY <1>1, IndexTypes
  <2>2. Len(ix.m_list) = 0
    <3>1. 1 \notin 1..Len(ix.m_list)
      BY <1>2, <2>1
    <3> QED
      BY <2>1, <3>1
  <2> QED
    BY <2>1, <2>2, EmptySeq
<1>4. ToSet(ix.m_list) = {}
  BY <1>3 DEF ToSet
<1>5. Shape(ix, L)
  BY <1>1, <1>2, <1>4 DEF Shape, Listed, Tiled, Bounded
<1>6. Filed(ix) /\ Coalesced(ix)
  BY <1>1, <1>2, <1>3 DEF Filed, Coalesced
<1> QED
  BY <1>5, <1>6 DEF Sound

\* The list of a sound index has no deleted record.
LEMMA SoundNotDangling ==
  ASSUME NEW ix, NEW L, Sound(ix, L)
  PROVE  ~Dangling(ix)
<1>1. \A j \in DOMAIN ix.m_list : ix.m_list[j] \in DOMAIN ix.heap
  BY ShapeByPosition, IndexTypes DEF Sound, Shape, Enumerates
<1> QED
  BY <1>1 DEF Dangling

\* A new index is a husk that can be used.
LEMMA EmptyIndexSound ==
  ASSUME NEW L
  PROVE  Sound(EmptyIndex, L)
<1>1. /\ EmptyIndex.m_list = <<>> /\ EmptyIndex.m_alloc = {}
      /\ EmptyIndex.m_free = {} /\ DOMAIN EmptyIndex.heap = {}
  BY DEF EmptyIndex
<1>2. IsIndex(EmptyIndex)
  BY DEF EmptyIndex, IsIndex
<1>3. ~Dangling(EmptyIndex)
  BY <1>1 DEF Dangling
<1> QED
  BY <1>1, <1>2, <1>3, EmptyHuskSound DEF Husk
=============================================================================
