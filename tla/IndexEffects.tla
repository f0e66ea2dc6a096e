----------------------------- MODULE IndexEffects -----------------------------
(***************************************************************************)
(* What a call changes of a sound index, and what it leaves alone: the     *)
(* records of other blocks, the last record and the start of the range.    *)
(* IndexLemmas shows that the index stays sound; this is what its callers  *)
(* see of it.                                                              *)
(***************************************************************************)
EXTENDS IndexLemmas

\* The offset of the first record.
Base(ix) == ix.heap[ix.m_list[1]].offset

-----------------------------------------------------------------------------
(* Where the records are *)

\* The list is in the order of the file, and not only neighbour by neighbour
\* (m_list of class HeapIndex).
LEMMA RecordsOrdered ==
  ASSUME NEW ix, NEW L, Shape(ix, L)
  PROVE  \A i, j \in 1..Len(ix.m_list) : i < j =>
           End(ix.heap[ix.m_list[i]]) <= ix.heap[ix.m_list[j]].offset
<1> DEFINE l == ix.m_list
           n == Len(l)
<1>1. n \in Nat
  BY IndexTypes DEF Shape
<1>2. /\ Enumerates(l, n, DOMAIN ix.heap)
      /\ Contiguous(l, n, Offsets(ix), Sizes(ix))
      /\ \A p \in DOMAIN ix.heap :
           /\ Offsets(ix)[p] = ix.heap[p].offset /\ Sizes(ix)[p] = ix.heap[p].size
           /\ ix.heap[p].offset \in Nat /\ ix.heap[p].size \in Nat
  BY ShapeByPosition
<1>3. \A i \in 1..n : l[i] \in DOMAIN ix.heap
  BY <1>2 DEF Enumerates
<1> HIDE DEF l, n
<1>4. \A i \in 1..n : Offsets(ix)[l[i]] \in Nat /\ Sizes(ix)[l[i]] \in Nat
  BY <1>2, <1>3
<1>5. \A i, j \in 1..n : i < j =>
        Offsets(ix)[l[i]] + Sizes(ix)[l[i]] <= Offsets(ix)[l[j]]
  BY <1>1, <1>2, <1>4, ContiguousOrdered
<1>6. \A i, j \in 1..n : i < j => End(ix.heap[l[i]]) <= ix.heap[l[j]].offset
  BY <1>2, <1>3, <1>5 DEF End
<1> QED
  BY <1>6 DEF l, n

\* No two records share a byte of the file.
LEMMA RecordsDisjoint ==
  ASSUME NEW ix, NEW L, Shape(ix, L),
         NEW p \in DOMAIN ix.heap, NEW q \in DOMAIN ix.heap, p # q
  PROVE  \/ End(ix.heap[p]) <= ix.heap[q].offset
         \/ End(ix.heap[q]) <= ix.heap[p].offset
<1>1. Enumerates(ix.m_list, Len(ix.m_list), DOMAIN ix.heap)
  BY ShapeByPosition
<1>2. PICK i \in 1..Len(ix.m_list) : ix.m_list[i] = p
  BY <1>1 DEF Enumerates
<1>3. PICK j \in 1..Len(ix.m_list) : ix.m_list[j] = q
  BY <1>1 DEF Enumerates
<1>4. i < j \/ j < i
  BY <1>2, <1>3
<1> QED
  BY <1>2, <1>3, <1>4, RecordsOrdered

\* The types of one record and of its end.
LEMMA RecordTypes ==
  ASSUME NEW ix, NEW L, Shape(ix, L), NEW p \in DOMAIN ix.heap
  PROVE  /\ ix.heap[p] \in Record
         /\ ix.heap[p].offset \in Nat /\ ix.heap[p].key \in Key
         /\ ix.heap[p].size \in Nat /\ ix.heap[p].size > 0
         /\ End(ix.heap[p]) \in Nat /\ End(ix.heap[p]) <= L
         /\ ix.heap[p].offset < End(ix.heap[p])
<1>1. /\ ix.heap[p] \in Record
      /\ ix.heap[p].offset \in Nat /\ ix.heap[p].key \in Key
      /\ ix.heap[p].size \in Nat
  BY IndexTypes DEF Shape
<1>2. ix.heap[p].size > 0
  BY ShapeByPosition
<1>3. End(ix.heap[p]) <= L
  BY DEF Shape, Bounded
<1> QED
  BY <1>1, <1>2, <1>3 DEF End

\* The records lie between the start of the first and the end of the last.
LEMMA RecordsWithin ==
  ASSUME NEW ix, NEW L, Shape(ix, L), NEW p \in DOMAIN ix.heap
  PROVE  /\ ix.m_list # <<>>
         /\ Base(ix) <= ix.heap[p].offset
         /\ End(ix.heap[p]) <= End(LastRecord(ix))
         /\ Back(ix) \in DOMAIN ix.heap /\ LastRecord(ix) = ix.heap[Back(ix)]
         /\ ix.m_list[1] \in DOMAIN ix.heap
<1> DEFINE n == Len(ix.m_list)
<1>1. Enumerates(ix.m_list, n, DOMAIN ix.heap)
  BY ShapeByPosition
<1>2. PICK i \in 1..n : ix.m_list[i] = p
  BY <1>1 DEF Enumerates
<1>3. ix.m_list # <<>>
  BY <1>2, LenProperties, EmptySeq
<1>4. n \in Nat \ {0} /\ Back(ix) = ix.m_list[n] /\ Back(ix) \in DOMAIN ix.heap
  BY <1>3, BackProperties
<1>5. 1 \in 1..n /\ n \in 1..n /\ ix.m_list[1] \in DOMAIN ix.heap
  BY <1>1, <1>4 DEF Enumerates
<1>6. Base(ix) <= ix.heap[p].offset
  <2>1. CASE i = 1
    BY <1>2, <2>1, RecordTypes DEF Base
  <2>2. CASE i # 1
    <3>1. End(ix.heap[ix.m_list[1]]) <= ix.heap[p].offset
      BY <1>2, <1>5, <2>2, RecordsOrdered
    <3>2. Base(ix) < End(ix.heap[ix.m_list[1]])
      BY <1>5, RecordTypes DEF Base
    <3>3. Base(ix) \in Nat /\ End(ix.heap[ix.m_list[1]]) \in Nat
      BY <1>5, RecordTypes DEF Base
    <3> QED
      BY <3>1, <3>2, <3>3, RecordTypes
  <2> QED
    BY <2>1, <2>2
<1>7. End(ix.heap[p]) <= End(LastRecord(ix))
  <2>1. CASE i = n
    BY <1>2, <1>4, <2>1, RecordTypes DEF LastRecord
  <2>2. CASE i # n
    <3>1. End(ix.heap[p]) <= ix.heap[Back(ix)].offset
      BY <1>2, <1>4, <1>5, <2>2, RecordsOrdered
    <3>2. ix.heap[Back(ix)].offset < End(ix.heap[Back(ix)])
      BY <1>4, RecordTypes
    <3>3. ix.heap[Back(ix)].offset \in Nat /\ End(ix.heap[Back(ix)]) \in Nat
      BY <1>4, RecordTypes
    <3> QED
      BY <3>1, <3>2, <3>3, RecordTypes DEF LastRecord
  <2> QED
    BY <2>1, <2>2
<1> QED
  BY <1>3, <1>4, <1>5, <1>6, <1>7 DEF LastRecord

-----------------------------------------------------------------------------
(* deallocate *)

\* The record at p is filed as allocated.
Allocd(ix, p) == p \in DOMAIN ix.heap /\ AllocEntry(ix, p) \in ix.m_alloc

\* iy is ix after the record at p has swallowed some of its free neighbours.
Merged(ix, iy, p) ==
  /\ iy.m_alloc = ix.m_alloc
  /\ p \in DOMAIN iy.heap
  /\ DOMAIN iy.heap \subseteq DOMAIN ix.heap
  /\ \A q \in DOMAIN iy.heap : q # p => iy.heap[q] = ix.heap[q]
  /\ \A q \in DOMAIN ix.heap : Allocd(ix, q) => q \in DOMAIN iy.heap
  /\ iy.heap[p].offset <= ix.heap[p].offset
  /\ \E q \in DOMAIN ix.heap : iy.heap[p].offset = ix.heap[q].offset
  /\ iy.m_list # <<>>
  /\ Base(iy) = Base(ix)
  /\ Back(iy) = Back(ix)

\* Nothing merged.
LEMMA MergedReflexive ==
  ASSUME NEW ix, NEW p, NEW L, Limbo(ix, p, L)
  PROVE  Merged(ix, ix, p)
<1>1. Shape(ix, L) /\ p \in DOMAIN ix.heap
  BY DEF Limbo
<1> QED
  BY <1>1, RecordTypes, RecordsWithin DEF Merged

\* The left neighbour, and then the right one.
LEMMA MergedTransitive ==
  ASSUME NEW ix, NEW iy, NEW iz, NEW p, NEW L, Limbo(ix, p, L),
         Limbo(iy, p, L), Limbo(iz, p, L), Merged(ix, iy, p), Merged(iy, iz, p)
  PROVE  Merged(ix, iz, p)
<1>1. /\ ix.heap[p].offset \in Nat /\ iy.heap[p].offset \in Nat
      /\ iz.heap[p].offset \in Nat
  BY RecordTypes DEF Limbo
<1>2. iz.heap[p].offset <= ix.heap[p].offset
  BY <1>1 DEF Merged
<1>3. \A q \in DOMAIN ix.heap : Allocd(ix, q) => q \in DOMAIN iz.heap
  <2> SUFFICES ASSUME NEW q \in DOMAIN ix.heap, Allocd(ix, q)
               PROVE  q \in DOMAIN iz.heap
    OBVIOUS
  <2>1. q \in DOMAIN iy.heap /\ iy.m_alloc = ix.m_alloc
    BY DEF Merged
  <2>2. CASE q = p
    BY <2>2 DEF Merged
  <2>3. CASE q # p
    <3>1. AllocEntry(iy, q) = AllocEntry(ix, q)
      BY <2>1, <2>3 DEF Merged, AllocEntry
    <3> QED
      BY <2>1, <3>1 DEF Merged, Allocd
  <2> QED
    BY <2>2, <2>3
<1>4. \E q \in DOMAIN ix.heap : iz.heap[p].offset = ix.heap[q].offset
  <2>1. PICK q \in DOMAIN iy.heap : iz.heap[p].offset = iy.heap[q].offset
    BY DEF Merged
  <2>2. CASE q = p
    BY <2>1, <2>2 DEF Merged
  <2>3. CASE q # p
    BY <2>1, <2>3 DEF Merged
  <2> QED
    BY <2>2, <2>3
<1> QED
  BY <1>2, <1>3, <1>4 DEF Merged

\* One side of HeapIndex::coalesce, when it finds a free neighbour.
LEMMA AbsorbMerges ==
  ASSUME NEW ix, NEW L \in Nat, L < U32, NEW p, Limbo(ix, p, L),
         NEW n, n = Len(ix.m_list), NEW i \in 1..n, NEW k \in 1..n,
         k = i - 1 \/ k = i + 1, p = ix.m_list[i], FiledFree(ix, ix.m_list[k]),
         NEW iy, iy = Absorb(ix, p, k)
  PROVE  Merged(ix, iy, p)
<1> DEFINE q == ix.m_list[k]
<1>1. Shape(ix, L) /\ p \in DOMAIN ix.heap /\ FiledBut(ix, p) /\ Coalesced(ix)
  BY DEF Limbo
<1>2. Absorbs(ix, L, n, i, k, p, q, iy)
  BY <1>1 DEF Absorbs, FiledFree
<1>3. Absorbed(ix, L, n, i, k, p, q, iy)
  BY <1>2, AbsorbShape
<1>4. /\ Shape(iy, L)
      /\ Len(iy.m_list) = n - 1
      /\ \A j \in 1..(n - 1) :
           iy.m_list[j] = IF j < k THEN ix.m_list[j] ELSE ix.m_list[j + 1]
      /\ iy.m_alloc = ix.m_alloc
      /\ p # q /\ q \in DOMAIN ix.heap
      /\ DOMAIN iy.heap = DOMAIN ix.heap \ {q}
      /\ \A x \in DOMAIN iy.heap : x # p => iy.heap[x] = ix.heap[x]
      /\ k = i + 1 => iy.heap[p].offset = ix.heap[p].offset
      /\ k = i - 1 => iy.heap[p].offset = ix.heap[q].offset
  BY <1>3 DEF Absorbed
<1>5. n \in Nat /\ p \in DOMAIN iy.heap /\ ix.m_list[i] = p /\ ix.m_list[k] = q
  BY <1>1, <1>4, IndexTypes DEF Shape
<1>6. ~Allocd(ix, q)
  <2>1. FreeEntry(ix, q) \in ix.m_free
    BY DEF FiledFree
  <2> QED
    BY <1>1, <1>4, <2>1 DEF FiledBut, Allocd
<1>7. n > 1 /\ n - 1 \in 1..(n - 1) /\ 1 \in 1..(n - 1)
  BY <1>5
<1>8. iy.m_list # <<>>
  BY <1>4, <1>5, RecordsWithin
<1>9. iy.heap[p].offset <= ix.heap[p].offset
  <2>1. CASE k = i + 1
    BY <1>1, <1>4, <2>1, RecordTypes
  <2>2. CASE k = i - 1
    <3>1. k < i
      BY <1>5, <2>2
    <3>2. End(ix.heap[q]) <= ix.heap[p].offset
      BY <1>1, <1>5, <3>1, RecordsOrdered
    <3>3. /\ ix.heap[q].offset \in Nat /\ End(ix.heap[q]) \in Nat
          /\ ix.heap[q].offset < End(ix.heap[q]) /\ ix.heap[p].offset \in Nat
      BY <1>1, <1>4, RecordTypes
    <3> QED
      BY <1>4, <2>2, <3>2, <3>3
  <2> QED
    BY <2>1, <2>2
<1>10. Base(iy) = Base(ix)
  <2>1. CASE k = 1
    <3>1. i = 2 /\ k = i - 1
      BY <1>5, <2>1
    <3>2. iy.m_list[1] = p
      BY <1>4, <1>5, <1>7, <2>1, <3>1
    <3> QED
      BY <1>4, <1>5, <2>1, <3>1, <3>2 DEF Base
  <2>2. CASE k # 1
    <3>1. iy.m_list[1] = ix.m_list[1]
      BY <1>4, <1>5, <1>7, <2>2
    <3>2. ix.m_list[1] \in DOMAIN ix.heap /\ iy.m_list[1] \in DOMAIN iy.heap
      BY <1>1, <1>4, <1>5, RecordsWithin
    <3>3. CASE ix.m_list[1] = p
      <4>1. i = 1
        <5>1. \A j, t \in 1..n : ix.m_list[j] = ix.m_list[t] => j = t
          BY <1>1, ShapeByPosition DEF Enumerates
        <5> QED
          BY <1>5, <3>3, <5>1
      <4> QED
        BY <1>4, <1>5, <3>1, <3>3, <4>1 DEF Base
    <3>4. CASE ix.m_list[1] # p
      BY <1>4, <3>1, <3>2, <3>4 DEF Base
    <3> QED
      BY <3>3, <3>4
  <2> QED
    BY <2>1, <2>2
<1>11. Back(iy) = Back(ix)
  <2>1. Back(ix) = ix.m_list[n] /\ Back(iy) = iy.m_list[n - 1]
    BY <1>1, <1>4, <1>5, <1>8, BackProperties, RecordsWithin
  <2>2. k # n
    <3>1. ix.m_list # <<>>
      BY <1>1, RecordsWithin
    <3> QED
      BY <1>1, <2>1, <3>1 DEF Coalesced
  <2>3. iy.m_list[n - 1] = ix.m_list[n]
    <3>1. ~(n - 1 < k) /\ (n - 1) + 1 = n
      BY <1>5, <2>2
    <3>2. iy.m_list[n - 1] = IF n - 1 < k THEN ix.m_list[n - 1]
                                          ELSE ix.m_list[(n - 1) + 1]
      BY <1>4, <1>7
    <3> QED
      BY <3>1, <3>2
  <2> QED
    BY <2>1, <2>3
<1> QED
  BY <1>1, <1>4, <1>5, <1>6, <1>8, <1>9, <1>10, <1>11 DEF Merged

\* The left half of HeapIndex::coalesce.
LEMMA CoalesceLeftMerges ==
  ASSUME NEW ix, NEW L \in Nat, L < U32, NEW p, Limbo(ix, p, L)
  PROVE  Merged(ix, CoalesceLeft(ix, p), p)
<1> DEFINE n == Len(ix.m_list)
           i == PositionOf(ix, p)
<1>1. Shape(ix, L) /\ p \in DOMAIN ix.heap
  BY DEF Limbo
<1>2. n \in Nat /\ i \in 1..n /\ ix.m_list[i] = p
  BY <1>1, PositionOfProperties, IndexTypes DEF Shape
<1>3. CoalesceLeft(ix, p) = IF i = 1 THEN ix ELSE Absorb(ix, p, i - 1)
  BY DEF CoalesceLeft
<1>4. ~FiledFree(ix, ix.m_list[i - 1]) => Absorb(ix, p, i - 1) = ix
  BY DEF Absorb, FiledFree
<1>5. Merged(ix, ix, p)
  BY MergedReflexive
<1> HIDE DEF i
<1>6. CASE i # 1 /\ FiledFree(ix, ix.m_list[i - 1])
  <2>1. i - 1 \in 1..n
    BY <1>2, <1>6
  <2> QED
    BY <1>2, <1>3, <1>6, <2>1, AbsorbMerges
<1> QED
  BY <1>3, <1>4, <1>5, <1>6

\* The right half.
LEMMA CoalesceRightMerges ==
  ASSUME NEW ix, NEW L \in Nat, L < U32, NEW p, Limbo(ix, p, L)
  PROVE  Merged(ix, CoalesceRight(ix, p), p)
<1> DEFINE n == Len(ix.m_list)
           i == PositionOf(ix, p)
<1>1. Shape(ix, L) /\ p \in DOMAIN ix.heap
  BY DEF Limbo
<1>2. n \in Nat /\ i \in 1..n /\ ix.m_list[i] = p
  BY <1>1, PositionOfProperties, IndexTypes DEF Shape
<1>3. CoalesceRight(ix, p) = IF i = n THEN ix ELSE Absorb(ix, p, i + 1)
  BY DEF CoalesceRight
<1>4. ~FiledFree(ix, ix.m_list[i + 1]) => Absorb(ix, p, i + 1) = ix
  BY DEF Absorb, FiledFree
<1>5. Merged(ix, ix, p)
  BY MergedReflexive
<1> HIDE DEF i
<1>6. CASE i # n /\ FiledFree(ix, ix.m_list[i + 1])
  <2>1. i + 1 \in 1..n
    BY <1>2, <1>6
  <2> QED
    BY <1>2, <1>3, <1>6, <2>1, AbsorbMerges
<1> QED
  BY <1>3, <1>4, <1>5, <1>6

\* The call has changed at most one record, the one at p, among those that are
\* or become allocated.
Keeps(ix, iy, p) ==
  \A q : q # p => /\ Allocd(iy, q) <=> Allocd(ix, q)
                  /\ Allocd(ix, q) => iy.heap[q] = ix.heap[q]

\* m_alloc holds the entries of the allocated records and nothing else.
LEMMA AllocatedByAddress ==
  ASSUME NEW ix, NEW L, Sound(ix, L)
  PROVE  /\ \A e \in ix.m_alloc : Allocd(ix, e[2]) /\ e = AllocEntry(ix, e[2])
         /\ \A q \in DOMAIN ix.heap : Allocd(ix, q) \/ FiledFree(ix, q)
         /\ \A q \in DOMAIN ix.heap : ~(Allocd(ix, q) /\ FiledFree(ix, q))
  BY DEF Sound, Filed, Allocd, FiledFree

\* The last record is allocated.
LEMMA LastIsAllocated ==
  ASSUME NEW ix, NEW L, Sound(ix, L), ix.m_list # <<>>
  PROVE  Allocd(ix, Back(ix))
<1>1. Back(ix) \in DOMAIN ix.heap /\ ~FiledFree(ix, Back(ix))
  BY BackProperties DEF Sound, Coalesced
<1> QED
  BY <1>1, AllocatedByAddress

\* What the end of deallocate does, field by field.
LEMMA RetireFields ==
  ASSUME NEW ix, NEW L, Shape(ix, L), NEW p \in DOMAIN ix.heap,
         NEW iy, iy = Retire(ix, p)
  PROVE  /\ iy.m_alloc = ix.m_alloc
         /\ Back(ix) = p => /\ iy.m_list = Front(ix.m_list)
                            /\ DOMAIN iy.heap = DOMAIN ix.heap \ {p}
                            /\ \A q \in DOMAIN iy.heap : iy.heap[q] = ix.heap[q]
         /\ Back(ix) # p => iy.m_list = ix.m_list /\ iy.heap = ix.heap
<1> DEFINE m == Front(ix.m_list)
           h == [x \in DOMAIN ix.heap \ {p} |-> ix.heap[x]]
           f == ix.m_free \cup {FreeEntry(ix, p)}
<1> IsIndex(ix) /\ (IsLast(ix, p) <=> Back(ix) = p)
  BY LastByAddress DEF Shape
<1>1. CASE Back(ix) = p
  <2>1. iy = [ix EXCEPT !.m_list = m, !.heap = h]
    BY <1>1 DEF Retire
  <2>2. DOMAIN h = DOMAIN ix.heap \ {p} /\ \A q \in DOMAIN h : h[q] = ix.heap[q]
    OBVIOUS
  <2> HIDE DEF m, h
  <2>3. iy.m_list = m /\ iy.heap = h /\ iy.m_alloc = ix.m_alloc
    BY <2>1 DEF IsIndex
  <2> QED
    BY <1>1, <2>2, <2>3 DEF m
<1>2. CASE Back(ix) # p
  <2>1. iy = [ix EXCEPT !.m_free = f]
    BY <1>2 DEF Retire
  <2> HIDE DEF f
  <2>2. iy.m_list = ix.m_list /\ iy.heap = ix.heap /\ iy.m_alloc = ix.m_alloc
    BY <2>1 DEF IsIndex
  <2> QED
    BY <1>2, <2>2
<1> QED
  BY <1>1, <1>2

\* And the beginning.
LEMMA UnfileFields ==
  ASSUME NEW ix, NEW p, IsIndex(ix), NEW iy, iy = Unfile(ix, p)
  PROVE  /\ iy.m_alloc = ix.m_alloc \ {AllocEntry(ix, p)}
         /\ iy.m_list = ix.m_list /\ iy.heap = ix.heap
<1> DEFINE a == ix.m_alloc \ {AllocEntry(ix, p)}
<1>1. iy = [ix EXCEPT !.m_alloc = a]
  BY DEF Unfile
<1> HIDE DEF a
<1>2. iy.m_alloc = a /\ iy.m_list = ix.m_list /\ iy.heap = ix.heap
  BY <1>1 DEF IsIndex
<1> QED
  BY <1>2 DEF a

\* What deallocate has changed of a sound index ix, when it returns iy.
Deallocated(ix, iy, p) ==
  /\ iy.m_alloc = ix.m_alloc \ {AllocEntry(ix, p)}
  /\ Keeps(ix, iy, p)
  /\ ~Allocd(iy, p)
  /\ DOMAIN iy.heap \subseteq DOMAIN ix.heap
  /\ Back(ix) # p => iy.m_list # <<>> /\ LastRecord(iy) = LastRecord(ix)
  /\ Back(ix) = p /\ iy.m_list # <<>> => End(LastRecord(iy)) <= ix.heap[p].offset
  /\ iy.m_list # <<>> => Base(iy) = Base(ix)

\* deallocate takes back one block; the others stay where they are, and so does
\* the range the index manages, but for its end when the last block goes.
LEMMA DeallocateEffect ==
  ASSUME NEW ix, NEW L \in Nat, L < U32, Sound(ix, L), NEW p, Allocd(ix, p),
         NEW iy, iy = Deallocate(ix, p)
  PROVE  Deallocated(ix, iy, p)
<1> DEFINE i1 == Unfile(ix, p)
           i2 == CoalesceLeft(i1, p)
           i3 == CoalesceRight(i2, p)
<1>1. /\ p \in DOMAIN ix.heap /\ AllocEntry(ix, p) \in ix.m_alloc
      /\ Shape(ix, L) /\ IsIndex(ix)
  BY DEF Allocd, Sound, Shape
<1>2. iy = Retire(i3, p)
  BY <1>1 DEF Deallocate
<1> HIDE DEF i1, i2, i3
<1>3. Limbo(i1, p, L)
  BY <1>1, UnfileLimbo DEF i1
<1>4. Limbo(i2, p, L) /\ LeftClear(i2, p) /\ Merged(i1, i2, p)
  BY <1>3, CoalesceLeftLimbo, CoalesceLeftMerges DEF i2
<1>5. Limbo(i3, p, L) /\ Merged(i2, i3, p)
  BY <1>4, CoalesceRightLimbo, CoalesceRightMerges DEF i3
<1>6. Merged(i1, i3, p)
  BY <1>3, <1>4, <1>5, MergedTransitive
<1>7. Sound(iy, L)
  BY <1>1, DeallocateSound
<1>8. /\ i1.m_alloc = ix.m_alloc \ {AllocEntry(ix, p)}
      /\ i1.m_list = ix.m_list /\ i1.heap = ix.heap
  BY <1>1, UnfileFields DEF i1
<1>9. /\ Shape(i3, L) /\ IsIndex(i3) /\ p \in DOMAIN i3.heap
  BY <1>5 DEF Limbo, Shape
<1>10. /\ iy.m_alloc = i3.m_alloc
       /\ Back(i3) = p => /\ iy.m_list = Front(i3.m_list)
                          /\ DOMAIN iy.heap = DOMAIN i3.heap \ {p}
                          /\ \A q \in DOMAIN iy.heap : iy.heap[q] = i3.heap[q]
       /\ Back(i3) # p => iy.m_list = i3.m_list /\ iy.heap = i3.heap
  BY <1>2, <1>9, RetireFields
<1>11. iy.m_alloc = ix.m_alloc \ {AllocEntry(ix, p)}
  BY <1>6, <1>8, <1>10 DEF Merged
<1>12. /\ DOMAIN iy.heap \subseteq DOMAIN i3.heap
       /\ DOMAIN i3.heap \ {p} \subseteq DOMAIN iy.heap
       /\ \A q \in DOMAIN iy.heap : iy.heap[q] = i3.heap[q]
  BY <1>10
<1>13. /\ DOMAIN i3.heap \subseteq DOMAIN ix.heap
       /\ \A q \in DOMAIN i3.heap : q # p => i3.heap[q] = ix.heap[q]
  BY <1>6, <1>8 DEF Merged
<1>14. Keeps(ix, iy, p)
  <2> SUFFICES ASSUME NEW q, q # p
               PROVE  /\ Allocd(iy, q) <=> Allocd(ix, q)
                      /\ Allocd(ix, q) => iy.heap[q] = ix.heap[q]
    BY DEF Keeps
  <2>1. ASSUME q \in DOMAIN iy.heap
        PROVE  iy.heap[q] = ix.heap[q] /\ AllocEntry(iy, q) = AllocEntry(ix, q)
    BY <1>12, <1>13, <2>1 DEF AllocEntry
  <2>2. Allocd(iy, q) => Allocd(ix, q)
    BY <1>11, <1>12, <1>13, <2>1 DEF Allocd
  <2>3. Allocd(ix, q) => q \in DOMAIN iy.heap /\ AllocEntry(ix, q) \in iy.m_alloc
    <3> SUFFICES ASSUME Allocd(ix, q)
                 PROVE  q \in DOMAIN iy.heap /\ AllocEntry(ix, q) \in iy.m_alloc
      OBVIOUS
    <3>1. AllocEntry(ix, q) # AllocEntry(ix, p) /\ AllocEntry(i1, q) = AllocEntry(ix, q)
      BY <1>8 DEF AllocEntry
    <3>2. Allocd(i1, q)
      BY <1>8, <3>1 DEF Allocd
    <3>3. q \in DOMAIN i3.heap
      BY <1>6, <3>2 DEF Merged, Allocd
    <3> QED
      BY <1>11, <1>12, <3>1, <3>3 DEF Allocd
  <2> QED
    BY <2>1, <2>2, <2>3 DEF Allocd
<1>15. ~Allocd(iy, p)
  <2> SUFFICES ASSUME Allocd(iy, p) PROVE FALSE
    OBVIOUS
  <2>1. AllocEntry(iy, p) \in ix.m_alloc /\ AllocEntry(iy, p) # AllocEntry(ix, p)
    BY <1>11 DEF Allocd
  <2>2. AllocEntry(iy, p)[2] = p
    BY DEF AllocEntry
  <2> QED
    BY <2>1, <2>2, AllocatedByAddress
<1>16. Back(i3) = Back(ix) /\ Base(i3) = Base(ix)
  BY <1>6, <1>8 DEF Merged, Back, Base
<1>17. Back(ix) # p => iy.m_list # <<>> /\ LastRecord(iy) = LastRecord(ix)
  <2> SUFFICES ASSUME Back(ix) # p
               PROVE  iy.m_list # <<>> /\ LastRecord(iy) = LastRecord(ix)
    OBVIOUS
  <2>1. iy.m_list = i3.m_list /\ iy.heap = i3.heap
    BY <1>10, <1>16
  <2>2. i3.m_list # <<>> /\ Back(i3) \in DOMAIN i3.heap
    BY <1>9, RecordsWithin
  <2> QED
    BY <1>13, <1>16, <2>1, <2>2 DEF LastRecord, Back
<1>18. i3.m_list \in Seq(Ptr) /\ Len(i3.m_list) \in Nat \ {0} /\ i3.m_list # <<>>
       /\ Back(i3) = i3.m_list[Len(i3.m_list)]
  BY <1>9, RecordsWithin, BackProperties, IndexTypes
<1>19. Back(ix) = p /\ iy.m_list # <<>> =>
         /\ End(LastRecord(iy)) <= ix.heap[p].offset
         /\ Base(iy) = Base(ix)
  <2> SUFFICES ASSUME Back(ix) = p, iy.m_list # <<>>
               PROVE  /\ End(LastRecord(iy)) <= ix.heap[p].offset
                      /\ Base(iy) = Base(ix)
    OBVIOUS
  <2> DEFINE n == Len(i3.m_list)
  <2>1. /\ Len(iy.m_list) = n - 1
        /\ \A j \in 1..(n - 1) : iy.m_list[j] = i3.m_list[j]
    BY <1>10, <1>16, <1>18, FrontProperties
  <2>2. n - 1 \in Nat \ {0} /\ Back(iy) = iy.m_list[n - 1] /\ Back(iy) \in DOMAIN iy.heap
    BY <1>7, <2>1, BackProperties DEF Sound
  <2>3. /\ n \in 1..n /\ n - 1 \in 1..n /\ 1 \in 1..(n - 1) /\ n - 1 \in 1..(n - 1)
        /\ n - 1 < n
    <3>1. n \in Nat
      BY <1>18
    <3> HIDE DEF n
    <3> QED
      BY <2>2, <3>1
  <2>4. End(i3.heap[i3.m_list[n - 1]]) <= i3.heap[i3.m_list[n]].offset
    BY <1>9, <2>3, RecordsOrdered
  <2>5. End(LastRecord(iy)) <= i3.heap[p].offset
    <3>1. i3.m_list[n] = p /\ i3.m_list[n - 1] = Back(iy)
      BY <1>16, <1>18, <2>1, <2>2, <2>3
    <3>2. LastRecord(iy) = i3.heap[Back(iy)]
      BY <1>12, <2>2 DEF LastRecord
    <3> QED
      BY <2>4, <3>1, <3>2
  <2>6. i3.heap[p].offset <= ix.heap[p].offset
    BY <1>6, <1>8 DEF Merged
  <2>7. End(LastRecord(iy)) \in Nat
    BY <1>7, <2>2, RecordTypes DEF LastRecord, Sound
  <2>8. i3.heap[p].offset \in Nat /\ ix.heap[p].offset \in Nat
    BY <1>1, <1>9, RecordTypes
  <2>9. End(LastRecord(iy)) <= ix.heap[p].offset
    BY <2>5, <2>6, <2>7, <2>8
  <2>10. iy.m_list[1] = i3.m_list[1] /\ iy.m_list[1] \in DOMAIN iy.heap
    BY <1>7, <2>1, <2>2, <2>3, RecordsWithin DEF Sound
  <2>11. Base(iy) = Base(i3)
    BY <1>12, <2>10 DEF Base
  <2> QED
    BY <1>16, <2>9, <2>11
<1>20. Back(ix) # p => Base(iy) = Base(ix)
  BY <1>10, <1>16 DEF Base
<1> QED
  BY <1>11, <1>12, <1>13, <1>14, <1>15, <1>17, <1>19, <1>20 DEF Deallocated

-----------------------------------------------------------------------------
(* allocate *)

\* One more block is allocated in iy than in ix: the one at p.
Granted(ix, iy, p) ==
  /\ Keeps(ix, iy, p)
  /\ ~Allocd(ix, p)
  /\ Allocd(iy, p)
  /\ iy.m_list # <<>>

\* allocate takes a free block whole.
LEMMA TakeWholeFields ==
  ASSUME NEW ix, NEW L, Sound(ix, L), NEW e \in ix.m_free, NEW key,
         NEW iy, iy = TakeWhole(ix, e, key)
  PROVE  /\ iy.m_list = ix.m_list
         /\ iy.m_alloc = ix.m_alloc \cup {<<key, e[2]>>}
         /\ e[2] \in DOMAIN ix.heap /\ DOMAIN iy.heap = DOMAIN ix.heap
         /\ \A x \in DOMAIN ix.heap : x # e[2] => iy.heap[x] = ix.heap[x]
         /\ iy.heap[e[2]].offset = ix.heap[e[2]].offset
         /\ iy.heap[e[2]].size = ix.heap[e[2]].size
         /\ iy.heap[e[2]].key = key
<1> DEFINE q == e[2]
           a == ix.m_alloc \cup {<<key, q>>}
           f == ix.m_free \ {e}
           r == [ix.heap[q] EXCEPT !.key = key]
           h == [ix.heap EXCEPT ![q] = r]
<1>1. IsIndex(ix) /\ q \in DOMAIN ix.heap
  BY DEF Sound, Shape, Filed
<1>2. ix.heap[q] \in Record /\ ix.heap \in [DOMAIN ix.heap -> Record]
  BY <1>1, IndexTypes DEF IsIndex
<1>3. r.offset = ix.heap[q].offset /\ r.size = ix.heap[q].size /\ r.key = key
  BY <1>2 DEF Record
<1>4. iy = [ix EXCEPT !.m_alloc = a, !.m_free = f, !.heap = h]
  BY DEF TakeWhole
<1> HIDE DEF r
<1>5. DOMAIN h = DOMAIN ix.heap /\ h[q] = r
      /\ \A x \in DOMAIN ix.heap : x # q => h[x] = ix.heap[x]
  BY <1>1, <1>2
<1> HIDE DEF a, f, h
<1>6. iy.m_list = ix.m_list /\ iy.m_alloc = a /\ iy.heap = h
  BY <1>1, <1>4 DEF IsIndex
<1> QED
  BY <1>1, <1>3, <1>5, <1>6 DEF a

\* Or its left part.
LEMMA TakeLeftFields ==
  ASSUME NEW ix, NEW L, Sound(ix, L), NEW e \in ix.m_free, NEW key \in Key,
         NEW size \in Nat, size > 0, ~TakesWhole(ix.heap[e[2]], size),
         NEW p \in Fresh(ix), NEW k, k = PositionOf(ix, e[2]),
         NEW iy, iy = TakeLeft(ix, e, size, key, p)
  PROVE  /\ k \in 1..Len(ix.m_list) /\ ix.m_list[k] = e[2]
         /\ Len(iy.m_list) = Len(ix.m_list) + 1
         /\ \A j \in 1..(Len(ix.m_list) + 1) :
              iy.m_list[j] = IF j < k THEN ix.m_list[j]
                             ELSE IF j = k THEN p ELSE ix.m_list[j - 1]
         /\ iy.m_alloc = ix.m_alloc \cup {<<key, p>>}
         /\ e[2] \in DOMAIN ix.heap /\ p \notin DOMAIN ix.heap
         /\ DOMAIN iy.heap = DOMAIN ix.heap \cup {p}
         /\ \A x \in DOMAIN ix.heap : x # e[2] => iy.heap[x] = ix.heap[x]
         /\ iy.heap[p].offset = ix.heap[e[2]].offset
         /\ iy.heap[p].size = size
         /\ iy.heap[p].key = key
<1> DEFINE q == e[2]
           D == DOMAIN ix.heap
           r == ix.heap[q]
           m == InsertAt(ix.m_list, k, p)
           a == ix.m_alloc \cup {<<key, p>>}
           f == (ix.m_free \ {e}) \cup {<<r.size - size, q>>}
           t == Handed(r, size, key)
           u == RightPart(r, size)
           h == [x \in D \cup {p} |-> CASE x = p -> t [] x = q -> u [] OTHER -> ix.heap[x]]
<1>1. IsIndex(ix) /\ Shape(ix, L) /\ q \in D
  BY DEF Sound, Shape, Filed
<1>2. /\ ix.m_list \in Seq(Ptr) /\ r \in Record
      /\ p \in Ptr /\ p \notin D
  BY <1>1, IndexTypes DEF Fresh
<1>3. k \in 1..Len(ix.m_list) /\ ix.m_list[k] = q
  BY <1>1, PositionOfProperties
<1>4. iy = [ix EXCEPT !.m_list = m, !.m_alloc = a, !.m_free = f, !.heap = h]
  BY DEF TakeLeft, Handed
<1>5. t.offset = r.offset /\ t.size = size /\ t.key = key
  <2> HIDE DEF r
  <2>1. ~TakesWhole(r, size)
    BY DEF r
  <2> QED
    BY <1>2, <2>1, SplitProperties
<1> HIDE DEF t, u
<1>6. /\ DOMAIN h = D \cup {p} /\ h[p] = t
      /\ \A x \in D : x # q => h[x] = ix.heap[x]
  BY <1>1, <1>2
<1>7. /\ Len(m) = Len(ix.m_list) + 1
      /\ \A j \in 1..(Len(ix.m_list) + 1) :
           m[j] = IF j < k THEN ix.m_list[j] ELSE IF j = k THEN p ELSE ix.m_list[j - 1]
  <2> DEFINE l == ix.m_list
  <2>1. l \in Seq(Ptr) /\ k \in 1..Len(l) /\ p \in Ptr /\ m = InsertAt(l, k, p)
    BY <1>2, <1>3
  <2> HIDE DEF l, m
  <2>2. /\ Len(m) = Len(l) + 1
        /\ \A j \in 1..(Len(l) + 1) :
             m[j] = IF j < k THEN l[j] ELSE IF j = k THEN p ELSE l[j - 1]
    BY ONLY <2>1, InsertAtProperties
  <2> QED
    BY <2>2 DEF l
<1> HIDE DEF m, a, f, h
<1>8. iy.m_list = m /\ iy.m_alloc = a /\ iy.heap = h
  BY <1>1, <1>4 DEF IsIndex
<1> QED
  BY <1>1, <1>2, <1>3, <1>5, <1>6, <1>7, <1>8 DEF a

\* What allocate has changed of a sound index ix, when it returns the record
\* at p: one block is allocated that was not, within the range the index had.
Allotted(ix, iy, p, size, key) ==
  /\ Granted(ix, iy, p)
  /\ iy.heap[p].key = key
  /\ size <= iy.heap[p].size
  /\ ix.m_list # <<>>
  /\ Back(iy) = Back(ix) /\ LastRecord(iy) = LastRecord(ix)
  /\ Base(iy) = Base(ix)

\* One more entry in m_alloc, for a record that was not allocated.
LEMMA EntryGranted ==
  ASSUME NEW ix, NEW iy, NEW p, NEW key, ~Allocd(ix, p),
         iy.m_list # <<>>,
         iy.m_alloc = ix.m_alloc \cup {<<key, p>>},
         p \in DOMAIN iy.heap, iy.heap[p].key = key,
         DOMAIN ix.heap \subseteq DOMAIN iy.heap,
         \A x \in DOMAIN ix.heap : x # p => iy.heap[x] = ix.heap[x] \/ ~Allocd(ix, x),
         \A x \in DOMAIN iy.heap : AllocEntry(iy, x) \in ix.m_alloc => Allocd(ix, x)
  PROVE  Granted(ix, iy, p)
<1>1. Allocd(iy, p)
  BY DEF Allocd, AllocEntry
<1>2. ASSUME NEW x, x # p
      PROVE  /\ Allocd(iy, x) <=> Allocd(ix, x)
             /\ Allocd(ix, x) => iy.heap[x] = ix.heap[x]
  <2>1. AllocEntry(iy, x) # <<key, p>>
    BY <1>2 DEF AllocEntry
  <2>2. Allocd(iy, x) => Allocd(ix, x)
    BY <2>1 DEF Allocd
  <2>3. Allocd(ix, x) => x \in DOMAIN iy.heap /\ iy.heap[x] = ix.heap[x]
    BY <1>2 DEF Allocd
  <2>4. Allocd(ix, x) => Allocd(iy, x)
    BY <2>3 DEF Allocd, AllocEntry
  <2> QED
    BY <2>2, <2>3, <2>4
<1> QED
  BY <1>1, <1>2 DEF Granted, Keeps

\* allocate hands out one block; the others stay where they are, and so do the
\* first byte and the last record of the index.
LEMMA AllocateEffect ==
  ASSUME NEW ix, NEW L \in Nat, Sound(ix, L), NEW key \in Key,
         NEW size \in Nat, size > 0,
         NEW e \in LowerBound(ix, size), NEW p \in Fresh(ix),
         NEW iy, iy = Allocate(ix, e, size, key, p),
         NEW a, a = Allocated(ix, e, size, p)
  PROVE  Allotted(ix, iy, a, size, key)
<1> DEFINE q == e[2]
           n == Len(ix.m_list)
<1>1. /\ e \in ix.m_free /\ size <= e[1]
      /\ q \in DOMAIN ix.heap /\ e = FreeEntry(ix, q) /\ FiledFree(ix, q)
      /\ Shape(ix, L) /\ Coalesced(ix)
  BY DEF LowerBound, Sound, Filed, FiledFree
<1>2. size <= ix.heap[q].size /\ ~Allocd(ix, q)
  BY <1>1, AllocatedByAddress DEF FreeEntry
<1>3. ix.m_list # <<>> /\ Back(ix) \in DOMAIN ix.heap /\ Back(ix) # q
      /\ ix.m_list[1] \in DOMAIN ix.heap
  BY <1>1, RecordsWithin DEF Coalesced
<1>4. n \in Nat \ {0} /\ Back(ix) = ix.m_list[n]
  BY <1>1, <1>3, BackProperties
<1>5. \A x \in DOMAIN ix.heap : \A k : <<k, x>> \in ix.m_alloc => Allocd(ix, x)
  BY AllocatedByAddress
<1>6. CASE TakesWhole(ix.heap[q], size)
  <2>1. iy = TakeWhole(ix, e, key) /\ a = q
    BY <1>6 DEF Allocate, Allocated
  <2>2. /\ iy.m_list = ix.m_list
        /\ iy.m_alloc = ix.m_alloc \cup {<<key, q>>}
        /\ DOMAIN iy.heap = DOMAIN ix.heap
        /\ \A x \in DOMAIN ix.heap : x # q => iy.heap[x] = ix.heap[x]
        /\ iy.heap[q].offset = ix.heap[q].offset
        /\ iy.heap[q].size = ix.heap[q].size
        /\ iy.heap[q].key = key
    BY <1>1, <2>1, TakeWholeFields
  <2>3. \A x \in DOMAIN iy.heap : AllocEntry(iy, x) \in ix.m_alloc => Allocd(ix, x)
    BY <1>5, <2>2 DEF AllocEntry
  <2>4. Granted(ix, iy, q)
    BY <1>1, <1>2, <1>3, <2>2, <2>3, EntryGranted
  <2>5. Base(iy) = Base(ix)
    BY <1>3, <2>2 DEF Base
  <2>6. Back(iy) = Back(ix) /\ LastRecord(iy) = LastRecord(ix)
    BY <1>3, <2>2 DEF Back, LastRecord
  <2> QED
    BY <1>2, <1>3, <2>1, <2>2, <2>4, <2>5, <2>6 DEF Allotted
<1>7. CASE ~TakesWhole(ix.heap[q], size)
  <2> DEFINE k == PositionOf(ix, q)
  <2>1. iy = TakeLeft(ix, e, size, key, p) /\ a = p
    BY <1>7 DEF Allocate, Allocated
  <2>2. /\ k \in 1..n /\ ix.m_list[k] = q
        /\ Len(iy.m_list) = n + 1
        /\ \A j \in 1..(n + 1) :
             iy.m_list[j] = IF j < k THEN ix.m_list[j]
                            ELSE IF j = k THEN p ELSE ix.m_list[j - 1]
        /\ iy.m_alloc = ix.m_alloc \cup {<<key, p>>}
        /\ p \notin DOMAIN ix.heap
        /\ DOMAIN iy.heap = DOMAIN ix.heap \cup {p}
        /\ \A x \in DOMAIN ix.heap : x # q => iy.heap[x] = ix.heap[x]
        /\ iy.heap[p].offset = ix.heap[q].offset
        /\ iy.heap[p].size = size
        /\ iy.heap[p].key = key
    BY <1>1, <1>7, <2>1, TakeLeftFields
  <2> HIDE DEF k, n
  <2>3. \A x \in DOMAIN iy.heap : AllocEntry(iy, x) \in ix.m_alloc => Allocd(ix, x)
    BY AllocatedByAddress DEF AllocEntry
  <2>4. iy.m_list # <<>> /\ Shape(iy, L)
    <3>1. Sound(iy, L)
      BY AllocateSound
    <3>2. Shape(iy, L)
      BY <3>1 DEF Sound
    <3> QED
      BY <2>2, <3>2, RecordsWithin
  <2>5. Granted(ix, iy, p)
    BY <1>2, <2>2, <2>3, <2>4, EntryGranted DEF Allocd
  <2>6. Back(iy) = Back(ix)
    <3>1. Back(iy) = iy.m_list[n + 1]
      BY <2>2, <2>4, BackProperties
    <3>2. n + 1 \in 1..(n + 1) /\ ~(n + 1 < k) /\ n + 1 # k /\ (n + 1) - 1 = n
      BY <1>4, <2>2
    <3>3. iy.m_list[n + 1] = ix.m_list[(n + 1) - 1]
      BY <2>2, <3>2
    <3> QED
      BY <1>4, <3>1, <3>2, <3>3
  <2>7. LastRecord(iy) = LastRecord(ix)
    BY <1>3, <2>2, <2>6 DEF LastRecord
  <2>8. Base(iy) = Base(ix)
    <3>1. 1 \in 1..(n + 1)
      BY <1>4
    <3>2. CASE k = 1
      <4>1. iy.m_list[1] = p /\ ix.m_list[1] = q
        BY <2>2, <3>1, <3>2
      <4> QED
        BY <2>2, <4>1 DEF Base
    <3>3. CASE k # 1
      <4>1. 1 < k /\ 1 \in 1..n
        BY <1>4, <2>2, <3>3
      <4>2. iy.m_list[1] = ix.m_list[1]
        BY <2>2, <3>1, <4>1
      <4>3. ix.m_list[1] # q
        <5>1. \A i, j \in 1..n : ix.m_list[i] = ix.m_list[j] => i = j
          BY <1>1, ShapeByPosition DEF Enumerates, n
        <5> QED
          BY <2>2, <3>3, <4>1, <5>1
      <4> QED
        BY <1>3, <2>2, <4>2, <4>3 DEF Base
    <3> QED
      BY <3>2, <3>3
  <2>9. size <= iy.heap[p].size
    BY <2>2
  <2> QED
    BY <1>3, <2>1, <2>2, <2>5, <2>6, <2>7, <2>8, <2>9 DEF Allotted
<1> QED
  BY <1>6, <1>7

-----------------------------------------------------------------------------
(* addAllocatedBlock *)

\* What addAllocatedBlock has changed of a sound index ix, when it has put the
\* record r at p: one more block at the end.
Added(ix, iy, p, r) ==
  /\ Granted(ix, iy, p)
  /\ iy.heap[p] = r
  /\ Back(iy) = p /\ LastRecord(iy) = r
  /\ Base(iy) = IF ix.m_list = <<>> THEN r.offset ELSE Base(ix)

\* A push leaves the first record where it is, and becomes the last one.
LEMMA PushedEnds ==
  ASSUME NEW ix, NEW L, Shape(ix, L), NEW p, NEW r, NEW a, NEW f, NEW iy,
         Pushed(ix, L, p, r, a, f, iy)
  PROVE  /\ Back(iy) = p /\ LastRecord(iy) = r
         /\ Base(iy) = IF ix.m_list = <<>> THEN r.offset ELSE Base(ix)
<1> DEFINE n == Len(ix.m_list)
<1>1. /\ Shape(iy, L) /\ iy.m_list # <<>>
      /\ Len(iy.m_list) = n + 1
      /\ \A j \in 1..n : iy.m_list[j] = ix.m_list[j]
      /\ iy.m_list[n + 1] = p
      /\ \A x \in DOMAIN ix.heap : iy.heap[x] = ix.heap[x]
      /\ iy.heap[p] = r /\ LastRecord(iy) = r
  BY DEF Pushed
<1>2. Back(iy) = p
  BY <1>1, BackProperties
<1>3. ix.m_list = <<>> => Base(iy) = r.offset
  BY <1>1 DEF Base
<1>4. ix.m_list # <<>> => Base(iy) = Base(ix)
  <2> SUFFICES ASSUME ix.m_list # <<>> PROVE Base(iy) = Base(ix)
    OBVIOUS
  <2>1. n \in Nat \ {0} /\ Back(ix) \in DOMAIN ix.heap
    BY BackProperties
  <2>2. ix.m_list[1] \in DOMAIN ix.heap
    BY <2>1, RecordsWithin
  <2>3. 1 \in 1..n
    BY <2>1
  <2>4. iy.m_list[1] = ix.m_list[1]
    BY <1>1, <2>3
  <2> QED
    BY <1>1, <2>2, <2>4 DEF Base
<1> QED
  BY <1>1, <1>2, <1>3, <1>4

\* addAllocatedBlock adds the block it is given; the others stay where they are.
LEMMA AddEffect ==
  ASSUME NEW ix, NEW L \in Nat, L < U32, Sound(ix, L),
         NEW p \in Fresh(ix), NEW g \in Fresh(ix), p # g,
         NEW r \in Record, r.size > 0, End(r) <= L, ~Overlaps(ix, r),
         NEW iy, iy = AddAllocatedBlock(ix, p, g, r)
  PROVE  Added(ix, iy, p, r)
<1>1. Shape(ix, L) /\ p \notin DOMAIN ix.heap /\ g \notin DOMAIN ix.heap
  BY DEF Sound, Fresh
<1>2. ~Allocd(ix, p) /\ ~Allocd(ix, g)
  BY <1>1 DEF Allocd
<1>3. CASE ix.m_list = <<>> \/ SharesRightBoundary(LastRecord(ix), r)
  <2>1. Pushed(ix, L, p, r, ix.m_alloc \cup {<<r.key, p>>}, ix.m_free, iy)
    BY <1>3, AddOne
  <2>2. /\ iy.m_alloc = ix.m_alloc \cup {<<r.key, p>>}
        /\ DOMAIN iy.heap = DOMAIN ix.heap \cup {p}
        /\ \A x \in DOMAIN ix.heap : iy.heap[x] = ix.heap[x]
        /\ iy.heap[p] = r /\ iy.m_list # <<>>
    BY <2>1 DEF Pushed
  <2>3. \A x \in DOMAIN iy.heap : AllocEntry(iy, x) \in ix.m_alloc => Allocd(ix, x)
    BY AllocatedByAddress DEF AllocEntry
  <2>4. Granted(ix, iy, p)
    BY <1>2, <2>2, <2>3, EntryGranted
  <2> QED
    BY <1>1, <2>1, <2>2, <2>4, PushedEnds DEF Added
<1>4. CASE ix.m_list # <<>> /\ ~SharesRightBoundary(LastRecord(ix), r)
  <2>1. PICK t, im :
          /\ Pushed(ix, L, g, t, ix.m_alloc, ix.m_free \cup {<<t.size, g>>}, im)
          /\ Pushed(im, L, p, r, im.m_alloc \cup {<<r.key, p>>}, im.m_free, iy)
    BY <1>4, AddTwo
  <2>2. /\ im.m_alloc = ix.m_alloc /\ im.m_list # <<>> /\ Shape(im, L)
        /\ DOMAIN im.heap = DOMAIN ix.heap \cup {g}
        /\ \A x \in DOMAIN ix.heap : im.heap[x] = ix.heap[x]
    BY <2>1 DEF Pushed
  <2>3. /\ iy.m_alloc = ix.m_alloc \cup {<<r.key, p>>}
        /\ DOMAIN iy.heap = DOMAIN im.heap \cup {p}
        /\ \A x \in DOMAIN im.heap : iy.heap[x] = im.heap[x]
        /\ iy.heap[p] = r /\ iy.m_list # <<>>
    BY <2>1, <2>2 DEF Pushed
  <2>4. \A x \in DOMAIN iy.heap : AllocEntry(iy, x) \in ix.m_alloc => Allocd(ix, x)
    BY AllocatedByAddress DEF AllocEntry
  <2>5. Granted(ix, iy, p)
    BY <1>2, <2>2, <2>3, <2>4, EntryGranted
  <2>6. Base(im) = Base(ix)
    BY <1>1, <1>4, <2>1, PushedEnds
  <2>7. Back(iy) = p /\ LastRecord(iy) = r /\ Base(iy) = Base(im)
    BY <2>1, <2>2, PushedEnds
  <2> QED
    BY <1>4, <2>3, <2>5, <2>6, <2>7 DEF Added
<1> QED
  BY <1>3, <1>4

-----------------------------------------------------------------------------
(* The allocated blocks, without their addresses *)

AllocatedRecords(ix) == {ix.heap[e[2]] : e \in ix.m_alloc}

\* They are the records at the allocated addresses.
LEMMA AllocatedRecordsByAddress ==
  ASSUME NEW ix, NEW L, Sound(ix, L)
  PROVE  \A r : r \in AllocatedRecords(ix) <=>
                 \E q \in DOMAIN ix.heap : Allocd(ix, q) /\ r = ix.heap[q]
<1>1. ASSUME NEW r \in AllocatedRecords(ix)
      PROVE  \E q \in DOMAIN ix.heap : Allocd(ix, q) /\ r = ix.heap[q]
  <2>1. PICK e \in ix.m_alloc : r = ix.heap[e[2]]
    BY DEF AllocatedRecords
  <2>2. Allocd(ix, e[2])
    BY AllocatedByAddress
  <2> QED
    BY <2>1, <2>2 DEF Allocd
<1>2. ASSUME NEW q \in DOMAIN ix.heap, Allocd(ix, q)
      PROVE  ix.heap[q] \in AllocatedRecords(ix)
  <2>1. AllocEntry(ix, q) \in ix.m_alloc /\ AllocEntry(ix, q)[2] = q
    BY <1>2 DEF Allocd, AllocEntry
  <2> QED
    BY <2>1 DEF AllocatedRecords
<1> QED
  BY <1>1, <1>2

\* They are blocks of the range the index manages, and they are disjoint.
LEMMA AllocatedRecordTypes ==
  ASSUME NEW ix, NEW L, Sound(ix, L), NEW r \in AllocatedRecords(ix)
  PROVE  /\ r \in Record /\ r.offset \in Nat /\ r.key \in Key /\ r.size \in Nat
         /\ r.size > 0 /\ End(r) \in Nat /\ End(r) <= L
         /\ ix.m_list # <<>>
         /\ Base(ix) <= r.offset /\ End(r) <= End(LastRecord(ix))
         /\ \A s \in AllocatedRecords(ix) :
              r # s => End(r) <= s.offset \/ End(s) <= r.offset
<1>1. PICK q \in DOMAIN ix.heap : r = ix.heap[q]
  BY AllocatedRecordsByAddress
<1>2. Shape(ix, L)
  BY DEF Sound
<1>3. \A s \in AllocatedRecords(ix) : \E x \in DOMAIN ix.heap : s = ix.heap[x]
  BY AllocatedRecordsByAddress
<1> QED
  BY <1>1, <1>2, <1>3, RecordTypes, RecordsWithin, RecordsDisjoint

\* Two addresses do not hold the same record.
LEMMA SameRecord ==
  ASSUME NEW ix, NEW L, Shape(ix, L), NEW p \in DOMAIN ix.heap,
         NEW q \in DOMAIN ix.heap, ix.heap[p] = ix.heap[q]
  PROVE  p = q
<1>1. /\ ix.heap[p].offset < End(ix.heap[p])
      /\ ix.heap[p].offset \in Nat /\ End(ix.heap[p]) \in Nat
  BY RecordTypes
<1> QED
  BY <1>1, RecordsDisjoint

\* deallocate removes one of them.
LEMMA DeallocatedRecords ==
  ASSUME NEW ix, NEW iy, NEW L, NEW p, Sound(ix, L), Sound(iy, L),
         Allocd(ix, p), Deallocated(ix, iy, p)
  PROVE  /\ ix.heap[p] \in AllocatedRecords(ix)
         /\ AllocatedRecords(iy) = AllocatedRecords(ix) \ {ix.heap[p]}
<1>1. p \in DOMAIN ix.heap /\ Shape(ix, L)
  BY DEF Allocd, Sound
<1>2. Keeps(ix, iy, p) /\ ~Allocd(iy, p)
  BY DEF Deallocated
<1>3. \A q \in DOMAIN ix.heap : ix.heap[q] = ix.heap[p] => q = p
  BY <1>1, SameRecord
<1>4. ASSUME NEW r \in AllocatedRecords(iy)
      PROVE  r \in AllocatedRecords(ix) /\ r # ix.heap[p]
  <2>1. PICK q \in DOMAIN iy.heap : Allocd(iy, q) /\ r = iy.heap[q]
    BY AllocatedRecordsByAddress
  <2>2. q # p /\ Allocd(ix, q) /\ r = ix.heap[q] /\ q \in DOMAIN ix.heap
    BY <1>2, <2>1 DEF Keeps, Allocd
  <2> QED
    BY <1>3, <2>2, AllocatedRecordsByAddress
<1>5. ASSUME NEW r \in AllocatedRecords(ix), r # ix.heap[p]
      PROVE  r \in AllocatedRecords(iy)
  <2>1. PICK q \in DOMAIN ix.heap : Allocd(ix, q) /\ r = ix.heap[q]
    BY AllocatedRecordsByAddress
  <2>2. Allocd(iy, q) /\ r = iy.heap[q] /\ q \in DOMAIN iy.heap
    BY <1>2, <1>5, <2>1 DEF Keeps, Allocd
  <2> QED
    BY <2>2, AllocatedRecordsByAddress
<1>6. ix.heap[p] \in AllocatedRecords(ix)
  BY <1>1, AllocatedRecordsByAddress
<1> QED
  BY <1>4, <1>5, <1>6

\* allocate and addAllocatedBlock add one.
LEMMA GrantedRecords ==
  ASSUME NEW ix, NEW iy, NEW L, NEW p, Sound(ix, L), Sound(iy, L), Granted(ix, iy, p)
  PROVE  /\ p \in DOMAIN iy.heap
         /\ iy.heap[p] \notin AllocatedRecords(ix)
         /\ AllocatedRecords(iy) = AllocatedRecords(ix) \cup {iy.heap[p]}
<1>1. p \in DOMAIN iy.heap /\ Shape(iy, L)
  BY DEF Granted, Allocd, Sound
<1>2. Keeps(ix, iy, p) /\ ~Allocd(ix, p) /\ Allocd(iy, p)
  BY DEF Granted
<1>3. \A q \in DOMAIN iy.heap : iy.heap[q] = iy.heap[p] => q = p
  BY <1>1, SameRecord
<1>4. ASSUME NEW r \in AllocatedRecords(ix)
      PROVE  r \in AllocatedRecords(iy) /\ r # iy.heap[p]
  <2>1. PICK q \in DOMAIN ix.heap : Allocd(ix, q) /\ r = ix.heap[q]
    BY AllocatedRecordsByAddress
  <2>2. q # p /\ Allocd(iy, q) /\ r = iy.heap[q] /\ q \in DOMAIN iy.heap
    BY <1>2, <2>1 DEF Keeps, Allocd
  <2> QED
    BY <1>3, <2>2, AllocatedRecordsByAddress
<1>5. ASSUME NEW r \in AllocatedRecords(iy), r # iy.heap[p]
      PROVE  r \in AllocatedRecords(ix)
  <2>1. PICK q \in DOMAIN iy.heap : Allocd(iy, q) /\ r = iy.heap[q]
    BY AllocatedRecordsByAddress
  <2>2. Allocd(ix, q) /\ r = ix.heap[q] /\ q \in DOMAIN ix.heap
    BY <1>2, <1>5, <2>1 DEF Keeps, Allocd
  <2> QED
    BY <2>2, AllocatedRecordsByAddress
<1>6. iy.heap[p] \in AllocatedRecords(iy)
  BY <1>1, <1>2, AllocatedRecordsByAddress
<1> QED
  BY <1>1, <1>4, <1>5, <1>6

\* Nothing is allocated exactly when the list is empty: setMaxSize and the
\* destructor of HeapFile ask the one and rely on the other.
LEMMA EmptyExactly ==
  ASSUME NEW ix, NEW L, Sound(ix, L)
  PROVE  /\ ix.m_list = <<>> <=> ix.m_alloc = {}
         /\ ix.m_list = <<>> <=> AllocatedRecords(ix) = {}
         /\ ix.m_list # <<>> => LastRecord(ix) \in AllocatedRecords(ix)
<1>1. ix.m_list # <<>> => /\ Allocd(ix, Back(ix)) /\ Back(ix) \in DOMAIN ix.heap
                          /\ ix.m_alloc # {}
  BY LastIsAllocated DEF Allocd
<1>2. ix.m_list # <<>> => LastRecord(ix) \in AllocatedRecords(ix)
  BY <1>1, AllocatedRecordsByAddress DEF LastRecord
<1>3. ix.m_alloc # {} => AllocatedRecords(ix) # {}
  BY DEF AllocatedRecords
<1>4. AllocatedRecords(ix) # {} => ix.m_list # <<>>
  BY AllocatedRecordTypes
<1> QED
  BY <1>1, <1>2, <1>3, <1>4
=============================================================================
