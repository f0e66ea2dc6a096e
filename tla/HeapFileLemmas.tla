---------------------------- MODULE HeapFileLemmas ----------------------------
(***************************************************************************)
(* What the helpers of HeapFile do to an index and a file that agree:      *)
(* release, writeData and the commit, and the set of objects stored before *)
(* and after them.  What the calls do to the index alone is in module      *)
(* IndexEffects.  The structure of the file (FileOK, Covers, Loadable) is  *)
(* kept apart from what its blocks hold (Blobs, Intact).                   *)
(***************************************************************************)
EXTENDS HeapFile, IndexEffects, FiniteSetTheorems, TLAPS

-----------------------------------------------------------------------------
(* The structure of the file *)

IsFile(f) ==
  f \in [size : Nat, head : Nat, blobs : SUBSET Blob, torn : SUBSET TornBlob,
         tables : SUBSET Table]

\* A record of a block that a heap file may hand out.
RecordOK(r) ==
  r \in Record /\ r.size > 0 /\ HEAD_SIZE <= r.offset /\ End(r) <= FileLimit

\* Each record ends before the ones behind it begin.
Ordered(s) == \A i, j \in DOMAIN s : i < j => End(s[i]) <= s[j].offset

\* What the destructor writes: some records, in order, that end in front of it.
WellFormed(t) ==
  /\ t.records # <<>>
  /\ Ordered(t.records)
  /\ \A i \in DOMAIN t.records :
       RecordOK(t.records[i]) /\ End(t.records[i]) <= t.offset

\* The blobs lie apart.
Blobs(B) ==
  /\ B \subseteq Blob
  /\ \A b \in B : b.size > 0 /\ ID_SIZE <= b.size
  /\ \A b, c \in B : b = c \/ ~Overlap(b, c)

\* What is left of others starts elsewhere, and nothing is over the head.
Apart(B, U) ==
  /\ \A b \in B : HEAD_SIZE <= b.offset
  /\ \A t \in U : HEAD_SIZE <= t.offset
  /\ \A b \in B, t \in U : b.offset # t.offset

FileOK(f) ==
  /\ IsFile(f) /\ Blobs(f.blobs) /\ Apart(f.blobs, f.torn)
  /\ \A t \in f.tables : WellFormed(t) /\ End(t) <= f.size

\* The records of the index lie between the head and the end of the file.
Covers(f, ix) ==
  ix.m_list # <<>> => HEAD_SIZE <= Base(ix) /\ End(LastRecord(ix)) <= f.size

\* The constructor can add the records of s to the index one after another.
Loadable(f, ix, s) ==
  /\ s # <<>>
  /\ Ordered(s)
  /\ \A i \in DOMAIN s : RecordOK(s[i]) /\ End(s[i]) <= f.size
  /\ ix.m_list # <<>> => End(LastRecord(ix)) <= s[1].offset

-----------------------------------------------------------------------------
(* What the blocks of the file hold *)

\* The blob is the object of the block that the record describes.
Holds(b, r) == b.offset = r.offset /\ End(b) <= End(r) /\ Hash[b.id] = r.key

\* The blobs that a set of records leads to.
StoredOf(R, B) == {b \in B : \E r \in R : r.offset = b.offset}

Distinct(S) == \A b, c \in S : b.id = c.id => b = c

\* Each record describes a block with an object, no two with that of one id.
Intact(R, B) ==
  /\ \A r \in R : \E b \in B : Holds(b, r)
  /\ Distinct(StoredOf(R, B))

\* The objects of a set of blobs, by id.
StoreOf(S) == [id \in {b.id : b \in S} |-> (CHOOSE b \in S : b.id = id).data]

-----------------------------------------------------------------------------
(* Counting and listing the allocated records *)

\* The set can be listed in ascending order.
Listable(S) ==
  \E s \in Surjection(1..Cardinality(S), S) :
    \A i, j \in 1..Cardinality(S) : i < j => s[i] < s[j]

\* One more element, larger than the others.
LEMMA ListOneMore ==
  ASSUME NEW m \in Nat \ {0}, NEW S \in SUBSET (1..(m - 1)), Listable(S)
  PROVE  Listable(S \cup {m})
<1> DEFINE c == Cardinality(S)
           T == S \cup {m}
<1>1. IsFiniteSet(S) /\ c \in Nat
  <2>1. IsFiniteSet(1..(m - 1))
    BY FS_Interval
  <2> QED
    BY <2>1, FS_Subset, FS_CardinalityType
<1>2. m \notin S /\ \A x \in S : x < m
  OBVIOUS
<1>3. Cardinality(T) = c + 1
  BY <1>1, <1>2, FS_AddElement
<1>4. PICK s \in Surjection(1..c, S) :
        \A i, j \in 1..c : i < j => s[i] < s[j]
  BY DEF Listable
<1>5. s \in [1..c -> S] /\ \A x \in S : \E i \in 1..c : s[i] = x
  BY <1>4 DEF Surjection
<1> HIDE DEF c
<1> DEFINE t == [i \in 1..(c + 1) |-> IF i = c + 1 THEN m ELSE s[i]]
<1>6. /\ t[c + 1] = m
      /\ \A i \in 1..c : t[i] = s[i] /\ i \in 1..(c + 1)
      /\ \A i \in 1..(c + 1) : i = c + 1 \/ i \in 1..c
  BY <1>1
<1>7. t \in [1..(c + 1) -> T]
  BY <1>1, <1>5
<1> HIDE DEF t
<1>8. \A x \in T : \E i \in 1..(c + 1) : t[i] = x
  BY <1>1, <1>5, <1>6
<1>9. \A i, j \in 1..(c + 1) : i < j => t[i] < t[j]
  <2> SUFFICES ASSUME NEW i \in 1..(c + 1), NEW j \in 1..(c + 1), i < j
               PROVE  t[i] < t[j]
    OBVIOUS
  <2>1. i \in 1..c
    BY <1>1, <1>6
  <2>2. CASE j = c + 1
    BY <1>2, <1>5, <1>6, <2>1, <2>2
  <2>3. CASE j # c + 1
    BY <1>4, <1>6, <2>1, <2>3
  <2> QED
    BY <2>2, <2>3
<1>10. t \in Surjection(1..(c + 1), T)
  BY <1>7, <1>8 DEF Surjection
<1> QED
  BY <1>3, <1>9, <1>10 DEF Listable

\* Every finite set of positions can be listed (the loop of the destructor
\* over m_list): the smallest bound with a set that cannot is not there.
LEMMA AllListable ==
  ASSUME NEW n \in Nat, NEW S \in SUBSET (1..n)
  PROVE  Listable(S)
<1> DEFINE Bad == {m \in Nat : \E T \in SUBSET (1..m) : ~Listable(T)}
<1> SUFFICES ASSUME ~Listable(S) PROVE FALSE
  OBVIOUS
<1>1. n \in Bad
  OBVIOUS
<1>2. PICK m \in Bad : \A k \in Bad : m <= k
  BY <1>1, LeastElement
<1>3. PICK T \in SUBSET (1..m) : ~Listable(T)
  BY <1>2
<1>4. m # 0
  <2> SUFFICES ASSUME m = 0 PROVE FALSE
    OBVIOUS
  <2>0. 1..0 = {}
    OBVIOUS
  <2>1. T = {} /\ Cardinality(T) = 0
    BY <1>3, <2>0, FS_EmptySet
  <2>2. [i \in {} |-> 0] \in Surjection(1..0, {})
    BY <2>0 DEF Surjection
  <2> QED
    BY <1>3, <2>0, <2>1, <2>2 DEF Listable
<1>5. m - 1 \in Nat /\ m \in Nat \ {0}
  BY <1>2, <1>4
<1>6. \A U \in SUBSET (1..(m - 1)) : Listable(U)
  <2>1. m - 1 \notin Bad
    <3> HIDE DEF Bad
    <3> SUFFICES ASSUME m - 1 \in Bad PROVE FALSE
      OBVIOUS
    <3>1. m <= m - 1
      BY <1>2
    <3> QED
      BY <1>5, <3>1
  <2> SUFFICES ASSUME NEW U \in SUBSET (1..(m - 1)), ~Listable(U) PROVE FALSE
    OBVIOUS
  <2>2. \E T1 \in SUBSET (1..(m - 1)) : ~Listable(T1)
    OBVIOUS
  <2>3. m - 1 \in Bad
    BY <1>5, <2>2
  <2> QED
    BY <2>1, <2>3
<1>7. m \in T
  <2> SUFFICES ASSUME m \notin T PROVE FALSE
    OBVIOUS
  <2>1. T \in SUBSET (1..(m - 1))
    BY <1>3, <1>5
  <2> QED
    BY <1>3, <1>6, <2>1
<1>8. T \ {m} \in SUBSET (1..(m - 1)) /\ (T \ {m}) \cup {m} = T
  BY <1>3, <1>5, <1>7
<1> QED
  BY <1>3, <1>5, <1>6, <1>8, ListOneMore

\* s lists the c members of S in ascending order.
Lists(s, c, S) ==
  /\ c \in Nat
  /\ s \in [1..c -> S]
  /\ \A x \in S : \E i \in 1..c : s[i] = x
  /\ \A i, j \in 1..c : i < j => s[i] < s[j]

\* What the operator chooses is such a list.
LEMMA AscendingProperties ==
  ASSUME NEW n \in Nat, NEW S \in SUBSET (1..n)
  PROVE  Lists(Ascending(S), Cardinality(S), S)
<1> DEFINE s == Ascending(S)
           c == Cardinality(S)
<1>1. IsFiniteSet(S) /\ c \in Nat
  <2>1. IsFiniteSet(1..n)
    BY FS_Interval
  <2> QED
    BY <2>1, FS_Subset, FS_CardinalityType
<1>2. Listable(S)
  BY AllListable
<1>3. /\ s \in Surjection(1..c, S)
      /\ \A i, j \in 1..c : i < j => s[i] < s[j]
  BY <1>2 DEF Listable, Ascending
<1> QED
  BY <1>1, <1>3 DEF Surjection, Lists

\* HeapIndex::size is the size of something: m_alloc is finite.
LEMMA IndexSizeType ==
  ASSUME NEW ix, NEW L, Sound(ix, L)
  PROVE  IndexSize(ix) \in Nat /\ IndexSize(ix) > 0
<1> DEFINE n == Len(ix.m_list)
           e == [i \in 1..n |-> AllocEntry(ix, ix.m_list[i])]
           E == {e[i] : i \in 1..n}
<1>1. n \in Nat /\ Enumerates(ix.m_list, n, DOMAIN ix.heap)
  BY IndexTypes, ShapeByPosition DEF Sound, Shape
<1>2. ix.m_alloc \subseteq E
  <2> SUFFICES ASSUME NEW a \in ix.m_alloc PROVE a \in E
    OBVIOUS
  <2>1. a[2] \in DOMAIN ix.heap /\ a = AllocEntry(ix, a[2])
    BY DEF Sound, Filed
  <2>2. PICK i \in 1..n : ix.m_list[i] = a[2]
    BY <1>1, <2>1 DEF Enumerates
  <2> QED
    BY <2>1, <2>2
<1>3. e \in Surjection(1..n, E)
  BY DEF Surjection
<1>4. IsFiniteSet(1..n)
  BY <1>1, FS_Interval
<1>5. IsFiniteSet(E)
  BY <1>3, <1>4, FS_Surjection
<1>6. Cardinality(ix.m_alloc) \in Nat
  BY <1>2, <1>5, FS_Subset, FS_CardinalityType
<1>7. COUNT_SIZE \in Nat \ {0} /\ SERIALIZED_SIZE \in Nat \ {0}
  BY HeapFileAssumption
<1>8. SERIALIZED_SIZE * Cardinality(ix.m_alloc) \in Nat
  BY <1>6, <1>7
<1> HIDE DEF n, e, E
<1> DEFINE k == SERIALIZED_SIZE * Cardinality(ix.m_alloc)
<1> HIDE DEF k
<1>9. COUNT_SIZE + k \in Nat /\ COUNT_SIZE + k > 0
  BY <1>7, <1>8 DEF k
<1> QED
  BY <1>9 DEF IndexSize, k

\* The destructor writes every allocated record once, in the order of the file.
LEMMA SerializedProperties ==
  ASSUME NEW ix, NEW L, Sound(ix, L), NEW s, s = Serialized(ix)
  PROVE  /\ s \in Seq(Record)
         /\ ToSet(s) = AllocatedRecords(ix)
         /\ Ordered(s)
<1> DEFINE l == ix.m_list
           n == Len(l)
           S == {i \in DOMAIN l : ~IsFree(ix, l[i])}
           v == Ascending(S)
           c == Cardinality(S)
<1>1. /\ n \in Nat /\ DOMAIN l = 1..n
      /\ Enumerates(l, n, DOMAIN ix.heap) /\ Shape(ix, L)
  BY IndexTypes, ShapeByPosition DEF Sound, Shape
<1>2. S \in SUBSET (1..n)
  BY <1>1
<1>0. \A p \in DOMAIN ix.heap : IsFree(ix, p) <=> FiledFree(ix, p)
  BY <1>1, FreeByAddress DEF Sound, Filed
<1>3. \A i \in S : i \in 1..n /\ l[i] \in DOMAIN ix.heap /\ ~FiledFree(ix, l[i])
  BY <1>0, <1>1 DEF Enumerates
<1>4. \A p \in DOMAIN ix.heap : Allocd(ix, p) => \E i \in S : l[i] = p
  <2> SUFFICES ASSUME NEW p \in DOMAIN ix.heap, Allocd(ix, p)
               PROVE  \E i \in S : l[i] = p
    OBVIOUS
  <2>1. PICK i \in 1..n : l[i] = p
    BY <1>1 DEF Enumerates
  <2>2. ~IsFree(ix, p)
    BY <1>0, AllocatedByAddress
  <2> QED
    BY <1>1, <2>1, <2>2
<1> HIDE DEF S, c, v
<1>5. /\ c \in Nat
      /\ v \in [1..c -> S]
      /\ \A x \in S : \E i \in 1..c : v[i] = x
      /\ \A i, j \in 1..c : i < j => v[i] < v[j]
  <2>1. n \in Nat /\ S \in SUBSET (1..n)
    BY <1>1, <1>2
  <2>2. Lists(v, c, S)
    BY <2>1, AscendingProperties DEF v, c
  <2> QED
    BY <2>2 DEF Lists
<1>6. s = [i \in 1..c |-> ix.heap[l[v[i]]]]
  BY <1>5 DEF Serialized, v, S
<1>7. \A i \in 1..c : /\ v[i] \in S
                      /\ ix.heap[l[v[i]]] \in Record
                      /\ l[v[i]] \in DOMAIN ix.heap /\ Allocd(ix, l[v[i]])
                      /\ s[i] = ix.heap[l[v[i]]]
  <2> SUFFICES ASSUME NEW i \in 1..c
               PROVE  /\ v[i] \in S
                      /\ ix.heap[l[v[i]]] \in Record
                      /\ l[v[i]] \in DOMAIN ix.heap /\ Allocd(ix, l[v[i]])
                      /\ s[i] = ix.heap[l[v[i]]]
    OBVIOUS
  <2>1. v[i] \in S
    BY <1>5
  <2>2. l[v[i]] \in DOMAIN ix.heap /\ Allocd(ix, l[v[i]])
    BY <1>3, <2>1, AllocatedByAddress
  <2> QED
    BY <1>1, <1>6, <2>1, <2>2, RecordTypes
<1>8. s \in Seq(Record) /\ DOMAIN s = 1..c /\ Len(s) = c
  <2>1. s \in [1..c -> Record]
    BY <1>6, <1>7
  <2> QED
    BY <1>5, <2>1, SeqDef, LenProperties
<1>9. ToSet(s) = AllocatedRecords(ix)
  <2>1. ASSUME NEW r \in AllocatedRecords(ix) PROVE r \in ToSet(s)
    <3>1. PICK p \in DOMAIN ix.heap : Allocd(ix, p) /\ r = ix.heap[p]
      BY AllocatedRecordsByAddress
    <3>2. PICK j \in S : l[j] = p
      BY <1>4, <3>1
    <3>3. PICK i \in 1..c : v[i] = j
      BY <1>5
    <3> QED
      BY <1>7, <1>8, <3>1, <3>2, <3>3, ToSetProperties
  <2>2. ASSUME NEW r \in ToSet(s) PROVE r \in AllocatedRecords(ix)
    <3>1. PICK i \in 1..c : s[i] = r
      BY <1>8, ToSetProperties
    <3> QED
      BY <1>7, <3>1, AllocatedRecordsByAddress
  <2> QED
    BY <2>1, <2>2
<1>10. Ordered(s)
  <2> SUFFICES ASSUME NEW i \in 1..c, NEW j \in 1..c, i < j
               PROVE  End(s[i]) <= s[j].offset
    BY <1>8 DEF Ordered
  <2>1. v[i] \in 1..n /\ v[j] \in 1..n /\ v[i] < v[j]
    BY <1>3, <1>5, <1>7
  <2> QED
    BY <1>1, <1>7, <2>1, RecordsOrdered
<1> QED
  BY <1>8, <1>9, <1>10

-----------------------------------------------------------------------------
(* trim, growing and writing *)

\* The fields of a file.
LEMMA FileTypes ==
  ASSUME NEW f, FileOK(f)
  PROVE  /\ f.size \in Nat /\ f.head \in Nat
         /\ f.blobs \subseteq Blob /\ f.torn \subseteq TornBlob /\ f.tables \subseteq Table
         /\ \A t \in f.tables :
              /\ t.offset \in Nat /\ t.size \in Nat /\ t.records \in Seq(Record)
              /\ WellFormed(t) /\ End(t) \in Nat /\ End(t) <= f.size
<1>1. /\ f.size \in Nat /\ f.head \in Nat
      /\ f.blobs \subseteq Blob /\ f.torn \subseteq TornBlob /\ f.tables \subseteq Table
  BY DEF FileOK, IsFile
<1> QED
  BY <1>1 DEF FileOK, Table, End

\* The fields of a blob.
LEMMA BlobTypes ==
  ASSUME NEW b \in Blob
  PROVE  /\ b.offset \in Nat /\ b.size \in Nat /\ b.id \in Id /\ b.data \in Data
         /\ End(b) \in Nat
  BY DEF Blob, End

\* And of what is left of one.
LEMMA TornTypes ==
  /\ \A t \in TornBlob :
       t.offset \in Nat /\ t.size = ID_SIZE /\ t.id \in Id /\ End(t) \in Nat
  /\ \A b \in Blob : /\ IdPart(b) \in TornBlob
                     /\ IdPart(b).offset = b.offset /\ IdPart(b).id = b.id
  /\ ID_SIZE \in Nat /\ ID_SIZE > 0 /\ HEAD_SIZE \in Nat /\ HEAD_SIZE > 0
<1>1. ID_SIZE \in Nat /\ ID_SIZE > 0 /\ HEAD_SIZE \in Nat /\ HEAD_SIZE > 0
  BY HeapFileAssumption
<1> QED
  BY <1>1 DEF TornBlob, Blob, IdPart, End

\* Two blobs do not start at one place.
LEMMA SameOffset ==
  ASSUME NEW B, Blobs(B), NEW b \in B, NEW c \in B, b.offset = c.offset
  PROVE  b = c
<1>1. /\ b.offset \in Nat /\ b.size \in Nat /\ b.size > 0
      /\ c.offset \in Nat /\ c.size \in Nat /\ c.size > 0
  BY BlobTypes DEF Blobs
<1>2. Overlap(b, c)
  BY <1>1 DEF Overlap, End
<1> QED
  BY <1>2 DEF Blobs

\* g is the record with these five fields.
Consists(g, n, h, B, U, T) ==
  g \in [size : {n}, head : {h}, blobs : {B}, torn : {U}, tables : {T}]

\* The blobs of B, what is left in U of others, and what is left of those of C.
LEMMA ApartSubset ==
  ASSUME NEW B, NEW U, Blobs(B), Apart(B, U), NEW C \in SUBSET B, NEW V,
         \A t \in V : t \in U \/ \E b \in B \ C : t = IdPart(b)
  PROVE  Blobs(C) /\ Apart(C, V)
<1>1. Blobs(C)
  BY DEF Blobs
<1>2. ASSUME NEW t \in V
      PROVE  HEAD_SIZE <= t.offset /\ \A c \in C : c.offset # t.offset
  <2>1. CASE t \in U
    BY <2>1 DEF Apart
  <2>2. ASSUME NEW b \in B \ C, t = IdPart(b)
        PROVE  HEAD_SIZE <= t.offset /\ \A c \in C : c.offset # t.offset
    <3>1. t.offset = b.offset
      BY <2>2, TornTypes DEF Blobs
    <3>2. ASSUME NEW c \in C PROVE c.offset # b.offset
      BY <2>2, <3>2, SameOffset
    <3> QED
      BY <3>1, <3>2 DEF Apart
  <2> QED
    BY <2>1, <2>2
<1>3. Apart(C, V)
  BY <1>2 DEF Apart
<1> QED
  BY <1>1, <1>3

\* What is left in a file of the blobs that end behind its new end.
TornByTrim(f, n) ==
  {t \in f.torn : End(t) <= n} \cup
  {IdPart(b) : b \in {c \in f.blobs : ~(End(c) <= n) /\ End(IdPart(c)) <= n}}

\* MmapFile::trim keeps what ends before the new end, and cuts off the rest.
LEMMA TrimFile ==
  ASSUME NEW f, FileOK(f), NEW n \in Nat, HEAD_SIZE <= n, NEW g, g = Trim(f, n)
  PROVE  /\ FileOK(g)
         /\ g.size = n /\ g.head = f.head
         /\ g.blobs = {b \in f.blobs : End(b) <= n}
         /\ g.tables = {t \in f.tables : End(t) <= n}
<1> DEFINE B == {b \in f.blobs : End(b) <= n}
           U == TornByTrim(f, n)
           T == {t \in f.tables : End(t) <= n}
<1>1. B \in SUBSET f.blobs /\ T \in SUBSET f.tables /\ \A t \in T : End(t) <= n
  OBVIOUS
<1>2. ~(n < HEAD_SIZE)
  BY TornTypes
<1>3. Consists(g, n, f.head, B, U, T)
  BY <1>2 DEF Trim, Keep, TornByTrim, FileOK, IsFile, Consists
<1>4. \A t \in U : t \in f.torn \/ \E b \in f.blobs \ B : t = IdPart(b)
  BY DEF TornByTrim
<1>5. U \subseteq TornBlob
  BY <1>4, FileTypes, TornTypes
<1> HIDE DEF B, U, T
<1>6. g.size = n /\ g.head = f.head /\ g.blobs = B /\ g.torn = U /\ g.tables = T
  BY <1>3 DEF Consists
<1>7. IsFile(g)
  BY <1>1, <1>3, <1>5, FileTypes DEF IsFile, Consists
<1>8. Blobs(B) /\ Apart(B, U)
  BY <1>1, <1>4, ApartSubset DEF FileOK
<1>9. FileOK(g)
  BY <1>1, <1>6, <1>7, <1>8 DEF FileOK
<1> QED
  BY <1>6, <1>9 DEF B, T

\* MmapFile::getWritePtr makes the file longer if it has to, and no shorter.
LEMMA GrowFile ==
  ASSUME NEW f, FileOK(f), NEW n \in Nat, NEW g, g = Grow(f, n)
  PROVE  /\ FileOK(g)
         /\ g.size \in Nat /\ n <= g.size /\ f.size <= g.size
         /\ g.head = f.head /\ g.blobs = f.blobs /\ g.torn = f.torn
         /\ g.tables = f.tables
<1> DEFINE m == IF f.size < n THEN n ELSE f.size
           B == f.blobs
           U == f.torn
           T == f.tables
<1>1. m \in Nat /\ n <= m /\ f.size <= m
  BY FileTypes
<1>2. T \in SUBSET f.tables /\ \A t \in T : End(t) <= m
  BY <1>1, FileTypes
<1>3. Consists(g, m, f.head, B, U, T)
  BY DEF Grow, FileOK, IsFile, Consists
<1> HIDE DEF m, B, U, T
<1>5. g.size = m /\ g.head = f.head /\ g.blobs = B /\ g.torn = U /\ g.tables = T
  BY <1>3 DEF Consists
<1>6. IsFile(g)
  BY <1>1, <1>2, <1>3, FileTypes DEF IsFile, Consists, B, U, T
<1>7. FileOK(g)
  BY <1>2, <1>5, <1>6 DEF FileOK, B, U
<1> QED
  BY <1>1, <1>5, <1>7 DEF B, U, T

\* A read of a range within the file does nothing to it.
LEMMA ReadNothing ==
  ASSUME NEW f, FileOK(f), NEW r, End(r) \in Nat, End(r) <= f.size
  PROVE  Read(f, r) = f
<1>1. f.size \in Nat
  BY FileTypes
<1>2. ~(f.size < End(r))
  BY <1>1
<1> QED
  BY <1>2 DEF Read, Grow, FileOK, IsFile

\* What is left in a file when a range of it is written over.
TornByWrite(f, x) ==
  {t \in f.torn : ~Overlap(t, x)} \cup
  {IdPart(b) : b \in {c \in f.blobs : ~~Overlap(c, x) /\ ~Overlap(IdPart(c), x)}}

\* Writing behind the head destroys what it hits.
LEMMA OverwriteFile ==
  ASSUME NEW f, FileOK(f), NEW x, x.offset \in Nat, HEAD_SIZE <= x.offset,
         NEW g, g = Overwrite(f, x)
  PROVE  /\ FileOK(g)
         /\ g.size = f.size /\ g.head = f.head
         /\ g.blobs = {b \in f.blobs : ~Overlap(b, x)}
         /\ g.torn = TornByWrite(f, x)
         /\ g.tables = {t \in f.tables : ~Overlap(t, x)}
<1> DEFINE n == f.size
           B == {b \in f.blobs : ~Overlap(b, x)}
           U == TornByWrite(f, x)
           T == {t \in f.tables : ~Overlap(t, x)}
<1>1. n \in Nat /\ B \in SUBSET f.blobs /\ T \in SUBSET f.tables /\ \A t \in T : End(t) <= n
  BY FileTypes
<1>2. ~(x.offset < HEAD_SIZE)
  BY TornTypes
<1>3. Consists(g, n, f.head, B, U, T)
  BY <1>2 DEF Overwrite, Keep, TornByWrite, FileOK, IsFile, Consists
<1>4. \A t \in U : t \in f.torn \/ \E b \in f.blobs \ B : t = IdPart(b)
  BY DEF TornByWrite
<1>5. U \subseteq TornBlob
  BY <1>4, FileTypes, TornTypes
<1> HIDE DEF B, U, T, n
<1>6. g.size = n /\ g.head = f.head /\ g.blobs = B /\ g.torn = U /\ g.tables = T
  BY <1>3 DEF Consists
<1>7. IsFile(g)
  BY <1>1, <1>3, <1>5, FileTypes DEF IsFile, Consists
<1>8. Blobs(B) /\ Apart(B, U)
  BY <1>1, <1>4, ApartSubset DEF FileOK
<1>9. FileOK(g)
  BY <1>1, <1>6, <1>7, <1>8 DEF FileOK
<1> QED
  BY <1>6, <1>9 DEF n, B, U, T

\* Nothing is at the head, so writing it changes nothing else.
LEMMA WriteHeadFile ==
  ASSUME NEW f, FileOK(f), NEW o \in Nat, NEW g, g = WriteHead(f, o)
  PROVE  /\ FileOK(g)
         /\ g.size = f.size /\ g.head = o
         /\ g.blobs = f.blobs /\ g.torn = f.torn /\ g.tables = f.tables
<1> DEFINE x == [offset |-> 0, size |-> HEAD_SIZE]
           B == f.blobs
           U == f.torn
           T == f.tables
<1>1. \A y : y.offset \in Nat /\ HEAD_SIZE <= y.offset => ~Overlap(y, x)
  BY TornTypes DEF Overlap, End
<1>2. ASSUME NEW b \in B PROVE b.offset \in Nat /\ HEAD_SIZE <= b.offset
  BY FileTypes, BlobTypes DEF FileOK, Apart
<1>3. ASSUME NEW t \in U PROVE t.offset \in Nat /\ HEAD_SIZE <= t.offset
  BY FileTypes, TornTypes DEF FileOK, Apart
<1>4. ASSUME NEW t \in T PROVE t.offset \in Nat /\ HEAD_SIZE <= t.offset
  <2>1. t.records \in Seq(Record) /\ WellFormed(t) /\ t.offset \in Nat
    BY FileTypes
  <2>2. 1 \in DOMAIN t.records
    BY <2>1, EmptySeq, LenProperties DEF WellFormed
  <2>3. /\ t.records[1] \in Record /\ HEAD_SIZE <= t.records[1].offset
        /\ End(t.records[1]) <= t.offset
    BY <2>1, <2>2 DEF WellFormed, RecordOK
  <2> QED
    BY <2>1, <2>3, TornTypes DEF Record, End
<1>5. /\ {b \in B : ~Overlap(b, x)} = B
      /\ {t \in U : ~Overlap(t, x)} = U
      /\ {t \in T : ~Overlap(t, x)} = T
      /\ {c \in B : ~~Overlap(c, x) /\ ~Overlap(IdPart(c), x)} = {}
  BY <1>1, <1>2, <1>3, <1>4
<1>6. {IdPart(b) : b \in {}} = {}
  OBVIOUS
<1>7. Consists(g, f.size, o, B, U, T)
  BY <1>5, <1>6 DEF WriteHead, Overwrite, Keep, FileOK, IsFile, Consists
<1> HIDE DEF B, U, T
<1>8. g.size = f.size /\ g.head = o /\ g.blobs = B /\ g.torn = U /\ g.tables = T
  BY <1>7 DEF Consists
<1>9. IsFile(g)
  BY <1>7, FileTypes DEF IsFile, Consists, B, U, T
<1>10. FileOK(g)
  BY <1>8, <1>9 DEF FileOK, B, U, T
<1> QED
  BY <1>8, <1>10 DEF B, U, T

\* Blob::writeData through the pointer of getWritePtr destroys what it hits.
Replaced(B, x) == {b \in B : ~Overlap(b, x)} \cup {x}

Placed(f, x) == [Overwrite(f, x) EXCEPT !.blobs = @ \cup {x}]

LEMMA PlaceBlob ==
  ASSUME NEW f, FileOK(f), NEW x \in Blob, x.size > 0, ID_SIZE <= x.size,
         HEAD_SIZE <= x.offset, NEW g, g = Placed(f, x)
  PROVE  /\ FileOK(g)
         /\ g.size = f.size /\ g.head = f.head
         /\ g.blobs = Replaced(f.blobs, x)
         /\ g.tables \subseteq f.tables
<1> DEFINE h == Overwrite(f, x)
           B == h.blobs
           C == B \cup {x}
           U == h.torn
<1>1. x.offset \in Nat /\ x.size \in Nat /\ End(x) \in Nat
  BY BlobTypes
<1>2. /\ FileOK(h)
      /\ h.size = f.size /\ h.head = f.head
      /\ B = {b \in f.blobs : ~Overlap(b, x)}
      /\ U = TornByWrite(f, x)
      /\ h.tables = {t \in f.tables : ~Overlap(t, x)}
  BY <1>1, OverwriteFile
<1>3. g = [h EXCEPT !.blobs = C]
  BY DEF Placed
<1>4. ASSUME NEW y, y \in B \cup U PROVE ~Overlap(y, x)
  BY <1>2, <1>4 DEF TornByWrite
<1>5. Overlap(x, x)
  BY <1>1 DEF Overlap, End
<1> HIDE DEF h
<1>6. Consists(g, h.size, h.head, C, U, h.tables)
  BY <1>2, <1>3 DEF FileOK, IsFile, Consists
<1>7. C \subseteq Blob
  BY <1>2, FileTypes
<1>8. Blobs(C)
  <2>1. \A b, c : Overlap(b, c) <=> Overlap(c, b)
    BY DEF Overlap
  <2> QED
    BY <1>2, <1>4, <1>7, <2>1 DEF FileOK, Blobs
<1>9. Apart(C, U)
  <2>1. ASSUME NEW t \in U PROVE t.offset # x.offset
    <3>1. t.offset \in Nat /\ t.size = ID_SIZE /\ ID_SIZE > 0 /\ ID_SIZE \in Nat
      BY <1>2, FileTypes, TornTypes
    <3>2. ~Overlap(t, x)
      BY <1>4
    <3> QED
      BY <1>1, <3>1, <3>2 DEF Overlap, End
  <2> QED
    BY <1>2, <2>1 DEF FileOK, Apart
<1> HIDE DEF B, U, C
<1>10. g.size = h.size /\ g.head = h.head /\ g.blobs = C /\ g.torn = U /\ g.tables = h.tables
  BY <1>6 DEF Consists
<1>11. IsFile(g)
  BY <1>2, <1>6, <1>7, FileTypes DEF IsFile, Consists, U
<1>12. FileOK(g)
  BY <1>2, <1>8, <1>9, <1>10, <1>11 DEF FileOK
<1> QED
  BY <1>2, <1>10, <1>12 DEF B, C, Replaced

-----------------------------------------------------------------------------
(* Which objects a set of records leads to *)

\* No two of the records share a byte, and none is empty.
Disjointed(R) ==
  /\ \A r \in R : /\ r.offset \in Nat /\ End(r) \in Nat
                  /\ r.offset < End(r)
  /\ \A r, s \in R : r # s => End(r) <= s.offset \/ End(s) <= r.offset

\* The allocated records of an index are such a set.
LEMMA AllocatedDisjointed ==
  ASSUME NEW ix, NEW L, Sound(ix, L)
  PROVE  Disjointed(AllocatedRecords(ix))
<1>1. \A r \in AllocatedRecords(ix) :
        /\ r.offset \in Nat /\ End(r) \in Nat /\ r.size \in Nat /\ r.size > 0
        /\ \A s \in AllocatedRecords(ix) :
             r # s => End(r) <= s.offset \/ End(s) <= r.offset
  BY AllocatedRecordTypes
<1> QED
  BY <1>1 DEF Disjointed, End

\* The blob at the start of a block is the object of the block (findBlob looks
\* at nothing else).
LEMMA HeldBy ==
  ASSUME NEW R, NEW B, Blobs(B), Intact(R, B),
         NEW r \in R, NEW b \in B, b.offset = r.offset
  PROVE  Holds(b, r)
<1>1. PICK c \in B : Holds(c, r)
  BY DEF Intact
<1>2. /\ b.offset \in Nat /\ b.size \in Nat /\ b.size > 0
      /\ c.offset \in Nat /\ c.size \in Nat /\ c.size > 0
      /\ c.offset = b.offset
  BY <1>1, BlobTypes DEF Blobs, Holds
<1>3. Overlap(b, c)
  BY <1>2 DEF Overlap, End
<1>4. b = c
  BY <1>3 DEF Blobs
<1> QED
  BY <1>1, <1>4

\* Blobs that no record leads to may go.
LEMMA KeepStored ==
  ASSUME NEW R, NEW B, Blobs(B), Intact(R, B), NEW C \in SUBSET B,
         \A b \in B, r \in R : Holds(b, r) => b \in C
  PROVE  Blobs(C) /\ Intact(R, C) /\ StoredOf(R, C) = StoredOf(R, B)
<1>1. Blobs(C)
  BY DEF Blobs
<1>2. StoredOf(R, C) = StoredOf(R, B)
  BY HeldBy DEF StoredOf
<1>3. \A r \in R : \E b \in C : Holds(b, r)
  BY DEF Intact
<1> QED
  BY <1>1, <1>2, <1>3 DEF Intact

\* One record less: one object less.
LEMMA OneStoredLess ==
  ASSUME NEW R, NEW B, Disjointed(R), Blobs(B), Intact(R, B), NEW r \in R
  PROVE  /\ Intact(R \ {r}, B)
         /\ \A b : b \in StoredOf(R \ {r}, B) <=>
                    b \in StoredOf(R, B) /\ b.offset # r.offset
<1>1. \A s \in R : s.offset = r.offset => s = r
  BY DEF Disjointed
<1>2. StoredOf(R \ {r}, B) = {b \in StoredOf(R, B) : b.offset # r.offset}
  BY <1>1 DEF StoredOf
<1>3. Distinct(StoredOf(R \ {r}, B))
  BY <1>2 DEF Intact, Distinct
<1> QED
  BY <1>2, <1>3 DEF Intact

\* The block of the record r, not one of R, can get the object x: its id is not
\* that of an object there is.
Receives(R, r, B, x) ==
  /\ r \notin R /\ Disjointed(R \cup {r})
  /\ Blobs(B) /\ Intact(R, B)
  /\ x \in Blob /\ x.size > 0 /\ ID_SIZE <= x.size /\ Holds(x, r)
  /\ \A b \in StoredOf(R, B) : b.id # x.id

\* When it does, what else starts or ends in it goes, and nothing a record of R
\* leads to does.
LEMMA OneStoredMore ==
  ASSUME NEW R, NEW r, NEW B, NEW x, Receives(R, r, B, x), NEW C, C = Replaced(B, x),
         NEW Q, Q = R \cup {r}
  PROVE  /\ Blobs(C)
         /\ Intact(Q, C)
         /\ \A b : b \in StoredOf(Q, C) <=> b \in StoredOf(R, B) \/ b = x
<1> USE DEF Receives
<1>1. /\ \A b \in B : /\ b.offset \in Nat /\ b.size \in Nat /\ b.size > 0
                      /\ End(b) \in Nat
      /\ x.offset \in Nat /\ x.size \in Nat /\ End(x) \in Nat
  BY BlobTypes DEF Blobs
<1>2. ~Overlap(x, x) => FALSE
  BY <1>1 DEF Overlap, End
<1>3. \A b \in B : Overlap(b, x) <=> Overlap(x, b)
  BY DEF Overlap
<1>4. Blobs(C)
  BY <1>3 DEF Blobs, Replaced
<1>5. x.offset = r.offset /\ End(x) <= End(r) /\ Hash[x.id] = r.key
  BY DEF Holds
<1>6. \A s \in R : End(r) <= s.offset \/ End(s) <= r.offset
  BY DEF Disjointed
<1>7. /\ r.offset \in Nat /\ End(r) \in Nat
      /\ \A s \in R : s.offset \in Nat /\ End(s) \in Nat /\ s.offset < End(s)
  BY DEF Disjointed
<1>8. \A b \in B, s \in R : Holds(b, s) => ~Overlap(b, x)
  BY <1>1, <1>5, <1>6, <1>7 DEF Holds, Overlap
<1>9. StoredOf(R, B) \subseteq C
  BY <1>8, HeldBy DEF StoredOf, Replaced
<1>10. StoredOf(R \cup {r}, C) = StoredOf(R, B) \cup {x}
  <2>1. ASSUME NEW b \in StoredOf(R \cup {r}, C), b # x
        PROVE  b \in StoredOf(R, B)
    <3>1. PICK s \in R \cup {r} : s.offset = b.offset /\ b \in B /\ ~Overlap(b, x)
      BY <2>1 DEF StoredOf, Replaced
    <3>2. s # r
      BY <1>1, <1>5, <3>1 DEF Overlap, End
    <3> QED
      BY <3>1, <3>2 DEF StoredOf
  <2>2. ASSUME NEW b \in StoredOf(R, B)
        PROVE  b \in StoredOf(R \cup {r}, C)
    BY <1>9 DEF StoredOf
  <2>3. x \in StoredOf(R \cup {r}, C)
    BY <1>5 DEF StoredOf, Replaced
  <2> QED
    BY <2>1, <2>2, <2>3
<1>11. Distinct(StoredOf(R \cup {r}, C))
  BY <1>10 DEF Distinct, Intact
<1>12. \A s \in R \cup {r} : \E b \in C : Holds(b, s)
  BY <1>8 DEF Intact, Replaced
<1> QED
  BY <1>4, <1>10, <1>11, <1>12 DEF Intact

-----------------------------------------------------------------------------
(* release and writeData *)

\* Index and file agree on where the blocks are.
Agree(ix, f) == Sound(ix, FileLimit) /\ FileOK(f) /\ Covers(f, ix)

\* And every allocated block holds an object, if all but those of E do.
FullBut(E, ix, f) ==
  Agree(ix, f) /\ Blobs(f.blobs) /\ Intact(AllocatedRecords(ix) \ E, f.blobs)

Full(ix, f) == FullBut({}, ix, f)

\* The objects the index leads to.
Stored(ix, f) == StoredOf(AllocatedRecords(ix), f.blobs)

\* The parameters of the model (the types the code gives them).
LEMMA Parameters ==
  /\ FileLimit \in Nat /\ HEAD_SIZE \in Nat /\ HEAD_SIZE > 0
  /\ \A id \in Id : Hash[id] \in Key /\ Hash[id] \in Nat
  /\ \A data \in Data :
       /\ BlobSize[data] \in Nat /\ BlobSize[data] > 0
       /\ ID_SIZE <= BlobSize[data]
       /\ AtLeastMinSize(BlobSize[data]) \in Nat
       /\ BlobSize[data] <= AtLeastMinSize(BlobSize[data])
  /\ \A m \in MaxSize \cup {NoLimit} : m \in Nat
<1>1. FileLimit \in Nat /\ HEAD_SIZE \in Nat /\ HEAD_SIZE > 0
  BY HeapFileAssumption
<1>2. \A id \in Id : Hash[id] \in Key /\ Hash[id] \in Nat
  BY HeapFileAssumption, IndexAssumption
<1>3. \A data \in Data : BlobSize[data] \in Nat \ {0} /\ ID_SIZE <= BlobSize[data]
  BY HeapFileAssumption
<1>4. \A m \in MaxSize \cup {NoLimit} : m \in Nat
  BY HeapFileAssumption
<1> QED
  BY <1>1, <1>2, <1>3, <1>4, IndexAssumption DEF AtLeastMinSize

\* The last record of an index that has one.
LEMMA LastRecordTypes ==
  ASSUME NEW ix, NEW L, Sound(ix, L), ix.m_list # <<>>
  PROVE  /\ LastRecord(ix) \in AllocatedRecords(ix)
         /\ LastRecord(ix).offset \in Nat /\ End(LastRecord(ix)) \in Nat
         /\ LastRecord(ix).offset < End(LastRecord(ix))
         /\ Base(ix) \in Nat /\ Base(ix) <= LastRecord(ix).offset
         /\ LastRecord(ix).size \in Nat
         /\ End(LastRecord(ix)) <= L
<1>1. LastRecord(ix) \in AllocatedRecords(ix)
  BY EmptyExactly
<1>2. Base(ix) \in Nat
  <2>1. Back(ix) \in DOMAIN ix.heap /\ Shape(ix, L)
    BY BackProperties DEF Sound
  <2> QED
    BY <2>1, RecordsWithin, RecordTypes DEF Base
<1>3. Disjointed(AllocatedRecords(ix))
  BY AllocatedDisjointed
<1> QED
  BY <1>1, <1>2, <1>3, AllocatedRecordTypes DEF Disjointed

\* HeapFileT::release cuts the file behind every record that is left, so that
\* index and file still agree and no block that is left has lost a byte.
LEMMA ReleaseAgrees ==
  ASSUME FileLimit < U32, NEW ix, NEW f, Agree(ix, f), NEW p, Allocd(ix, p),
         NEW s, s = Release(ix, f, p)
  PROVE  /\ Agree(s.index, s.file)
         /\ ix.heap[p] \in AllocatedRecords(ix)
         /\ AllocatedRecords(s.index) = AllocatedRecords(ix) \ {ix.heap[p]}
         /\ s.file.blobs \subseteq f.blobs
         /\ \A b \in f.blobs, r \in AllocatedRecords(s.index) :
              End(b) <= End(r) => b \in s.file.blobs
         /\ s.file.head = f.head /\ s.file.tables \subseteq f.tables
         /\ s.file.size = 0 => f.size = 0
<1> DEFINE iy == Deallocate(ix, p)
           n == ix.heap[p].offset + IndexSize(iy)
           g == IF Back(ix) = p THEN Trim(f, n) ELSE f
<1>2. Sound(ix, FileLimit) /\ p \in DOMAIN ix.heap /\ Shape(ix, FileLimit) /\ FileOK(f)
  BY DEF Agree, Allocd, Sound
<1>1. s.index = iy /\ s.file = g
  BY <1>2, LastByAddress DEF Release, State
<1>3. Sound(iy, FileLimit)
  BY <1>2, Parameters, DeallocateSound
<1>4. Deallocated(ix, iy, p)
  BY <1>2, Parameters, DeallocateEffect
<1>5. /\ ix.heap[p] \in AllocatedRecords(ix)
      /\ AllocatedRecords(iy) = AllocatedRecords(ix) \ {ix.heap[p]}
  BY <1>2, <1>3, <1>4, DeallocatedRecords
<1>6. ix.heap[p].offset \in Nat /\ IndexSize(iy) \in Nat /\ IndexSize(iy) > 0
  BY <1>2, <1>3, RecordTypes, IndexSizeType
<1>7. n \in Nat /\ ix.heap[p].offset <= n /\ n # 0
  BY <1>6
<1>8. ix.m_list # <<>> /\ HEAD_SIZE <= Base(ix) /\ End(LastRecord(ix)) <= f.size
  BY <1>2, RecordsWithin DEF Agree, Covers
<1>9. iy.m_list # <<>> => HEAD_SIZE <= Base(iy)
  BY <1>4, <1>8 DEF Deallocated
<1>13. HEAD_SIZE <= n
  <2>1. Base(ix) \in Nat /\ Base(ix) <= ix.heap[p].offset
    BY <1>2, <1>5, <1>8, AllocatedRecordTypes, LastRecordTypes
  <2> QED
    BY <1>6, <1>7, <1>8, <2>1, Parameters
<1>10. \A r \in AllocatedRecords(iy) :
         /\ End(r) \in Nat /\ End(LastRecord(iy)) \in Nat
         /\ iy.m_list # <<>> /\ End(r) <= End(LastRecord(iy))
  BY <1>3, AllocatedRecordTypes, LastRecordTypes
<1> HIDE DEF iy, n
<1>11. CASE Back(ix) = p
  <2>1. /\ FileOK(g) /\ g.size = n /\ g.head = f.head
        /\ g.blobs = {b \in f.blobs : End(b) <= n}
        /\ g.tables = {t \in f.tables : End(t) <= n}
    BY <1>2, <1>7, <1>11, <1>13, TrimFile
  <2> HIDE DEF g
  <2>2. iy.m_list # <<>> => End(LastRecord(iy)) <= n
    <3> SUFFICES ASSUME iy.m_list # <<>> PROVE End(LastRecord(iy)) <= n
      OBVIOUS
    <3>1. End(LastRecord(iy)) <= ix.heap[p].offset
      BY <1>4, <1>11 DEF Deallocated
    <3>2. End(LastRecord(iy)) \in Nat
      BY <1>3, LastRecordTypes
    <3> QED
      BY <1>6, <1>7, <3>1, <3>2
  <2>3. Agree(iy, g)
    BY <1>3, <1>9, <2>1, <2>2 DEF Agree, Covers
  <2>4. ASSUME NEW b \in f.blobs, NEW r \in AllocatedRecords(iy), End(b) <= End(r)
        PROVE  b \in g.blobs
    <3>1. End(b) \in Nat
      BY <1>2, FileTypes, BlobTypes
    <3> QED
      BY <1>7, <1>10, <2>1, <2>2, <2>4, <3>1
  <2> QED
    BY <1>1, <1>5, <1>7, <2>1, <2>3, <2>4
<1>12. CASE Back(ix) # p
  <2>1. g = f
    BY <1>12
  <2>2. iy.m_list # <<>> /\ LastRecord(iy) = LastRecord(ix)
    BY <1>4, <1>12 DEF Deallocated
  <2>3. Agree(iy, g)
    BY <1>2, <1>3, <1>8, <1>9, <2>1, <2>2 DEF Agree, Covers
  <2> QED
    BY <1>1, <1>5, <2>1, <2>3
<1> QED
  BY <1>11, <1>12

\* It drops the object of the block that is released, if there is one, and
\* keeps all others.
LEMMA ReleaseKeeps ==
  ASSUME FileLimit < U32, NEW ix, NEW f, NEW p, Allocd(ix, p),
         FullBut({ix.heap[p]}, ix, f), NEW s, s = Release(ix, f, p)
  PROVE  /\ Full(s.index, s.file)
         /\ Stored(s.index, s.file) = StoredOf(AllocatedRecords(ix) \ {ix.heap[p]}, f.blobs)
<1> DEFINE R == AllocatedRecords(ix) \ {ix.heap[p]}
           B == f.blobs
           C == s.file.blobs
<1>1. /\ Agree(s.index, s.file)
      /\ AllocatedRecords(s.index) = R
      /\ C \subseteq B
      /\ \A b \in B, r \in R : End(b) <= End(r) => b \in C
  BY ReleaseAgrees DEF FullBut
<1>2. Blobs(B) /\ Intact(R, B)
  BY DEF FullBut
<1> HIDE DEF R, B, C
<1>3. \A b \in B, r \in R : Holds(b, r) => b \in C
  BY <1>1 DEF Holds
<1>4. Blobs(C) /\ Intact(R, C) /\ StoredOf(R, C) = StoredOf(R, B)
  BY <1>1, <1>2, <1>3, KeepStored
<1>5. R \ {} = R
  OBVIOUS
<1>6. Full(s.index, s.file)
  BY <1>1, <1>4, <1>5 DEF Full, FullBut, C
<1> QED
  BY <1>1, <1>4, <1>6 DEF Stored, R, B, C

\* T is S and the object x of this id, or S again if the id cannot be written.
Written(S, T, id, data) ==
  IF id \in LongId THEN T = S
  ELSE \E x \in Blob : x.id = id /\ x.data = data /\ T = S \cup {x}

\* The end of writeBlob: the new block gets the object and no other one loses
\* a byte of its own; or the id is too long and the block is given back.
LEMMA WriteDataStores ==
  ASSUME FileLimit < U32, NEW ix, NEW f, NEW p, Allocd(ix, p),
         FullBut({ix.heap[p]}, ix, f),
         NEW id \in Id, NEW data \in Data,
         ix.heap[p].key = Hash[id], BlobSize[data] <= ix.heap[p].size,
         End(ix.heap[p]) <= f.size,
         NEW S, S = StoredOf(AllocatedRecords(ix) \ {ix.heap[p]}, f.blobs),
         \A b \in S : b.id # id,
         NEW s, s = WriteData(ix, f, p, id, data)
  PROVE  /\ Full(s.index, s.file)
         /\ Written(S, Stored(s.index, s.file), id, data)
<1> DEFINE r == ix.heap[p]
           R == AllocatedRecords(ix) \ {r}
           x == [offset |-> r.offset, size |-> BlobSize[data], id |-> id, data |-> data]
           g == Grow(f, End(r))
           h == Placed(g, x)
<1>1. /\ Sound(ix, FileLimit) /\ FileOK(f) /\ Covers(f, ix) /\ Shape(ix, FileLimit)
      /\ p \in DOMAIN ix.heap /\ Blobs(f.blobs) /\ Intact(R, f.blobs)
  BY DEF FullBut, Agree, Allocd, Sound
<1>2. /\ r.offset \in Nat /\ r.size \in Nat /\ End(r) \in Nat
      /\ r \in AllocatedRecords(ix)
  BY <1>1, RecordTypes, AllocatedRecordsByAddress
<1>3. /\ FileOK(g) /\ g.size \in Nat /\ f.size <= g.size /\ g.blobs = f.blobs
  BY <1>1, <1>2, GrowFile
<1> HIDE DEF g
<1>4. Covers(g, ix)
  <2> SUFFICES ASSUME ix.m_list # <<>>
               PROVE  HEAD_SIZE <= Base(ix) /\ End(LastRecord(ix)) <= g.size
    BY DEF Covers
  <2>1. HEAD_SIZE <= Base(ix) /\ End(LastRecord(ix)) <= f.size
    BY <1>1 DEF Covers
  <2> QED
    BY <1>1, <1>3, <2>1, FileTypes, LastRecordTypes
<1>5. CASE id \in LongId
  <2>1. s = Release(ix, g, p)
    BY <1>5 DEF WriteData, g
  <2>2. FullBut({r}, ix, g)
    BY <1>1, <1>3, <1>4 DEF FullBut, Agree
  <2>3. /\ Full(s.index, s.file)
        /\ Stored(s.index, s.file) = StoredOf(R, g.blobs)
    BY <2>1, <2>2, ReleaseKeeps
  <2> QED
    BY <1>3, <1>5, <2>3 DEF Written
<1>6. CASE id \notin LongId
  <2>1. s.index = ix /\ s.file = h
    BY <1>6 DEF WriteData, State, Placed, g
  <2>2. /\ x \in Blob /\ x.offset = r.offset /\ x.size = BlobSize[data]
        /\ x.id = id /\ x.data = data
    BY <1>2, Parameters DEF Blob
  <2> HIDE DEF x
  <2>3. x.size > 0 /\ ID_SIZE <= x.size /\ Holds(x, r)
    BY <1>2, <2>2, Parameters DEF Holds, End
  <2>12. HEAD_SIZE <= x.offset
    <3>1. Base(ix) \in Nat /\ Base(ix) <= r.offset /\ HEAD_SIZE <= Base(ix)
      BY <1>1, <1>2, RecordsWithin, AllocatedRecordTypes, LastRecordTypes DEF Covers
    <3> QED
      BY <1>2, <2>2, <3>1, Parameters
  <2>4. /\ FileOK(h) /\ h.size = g.size
        /\ h.blobs = Replaced(f.blobs, x)
    BY <1>3, <2>2, <2>3, <2>12, PlaceBlob
  <2>5. r \notin R /\ R \cup {r} = AllocatedRecords(ix)
    BY <1>2
  <2>6. Disjointed(R \cup {r})
    BY <1>1, <2>5, AllocatedDisjointed
  <2> HIDE DEF r, R, h
  <2>7. /\ Blobs(h.blobs) /\ Intact(R \cup {r}, h.blobs)
        /\ StoredOf(R \cup {r}, h.blobs) = S \cup {x}
    <3>1. S = StoredOf(R, f.blobs) /\ \A b \in S : b.id # x.id
      BY <2>2 DEF R, r
    <3> DEFINE B == f.blobs
               C == h.blobs
    <3>2. /\ Blobs(B) /\ Intact(R, B) /\ x \in Blob /\ r \notin R
          /\ S = StoredOf(R, B) /\ C = Replaced(B, x)
      BY <1>1, <2>2, <2>4, <2>5, <3>1
    <3> HIDE DEF B, C
    <3>3. Receives(R, r, B, x)
      BY <2>3, <2>6, <3>1, <3>2 DEF Receives
    <3>4. /\ Blobs(C) /\ Intact(R \cup {r}, C)
          /\ \A b : b \in StoredOf(R \cup {r}, C) <=> b \in StoredOf(R, B) \/ b = x
      BY <3>2, <3>3, OneStoredMore
    <3>5. StoredOf(R \cup {r}, C) = StoredOf(R, B) \cup {x}
      BY <3>4
    <3> QED
      BY <3>2, <3>4, <3>5 DEF C
  <2>8. Covers(h, ix)
    BY <1>4, <2>4 DEF Covers
  <2>9. AllocatedRecords(ix) \ {} = AllocatedRecords(ix)
    OBVIOUS
  <2>10. Full(s.index, s.file)
    BY <1>1, <2>1, <2>4, <2>5, <2>7, <2>8, <2>9 DEF Full, FullBut, Agree
  <2>11. Stored(s.index, s.file) = S \cup {x}
    BY <2>1, <2>5, <2>7 DEF Stored
  <2> QED
    BY <1>6, <2>2, <2>10, <2>11 DEF Written
<1> QED
  BY <1>5, <1>6

-----------------------------------------------------------------------------
(* findBlob and eraseBlobEncryptedId *)

\* The objects of other ids.
Others(S, id) == {b \in S : b.id # id}

\* findBlob looks only at records with the hash of the id, which is no loss.
LEMMA FindBlobFinds ==
  ASSUME NEW ix, NEW f, Full(ix, f), NEW id \in Id
  PROVE  /\ \A p \in FindBlob(ix, f, id) :
              Allocd(ix, p) /\ \E b \in f.blobs : b.offset = ix.heap[p].offset /\ b.id = id
         /\ \A p : Allocd(ix, p) =>
              \A b \in f.blobs : b.offset = ix.heap[p].offset /\ b.id = id
                                 => p \in FindBlob(ix, f, id)
<1>1. /\ Sound(ix, FileLimit) /\ Shape(ix, FileLimit) /\ FileOK(f) /\ Blobs(f.blobs)
      /\ Intact(AllocatedRecords(ix), f.blobs)
  <2>1. AllocatedRecords(ix) \ {} = AllocatedRecords(ix)
    OBVIOUS
  <2> QED
    BY <2>1 DEF Full, FullBut, Agree, Sound
<1>2. ASSUME NEW p \in FindBlob(ix, f, id)
      PROVE  Allocd(ix, p) /\ \E b \in f.blobs : b.offset = ix.heap[p].offset /\ b.id = id
  <2>1. <<Hash[id], p>> \in ix.m_alloc /\ HasId(f, ix.heap[p], id)
    BY DEF FindBlob
  <2>2. Allocd(ix, <<Hash[id], p>>[2])
    BY <1>1, <2>1, AllocatedByAddress
  <2>3. ix.heap[p] \in AllocatedRecords(ix)
    BY <1>1, <2>2, AllocatedRecordsByAddress DEF Allocd
  <2>4. PICK b \in f.blobs : b.offset = ix.heap[p].offset
    BY <1>1, <2>3 DEF Intact, Holds
  <2>5. PICK c \in f.blobs \cup f.torn : c.offset = ix.heap[p].offset /\ c.id = id
    BY <2>1 DEF HasId
  <2>6. c \in f.blobs
    BY <1>1, <2>4, <2>5 DEF FileOK, Apart
  <2> QED
    BY <2>2, <2>5, <2>6
<1>3. ASSUME NEW p, Allocd(ix, p), NEW b \in f.blobs,
             b.offset = ix.heap[p].offset, b.id = id
      PROVE  p \in FindBlob(ix, f, id)
  <2>1. p \in DOMAIN ix.heap /\ <<ix.heap[p].key, p>> \in ix.m_alloc
    BY <1>3 DEF Allocd, AllocEntry
  <2>2. ix.heap[p] \in AllocatedRecords(ix)
    BY <1>1, <1>3, <2>1, AllocatedRecordsByAddress
  <2>3. Holds(b, ix.heap[p])
    BY <1>1, <1>3, <2>2, HeldBy
  <2>4. ix.heap[p].key = Hash[id]
    BY <1>3, <2>3 DEF Holds
  <2>5. /\ b.offset \in Nat /\ b.size \in Nat /\ ID_SIZE <= b.size
        /\ ix.heap[p].size \in Nat /\ ID_SIZE \in Nat
    BY <1>1, <2>1, BlobTypes, RecordTypes, TornTypes DEF Blobs
  <2>6. ID_SIZE - 1 <= ix.heap[p].size
    BY <1>3, <2>3, <2>5 DEF Holds, End
  <2> QED
    BY <1>3, <2>1, <2>4, <2>6 DEF FindBlob, HasId
<1> QED
  BY <1>2, <1>3

\* It finds one record at most: the order of equal keys is of no consequence.
LEMMA FindBlobUnique ==
  ASSUME NEW ix, NEW f, Full(ix, f), NEW id \in Id,
         NEW p \in FindBlob(ix, f, id), NEW q \in FindBlob(ix, f, id)
  PROVE  p = q
<1>1. /\ Sound(ix, FileLimit) /\ Blobs(f.blobs) /\ Shape(ix, FileLimit)
      /\ Distinct(StoredOf(AllocatedRecords(ix), f.blobs))
  <2>1. AllocatedRecords(ix) \ {} = AllocatedRecords(ix)
    OBVIOUS
  <2> QED
    BY <2>1 DEF Full, FullBut, Agree, Intact, Sound
<1>2. Allocd(ix, p) /\ Allocd(ix, q) /\ p \in DOMAIN ix.heap /\ q \in DOMAIN ix.heap
  BY FindBlobFinds DEF Allocd
<1>3. PICK b \in f.blobs : b.offset = ix.heap[p].offset /\ b.id = id
  BY FindBlobFinds
<1>4. PICK c \in f.blobs : c.offset = ix.heap[q].offset /\ c.id = id
  BY FindBlobFinds
<1>5. ix.heap[p] \in AllocatedRecords(ix) /\ ix.heap[q] \in AllocatedRecords(ix)
  BY <1>1, <1>2, AllocatedRecordsByAddress
<1>6. b = c
  BY <1>1, <1>3, <1>4, <1>5 DEF StoredOf, Distinct
<1>7. /\ ix.heap[p].offset = ix.heap[q].offset
      /\ ix.heap[p].offset \in Nat /\ ix.heap[p].offset < End(ix.heap[p])
      /\ ix.heap[q].offset < End(ix.heap[q]) /\ ix.heap[q].offset \in Nat
      /\ End(ix.heap[p]) \in Nat /\ End(ix.heap[q]) \in Nat
  BY <1>1, <1>2, <1>3, <1>4, <1>6, RecordTypes
<1> QED
  BY <1>1, <1>2, <1>7, RecordsDisjoint

\* The conjuncts of Full, and back.
LEMMA FullParts ==
  ASSUME NEW ix, NEW f
  PROVE  Full(ix, f) <=> /\ Agree(ix, f) /\ Blobs(f.blobs)
                         /\ Intact(AllocatedRecords(ix), f.blobs)
<1>1. AllocatedRecords(ix) \ {} = AllocatedRecords(ix)
  OBVIOUS
<1> QED
  BY <1>1 DEF Full, FullBut

\* No search of findBlob grows the file: every block it reads is within it.
LEMMA SearchedSame ==
  ASSUME NEW ix, NEW f, Agree(ix, f), NEW id
  PROVE  /\ Searched(ix, f, id) = {f}
         /\ \A p : Allocd(ix, p) => Found(ix, f, id, p) = {f}
<1>1. Sound(ix, FileLimit) /\ Shape(ix, FileLimit) /\ FileOK(f) /\ f.size \in Nat
  BY FileTypes DEF Agree, Sound
<1>2. ASSUME NEW p, Allocd(ix, p) PROVE Read(f, ix.heap[p]) = f
  <2>1. ix.heap[p] \in AllocatedRecords(ix)
    BY <1>1, <1>2, AllocatedRecordsByAddress DEF Allocd
  <2>2. /\ End(ix.heap[p]) \in Nat /\ ix.m_list # <<>>
        /\ End(ix.heap[p]) <= End(LastRecord(ix))
    BY <1>1, <2>1, AllocatedRecordTypes
  <2>3. End(LastRecord(ix)) \in Nat /\ End(LastRecord(ix)) <= f.size
    BY <1>1, <2>2, LastRecordTypes DEF Agree, Covers
  <2> QED
    BY <1>1, <2>2, <2>3, ReadNothing
<1>3. \A q \in DOMAIN ix.heap : <<Hash[id], q>> \in ix.m_alloc => Allocd(ix, q)
  BY <1>1, AllocatedByAddress
<1> DEFINE read == {Read(f, ix.heap[p]) :
                      p \in {q \in DOMAIN ix.heap : <<Hash[id], q>> \in ix.m_alloc}}
<1>4. \A g \in read : g = f
  BY <1>2, <1>3
<1>6. Searched(ix, f, id) = {g \in {f} \cup read : \A h \in read : h.size <= g.size}
  BY DEF Searched
<1> HIDE DEF read
<1>7. f.size <= f.size
  BY <1>1
<1>5. Searched(ix, f, id) = {f}
  BY <1>4, <1>6, <1>7, Zenon
<1> QED
  BY <1>2, <1>5 DEF Found

\* eraseBlobEncryptedId releases a record that is found, if there is one.
LEMMA ErasuresAre ==
  ASSUME Agree(index, file), NEW id, NEW s \in Erasures(id),
         \A p \in FindBlob(index, file, id) : Allocd(index, p)
  PROVE  \/ FindBlob(index, file, id) = {} /\ s = State(index, file)
         \/ \E p \in FindBlob(index, file, id) : s = Release(index, file, p)
<1>1. /\ Searched(index, file, id) = {file}
      /\ \A p \in FindBlob(index, file, id) : Found(index, file, id, p) = {file}
  BY SearchedSame
<1> QED
  BY <1>1 DEF Erasures

\* It leaves no object of the id, and all others.
LEMMA ErasureDrops ==
  ASSUME FileLimit < U32, Full(index, file), NEW id \in Id, NEW s \in Erasures(id)
  PROVE  /\ Full(s.index, s.file)
         /\ Stored(s.index, s.file) = Others(Stored(index, file), id)
<1> DEFINE R == AllocatedRecords(index)
           B == file.blobs
           found == FindBlob(index, file, id)
<1>1. Agree(index, file) /\ Sound(index, FileLimit) /\ Blobs(B) /\ Intact(R, B)
  BY FullParts DEF Agree
<1>4. \/ found = {} /\ s = State(index, file)
      \/ \E p \in found : s = Release(index, file, p)
  BY <1>1, FindBlobFinds, ErasuresAre
<1>2. CASE found = {}
  <2>1. s.index = index /\ s.file = file
    BY <1>2, <1>4 DEF State
  <2>2. ASSUME NEW b \in Stored(index, file) PROVE b.id # id
    <3>1. PICK r \in R : r.offset = b.offset /\ b \in B
      BY DEF Stored, StoredOf
    <3>2. PICK p \in DOMAIN index.heap : Allocd(index, p) /\ r = index.heap[p]
      BY <1>1, AllocatedRecordsByAddress
    <3> QED
      BY <1>2, <3>1, <3>2, FindBlobFinds
  <2>3. Others(Stored(index, file), id) = Stored(index, file)
    BY <2>2 DEF Others
  <2> QED
    BY <2>1, <2>3
<1>3. CASE found # {}
  <2>1. PICK p \in found : s = Release(index, file, p)
    BY <1>3, <1>4
  <2> DEFINE r == index.heap[p]
  <2>2. Allocd(index, p) /\ \E b \in B : b.offset = r.offset /\ b.id = id
    BY FindBlobFinds
  <2>3. PICK c \in B : c.offset = r.offset /\ c.id = id
    BY <2>2
  <2>4. r \in R
    BY <1>1, <2>2, AllocatedRecordsByAddress DEF Allocd
  <2>5. /\ Intact(R \ {r}, B)
        /\ \A b : b \in StoredOf(R \ {r}, B) <=>
                   b \in StoredOf(R, B) /\ b.offset # r.offset
    <3>1. Disjointed(R)
      BY <1>1, AllocatedDisjointed
    <3> HIDE DEF R, B, r
    <3> QED
      BY <1>1, <2>4, <3>1, OneStoredLess
  <2>6. FullBut({r}, index, file)
    BY <1>1, <2>5 DEF FullBut
  <2>7. /\ Full(s.index, s.file)
        /\ Stored(s.index, s.file) = StoredOf(R \ {r}, B)
    BY <2>1, <2>2, <2>6, ReleaseKeeps
  <2>8. ASSUME NEW b \in StoredOf(R, B)
        PROVE  b.offset # r.offset <=> b.id # id
    <3>1. c \in StoredOf(R, B)
      BY <2>3, <2>4 DEF StoredOf
    <3>2. b.id = id => b = c
      BY <1>1, <2>3, <3>1 DEF Intact, Distinct
    <3>3. b.offset = r.offset => b = c
      BY <1>1, <2>3, SameOffset DEF StoredOf
    <3> QED
      BY <2>3, <3>2, <3>3
  <2>9. StoredOf(R \ {r}, B) = Others(Stored(index, file), id)
    BY <2>5, <2>8 DEF Others, Stored
  <2> QED
    BY <2>7, <2>9
<1> QED
  BY <1>2, <1>3

-----------------------------------------------------------------------------
(* Adding a record at the end *)

\* The two addresses.
LEMMA NewAddresses ==
  ASSUME NEW ix, CanNew(ix)
  PROVE  New(ix) \in Fresh(ix) /\ New2(ix) \in Fresh(ix) /\ New(ix) # New2(ix)
<1>1. New(ix) \in Fresh(ix)
  BY DEF CanNew, New
<1>2. \E q \in Fresh(ix) : q # New(ix)
  BY <1>1 DEF CanNew
<1>3. New2(ix) \in Fresh(ix) /\ New2(ix) # New(ix)
  BY <1>2 DEF New2
<1> QED
  BY <1>1, <1>3

\* iy is the index ix with the record r added at the address p, as the last one.
Extended(ix, iy, p, r) ==
  /\ Sound(iy, FileLimit)
  /\ Allocd(iy, p) /\ iy.heap[p] = r /\ Back(iy) = p
  /\ iy.m_list # <<>> /\ LastRecord(iy) = r
  /\ HEAD_SIZE <= Base(iy)
  /\ ix.m_list # <<>> => Base(iy) = Base(ix)
  /\ r \notin AllocatedRecords(ix)
  /\ AllocatedRecords(iy) = AllocatedRecords(ix) \cup {r}

\* addAllocatedBlock, as the constructor calls it.
LEMMA AddExtends ==
  ASSUME FileLimit < U32, NEW ix, NEW f, Agree(ix, f),
         NEW p \in Fresh(ix), NEW g \in Fresh(ix), p # g,
         NEW r, RecordOK(r), ~Overlaps(ix, r),
         NEW iy, iy = AddAllocatedBlock(ix, p, g, r)
  PROVE  Extended(ix, iy, p, r)
<1>1. /\ r \in Record /\ r.size > 0 /\ HEAD_SIZE <= r.offset /\ End(r) <= FileLimit
      /\ Sound(ix, FileLimit) /\ FileLimit \in Nat
  BY Parameters DEF RecordOK, Agree
<1>2. Sound(iy, FileLimit)
  BY <1>1, AddSound
<1>3. Added(ix, iy, p, r)
  BY <1>1, AddEffect
<1>4. /\ Granted(ix, iy, p) /\ iy.heap[p] = r /\ Back(iy) = p /\ LastRecord(iy) = r
      /\ Base(iy) = IF ix.m_list = <<>> THEN r.offset ELSE Base(ix)
  BY <1>3 DEF Added
<1>5. r \notin AllocatedRecords(ix) /\ AllocatedRecords(iy) = AllocatedRecords(ix) \cup {r}
  BY <1>1, <1>2, <1>4, GrantedRecords
<1>6. HEAD_SIZE <= Base(iy)
  BY <1>1, <1>4 DEF Agree, Covers
<1> QED
  BY <1>2, <1>4, <1>5, <1>6 DEF Extended, Granted

\* And as writeBlob does, with the block right behind the last one: there is no
\* hole, and no second address is needed.
LEMMA AppendExtends ==
  ASSUME FileLimit < U32, NEW ix, NEW f, Agree(ix, f), CanNew(ix),
         NEW p, p = New(ix), NEW r, RecordOK(r),
         ix.m_list # <<>> => r.offset = End(LastRecord(ix)),
         NEW iy, iy = AddAllocatedBlock(ix, p, p, r)
  PROVE  Extended(ix, iy, p, r)
<1> DEFINE g == New2(ix)
<1>1. p \in Fresh(ix) /\ g \in Fresh(ix) /\ p # g
  BY NewAddresses
<1>2. iy = AddAllocatedBlock(ix, p, g, r)
  BY DEF AddAllocatedBlock, SharesRightBoundary
<1>3. ~Overlaps(ix, r)
  <2> SUFFICES ASSUME ix.m_list # <<>> PROVE ~(r.offset < End(LastRecord(ix)))
    BY DEF Overlaps
  <2>1. End(LastRecord(ix)) \in Nat
    BY LastRecordTypes DEF Agree
  <2> QED
    BY <2>1
<1> QED
  BY <1>1, <1>2, <1>3, AddExtends

-----------------------------------------------------------------------------
(* The map from ids to objects *)

LEMMA StoreValues ==
  ASSUME NEW S, Distinct(S)
  PROVE  /\ DOMAIN StoreOf(S) = {b.id : b \in S}
         /\ \A b \in S : StoreOf(S)[b.id] = b.data
<1>1. \A b \in S : (CHOOSE c \in S : c.id = b.id) = b
  BY DEF Distinct
<1> QED
  BY <1>1 DEF StoreOf

\* One object less.
LEMMA StoreDrop ==
  ASSUME NEW S, Distinct(S), NEW id
  PROVE  StoreOf(Others(S, id)) =
           [i \in DOMAIN StoreOf(S) \ {id} |-> StoreOf(S)[i]]
<1> DEFINE T == Others(S, id)
<1>1. Distinct(T) /\ T \subseteq S /\ \A b \in S : b.id # id => b \in T
  BY DEF Distinct, Others
<1>2. \A b \in T : b.id # id
  BY DEF Others
<1> HIDE DEF T
<1>3. {b.id : b \in T} = {b.id : b \in S} \ {id}
  BY <1>1, <1>2
<1>4. \A i \in {b.id : b \in T} : StoreOf(T)[i] = StoreOf(S)[i]
  <2> SUFFICES ASSUME NEW b \in T
               PROVE  StoreOf(T)[b.id] = StoreOf(S)[b.id]
    OBVIOUS
  <2>1. StoreOf(T)[b.id] = b.data
    BY <1>1, StoreValues
  <2>2. StoreOf(S)[b.id] = b.data
    BY <1>1, StoreValues
  <2> QED
    BY <2>1, <2>2
<1>5. StoreOf(T) = [i \in {b.id : b \in T} |-> StoreOf(T)[i]]
  BY DEF StoreOf
<1>6. DOMAIN StoreOf(S) = {b.id : b \in S}
  BY StoreValues
<1> QED
  BY <1>3, <1>4, <1>5, <1>6 DEF T

\* None.
LEMMA StoreSame ==
  ASSUME NEW S, NEW id, id \notin DOMAIN StoreOf(S)
  PROVE  Others(S, id) = S
  BY DEF StoreOf, Others

\* The map f with this object under this id.
Updated(f, id, data) ==
  [i \in DOMAIN f \cup {id} |-> IF i = id THEN data ELSE f[i]]

\* One object for another, or one more.
LEMMA StorePut ==
  ASSUME NEW S, Distinct(S), NEW id, NEW data, NEW x, x.id = id, x.data = data,
         NEW T, \A b : b \in T <=> b \in Others(S, id) \/ b = x
  PROVE  StoreOf(T) = Updated(StoreOf(S), id, data)
<1>1. \A b : b \in T <=> (b \in S /\ b.id # id) \/ b = x
  BY DEF Others
<1>2. Distinct(T)
  BY <1>1 DEF Distinct
<1>3. {b.id : b \in T} = {b.id : b \in S} \cup {id}
  BY <1>1
<1>4. \A i \in {b.id : b \in T} :
        StoreOf(T)[i] = IF i = id THEN data ELSE StoreOf(S)[i]
  <2> SUFFICES ASSUME NEW b \in T
               PROVE  StoreOf(T)[b.id] = IF b.id = id THEN data ELSE StoreOf(S)[b.id]
    OBVIOUS
  <2>1. StoreOf(T)[b.id] = b.data
    BY <1>2, StoreValues
  <2>2. b \in S => StoreOf(S)[b.id] = b.data
    BY StoreValues
  <2> QED
    BY <1>1, <2>1, <2>2
<1>5. StoreOf(T) = [i \in {b.id : b \in T} |-> StoreOf(T)[i]]
  BY DEF StoreOf
<1>6. DOMAIN StoreOf(S) = {b.id : b \in S}
  BY StoreValues
<1> QED
  BY <1>3, <1>4, <1>5, <1>6 DEF Updated

-----------------------------------------------------------------------------
(* The last parts of writeBlob, setMaxSize and the destructor *)

\* An index with fewer blocks fits a file that the other one fits.
LEMMA FewerAgree ==
  ASSUME NEW ix, NEW f, Agree(ix, f), NEW iy, Sound(iy, FileLimit),
         \A r \in AllocatedRecords(iy) : r \in AllocatedRecords(ix),
         iy.m_list # <<>> => HEAD_SIZE <= Base(iy)
  PROVE  Agree(iy, f)
<1>1. Sound(ix, FileLimit) /\ FileOK(f) /\ Covers(f, ix) /\ f.size \in Nat
  BY FileTypes DEF Agree
<1> SUFFICES ASSUME iy.m_list # <<>>
             PROVE  End(LastRecord(iy)) <= f.size
  BY <1>1 DEF Agree, Covers
<1> DEFINE r == LastRecord(iy)
<1>2. r \in AllocatedRecords(iy)
  BY LastRecordTypes
<1>3. r \in AllocatedRecords(ix)
  BY <1>2
<1> HIDE DEF r
<1>4. /\ End(r) \in Nat /\ ix.m_list # <<>> /\ End(r) <= End(LastRecord(ix))
  BY <1>1, <1>3, AllocatedRecordTypes
<1>5. End(LastRecord(ix)) \in Nat /\ End(LastRecord(ix)) <= f.size
  BY <1>1, <1>4, LastRecordTypes DEF Covers
<1> QED
  BY <1>1, <1>4, <1>5 DEF r

\* g is the file f cut behind the last record of ix, and records of ix
\* describe objects in f.
Cuts(ix, f, R, n, g) ==
  /\ Sound(ix, FileLimit) /\ ix.m_list # <<>> /\ HEAD_SIZE <= Base(ix)
  /\ FileOK(f) /\ Blobs(f.blobs)
  /\ R \subseteq AllocatedRecords(ix) /\ Intact(R, f.blobs)
  /\ n \in Nat /\ End(LastRecord(ix)) <= n /\ g = Trim(f, n)

\* They do so in g.
LEMMA TrimBehind ==
  ASSUME NEW ix, NEW f, NEW R, NEW n, NEW g, Cuts(ix, f, R, n, g)
  PROVE  /\ Agree(ix, g) /\ g.size = n
         /\ Blobs(g.blobs) /\ Intact(R, g.blobs)
         /\ StoredOf(R, g.blobs) = StoredOf(R, f.blobs)
<1> USE DEF Cuts
<1> DEFINE B == f.blobs
           C == g.blobs
<1>7. HEAD_SIZE <= n
  BY LastRecordTypes, Parameters
<1>1. FileOK(g) /\ g.size = n /\ g.head = f.head /\ C = {b \in B : End(b) <= n}
  BY <1>7, TrimFile
<1>2. Agree(ix, g)
  BY <1>1 DEF Agree, Covers
<1>3. ASSUME NEW b \in B, NEW r \in R, Holds(b, r) PROVE b \in C
  <2>1. End(b) \in Nat /\ End(b) <= End(r)
    BY <1>3, FileTypes, BlobTypes DEF Holds
  <2>2. End(r) \in Nat /\ End(r) <= End(LastRecord(ix)) /\ End(LastRecord(ix)) \in Nat
    BY AllocatedRecordTypes, LastRecordTypes
  <2> QED
    BY <1>1, <2>1, <2>2
<1>4. C \in SUBSET B
  BY <1>1
<1>5. Blobs(B) /\ Intact(R, B)
  OBVIOUS
<1> HIDE DEF B, C
<1>6. Blobs(C) /\ Intact(R, C) /\ StoredOf(R, C) = StoredOf(R, B)
  BY <1>3, <1>4, <1>5, KeepStored
<1> QED
  BY <1>1, <1>2, <1>6 DEF B, C

\* Without the record at p one object is no longer led to, and no other.
LEMMA RecordGone ==
  ASSUME NEW ix, NEW f, Full(ix, f), NEW p, Allocd(ix, p),
         NEW R, R = AllocatedRecords(ix) \ {ix.heap[p]}
  PROVE  /\ Intact(R, f.blobs)
         /\ \E id \in Id : /\ \E b \in Stored(ix, f) : b.id = id
                           /\ StoredOf(R, f.blobs) = Others(Stored(ix, f), id)
<1> DEFINE Q == AllocatedRecords(ix)
           B == f.blobs
           r == ix.heap[p]
<1>1. Sound(ix, FileLimit) /\ Blobs(B) /\ Intact(Q, B)
  BY FullParts DEF Agree
<1>2. r \in Q
  BY <1>1, AllocatedRecordsByAddress DEF Allocd
<1>3. PICK c \in B : Holds(c, r)
  BY <1>1, <1>2 DEF Intact
<1>4. c.offset = r.offset /\ c.id \in Id
  BY <1>1, <1>3, BlobTypes DEF Holds, Blobs
<1>5. /\ Intact(R, B)
      /\ \A b : b \in StoredOf(R, B) <=> b \in StoredOf(Q, B) /\ b.offset # r.offset
  <2>1. Disjointed(Q) /\ R = Q \ {r}
    BY <1>1, AllocatedDisjointed
  <2> HIDE DEF Q, B, r
  <2> QED
    BY <1>1, <1>2, <2>1, OneStoredLess
<1>6. ASSUME NEW b \in StoredOf(Q, B)
      PROVE  b.offset # r.offset <=> b.id # c.id
  <2>1. c \in StoredOf(Q, B)
    BY <1>2, <1>4 DEF StoredOf
  <2>2. b.id = c.id => b = c
    BY <1>1, <2>1 DEF Intact, Distinct
  <2>3. b.offset = r.offset => b = c
    BY <1>1, <1>4, SameOffset DEF StoredOf
  <2> QED
    BY <1>4, <2>2, <2>3
<1>7. StoredOf(R, B) = Others(Stored(ix, f), c.id)
  BY <1>5, <1>6 DEF Others, Stored
<1>8. c \in Stored(ix, f)
  BY <1>2, <1>4 DEF Stored, StoredOf
<1> QED
  BY <1>4, <1>5, <1>7, <1>8

\* writeBlob puts the object into the free block that allocate found.
LEMMA HoleWritten ==
  ASSUME FileLimit < U32, NEW ix, NEW f, Full(ix, f), CanNew(ix),
         NEW id \in Id, NEW data \in Data, \A b \in Stored(ix, f) : b.id # id,
         NEW size, size = AtLeastMinSize(BlobSize[data]),
         NEW e \in LowerBound(ix, size), NEW p, p = New(ix),
         NEW s, s = WriteData(Allocate(ix, e, size, Hash[id], p), f,
                              Allocated(ix, e, size, p), id, data)
  PROVE  /\ Full(s.index, s.file)
         /\ Written(Stored(ix, f), Stored(s.index, s.file), id, data)
<1> DEFINE iy == Allocate(ix, e, size, Hash[id], p)
           a == Allocated(ix, e, size, p)
           r == iy.heap[a]
           R == AllocatedRecords(ix)
<1>1. /\ Sound(ix, FileLimit) /\ FileOK(f) /\ Covers(f, ix)
      /\ Blobs(f.blobs) /\ Intact(R, f.blobs)
  BY FullParts DEF Agree
<1>2. /\ FileLimit \in Nat /\ Hash[id] \in Key
      /\ size \in Nat /\ size > 0 /\ BlobSize[data] \in Nat /\ BlobSize[data] <= size
  BY Parameters
<1>3. p \in Fresh(ix)
  BY NewAddresses
<1>4. Sound(iy, FileLimit)
  BY <1>1, <1>2, <1>3, AllocateSound
<1>5. Allotted(ix, iy, a, size, Hash[id])
  BY <1>1, <1>2, <1>3, AllocateEffect
<1> HIDE DEF iy, a, R
<1>6. /\ Granted(ix, iy, a) /\ Allocd(iy, a) /\ r.key = Hash[id] /\ size <= r.size
      /\ ix.m_list # <<>> /\ iy.m_list # <<>>
      /\ LastRecord(iy) = LastRecord(ix) /\ Base(iy) = Base(ix)
  BY <1>5 DEF Allotted, Granted
<1>7. /\ a \in DOMAIN iy.heap /\ r \notin R
      /\ AllocatedRecords(iy) = R \cup {r}
  BY <1>1, <1>4, <1>6, GrantedRecords DEF R
<1>8. AllocatedRecords(iy) \ {r} = R
  BY <1>7
<1>9. Covers(f, iy) /\ End(LastRecord(iy)) <= f.size
  BY <1>1, <1>6 DEF Covers
<1>10. FullBut({r}, iy, f)
  BY <1>1, <1>4, <1>8, <1>9 DEF FullBut, Agree
<1>11. Shape(iy, FileLimit) /\ f.size \in Nat
  BY <1>1, <1>4, FileTypes DEF Sound
<1>12. /\ End(r) \in Nat /\ r.size \in Nat /\ End(r) <= End(LastRecord(iy))
       /\ End(LastRecord(iy)) \in Nat
  BY <1>4, <1>6, <1>7, <1>11, RecordTypes, RecordsWithin, LastRecordTypes
<1>13. End(r) <= f.size /\ BlobSize[data] <= r.size
  BY <1>2, <1>6, <1>9, <1>11, <1>12
<1>14. Stored(ix, f) = StoredOf(AllocatedRecords(iy) \ {r}, f.blobs)
  BY <1>8 DEF Stored, R
<1>15. s = WriteData(iy, f, a, id, data)
  BY DEF iy, a
<1> DEFINE S == Stored(ix, f)
<1>16. S = StoredOf(AllocatedRecords(iy) \ {r}, f.blobs) /\ \A b \in S : b.id # id
  BY <1>14
<1> HIDE DEF S
<1>17. /\ Full(s.index, s.file)
       /\ Written(S, Stored(s.index, s.file), id, data)
  BY <1>6, <1>10, <1>13, <1>15, <1>16, WriteDataStores
<1> QED
  BY <1>17 DEF S
\* The record that writeBlob appends is right behind the last one.
LEMMA AppendedProperties ==
  ASSUME NEW ix, NEW f, Agree(ix, f), NEW id \in Id, NEW data \in Data,
         NEW r, r = Appended(ix, id, data), End(r) <= FileLimit
  PROVE  /\ RecordOK(r)
         /\ r.key = Hash[id] /\ BlobSize[data] <= r.size
         /\ ix.m_list # <<>> => r.offset = End(LastRecord(ix))
<1> DEFINE o == IF ix.m_list = <<>> THEN HEAD_SIZE ELSE End(LastRecord(ix))
           n == AtLeastMinSize(BlobSize[data])
<1>1. /\ HEAD_SIZE \in Nat /\ Hash[id] \in Key
      /\ n \in Nat /\ n > 0 /\ BlobSize[data] <= n
  BY Parameters
<1>2. o \in Nat /\ HEAD_SIZE <= o
  <2>1. CASE ix.m_list = <<>>
    BY <1>1, <2>1
  <2>2. CASE ix.m_list # <<>>
    <3>1. /\ LastRecord(ix).offset \in Nat /\ End(LastRecord(ix)) \in Nat
          /\ LastRecord(ix).offset < End(LastRecord(ix))
          /\ Base(ix) \in Nat /\ Base(ix) <= LastRecord(ix).offset
          /\ HEAD_SIZE <= Base(ix)
      BY <2>2, LastRecordTypes DEF Agree, Covers
    <3> QED
      BY <1>1, <2>2, <3>1
  <2> QED
    BY <2>1, <2>2
<1>3. r = [offset |-> o, key |-> Hash[id], size |-> n]
  BY DEF Appended, MakeRecord
<1>4. ix.m_list # <<>> => o = End(LastRecord(ix))
  OBVIOUS
<1> HIDE DEF o, n
<1> QED
  BY <1>1, <1>2, <1>3, <1>4 DEF RecordOK, Record

\* The object goes into the block at the end, where the old index may have
\* been, and the file is cut behind the new index.
LEMMA ExtendedWritten ==
  ASSUME FileLimit < U32, NEW ix, NEW f, Full(ix, f),
         NEW iy, NEW p, NEW r, Extended(ix, iy, p, r),
         NEW id \in Id, NEW data \in Data, r.key = Hash[id], BlobSize[data] <= r.size,
         NEW S, S = Stored(ix, f), \A b \in S : b.id # id,
         NEW n, n = ProposedSize(iy), NEW g, g = Trim(f, n),
         NEW s, s = WriteData(iy, g, p, id, data)
  PROVE  /\ Full(s.index, s.file)
         /\ Written(S, Stored(s.index, s.file), id, data)
<1> DEFINE R == AllocatedRecords(ix)
<1>1. /\ Agree(ix, f) /\ FileOK(f) /\ Blobs(f.blobs) /\ Intact(R, f.blobs)
      /\ S = StoredOf(R, f.blobs)
  BY FullParts DEF Agree, Stored
<1>2. /\ Sound(iy, FileLimit) /\ Allocd(iy, p) /\ iy.heap[p] = r
      /\ iy.m_list # <<>> /\ LastRecord(iy) = r /\ HEAD_SIZE <= Base(iy)
      /\ r \notin R /\ AllocatedRecords(iy) = R \cup {r}
  BY DEF Extended
<1>3. AllocatedRecords(iy) \ {r} = R /\ R \subseteq AllocatedRecords(iy)
  BY <1>2
<1>4. End(r) \in Nat /\ IndexSize(iy) \in Nat
  BY <1>2, LastRecordTypes, IndexSizeType
<1>5. n \in Nat /\ End(LastRecord(iy)) <= n
  BY <1>2, <1>4 DEF ProposedSize
<1> HIDE DEF R
<1>6. /\ Agree(iy, g) /\ g.size = n
      /\ Blobs(g.blobs) /\ Intact(R, g.blobs)
      /\ StoredOf(R, g.blobs) = StoredOf(R, f.blobs)
  <2>1. Cuts(iy, f, R, n, g)
    BY <1>1, <1>2, <1>3, <1>5 DEF Cuts
  <2> QED
    BY <2>1, TrimBehind
<1>7. FullBut({iy.heap[p]}, iy, g)
  BY <1>2, <1>3, <1>6 DEF FullBut
<1>8. S = StoredOf(AllocatedRecords(iy) \ {iy.heap[p]}, g.blobs)
  BY <1>1, <1>2, <1>3, <1>6
<1>9. /\ iy.heap[p].key = Hash[id] /\ BlobSize[data] <= iy.heap[p].size
      /\ End(iy.heap[p]) <= g.size
  BY <1>2, <1>5, <1>6
<1> QED
  BY <1>2, <1>7, <1>8, <1>9, WriteDataStores

\* So does writeBlob when no free block will do.
LEMMA AppendWritten ==
  ASSUME FileLimit < U32, NEW ix, NEW f, Full(ix, f), CanNew(ix),
         NEW id \in Id, NEW data \in Data, \A b \in Stored(ix, f) : b.id # id,
         NEW r, r = Appended(ix, id, data), End(r) <= FileLimit,
         NEW p, p = New(ix), NEW iy, iy = AddAllocatedBlock(ix, p, p, r),
         NEW s, s = WriteData(iy, Trim(f, ProposedSize(iy)), p, id, data)
  PROVE  /\ Full(s.index, s.file)
         /\ Written(Stored(ix, f), Stored(s.index, s.file), id, data)
<1>1. Agree(ix, f)
  BY FullParts
<1>2. /\ RecordOK(r) /\ r.key = Hash[id] /\ BlobSize[data] <= r.size
      /\ ix.m_list # <<>> => r.offset = End(LastRecord(ix))
  BY <1>1, AppendedProperties
<1>3. Extended(ix, iy, p, r)
  BY <1>1, <1>2, AppendExtends
<1> QED
  BY <1>2, <1>3, ExtendedWritten

\* And when the file would be too long, writeBlob takes the record out again:
\* the objects are those that there were.
LEMMA AppendRefused ==
  ASSUME FileLimit < U32, NEW ix, NEW f, Full(ix, f), CanNew(ix),
         NEW id \in Id, NEW data \in Data,
         NEW r, r = Appended(ix, id, data), End(r) <= FileLimit,
         NEW p, p = New(ix), NEW iy, iy = AddAllocatedBlock(ix, p, p, r),
         NEW iz, iz = Deallocate(iy, p)
  PROVE  Full(iz, f) /\ Stored(iz, f) = Stored(ix, f)
<1>1. /\ Agree(ix, f) /\ FileLimit \in Nat /\ Blobs(f.blobs)
      /\ Intact(AllocatedRecords(ix), f.blobs)
  BY FullParts, Parameters
<1>2. /\ RecordOK(r)
      /\ ix.m_list # <<>> => r.offset = End(LastRecord(ix))
  BY <1>1, AppendedProperties
<1>3. Extended(ix, iy, p, r)
  BY <1>1, <1>2, AppendExtends
<1>4. /\ Sound(iy, FileLimit) /\ Allocd(iy, p) /\ iy.heap[p] = r
      /\ HEAD_SIZE <= Base(iy)
      /\ r \notin AllocatedRecords(ix)
      /\ AllocatedRecords(iy) = AllocatedRecords(ix) \cup {r}
  BY <1>3 DEF Extended
<1>5. Sound(iz, FileLimit)
  BY <1>1, <1>4, DeallocateSound DEF Allocd
<1>6. Deallocated(iy, iz, p)
  BY <1>1, <1>4, DeallocateEffect
<1>7. AllocatedRecords(iz) = AllocatedRecords(ix)
  BY <1>4, <1>5, <1>6, DeallocatedRecords
<1>8. iz.m_list # <<>> => HEAD_SIZE <= Base(iz)
  BY <1>4, <1>6 DEF Deallocated
<1>9. Agree(iz, f)
  BY <1>1, <1>5, <1>7, <1>8, FewerAgree
<1> QED
  BY <1>1, <1>7, <1>9, FullParts DEF Stored

\* The index the destructor writes: behind everything, in order, and complete.
TableOf(ix) ==
  [offset |-> End(LastRecord(ix)), size |-> IndexSize(ix), records |-> Serialized(ix)]

LEMMA TableOfProperties ==
  ASSUME NEW ix, NEW f, Agree(ix, f), ix.m_list # <<>>, NEW t, t = TableOf(ix)
  PROVE  /\ t \in Table /\ WellFormed(t)
         /\ t.offset = End(LastRecord(ix)) /\ t.offset \in Nat
         /\ End(t) \in Nat /\ t.offset < End(t)
         /\ ToSet(t.records) = AllocatedRecords(ix)
         /\ \A r \in AllocatedRecords(ix) : End(r) \in Nat /\ End(r) <= t.offset
<1> DEFINE o == End(LastRecord(ix))
           n == IndexSize(ix)
           v == Serialized(ix)
<1>1. Sound(ix, FileLimit) /\ HEAD_SIZE <= Base(ix) /\ HEAD_SIZE \in Nat
  BY Parameters DEF Agree, Covers
<1>2. o \in Nat /\ n \in Nat /\ n > 0 /\ Base(ix) \in Nat
  BY <1>1, LastRecordTypes, IndexSizeType
<1>3. v \in Seq(Record) /\ ToSet(v) = AllocatedRecords(ix) /\ Ordered(v)
  BY <1>1, SerializedProperties
<1>4. \A r \in AllocatedRecords(ix) : RecordOK(r) /\ End(r) \in Nat /\ End(r) <= o
  <2> SUFFICES ASSUME NEW r \in AllocatedRecords(ix)
               PROVE  RecordOK(r) /\ End(r) \in Nat /\ End(r) <= o
    OBVIOUS
  <2>1. /\ r \in Record /\ r.offset \in Nat /\ r.size > 0
        /\ End(r) \in Nat /\ End(r) <= FileLimit
        /\ Base(ix) <= r.offset /\ End(r) <= o
    BY <1>1, AllocatedRecordTypes
  <2> QED
    BY <1>1, <1>2, <2>1 DEF RecordOK
<1>5. AllocatedRecords(ix) # {}
  BY <1>1, EmptyExactly
<1>6. t = [offset |-> o, size |-> n, records |-> v]
  BY DEF TableOf
<1> HIDE DEF o, n, v
<1>7. \A i \in DOMAIN v : v[i] \in AllocatedRecords(ix)
  BY <1>3, ToSetProperties, LenProperties
<1>8. v # <<>>
  <2>1. ToSet(v) # {}
    BY <1>3, <1>5
  <2> QED
    BY <2>1 DEF ToSet
<1>9. WellFormed(t)
  BY <1>3, <1>4, <1>6, <1>7, <1>8 DEF WellFormed
<1>10. t \in Table
  BY <1>2, <1>3, <1>6 DEF Table
<1>11. End(t) \in Nat /\ t.offset < End(t)
  BY <1>2, <1>6 DEF End
<1> QED
  BY <1>2, <1>3, <1>4, <1>6, <1>9, <1>10, <1>11 DEF o

\* The commit writes it behind everything that a record describes.
LEMMA CommitFile ==
  ASSUME NEW ix, NEW f, Agree(ix, f), ix.m_list # <<>>,
         NEW t, t = TableOf(ix), NEW g, g = Commit(ix, f)
  PROVE  /\ FileOK(g) /\ g.head = t.offset /\ g.tables = {t}
         /\ g.size \in Nat /\ g.size > 0
         /\ g.blobs \subseteq f.blobs
         /\ \A b \in f.blobs, r \in AllocatedRecords(ix) : Holds(b, r) => b \in g.blobs
<1> DEFINE a == WriteHead(f, t.offset)
           h == Grow(a, End(t))
           k == Overwrite(h, t)
           R == AllocatedRecords(ix)
           B == f.blobs
<1>1. FileOK(f)
  BY DEF Agree
<1>2. /\ t \in Table /\ WellFormed(t) /\ t.offset \in Nat
      /\ End(t) \in Nat /\ t.offset < End(t)
      /\ \A r \in R : End(r) \in Nat /\ End(r) <= t.offset
  BY TableOfProperties
<1>3. HEAD_SIZE <= t.offset
  <2>1. /\ LastRecord(ix).offset \in Nat /\ End(LastRecord(ix)) \in Nat
        /\ LastRecord(ix).offset < End(LastRecord(ix))
        /\ Base(ix) \in Nat /\ Base(ix) <= LastRecord(ix).offset
        /\ HEAD_SIZE <= Base(ix) /\ t.offset = End(LastRecord(ix))
    BY TableOfProperties, LastRecordTypes DEF Agree, Covers
  <2> QED
    BY <2>1, Parameters
<1>4. FileOK(a) /\ a.blobs = B /\ a.head = t.offset
  <2>1. PICK o \in Nat : o = t.offset
    BY <1>2
  <2>2. FileOK(WriteHead(f, o)) /\ WriteHead(f, o).blobs = B /\ WriteHead(f, o).head = o
    BY <1>1, WriteHeadFile
  <2> QED
    BY <2>1, <2>2
<1> HIDE DEF a
<1>5. /\ FileOK(h) /\ h.size \in Nat /\ End(t) <= h.size
      /\ h.blobs = B /\ h.head = t.offset
  BY <1>2, <1>4, GrowFile
<1> HIDE DEF h
<1>6. /\ FileOK(k) /\ k.size = h.size /\ k.head = t.offset
      /\ k.blobs = {b \in B : ~Overlap(b, t)}
  BY <1>2, <1>3, <1>5, OverwriteFile
<1>7. g = [k EXCEPT !.tables = {t}]
  BY DEF Commit, TableOf, a, h
<1> HIDE DEF k, R, B
<1>8. Consists(g, k.size, k.head, k.blobs, k.torn, {t})
  BY <1>6, <1>7 DEF FileOK, IsFile, Consists
<1>9. /\ g.size = h.size /\ g.head = t.offset /\ g.tables = {t}
      /\ g.blobs = k.blobs /\ g.torn = k.torn
  BY <1>6, <1>8 DEF Consists
<1>10. IsFile(g)
  BY <1>2, <1>6, <1>8, FileTypes DEF IsFile, Consists
<1>11. FileOK(g)
  BY <1>2, <1>5, <1>6, <1>9, <1>10 DEF FileOK
<1>12. \A b \in B, r \in R : Holds(b, r) => b \in g.blobs
  <2> SUFFICES ASSUME NEW b \in B, NEW r \in R, Holds(b, r) PROVE ~Overlap(b, t)
    BY <1>6, <1>9
  <2>1. End(b) \in Nat /\ End(b) <= End(r)
    BY <1>1, FileTypes, BlobTypes DEF B, Holds
  <2> QED
    BY <1>2, <2>1 DEF Overlap
<1>13. g.size \in Nat /\ g.size > 0
  BY <1>2, <1>5, <1>9
<1> QED
  BY <1>6, <1>9, <1>11, <1>12, <1>13 DEF R, B

\* It loses no object, and leaves one table.
LEMMA CommitKeeps ==
  ASSUME NEW ix, NEW f, Full(ix, f), ix.m_list # <<>>,
         NEW t, t = TableOf(ix), NEW g, g = Commit(ix, f)
  PROVE  /\ FileOK(g) /\ g.head = t.offset /\ g.tables = {t}
         /\ Blobs(g.blobs) /\ Intact(AllocatedRecords(ix), g.blobs)
         /\ StoredOf(AllocatedRecords(ix), g.blobs) = Stored(ix, f)
<1> DEFINE R == AllocatedRecords(ix)
           B == f.blobs
           C == g.blobs
<1>1. Agree(ix, f) /\ Blobs(B) /\ Intact(R, B)
  BY FullParts
<1>2. /\ FileOK(g) /\ g.head = t.offset /\ g.tables = {t}
      /\ C \subseteq B
      /\ \A b \in B, r \in R : Holds(b, r) => b \in C
  BY <1>1, CommitFile
<1> HIDE DEF R, B, C
<1>3. Blobs(C) /\ Intact(R, C) /\ StoredOf(R, C) = StoredOf(R, B)
  BY <1>1, <1>2, KeepStored
<1> QED
  BY <1>2, <1>3 DEF R, B, C, Stored
=============================================================================
