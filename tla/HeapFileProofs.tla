---------------------------- MODULE HeapFileProofs ----------------------------
(***************************************************************************)
(* The invariants of HeapFile and its refinement of BlobStore, for every   *)
(* set of ids, objects and limits and every size of a header, a record and *)
(* a block.  FileLimit < U32 keeps the size of a record within a uint32_t. *)
(*                                                                         *)
(* The inductive invariant has two halves: Structure, which says that the  *)
(* index and the file agree on where the blocks are, and Objects, which    *)
(* says what is in them.  Every call is followed through both, and through *)
(* the set of the objects stored, by one lemma.                            *)
(***************************************************************************)
EXTENDS HeapFile, HeapFileLemmas, TLAPS

-----------------------------------------------------------------------------
(* The inductive invariant *)

\* Index and file have their types and agree on where the blocks are.
Structure ==
  /\ FileOK(file)
  /\ maxSize \in MaxSize \cup {NoLimit}
  /\ phase \in {"closed", "loading", "open", "shrinking", "undefined"}
  /\ Sound(index, FileLimit) \/ Husk(index)
  /\ Sound(index, FileLimit) => Covers(file, index)
  /\ pending \in Seq(Record)
  /\ phase = "closed" => index = EmptyIndex
  /\ phase = "shrinking" => index.m_alloc # {} /\ maxSize \in MaxSize
  /\ phase = "loading" => Sound(index, FileLimit) /\ Loadable(file, index, pending)
  /\ phase # "loading" => pending = <<>>

\* The head of the file leads to the table t, which describes the objects.
Tabled(t) ==
  /\ file.tables = {t}
  /\ t.offset = file.head
  /\ Intact(ToSet(t.records), file.blobs)

\* The table describes the objects when no index is in memory, else the index.
Objects ==
  /\ Blobs(file.blobs)
  /\ phase \in {"open", "shrinking", "undefined"} =>
       Intact(AllocatedRecords(index), file.blobs)
  /\ phase = "closed" => file = EmptyFile \/ \E t \in file.tables : Tabled(t)
  /\ phase = "loading" =>
       \E t \in file.tables :
         /\ Tabled(t)
         /\ ToSet(t.records) = AllocatedRecords(index) \cup ToSet(pending)

IInv == Structure /\ Objects

-----------------------------------------------------------------------------
(* Reading the invariant *)

\* Where the objects are described.
LEMMA RecordsAre ==
  /\ phase \in {"open", "shrinking", "undefined"} => StoredBlobs = Stored(index, file)
  /\ phase' \in {"open", "shrinking", "undefined"} => StoredBlobs' = Stored(index', file')
<1>1. /\ phase \in {"open", "shrinking", "undefined"} => Records = AllocatedRecords(index)
      /\ phase' \in {"open", "shrinking", "undefined"} =>
           Records' = AllocatedRecords(index')
  BY DEF Records, AllocRecords, AllocatedRecords
<1> QED
  BY <1>1 DEF StoredBlobs, Stored, StoredOf

\* An index with allocated blocks, or with no record that dangles, is sound;
\* one that dangles holds nothing.
LEMMA IndexIs ==
  ASSUME IInv
  PROVE  /\ index.m_alloc # {} => Sound(index, FileLimit)
         /\ ~Dangling(index) => Sound(index, FileLimit)
         /\ ~Sound(index, FileLimit) => Husk(index)
         /\ Sound(index, FileLimit) => ~Dangling(index)
<1>1. Sound(index, FileLimit) \/ Husk(index)
  BY DEF IInv, Structure
<1> QED
  BY <1>1, EmptyHuskSound, SoundNotDangling DEF Husk

\* A usable index and the file agree, and every allocated block has its object.
LEMMA InUseFull ==
  ASSUME IInv, phase \in {"open", "shrinking"}, Sound(index, FileLimit)
  PROVE  Full(index, file) /\ Agree(index, file)
<1>1. Agree(index, file) /\ Blobs(file.blobs)
      /\ Intact(AllocatedRecords(index), file.blobs)
  BY DEF IInv, Structure, Objects, Agree
<1> QED
  BY <1>1, FullParts

\* The invariant after a call that leaves a usable index.
LEMMA UsableIInv ==
  ASSUME Full(index', file'), maxSize' \in MaxSize \cup {NoLimit},
         \/ phase' = "open"
         \/ phase' = "shrinking" /\ index'.m_alloc # {} /\ maxSize' \in MaxSize,
         pending' = <<>>
  PROVE  IInv'
<1>1. /\ Agree(index', file') /\ Blobs(file'.blobs)
      /\ Intact(AllocatedRecords(index'), file'.blobs)
  BY FullParts
<1>2. Structure'
  BY <1>1 DEF Agree, Structure
<1>3. Objects'
  BY <1>1 DEF Objects
<1> QED
  BY <1>2, <1>3 DEF IInv

\* An index without records describes nothing.
LEMMA HuskHolds ==
  ASSUME NEW ix, Husk(ix), NEW B
  PROVE  /\ AllocatedRecords(ix) = {}
         /\ StoredOf({}, B) = {} /\ Intact({}, B)
         /\ \A f : Sound(ix, FileLimit) => Covers(f, ix)
<1>1. ix.m_alloc = {}
  BY DEF Husk
<1>2. AllocatedRecords(ix) = {}
  BY <1>1 DEF AllocatedRecords
<1>3. Sound(ix, FileLimit) => ix.m_list = <<>>
  BY <1>1, EmptyExactly
<1>4. StoredOf({}, B) = {}
  BY DEF StoredOf
<1>5. Intact({}, B)
  BY <1>4 DEF Intact, Distinct
<1> QED
  BY <1>2, <1>3, <1>4, <1>5 DEF Covers

\* The invariant after a call that leaves no record.
LEMMA HuskIInv ==
  ASSUME Husk(index'), FileOK(file'), Blobs(file'.blobs),
         maxSize' \in MaxSize \cup {NoLimit},
         phase' \in {"open", "undefined"}, pending' = <<>>
  PROVE  IInv' /\ StoredBlobs' = {}
<1>1. /\ AllocatedRecords(index') = {}
      /\ StoredOf({}, file'.blobs) = {} /\ Intact({}, file'.blobs)
      /\ Sound(index', FileLimit) => Covers(file', index')
  BY HuskHolds
<1>2. Structure'
  BY <1>1 DEF Structure
<1>3. Objects'
  BY <1>1 DEF Objects
<1>4. StoredBlobs' = {}
  BY <1>1, RecordsAre DEF Stored
<1> QED
  BY <1>2, <1>3, <1>4 DEF IInv

\* The file after clear.
LEMMA EmptyFileOK == FileOK(EmptyFile) /\ Blobs(EmptyFile.blobs)
<1>1. /\ IsFile(EmptyFile)
      /\ EmptyFile.blobs = {} /\ EmptyFile.torn = {} /\ EmptyFile.tables = {}
  BY DEF EmptyFile, IsFile
<1> QED
  BY <1>1 DEF FileOK, Blobs, Apart

\* Without objects there is nothing to name.
LEMMA StoredDistinct ==
  ASSUME IInv
  PROVE  Distinct(StoredBlobs)
<1>1. CASE phase \in {"open", "shrinking", "undefined"}
  <2>1. Distinct(Stored(index, file))
    BY <1>1 DEF IInv, Objects, Intact, Stored
  <2> QED
    BY <1>1, <2>1, RecordsAre
<1>2. CASE phase \in {"closed", "loading"}
  <2>1. CASE file = EmptyFile
    BY <2>1 DEF StoredBlobs, EmptyFile, Distinct
  <2>2. CASE \E t \in file.tables : Tabled(t)
    <3>1. PICK t : Tabled(t)
      BY <2>2
    <3>2. Records = ToSet(t.records)
      BY <1>2, <3>1 DEF Records, Tabled
    <3> QED
      BY <3>1, <3>2 DEF Tabled, Intact, StoredBlobs, StoredOf
  <2> QED
    BY <1>2, <2>1, <2>2 DEF IInv, Objects
<1> QED
  BY <1>1, <1>2 DEF IInv, Structure

\* The map from ids to objects.
LEMMA StoreIs == Store = StoreOf(StoredBlobs) /\ Store' = StoreOf(StoredBlobs')
  BY DEF Store, StoreOf
-----------------------------------------------------------------------------
(* Construction and destruction *)

LEMMA InitIInv == Init => IInv
<1> SUFFICES ASSUME Init PROVE IInv
  OBVIOUS
<1>1. /\ index = EmptyIndex /\ file = EmptyFile /\ maxSize = NoLimit
      /\ pending = <<>> /\ phase = "closed"
  BY DEF Init
<1>2. Sound(EmptyIndex, FileLimit) /\ Covers(EmptyFile, EmptyIndex)
  BY EmptyIndexSound DEF Covers, EmptyIndex
<1>3. Structure
  BY <1>1, <1>2, EmptyFileOK DEF Structure
<1>4. Objects
  BY <1>1, EmptyFileOK DEF Objects
<1> QED
  BY <1>3, <1>4 DEF IInv

\* A new object opens a new file.
LEMMA OpenEmptyCall ==
  ASSUME IInv, OpenEmpty
  PROVE  IInv' /\ StoredBlobs' = StoredBlobs
<1>1. /\ index = EmptyIndex /\ index' = index /\ file' = file /\ file.size = 0
      /\ maxSize' = maxSize /\ pending = <<>> /\ pending' = pending
      /\ phase = "closed" /\ phase' = "open"
  BY DEF OpenEmpty, IInv, Structure
<1>2. file.tables = {}
  <2> SUFFICES ASSUME NEW t \in file.tables PROVE FALSE
    OBVIOUS
  <2>1. WellFormed(t) /\ t.offset \in Nat /\ t.size \in Nat /\ End(t) <= 0
        /\ t.records \in Seq(Record)
    BY <1>1, FileTypes DEF IInv, Structure
  <2>2. t.offset = 0
    BY <2>1 DEF End
  <2>3. Len(t.records) \in Nat /\ Len(t.records) # 0
    BY <2>1, EmptySeq, LenProperties DEF WellFormed
  <2>4. 1 \in DOMAIN t.records
    BY <2>1, <2>3, LenProperties
  <2>5. RecordOK(t.records[1]) /\ End(t.records[1]) <= 0
    BY <2>1, <2>2, <2>4 DEF WellFormed
  <2> QED
    BY <2>5, Parameters DEF RecordOK, Record, End
<1>3. file = EmptyFile
  BY <1>1, <1>2 DEF IInv, Objects
<1>4. Husk(index')
  BY <1>1 DEF Husk, EmptyIndex, IsIndex
<1>5. IInv' /\ StoredBlobs' = {}
  BY <1>1, <1>3, <1>4, EmptyFileOK, HuskIInv DEF IInv, Structure
<1>6. StoredBlobs = {}
  BY <1>3 DEF StoredBlobs, EmptyFile
<1> QED
  BY <1>5, <1>6

\* The constructor is led to the table.
LEMMA OpenCall ==
  ASSUME IInv, Open
  PROVE  IInv' /\ StoredBlobs' = StoredBlobs
<1>1. /\ index = EmptyIndex /\ index' = index /\ file' = file /\ maxSize' = maxSize
      /\ phase = "closed" /\ phase' = "loading"
  BY DEF Open, IInv, Structure
<1>2. PICK t \in file.tables : t.offset = file.head /\ pending' = t.records
  BY DEF Open
<1>3. Tabled(t)
  <2>1. file # EmptyFile
    BY <1>2 DEF EmptyFile
  <2>2. PICK u \in file.tables : Tabled(u)
    BY <1>1, <2>1 DEF IInv, Objects
  <2> QED
    BY <1>2, <2>2 DEF Tabled
<1>4. FileOK(file) /\ file.size \in Nat /\ t.records \in Seq(Record) /\ WellFormed(t)
      /\ t.offset \in Nat /\ t.size \in Nat /\ End(t) <= file.size
  BY FileTypes DEF IInv, Structure
<1>5. Sound(index', FileLimit) /\ Covers(file', index') /\ index'.m_list = <<>>
      /\ AllocatedRecords(index') = {}
  BY <1>1, EmptyIndexSound DEF Covers, EmptyIndex, AllocatedRecords
<1>6. Loadable(file', index', pending')
  <2>1. ASSUME NEW i \in DOMAIN t.records
        PROVE  RecordOK(t.records[i]) /\ End(t.records[i]) <= file.size
    <3>1. RecordOK(t.records[i]) /\ End(t.records[i]) <= t.offset
      BY <1>4 DEF WellFormed
    <3>2. End(t.records[i]) \in Nat
      BY <3>1 DEF RecordOK, Record, End
    <3> QED
      BY <1>4, <3>1, <3>2 DEF End
  <2> QED
    BY <1>1, <1>2, <1>4, <1>5, <2>1 DEF Loadable, WellFormed
<1>7. Structure'
  BY <1>1, <1>2, <1>4, <1>5, <1>6 DEF Structure, IInv
<1>8. Tabled(t)'
  BY <1>1, <1>3 DEF Tabled
<1>9. Objects'
  <2>1. ToSet(t.records) = AllocatedRecords(index') \cup ToSet(pending')
    BY <1>2, <1>5
  <2>2. t \in file'.tables
    BY <1>1
  <2> QED
    BY <1>1, <1>8, <2>1, <2>2 DEF Objects, IInv
<1>10. StoredBlobs' = StoredBlobs
  BY <1>1 DEF StoredBlobs, Records
<1> QED
  BY <1>7, <1>9, <1>10 DEF IInv

\* The rest of a table that can be loaded can be loaded behind its first record.
LEMMA LoadableTail ==
  ASSUME NEW f, NEW ix, NEW s \in Seq(Record), Loadable(f, ix, s),
         NEW iy, iy.m_list # <<>>, LastRecord(iy) = Head(s)
  PROVE  /\ Tail(s) \in Seq(Record)
         /\ Len(s) # 1 => Loadable(f, iy, Tail(s))
         /\ Len(s) = 1 => Tail(s) = <<>>
         /\ \A r : r \in ToSet(s) <=> r = Head(s) \/ r \in ToSet(Tail(s))
<1> DEFINE n == Len(s)
           u == Tail(s)
<1>1. s # <<>> /\ Ordered(s) /\ n \in Nat /\ n # 0 /\ DOMAIN s = 1..n
  BY EmptySeq, LenProperties DEF Loadable
<1>2. Head(s) = s[1]
  OBVIOUS
<1>3. /\ u \in Seq(Record) /\ Len(u) = n - 1 /\ DOMAIN u = 1..(n - 1)
      /\ \A i \in 1..(n - 1) : u[i] = s[i + 1]
  BY <1>1, HeadTailProperties, LenProperties
<1>4. \A r : r \in ToSet(s) <=> \E i \in 1..n : s[i] = r
  BY ToSetProperties
<1>5. n = 1 => u = <<>>
  BY <1>3, EmptySeq
<1> HIDE DEF n, u
<1>6. \A r : r \in ToSet(u) <=> \E i \in 1..(n - 1) : u[i] = r
  <2>1. u \in Seq(Record)
    BY <1>3
  <2>2. \A r : r \in ToSet(u) <=> \E i \in 1..Len(u) : u[i] = r
    BY <2>1, ToSetProperties
  <2> QED
    BY <1>3, <2>2
<1>7. \A r : r \in ToSet(s) <=> r = s[1] \/ r \in ToSet(u)
  <2>1. ASSUME NEW i \in 1..n, i # 1 PROVE s[i] \in ToSet(u)
    <3>1. i - 1 \in 1..(n - 1) /\ (i - 1) + 1 = i
      BY <1>1, <2>1
    <3>2. u[i - 1] = s[i]
      BY <1>3, <3>1
    <3> QED
      BY <1>6, <3>1, <3>2
  <2>2. ASSUME NEW i \in 1..(n - 1) PROVE u[i] \in ToSet(s)
    <3>1. i + 1 \in 1..n
      BY <1>1
    <3> QED
      BY <1>3, <1>4, <3>1
  <2>3. s[1] \in ToSet(s)
    BY <1>1, <1>4
  <2> QED
    BY <1>4, <1>6, <2>1, <2>2, <2>3
<1>8. ASSUME n # 1
      PROVE  Loadable(f, iy, u)
  <2>1. u # <<>>
    <3>1. Len(<<>>) = 0
      OBVIOUS
    <3> QED
      BY <1>1, <1>3, <1>8, <3>1
  <2>2. \A i \in 1..(n - 1) : i + 1 \in 1..n
    BY <1>1
  <2>3. Ordered(u)
    <3> SUFFICES ASSUME NEW i \in 1..(n - 1), NEW j \in 1..(n - 1), i < j
                 PROVE  End(u[i]) <= u[j].offset
      BY <1>3 DEF Ordered
    <3>1. i + 1 \in 1..n /\ j + 1 \in 1..n /\ i + 1 < j + 1
      BY <1>1
    <3>2. u[i] = s[i + 1] /\ u[j] = s[j + 1]
      BY <1>3
    <3> QED
      BY <1>1, <3>1, <3>2 DEF Ordered
  <2>4. \A i \in 1..(n - 1) : RecordOK(u[i]) /\ End(u[i]) <= f.size
    BY <1>1, <1>3, <2>2 DEF Loadable
  <2>5. End(LastRecord(iy)) <= u[1].offset
    <3>1. 1 \in 1..n /\ 2 \in 1..n /\ 1 \in 1..(n - 1) /\ 1 < 2
      BY <1>1, <1>8
    <3>2. u[1] = s[2]
      BY <1>3, <3>1
    <3> QED
      BY <1>1, <1>2, <3>1, <3>2 DEF Ordered
  <2> QED
    BY <1>3, <2>1, <2>3, <2>4, <2>5 DEF Loadable
<1> QED
  BY <1>2, <1>3, <1>5, <1>7, <1>8 DEF n, u
\* The next record of a table can be added: it starts behind the last one.
LEMMA LoadableFits ==
  ASSUME NEW ix, NEW f, Agree(ix, f), NEW s \in Seq(Record), Loadable(f, ix, s)
  PROVE  RecordOK(Head(s)) /\ End(Head(s)) <= f.size /\ ~Overlaps(ix, Head(s))
<1>1. s # <<>> /\ Len(s) \in Nat /\ Len(s) # 0
  BY EmptySeq, LenProperties DEF Loadable
<1>2. 1 \in DOMAIN s /\ Head(s) = s[1]
  BY <1>1, LenProperties
<1>3. RecordOK(Head(s)) /\ End(Head(s)) <= f.size
  BY <1>2 DEF Loadable
<1>4. ~Overlaps(ix, Head(s))
  <2> SUFFICES ASSUME ix.m_list # <<>>
               PROVE  ~(Head(s).offset < End(LastRecord(ix)))
    BY DEF Overlaps
  <2>1. End(LastRecord(ix)) \in Nat /\ Head(s).offset \in Nat
    BY <1>3, LastRecordTypes DEF Agree, RecordOK, Record
  <2> QED
    BY <1>2, <2>1 DEF Loadable
<1> QED
  BY <1>3, <1>4

\* The table of the constructor is one.
LEMMA PendingFits ==
  ASSUME IInv, phase = "loading"
  PROVE  /\ pending # <<>> /\ pending \in Seq(Record)
         /\ Agree(index, file) /\ Loadable(file, index, pending)
         /\ RecordOK(Head(pending)) /\ End(Head(pending)) <= file.size
         /\ ~Overlaps(index, Head(pending))
<1>1. /\ pending \in Seq(Record) /\ Agree(index, file) /\ Loadable(file, index, pending)
  BY DEF IInv, Structure, Agree
<1>2. pending # <<>>
  BY <1>1 DEF Loadable
<1> QED
  BY <1>1, <1>2, LoadableFits

\* The constructor adds one record of the table to the index.
LEMMA LoadRecordCall ==
  ASSUME FileLimit < U32, IInv, LoadRecord
  PROVE  IInv' /\ StoredBlobs' = StoredBlobs
<1> DEFINE r == Head(pending)
           p == New(index)
           g == New2(index)
<1>1. /\ phase = "loading" /\ CanNew(index)
      /\ index' = AddAllocatedBlock(index, p, g, r)
      /\ pending' = Tail(pending) /\ file' = file /\ maxSize' = maxSize
      /\ phase' = IF Tail(pending) = <<>> THEN "open" ELSE "loading"
  BY DEF LoadRecord
<1>2. /\ pending \in Seq(Record) /\ Agree(index, file) /\ Loadable(file, index, pending)
      /\ RecordOK(r) /\ End(r) <= file.size /\ ~Overlaps(index, r)
  BY <1>1, PendingFits
<1>3. p \in Fresh(index) /\ g \in Fresh(index) /\ p # g
  BY <1>1, NewAddresses
<1> HIDE DEF p, g
<1>4. Extended(index, index', p, r)
  BY <1>1, <1>2, <1>3, AddExtends
<1>5. /\ Sound(index', FileLimit) /\ index'.m_list # <<>> /\ LastRecord(index') = r
      /\ HEAD_SIZE <= Base(index')
      /\ AllocatedRecords(index') = AllocatedRecords(index) \cup {r}
  BY <1>4 DEF Extended
<1>6. /\ Tail(pending) \in Seq(Record)
      /\ Tail(pending) # <<>> => Loadable(file, index', Tail(pending))
      /\ \A x : x \in ToSet(pending) <=> x = r \/ x \in ToSet(Tail(pending))
  BY <1>2, <1>5, LoadableTail
<1>7. Agree(index', file')
  BY <1>1, <1>2, <1>5 DEF Agree, Covers
<1>8. PICK t \in file.tables :
        /\ Tabled(t)
        /\ ToSet(t.records) = AllocatedRecords(index) \cup ToSet(pending)
  BY <1>1 DEF IInv, Objects
<1>9. ToSet(t.records) = AllocatedRecords(index') \cup ToSet(Tail(pending))
  BY <1>5, <1>6, <1>8
<1>10. /\ file.tables = {t} /\ t.offset = file.head
       /\ Intact(ToSet(t.records), file.blobs) /\ Blobs(file.blobs)
       /\ maxSize \in MaxSize \cup {NoLimit}
  BY <1>8 DEF Tabled, IInv, Structure, Objects
<1>11. StoredBlobs = StoredOf(ToSet(t.records), file.blobs)
  <2>1. Records = ToSet(t.records)
    BY <1>1, <1>10 DEF Records
  <2> QED
    BY <2>1 DEF StoredBlobs, StoredOf
<1>12. CASE Tail(pending) = <<>>
  <2>1. ToSet(<<>>) = {}
    BY DEF ToSet
  <2>2. /\ phase' = "open" /\ pending' = <<>>
        /\ ToSet(t.records) = AllocatedRecords(index')
    BY <1>1, <1>6, <1>9, <1>12, <2>1
  <2>3. Full(index', file')
    BY <1>1, <1>7, <1>10, <2>2, FullParts
  <2>4. IInv'
    BY <1>1, <1>10, <2>2, <2>3, UsableIInv
  <2>5. StoredBlobs' = StoredOf(AllocatedRecords(index'), file'.blobs)
    BY <2>2, RecordsAre DEF Stored
  <2> QED
    BY <1>1, <1>11, <2>2, <2>4, <2>5
<1>13. CASE Tail(pending) # <<>>
  <2>1. phase' = "loading"
    BY <1>1, <1>13
  <2>2. Structure'
    BY <1>1, <1>5, <1>6, <1>7, <1>10, <1>13, <2>1 DEF Structure, Agree
  <2>3. Tabled(t)'
    BY <1>1, <1>10 DEF Tabled
  <2>4. Objects'
    <3>1. t \in file'.tables
      BY <1>1, <1>8
    <3> QED
      BY <1>1, <1>9, <1>10, <2>1, <2>3, <3>1 DEF Objects
  <2>5. StoredBlobs' = StoredBlobs
    BY <1>1, <2>1 DEF StoredBlobs, Records
  <2> QED
    BY <2>2, <2>4, <2>5 DEF IInv
<1> QED
  BY <1>12, <1>13

\* The destructor moves the description of the objects from the index to disk.
LEMMA CloseCall ==
  ASSUME IInv, Close
  PROVE  IInv' /\ StoredBlobs' = StoredBlobs
<1>1. /\ phase = "open" /\ ~Dangling(index)
      /\ file' = IF index.m_alloc = {} THEN EmptyFile ELSE Commit(index, file)
      /\ index' = EmptyIndex /\ maxSize' = NoLimit /\ phase' = "closed"
      /\ pending' = pending /\ pending = <<>>
  BY DEF Close, IInv, Structure
<1>2. Sound(index, FileLimit) /\ Full(index, file)
  BY <1>1, IndexIs, InUseFull
<1>3. StoredBlobs = Stored(index, file)
  BY <1>1, RecordsAre
<1>4. Sound(index', FileLimit) /\ Covers(file', index')
  BY <1>1, EmptyIndexSound DEF Covers, EmptyIndex
<1>5. FileOK(file') => Structure'
  BY <1>1, <1>4 DEF Structure
<1>6. CASE index.m_alloc = {}
  <2>1. file' = EmptyFile
    BY <1>1, <1>6
  <2>2. IInv'
    BY <1>1, <1>5, <2>1, EmptyFileOK DEF Objects, IInv
  <2>3. StoredBlobs' = {}
    BY <2>1 DEF StoredBlobs, EmptyFile
  <2>4. StoredBlobs = {}
    BY <1>3, <1>6 DEF Stored, StoredOf, AllocatedRecords
  <2> QED
    BY <2>2, <2>3, <2>4
<1>7. CASE index.m_alloc # {}
  <2>0. PICK t, R : t = TableOf(index) /\ R = AllocatedRecords(index)
    OBVIOUS
  <2>1. index.m_list # <<>>
    BY <1>2, <1>7, EmptyExactly
  <2>2. file' = Commit(index, file)
    BY <1>1, <1>7
  <2>3. ToSet(t.records) = R
    BY <1>2, <2>0, <2>1, TableOfProperties, FullParts
  <2>4. /\ FileOK(file') /\ file'.head = t.offset /\ file'.tables = {t}
        /\ Blobs(file'.blobs) /\ Intact(R, file'.blobs)
        /\ StoredOf(R, file'.blobs) = Stored(index, file)
    BY <1>2, <2>0, <2>1, <2>2, CommitKeeps
  <2>5. Tabled(t)'
    BY <2>3, <2>4 DEF Tabled
  <2>6. IInv'
    BY <1>1, <1>5, <2>4, <2>5 DEF Objects, IInv
  <2>7. Records' = R
    BY <1>1, <2>3, <2>4 DEF Records
  <2>8. StoredBlobs' = StoredOf(R, file'.blobs)
    BY <2>7 DEF StoredBlobs, StoredOf
  <2> QED
    BY <1>3, <2>4, <2>6, <2>8
<1> QED
  BY <1>6, <1>7
-----------------------------------------------------------------------------
(* eraseBlob and writeBlob *)

\* Without records eraseBlob finds nothing; with a usable index it leaves one
\* that leads to all objects of other ids.
LEMMA ErasureCall ==
  ASSUME FileLimit < U32, IInv, phase = "open", NEW id \in Id, NEW s \in Erasures(id)
  PROVE  \/ /\ ~Sound(index, FileLimit) /\ Husk(index)
            /\ s.index = index /\ s.file = file
         \/ /\ Sound(index, FileLimit) /\ Full(s.index, s.file)
            /\ Stored(s.index, s.file) = Others(StoredBlobs, id)
<1>1. CASE Sound(index, FileLimit)
  <2>1. Full(index, file)
    BY <1>1, InUseFull
  <2>2. /\ Full(s.index, s.file)
        /\ Stored(s.index, s.file) = Others(Stored(index, file), id)
    BY <2>1, ErasureDrops
  <2>3. StoredBlobs = Stored(index, file)
    BY RecordsAre
  <2> QED
    BY <1>1, <2>2, <2>3
<1>2. CASE ~Sound(index, FileLimit)
  <2>1. Husk(index)
    BY <1>2, IndexIs
  <2>2. FindBlob(index, file, id) = {}
    BY <2>1 DEF FindBlob, Husk
  <2>4. Searched(index, file, id) = {file}
    BY <2>1 DEF Searched, Husk
  <2>3. s = State(index, file)
    BY <2>2, <2>4 DEF Erasures
  <2> QED
    BY <1>2, <2>1, <2>3 DEF State
<1> QED
  BY <1>1, <1>2

\* Nothing of the program's state changes.
LEMMA StutterCall ==
  ASSUME IInv, UNCHANGED vars
  PROVE  IInv' /\ StoredBlobs' = StoredBlobs
<1>1. /\ index' = index /\ file' = file /\ maxSize' = maxSize
      /\ pending' = pending /\ phase' = phase
  BY DEF vars
<1>2. Structure'
  BY <1>1 DEF IInv, Structure
<1>3. Objects'
  BY <1>1 DEF IInv, Objects, Tabled
<1>4. StoredBlobs' = StoredBlobs
  BY <1>1 DEF StoredBlobs, Records, AllocRecords
<1> QED
  BY <1>2, <1>3, <1>4 DEF IInv

\* eraseBlob: the objects of other ids are left.
LEMMA EraseBlobCall ==
  ASSUME FileLimit < U32, IInv, NEW id \in Id, EraseBlob(id)
  PROVE  IInv' /\ StoredBlobs' = Others(StoredBlobs, id)
<1>1. PICK s \in Erasures(id) : index' = s.index /\ file' = s.file
  BY DEF EraseBlob, Become
<1>2. /\ phase = "open" /\ phase' = "open" /\ maxSize' = maxSize
      /\ pending = <<>> /\ pending' = <<>> /\ maxSize \in MaxSize \cup {NoLimit}
  BY DEF EraseBlob, IInv, Structure
<1>3. CASE Husk(index) /\ s.index = index /\ s.file = file
  <2>1. UNCHANGED vars
    BY <1>1, <1>2, <1>3 DEF vars
  <2>2. StoredBlobs = {}
    BY <1>2, <1>3, RecordsAre, HuskHolds DEF Stored
  <2>3. Others(StoredBlobs, id) = StoredBlobs
    BY <2>2 DEF Others
  <2> QED
    BY <2>1, <2>3, StutterCall
<1>4. CASE /\ Full(s.index, s.file)
           /\ Stored(s.index, s.file) = Others(StoredBlobs, id)
  <2>1. IInv'
    BY <1>1, <1>2, <1>4, UsableIInv
  <2>2. StoredBlobs' = Stored(index', file')
    BY <1>2, RecordsAre
  <2> QED
    BY <1>1, <1>4, <2>1, <2>2
<1> QED
  BY <1>2, <1>3, <1>4, ErasureCall

\* The objects after a call of writeBlob that leaves this index and file.
LEMMA WriteBlobDone ==
  ASSUME IInv, phase = "open", phase' = "open", maxSize' = maxSize, pending' = pending,
         NEW S, NEW id, NEW data, Full(index', file'),
         Written(S, Stored(index', file'), id, data)
  PROVE  IInv' /\ Written(S, StoredBlobs', id, data)
<1>1. pending' = <<>> /\ maxSize' \in MaxSize \cup {NoLimit}
  BY DEF IInv, Structure
<1>2. StoredBlobs' = Stored(index', file')
  BY RecordsAre
<1> QED
  BY <1>1, <1>2, UsableIInv

\* writeBlob into a free block: the object of the id is the new one.
LEMMA WriteIntoFreeCall ==
  ASSUME FileLimit < U32, IInv, NEW id \in Id, NEW data \in Data,
         WriteIntoFree(id, data)
  PROVE  IInv' /\ Written(Others(StoredBlobs, id), StoredBlobs', id, data)
<1> DEFINE size == AtLeastMinSize(BlobSize[data])
           S == Others(StoredBlobs, id)
<1>1. PICK s \in Erasures(id) :
        /\ CanNew(s.index)
        /\ \E e \in LowerBound(s.index, size) :
             LET p == New(s.index) IN
             Become(WriteData(Allocate(s.index, e, size, Hash[id], p), s.file,
                              Allocated(s.index, e, size, p), id, data))
  BY DEF WriteIntoFree
<1>2. phase = "open" /\ phase' = "open" /\ maxSize' = maxSize /\ pending' = pending
  BY DEF WriteIntoFree
<1>3. PICK e \in LowerBound(s.index, size) :
        Become(WriteData(Allocate(s.index, e, size, Hash[id], New(s.index)), s.file,
                         Allocated(s.index, e, size, New(s.index)), id, data))
  BY <1>1
<1> DEFINE t == WriteData(Allocate(s.index, e, size, Hash[id], New(s.index)), s.file,
                          Allocated(s.index, e, size, New(s.index)), id, data)
<1>4. index' = t.index /\ file' = t.file
  BY <1>3 DEF Become
<1>5. s.index.m_free # {}
  BY <1>3 DEF LowerBound
<1>6. Full(s.index, s.file) /\ Stored(s.index, s.file) = S
  BY <1>2, <1>5, ErasureCall DEF Husk
<1>7. \A b \in Stored(s.index, s.file) : b.id # id
  BY <1>6 DEF Others
<1>8. /\ Full(t.index, t.file)
      /\ Written(Stored(s.index, s.file), Stored(t.index, t.file), id, data)
  BY <1>1, <1>3, <1>6, <1>7, HoleWritten
<1> HIDE DEF t, S
<1>9. Full(index', file') /\ Written(S, Stored(index', file'), id, data)
  BY <1>4, <1>6, <1>8
<1> QED
  BY <1>2, <1>9, WriteBlobDone DEF S

\* writeBlob at the end of the file: so it is, or it has gone if the new one
\* would make the file too long.
LEMMA WriteAtEndCall ==
  ASSUME FileLimit < U32, IInv, NEW id \in Id, NEW data \in Data,
         WriteAtEnd(id, data)
  PROVE  /\ IInv'
         /\ \/ Refuses(id) /\ StoredBlobs' = Others(StoredBlobs, id)
            \/ Written(Others(StoredBlobs, id), StoredBlobs', id, data)
<1>1. /\ phase = "open" /\ phase' = "open" /\ maxSize' = maxSize /\ pending' = pending
      /\ ~Dangling(index)
  BY DEF WriteAtEnd
<1>2. PICK s \in Erasures(id) :
        LET p  == New(s.index)
            r  == Appended(s.index, id, data)
            ix == AddAllocatedBlock(s.index, p, p, r)
        IN /\ CanNew(s.index)
           /\ LowerBound(s.index, r.size) = {}
           /\ End(r) <= FileLimit
           /\ Become(IF TooLong(ProposedSize(ix))
                     THEN State(Deallocate(ix, p), s.file)
                     ELSE WriteData(ix, Trim(s.file, ProposedSize(ix)), p, id, data))
  BY DEF WriteAtEnd
<1>3. PICK p, r, ix, S :
        /\ p = New(s.index) /\ r = Appended(s.index, id, data)
        /\ ix = AddAllocatedBlock(s.index, p, p, r)
        /\ S = Others(StoredBlobs, id)
  OBVIOUS
<1>4. /\ CanNew(s.index) /\ End(r) <= FileLimit
      /\ Become(IF TooLong(ProposedSize(ix))
                THEN State(Deallocate(ix, p), s.file)
                ELSE WriteData(ix, Trim(s.file, ProposedSize(ix)), p, id, data))
  BY <1>2, <1>3
<1>5. Full(s.index, s.file) /\ Stored(s.index, s.file) = S
  BY <1>1, <1>3, ErasureCall, IndexIs
<1>6. \A b \in Stored(s.index, s.file) : b.id # id
  BY <1>3, <1>5 DEF Others
<1>7. CASE TooLong(ProposedSize(ix))
  <2>6. Refuses(id)
    BY <1>7 DEF TooLong, Refuses
  <2>1. index' = Deallocate(ix, p) /\ file' = s.file
    BY <1>4, <1>7 DEF Become, State
  <2>2. Full(index', file') /\ Stored(index', file') = S
    BY <1>3, <1>4, <1>5, <2>1, AppendRefused
  <2>3. pending' = <<>> /\ maxSize' \in MaxSize \cup {NoLimit}
    BY <1>1 DEF IInv, Structure
  <2>4. IInv'
    BY <1>1, <2>2, <2>3, UsableIInv
  <2>5. StoredBlobs' = Stored(index', file')
    BY <1>1, RecordsAre
  <2> QED
    BY <1>3, <2>2, <2>4, <2>5, <2>6
<1>8. CASE ~TooLong(ProposedSize(ix))
  <2>1. PICK t : t = WriteData(ix, Trim(s.file, ProposedSize(ix)), p, id, data)
    OBVIOUS
  <2>2. index' = t.index /\ file' = t.file
    BY <1>4, <1>8, <2>1 DEF Become
  <2>3. Full(t.index, t.file)
        /\ Written(Stored(s.index, s.file), Stored(t.index, t.file), id, data)
    BY <1>3, <1>4, <1>5, <1>6, <2>1, AppendWritten
  <2>4. Full(index', file') /\ Written(S, Stored(index', file'), id, data)
    BY <1>5, <2>2, <2>3
  <2> QED
    BY <1>1, <1>3, <2>4, WriteBlobDone
<1> QED
  BY <1>7, <1>8
-----------------------------------------------------------------------------
(* clear and setMaxSize *)

\* clear leaves nothing.
LEMMA ClearAllCall ==
  ASSUME IInv, ClearAll, phase' = "open", pending' = <<>>
  PROVE  IInv' /\ StoredBlobs' = {}
<1>1. index' = Clear(index) /\ file' = EmptyFile /\ maxSize' = NoLimit
  BY DEF ClearAll
<1>2. Husk(index')
  BY <1>1, ClearHusk DEF IInv, Structure
<1> QED
  BY <1>1, <1>2, EmptyFileOK, HuskIInv

\* A new limit alone changes no object.
LEMMA LimitCall ==
  ASSUME IInv, phase = "open", index' = index, file' = file, pending' = pending,
         NEW m \in MaxSize, maxSize' = m,
         phase' = "open" \/ (phase' = "shrinking" /\ index.m_alloc # {})
  PROVE  IInv' /\ StoredBlobs' = StoredBlobs
<1>1. pending' = <<>> /\ maxSize' \in MaxSize \cup {NoLimit}
  BY DEF IInv, Structure
<1>2. StoredBlobs' = StoredBlobs
  <2>1. Stored(index', file') = Stored(index, file)
    OBVIOUS
  <2> QED
    BY <2>1, RecordsAre
<1>3. CASE Sound(index, FileLimit)
  <2>1. Full(index', file')
    BY <1>3, InUseFull
  <2> QED
    BY <1>1, <1>2, <2>1, UsableIInv
<1>4. CASE ~Sound(index, FileLimit)
  <2>1. Husk(index')
    BY <1>4, IndexIs
  <2>2. phase' = "open"
    BY <1>4, IndexIs
  <2>3. FileOK(file') /\ Blobs(file'.blobs)
    BY DEF IInv, Structure, Objects
  <2> QED
    BY <1>1, <1>2, <2>1, <2>2, <2>3, HuskIInv
<1> QED
  BY <1>3, <1>4

\* One iteration of the loop of setMaxSize drops one object: the last one.
LEMMA ShrinkCall ==
  ASSUME FileLimit < U32, IInv, Shrink
  PROVE  /\ IInv'
         /\ \/ StoredBlobs' = {}
            \/ \E id \in Id : /\ \E b \in StoredBlobs : b.id = id
                              /\ StoredBlobs' = Others(StoredBlobs, id)
<1>1. /\ phase = "shrinking" /\ index.m_alloc # {} /\ pending' = <<>>
      /\ maxSize \in MaxSize /\ maxSize \in MaxSize \cup {NoLimit}
  BY DEF Shrink, IInv, Structure
<1>2. Sound(index, FileLimit) /\ Full(index, file) /\ Agree(index, file)
  BY <1>1, IndexIs, InUseFull
<1>3. index.m_list # <<>> /\ HEAD_SIZE <= Base(index) /\ FileOK(file) /\ Blobs(file.blobs)
  BY <1>1, <1>2, EmptyExactly, FullParts DEF Agree, Covers
<1>4. PICK p, ix : p = Back(index) /\ ix = Deallocate(index, p)
  OBVIOUS
<1>5. Allocd(index, p) /\ FileLimit \in Nat
  BY <1>2, <1>3, <1>4, LastIsAllocated, Parameters
<1>6. Sound(ix, FileLimit) /\ Deallocated(index, ix, p)
  BY <1>2, <1>4, <1>5, DeallocateSound, DeallocateEffect DEF Allocd
<1>7. PICK R : R = AllocatedRecords(index) \ {index.heap[p]}
  OBVIOUS
<1>8. AllocatedRecords(ix) = R
  BY <1>2, <1>5, <1>6, <1>7, DeallocatedRecords
<1>9. PICK id \in Id : /\ Intact(R, file.blobs)
                       /\ \E b \in Stored(index, file) : b.id = id
                       /\ StoredOf(R, file.blobs) = Others(Stored(index, file), id)
  BY <1>2, <1>5, <1>7, RecordGone
<1>10. StoredBlobs = Stored(index, file)
  BY <1>1, RecordsAre
<1>11. ix.m_list # <<>> => HEAD_SIZE <= Base(ix)
  BY <1>3, <1>6 DEF Deallocated
<1>12. Agree(ix, file)
  <2>1. \A r \in AllocatedRecords(ix) : r \in AllocatedRecords(index)
    BY <1>7, <1>8
  <2> QED
    BY <1>2, <1>6, <1>11, <2>1, FewerAgree
<1>13. IF ix.m_alloc = {}
       THEN /\ index' = Clear(ix) /\ file' = EmptyFile
            /\ maxSize' = NoLimit /\ phase' = "open"
       ELSE /\ index' = ix /\ maxSize' = maxSize
            /\ IF Stops(ix)
               THEN file' = Trim(file, ProposedSize(ix)) /\ phase' = "open"
               ELSE file' = file /\ phase' = phase
  <2>1. FirstEqual(index, Back(index)) = p
    BY <1>2, <1>4, <1>5, FirstByAddress DEF Sound, Allocd
  <2> QED
    BY <1>4, <2>1 DEF Shrink
<1>14. CASE ix.m_alloc = {}
  <2>1. Husk(index')
    BY <1>6, <1>13, <1>14, ClearHusk
  <2> QED
    BY <1>1, <1>13, <1>14, <2>1, EmptyFileOK, HuskIInv
<1>15. CASE ix.m_alloc # {} /\ Stops(ix)
  <2>1. PICK n : n = ProposedSize(ix)
    OBVIOUS
  <2>2. index' = ix /\ file' = Trim(file, n) /\ phase' = "open" /\ maxSize' = maxSize
    BY <1>13, <1>15, <2>1
  <2>3. ix.m_list # <<>>
    BY <1>6, <1>15, EmptyExactly
  <2>4. End(LastRecord(ix)) \in Nat /\ IndexSize(ix) \in Nat
    BY <1>6, <2>3, LastRecordTypes, IndexSizeType
  <2>5. n \in Nat /\ End(LastRecord(ix)) <= n
    BY <2>1, <2>4 DEF ProposedSize
  <2>6. Cuts(ix, file, R, n, file')
    BY <1>3, <1>6, <1>8, <1>9, <1>11, <2>2, <2>3, <2>5 DEF Cuts
  <2>7. /\ Agree(ix, file') /\ Blobs(file'.blobs) /\ Intact(R, file'.blobs)
        /\ StoredOf(R, file'.blobs) = StoredOf(R, file.blobs)
    BY <2>6, TrimBehind
  <2>8. Full(index', file')
    BY <1>8, <2>2, <2>7, FullParts
  <2>9. IInv'
    BY <1>1, <2>2, <2>8, UsableIInv
  <2>10. StoredBlobs' = StoredOf(R, file'.blobs)
    BY <1>8, <2>2, RecordsAre DEF Stored
  <2> QED
    BY <1>9, <1>10, <2>7, <2>9, <2>10
<1>16. CASE ix.m_alloc # {} /\ ~Stops(ix)
  <2>1. index' = ix /\ file' = file /\ phase' = "shrinking" /\ maxSize' = maxSize
    BY <1>1, <1>13, <1>16
  <2>2. Full(index', file')
    BY <1>3, <1>8, <1>9, <1>12, <2>1, FullParts
  <2>3. IInv'
    BY <1>1, <1>16, <2>1, <2>2, UsableIInv
  <2>4. StoredBlobs' = StoredOf(R, file.blobs)
    BY <1>8, <2>1, RecordsAre DEF Stored
  <2> QED
    BY <1>9, <1>10, <2>3, <2>4
<1> QED
  BY <1>14, <1>15, <1>16

\* From here on the code has no meaning, and the file no owner.
LEMMA UseDanglingCall ==
  ASSUME IInv, UseDangling
  PROVE  IInv' /\ StoredBlobs' = StoredBlobs
<1>1. /\ phase = "open" /\ phase' = "undefined" /\ Dangling(index)
      /\ index' = index /\ file' = file /\ maxSize' = maxSize
      /\ pending' = pending /\ pending = <<>>
  BY DEF UseDangling, IInv, Structure
<1>2. Husk(index') /\ Husk(index)
  BY <1>1, IndexIs
<1>3. FileOK(file') /\ Blobs(file'.blobs) /\ maxSize' \in MaxSize \cup {NoLimit}
  BY <1>1 DEF IInv, Structure, Objects
<1>4. IInv' /\ StoredBlobs' = {}
  BY <1>1, <1>2, <1>3, HuskIInv
<1>5. StoredBlobs = {}
  BY <1>1, <1>2, RecordsAre, HuskHolds DEF Stored
<1> QED
  BY <1>4, <1>5

-----------------------------------------------------------------------------
(* Every step *)

\* What a step may do to the objects stored: nothing, take away that of one
\* id, put one in its place, or take away all.
ObjectStep ==
  \/ StoredBlobs' = StoredBlobs
  \/ \E id \in Id : StoredBlobs' = Others(StoredBlobs, id)
  \/ \E id \in Id, data \in Data :
       Written(Others(StoredBlobs, id), StoredBlobs', id, data)
  \/ StoredBlobs' = {}

LEMMA Step ==
  ASSUME FileLimit < U32, IInv, [Next]_vars
  PROVE  IInv' /\ ObjectStep
<1> USE DEF ObjectStep
<1>1. CASE OpenEmpty
  BY <1>1, OpenEmptyCall
<1>2. CASE Open
  BY <1>2, OpenCall
<1>3. CASE LoadRecord
  BY <1>3, LoadRecordCall
<1>4. CASE Close
  BY <1>4, CloseCall
<1>5. CASE \E id \in Id : EraseBlob(id)
  BY <1>5, EraseBlobCall
<1>6. CASE \E id \in Id, data \in Data : WriteIntoFree(id, data)
  BY <1>6, WriteIntoFreeCall
<1>7. CASE \E id \in Id, data \in Data : WriteAtEnd(id, data)
  BY <1>7, WriteAtEndCall
<1>8. CASE ClearFile
  <2>1. ClearAll /\ phase' = "open" /\ pending' = <<>>
    BY <1>8 DEF ClearFile, IInv, Structure
  <2> QED
    BY <2>1, ClearAllCall
<1>9. CASE \E m \in MaxSize : SetMaxSize(m)
  BY <1>9, LimitCall DEF SetMaxSize
<1>10. CASE \E m \in MaxSize : SetMaxSizeOfEmpty(m)
  <2>1. ClearAll /\ phase' = "open" /\ pending' = <<>>
    BY <1>10 DEF SetMaxSizeOfEmpty, IInv, Structure
  <2> QED
    BY <2>1, ClearAllCall
<1>11. CASE \E m \in MaxSize : StartShrink(m)
  BY <1>11, LimitCall DEF StartShrink
<1>12. CASE Shrink
  BY <1>12, ShrinkCall
<1>13. CASE UseDangling
  BY <1>13, UseDanglingCall
<1>14. CASE UNCHANGED vars
  BY <1>14, StutterCall
<1> QED
  BY <1>1, <1>2, <1>3, <1>4, <1>5, <1>6, <1>7, <1>8, <1>9, <1>10, <1>11, <1>12,
     <1>13, <1>14 DEF Next

-----------------------------------------------------------------------------
(* The theorems *)

\* Every reachable state satisfies the invariant.
THEOREM Inductive ==
  ASSUME FileLimit < U32
  PROVE  Spec => []IInv
<1>1. Init => IInv
  BY InitIInv
<1>2. IInv /\ [Next]_vars => IInv'
  BY Step
<1> QED
  BY <1>1, <1>2, PTL DEF Spec

\* The members of the class and the file keep their types (heap_file.h).
THEOREM TypeCorrect ==
  ASSUME FileLimit < U32
  PROVE  Spec => []TypeOK
<1>1. IInv => TypeOK
  <2> SUFFICES ASSUME IInv PROVE TypeOK
    OBVIOUS
  <2>1. IsIndex(index)
    BY DEF IInv, Structure, Sound, Shape, Husk
  <2> QED
    BY <2>1, FileTypes DEF IInv, Structure, TypeOK
<1> QED
  BY <1>1, Inductive, PTL

\* The calls of HeapFile keep all that HeapIndex relies on, so that setMaxSize
\* and the destructor may take the last record for an allocated one.
THEOREM IndexAlwaysSound ==
  ASSUME FileLimit < U32
  PROVE  Spec => []IndexSound
<1>1. IInv => IndexSound
  BY IndexIs DEF IndexSound, Sound, Shape
<1> QED
  BY <1>1, Inductive, PTL

\* No record reaches past the end of the file: getReadPtr never returns NULL
\* for an object and getWritePtr never grows the file under one.
THEOREM FileAlwaysCovers ==
  ASSUME FileLimit < U32
  PROVE  Spec => []FileCoversRecords
<1>1. IInv => FileCoversRecords
  BY IndexIs DEF FileCoversRecords, InUse, IInv, Structure, Covers
<1> QED
  BY <1>1, Inductive, PTL

\* No write, trim, commit, split or merge ever hits the object of another
\* allocated record (writeBlob, release and the destructor of heap_file.cpp).
THEOREM RecordsAlwaysHold ==
  ASSUME FileLimit < U32
  PROVE  Spec => []RecordsHoldBlobs
<1>1. ASSUME IInv, InUse PROVE RecordsHoldBlobs
  <2>1. Intact(AllocatedRecords(index), file.blobs)
    BY <1>1 DEF InUse, IInv, Objects
  <2>2. AllocRecords = AllocatedRecords(index)
    BY DEF AllocRecords, AllocatedRecords
  <2> QED
    BY <2>1, <2>2 DEF RecordsHoldBlobs, Intact, Holds
<1>2. IInv => RecordsHoldBlobs
  BY <1>1 DEF RecordsHoldBlobs
<1> QED
  BY <1>2, Inductive, PTL

\* However keys collide, no two records ever hold objects of one id, because
\* writeBlob erases before it writes (findBlob of heap_file.cpp).
THEOREM IdsAlwaysUnique ==
  ASSUME FileLimit < U32
  PROVE  Spec => []IdsAreUnique
<1>1. ASSUME IInv, InUse, NEW id \in Id
      PROVE  Cardinality(FindBlob(index, file, id)) <= 1
  <2> DEFINE found == FindBlob(index, file, id)
  <2>1. Full(index, file)
    BY <1>1, IndexIs, InUseFull DEF InUse
  <2>2. CASE found = {}
    BY <2>2, FS_EmptySet
  <2>3. CASE found # {}
    <3>1. PICK p \in found : TRUE
      BY <2>3
    <3>2. found = {p}
      BY <2>1, <3>1, FindBlobUnique
    <3> QED
      BY <3>2, FS_Singleton
  <2> QED
    BY <2>2, <2>3
<1>2. IInv => IdsAreUnique
  BY <1>1 DEF IdsAreUnique
<1> QED
  BY <1>2, Inductive, PTL

\* What the destructor leaves on disk can be opened: the head leads to a whole
\* index, of intact objects in front of it (~HeapFileT of heap_file.cpp).
THEOREM CommitAlwaysReadable ==
  ASSUME FileLimit < U32
  PROVE  Spec => []CommitIsReadable
<1>1. ASSUME IInv, phase = "closed", file.size > 0 PROVE CommitIsReadable
  <2>1. file # EmptyFile
    BY <1>1 DEF EmptyFile
  <2>2. PICK t \in file.tables : Tabled(t)
    BY <1>1, <2>1 DEF IInv, Objects
  <2>3. /\ t.records \in Seq(Record) /\ WellFormed(t) /\ End(t) <= file.size
    BY <1>1, FileTypes DEF IInv, Structure
  <2>4. ASSUME NEW i \in DOMAIN t.records
        PROVE  /\ t.records[i].offset >= HEAD_SIZE
               /\ End(t.records[i]) <= t.offset
               /\ \E b \in file.blobs : b.offset = t.records[i].offset
    <3>1. RecordOK(t.records[i]) /\ End(t.records[i]) <= t.offset
      BY <2>3 DEF WellFormed
    <3>2. t.records[i] \in ToSet(t.records)
      BY DEF ToSet
    <3>3. \E b \in file.blobs : Holds(b, t.records[i])
      BY <2>2, <3>2 DEF Tabled, Intact
    <3>4. t.records[i].offset >= HEAD_SIZE
      BY <3>1, Parameters DEF RecordOK, Record
    <3> QED
      BY <3>1, <3>3, <3>4 DEF Holds
  <2> QED
    BY <2>2, <2>3, <2>4 DEF CommitIsReadable, Tabled, WellFormed
<1>2. IInv => CommitIsReadable
  BY <1>1 DEF CommitIsReadable
<1> QED
  BY <1>2, Inductive, PTL

\* And it is loaded to its last record: the constructor meets none that starts
\* before the end of the one before it, at which it would throw.
THEOREM CommittedAlwaysLoads ==
  ASSUME FileLimit < U32
  PROVE  Spec => []CommittedLoads
<1>1. IInv => CommittedLoads
  BY PendingFits DEF CommittedLoads
<1> QED
  BY <1>1, Inductive, PTL

\* When the loop of setMaxSize ends the file is no longer than the limit
\* ("no larger than the maxSize", heap_file.h).
THEOREM AlwaysShrinksBelowLimit ==
  ASSUME FileLimit < U32
  PROVE  Spec => ShrinksBelowLimit
<1> DEFINE Below == phase = "shrinking" /\ phase' = "open" => file'.size <= maxSize
<1>1. ASSUME IInv, [Next]_vars, phase = "shrinking", phase' = "open"
      PROVE  file'.size <= maxSize
  <2>1. Shrink
    BY <1>1 DEF Next, vars, OpenEmpty, Open, LoadRecord, Close, EraseBlob,
                WriteIntoFree, WriteAtEnd, ClearFile, SetMaxSize, SetMaxSizeOfEmpty,
                StartShrink, UseDangling
  <2>2. PICK ix : \/ file' = EmptyFile
                  \/ Stops(ix) /\ file' = Trim(file, ProposedSize(ix))
    BY <1>1, <2>1 DEF Shrink
  <2>3. CASE file' = EmptyFile
    <3>1. maxSize \in Nat /\ file'.size = 0
      BY <1>1, <2>3, Parameters DEF EmptyFile, IInv, Structure
    <3> QED
      BY <3>1
  <2>4. CASE Stops(ix) /\ file' = Trim(file, ProposedSize(ix))
    <3>1. file'.size = ProposedSize(ix)
      BY <1>1, <2>4 DEF Trim, Keep, IInv, Structure, FileOK, IsFile
    <3>2. maxSize # NoLimit
      BY <1>1, HeapFileAssumption DEF IInv, Structure
    <3>3. IInv'
      BY <1>1, Step
    <3>4. file'.size \in Nat /\ maxSize \in Nat
      BY <1>1, <3>3, FileTypes, Parameters DEF IInv, Structure
    <3> QED
      BY <2>4, <3>1, <3>2, <3>4 DEF Stops, TooLong
  <2> QED
    BY <2>2, <2>3, <2>4
<1>2. IInv /\ [Next]_vars => [Below]_vars
  BY <1>1
<1> QED
  BY <1>2, Inductive, PTL DEF Spec, ShrinksBelowLimit

\* What that does to the map from ids to objects.
LEMMA SameStore ==
  ASSUME StoredBlobs' = StoredBlobs
  PROVE  UNCHANGED Store
  BY StoreIs

LEMMA EraseStore ==
  ASSUME IInv, NEW id, StoredBlobs' = Others(StoredBlobs, id)
  PROVE  Contents!Erase(id)
<1>1. PICK S, T : S = StoredBlobs /\ T = StoredBlobs'
  OBVIOUS
<1>2. Distinct(S) /\ Store = StoreOf(S) /\ Store' = StoreOf(T) /\ T = Others(S, id)
  BY <1>1, StoredDistinct, StoreIs
<1>3. StoreOf(T) = [i \in DOMAIN StoreOf(S) \ {id} |-> StoreOf(S)[i]]
  BY <1>2, StoreDrop
<1> QED
  BY <1>2, <1>3 DEF Contents!Erase

LEMMA PutStore ==
  ASSUME IInv, NEW id, NEW data,
         Written(Others(StoredBlobs, id), StoredBlobs', id, data)
  PROVE  IF id \in LongId THEN Contents!Erase(id) ELSE Contents!Put(id, data)
<1>1. PICK S, T : S = StoredBlobs /\ T = StoredBlobs'
  OBVIOUS
<1>2. Distinct(S) /\ Store = StoreOf(S) /\ Store' = StoreOf(T)
  BY <1>1, StoredDistinct, StoreIs
<1>3. CASE id \in LongId
  BY <1>3, EraseStore DEF Written
<1>4. CASE id \notin LongId
  <2>1. PICK x : x.id = id /\ x.data = data /\ T = Others(S, id) \cup {x}
    BY <1>1, <1>4 DEF Written
  <2>2. \A b : b \in T <=> b \in Others(S, id) \/ b = x
    BY <2>1
  <2>3. StoreOf(T) = Updated(StoreOf(S), id, data)
    BY <1>2, <2>1, <2>2, StorePut
  <2> QED
    BY <1>2, <1>4, <2>3 DEF Contents!Put, Updated
<1> QED
  BY <1>3, <1>4

LEMMA ResetStore ==
  ASSUME StoredBlobs' = {}
  PROVE  Contents!Reset
<1>1. StoreOf({}) = [id \in {} |-> {}]
  BY DEF StoreOf
<1> QED
  BY <1>1, StoreIs DEF Contents!Reset

\* The map from ids to objects changes as BlobStore says.
LEMMA StoreStep ==
  ASSUME IInv, ObjectStep
  PROVE  [Contents!Next]_Store
<1>1. CASE StoredBlobs' = StoredBlobs
  BY <1>1, SameStore
<1>2. ASSUME NEW id \in Id, StoredBlobs' = Others(StoredBlobs, id)
      PROVE  [Contents!Next]_Store
  BY <1>2, EraseStore DEF Contents!Next
<1>3. ASSUME NEW id \in Id, NEW data \in Data,
             Written(Others(StoredBlobs, id), StoredBlobs', id, data)
      PROVE  [Contents!Next]_Store
  BY <1>3, PutStore DEF Contents!Next
<1>4. CASE StoredBlobs' = {}
  BY <1>4, ResetStore DEF Contents!Next
<1> QED
  BY <1>1, <1>2, <1>3, <1>4 DEF ObjectStep

\* HeapFile implements BlobStore: through splits, merges, evictions, commits
\* and reopenings a heap file is a map from ids to objects, of which a step
\* changes one entry or all ("a hash table serialized to disk").
THEOREM IsBlobStore ==
  ASSUME FileLimit < U32
  PROVE  Spec => ImplementsBlobStore
<1>1. Init => Contents!Init
  <2> SUFFICES ASSUME Init PROVE Contents!Init
    OBVIOUS
  <2>1. StoredBlobs = {}
    BY DEF Init, StoredBlobs, EmptyFile
  <2>2. Store = [id \in {} |-> {}]
    BY <2>1, StoreIs DEF StoreOf
  <2> QED
    BY <2>2 DEF Contents!Init
<1>2. IInv /\ [Next]_vars => [Contents!Next]_Store
  BY Step, StoreStep
<1> QED
  BY <1>1, <1>2, Inductive, PTL DEF Spec, ImplementsBlobStore, Contents!Spec

\* The call that makes a step changes the map as it should: eraseBlob and
\* writeBlob the entry of their own id, and writeBlob to its own object or, if
\* it refuses, to none; the constructor, the destructor and a new limit change
\* nothing, an eviction one entry, clear all (heap_file.h).
THEOREM EachCallAlwaysDoesItsOwn ==
  ASSUME FileLimit < U32
  PROVE  Spec => EachCallDoesItsOwn
<1>1. ASSUME IInv PROVE OwnEffect
  <2>1. ASSUME NEW id \in Id, EraseBlob(id) PROVE Contents!Erase(id)
    BY <1>1, <2>1, EraseBlobCall, EraseStore
  <2>2. ASSUME NEW id \in Id, NEW data \in Data, WriteIntoFree(id, data)
        PROVE  IF id \in LongId THEN Contents!Erase(id) ELSE Contents!Put(id, data)
    BY <1>1, <2>2, WriteIntoFreeCall, PutStore
  <2>3. ASSUME NEW id \in Id, NEW data \in Data, WriteAtEnd(id, data)
        PROVE  Contents!Put(id, data) \/ (Refuses(id) /\ Contents!Erase(id))
    <3>1. CASE Refuses(id) /\ StoredBlobs' = Others(StoredBlobs, id)
      BY <1>1, <3>1, EraseStore
    <3>2. CASE Written(Others(StoredBlobs, id), StoredBlobs', id, data)
      BY <1>1, <3>2, PutStore DEF Refuses
    <3> QED
      BY <1>1, <2>3, <3>1, <3>2, WriteAtEndCall
  <2>4. ASSUME OpenEmpty \/ Open \/ LoadRecord \/ Close PROVE UNCHANGED Store
    BY <1>1, <2>4, OpenEmptyCall, OpenCall, LoadRecordCall, CloseCall, SameStore
  <2>5. ASSUME NEW m \in MaxSize, SetMaxSize(m) \/ StartShrink(m)
        PROVE  UNCHANGED Store
    BY <1>1, <2>5, LimitCall, SameStore DEF SetMaxSize, StartShrink
  <2>6. ASSUME Shrink PROVE Contents!Evict \/ Contents!Reset
    <3>1. ASSUME NEW id \in Id, NEW b \in StoredBlobs, b.id = id,
                 StoredBlobs' = Others(StoredBlobs, id)
          PROVE  Contents!Evict
      <4>1. id \in DOMAIN Store
        BY <1>1, <3>1, StoreIs, StoredDistinct, StoreValues
      <4> QED
        BY <1>1, <3>1, <4>1, EraseStore DEF Contents!Evict
    <3>2. CASE StoredBlobs' = {}
      BY <3>2, ResetStore
    <3> QED
      BY <1>1, <2>6, <3>1, <3>2, ShrinkCall
  <2>7. ASSUME NEW m \in MaxSize, ClearFile \/ SetMaxSizeOfEmpty(m)
        PROVE  Contents!Reset
    <3>1. ClearAll /\ phase' = "open" /\ pending' = <<>>
      BY <1>1, <2>7 DEF ClearFile, SetMaxSizeOfEmpty, IInv, Structure
    <3> QED
      BY <1>1, <3>1, ClearAllCall, ResetStore
  <2> QED
    BY <2>1, <2>2, <2>3, <2>4, <2>5, <2>6, <2>7 DEF OwnEffect
<1>2. IInv /\ [Next]_vars => [OwnEffect]_vars
  BY <1>1
<1> QED
  BY <1>2, Inductive, PTL DEF Spec, EachCallDoesItsOwn
=============================================================================
