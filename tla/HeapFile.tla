------------------------------ MODULE HeapFile ------------------------------
(***************************************************************************)
(* One heap file and the HeapFileT objects that open it one after another  *)
(* (heap_file.h, heap_file.cpp), composed of the index of module IndexOps  *)
(* and of a file that is described by what is stored where.  The class is  *)
(* used from one thread; a public call is one step, except that the loops  *)
(* of the constructor and of setMaxSize are one step per iteration.        *)
(*                                                                         *)
(* Every system call succeeds here.  Encryption maps the ids of a session  *)
(* one to one, so an id stands for its encrypted form (module Simple).     *)
(* A program that dies and damaged files are added by CrashingHeapFile.    *)
(***************************************************************************)
EXTENDS IndexOps

CONSTANTS
  Id,              \* object ids
  LongId,          \* the ids too long for their length to fit in a uint8_t
  Data,            \* objects
  Hash,            \* hash(id), the key of a record
  BlobSize,        \* Blob::blobSize: bytes on disk of an object and its id
  ID_SIZE,         \* bytes of an id and of its length, which come first of these
  HEAD_SIZE,       \* sizeof(uint64_t), the location of the index at offset 0
  COUNT_SIZE,      \* sizeof(uint32_t), the number of records
  SERIALIZED_SIZE, \* Record::SERIALIZED_SIZE
  MaxSize,         \* arguments of setMaxSize that are limits
  NoLimit,         \* m_maxSize when there is none, the largest uint64_t
  FileLimit        \* bound: no blob ends past this offset

ASSUME HeapFileAssumption ==
  /\ LongId \subseteq Id
  /\ Hash \in [Id -> Key]
  /\ BlobSize \in [Data -> Nat \ {0}]
  /\ {ID_SIZE, HEAD_SIZE, COUNT_SIZE, SERIALIZED_SIZE, FileLimit} \subseteq Nat \ {0}
  /\ \A data \in Data : ID_SIZE <= BlobSize[data]
  /\ ID_SIZE <= MIN_SIZE
  /\ MaxSize \subseteq Nat
  /\ NoLimit \in Nat \ MaxSize

VARIABLES
  index,    \* m_index
  file,     \* the file: its size, its head and what is stored in it
  maxSize,  \* m_maxSize
  pending,  \* the serialized records the constructor has not read yet
  phase     \* what the program is doing with the file

vars == <<index, file, maxSize, pending, phase>>

\* What writeData puts into a block.
Blob == [offset : Nat, size : Nat, id : Id, data : Data]

\* What is left of one whose end is gone: hasId can still read the id.
TornBlob == [offset : Nat, size : {ID_SIZE}, id : Id]

Table == [offset : Nat, size : Nat, records : Seq(Record)]

-----------------------------------------------------------------------------
(* The file: MmapFile as HeapFile uses it *)

EmptyFile == [size |-> 0, head |-> 0, blobs |-> {}, torn |-> {}, tables |-> {}]

\* The head when something else has been written over it: it may be read as
\* any number.
Scrambled == -1

IdPart(b) == [offset |-> b.offset, size |-> ID_SIZE, id |-> b.id]

\* What is left in the file of the blobs and tables that satisfy Stays.
Keep(f, Stays(_)) ==
  [f EXCEPT !.blobs  = {b \in @ : Stays(b)},
            !.torn   = {t \in @ : Stays(t)} \cup
                       {IdPart(b) : b \in {c \in f.blobs : ~Stays(c) /\ Stays(IdPart(c))}},
            !.tables = {t \in @ : Stays(t)}]

\* trim: what reaches past the new end is gone.
Trim(f, n) ==
  LET Stays(x) == End(x) <= n
  IN  [Keep(f, Stays) EXCEPT !.size = n,
                             !.head = IF n < HEAD_SIZE THEN Scrambled ELSE @]

\* getWritePtr grows the file to the end of the range if it has to.
Grow(f, end) == [f EXCEPT !.size = IF @ < end THEN end ELSE @]

\* getReadPtr does, too, for a range that begins within the file.
Read(f, r) == IF r.offset < f.size THEN Grow(f, End(r)) ELSE f

Overlap(a, b) == a.offset < End(b) /\ b.offset < End(a)

\* Writing a range destroys whatever it overlaps.
Overwrite(f, x) ==
  LET Stays(y) == ~Overlap(y, x)
  IN  [Keep(f, Stays) EXCEPT !.head = IF x.offset < HEAD_SIZE THEN Scrambled ELSE @]

WriteHead(f, offset) ==
  [Overwrite(f, [offset |-> 0, size |-> HEAD_SIZE]) EXCEPT !.head = offset]

-----------------------------------------------------------------------------
(* Helpers of heap_file.cpp *)

\* HeapIndex::size.
IndexSize(ix) == COUNT_SIZE + SERIALIZED_SIZE * Cardinality(ix.m_alloc)

\* Does the file hold this id in the blob that r describes?  Only the length
\* and the id are looked at, and they must not be longer than the record.
HasId(f, r, id) ==
  /\ ID_SIZE - 1 <= r.size
  /\ \E b \in f.blobs \cup f.torn : b.offset = r.offset /\ b.id = id

\* (fault) the hash is taken for the id
FindHash(ix, f, id) == {p \in DOMAIN ix.heap : <<Hash[id], p>> \in ix.m_alloc}

\* findBlob: the records it may return.
FindBlob(ix, f, id) ==
  {p \in DOMAIN ix.heap : /\ <<Hash[id], p>> \in ix.m_alloc
                          /\ HasId(f, ix.heap[p], id)}

\* The files it may leave when it finds none: it has read every blob with the
\* hash, and of the ranges it reads only one can reach past the end.
Searched(ix, f, id) ==
  LET read == {Read(f, ix.heap[p]) :
                 p \in {q \in DOMAIN ix.heap : <<Hash[id], q>> \in ix.m_alloc}}
  IN  {g \in {f} \cup read : \A h \in read : h.size <= g.size}

\* And when it finds the one at p, before or after it has read others.
Found(ix, f, id, p) == {Read(f, ix.heap[p])} \cup Searched(ix, f, id)

\* bound: `new Record' finds memory twice in any call.
CanNew(ix) == Fresh(ix) # {} /\ \A p \in Fresh(ix) : Fresh(ix) # {p}

\* The addresses it returns.  Nothing in the code depends on which, so any
\* address not in use will do (module HeapIndex lets new return them all).
New(ix)  == CHOOSE p \in Fresh(ix) : TRUE
New2(ix) == CHOOSE p \in Fresh(ix) : p # New(ix)

State(ix, f) == [index |-> ix, file |-> f]

\* (fault) the file is cut wherever the record was
ReleaseAndCut(ix, f, p) ==
  LET ix2 == Deallocate(ix, p)
  IN  State(ix2, Trim(f, ix.heap[p].offset + IndexSize(ix2)))

\* release: the file loses its tail when the last record goes.
Release(ix, f, p) ==
  LET ix2 == Deallocate(ix, p)
  IN  State(ix2, IF IsLast(ix, p)
                 THEN Trim(f, ix.heap[p].offset + IndexSize(ix2))
                 ELSE f)

\* (fault) writeBlob does not erase first
NoErasure(id) == {State(index, file)}

\* eraseBlobEncryptedId.
Erasures(id) ==
  LET found == FindBlob(index, file, id)
  IN  IF found = {} THEN {State(index, f) : f \in Searched(index, file, id)}
      ELSE UNION {{Release(index, f, p) : f \in Found(index, file, id, p)} : p \in found}

\* The end of writeBlob: the record at p is allocated and has its range of
\* the file mapped; writeData refuses an id that is too long.
WriteData(ix, f, p, id, data) ==
  LET r == ix.heap[p]
      x == [offset |-> r.offset, size |-> BlobSize[data], id |-> id, data |-> data]
      g == Grow(f, End(r))
  IN  IF id \in LongId THEN Release(ix, g, p)
      ELSE State(ix, [Overwrite(g, x) EXCEPT !.blobs = @ \cup {x}])

Become(s) == index' = s.index /\ file' = s.file

-----------------------------------------------------------------------------
(* Construction and destruction *)

Init ==
  /\ index = EmptyIndex
  /\ file = EmptyFile
  /\ maxSize = NoLimit
  /\ pending = <<>>
  /\ phase = "closed"

\* The constructor finds nothing in a new file, or the index at its head.
OpenEmpty ==
  /\ phase = "closed"
  /\ file.size = 0
  /\ phase' = "open"
  /\ UNCHANGED <<index, file, maxSize, pending>>

Open ==
  /\ phase = "closed"
  /\ \E t \in file.tables : t.offset = file.head /\ pending' = t.records
  /\ phase' = "loading"
  /\ UNCHANGED <<index, file, maxSize>>

\* (fault) a block that starts before the end of the last one is taken too
LoadUnchecked ==
  /\ phase = "loading"
  /\ pending # <<>>
  /\ CanNew(index)
  /\ index' = AddAllocatedBlock(index, New(index), New2(index), Head(pending))
  /\ pending' = Tail(pending)
  /\ phase' = IF Tail(pending) = <<>> THEN "open" ELSE "loading"
  /\ UNCHANGED <<file, maxSize>>

\* One iteration of the constructor's loop, for a block behind the last one.
LoadRecord ==
  /\ phase = "loading"
  /\ pending # <<>>
  /\ ~Overlaps(index, Head(pending))
  /\ CanNew(index)
  /\ index' = AddAllocatedBlock(index, New(index), New2(index), Head(pending))
  /\ pending' = Tail(pending)
  /\ phase' = IF Tail(pending) = <<>> THEN "open" ELSE "loading"
  /\ UNCHANGED <<file, maxSize>>

\* (fault) free records are serialized too
SerializedAll(ix) == [i \in DOMAIN ix.m_list |-> ix.heap[ix.m_list[i]]]

\* (fault) the list is written from its end
Descending(S) ==
  CHOOSE s \in Surjection(1 .. Cardinality(S), S) :
    \A i, j \in 1 .. Cardinality(S) : i < j => s[j] < s[i]

\* The members of a finite set of positions, the lowest first.
Ascending(S) ==
  CHOOSE s \in Surjection(1 .. Cardinality(S), S) :
    \A i, j \in 1 .. Cardinality(S) : i < j => s[i] < s[j]

\* The records that are not free, in the order of the list.
Serialized(ix) ==
  LET live == Ascending({i \in DOMAIN ix.m_list : ~IsFree(ix, ix.m_list[i])})
  IN  [i \in DOMAIN live |-> ix.heap[ix.m_list[live[i]]]]

\* prepForCommit and the serialization loop of the destructor.
Commit(ix, f) ==
  LET t == [offset  |-> End(LastRecord(ix)), size |-> IndexSize(ix),
            records |-> Serialized(ix)]
  IN  [Overwrite(Grow(WriteHead(f, t.offset), End(t)), t) EXCEPT !.tables = {t}]

\* The destructor; the one of m_index deletes the records.
Close ==
  /\ phase = "open"
  /\ ~Dangling(index)
  /\ file' = IF index.m_alloc = {} THEN EmptyFile ELSE Commit(index, file)
  /\ index' = EmptyIndex
  /\ maxSize' = NoLimit
  /\ phase' = "closed"
  /\ UNCHANGED pending

-----------------------------------------------------------------------------
(* eraseBlob and writeBlob *)

EraseBlob(id) ==
  /\ phase = "open"
  /\ \E s \in Erasures(id) : Become(s)
  /\ UNCHANGED <<maxSize, pending, phase>>

\* The record of an object that goes to the end of the file, behind the last
\* one or behind the head.
Appended(ix, id, data) ==
  MakeRecord(IF ix.m_list = <<>> THEN HEAD_SIZE ELSE End(LastRecord(ix)),
             Hash[id], AtLeastMinSize(BlobSize[data]))

\* The size of a file that ends with the index behind its last record.
ProposedSize(ix) == End(LastRecord(ix)) + IndexSize(ix)

\* m_maxSize is the largest uint64_t when there is no limit.
TooLong(size) == maxSize # NoLimit /\ size > maxSize

\* m_index.allocate finds a free record for the object.
WriteIntoFree(id, data) ==
  LET size == AtLeastMinSize(BlobSize[data]) IN
  /\ phase = "open"
  /\ \E s \in Erasures(id) :
       /\ CanNew(s.index)
       /\ \E e \in LowerBound(s.index, size) :
            LET p == New(s.index) IN
            Become(WriteData(Allocate(s.index, e, size, Hash[id], p), s.file,
                             Allocated(s.index, e, size, p), id, data))
  /\ UNCHANGED <<maxSize, pending, phase>>

\* It does not, and the object goes to the end of the file: the record is
\* added to the index first and taken back if the file would be too long.
WriteAtEnd(id, data) ==
  /\ phase = "open"
  /\ ~Dangling(index)
  /\ \E s \in Erasures(id) :
       LET p  == New(s.index)
           r  == Appended(s.index, id, data)
           ix == AddAllocatedBlock(s.index, p, p, r)
       IN /\ CanNew(s.index)
          /\ LowerBound(s.index, r.size) = {}
          /\ End(r) <= FileLimit
          /\ Become(IF TooLong(ProposedSize(ix))
                    THEN State(Deallocate(ix, p), s.file)
                    ELSE WriteData(ix, Trim(s.file, ProposedSize(ix)), p, id, data))
  /\ UNCHANGED <<maxSize, pending, phase>>

-----------------------------------------------------------------------------
(* clear and setMaxSize *)

ClearAll ==
  /\ index' = Clear(index)
  /\ file' = EmptyFile
  /\ maxSize' = NoLimit

ClearFile ==
  /\ phase = "open"
  /\ ~Dangling(index)
  /\ ClearAll
  /\ UNCHANGED <<pending, phase>>

\* setMaxSize when the file is shorter: only the limit changes.
SetMaxSize(m) ==
  /\ phase = "open"
  /\ file.size < m
  /\ maxSize' = m
  /\ UNCHANGED <<index, file, pending, phase>>

\* ... when there is nothing to evict: clear, which forgets the limit.
SetMaxSizeOfEmpty(m) ==
  /\ phase = "open"
  /\ ~Dangling(index)
  /\ file.size >= m
  /\ index.m_alloc = {}
  /\ ClearAll
  /\ UNCHANGED <<pending, phase>>

\* ... and otherwise: the loop begins.
StartShrink(m) ==
  /\ phase = "open"
  /\ file.size >= m
  /\ index.m_alloc # {}
  /\ maxSize' = m
  /\ phase' = "shrinking"
  /\ UNCHANGED <<index, file, pending>>

\* (fault) the loop does not count the bytes of the index
StopsWithoutIndex(ix) == ~TooLong(End(LastRecord(ix)))

\* The condition of the loop, when records are left.
Stops(ix) == ~TooLong(ProposedSize(ix))

\* One iteration: the last record goes, then the loop is left by clear when
\* none is left, or by trim when the rest fits.
Shrink ==
  /\ phase = "shrinking"
  /\ \E p \in {FirstEqual(index, Back(index))} : \E ix \in {Deallocate(index, p)} :
     IF ix.m_alloc = {}
     THEN /\ index' = Clear(ix)
          /\ file' = EmptyFile
          /\ maxSize' = NoLimit
          /\ phase' = "open"
     ELSE /\ index' = ix
          /\ UNCHANGED maxSize
          /\ IF Stops(ix)
             THEN file' = Trim(file, ProposedSize(ix)) /\ phase' = "open"
             ELSE UNCHANGED <<file, phase>>
  /\ UNCHANGED pending

\* clear of an index with records leaves deleted records in m_list, and any
\* call but an observer then reads one or deletes one again: the behaviour is
\* undefined from there on and this specification says nothing more about it.
UseDangling ==
  /\ phase = "open"
  /\ Dangling(index)
  /\ phase' = "undefined"
  /\ UNCHANGED <<index, file, maxSize, pending>>

Next ==
  \/ OpenEmpty
  \/ Open
  \/ LoadRecord
  \/ Close
  \/ \E id \in Id : EraseBlob(id)
  \/ \E id \in Id, data \in Data : WriteIntoFree(id, data)
  \/ \E id \in Id, data \in Data : WriteAtEnd(id, data)
  \/ ClearFile
  \/ \E m \in MaxSize : SetMaxSize(m)
  \/ \E m \in MaxSize : SetMaxSizeOfEmpty(m)
  \/ \E m \in MaxSize : StartShrink(m)
  \/ Shrink
  \/ UseDangling

Spec == Init /\ [][Next]_vars

-----------------------------------------------------------------------------
(* Properties *)

\* The members of the class and the file have their types.
TypeOK ==
  /\ IsIndex(index)
  /\ file.size \in Nat
  /\ file.head \in Nat \cup {Scrambled}
  /\ file.blobs \subseteq Blob
  /\ file.torn \subseteq TornBlob
  /\ \A t \in file.tables : t \in Table
  /\ maxSize \in MaxSize \cup {NoLimit}
  /\ pending \in Seq(Record)
  /\ phase \in {"closed", "loading", "open", "shrinking", "undefined"}

InUse == phase \in {"open", "shrinking"} /\ ~Dangling(index)

AllocRecords == {index.heap[e[2]] : e \in index.m_alloc}

\* The calls HeapFile makes, loading and the loop of setMaxSize included,
\* keep everything HeapIndex relies on: setMaxSize and the commit take the
\* last record of the list for an allocated one.
IndexSound ==
  phase \in {"loading", "open", "shrinking"} /\ ~Dangling(index) =>
    Listed(index) /\ Tiled(index) /\ Filed(index) /\ Coalesced(index)

\* The file reaches to the end of every record: no read of an object finds
\* NULL, and none grows the file.
FileCoversRecords ==
  InUse /\ index.m_list # <<>> => End(LastRecord(index)) <= file.size

\* Each allocated record describes an intact object, which fits into it and
\* whose id has the record's key: no write, trim, commit or split has hit it.
RecordsHoldBlobs ==
  InUse => \A r \in AllocRecords :
    \E b \in file.blobs :
      /\ b.offset = r.offset
      /\ End(b) <= End(r)
      /\ Hash[b.id] = r.key

\* writeBlob erases the id first, so that two records never hold one id and
\* the order in which findBlob visits colliding keys does not matter.
IdsAreUnique ==
  InUse => \A id \in Id : Cardinality(FindBlob(index, file, id)) <= 1

\* The file of a closed heap file can be opened: its head leads to a table
\* that is within the file and that describes intact objects, which neither
\* the table nor the head overlap.
CommitIsReadable ==
  phase = "closed" /\ file.size > 0 =>
    \E t \in file.tables :
      /\ t.offset = file.head
      /\ End(t) <= file.size
      /\ t.records # <<>>
      /\ \A i \in DOMAIN t.records :
           /\ t.records[i].offset >= HEAD_SIZE
           /\ End(t.records[i]) <= t.offset
           /\ \E b \in file.blobs : b.offset = t.records[i].offset

\* Such a file is also loaded to the end: the constructor of a hole's record
\* never throws at a record that starts before the end of the one before it.
CommittedLoads ==
  phase = "loading" => pending # <<>> /\ ~Overlaps(index, Head(pending))

\* The objects stored: in memory while a HeapFile is open, else in the table.
Records ==
  IF phase \in {"closed", "loading"}
  THEN UNION {ToSet(t.records) : t \in {u \in file.tables : u.offset = file.head}}
  ELSE AllocRecords

StoredBlobs == {b \in file.blobs : \E r \in Records : r.offset = b.offset}

Store ==
  [id \in {b.id : b \in StoredBlobs} |->
     (CHOOSE b \in StoredBlobs : b.id = id).data]

\* A heap file is a map from ids to objects: whatever records are split,
\* merged, filled and moved to disk and back, a step changes the object of one
\* id at most, or clears the file.
Contents == INSTANCE BlobStore WITH store <- Store
ImplementsBlobStore == Contents!Spec

\* When writeBlob may return without storing its object: the id is too long, or
\* there is a limit.
Refuses(id) == id \in LongId \/ maxSize # NoLimit

\* And each call does to that map what it was called for (heap_file.h):
\* eraseBlob removes the object of its id and writeBlob puts its own object in
\* the place of that, or none when it refuses, whatever colliding ids and old
\* objects in reused blocks findBlob meets; closing the file and opening it
\* again change nothing; an eviction takes one object, clear takes all.
OwnEffect ==
  /\ \A id \in Id : EraseBlob(id) => Contents!Erase(id)
  /\ \A id \in Id, data \in Data :
       /\ WriteIntoFree(id, data) =>
            IF id \in LongId THEN Contents!Erase(id) ELSE Contents!Put(id, data)
       /\ WriteAtEnd(id, data) =>
            Contents!Put(id, data) \/ (Refuses(id) /\ Contents!Erase(id))
  /\ OpenEmpty \/ Open \/ LoadRecord \/ Close => UNCHANGED Store
  /\ \A m \in MaxSize : SetMaxSize(m) \/ StartShrink(m) => UNCHANGED Store
  /\ Shrink => Contents!Evict \/ Contents!Reset
  /\ \A m \in MaxSize : ClearFile \/ SetMaxSizeOfEmpty(m) => Contents!Reset

EachCallDoesItsOwn == [][OwnEffect]_vars

\* "When this function returns, the size of the HeapFile on disk will be no
\* larger than the maxSize" (heap_file.h): when the loop of setMaxSize ends.
ShrinksBelowLimit ==
  [][phase = "shrinking" /\ phase' = "open" => file'.size <= maxSize]_vars

-----------------------------------------------------------------------------
(* A property the documentation states and the code does not have *)

\* "It is sufficent to store only the allocated Records" (heap_index.h): free
\* space is found again after reopening, so no byte behind the head is lost.
NoSpaceIsLost ==
  phase = "open" /\ ~Dangling(index) /\ index.m_list # <<>> =>
    index.heap[Head(index.m_list)].offset = HEAD_SIZE
=============================================================================
