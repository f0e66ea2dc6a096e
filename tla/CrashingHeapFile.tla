-------------------------- MODULE CrashingHeapFile --------------------------
(***************************************************************************)
(* HeapFile with programs that die, between two calls or inside one, and   *)
(* with the constructor that then finds an index which is old, damaged or  *)
(* not there (heap_file.cpp, findHeapIndex and the catch block).           *)
(*                                                                         *)
(* A dying process leaves the file as its shared mapping has it: writes    *)
(* are lost neither wholly nor in part, but those not made yet are.  The   *)
(* eight bytes of the head are written at once.  An exception of MmapFile  *)
(* in trim amounts to the same: no later call, and not the destructor, can *)
(* use the file again (module MmapFile, CannotUnmap).                      *)
(*                                                                         *)
(* A damaged index is any sequence of damaged records; those that are in   *)
(* order are loaded and used like any other.  An assertion that fails on   *)
(* the way ends the program, which may die there anyhow; the calls go on   *)
(* as if there were none.  A call that reads a deleted record has no       *)
(* meaning (phase undefined).                                              *)
(*                                                                         *)
(* Bytes in the midst of an object are not mistaken for an object, and no  *)
(* damaged record ends past the largest uint64_t.  Ids are not empty.      *)
(***************************************************************************)
EXTENDS HeapFile

CONSTANTS
  DamagedRecord,  \* records that damaged bytes may be read as
  MaxDamaged,     \* bound: the numbers of records a damaged count is read as
  MaxTainted      \* bound: damaged tables loaded before the file is emptied

ASSUME CrashingHeapFileAssumption ==
  /\ DamagedRecord \subseteq Record
  /\ {MaxDamaged, MaxTainted} \subseteq Nat

VARIABLES
  committed,  \* the objects the last table in the file was written for, by id,
              \* but for the ids that a call has named or evicted since then
  tainted     \* damaged tables loaded since the file was last empty

history == <<committed, tainted>>
allVars == <<vars, history>>

\* (fault) the size of the data is not compared with that of the record
Anywhere(b, r) == TRUE

\* getData gives an object only if it ends within its record.  A record that
\* is older than the object in its block may be too short.
Within(b, r) == End(b) <= End(r)

\* The objects getBlob may return for an id, now or after opening the file.
Readable(id) ==
  {b.data : b \in {c \in StoredBlobs :
     /\ c.id = id
     /\ \E r \in Records :
          r.offset = c.offset /\ r.key = Hash[id] /\ Within(c, r)}}

Nobody == [id \in Id |-> {}]

\* The table the head leads to is there as it was written.
TableIsIntact == \E t \in file.tables : t.offset = file.head

\* A record that m_alloc files under the key and that has been deleted.
Wild(ix, key) == \E e \in ix.m_alloc : e[1] = key /\ e[2] \notin DOMAIN ix.heap

CrashInit == Init /\ committed = Nobody /\ tainted = 0

-----------------------------------------------------------------------------
(* What the calls do to the history *)

Untouched == UNCHANGED history

\* What a call says of these ids takes the place of what was committed.
Touches(ids) ==
  /\ committed' = [id \in Id |-> IF id \in ids THEN {} ELSE committed[id]]
  /\ UNCHANGED tainted

\* The file has been emptied: there is nothing to keep.
Forgets == committed' = Nobody /\ UNCHANGED tainted

\* The file is as good as new.
Starts ==
  /\ committed' = Nobody
  /\ IF file = EmptyFile THEN tainted' = 0 ELSE UNCHANGED tainted

Commits ==
  /\ committed' = IF tainted = 0 THEN [id \in Id |-> Readable(id)'] ELSE Nobody
  /\ UNCHANGED tainted

\* The ids whose objects the loop of setMaxSize is about to evict.
Evicted == {b.id : b \in {c \in file.blobs : c.offset = LastRecord(index).offset}}

\* eraseBlob and writeBlob, where no deleted record is filed under the key.
CallOf(id) ==
  /\ ~Wild(index, Hash[id])
  /\ \/ EraseBlob(id)
     \/ \E data \in Data : WriteIntoFree(id, data) \/ WriteAtEnd(id, data)
  /\ Touches({id})

\* hasBlob and getBlob change nothing but the size of a file that a damaged
\* record reaches out of.
Look(id) ==
  LET found == FindBlob(index, file, id) IN
  /\ phase = "open"
  /\ ~Wild(index, Hash[id])
  /\ file' \in IF found = {} THEN Searched(index, file, id)
               ELSE UNION {Found(index, file, id, p) : p \in found}
  /\ UNCHANGED <<index, maxSize, pending, phase>>
  /\ Untouched

ShrinkOnce ==
  /\ phase = "shrinking"
  /\ ~Wild(index, LastRecord(index).key)
  /\ Shrink
  /\ Touches(Evicted)

\* deallocate pops and deletes the last of several equal records after it has
\* taken the first from m_alloc: the next search under their key reads it.
UseDeleted ==
  /\ \/ phase = "open" /\ \E id \in Id : Wild(index, Hash[id])
     \/ phase = "shrinking" /\ Wild(index, LastRecord(index).key)
  /\ phase' = "undefined"
  /\ UNCHANGED <<index, file, maxSize, pending>>
  /\ Untouched

Call ==
  \/ OpenEmpty /\ Starts
  \/ (Open \/ LoadRecord) /\ Untouched
  \/ Close /\ Commits
  \/ \E id \in Id : CallOf(id) \/ Look(id)
  \/ ClearFile /\ Forgets
  \/ \E m \in MaxSize : (SetMaxSize(m) \/ StartShrink(m)) /\ Untouched
  \/ \E m \in MaxSize : SetMaxSizeOfEmpty(m) /\ Forgets
  \/ ShrinkOnce
  \/ (UseDangling /\ Untouched) \/ UseDeleted

-----------------------------------------------------------------------------
(* Dying *)

\* The process is gone, and of the HeapFile only its file is left.
Die(f) ==
  /\ file' = f
  /\ index' = EmptyIndex
  /\ maxSize' = NoLimit
  /\ pending' = <<>>
  /\ phase' = "closed"

\* Between two calls, or in one of the loops.
Crash ==
  /\ phase \in {"loading", "open", "shrinking"}
  /\ Die(file)
  /\ Untouched

\* The first n bytes of the object x have been written.
Torn(f, x, n) ==
  LET g == Overwrite(f, [offset |-> x.offset, size |-> n])
  IN  IF n < ID_SIZE THEN g ELSE [g EXCEPT !.torn = @ \cup {IdPart(x)}]

\* writeBlob has erased the id and has got the record r: it grows the file for
\* the block, and writes the object but for the checksum, which comes last.
DieInBlock(f, r, id, data) ==
  LET g == Grow(f, End(r))
      x == [offset |-> r.offset, size |-> BlobSize[data], id |-> id, data |-> data]
  IN  \/ Die(g)
      \/ id \notin LongId /\ \E n \in 1 .. BlobSize[data] : Die(Torn(g, x, n))

\* In writeBlob, after it has erased the id.
CrashWriting(id, data) ==
  /\ phase = "open"
  /\ ~Dangling(index)
  /\ ~Wild(index, Hash[id])
  /\ \E s \in Erasures(id) :
       LET p     == New(s.index)
           r     == Appended(s.index, id, data)
           fits  == LowerBound(s.index, r.size)
           taken == {LET ix == Allocate(s.index, e, r.size, r.key, p)
                     IN  ix.heap[Allocated(s.index, e, r.size, p)] : e \in fits}
           ix    == AddAllocatedBlock(s.index, p, p, r)
           cut   == Trim(s.file, ProposedSize(ix))
       IN /\ CanNew(s.index)
          /\ \/ Die(s.file)
             \/ \E t \in taken : DieInBlock(s.file, t, id, data)
             \/ /\ fits = {}
                /\ End(r) <= FileLimit
                /\ ~TooLong(ProposedSize(ix))
                /\ Die(cut) \/ DieInBlock(cut, r, id, data)
  /\ Touches({id})

\* In the destructor: the head is written, the file is grown for the table,
\* and then the table is written, the count first.
CrashCommitting ==
  /\ phase = "open"
  /\ ~Dangling(index)
  /\ index.m_alloc # {}
  /\ LET t == MakeRecord(End(LastRecord(index)), 0, IndexSize(index))
         f == WriteHead(file, t.offset)
         g == Grow(f, End(t))
     IN  \/ \E n \in 1 .. t.size - 1 : Die(Overwrite(g, [t EXCEPT !.size = n]))
         \/ Die(f) \/ Die(g)
  /\ Untouched

-----------------------------------------------------------------------------
(* Opening what a dead program has left *)

\* Nothing was ever committed: the head is zero, and so is the count that the
\* constructor reads from the head's own first bytes (or both may be so, where
\* the head has been written over).  The file is kept.
OpenUncommitted ==
  /\ phase = "closed"
  /\ file.size > 0
  /\ file.head \in {0, Scrambled}
  /\ phase' = "open"
  /\ UNCHANGED <<index, file, maxSize, pending>>
  /\ Untouched

Damaged == phase = "closed" /\ file.size > 0 /\ file.head # 0 /\ ~TableIsIntact

\* The catch block: the index is cleared and the file is emptied.
Catch ==
  /\ index' = Clear(index)
  /\ file' = EmptyFile
  /\ pending' = <<>>
  /\ phase' = "open"
  /\ UNCHANGED maxSize

\* readOrThrow finds that the head leads behind the end, or the file cannot
\* be grown to hold as many records as the damaged count says.
OpenThrows == Damaged /\ Catch /\ Forgets

\* Where a head that is not 0 leads; bound: one that has been written over leads
\* no further than FileLimit.
Leads == IF file.head = Scrambled THEN 1 .. FileLimit ELSE {file.head}

\* The count and the records are whatever bytes are there now, and reading
\* them grows the file to their end.
OpenDamaged(h, n) ==
  LET count   == MakeRecord(h, 0, COUNT_SIZE)
      table   == MakeRecord(End(count), 0, n * SERIALIZED_SIZE)
      counted == Read(file, count)
  IN
  /\ Damaged
  /\ h < file.size
  /\ UNCHANGED <<index, maxSize>>
  /\ \/ /\ n = 0
        /\ file' = counted
        /\ phase' = "open"
        /\ UNCHANGED <<pending, tainted>>
     \/ \* getReadPtr gives NULL, which the first record is read through
        /\ n > 0
        /\ counted.size <= table.offset
        /\ file' = counted
        /\ phase' = "undefined"
        /\ UNCHANGED <<pending, tainted>>
     \/ /\ n > 0
        /\ tainted < MaxTainted
        /\ counted.size > table.offset
        /\ file' = Read(counted, table)
        /\ pending' \in [1 .. n -> DamagedRecord]
        /\ phase' = "loading"
        /\ tainted' = tainted + 1
  /\ committed' = Nobody

\* A record of the damaged table starts before the end of the last one.
LoadThrows ==
  /\ phase = "loading"
  /\ pending # <<>>
  /\ Overlaps(index, Head(pending))
  /\ Catch
  /\ Forgets

Recovery ==
  \/ OpenUncommitted
  \/ OpenThrows
  \/ \E h \in Leads, n \in 0 .. MaxDamaged : OpenDamaged(h, n)
  \/ LoadThrows

CrashNext ==
  \/ Call
  \/ Crash
  \/ \E id \in Id, data \in Data : CrashWriting(id, data)
  \/ CrashCommitting
  \/ Recovery

\* The loops run in the thread of the caller, which goes on until they end if
\* it lives; nobody is obliged to make another call, nor to die.
Loop ==
  /\ phase \in {"loading", "shrinking"}
  /\ LoadRecord \/ LoadThrows \/ ShrinkOnce \/ UseDeleted

CrashSpec == CrashInit /\ [][CrashNext]_allVars /\ WF_vars(Loop)

-----------------------------------------------------------------------------
(* Properties *)

\* The members have their types, also where damaged bytes were read.
CrashTypeOK ==
  /\ TypeOK
  /\ committed \in [Id -> SUBSET Data]
  /\ tainted \in 0 .. MaxTainted

\* Whatever call a program died in, no later one finds index and file at odds:
\* an index is sound and describes no more than the file has.  The exception is
\* a file of which a damaged table has been loaded, until it is opened empty:
\* the constructor takes any records that are in order.
RecoveredIndexIsSound == tainted = 0 => IndexSound /\ FileCoversRecords

\* A damaged index, too, is a list of live records in order, no two of which
\* share a byte, and all that m_free leads to are among them: whatever is
\* split, merged, appended and popped by value, no object is written into the
\* block of another.
BlocksStayApart ==
  phase \in {"loading", "open", "shrinking"} /\ ~Dangling(index) =>
    /\ Listed(index)
    /\ \A i \in DOMAIN index.m_list : i > 1 =>
         End(index.heap[index.m_list[i - 1]]) <= index.heap[index.m_list[i]].offset
    /\ \A e \in index.m_free : e[2] \in DOMAIN index.heap /\ e = FreeEntry(index, e[2])

\* As long as the table of the last commit is intact, a crash loses or ages
\* only objects that calls have named since, or that setMaxSize has evicted:
\* all others can still be read, although free blocks around them have been
\* merged, split and written, and no matter how often programs have died.
\* Nothing is promised after a damaged table has been loaded.
UntouchedSurvive ==
  phase = "closed" /\ TableIsIntact /\ tainted = 0 =>
    \A id \in Id : committed[id] \subseteq Readable(id)

\* setMaxSize and the constructor return, or the program dies in them: each
\* iteration loads one record, or takes one from m_alloc, because the last one
\* is never free, whatever table the index comes from.  Where equal records of
\* a damaged table make an iteration read a deleted one it ends there.
LoopsEnd == []<>(phase \notin {"loading", "shrinking"})

-----------------------------------------------------------------------------
(* A property a comment states and the code does not have *)

\* "first sizeof(uint64_t) bytes in the heap file should have the location of
\* the HeapIndex" (heap_file.cpp): no object is ever written over them.
HeadIsReserved == \A b \in file.blobs : b.offset >= HEAD_SIZE
=============================================================================
