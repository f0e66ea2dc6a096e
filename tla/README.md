# libheapfile: specification and proofs

libheapfile stores small to medium objects under an id in one file, "a hash
table serialized to disk" (`include/heap_file.h`). This directory holds TLA+
models of its components, the TLC configurations that check them on small
instances, and proofs, for every instance, of the invariants of the index, of
the file, of its bytes and of its window, and of the abstract specifications
they implement.
Paths below are relative to the repository.

## 1. Inventory

| component | source | state it keeps | operations |
|---|---|---|---|
| `Record` | `src/heap_index.cpp`, `include/heap_index.h` | offset (64 bits), key (32), size (32) | hole constructor, `coalesce`, `splitOffLeft`, serialize/deserialize |
| `HeapIndex` | same | `m_list` (records by offset), `m_alloc` (multimap by hash of the id), `m_free` (multimap by size), and the records they point to | `addAllocatedBlock`, `allocate`, `deallocate`, `clear`, destructor, observers |
| `MmapFile` | `src/mmap_file.cpp`, `include/mmap_file.h` | cached file size, window (`m_offset`, `m_windowSize`, `m_begin`), the file | constructor, `getPtr` (const and not), `trim`, `clear`, destructor |
| `Blob` | `src/heap_blob.cpp`, `include/heap_blob.h` | none: a record and a pointer | `blobSize`, `hasId`, `writeData`, `getData` |
| `HeapFileT` | `src/heap_file.cpp`, `include/heap_file.h` | a `HeapIndex`, a `MmapFile`, an encryption key, `m_maxSize` | open, `hasBlob`, `getBlob`, `writeBlob`, `eraseBlob`, `clear`, `setMaxSize`, destructor (commit) |
| `Simple<T>` | `src/simple_encrypt.cpp` | the key | XOR encrypt/decrypt |
| byte order | `src/byte_order.cpp`, `include/byte_order.h` | none | `htonll`, `readN2H`, `writeH2N` |
| tests, Makefile | `src/*.t.cpp`, `src/unit_test.cpp`, `Makefile` | | the default build has assertions on |

**Interaction.** Everything is a direct call in the caller's thread. `HeapFileT`
owns an index and a file. `writeBlob` erases the id (`findBlob` walks the
colliding keys in `m_alloc` and compares each with the file), asks the index
for a free block, else appends one at the end and grows the file, and writes a
`Blob` through a pointer from `MmapFile`. The index lives in memory while the
file is open: the destructor writes a *table* (a count and the allocated
records) behind the last record and its location at offset 0, and the
constructor reads it back. Free blocks are not stored; they reappear as the
holes between allocated blocks.

**What is hard.** There are no threads, messages or timers. What is hard is
(a) that three containers must agree after any sequence of splits, merges, hole
fillings and pops, with records changed while pointers to them are filed;
(b) that index and file, changed by different calls, must agree after failed
writes, evictions and truncations; (c) what survives closing and reopening;
(d) that the eviction loop ends; (e) failures between the steps of one call,
where members are already changed; (f) fixed widths; (g) a program that dies
with a file open, because the index is written by the destructor only and the
file is changed in place before; (h) damaged tables that are loaded like any
other; (i) files that move between hosts and keys. `PROJECT.json` lists each such
place with its line under "hazards".

**What makes each part correct.**

- `HeapIndex`: the list is a gapless ordered enumeration of the records; each
  is filed once under its current key or size; no two free neighbours, no free
  last record; a call gives out or takes back one disjoint block and touches
  no other.
- `HeapFileT`: every allocated record holds an intact object whose id has its
  hash; one object per id; what is committed can be opened; across all calls
  and sessions the whole is a map from ids to objects, to which each call does
  what it was called for and nothing else; the loops end. After a crash an object
  that no call has named since the last commit is still there, if the table of
  that commit is; and until a damaged table is loaded no constructor ends with
  index and file at odds. With a damaged table the objects are lost, but no object
  is written into the block of another and the loops still end.
- `MmapFile`: the window is invisible: the file is a sequence of bytes, and
  pointers lead to the range that was asked for.
- `Blob`: writes stay in the block, reads of any bytes stay in it too, a changed
  byte is noticed, and what was written is read, with the same key, on any host.

## 2. Modules

| module | what it is | lines it stands for |
|---|---|---|
| `IndexOps` | the data structure `HeapIndex` as constant operators on an index value, with the predicates its containers must satisfy | `heap_index.cpp` |
| `HeapIndex` | the state machine of one index: any sequence of calls | its public operations |
| `Allocator` | abstract: a set of disjoint blocks | what `heap_index.h` promises |
| `HeapFile` | one file and the `HeapFileT` objects that open it in turn; uses `IndexOps` | `heap_file.cpp`, and `Blob` and `MmapFile` as it uses them |
| `BlobStore` | abstract: a map from ids to objects that outlives its object | what `heap_file.h` promises |
| `CrashingHeapFile` | `HeapFile` with programs that die and constructors that find what they left | the same, with `findHeapIndex` on damaged files and the catch block |
| `ByteOrder` | integers of 8, 32 and 64 bits in the memory of a host and in network order | `byte_order.h`, `byte_order.cpp` |
| `Simple` | encryption by a repeated key | `simple_encrypt.h`, `simple_encrypt.cpp` |
| `Blob` | the layout of an object in its block, its sizes, bounds and hash, as constant operators | `heap_blob.h`, `heap_blob.cpp` |
| `DiskFormat` | a heap file byte by byte, for one object, written and read by programs on several hosts and with several keys; uses `Blob` | `heap_file.cpp` with the above and `Record::serialize` |
| `MmapFile` | one file and the `MmapFile` objects that open it in turn, with failing system calls | `mmap_file.cpp` |
| `ByteFile` | abstract: a sequence of bytes and the range last asked for | what `mmap_file.h` promises |
| `MCHeapIndex`, `MCHeapFile`, `MCCrashingHeapFile`, `MCMmapFile`, `MCDiskFormat` | what the model checker needs: symmetry, small hash and size functions | |
| `IndexLemmas`, `IndexEffects`, `HeapFileLemmas` | lemmas: lists and the index, what the calls of the index do, the file and the index together | |
| `HeapIndexProofs`, `HeapFileProofs`, `CrashingHeapFileProofs`, `MmapFileProofs`, `DiskFormatProofs` | theorems about the module each is named after | |

### IndexOps and HeapIndex

An index value is a record of `m_list` (a sequence of addresses), `m_alloc` and
`m_free` (sets of pairs <key or size, address>) and `heap` (the live `Record`
objects by address). An address outside the domain of `heap` has been deleted,
so a dangling pointer is something the model can say, and a multimap entry
keeps the key it was inserted under, so a stale entry is too. Each operation of
the class is one operator and one action; a call is atomic because nothing
calls the class concurrently. `lower_bound` on equal sizes and `new` choose
freely. Merged and hole sizes are taken modulo `U32`, the number of values of
a `uint32_t`.

`isLast` and the searches of `deallocate` compare records by value, not by address
(`IsLast`, `FirstEqual`), which makes no difference until a damaged table brings
two equal records, such as two of zeros. `deallocate` then unfiles the first
of them and pops, and deletes, the last (`Retire`).

`clear` deletes the records but leaves their addresses in `m_list` (a finding,
section 4). The next `addAllocatedBlock`, `clear` or destructor then uses a
deleted record: action `UseDangling` records that and nothing is said about the
object afterwards.

Operators marked `(fault)` are not used by any specification. They are variants
of an operator that follows them, with a plausible mistake each, and stand
beside it to show that a property notices the mistake.

### HeapFile

The file is described by its size, the location at its head, and the objects
and tables that are intact in it. A write destroys what it overlaps, a trim
what reaches past the end, so that every overwriting of live data is visible.
Of an object whose end is destroyed the first `ID_SIZE` bytes may be left
(`TornBlob`): `hasId` reads no more than these, so `findBlob` still finds it, and
an erasure or a write releases its record. A head that something else has been
written over, or that a trim has cut, is `Scrambled`. A read of a range that starts
in the file and ends behind it grows the file (`Read`).
Public calls are one step each, but the loops of the constructor (`LoadRecord`)
and of `setMaxSize` (`Shrink`) are one step per iteration. Ids stand for their
encrypted form, an id in `LongId` for one longer than the 255 bytes that
`writeData` accepts. The destructor walks `m_list` and writes the records that
are not free: `Serialized`, which takes their positions in `Ascending` order.
`CanNew` is a bound: a call is made only if `new` can find memory twice, which
is the most that any call needs. `Close` is the destructor; a session may end at any point
between calls, and the next `Open` reads the table.

`ImplementsBlobStore` says that the objects stored form a map, of which a step
changes one entry at most or drops all. It does not tie the change to
the call: `EachCallDoesItsOwn` does. `eraseBlob` drops the object of its id,
`writeBlob` puts its own object in the place of that (or nothing, where it refuses),
an eviction takes one object, `clear` all, and no other call any.

### CrashingHeapFile

A process that dies leaves the file as its shared mapping has it, so what is
lost is memory and the writes not made yet. `Crash` is a death between two calls
or in a loop; `CrashWriting` one inside `writeBlob`, after the erasure, after
the growth, or with the block half written; `CrashCommitting` one inside the
destructor, after the head, after the growth, or with half a table. The next
constructor finds one of the following.

- The table of an older commit, intact (`Open`): it is loaded, and its records
  describe blocks in which other objects may have been written since.
- A head of zero (`OpenUncommitted`): nothing was ever committed. The count is
  read from the head's own bytes and is zero too; the index is empty and the
  file is kept, at the cost of its space until the commit.
- A head that leads behind the end of the file (`OpenThrows`): everything is
  cleared. So erasing the last object, which cuts the file in front of the
  table, and dying loses all objects, those nobody touched included.
- A head that leads to other bytes (`OpenDamaged`): they are read as a count and
  as records, whatever they are. A program that dies behind the count leaves
  zeros there, one that dies behind the head whatever was behind the last record;
  a head that has been written over leads anywhere. If the file ends right behind
  the count, `getReadPtr` gives NULL, nothing checks it, and nothing is defined
  from there on. Otherwise the records are loaded one by one. If one starts before
  the end of the last, the catch block clears index and file (`LoadThrows`),
  and when records had been loaded by then the list keeps their addresses
  (finding `index_clear`). If all are in order, the constructor returns with that
  index, and the calls use it like any other: `tainted` counts such tables since
  the file was last opened empty.

What holds of a program with a damaged table is less: `RecoveredIndexIsSound` and
`UntouchedSurvive` exempt it, and `HeadIsReserved` fails (finding `head`). What is
checked of it is `CrashTypeOK`, `BlocksStayApart` and `LoopsEnd`. A call that reads
a record deleted before (`UseDeleted`: two equal records, of which one has been
popped) has no meaning afterwards. A failed assertion on the way ends the program,
as a death does; the calls of the model go on as in a build without assertions, so
that both are covered.

`committed` is history: the objects that the last table was written for, but for
the ids that calls have named, or evictions have hit, since then.

### ByteOrder, Simple, Blob and DiskFormat

A byte has `BYTE` values, a `uint32_t` has `W` bytes, a `uint64_t` twice as
many. A host is little-endian or not, and its compiler did or did not define
`__LITTLE_ENDIAN__` when `htonll` was compiled. `Blob` defines what `writeData`
puts into a file and what `hasId` and `getData` take out of it, together with
how far they read. The state of `DiskFormat` is the bytes of the file, the
records of the index (one at most), host and key of the program, and, as
history, the object that should be there. What an index with many records does
to blocks is in `HeapFile`; the constant `Slack` lets the block here be larger
than its object, as such an index may have it, though no larger than the `size`
of a record can say. `Damage` changes one byte of the
block while the file is closed.

### MmapFile

Offsets are bytes, windows are whole pages, `m_begin` is the range of the file
mapped there, or nothing. A pointer is its distance from `m_begin`. `ftruncate`
and `mmap` may fail if the constant `Fails` says so; the members then keep the
values they had at the throw. `munmap` fails exactly for an empty range, which
the code passes after a failed `ftruncate` in `trim`. The caller writes through
the last pointer it obtained, as `heap_file.cpp` does.

## 3. Runs

Deadlock checking is off everywhere: a library may simply not be called again,
a closed file stays closed, and an address space with no free address, or a
`FileLimit`, ends what a bounded model can do.

| run | instance | shows |
|---|---|---|
| `index` | 5 addresses, keys 0 and 1, MIN_SIZE 2, blocks of 1 and 3, holes of 0, 1 and 3, requests of 0, 3 and 4, all below 10 | `TypeOK`, `ListTiles`, `FiledOnce`, `FreeIsCoalesced`, `OnlyClearDangles`, `BaseNeverMoves`, `ImplementsAllocator` |
| `file` | 4 ids of which one is too long and two collide, objects of 1 and 3 bytes with MIN_SIZE 2, limits 0 and 7, `FileLimit` 7 | `TypeOK`, `IndexSound`, `FileCoversRecords`, `RecordsHoldBlobs`, `IdsAreUnique`, `CommitIsReadable`, `CommittedLoads`, `ImplementsBlobStore`, `EachCallDoesItsOwn`, `ShrinksBelowLimit` |
| `crash` | 5 addresses, 3 ids that collide, objects of 2 and 3 bytes with MIN_SIZE 2, limit 6, `FileLimit` 7, damaged bytes read as up to 2 records, each of zeros or of an object behind the head, `MaxTainted` 1 | `CrashTypeOK`, `RecoveredIndexIsSound`, `BlocksStayApart`, `UntouchedSurvive`, and `LoopsEnd` under fairness |
| `disk` | bytes of 3 bits, integers of 2 and 4 bytes, MIN_SIZE 8; 3 keys, 5 ids up to the longest stored and the shortest refused, objects up to the one whose size wraps; a little and a big-endian host; one changed byte | `TypeOK`, `ReadsBack`, `OneDamagedByteIsDetected`, `ReadsStayInBlock`, `WritesStayInBlock` |
| `mmap` | pages of 4 bytes, ranges of 1 and 4 bytes at 0, 3, 4 and 6, cuts to 0, 3 and 4, both system calls may fail | `TypeOK`, `SizeIsTrue`, `PointersLeadToRange`, `SubrangesKeepPointers`, `ImplementsByteFile` |
| `head`, `wraps`, `index_clear`, `loses_space`, `mmap_null`, `endian`, `wrong_key` | as small as shows it | section 4 |

**Why the bounds are enough.** Merging on both sides needs three free blocks in
a row with an allocated last one: four records, and the split of a merged block
needs a fifth address. Five addresses with `Limit` 10 reach all of these; block
sizes 1 and 3 around MIN_SIZE 2 give free blocks that are too small, taken
whole (with slack or exactly) and split; the hole sizes give a hole of no,
too little and enough space. `Limit` and `FileLimit` bound the end of the
managed range, which the code does not. In `file` the two colliding ids and the
third one allow an eviction or an erasure on either side of a live object and a
rewrite in a hole, over any number of sessions. The addresses are
interchangeable (symmetry); run `crash`, which checks liveness, uses none. An
object of 3 in a block of 3 leaves, when one of 1 (which needs 2) takes its
place, a remainder too small to split off: blocks larger than their objects.
`crash` has objects of 2 and 3 bytes and three ids that can be stored: that is what
it takes to have the table of an old commit lead to a block in which an object longer
than its record has been written, to commit that, and to write over the object's
end; `getData` must refuse it. `MaxTainted` bounds how many damaged tables are loaded
before the file is opened empty (one: each is loaded into an empty index), and `Leads`
how far a head that has been written over leads. Zero records and one in its proper
place make an index with equal records, one with an empty record before another,
and one that overlaps.
In `disk` MIN_SIZE
equals the number of values of a byte, as 256 does, which is what makes the
bound of `hasId` suffice, and 5381 and the factor 33 of the hash are taken modulo
64: 33 stays odd, as modulo 2^32, so that multiplication loses nothing. In `mmap`
ranges lie in a page, end at its bound, cross it, and start on the second page,
and the file has partial and full last pages. The instances keep 0 out of
the sizes of blocks because `HeapFile` never creates one.

**Fairness.** Only `crash` needs it: `WF_vars(Loop)`, where `Loop` is an
iteration of the constructor's loop or of that of `setMaxSize`, the one that throws
and the one that reads a deleted record included. Both run in the
thread of the caller, which does nothing else until the loop ends. Nobody is
obliged to make any call, nor to die, so no other action is fair. `LoopsEnd` says
that the program is outside these loops again and again, which is that it never
stays in one for ever.

**Mutants.** For each property of a passing run `PROJECT.json` names a fault in
a mapped definition for which the property fails in that run.

## 4. Disagreements found

Each is a run with `expect: violation`; `PROJECT.json` quotes the lines.

- `index_clear`: `HeapIndex::clear` does not empty `m_list`. The
  destructor of an index that was cleared deletes its records a second time,
  and the first write after `HeapFileT::clear` reads a deleted record.
- `head`: a program that dies in the destructor behind the count leaves a table of
  zeros. The next constructor loads it, since every zero record starts where the
  last one ends, and the next object is appended at offset 0, over the head.
- `wraps`: merging free blocks of 4 GiB or more in total wraps the 32-bit size.
- `loses_space`: free space in front of the first object is lost on reopening.
- `mmap_null`: after a failed `mmap` the same call succeeds and returns a
  pointer computed from NULL.
- `endian`: `htonll` is the identity on a little-endian host whose compiler does
  not define `__LITTLE_ENDIAN__`. Such a host finds the head of a file from a
  big-endian one (or from OS X) behind the end of the file and empties it.
  Between hosts that agree on 64-bit integers files can be moved: run `disk`.
- `wrong_key`: with another key another id encrypts to the same bytes; its object
  is found, read as something else, and erased or replaced by a write.

Smaller ones, without a run of their own:

- A read that starts in the file and ends behind it grows it
  (`mmap_file.cpp:182`); `mmap_file.h:13-14` says that it will grow "for writes, but
  not for reads". Only a damaged table leads to such a
  read.
- `setMaxSize` to the very size of the file evicts an object
  (`heap_file.cpp:293`).
- Erasing the last object after a free block leaves the file longer than its
  records and their index (`heap_file.cpp:92`).
- `heap_blob.h` says that `writeData` returns false for data that is too large;
  the code asserts (`heap_blob.cpp:73`). Through `HeapFileT` this happens to
  objects just below 4 GiB, whose size wraps: the block is too small, and only
  the assertion keeps the write in it (`WritesStayInBlock` and its mutant). A
  build with `NODEBUG` has no assertion, and for objects of 4 GiB and more
  `wr.size()` has wrapped as well, so that the assertion holds and the whole
  object is written; `DiskFormat` assumes objects below 4 GiB.

## 5. Proofs

### What is proved

Every theorem holds for all sets of addresses, ids, objects, keys, offsets and
sizes, under the assumptions of the modules (`IndexAssumption`,
`HeapIndexAssumption`, `HeapFileAssumption`, `MmapFileAssumption`, ...), which
TLC evaluates in the runs, and under the one in the third column.

| module | theorem | assuming | statement |
|---|---|---|---|
| `HeapIndexProofs` | `Inductive` | `Limit < U32` | `Spec => []IInv` |
| | `TypeCorrect` | `Limit < U32` | `Spec => []TypeOK` |
| | `ListAlwaysTiles` | `Limit < U32` | `Spec => []ListTiles` |
| | `AlwaysFiledOnce` | `Limit < U32` | `Spec => []FiledOnce` |
| | `FreeAlwaysCoalesced` | `Limit < U32` | `Spec => []FreeIsCoalesced` |
| | `OnlyClearLeavesDangling` | `Limit < U32` | `Spec => []OnlyClearDangles` |
| | `BaseStays` | `Limit < U32` | `Spec => BaseNeverMoves` |
| | `IsAllocator` | `Limit < U32` | `Spec => ImplementsAllocator` |
| | `BlocksNeverOverlap` | `Limit < U32` | `Spec => []Abstract!NoOverlap` |
| `HeapFileProofs` | `Inductive` | `FileLimit < U32` | `Spec => []IInv` |
| | `TypeCorrect` | `FileLimit < U32` | `Spec => []TypeOK` |
| | `IndexAlwaysSound` | `FileLimit < U32` | `Spec => []IndexSound` |
| | `FileAlwaysCovers` | `FileLimit < U32` | `Spec => []FileCoversRecords` |
| | `RecordsAlwaysHold` | `FileLimit < U32` | `Spec => []RecordsHoldBlobs` |
| | `IdsAlwaysUnique` | `FileLimit < U32` | `Spec => []IdsAreUnique` |
| | `CommitAlwaysReadable` | `FileLimit < U32` | `Spec => []CommitIsReadable` |
| | `CommittedAlwaysLoads` | `FileLimit < U32` | `Spec => []CommittedLoads` |
| | `AlwaysShrinksBelowLimit` | `FileLimit < U32` | `Spec => ShrinksBelowLimit` |
| | `IsBlobStore` | `FileLimit < U32` | `Spec => ImplementsBlobStore` |
| | `EachCallAlwaysDoesItsOwn` | `FileLimit < U32` | `Spec => EachCallDoesItsOwn` |
| `CrashingHeapFileProofs` | `CrashInductive` | `FileLimit < U32` | `CrashSpec => []CrashIInv` |
| | `CrashTypeCorrect` | `FileLimit < U32` | `CrashSpec => [](tainted = 0 => CrashTypeOK)` |
| | `RecoveredIndexAlwaysSound` | `FileLimit < U32` | `CrashSpec => []RecoveredIndexIsSound` |
| | `UntouchedAlwaysSurvive` | `FileLimit < U32` | `CrashSpec => []UntouchedSurvive` |
| `MmapFileProofs` | `Inductive` | | `Spec => []IInv` |
| | `TypeCorrect` | | `Spec => []TypeOK` |
| | `SizeAlwaysTrue` | | `Spec => []SizeIsTrue` |
| | `PointersAlwaysLead` | | `Spec => []PointersLeadToRange` |
| | `SubrangesAlwaysKeepPointers` | | `Spec => SubrangesKeepPointers` |
| | `IsByteFile` | | `Spec => ImplementsByteFile` |
| | `WithoutFailuresDefined` | `Fails = {}` | no assertion fails, no pointer comes from NULL |
| `DiskFormatProofs` | `Inductive` | `OrdersKnown` | `Spec => []IInv` |
| | `TypeCorrect` | `OrdersKnown` | `Spec => []TypeOK` |
| | `AlwaysReadsBack` | `OrdersKnown` | `Spec => []ReadsBack` |
| | `ReadsAlwaysStay` | `OrdersKnown` | `Spec => []ReadsStayInBlock` |
| | `WritesAlwaysStay` | `OrdersKnown` | `Spec => WritesStayInBlock` |
| | `DamageIsAlwaysDetected` | `OrdersKnown` | `Spec => []OneDamagedByteIsDetected` |
| | `DecryptInverts` | | decryption undoes encryption, for every key and all data |
| | `ReadsStayInAnyBlock` | | the bounds behind `ReadsStayInBlock`, for any bytes in any block of at least `BYTE` bytes |
| | `WrittenIsRead` | `OrdersKnown` | an integer written on one host is read as the same on every other |

**The assumptions.** `Limit < U32` and `FileLimit < U32` say that the managed
range, or the last object, ends below 4 GiB. Without it the theorems are false,
and the code is wrong: run `wraps`, where merging free blocks of 4 GiB or more
wraps a size. The theorems therefore hold for files as long as 4 GiB, and say
nothing of longer ones, in which no such merge need ever happen.
`Fails = {}` is the negation of what run `mmap_null` shows: with failing system
calls the pointers are wrong. `OrdersKnown` says that on every host `htonll` was
compiled for the byte order of the host. It holds of the hosts of run `disk`; it
fails for the one that run `endian` adds, where `ReadsBack` is false.

### HeapIndex

**The invariant.** No single invariant is inductive. That a merge keeps the
tiling needs that the neighbour found in `m_free` is the record in the list
(filed once, under its present size); that freeing a block leaves no two free
neighbours needs that there were none before; that the pop leaves no free last
record needs both. So `IInv` is: the index is `Sound` (typed, listed, tiled,
bounded, filed once, coalesced) or a `Husk`, what `clear` leaves.

**The argument.** The first part of `IndexLemmas` is about sequences alone:
removing or inserting an element of an enumeration, and merging or splitting a
contiguous one. The second lifts this to the operations. `deallocate` takes its record out of
`m_alloc` before it merges the neighbours, so between its steps the record is in
neither multimap: `Limbo` is what holds there. `Unfile` establishes it,
`CoalesceLeft` and `CoalesceRight` keep it and leave nothing free on their side,
and then either `PopSound` or `FileSound` re-establishes `Sound`
(`DeallocateSound`). `AllocateSound` splits on whether the block is taken whole,
`AddSound` on whether there is a hole. `HeapIndexProofs` matches each action
with its lemma.

**What a call does.** Soundness does not say that a call changes one block only.
`IndexEffects` does, per operation: `DeallocateEffect`, `AllocateEffect`,
`AddEffect` say which block comes or goes, that all others keep address, offset,
size and key, that the first byte of the range stays, and where the list ends
afterwards. They need that records are ordered pairwise, and not only neighbour
by neighbour (`RecordsOrdered`), and a relation `Merged` that survives the chain
of merges. `BaseStays` and the steps of `IsAllocator` follow. That blocks never
overlap is proved of `Allocator` and carried over by the refinement.

### HeapFile

**The invariant.** `IInv` has two halves, neither of which is inductive without
the other.

- `Structure`: every table in the file ends in the file and lists records in
  order, between the head and itself (`FileOK`); the index is `Sound` (or a
  `Husk` after `clear`) and the file `Covers` its records, which start behind the
  head; and while the constructor's loop runs the records still `pending` are
  ordered, behind those of the index, and within the file (`Loadable`). The last
  is why the file covers what has been loaded and why no loading throws.
- `Objects`: the objects in the file are disjoint; while the file is in use each
  allocated record holds one, which starts where the record starts, ends within
  it and has an id with its hash, and no two hold one id (`Intact`); when the file
  is closed it is empty or its head leads to its only table, whose records hold
  objects in the same way; while the file is loaded, the table's records are those
  in the index and those pending.

`RecordsAlwaysHold` needs the effects of the index calls, because a block handed
out twice would be overwritten; that trims hit nothing needs `Covers` and
that the last record of the list is allocated (`Coalesced`), which is also what
makes `Back(index)` in `release` and `setMaxSize` an object.

**The argument.** `HeapFileLemmas` is about constant operators: what `Trim`,
`Grow` and `Overwrite` do to a file that is all right (`TrimFile`, `GrowFile`,
`PlaceBlob`), that index and file agree after `Release`, `WriteData` and
`Commit` (`ReleaseAgrees`, `WriteDataStores`, `CommitKeeps`), and what happens to
the set of stored objects: a release drops one and keeps the others
(`RecordGone`, `TrimBehind`), a write adds one (`HoleWritten`,
`ExtendedWritten`), the record that is taken back because the file would be too
long leaves all of them (`AppendRefused`). The destructor's list is enumerated in
ascending order by `SerializedProperties`: the existence of the enumeration that
`Ascending` chooses (`AllListable`) is shown by going from one length of a list
to the next, with a least counterexample (`LeastElement`). `HeapFileProofs` has
one lemma per action, which gives `IInv'` together with what the action does to
the stored objects (`ObjectStep`); `Step` collects them, `Inductive` uses the
first half, and `StoreStep` translates the second into a step of `BlobStore`, by
way of the function `StoreOf` from ids to objects (`StoreDrop`, `StorePut`).

### CrashingHeapFile

**What is claimed.** The theorems are about a file of which no damaged table has been
loaded since it was last opened empty (`tainted = 0`). Of a damaged table nothing
can be assumed but that its records are in order, and the properties are false of it:
the index need not start behind the head, nor the file reach to its end.

**The invariant.** The one of `HeapFile` is too strong: after a crash a record of
an old table may lead to an object that has been replaced, or to none. `CrashIInv` is
`Basics`, which holds of every program and says what a new one starts with, and,
while `tainted = 0`, `Consistent`, which again has two halves.

- `CrashStructure`: the tables in the file are as in `Structure`, whichever commit
  they are of; the objects in it are disjoint; an index that has been loaded
  agrees with the file (`Agree`) or has no record; and while the constructor's loop
  runs what is pending is `Loadable`. A constructor that meets a damaged table
  leaves this half by counting in `tainted`; the ways around that, a count of zero
  and a head behind the end, keep it (`OpenDamagedStep`, `CatchStep`).
- `Survivors`: for each committed object whose id no call has named since, the file
  has a blob to which *every* table in the file leads (`Remains`, `Kept`), and, when
  there is an index, a record of the index or a pending one as well (`KeptBy`). All
  tables, because a destructor that dies between writing the head and the table
  may have its head lead to another one. If the head is zero, or does not lead to
  a table, nothing is promised.

The count of damaged tables goes back to 0 only when a constructor finds the file
empty; `FreshStep` shows that `Consistent` holds then, from `Basics` alone.

**The argument.** A change of the file `Follows` an earlier state for a set of
records, if it has hit no object in their blocks, except of ids that may be lost,
and has brought no table; an index is `Later` if moreover it still has those
records and agrees with the file. Both are transitive, which is how the pieces of
`writeBlob` are put together: the erasure loses the object of its id
(`ErasureLater`), the trim, the growth and the write hit no other block
(`CutBehind`, `TornFollows`, `HoleLater`, `AppendLater`). Wherever the program
dies in between, the file follows (`DieFollowing`); when it does not, index and
file are later (`LaterConsistent`). A step that leaves `Fewer` committed objects
behind, at least without those of the ids it may lose, keeps `Survivors`
(`KeptLater`, `KeptFollows`). The destructor commits what the records of the
index lead to, and leaves one table, which lists those records (`CloseStep`).

### MmapFile

`IInv` adds to the types that the cached size is true while the object lives and
that the last pointer, if any, leads into the window it was computed from
(`PointerInWindow`): its distance from `m_begin` is that of its offset from
`m_offset`, and its range is one that `isInWindow` still accepts. A hit keeps
this because that is what it has tested; a move, because `PageOf` and `WindowSize`
(`PageOfProperties`, `WindowSizeProperties`) give whole pages around the range,
for every page size; a failed call, because it leaves no pointer. `IsByteFile` maps `getPtr` to `Ask`, `trim` and `clear` to `Cut`, and a
failure to either of their outcomes. `WithoutFailuresDefined` has an invariant
of its own, `Mapped`.

### DiskFormat, Blob, ByteOrder and Simple

**Assumptions on the constants.** `PowerAssumption` says what `BYTE ^ i` is, of
which the provers know only that it is an integer. `XorAssumption` says that
applying a key twice gives back the byte. `BlobAssumption` says that multiplying
by 33 modulo `U32` loses nothing, which is so because 33 is odd and 2^32 a power
of two. TLC evaluates all of them for the instance of the runs.

**Folds.** `Number` (the value of some bytes) and `Hash` are folds over sequences
of any length. `FoldDefined` shows once that such a fold has a function that
gives its value before each element, by recursion on the length, and `Along`
that what holds of 0 and is handed on to the next number holds of all;
both use sets of numbers where the library's induction theorems would take
a predicate. From these, `NumberFold` and `HashFold` are the only facts that the rest
uses. `NumberOfDigits` and `DigitsOfNumber` make a number and its digits the same
thing, `NumberConcat` and `ReverseConcat` handle the two halves that `htonll`
swaps, and `H2NIsValue`, `WriteIsDigits` and `ReadIsNumber` conclude that an
integer is in the file as its digits whichever host wrote it (`WrittenIsRead`).
`HashDetects`: while two hashes go over the same bytes they are equal, at the one
that differs they part, and because a step is injective they never meet again.

**The invariant.** `IInv` has these parts besides the types.

- `Objects`: there is one object at most, its record is where it should be, with
  the hash of its id, and large enough for both (`Fits`), and its id has a length
  that one byte can hold. Without it nothing says that what is read as a size is
  the size that was written.
- `Undamaged`: if no byte has changed the object is in the file as `writeData`
  laid it out (`Stored`), whoever wrote it.
- `OneDamaged`: if one has, it is in the block, and with the right byte
  put back the object is stored. This is what lets the argument about a changed byte
  speak of the file that was.
- `WhenClosed`: the file is empty, or its head leads to a table which lists the
  record of the object (`Committed`). Only so does a constructor on another host
  find it.
- `WhenOpen`: the index has the record of the object and nothing else, and the
  file reaches to its end, so that `Resize` cuts nothing off.

**The argument.** `WriteStores` says that `writeData` leaves a stored object,
`StoredIsRead` that a stored object is read with the key it was written with,
under its id only; `CloseCommits` that the destructor's writes make a file `Committed`, `OpenFinds`
that the constructor, on any host, reads that record from such a file. There is one lemma
per action (`OpenStep` to `DamageStep`). `WritesStayInBlock` follows because an
object that does not fit is never written (the assertion of `writeData`), and one
that fits ends within its block (`WriteElsewhere`). `ReadsStayInAnyBlock` gives
`ReadsStayInBlock` for every byte there may be: the length of an id is less than
`BYTE`, hence than any block, and `getData` compares its length before it reads.
`DamageIsAlwaysDetected` goes over where the changed byte is: in the id or its
length, where `hasId` compares; in the hash, where `getData` does; or in the data,
where `HashDetects` does (`ChangedByteIsFound`).

### Only model-checked

`LoopsEnd`: liveness under fairness, which the prover's backends cannot do.
`BlocksStayApart`, and `CrashTypeOK` where a damaged table has been loaded: there the
model checker sees the damaged records of the instance, and only those. That
the runs of section 4 violate their properties is shown by TLC too.
Every other property of a passing run is a theorem.

## 6. Not modelled, and why

- Exceptions of `MmapFile` inside calls of `HeapFileT`. `MmapFile` has them. When
  one leaves `trim`, no later call can unmap (`CannotUnmap`) and the destructor
  asserts, so for the file it is as if the program had died there, which
  `CrashWriting` has. One that leaves `getPtr` inside `writeBlob` leaves a record
  over a block that was not written; the sources do not say what may be done
  with a `HeapFileT` after that.
- The loss of pages the kernel had not written when the machine stops. The
  destructor of `MmapFile` calls `msync`, but only for its last window
  (`mmap_file.cpp:118`), and nothing is promised for the others. The eight bytes
  of the head, one `memcpy`, are taken to be written at once.
- A damaged record that ends past the largest `uint64_t`, and the empty id, in
  `CrashingHeapFile`; `DiskFormat` has the empty id.
- Holes of 4 GiB and more, whose size `heap_index.cpp:64` truncates: the bounds of the
  runs lie below the width of a size.
- Bytes in the midst of an object that look like an object, in `CrashingHeapFile`:
  a stale record leads to the start of an object or to none.
- Several processes on one file: nothing in the code coordinates them.
- The overloads of `h2n` and `n2h` for 16 bits and `Simple` for integers other
  than bytes, which nothing in the library uses.
- The order in which `serialize` evaluates the operands of `+`: left to right.
- `off_t` is signed and `uint64_t` offsets are converted to it; files of 2^63
  bytes are beyond any bound here.
- Allocation failure of `new`, and the failure of `open` and `fstat`, which
  leave no object behind.
- `Uncopyable`, the tests and the Makefile: no state.

## 7. Plan

Done: `IndexOps`, `HeapIndex`, `Allocator`; `HeapFile`, `BlobStore`,
`CrashingHeapFile`; `MmapFile`, `ByteFile`; `ByteOrder`, `Simple`, `Blob`,
`DiskFormat`; every invariant and action property of the passing runs as a
theorem, and the three refinements. Left:

1. `BlocksStayApart` as a theorem, for any damaged table: an invariant of an index
   whose records are in order but do not tile.
2. The part of `LoopsEnd` that is safety: that each iteration of the constructor's
   loop and of that of `setMaxSize` decreases a natural number.
3. What `CrashingHeapFile` promises as an abstract specification: a store that a
   death may set back, and in which only ids that calls have named may change.
4. Bounds: `BlocksNeverOverlap` for files longer than 4 GiB, as long as no merge
   reaches that size.
