------------------------ MODULE CrashingHeapFileProofs ------------------------
(***************************************************************************)
(* The safety properties of CrashingHeapFile, for every set of ids,        *)
(* objects, limits and damaged records, and however often programs die.    *)
(* They say nothing of a program that has loaded a damaged table.          *)
(*                                                                         *)
(* After a crash an allocated record need not hold an object any more, so  *)
(* the invariant of HeapFile is too strong.  What is left of it is that    *)
(* index and file agree on where the blocks are; and of the objects, that  *)
(* those no call has named since the last commit are where both the table  *)
(* of that commit and the index say.                                       *)
(***************************************************************************)
EXTENDS CrashingHeapFile, HeapFileProofs

-----------------------------------------------------------------------------
(* The inductive invariant *)

\* Some record of R describes the block of the blob, which fits into it.
Held(b, R) == \E r \in R : Holds(b, r)

\* The objects in a file: each in its own place, and none with an id too long.
Legal(B) == Blobs(B) /\ \A b \in B : b.id \notin LongId

\* An index that has been loaded agrees with the file, or has no record.
CrashStructure ==
  /\ FileOK(file) /\ Legal(file.blobs)
  /\ file.size = 0 => file.head = 0
  /\ maxSize \in MaxSize \cup {NoLimit}
  /\ phase \in {"closed", "loading", "open", "shrinking", "undefined"}
  /\ pending \in Seq(Record)
  /\ phase \in {"closed", "open", "shrinking"} => pending = <<>>
  /\ phase = "closed" => index = EmptyIndex
  /\ phase = "loading" => Agree(index, file) /\ Loadable(file, index, pending)
  /\ phase # "loading" => Agree(index, file) \/ Husk(index)
  /\ phase = "shrinking" => index.m_alloc # {}

\* A blob with this object, where all tables in the file say.
Remains(f, id, data, b) ==
  /\ b \in f.blobs /\ b.id = id /\ b.data = data
  /\ \A t \in f.tables : Held(b, ToSet(t.records))

\* The committed objects that no call has named are still there.
Kept(f, c) ==
  \A id \in Id : \A data \in c[id] : \E b \in f.blobs : Remains(f, id, data, b)

\* And the records of R lead to them, too.
KeptBy(R, f, c) ==
  \A id \in Id : \A data \in c[id] :
    \E b \in f.blobs : Remains(f, id, data, b) /\ Held(b, R)

\* There are none.
Uncommitted(c) == \A id \in Id : c[id] = {}

\* Of the objects in c those of the ids lost, at least, are not in d.
Fewer(c, d, lost) ==
  \A id \in Id : d[id] \subseteq c[id] /\ (id \in lost => d[id] = {})

Survivors ==
  /\ committed \in [Id -> SUBSET Data]
  /\ file.head = 0 => Uncommitted(committed)
  /\ phase = "closed" => Kept(file, committed)
  /\ phase = "loading" =>
       KeptBy(AllocatedRecords(index) \cup ToSet(pending), file, committed)
  /\ phase \in {"open", "shrinking"} =>
       KeptBy(AllocatedRecords(index), file, committed)

Consistent == CrashStructure /\ Survivors

\* What is known of a program that has loaded a damaged table.
Basics ==
  /\ maxSize \in MaxSize \cup {NoLimit}
  /\ phase # "loading" => pending = <<>>
  /\ phase = "closed" => index = EmptyIndex
  /\ tainted \in 0 .. MaxTainted

\* Until a damaged table is loaded, and again from when the file is empty.
CrashIInv == Basics /\ (tainted = 0 => Consistent)

-----------------------------------------------------------------------------
(* What happens to a file, when some of its records are to be preserved *)

\* g is the file f after changes that have hit no object in a block of R, but
\* for those of the ids lost; and it has no table that f did not have.
Follows(R, f, g, lost) ==
  /\ FileOK(g) /\ Legal(g.blobs)
  /\ g.head = f.head /\ g.tables \subseteq f.tables
  /\ g.size = 0 => f.size = 0
  /\ \A b \in f.blobs, r \in R : Holds(b, r) /\ b.id \notin lost => b \in g.blobs

\* The range that x describes is not in a block of R.
Outside(R, x) ==
  /\ x.offset \in Nat /\ End(x) \in Nat
  /\ \A r \in R : /\ r.offset \in Nat /\ End(r) \in Nat
                  /\ End(r) <= x.offset \/ End(x) <= r.offset

LEMMA FollowsTransitive ==
  ASSUME NEW R, NEW f, NEW g, NEW h, NEW lost,
         Follows(R, f, g, lost), Follows(R, g, h, lost)
  PROVE  Follows(R, f, h, lost)
<1>1. h.tables \subseteq f.tables
  BY DEF Follows
<1>2. ASSUME NEW b \in f.blobs, NEW r \in R, Holds(b, r), b.id \notin lost
      PROVE  b \in h.blobs
  <2>1. b \in g.blobs
    BY <1>2 DEF Follows
  <2> QED
    BY <1>2, <2>1 DEF Follows
<1> QED
  BY <1>1, <1>2 DEF Follows

LEMMA LegalSubset ==
  ASSUME NEW B, Legal(B), NEW C \in SUBSET B
  PROVE  Legal(C)
  BY DEF Legal, Blobs

\* MmapFile::trim behind the records.
LEMMA TrimFollows ==
  ASSUME NEW f, FileOK(f), Legal(f.blobs), NEW n \in Nat, HEAD_SIZE <= n, NEW R,
         \A r \in R : End(r) \in Nat /\ End(r) <= n,
         NEW g, g = Trim(f, n)
  PROVE  Follows(R, f, g, {}) /\ FileOK(g) /\ g.size = n
<1>1. /\ FileOK(g) /\ g.size = n /\ g.head = f.head
      /\ g.blobs = {b \in f.blobs : End(b) <= n}
      /\ g.tables = {t \in f.tables : End(t) <= n}
  BY TrimFile
<1>2. Legal(g.blobs)
  BY <1>1, LegalSubset
<1>3. ASSUME NEW b \in f.blobs, NEW r \in R, Holds(b, r) PROVE b \in g.blobs
  <2>1. End(b) \in Nat /\ End(b) <= End(r)
    BY <1>3, FileTypes, BlobTypes DEF Holds
  <2> QED
    BY <1>1, <2>1
<1>4. g.size # 0
  BY <1>1, TornTypes
<1> QED
  BY <1>1, <1>2, <1>3, <1>4 DEF Follows

\* getWritePtr.
LEMMA GrowFollows ==
  ASSUME NEW f, FileOK(f), Legal(f.blobs), NEW n \in Nat, NEW R,
         NEW g, g = Grow(f, n)
  PROVE  Follows(R, f, g, {}) /\ n <= g.size
<1>1. /\ FileOK(g) /\ g.size \in Nat /\ n <= g.size /\ f.size <= g.size
      /\ g.head = f.head /\ g.blobs = f.blobs /\ g.tables = f.tables
  BY GrowFile
<1>2. g.size = 0 => f.size = 0
  BY <1>1, FileTypes
<1> QED
  BY <1>1, <1>2 DEF Follows

\* What is overwritten apart from the records is no object of theirs.
LEMMA OutsideSurvives ==
  ASSUME NEW R, NEW x, Outside(R, x), NEW b \in Blob, NEW r \in R, Holds(b, r)
  PROVE  ~Overlap(b, x)
<1>1. /\ b.offset \in Nat /\ End(b) \in Nat /\ b.offset = r.offset /\ End(b) <= End(r)
  BY BlobTypes DEF Holds
<1>2. /\ x.offset \in Nat /\ End(x) \in Nat /\ End(r) \in Nat
      /\ End(r) <= x.offset \/ End(x) <= r.offset
  BY DEF Outside
<1> QED
  BY <1>1, <1>2 DEF Overlap

\* Writing a range outside the records.
LEMMA OverwriteFollows ==
  ASSUME NEW f, FileOK(f), Legal(f.blobs), NEW R, NEW x, Outside(R, x),
         HEAD_SIZE <= x.offset, NEW g, g = Overwrite(f, x)
  PROVE  Follows(R, f, g, {}) /\ FileOK(g) /\ g.size = f.size
<1>1. /\ FileOK(g) /\ g.size = f.size /\ g.head = f.head
      /\ g.blobs = {b \in f.blobs : ~Overlap(b, x)}
      /\ g.tables = {t \in f.tables : ~Overlap(t, x)}
  BY OverwriteFile DEF Outside
<1>2. ASSUME NEW b \in f.blobs, NEW r \in R, Holds(b, r) PROVE b \in g.blobs
  BY <1>1, <1>2, OutsideSurvives DEF Legal, Blobs
<1>3. Legal(g.blobs)
  BY <1>1, LegalSubset
<1> QED
  BY <1>1, <1>2, <1>3 DEF Follows

\* Writing an object there.
LEMMA PlaceFollows ==
  ASSUME NEW f, FileOK(f), Legal(f.blobs), NEW R,
         NEW x \in Blob, x.size > 0, ID_SIZE <= x.size, HEAD_SIZE <= x.offset,
         x.id \notin LongId, Outside(R, x), NEW g, g = Placed(f, x)
  PROVE  Follows(R, f, g, {}) /\ FileOK(g) /\ g.size = f.size
<1>1. /\ FileOK(g) /\ g.size = f.size /\ g.head = f.head
      /\ g.blobs = Replaced(f.blobs, x) /\ g.tables \subseteq f.tables
  BY PlaceBlob
<1>2. \A b : b \in g.blobs <=> (b \in f.blobs /\ ~Overlap(b, x)) \/ b = x
  BY <1>1 DEF Replaced
<1>3. Legal(g.blobs)
  BY <1>1, <1>2 DEF Legal, FileOK
<1>4. ASSUME NEW b \in f.blobs, NEW r \in R, Holds(b, r) PROVE b \in g.blobs
  BY <1>2, <1>4, OutsideSurvives DEF Legal, Blobs
<1> QED
  BY <1>1, <1>3, <1>4 DEF Follows

\* f is a file, and g is f with the first bytes of an object more in it.
LEMMA IdPartFollows ==
  ASSUME NEW f, FileOK(f), Legal(f.blobs), NEW R, NEW x \in Blob,
         HEAD_SIZE <= x.offset, \A b \in f.blobs : b.offset # x.offset,
         NEW g, g = [f EXCEPT !.torn = @ \cup {IdPart(x)}]
  PROVE  Follows(R, f, g, {})
<1>1. PICK U : U = f.torn \cup {IdPart(x)}
  OBVIOUS
<1>2. Consists(g, f.size, f.head, f.blobs, U, f.tables)
  BY <1>1 DEF FileOK, IsFile, Consists
<1>3. /\ g.size = f.size /\ g.head = f.head /\ g.blobs = f.blobs
      /\ g.torn = U /\ g.tables = f.tables
  BY <1>2 DEF Consists
<1>4. U \subseteq TornBlob
  BY <1>1, FileTypes, TornTypes
<1>5. IsFile(g)
  BY <1>2, <1>4, FileTypes DEF IsFile, Consists
<1>6. IdPart(x).offset = x.offset
  BY TornTypes
<1>7. Apart(f.blobs, U)
  BY <1>1, <1>6 DEF FileOK, Apart
<1>8. FileOK(g)
  BY <1>3, <1>5, <1>7 DEF FileOK
<1> QED
  BY <1>3, <1>8 DEF Follows

\* An object is being written outside the records when the program dies.
LEMMA TornFollows ==
  ASSUME NEW f, FileOK(f), Legal(f.blobs), NEW R, NEW x \in Blob, Outside(R, x),
         HEAD_SIZE <= x.offset, NEW n \in 1 .. x.size, NEW g, g = Torn(f, x, n)
  PROVE  Follows(R, f, g, {})
<1>1. PICK y, h : y = [offset |-> x.offset, size |-> n] /\ h = Overwrite(f, y)
  OBVIOUS
<1>2. /\ x.offset \in Nat /\ x.size \in Nat /\ n \in Nat /\ n > 0
      /\ y.offset = x.offset /\ End(y) = x.offset + n
      /\ End(y) \in Nat /\ End(y) <= End(x)
  BY <1>1, BlobTypes DEF End
<1>3. Outside(R, y)
  BY <1>2 DEF Outside
<1>4. Follows(R, f, h, {}) /\ FileOK(h) /\ Legal(h.blobs)
  BY <1>1, <1>2, <1>3, OverwriteFollows DEF Follows
<1>5. ASSUME NEW b \in h.blobs PROVE b.offset # x.offset
  <2>1. ~Overlap(b, y)
    BY <1>1, <1>2, OverwriteFile
  <2>2. b.offset \in Nat /\ b.size \in Nat /\ b.size > 0
    BY <1>4, BlobTypes DEF Legal, Blobs
  <2> QED
    BY <1>2, <2>1, <2>2 DEF Overlap, End
<1>6. CASE n < ID_SIZE
  BY <1>1, <1>4, <1>6 DEF Torn
<1>7. CASE ~(n < ID_SIZE)
  <2>1. g = [h EXCEPT !.torn = @ \cup {IdPart(x)}]
    BY <1>1, <1>7 DEF Torn
  <2>2. Follows(R, h, g, {})
    BY <1>4, <1>5, <2>1, IdPartFollows
  <2> QED
    BY <1>4, <2>2, FollowsTransitive
<1> QED
  BY <1>6, <1>7

-----------------------------------------------------------------------------
(* What happens to an index and its file *)

\* iy and g agree, g follows f, and a record of R that leads to an object is
\* still allocated, if the id of the object is not one of those lost.
Later(R, f, iy, g, lost) ==
  /\ Follows(R, f, g, lost)
  /\ Agree(iy, g)
  /\ \A b \in f.blobs, r \in R :
       Holds(b, r) /\ b.id \notin lost => r \in AllocatedRecords(iy)

LEMMA LaterReflexive ==
  ASSUME NEW ix, NEW f, Agree(ix, f), Legal(f.blobs), NEW lost
  PROVE  Later(AllocatedRecords(ix), f, ix, f, lost)
  BY DEF Later, Follows, Agree

LEMMA LaterTransitive ==
  ASSUME NEW R, NEW f, NEW iy, NEW g, NEW iz, NEW h, NEW lost,
         Later(R, f, iy, g, lost), Later(AllocatedRecords(iy), g, iz, h, lost)
  PROVE  Later(R, f, iz, h, lost)
<1>1. Follows(R, f, g, lost) /\ Follows(AllocatedRecords(iy), g, h, lost) /\ Agree(iz, h)
  BY DEF Later
<1>2. ASSUME NEW b \in f.blobs, NEW r \in R, Holds(b, r), b.id \notin lost
      PROVE  b \in h.blobs /\ r \in AllocatedRecords(iz)
  <2>1. b \in g.blobs /\ r \in AllocatedRecords(iy)
    BY <1>2 DEF Later, Follows
  <2> QED
    BY <1>2, <2>1 DEF Later, Follows
<1>3. Follows(R, f, h, lost)
  BY <1>1, <1>2 DEF Follows
<1> QED
  BY <1>1, <1>2, <1>3 DEF Later

\* First the file alone changes.
LEMMA LaterAfter ==
  ASSUME NEW R, NEW f, NEW g, NEW iy, NEW h, NEW lost,
         Follows(R, f, g, lost), Later(R, g, iy, h, lost)
  PROVE  Later(R, f, iy, h, lost)
<1>1. Follows(R, f, h, lost)
  BY FollowsTransitive DEF Later
<1>2. ASSUME NEW b \in f.blobs, NEW r \in R, Holds(b, r), b.id \notin lost
      PROVE  r \in AllocatedRecords(iy)
  <2>1. b \in g.blobs
    BY <1>2 DEF Follows
  <2> QED
    BY <1>2, <2>1 DEF Later
<1> QED
  BY <1>1, <1>2 DEF Later

\* More may be lost than is.
LEMMA LaterLosing ==
  ASSUME NEW R, NEW f, NEW iy, NEW g, Later(R, f, iy, g, {}), NEW lost
  PROVE  Later(R, f, iy, g, lost)
  BY DEF Later, Follows

\* release loses the object of the block it releases.
LEMMA ReleaseLater ==
  ASSUME FileLimit < U32, NEW ix, NEW f, Agree(ix, f), Legal(f.blobs),
         NEW p, Allocd(ix, p), NEW s, s = Release(ix, f, p),
         NEW R \in SUBSET AllocatedRecords(ix), NEW lost,
         \A b \in f.blobs, r \in R : Holds(b, r) /\ r = ix.heap[p] => b.id \in lost
  PROVE  Later(R, f, s.index, s.file, lost)
<1>1. /\ Agree(s.index, s.file)
      /\ AllocatedRecords(s.index) = AllocatedRecords(ix) \ {ix.heap[p]}
      /\ s.file.blobs \subseteq f.blobs
      /\ \A b \in f.blobs, r \in AllocatedRecords(s.index) :
           End(b) <= End(r) => b \in s.file.blobs
      /\ s.file.head = f.head /\ s.file.tables \subseteq f.tables
      /\ s.file.size = 0 => f.size = 0
  BY ReleaseAgrees
<1>2. FileOK(s.file) /\ Legal(s.file.blobs)
  BY <1>1, LegalSubset DEF Agree
<1>3. ASSUME NEW b \in f.blobs, NEW r \in R, Holds(b, r), b.id \notin lost
      PROVE  r \in AllocatedRecords(s.index) /\ b \in s.file.blobs
  <2>1. r \in AllocatedRecords(s.index)
    BY <1>1, <1>3
  <2> QED
    BY <1>1, <1>3, <2>1 DEF Holds
<1> QED
  BY <1>1, <1>2, <1>3 DEF Later, Follows

\* One allocated block is apart from the others, and so is what is in it.
LEMMA BlockOutside ==
  ASSUME NEW ix, NEW L, Sound(ix, L), NEW r \in AllocatedRecords(ix),
         NEW R, R = AllocatedRecords(ix) \ {r}
  PROVE  /\ Outside(R, r)
         /\ \A x \in Blob : x.offset = r.offset /\ x.size <= r.size => Outside(R, x)
<1>1. /\ r.offset \in Nat /\ r.size \in Nat /\ End(r) \in Nat
      /\ \A s \in R : /\ s.offset \in Nat /\ End(s) \in Nat
                      /\ End(r) <= s.offset \/ End(s) <= r.offset
  BY AllocatedRecordTypes
<1>2. Outside(R, r)
  BY <1>1 DEF Outside
<1>3. ASSUME NEW x \in Blob, x.offset = r.offset, x.size <= r.size
      PROVE  Outside(R, x)
  <2>1. x.offset \in Nat /\ x.size \in Nat /\ End(x) \in Nat /\ End(x) <= End(r)
    BY <1>1, <1>3, BlobTypes DEF End
  <2> QED
    BY <1>1, <1>3, <2>1 DEF Outside
<1> QED
  BY <1>2, <1>3

\* Every allocated block lies behind the head.
LEMMA BehindHead ==
  ASSUME NEW ix, NEW f, Agree(ix, f), NEW r \in AllocatedRecords(ix)
  PROVE  HEAD_SIZE <= r.offset
<1>1. Sound(ix, FileLimit) /\ Covers(f, ix)
  BY DEF Agree
<1>2. ix.m_list # <<>> /\ r.offset \in Nat /\ Base(ix) <= r.offset
  BY <1>1, AllocatedRecordTypes
<1>3. Base(ix) \in Nat /\ HEAD_SIZE \in Nat
  BY <1>1, <1>2, LastRecordTypes, TornTypes
<1> QED
  BY <1>1, <1>2, <1>3 DEF Covers

\* The end of writeBlob loses no object of another block.
LEMMA WriteDataLater ==
  ASSUME FileLimit < U32, NEW ix, NEW f, Agree(ix, f), Legal(f.blobs),
         NEW p, Allocd(ix, p), NEW id \in Id, NEW data \in Data,
         BlobSize[data] <= ix.heap[p].size,
         NEW R, R = AllocatedRecords(ix) \ {ix.heap[p]},
         NEW s, s = WriteData(ix, f, p, id, data)
  PROVE  Later(R, f, s.index, s.file, {})
<1> DEFINE r == ix.heap[p]
           x == [offset |-> r.offset, size |-> BlobSize[data], id |-> id, data |-> data]
           g == Grow(f, End(r))
           h == Placed(g, x)
<1>1. /\ Sound(ix, FileLimit) /\ FileOK(f) /\ Covers(f, ix) /\ Shape(ix, FileLimit)
      /\ p \in DOMAIN ix.heap
  BY DEF Agree, Allocd, Sound
<1>2. /\ r.offset \in Nat /\ r.size \in Nat /\ End(r) \in Nat
      /\ r \in AllocatedRecords(ix) /\ HEAD_SIZE <= r.offset
  <2>1. /\ r.offset \in Nat /\ r.size \in Nat /\ End(r) \in Nat
        /\ r \in AllocatedRecords(ix)
    BY <1>1, RecordTypes, AllocatedRecordsByAddress
  <2> QED
    BY <1>1, <2>1, BehindHead DEF Agree
<1>3. /\ FileOK(g) /\ g.size \in Nat /\ f.size <= g.size
      /\ Follows(R, f, g, {}) /\ Legal(g.blobs)
  <2>1. FileOK(g) /\ g.size \in Nat /\ f.size <= g.size
    BY <1>1, <1>2, GrowFile
  <2>2. Follows(R, f, g, {})
    BY <1>1, <1>2, GrowFollows
  <2> QED
    BY <2>1, <2>2 DEF Follows
<1> HIDE DEF g
<1>4. Agree(ix, g)
  <2>1. ASSUME ix.m_list # <<>>
        PROVE  HEAD_SIZE <= Base(ix) /\ End(LastRecord(ix)) <= g.size
    <3>1. HEAD_SIZE <= Base(ix) /\ End(LastRecord(ix)) <= f.size
      BY <1>1, <2>1 DEF Covers
    <3> QED
      BY <1>1, <1>3, <2>1, <3>1, FileTypes, LastRecordTypes
  <2> QED
    BY <1>1, <1>3, <2>1 DEF Agree, Covers
<1>5. CASE id \in LongId
  <2>1. s = Release(ix, g, p)
    BY <1>5 DEF WriteData, g
  <2>2. R \in SUBSET AllocatedRecords(ix) /\ ix.heap[p] \notin R
    OBVIOUS
  <2>3. Later(R, g, s.index, s.file, {})
    BY <1>3, <1>4, <2>1, <2>2, ReleaseLater
  <2> QED
    BY <1>3, <2>3, LaterAfter
<1>6. CASE id \notin LongId
  <2>1. s.index = ix /\ s.file = h
    BY <1>6 DEF WriteData, State, Placed, g
  <2>2. /\ x \in Blob /\ x.offset = r.offset /\ x.size = BlobSize[data] /\ x.size > 0
        /\ x.id = id /\ ID_SIZE <= x.size /\ HEAD_SIZE <= x.offset
    BY <1>2, Parameters DEF Blob
  <2> HIDE DEF x
  <2>3. Outside(R, x)
    BY <1>1, <1>2, <2>2, BlockOutside
  <2>4. Follows(R, g, h, {}) /\ h.size = g.size
    BY <1>3, <1>6, <2>2, <2>3, PlaceFollows
  <2>5. h.size = g.size
    BY <2>4
  <2> HIDE DEF h
  <2>6. Agree(ix, h)
    BY <1>4, <2>4, <2>5 DEF Agree, Covers, Follows
  <2>7. Follows(R, f, h, {})
    BY <1>3, <2>4, FollowsTransitive
  <2> QED
    BY <2>1, <2>6, <2>7 DEF Later
<1> QED
  BY <1>5, <1>6

-----------------------------------------------------------------------------
(* eraseBlob and writeBlob, up to wherever the program may die *)

\* eraseBlobEncryptedId loses the object of its id, if that can have one.
LEMMA ErasureLater ==
  ASSUME FileLimit < U32, Agree(index, file), Legal(file.blobs),
         NEW id \in Id, NEW s \in Erasures(id)
  PROVE  Later(AllocatedRecords(index), file, s.index, s.file, {id} \ LongId)
<1>1. ASSUME NEW p \in FindBlob(index, file, id) PROVE Allocd(index, p)
  <2>1. <<Hash[id], p>> \in index.m_alloc /\ <<Hash[id], p>>[2] = p
    BY DEF FindBlob
  <2> QED
    BY <2>1, AllocatedByAddress DEF Agree
<1>2. CASE s = State(index, file)
  BY <1>2, LaterReflexive DEF State
<1>3. ASSUME NEW p \in FindBlob(index, file, id), s = Release(index, file, p)
      PROVE  Later(AllocatedRecords(index), file, s.index, s.file, {id} \ LongId)
  <2>1. PICK c \in file.blobs \cup file.torn :
          c.offset = index.heap[p].offset /\ c.id = id
    BY DEF FindBlob, HasId
  <2>2. ASSUME NEW b \in file.blobs, NEW r, Holds(b, r), r = index.heap[p]
        PROVE  b.id \in {id} \ LongId
    <3>1. c \notin file.torn
      BY <2>1, <2>2 DEF Agree, FileOK, Apart, Holds
    <3>2. b = c
      BY <2>1, <2>2, <3>1, SameOffset DEF Holds, Legal
    <3> QED
      BY <2>1, <3>2 DEF Legal
  <2> QED
    BY <1>1, <1>3, <2>2, ReleaseLater
<1> QED
  BY <1>1, <1>2, <1>3, ErasuresAre

\* allocate hands out a block that is apart from all others.
LEMMA HoleGranted ==
  ASSUME FileLimit < U32, NEW ix, NEW f, Agree(ix, f), CanNew(ix),
         NEW id \in Id, NEW data \in Data,
         NEW size, size = AtLeastMinSize(BlobSize[data]),
         NEW e \in LowerBound(ix, size), NEW p, p = New(ix),
         NEW iy, iy = Allocate(ix, e, size, Hash[id], p),
         NEW a, a = Allocated(ix, e, size, p)
  PROVE  /\ Agree(iy, f) /\ Allocd(iy, a) /\ BlobSize[data] <= iy.heap[a].size
         /\ AllocatedRecords(iy) \ {iy.heap[a]} = AllocatedRecords(ix)
         /\ iy.heap[a] \in AllocatedRecords(iy)
<1> DEFINE r == iy.heap[a]
           R == AllocatedRecords(ix)
<1>1. Sound(ix, FileLimit) /\ FileOK(f) /\ Covers(f, ix)
  BY DEF Agree
<1>2. /\ FileLimit \in Nat /\ Hash[id] \in Key
      /\ size \in Nat /\ size > 0 /\ BlobSize[data] \in Nat /\ BlobSize[data] <= size
  BY Parameters
<1>3. p \in Fresh(ix)
  BY NewAddresses
<1>4. Sound(iy, FileLimit)
  BY <1>1, <1>2, <1>3, AllocateSound
<1>5. Allotted(ix, iy, a, size, Hash[id])
  BY <1>1, <1>2, <1>3, AllocateEffect
<1>6. /\ Granted(ix, iy, a) /\ Allocd(iy, a) /\ size <= r.size
      /\ ix.m_list # <<>> /\ iy.m_list # <<>>
      /\ LastRecord(iy) = LastRecord(ix) /\ Base(iy) = Base(ix)
  BY <1>5 DEF Allotted, Granted
<1>7. a \in DOMAIN iy.heap /\ r \notin R /\ AllocatedRecords(iy) = R \cup {r}
  BY <1>1, <1>4, <1>6, GrantedRecords
<1>8. Agree(iy, f)
  BY <1>1, <1>4, <1>6 DEF Agree, Covers
<1>9. BlobSize[data] <= r.size
  <2>1. r.size \in Nat
    BY <1>4, <1>7, RecordTypes DEF Sound
  <2> QED
    BY <1>2, <1>6, <2>1
<1> QED
  BY <1>6, <1>7, <1>8, <1>9

\* writeBlob into such a block.
LEMMA HoleLater ==
  ASSUME FileLimit < U32, NEW ix, NEW f, Agree(ix, f), Legal(f.blobs), CanNew(ix),
         NEW id \in Id, NEW data \in Data,
         NEW size, size = AtLeastMinSize(BlobSize[data]),
         NEW e \in LowerBound(ix, size), NEW p, p = New(ix),
         NEW s, s = WriteData(Allocate(ix, e, size, Hash[id], p), f,
                              Allocated(ix, e, size, p), id, data)
  PROVE  Later(AllocatedRecords(ix), f, s.index, s.file, {})
<1>1. PICK iy, a : /\ iy = Allocate(ix, e, size, Hash[id], p)
                   /\ a = Allocated(ix, e, size, p)
  OBVIOUS
<1>2. /\ Agree(iy, f) /\ Allocd(iy, a) /\ BlobSize[data] <= iy.heap[a].size
      /\ AllocatedRecords(ix) = AllocatedRecords(iy) \ {iy.heap[a]}
  BY <1>1, HoleGranted
<1>3. s = WriteData(iy, f, a, id, data)
  BY <1>1
<1> QED
  BY <1>2, <1>3, WriteDataLater

\* What is within a range outside the records is so, too.
LEMMA WithinOutside ==
  ASSUME NEW R, NEW r, Outside(R, r), r.size \in Nat,
         NEW x \in Blob, x.offset = r.offset, x.size <= r.size
  PROVE  Outside(R, x)
<1>1. x.size \in Nat /\ r.offset \in Nat /\ End(x) \in Nat /\ End(x) <= End(r)
  BY BlobTypes DEF Outside, End
<1> QED
  BY <1>1 DEF Outside

\* The program dies when it has got the block r and the file is f.
LEMMA DieInBlockFollows ==
  ASSUME NEW f, FileOK(f), Legal(f.blobs), NEW R, NEW r, Outside(R, r),
         r.size \in Nat, HEAD_SIZE <= r.offset,
         NEW id \in Id, NEW data \in Data, BlobSize[data] <= r.size,
         DieInBlock(f, r, id, data)
  PROVE  \E g : Die(g) /\ Follows(R, f, g, {})
<1>1. PICK g, x :
        /\ g = Grow(f, End(r))
        /\ x = [offset |-> r.offset, size |-> BlobSize[data], id |-> id, data |-> data]
  OBVIOUS
<1>2. Follows(R, f, g, {}) /\ FileOK(g) /\ Legal(g.blobs)
  <2>1. End(r) \in Nat
    BY DEF Outside
  <2> QED
    BY <1>1, <2>1, GrowFollows DEF Follows
<1>3. \/ Die(g)
      \/ id \notin LongId /\ \E n \in 1 .. BlobSize[data] : Die(Torn(g, x, n))
  BY <1>1 DEF DieInBlock
<1>4. ASSUME NEW n \in 1 .. BlobSize[data], Die(Torn(g, x, n))
      PROVE  Follows(R, f, Torn(g, x, n), {})
  <2>1. x \in Blob /\ x.offset = r.offset /\ x.size = BlobSize[data]
    BY <1>1, Parameters DEF Blob, Outside
  <2>2. Outside(R, x)
    BY <2>1, WithinOutside
  <2>3. Follows(R, g, Torn(g, x, n), {})
    BY <1>2, <2>1, <2>2, TornFollows
  <2> QED
    BY <1>2, <2>3, FollowsTransitive
<1> QED
  BY <1>2, <1>3, <1>4

\* writeBlob adds a block at the end, and cuts the file behind it.
LEMMA CutBehind ==
  ASSUME NEW ix, NEW f, Agree(ix, f), Legal(f.blobs),
         NEW iy, NEW p, NEW r, Extended(ix, iy, p, r),
         NEW n, n = ProposedSize(iy), NEW g, g = Trim(f, n)
  PROVE  /\ Follows(AllocatedRecords(ix), f, g, {}) /\ Agree(iy, g)
         /\ AllocatedRecords(iy) \ {iy.heap[p]} = AllocatedRecords(ix)
         /\ Outside(AllocatedRecords(ix), r)
         /\ r.size \in Nat /\ HEAD_SIZE <= r.offset
<1> DEFINE R == AllocatedRecords(ix)
<1>1. /\ Sound(iy, FileLimit) /\ iy.heap[p] = r
      /\ iy.m_list # <<>> /\ LastRecord(iy) = r /\ HEAD_SIZE <= Base(iy)
      /\ r \notin R /\ AllocatedRecords(iy) = R \cup {r} /\ FileOK(f)
  BY DEF Extended, Agree
<1>2. End(r) \in Nat /\ IndexSize(iy) \in Nat /\ IndexSize(iy) > 0
  BY <1>1, LastRecordTypes, IndexSizeType
<1>3. r.size \in Nat /\ HEAD_SIZE <= r.offset /\ r.offset \in Nat /\ r.offset < End(r)
  BY <1>1, LastRecordTypes, TornTypes
<1>4. n \in Nat /\ End(LastRecord(iy)) <= n /\ HEAD_SIZE <= n
  BY <1>1, <1>2, <1>3, TornTypes DEF ProposedSize
<1>5. \A q \in R : End(q) \in Nat /\ End(q) <= n
  <2> SUFFICES ASSUME NEW q \in R PROVE End(q) \in Nat /\ End(q) <= n
    OBVIOUS
  <2>1. End(q) \in Nat /\ End(q) <= End(LastRecord(iy))
    BY <1>1, AllocatedRecordTypes
  <2> QED
    BY <1>1, <1>2, <1>4, <2>1
<1>6. Follows(R, f, g, {})
  BY <1>1, <1>4, <1>5, TrimFollows
<1>7. FileOK(g) /\ g.size = n
  BY <1>1, <1>4, <1>5, TrimFollows
<1>8. Agree(iy, g)
  BY <1>1, <1>4, <1>7 DEF Agree, Covers
<1>9. AllocatedRecords(iy) \ {iy.heap[p]} = R
  BY <1>1
<1>10. Outside(R, r)
  <2>1. r \in AllocatedRecords(iy) /\ R = AllocatedRecords(iy) \ {r}
    BY <1>1
  <2> QED
    BY <1>1, <2>1, BlockOutside
<1> QED
  BY <1>6, <1>8, <1>9, <1>10, <1>3

\* writeBlob at the end of the file.
LEMMA AppendLater ==
  ASSUME FileLimit < U32, NEW ix, NEW f, Agree(ix, f), Legal(f.blobs), CanNew(ix),
         NEW id \in Id, NEW data \in Data,
         NEW r, r = Appended(ix, id, data), End(r) <= FileLimit,
         NEW p, p = New(ix), NEW iy, iy = AddAllocatedBlock(ix, p, p, r),
         NEW s, s = WriteData(iy, Trim(f, ProposedSize(iy)), p, id, data)
  PROVE  Later(AllocatedRecords(ix), f, s.index, s.file, {})
<1>1. /\ RecordOK(r) /\ BlobSize[data] <= r.size
      /\ ix.m_list # <<>> => r.offset = End(LastRecord(ix))
  BY AppendedProperties
<1>2. Extended(ix, iy, p, r)
  BY <1>1, AppendExtends
<1>3. PICK n, g : n = ProposedSize(iy) /\ g = Trim(f, n)
  OBVIOUS
<1>4. /\ Follows(AllocatedRecords(ix), f, g, {}) /\ Agree(iy, g)
      /\ AllocatedRecords(ix) = AllocatedRecords(iy) \ {iy.heap[p]}
  BY <1>2, <1>3, CutBehind
<1>5. Allocd(iy, p) /\ BlobSize[data] <= iy.heap[p].size /\ Legal(g.blobs)
  BY <1>1, <1>2, <1>4 DEF Extended, Follows
<1>6. s = WriteData(iy, g, p, id, data)
  BY <1>3
<1>7. Later(AllocatedRecords(ix), g, s.index, s.file, {})
  BY <1>4, <1>5, <1>6, WriteDataLater
<1> QED
  BY <1>4, <1>7, LaterAfter

\* writeBlob takes its record out of the index again.
LEMMA RefusedLater ==
  ASSUME FileLimit < U32, NEW ix, NEW f, Agree(ix, f), Legal(f.blobs), CanNew(ix),
         NEW id \in Id, NEW data \in Data,
         NEW r, r = Appended(ix, id, data), End(r) <= FileLimit,
         NEW p, p = New(ix), NEW iy, iy = AddAllocatedBlock(ix, p, p, r),
         NEW iz, iz = Deallocate(iy, p)
  PROVE  Later(AllocatedRecords(ix), f, iz, f, {})
<1>1. FileLimit \in Nat
  BY Parameters
<1>2. /\ RecordOK(r)
      /\ ix.m_list # <<>> => r.offset = End(LastRecord(ix))
  BY AppendedProperties
<1>3. Extended(ix, iy, p, r)
  BY <1>2, AppendExtends
<1>4. /\ Sound(iy, FileLimit) /\ Allocd(iy, p) /\ iy.heap[p] = r
      /\ HEAD_SIZE <= Base(iy)
      /\ r \notin AllocatedRecords(ix)
      /\ AllocatedRecords(iy) = AllocatedRecords(ix) \cup {r}
  BY <1>3 DEF Extended
<1>5. Sound(iz, FileLimit) /\ Deallocated(iy, iz, p)
  BY <1>1, <1>4, DeallocateSound, DeallocateEffect DEF Allocd
<1>6. AllocatedRecords(iz) = AllocatedRecords(ix)
  BY <1>4, <1>5, DeallocatedRecords
<1>7. iz.m_list # <<>> => HEAD_SIZE <= Base(iz)
  BY <1>4, <1>5 DEF Deallocated
<1>8. Agree(iz, f)
  BY <1>5, <1>6, <1>7, FewerAgree
<1>9. Later(AllocatedRecords(iz), f, iz, f, {})
  BY <1>8, LaterReflexive
<1> QED
  BY <1>6, <1>9

-----------------------------------------------------------------------------
(* Preserving the invariant *)

\* Objects that the records lead to stay where they are.
LEMMA KeptLater ==
  ASSUME NEW R, NEW f, NEW iy, NEW g, NEW lost, Later(R, f, iy, g, lost),
         NEW c, KeptBy(R, f, c), NEW d, Fewer(c, d, lost)
  PROVE  KeptBy(AllocatedRecords(iy), g, d)
<1> SUFFICES ASSUME NEW id \in Id, NEW data \in d[id]
             PROVE  \E b \in g.blobs : /\ Remains(g, id, data, b)
                                       /\ Held(b, AllocatedRecords(iy))
  BY DEF KeptBy
<1>0. data \in c[id] /\ id \notin lost
  BY DEF Fewer
<1>1. PICK b \in f.blobs : Remains(f, id, data, b) /\ Held(b, R)
  BY <1>0 DEF KeptBy
<1>2. PICK r \in R : Holds(b, r)
  BY <1>1 DEF Held
<1>3. b.id = id /\ id \notin lost /\ g.tables \subseteq f.tables
  BY <1>0, <1>1 DEF Remains, Later, Follows
<1>4. b \in g.blobs /\ r \in AllocatedRecords(iy)
  BY <1>2, <1>3 DEF Later, Follows
<1>5. Remains(g, id, data, b)
  BY <1>1, <1>3, <1>4 DEF Remains
<1> QED
  BY <1>2, <1>4, <1>5 DEF Held

LEMMA KeptFollows ==
  ASSUME NEW R, NEW f, NEW g, NEW lost, Follows(R, f, g, lost),
         NEW c, KeptBy(R, f, c), NEW d, Fewer(c, d, lost)
  PROVE  Kept(g, d)
<1> SUFFICES ASSUME NEW id \in Id, NEW data \in d[id]
             PROVE  \E b \in g.blobs : Remains(g, id, data, b)
  BY DEF Kept
<1>0. data \in c[id] /\ id \notin lost
  BY DEF Fewer
<1>1. PICK b \in f.blobs : Remains(f, id, data, b) /\ Held(b, R)
  BY <1>0 DEF KeptBy
<1>2. b \in g.blobs /\ g.tables \subseteq f.tables
  BY <1>0, <1>1 DEF Held, Remains, Follows
<1> QED
  BY <1>1, <1>2 DEF Remains

\* Objects that records lead to are there; and where none are committed, none
\* need be.
LEMMA KeptMore ==
  ASSUME NEW c, NEW R, NEW f
  PROVE  /\ KeptBy(R, f, c) => Kept(f, c)
         /\ Uncommitted(c) => KeptBy(R, f, c) /\ Kept(f, c)
         /\ \A d, lost : Uncommitted(c) /\ Fewer(c, d, lost) => Uncommitted(d)
<1>1. KeptBy(R, f, c) => Kept(f, c)
  BY DEF KeptBy, Kept
<1>2. Uncommitted(c) => KeptBy(R, f, c) /\ Kept(f, c)
  BY DEF KeptBy, Kept, Uncommitted
<1>3. ASSUME NEW d, NEW lost, Uncommitted(c), Fewer(c, d, lost) PROVE Uncommitted(d)
  BY <1>3 DEF Uncommitted, Fewer
<1> QED
  BY <1>1, <1>2, <1>3

\* The history after it has been forgotten.
LEMMA NothingCommitted == Nobody \in [Id -> SUBSET Data] /\ Uncommitted(Nobody)
  BY DEF Nobody, Uncommitted

\* After loading, the index agrees with the file or has no record at all.
LEMMA CrashIndexIs ==
  ASSUME Consistent, phase # "loading"
  PROVE  /\ index.m_alloc # {} => Agree(index, file)
         /\ ~Dangling(index) => Agree(index, file)
         /\ ~Agree(index, file) => Husk(index)
         /\ Agree(index, file) => ~Dangling(index)
<1>1. (Agree(index, file) \/ Husk(index)) /\ FileOK(file)
  BY DEF Consistent, CrashStructure
<1>2. ASSUME Husk(index), ~Dangling(index) PROVE Agree(index, file)
  <2>1. Sound(index, FileLimit) /\ index.m_alloc = {}
    BY <1>2, EmptyHuskSound DEF Husk
  <2>2. index.m_list = <<>>
    BY <2>1, EmptyExactly
  <2> QED
    BY <1>1, <2>1, <2>2 DEF Agree, Covers
<1> QED
  BY <1>1, <1>2, SoundNotDangling DEF Husk, Agree

\* The invariant after a call that leaves a usable index.
LEMMA LaterConsistent ==
  ASSUME Consistent, phase \in {"open", "shrinking"},
         NEW lost, Later(AllocatedRecords(index), file, index', file', lost),
         committed' \in [Id -> SUBSET Data], Fewer(committed, committed', lost),
         maxSize' \in MaxSize \cup {NoLimit}, pending' = <<>>,
         phase' = "open" \/ (phase' = "shrinking" /\ index'.m_alloc # {})
  PROVE  Consistent'
<1>1. Agree(index', file') /\ Follows(AllocatedRecords(index), file, file', lost)
  BY DEF Later
<1>2. /\ FileOK(file') /\ Legal(file'.blobs) /\ file'.head = file.head
      /\ file'.size = 0 => file.size = 0
  BY <1>1 DEF Follows
<1>3. CrashStructure'
  BY <1>1, <1>2 DEF Consistent, CrashStructure
<1>4. KeptBy(AllocatedRecords(index'), file', committed')
  <2>1. KeptBy(AllocatedRecords(index), file, committed)
    BY DEF Consistent, Survivors
  <2> QED
    BY <2>1, KeptLater
<1>5. file'.head = 0 => Uncommitted(committed')
  <2>1. file.head = 0 => Uncommitted(committed)
    BY DEF Consistent, Survivors
  <2> QED
    BY <1>2, <2>1, KeptMore
<1>6. Survivors'
  BY <1>4, <1>5 DEF Consistent, Survivors
<1> QED
  BY <1>3, <1>6 DEF Consistent

\* The invariant after a call that leaves no record, and nothing to keep.
LEMMA HuskConsistent ==
  ASSUME Husk(index'), FileOK(file'), Legal(file'.blobs),
         file'.size = 0 => file'.head = 0,
         maxSize' \in MaxSize \cup {NoLimit},
         phase' \in {"open", "undefined"}, pending' \in Seq(Record),
         phase' = "open" => pending' = <<>>,
         committed' \in [Id -> SUBSET Data], Uncommitted(committed')
  PROVE  Consistent'
<1>1. CrashStructure'
  BY DEF CrashStructure
<1>2. KeptBy(AllocatedRecords(index'), file', committed')
  BY KeptMore
<1>3. Survivors'
  BY <1>2 DEF Survivors
<1> QED
  BY <1>1, <1>3 DEF Consistent

\* The invariant after a death: of the index nothing is left.
LEMMA DeadConsistent ==
  ASSUME NEW f, Die(f), FileOK(f), Legal(f.blobs), f.size = 0 => f.head = 0,
         f.head = 0 => Uncommitted(committed'),
         Kept(f, committed'),
         committed' \in [Id -> SUBSET Data]
  PROVE  Consistent'
<1>1. /\ file' = f /\ index' = EmptyIndex /\ maxSize' = NoLimit
      /\ pending' = <<>> /\ phase' = "closed"
  BY DEF Die
<1>2. Agree(index', file')
  BY <1>1, EmptyIndexSound DEF Agree, Covers, EmptyIndex
<1>3. CrashStructure'
  BY <1>1, <1>2 DEF CrashStructure
<1>4. Survivors'
  BY <1>1 DEF Survivors
<1> QED
  BY <1>3, <1>4 DEF Consistent

\* The empty file.
LEMMA EmptyFileLegal ==
  /\ FileOK(EmptyFile) /\ Legal(EmptyFile.blobs)
  /\ EmptyFile.size = 0 /\ EmptyFile.head = 0
<1>1. EmptyFile.blobs = {} /\ EmptyFile.size = 0 /\ EmptyFile.head = 0
  BY DEF EmptyFile
<1> QED
  BY <1>1, EmptyFileOK DEF Legal

LEMMA CrashInitConsistent == CrashInit => Consistent
<1> SUFFICES ASSUME CrashInit PROVE Consistent
  OBVIOUS
<1>1. /\ index = EmptyIndex /\ file = EmptyFile /\ maxSize = NoLimit
      /\ pending = <<>> /\ phase = "closed" /\ committed = Nobody
  BY DEF CrashInit, Init
<1>2. Agree(EmptyIndex, EmptyFile)
  BY EmptyIndexSound, EmptyFileLegal DEF Agree, Covers, EmptyIndex
<1>3. CrashStructure
  BY <1>1, <1>2, EmptyFileLegal DEF CrashStructure
<1>4. Kept(file, committed)
  BY <1>1, NothingCommitted, KeptMore
<1>5. Survivors
  BY <1>1, <1>4, NothingCommitted DEF Survivors
<1> QED
  BY <1>3, <1>5 DEF Consistent

-----------------------------------------------------------------------------
(* Construction *)

\* The constructor goes on with an empty index, and there is nothing to keep.
LEMMA OpenEmptyStep ==
  ASSUME Consistent, (OpenEmpty /\ Starts) \/ OpenUncommitted
  PROVE  Consistent'
<1>1. /\ phase = "closed" /\ phase' = "open" /\ index' = index /\ file' = file
      /\ maxSize' = maxSize /\ pending' = pending
      /\ committed' = committed \/ committed' = Nobody
      /\ file.size = 0 \/ file.head \in {0, Scrambled}
  BY DEF OpenEmpty, OpenUncommitted, Starts, Untouched, history
<1>2. /\ index = EmptyIndex /\ pending = <<>> /\ FileOK(file) /\ Legal(file.blobs)
      /\ maxSize \in MaxSize \cup {NoLimit}
      /\ file.size = 0 => file.head = 0
      /\ committed \in [Id -> SUBSET Data]
      /\ file.head = 0 => Uncommitted(committed)
  BY <1>1 DEF Consistent, CrashStructure, Survivors
<1>3. file.head = 0
  BY <1>1, <1>2, FileTypes DEF Scrambled
<1>4. Husk(index')
  BY <1>1, <1>2 DEF Husk, EmptyIndex, IsIndex
<1>5. /\ committed' \in [Id -> SUBSET Data] /\ Uncommitted(committed')
  BY <1>1, <1>2, <1>3, NothingCommitted
<1> QED
  BY <1>1, <1>2, <1>3, <1>4, <1>5, HuskConsistent

\* A file that is empty is as good as new, whatever has been loaded of it.
LEMMA FreshStep ==
  ASSUME Basics, OpenEmpty, Starts, file = EmptyFile
  PROVE  Consistent'
<1>1. /\ index' = EmptyIndex /\ file' = EmptyFile /\ maxSize' \in MaxSize \cup {NoLimit}
      /\ phase' = "open" /\ pending' = <<>> /\ committed' = Nobody
  BY DEF Basics, OpenEmpty, Starts
<1>2. Husk(index')
  BY <1>1 DEF Husk, EmptyIndex, IsIndex
<1> QED
  BY <1>1, <1>2, EmptyFileLegal, NothingCommitted, HuskConsistent

\* The constructor has found a table where the head leads, perhaps an old one.
LEMMA OpenStep ==
  ASSUME Consistent, Open, Untouched
  PROVE  Consistent'
<1>1. /\ phase = "closed" /\ phase' = "loading" /\ index' = index /\ file' = file
      /\ maxSize' = maxSize /\ committed' = committed
  BY DEF Open, Untouched, history
<1>2. PICK t \in file.tables : t.offset = file.head /\ pending' = t.records
  BY DEF Open
<1>3. /\ index = EmptyIndex /\ FileOK(file)
      /\ Kept(file, committed)
  BY <1>1 DEF Consistent, CrashStructure, Survivors
<1>4. /\ file.size \in Nat /\ t.records \in Seq(Record) /\ WellFormed(t)
      /\ t.offset \in Nat /\ t.size \in Nat /\ End(t) <= file.size
  BY <1>3, FileTypes
<1>5. Agree(index', file') /\ index'.m_list = <<>> /\ AllocatedRecords(index') = {}
  BY <1>1, <1>3, EmptyIndexSound DEF Agree, Covers, EmptyIndex, AllocatedRecords
<1>6. Loadable(file', index', pending')
  <2>1. ASSUME NEW i \in DOMAIN t.records
        PROVE  RecordOK(t.records[i]) /\ End(t.records[i]) <= file.size
    <3>1. RecordOK(t.records[i]) /\ End(t.records[i]) <= t.offset
      BY <1>4 DEF WellFormed
    <3>2. End(t.records[i]) \in Nat
      BY <3>1 DEF RecordOK, Record, End
    <3> QED
      BY <1>4, <3>1, <3>2 DEF End
  <2> QED
    BY <1>1, <1>2, <1>4, <1>5, <2>1 DEF Loadable, WellFormed
<1>8. KeptBy(AllocatedRecords(index') \cup ToSet(pending'), file', committed')
  <2>1. AllocatedRecords(index') \cup ToSet(pending') = ToSet(t.records)
    BY <1>2, <1>5
  <2>2. KeptBy(ToSet(t.records), file, committed)
    BY <1>3 DEF Kept, KeptBy, Remains
  <2> QED
    BY <1>1, <2>1, <2>2
<1>9. CrashStructure'
  BY <1>1, <1>2, <1>4, <1>5, <1>6 DEF Consistent, CrashStructure
<1>10. Survivors'
  BY <1>1, <1>8 DEF Consistent, Survivors
<1> QED
  BY <1>9, <1>10 DEF Consistent
\* One iteration of the loop of the constructor.
LEMMA LoadRecordStep ==
  ASSUME FileLimit < U32, Consistent, LoadRecord, Untouched
  PROVE  Consistent'
<1> DEFINE r == Head(pending)
           p == New(index)
           g == New2(index)
<1>1. /\ phase = "loading" /\ CanNew(index)
      /\ index' = AddAllocatedBlock(index, p, g, r)
      /\ pending' = Tail(pending) /\ file' = file /\ maxSize' = maxSize
      /\ phase' = IF Tail(pending) = <<>> THEN "open" ELSE "loading"
      /\ ~Overlaps(index, r) /\ pending # <<>>
      /\ committed' = committed
  BY DEF LoadRecord, Untouched, history
<1>2. p \in Fresh(index) /\ g \in Fresh(index) /\ p # g
  BY <1>1, NewAddresses
<1>3. /\ pending \in Seq(Record) /\ FileOK(file) /\ Legal(file.blobs)
      /\ Agree(index, file) /\ Loadable(file, index, pending)
      /\ file.size = 0 => file.head = 0
      /\ maxSize \in MaxSize \cup {NoLimit}
      /\ committed \in [Id -> SUBSET Data]
      /\ file.head = 0 => Uncommitted(committed)
      /\ KeptBy(AllocatedRecords(index) \cup ToSet(pending), file, committed)
  BY <1>1 DEF Consistent, CrashStructure, Survivors
<1> HIDE DEF p, g
<1>4. RecordOK(r) /\ End(r) <= file.size
  BY <1>3, LoadableFits
<1>5. Extended(index, index', p, r)
  BY <1>1, <1>2, <1>3, <1>4, AddExtends
<1>6. /\ Sound(index', FileLimit) /\ index'.m_list # <<>> /\ LastRecord(index') = r
      /\ HEAD_SIZE <= Base(index')
      /\ AllocatedRecords(index') = AllocatedRecords(index) \cup {r}
  BY <1>5 DEF Extended
<1>7. /\ Tail(pending) \in Seq(Record)
      /\ Tail(pending) # <<>> => Loadable(file, index', Tail(pending))
      /\ \A x : x \in ToSet(pending) <=> x = r \/ x \in ToSet(Tail(pending))
  BY <1>3, <1>6, LoadableTail
<1>8. Agree(index', file')
  BY <1>1, <1>3, <1>4, <1>6 DEF Agree, Covers
<1>9. AllocatedRecords(index') \cup ToSet(pending')
        = AllocatedRecords(index) \cup ToSet(pending)
  BY <1>1, <1>6, <1>7
<1>10. KeptBy(AllocatedRecords(index') \cup ToSet(pending'), file', committed')
  BY <1>1, <1>3, <1>9
<1>11. CrashStructure'
  BY <1>1, <1>3, <1>7, <1>8 DEF CrashStructure
<1>12. phase' = "open" =>
         KeptBy(AllocatedRecords(index'), file', committed')
  <2> SUFFICES ASSUME phase' = "open"
               PROVE  KeptBy(AllocatedRecords(index'), file', committed')
    OBVIOUS
  <2>1. pending' = <<>>
    BY <1>1, <1>7
  <2>2. AllocatedRecords(index') \cup ToSet(pending') = AllocatedRecords(index')
    BY <2>1 DEF ToSet
  <2> QED
    BY <1>10, <2>2
<1>13. Survivors'
  BY <1>1, <1>3, <1>10, <1>12 DEF Survivors
<1> QED
  BY <1>11, <1>13 DEF Consistent

-----------------------------------------------------------------------------
(* Destruction and death *)

\* What getBlob returns is in a block that a record describes.
LEMMA ReadableAfter ==
  ASSUME NEW id \in Id, NEW data, data \in Readable(id)'
  PROVE  \E b \in file'.blobs : b.id = id /\ b.data = data /\ Held(b, Records')
<1>1. PICK b \in StoredBlobs' :
        /\ b.data = data /\ b.id = id
        /\ \E r \in Records' : r.offset = b.offset /\ r.key = Hash[id] /\ Within(b, r)
  BY DEF Readable
<1>2. b \in file'.blobs
  BY DEF StoredBlobs
<1>3. Held(b, Records')
  BY <1>1 DEF Held, Holds, Within
<1> QED
  BY <1>1, <1>2, <1>3

\* The destructor commits the objects that the records of the index lead to.
LEMMA CloseStep ==
  ASSUME Consistent, Close, Commits, tainted = 0
  PROVE  Consistent'
<1>1. /\ phase = "open" /\ ~Dangling(index)
      /\ file' = IF index.m_alloc = {} THEN EmptyFile ELSE Commit(index, file)
      /\ index' = EmptyIndex /\ maxSize' = NoLimit /\ phase' = "closed"
      /\ pending' = pending /\ pending = <<>>
      /\ committed' = [id \in Id |-> Readable(id)']
  BY DEF Close, Commits, Consistent, CrashStructure
<1>2. Die(file')
  BY <1>1 DEF Die
<1>3. Agree(index, file) /\ Legal(file.blobs)
  BY <1>1, CrashIndexIs DEF Consistent, CrashStructure
<1>4. \A id \in Id : committed'[id] = Readable(id)'
  BY <1>1
<1>5. ASSUME FileOK(file') PROVE committed' \in [Id -> SUBSET Data]
  <2>1. ASSUME NEW id \in Id PROVE Readable(id)' \in SUBSET Data
    <3>1. ASSUME NEW data \in Readable(id)' PROVE data \in Data
      <4>1. PICK b \in file'.blobs : b.data = data
        BY <3>1, ReadableAfter
      <4>2. b \in Blob
        BY <1>5, FileTypes
      <4> QED
        BY <4>1, <4>2, BlobTypes
    <3> QED
      BY <3>1
  <2> QED
    BY <1>1, <2>1
<1>6. CASE index.m_alloc = {}
  <2>1. file' = EmptyFile
    BY <1>1, <1>6
  <2>2. /\ FileOK(file') /\ Legal(file'.blobs) /\ file'.size = 0 /\ file'.head = 0
        /\ file'.blobs = {}
    BY <2>1, EmptyFileLegal DEF EmptyFile
  <2>3. ASSUME NEW id \in Id PROVE committed'[id] = {}
    <3>1. Readable(id)' = {}
      BY <2>2, ReadableAfter
    <3> QED
      BY <1>4, <3>1
  <2>4. Uncommitted(committed')
    BY <2>3 DEF Uncommitted
  <2>5. Kept(file', committed')
    BY <2>4, KeptMore
  <2> QED
    BY <1>2, <1>5, <2>2, <2>4, <2>5, DeadConsistent
<1>7. CASE index.m_alloc # {}
  <2>1. PICK t, R : t = TableOf(index) /\ R = AllocatedRecords(index)
    OBVIOUS
  <2>2. index.m_list # <<>> /\ file' = Commit(index, file)
    BY <1>1, <1>3, <1>7, EmptyExactly DEF Agree
  <2>3. /\ t.offset = End(LastRecord(index)) /\ ToSet(t.records) = R
    BY <1>3, <2>1, <2>2, TableOfProperties
  <2>4. /\ FileOK(file') /\ file'.head = t.offset /\ file'.tables = {t}
        /\ file'.size \in Nat /\ file'.size > 0 /\ file'.blobs \subseteq file.blobs
    BY <1>3, <2>1, <2>2, CommitFile
  <2>5. Legal(file'.blobs)
    BY <1>3, <2>4, LegalSubset
  <2>6. file'.head # 0
    <3>1. /\ LastRecord(index).offset \in Nat /\ End(LastRecord(index)) \in Nat
          /\ LastRecord(index).offset < End(LastRecord(index))
      BY <1>3, <2>2, LastRecordTypes DEF Agree
    <3> QED
      BY <2>3, <2>4, <3>1
  <2>7. Records' = ToSet(t.records)
    BY <1>1, <2>4 DEF Records
  <2>8. ASSUME NEW id \in Id, NEW data \in committed'[id]
        PROVE  \E b \in file'.blobs : Remains(file', id, data, b)
    <3>1. PICK b \in file'.blobs : b.id = id /\ b.data = data /\ Held(b, Records')
      BY <1>4, ReadableAfter
    <3> QED
      BY <2>4, <2>7, <3>1 DEF Remains
  <2>9. Kept(file', committed')
    BY <2>8 DEF Kept
  <2> QED
    BY <1>2, <1>5, <2>4, <2>5, <2>6, <2>9, DeadConsistent
<1> QED
  BY <1>6, <1>7

\* The objects that the index leads to are kept by a file that follows: the one
\* in the destructor of the next process.
LEMMA DieFollowing ==
  ASSUME Consistent, phase \in {"open", "shrinking"}, NEW f, Die(f), NEW lost,
         Follows(AllocatedRecords(index), file, f, lost),
         committed' \in [Id -> SUBSET Data], Fewer(committed, committed', lost)
  PROVE  Consistent'
<1>1. /\ FileOK(f) /\ Legal(f.blobs) /\ f.head = file.head
      /\ f.size = 0 => file.size = 0
  BY DEF Follows
<1>2. /\ file.size = 0 => file.head = 0
      /\ committed \in [Id -> SUBSET Data]
      /\ file.head = 0 => Uncommitted(committed)
      /\ KeptBy(AllocatedRecords(index), file, committed)
  BY DEF Consistent, CrashStructure, Survivors
<1>3. Kept(f, committed')
  BY <1>2, KeptFollows
<1>4. f.head = 0 => Uncommitted(committed')
  BY <1>1, <1>2, KeptMore
<1> QED
  BY <1>1, <1>2, <1>3, <1>4, DeadConsistent

\* Between two calls, or in a loop.
LEMMA CrashStep ==
  ASSUME Consistent, Crash
  PROVE  Consistent'
<1>1. /\ phase \in {"loading", "open", "shrinking"} /\ Die(file)
      /\ committed' = committed
  BY DEF Crash, Untouched, history
<1>2. /\ FileOK(file) /\ Legal(file.blobs)
      /\ file.size = 0 => file.head = 0
      /\ committed \in [Id -> SUBSET Data]
      /\ file.head = 0 => Uncommitted(committed)
  BY DEF Consistent, CrashStructure, Survivors
<1>3. Kept(file, committed)
  <2>1. CASE phase \in {"open", "shrinking"}
    BY <2>1, KeptMore DEF Consistent, Survivors
  <2>2. CASE phase = "loading"
    BY <2>2, KeptMore DEF Consistent, Survivors
  <2> QED
    BY <1>1, <2>1, <2>2
<1> QED
  BY <1>1, <1>2, <1>3, DeadConsistent
\* After eraseBlob something else happens to the file.
LEMMA LaterFollows ==
  ASSUME NEW R, NEW f, NEW iy, NEW g, NEW lost, Later(R, f, iy, g, lost),
         NEW h, Follows(AllocatedRecords(iy), g, h, {})
  PROVE  Follows(R, f, h, lost)
<1>1. Follows(R, f, g, lost)
  BY DEF Later
<1>2. ASSUME NEW b \in f.blobs, NEW r \in R, Holds(b, r), b.id \notin lost
      PROVE  b \in h.blobs
  <2>1. b \in g.blobs /\ r \in AllocatedRecords(iy)
    BY <1>2 DEF Later, Follows
  <2> QED
    BY <1>2, <2>1 DEF Follows
<1> QED
  BY <1>1, <1>2 DEF Follows

\* A call forgets the objects of the ids it names, and no other.
LEMMA TouchesNamed ==
  ASSUME Consistent, NEW ids, Touches(ids), NEW lost, lost \subseteq ids
  PROVE  committed' \in [Id -> SUBSET Data] /\ Fewer(committed, committed', lost)
<1>1. committed \in [Id -> SUBSET Data]
  BY DEF Consistent, Survivors
<1>2. committed' = [id \in Id |-> IF id \in ids THEN {} ELSE committed[id]]
  BY DEF Touches
<1>3. \A id \in Id : committed'[id] = IF id \in ids THEN {} ELSE committed[id]
  BY <1>2
<1>4. committed' \in [Id -> SUBSET Data]
  BY <1>1, <1>2
<1>5. Fewer(committed, committed', lost)
  BY <1>3 DEF Fewer
<1> QED
  BY <1>4, <1>5

\* In writeBlob, wherever the program dies: the objects of other ids are kept.
LEMMA CrashWritingStep ==
  ASSUME FileLimit < U32, Consistent, NEW id \in Id, NEW data \in Data,
         CrashWriting(id, data)
  PROVE  Consistent'
<1>1. /\ phase = "open" /\ ~Dangling(index)
      /\ Touches({id})
  BY DEF CrashWriting
<1>2. Agree(index, file) /\ Legal(file.blobs)
  BY <1>1, CrashIndexIs DEF Consistent, CrashStructure, Survivors
<1>3. PICK s \in Erasures(id) :
        LET p     == New(s.index)
            r     == Appended(s.index, id, data)
            fits  == LowerBound(s.index, r.size)
            taken == {LET ix == Allocate(s.index, e, r.size, r.key, p)
                      IN  ix.heap[Allocated(s.index, e, r.size, p)] : e \in fits}
            ix    == AddAllocatedBlock(s.index, p, p, r)
            cut   == Trim(s.file, ProposedSize(ix))
        IN /\ CanNew(s.index)
           /\ \/ Die(s.file)
              \/ \E t \in taken : DieInBlock(s.file, t, id, data)
              \/ /\ fits = {}
                 /\ End(r) <= FileLimit
                 /\ ~TooLong(ProposedSize(ix))
                 /\ Die(cut) \/ DieInBlock(cut, r, id, data)
  BY DEF CrashWriting
<1>4. PICK p, r, ix, g :
        /\ p = New(s.index) /\ r = Appended(s.index, id, data)
        /\ ix = AddAllocatedBlock(s.index, p, p, r)
        /\ g = Trim(s.file, ProposedSize(ix))
  OBVIOUS
<1>5. /\ CanNew(s.index)
      /\ \/ Die(s.file)
         \/ \E e \in LowerBound(s.index, r.size) :
              DieInBlock(s.file, Allocate(s.index, e, r.size, r.key, p).heap[
                                   Allocated(s.index, e, r.size, p)], id, data)
         \/ End(r) <= FileLimit /\ (Die(g) \/ DieInBlock(g, r, id, data))
  BY <1>3, <1>4
<1>6. PICK R, Q, lost : /\ R = AllocatedRecords(index) /\ lost = {id} \ LongId
                        /\ Q = AllocatedRecords(s.index)
  OBVIOUS
<1>7. Later(R, file, s.index, s.file, lost)
  BY <1>2, <1>6, ErasureLater
<1>8. Agree(s.index, s.file) /\ FileOK(s.file) /\ Legal(s.file.blobs)
      /\ Follows(R, file, s.file, lost)
  BY <1>7 DEF Later, Follows
<1>9. committed' \in [Id -> SUBSET Data] /\ Fewer(committed, committed', lost)
  BY <1>1, <1>6, TouchesNamed
<1>10. ASSUME NEW f, Die(f), Follows(R, file, f, lost) PROVE Consistent'
  BY <1>1, <1>6, <1>9, <1>10, DieFollowing
<1>11. ASSUME NEW f, Die(f), Follows(Q, s.file, f, {}) PROVE Consistent'
  BY <1>6, <1>7, <1>10, <1>11, LaterFollows
<1>12. r.size = AtLeastMinSize(BlobSize[data]) /\ r.key = Hash[id]
  BY <1>4 DEF Appended, MakeRecord
<1>13. CASE Die(s.file)
  BY <1>8, <1>10, <1>13
<1>14. ASSUME NEW e \in LowerBound(s.index, r.size),
              DieInBlock(s.file, Allocate(s.index, e, r.size, r.key, p).heap[
                                   Allocated(s.index, e, r.size, p)], id, data)
       PROVE  Consistent'
  <2>1. PICK iy, a, t, size : /\ size = r.size
                              /\ iy = Allocate(s.index, e, size, Hash[id], p)
                              /\ a = Allocated(s.index, e, size, p)
                              /\ t = iy.heap[a]
    OBVIOUS
  <2>2. size = AtLeastMinSize(BlobSize[data]) /\ e \in LowerBound(s.index, size)
    BY <1>12, <2>1
  <2>3. /\ Agree(iy, s.file) /\ t \in AllocatedRecords(iy)
        /\ Q = AllocatedRecords(iy) \ {t} /\ BlobSize[data] <= t.size
    BY <1>4, <1>5, <1>6, <1>8, <2>1, <2>2, HoleGranted
  <2>4. Outside(Q, t) /\ t.size \in Nat /\ HEAD_SIZE <= t.offset
    BY <2>3, BlockOutside, BehindHead, AllocatedRecordTypes DEF Agree
  <2>5. DieInBlock(s.file, t, id, data)
    BY <1>12, <1>14, <2>1
  <2>6. \E f : Die(f) /\ Follows(Q, s.file, f, {})
    BY <1>8, <2>3, <2>4, <2>5, DieInBlockFollows
  <2> QED
    BY <1>11, <2>6
<1>15. CASE End(r) <= FileLimit /\ (Die(g) \/ DieInBlock(g, r, id, data))
  <2>1. /\ RecordOK(r) /\ BlobSize[data] <= r.size
        /\ s.index.m_list # <<>> => r.offset = End(LastRecord(s.index))
    BY <1>4, <1>8, <1>15, AppendedProperties
  <2>2. Extended(s.index, ix, p, r)
    BY <1>4, <1>5, <1>8, <2>1, AppendExtends
  <2>3. /\ Follows(Q, s.file, g, {}) /\ Outside(Q, r)
        /\ r.size \in Nat /\ HEAD_SIZE <= r.offset
    BY <1>4, <1>6, <1>8, <2>2, CutBehind
  <2>4. CASE Die(g)
    BY <1>11, <2>3, <2>4
  <2>5. CASE DieInBlock(g, r, id, data)
    <3>1. PICK f : Die(f) /\ Follows(Q, g, f, {})
      BY <2>1, <2>3, <2>5, DieInBlockFollows DEF Follows
    <3>2. Follows(Q, s.file, f, {})
      BY <2>3, <3>1, FollowsTransitive
    <3> QED
      BY <1>11, <3>1, <3>2
  <2> QED
    BY <1>15, <2>4, <2>5
<1> QED
  BY <1>5, <1>13, <1>14, <1>15

\* In the destructor: the head leads behind the last record already, where
\* there is nothing of an object.
LEMMA CrashCommittingStep ==
  ASSUME Consistent, CrashCommitting
  PROVE  Consistent'
<1>1. PICK t, f, g : /\ t = MakeRecord(End(LastRecord(index)), 0, IndexSize(index))
                     /\ f = WriteHead(file, t.offset) /\ g = Grow(f, End(t))
  OBVIOUS
<1>2. /\ phase = "open" /\ ~Dangling(index) /\ index.m_alloc # {}
      /\ \/ \E n \in 1 .. t.size - 1 : Die(Overwrite(g, [t EXCEPT !.size = n]))
         \/ Die(f) \/ Die(g)
      /\ committed' = committed
  BY <1>1 DEF CrashCommitting, Untouched, history
<1>3. /\ FileOK(file) /\ Legal(file.blobs) /\ file.size \in Nat
      /\ committed \in [Id -> SUBSET Data]
      /\ KeptBy(AllocatedRecords(index), file, committed)
  BY <1>2, FileTypes DEF Consistent, CrashStructure, Survivors
<1>4. /\ Sound(index, FileLimit) /\ index.m_list # <<>> /\ HEAD_SIZE <= Base(index)
      /\ End(LastRecord(index)) <= file.size
  BY <1>2, CrashIndexIs, EmptyExactly DEF Agree, Covers
<1>5. PICK n, m, R : /\ n = End(LastRecord(index)) /\ m = IndexSize(index)
                     /\ R = AllocatedRecords(index)
  OBVIOUS
<1>6. n \in Nat /\ n > 0 /\ HEAD_SIZE <= n /\ n <= file.size /\ m \in Nat
  <2>1. /\ LastRecord(index).offset \in Nat /\ End(LastRecord(index)) \in Nat
        /\ LastRecord(index).offset < End(LastRecord(index))
        /\ Base(index) \in Nat /\ Base(index) <= LastRecord(index).offset
    BY <1>4, LastRecordTypes
  <2> QED
    BY <1>4, <1>5, <2>1, IndexSizeType, TornTypes
<1>7. /\ t.offset = n /\ t.size = m /\ End(t) = n + m
      /\ \A k : /\ [t EXCEPT !.size = k].offset = n
                /\ End([t EXCEPT !.size = k]) = n + k
  BY <1>1, <1>5 DEF MakeRecord, End
<1>8. /\ FileOK(f) /\ f.head = n /\ f.size = file.size
      /\ f.blobs = file.blobs /\ f.tables = file.tables
  BY <1>1, <1>3, <1>6, <1>7, WriteHeadFile
<1>9. KeptBy(R, f, committed)
  BY <1>3, <1>5, <1>8 DEF KeptBy, Remains
<1>10. ASSUME NEW k \in 1 .. t.size - 1 PROVE Outside(R, [t EXCEPT !.size = k])
  <2>1. ASSUME NEW r \in R
        PROVE  r.offset \in Nat /\ End(r) \in Nat /\ End(r) <= n
    BY <1>4, <1>5, AllocatedRecordTypes
  <2>2. k \in Nat
    BY <1>6, <1>7
  <2> QED
    BY <1>6, <1>7, <2>1, <2>2 DEF Outside
<1>11. ASSUME NEW h, Die(h), Follows(R, f, h, {}) PROVE Consistent'
  <2>1. /\ FileOK(h) /\ Legal(h.blobs) /\ h.head = n /\ h.size # 0
    BY <1>6, <1>8, <1>11 DEF Follows
  <2>2. Kept(h, committed')
    <3>1. Fewer(committed, committed', {})
      BY <1>2 DEF Fewer
    <3> QED
      BY <1>9, <1>11, <3>1, KeptFollows
  <2> QED
    BY <1>2, <1>3, <1>6, <1>11, <2>1, <2>2, DeadConsistent
<1>12. Legal(f.blobs)
  BY <1>3, <1>8
<1>13. Follows(R, f, f, {})
  BY <1>8, <1>12 DEF Follows
<1>14. Follows(R, f, g, {}) /\ FileOK(g) /\ Legal(g.blobs)
  BY <1>1, <1>6, <1>7, <1>8, <1>12, GrowFollows DEF Follows
<1>15. ASSUME NEW k \in 1 .. t.size - 1
       PROVE  Follows(R, f, Overwrite(g, [t EXCEPT !.size = k]), {})
  <2>1. PICK y : y = [t EXCEPT !.size = k]
    OBVIOUS
  <2>2. Outside(R, y) /\ HEAD_SIZE <= y.offset
    BY <1>6, <1>7, <1>10, <2>1
  <2>3. Follows(R, g, Overwrite(g, y), {})
    BY <1>14, <2>2, OverwriteFollows
  <2> QED
    BY <1>14, <2>1, <2>3, FollowsTransitive
<1> QED
  BY <1>2, <1>11, <1>13, <1>14, <1>15

-----------------------------------------------------------------------------
(* eraseBlob and writeBlob *)

\* No record leads to an object: none was committed and left alone.
LEMMA NoneKept ==
  ASSUME NEW f, NEW c, KeptBy({}, f, c)
  PROVE  Uncommitted(c)
  BY DEF KeptBy, Held, Uncommitted

\* A husk leads to no object.
LEMMA HuskForgot ==
  ASSUME Consistent, phase \in {"open", "shrinking"}, Husk(index)
  PROVE  Uncommitted(committed)
<1>1. AllocatedRecords(index) = {}
  BY HuskHolds
<1>2. KeptBy(AllocatedRecords(index), file, committed)
  BY DEF Consistent, Survivors
<1> QED
  BY <1>1, <1>2, NoneKept

\* The invariant after a call that changes neither index nor file.
LEMMA IdleConsistent ==
  ASSUME Consistent, phase = "open", index' = index, file' = file,
         committed' \in [Id -> SUBSET Data], Fewer(committed, committed', {}),
         maxSize' \in MaxSize \cup {NoLimit}, pending' = pending,
         phase' = "open" \/ (phase' = "shrinking" /\ index.m_alloc # {})
  PROVE  Consistent'
<1>1. /\ pending' = <<>> /\ FileOK(file) /\ Legal(file.blobs)
      /\ file.size = 0 => file.head = 0
  BY DEF Consistent, CrashStructure, Survivors
<1>2. CASE Agree(index, file)
  <2>1. Later(AllocatedRecords(index), file, index, file, {})
    BY <1>1, <1>2, LaterReflexive
  <2>2. Later(AllocatedRecords(index), file, index', file', {})
    BY <2>1
  <2>3. phase \in {"open", "shrinking"}
    OBVIOUS
  <2>4. phase' = "open" \/ (phase' = "shrinking" /\ index'.m_alloc # {})
    OBVIOUS
  <2> QED
    BY <1>1, <2>2, <2>3, <2>4, LaterConsistent
<1>3. CASE ~Agree(index, file)
  <2>1. Husk(index) /\ phase' = "open"
    BY <1>3, CrashIndexIs DEF Husk
  <2>2. Uncommitted(committed)
    BY <2>1, HuskForgot
  <2>3. Uncommitted(committed')
    BY <2>2, KeptMore
  <2>4. /\ Husk(index') /\ FileOK(file') /\ Legal(file'.blobs)
        /\ file'.size = 0 => file'.head = 0
    BY <1>1, <2>1
  <2>5. /\ phase' \in {"open", "undefined"} /\ pending' \in Seq(Record)
        /\ committed' \in [Id -> SUBSET Data]
    BY <1>1, <2>1
  <2> QED
    BY <1>1, <2>3, <2>4, <2>5, HuskConsistent
<1> QED
  BY <1>2, <1>3

\* Nothing is found in a husk, and nothing is read.
LEMMA HuskFinds ==
  ASSUME NEW ix, Husk(ix), NEW f, NEW id
  PROVE  FindBlob(ix, f, id) = {} /\ Searched(ix, f, id) = {f}
<1>1. FindBlob(ix, f, id) = {}
  BY DEF FindBlob, Husk
<1>2. Searched(ix, f, id) = {f}
  BY DEF Searched, Husk
<1> QED
  BY <1>1, <1>2

\* hasBlob and getBlob leave the file as it is.
LEMMA LookStep ==
  ASSUME Consistent, NEW id \in Id, Look(id)
  PROVE  Consistent'
<1>1. /\ phase = "open" /\ phase' = "open" /\ index' = index
      /\ maxSize' = maxSize /\ pending' = pending
      /\ committed' = committed
      /\ file' \in IF FindBlob(index, file, id) = {} THEN Searched(index, file, id)
                   ELSE UNION {Found(index, file, id, p) : p \in FindBlob(index, file, id)}
  BY DEF Look, Untouched, history
<1>2. file' = file
  <2>1. CASE Agree(index, file)
    <3>1. ASSUME NEW p \in FindBlob(index, file, id) PROVE Allocd(index, p)
      <4>1. <<Hash[id], p>> \in index.m_alloc /\ <<Hash[id], p>>[2] = p
        BY DEF FindBlob
      <4> QED
        BY <2>1, <4>1, AllocatedByAddress DEF Agree
    <3>2. /\ Searched(index, file, id) = {file}
          /\ \A p \in FindBlob(index, file, id) : Found(index, file, id, p) = {file}
      BY <2>1, <3>1, SearchedSame
    <3> QED
      BY <1>1, <3>2
  <2>2. CASE ~Agree(index, file)
    BY <1>1, <2>2, CrashIndexIs, HuskFinds
  <2> QED
    BY <2>1, <2>2
<1>3. /\ maxSize' \in MaxSize \cup {NoLimit}
      /\ committed' \in [Id -> SUBSET Data]
  BY <1>1 DEF Consistent, CrashStructure, Survivors
<1>4. Fewer(committed, committed', {})
  BY <1>1 DEF Fewer
<1> QED
  BY <1>1, <1>2, <1>3, <1>4, IdleConsistent

\* eraseBlob may lose the object of its id only.
LEMMA EraseBlobStep ==
  ASSUME FileLimit < U32, Consistent, NEW id \in Id, EraseBlob(id), Touches({id})
  PROVE  Consistent'
<1>1. PICK s \in Erasures(id) : index' = s.index /\ file' = s.file
  BY DEF EraseBlob, Become
<1>2. /\ phase = "open" /\ phase' = "open" /\ maxSize' = maxSize
      /\ pending = <<>> /\ pending' = <<>> /\ maxSize \in MaxSize \cup {NoLimit}
      /\ Legal(file.blobs)
  BY DEF EraseBlob, Consistent, CrashStructure
<1>3. /\ committed' \in [Id -> SUBSET Data]
      /\ Fewer(committed, committed', {id} \ LongId)
      /\ Fewer(committed, committed', {})
  BY TouchesNamed
<1>4. CASE Agree(index, file)
  <2>1. Later(AllocatedRecords(index), file, index', file', {id} \ LongId)
    BY <1>1, <1>2, <1>4, ErasureLater
  <2> QED
    BY <1>2, <1>3, <2>1, LaterConsistent
<1>5. CASE ~Agree(index, file)
  <2>1. Husk(index)
    BY <1>2, <1>5, CrashIndexIs
  <2>2. FindBlob(index, file, id) = {} /\ Searched(index, file, id) = {file}
    BY <2>1, HuskFinds
  <2>3. index' = index /\ file' = file
    BY <1>1, <2>2 DEF Erasures, State
  <2> QED
    BY <1>2, <1>3, <2>3, IdleConsistent
<1> QED
  BY <1>4, <1>5

\* So may writeBlob, when the object goes into a free block.
LEMMA WriteIntoFreeStep ==
  ASSUME FileLimit < U32, Consistent, NEW id \in Id, NEW data \in Data,
         WriteIntoFree(id, data), Touches({id})
  PROVE  Consistent'
<1>1. PICK size, R, lost : /\ size = AtLeastMinSize(BlobSize[data])
                           /\ R = AllocatedRecords(index) /\ lost = {id} \ LongId
  OBVIOUS
<1>2. PICK s \in Erasures(id) :
        /\ CanNew(s.index)
        /\ \E e \in LowerBound(s.index, size) :
             LET p == New(s.index) IN
             Become(WriteData(Allocate(s.index, e, size, Hash[id], p), s.file,
                              Allocated(s.index, e, size, p), id, data))
  BY <1>1 DEF WriteIntoFree
<1>3. /\ phase = "open" /\ phase' = "open" /\ maxSize' = maxSize
      /\ pending' = <<>> /\ maxSize \in MaxSize \cup {NoLimit}
      /\ Legal(file.blobs)
  BY DEF WriteIntoFree, Consistent, CrashStructure
<1>4. committed' \in [Id -> SUBSET Data] /\ Fewer(committed, committed', lost)
  BY <1>1, TouchesNamed
<1>5. PICK e \in LowerBound(s.index, size) :
        Become(WriteData(Allocate(s.index, e, size, Hash[id], New(s.index)), s.file,
                         Allocated(s.index, e, size, New(s.index)), id, data))
  BY <1>2
<1>6. PICK p, t : /\ p = New(s.index)
                  /\ t = WriteData(Allocate(s.index, e, size, Hash[id], p), s.file,
                                   Allocated(s.index, e, size, p), id, data)
  OBVIOUS
<1>7. index' = t.index /\ file' = t.file
  BY <1>5, <1>6 DEF Become
<1>8. Agree(index, file)
  <2>1. ASSUME Husk(index) PROVE FALSE
    <3>1. FindBlob(index, file, id) = {}
      BY <2>1 DEF FindBlob, Husk
    <3>2. s.index = index
      BY <3>1 DEF Erasures, State
    <3> QED
      BY <2>1, <3>2 DEF Husk, LowerBound
  <2> QED
    BY <1>3, <2>1, CrashIndexIs
<1>9. Later(R, file, s.index, s.file, lost)
  BY <1>1, <1>3, <1>8, ErasureLater
<1>10. Agree(s.index, s.file) /\ Legal(s.file.blobs)
  BY <1>9 DEF Later, Follows
<1>11. Later(AllocatedRecords(s.index), s.file, t.index, t.file, {})
  BY <1>1, <1>2, <1>6, <1>10, HoleLater
<1>12. Later(AllocatedRecords(s.index), s.file, t.index, t.file, lost)
  BY <1>11, LaterLosing
<1>13. Later(R, file, index', file', lost)
  BY <1>7, <1>9, <1>12, LaterTransitive
<1> QED
  BY <1>1, <1>3, <1>4, <1>13, LaterConsistent

\* And when it goes to the end of the file, or nowhere.
LEMMA WriteAtEndStep ==
  ASSUME FileLimit < U32, Consistent, NEW id \in Id, NEW data \in Data,
         WriteAtEnd(id, data), Touches({id})
  PROVE  Consistent'
<1>1. PICK s \in Erasures(id) :
        LET p  == New(s.index)
            r  == Appended(s.index, id, data)
            ix == AddAllocatedBlock(s.index, p, p, r)
        IN /\ CanNew(s.index)
           /\ LowerBound(s.index, r.size) = {}
           /\ End(r) <= FileLimit
           /\ Become(IF TooLong(ProposedSize(ix))
                     THEN State(Deallocate(ix, p), s.file)
                     ELSE WriteData(ix, Trim(s.file, ProposedSize(ix)), p, id, data))
  BY DEF WriteAtEnd
<1>2. PICK p, r, ix, iz, t, R, lost :
        /\ p = New(s.index) /\ r = Appended(s.index, id, data)
        /\ ix = AddAllocatedBlock(s.index, p, p, r) /\ iz = Deallocate(ix, p)
        /\ t = WriteData(ix, Trim(s.file, ProposedSize(ix)), p, id, data)
        /\ R = AllocatedRecords(index) /\ lost = {id} \ LongId
  OBVIOUS
<1>3. /\ CanNew(s.index) /\ End(r) <= FileLimit
      /\ (index' = iz /\ file' = s.file) \/ (index' = t.index /\ file' = t.file)
  BY <1>1, <1>2 DEF Become, State
<1>4. /\ phase = "open" /\ phase' = "open" /\ maxSize' = maxSize /\ ~Dangling(index)
      /\ pending' = <<>> /\ maxSize \in MaxSize \cup {NoLimit}
      /\ Legal(file.blobs)
  BY DEF WriteAtEnd, Consistent, CrashStructure
<1>5. committed' \in [Id -> SUBSET Data] /\ Fewer(committed, committed', lost)
  BY <1>2, TouchesNamed
<1>6. Agree(index, file)
  BY <1>4, CrashIndexIs
<1>7. Later(R, file, s.index, s.file, lost)
  BY <1>2, <1>4, <1>6, ErasureLater
<1>8. Agree(s.index, s.file) /\ Legal(s.file.blobs)
  BY <1>7 DEF Later, Follows
<1>9. Later(AllocatedRecords(s.index), s.file, iz, s.file, {})
  BY <1>2, <1>3, <1>8, RefusedLater
<1>10. Later(AllocatedRecords(s.index), s.file, t.index, t.file, {})
  BY <1>2, <1>3, <1>8, AppendLater
<1>11. Later(AllocatedRecords(s.index), s.file, index', file', {})
  BY <1>3, <1>9, <1>10
<1>12. Later(AllocatedRecords(s.index), s.file, index', file', lost)
  BY <1>11, LaterLosing
<1>13. Later(R, file, index', file', lost)
  BY <1>7, <1>12, LaterTransitive
<1> QED
  BY <1>2, <1>4, <1>5, <1>13, LaterConsistent

-----------------------------------------------------------------------------
(* clear and setMaxSize *)

\* clear leaves nothing, and nothing to keep.
LEMMA ClearAllStep ==
  ASSUME Consistent, phase = "open", ClearAll, phase' = "open", pending' = pending, Forgets
  PROVE  Consistent'
<1>1. /\ index' = Clear(index) /\ file' = EmptyFile /\ maxSize' = NoLimit
      /\ pending' = <<>> /\ committed' = Nobody
  BY DEF ClearAll, Forgets, Consistent, CrashStructure
<1>2. Husk(index')
  BY <1>1, ClearHusk DEF Consistent, CrashStructure, Agree
<1>3. /\ FileOK(file') /\ Legal(file'.blobs) /\ file'.head = 0
  BY <1>1, EmptyFileLegal
<1> QED
  BY <1>1, <1>2, <1>3, NothingCommitted, HuskConsistent

\* One iteration of the loop of setMaxSize may lose what the last record leads to.
LEMMA ShrinkStep ==
  ASSUME FileLimit < U32, Consistent, ShrinkOnce
  PROVE  Consistent'
<1>1. /\ phase = "shrinking" /\ index.m_alloc # {} /\ pending' = <<>>
      /\ maxSize \in MaxSize \cup {NoLimit} /\ Legal(file.blobs)
  BY DEF ShrinkOnce, Shrink, Consistent, CrashStructure
<1>2. Agree(index, file) /\ Sound(index, FileLimit) /\ FileOK(file)
  BY <1>1, CrashIndexIs DEF Agree
<1>3. index.m_list # <<>> /\ HEAD_SIZE <= Base(index) /\ FileLimit \in Nat
  BY <1>1, <1>2, EmptyExactly, Parameters DEF Agree, Covers
<1>4. PICK p, ix, R, lost : /\ p = Back(index) /\ ix = Deallocate(index, p)
                            /\ R = AllocatedRecords(index) /\ lost = Evicted
  OBVIOUS
<1>5. Allocd(index, p)
  BY <1>2, <1>3, <1>4, LastIsAllocated
<1>6. Sound(ix, FileLimit) /\ Deallocated(index, ix, p)
  BY <1>2, <1>3, <1>4, <1>5, DeallocateSound, DeallocateEffect DEF Allocd
<1>7. AllocatedRecords(ix) = R \ {index.heap[p]}
  BY <1>2, <1>4, <1>5, <1>6, DeallocatedRecords
<1>8. ix.m_list # <<>> => HEAD_SIZE <= Base(ix)
  BY <1>3, <1>6 DEF Deallocated
<1>9. Agree(ix, file)
  BY <1>2, <1>4, <1>6, <1>7, <1>8, FewerAgree
<1>10. committed' \in [Id -> SUBSET Data] /\ Fewer(committed, committed', lost)
  BY <1>4, TouchesNamed DEF ShrinkOnce
<1>11. Later(R, file, ix, file, lost)
  <2>1. ASSUME NEW b \in file.blobs, NEW r \in R, Holds(b, r), b.id \notin lost
        PROVE  r \in AllocatedRecords(ix)
    <3>1. b.offset # LastRecord(index).offset
      BY <1>4, <2>1 DEF Evicted
    <3>2. r # index.heap[p]
      BY <1>4, <2>1, <3>1 DEF Holds, LastRecord
    <3> QED
      BY <1>7, <3>2
  <2> QED
    BY <1>1, <1>2, <1>9, <2>1 DEF Later, Follows
<1>12. IF ix.m_alloc = {}
       THEN /\ index' = Clear(ix) /\ file' = EmptyFile
            /\ maxSize' = NoLimit /\ phase' = "open"
       ELSE /\ index' = ix /\ maxSize' = maxSize
            /\ IF Stops(ix)
               THEN file' = Trim(file, ProposedSize(ix)) /\ phase' = "open"
               ELSE file' = file /\ phase' = phase
  <2>1. FirstEqual(index, p) = p
    BY <1>2, <1>5, FirstByAddress DEF Allocd, Sound
  <2> QED
    BY <1>4, <2>1 DEF ShrinkOnce, Shrink
<1>13. CASE ix.m_alloc = {}
  <2>1. Husk(index')
    BY <1>6, <1>12, <1>13, ClearHusk
  <2>2. KeptBy(R, file, committed)
    BY <1>1, <1>4 DEF Consistent, Survivors
  <2>3. KeptBy(AllocatedRecords(ix), file, committed')
    BY <1>10, <1>11, <2>2, KeptLater
  <2>4. AllocatedRecords(ix) = {}
    BY <1>13 DEF AllocatedRecords
  <2>5. Uncommitted(committed')
    BY <1>10, <2>3, <2>4, NoneKept
  <2>7. FileOK(file') /\ Legal(file'.blobs) /\ file'.head = 0
    BY <1>12, <1>13, EmptyFileLegal
  <2> QED
    BY <1>1, <1>10, <1>12, <1>13, <2>1, <2>5, <2>7, HuskConsistent
<1>14. CASE ix.m_alloc # {} /\ Stops(ix)
  <2>1. PICK n : n = ProposedSize(ix)
    OBVIOUS
  <2>2. index' = ix /\ file' = Trim(file, n) /\ phase' = "open" /\ maxSize' = maxSize
    BY <1>12, <1>14, <2>1
  <2>3. ix.m_list # <<>>
    BY <1>6, <1>14, EmptyExactly
  <2>4. End(LastRecord(ix)) \in Nat /\ IndexSize(ix) \in Nat /\ IndexSize(ix) > 0
    BY <1>6, <2>3, LastRecordTypes, IndexSizeType
  <2>5. n \in Nat /\ End(LastRecord(ix)) <= n /\ HEAD_SIZE <= n
    <3>1. /\ Base(ix) \in Nat /\ HEAD_SIZE <= Base(ix) /\ HEAD_SIZE \in Nat
          /\ LastRecord(ix).offset \in Nat /\ Base(ix) <= LastRecord(ix).offset
          /\ LastRecord(ix).offset < End(LastRecord(ix))
      BY <1>6, <1>8, <2>3, LastRecordTypes, TornTypes
    <3> QED
      BY <2>1, <2>4, <3>1 DEF ProposedSize
  <2>6. \A r \in AllocatedRecords(ix) : End(r) \in Nat /\ End(r) <= n
    <3> SUFFICES ASSUME NEW r \in AllocatedRecords(ix)
                 PROVE  End(r) \in Nat /\ End(r) <= n
      OBVIOUS
    <3>1. End(r) \in Nat /\ End(r) <= End(LastRecord(ix))
      BY <1>6, AllocatedRecordTypes
    <3> QED
      BY <2>4, <2>5, <3>1
  <2>7. /\ Follows(AllocatedRecords(ix), file, file', {})
        /\ FileOK(file') /\ file'.size = n
    BY <1>1, <1>2, <2>2, <2>5, <2>6, TrimFollows
  <2>8. FileOK(file') /\ file'.size = n
    BY <2>7
  <2>9. Agree(ix, file')
    BY <1>6, <1>8, <2>5, <2>8 DEF Agree, Covers
  <2>10. Follows(R, file, file', lost)
    BY <1>11, <2>7, LaterFollows
  <2>11. Later(R, file, index', file', lost)
    BY <1>11, <2>2, <2>9, <2>10 DEF Later
  <2> QED
    BY <1>1, <1>4, <1>10, <2>2, <2>11, LaterConsistent
<1>15. CASE ix.m_alloc # {} /\ ~Stops(ix)
  <2>1. index' = ix /\ file' = file /\ phase' = "shrinking" /\ maxSize' = maxSize
    BY <1>1, <1>12, <1>15
  <2>2. Later(R, file, index', file', lost) /\ index'.m_alloc # {}
    BY <1>11, <1>15, <2>1
  <2> QED
    BY <1>1, <1>4, <1>10, <2>1, <2>2, LaterConsistent
<1> QED
  BY <1>13, <1>14, <1>15

\* From here on the code has no meaning.
LEMMA UndefinedStep ==
  ASSUME Consistent, (UseDangling /\ Untouched) \/ UseDeleted
  PROVE  Consistent'
<1>1. /\ phase \in {"open", "shrinking"} /\ phase' = "undefined"
      /\ index' = index /\ file' = file /\ maxSize' = maxSize
      /\ pending' = pending /\ committed' = committed
  BY DEF UseDangling, UseDeleted, Untouched, history
<1>2. CrashStructure'
  BY <1>1 DEF Consistent, CrashStructure
<1>3. Survivors'
  BY <1>1 DEF Consistent, Survivors
<1> QED
  BY <1>2, <1>3 DEF Consistent

-----------------------------------------------------------------------------
(* Opening a file that is damaged *)

\* The catch block empties the file, and the index of what has been loaded.
LEMMA CatchStep ==
  ASSUME Consistent, phase \in {"closed", "loading"}, Catch, Forgets
  PROVE  Consistent'
<1>1. /\ index' = Clear(index) /\ file' = EmptyFile /\ pending' = <<>>
      /\ phase' = "open" /\ maxSize' = maxSize
      /\ committed' = Nobody
      /\ maxSize \in MaxSize \cup {NoLimit}
  BY DEF Catch, Forgets, Consistent, CrashStructure
<1>3. Husk(index')
  BY <1>1, ClearHusk DEF Consistent, CrashStructure, Agree
<1>4. FileOK(file') /\ Legal(file'.blobs) /\ file'.head = 0
  BY <1>1, EmptyFileLegal
<1>5. /\ phase' \in {"open", "undefined"} /\ pending' \in Seq(Record)
      /\ committed' \in [Id -> SUBSET Data] /\ Uncommitted(committed')
  BY <1>1, NothingCommitted
<1> QED
  BY <1>1, <1>3, <1>4, <1>5, HuskConsistent

\* The damaged count is 0, or the file ends with it.
LEMMA OpenDamagedStep ==
  ASSUME Consistent, NEW h \in Leads, NEW n \in 0 .. MaxDamaged, OpenDamaged(h, n),
         tainted \in Nat, tainted' = tainted
  PROVE  Consistent'
<1>1. PICK count, counted :
        count = MakeRecord(h, 0, COUNT_SIZE) /\ counted = Read(file, count)
  OBVIOUS
<1>2. /\ phase = "closed" /\ h < file.size
      /\ index' = index /\ maxSize' = maxSize
      /\ file' = counted /\ pending' = pending /\ phase' \in {"open", "undefined"}
      /\ committed' = Nobody
  <2>1. tainted' # tainted + 1
    OBVIOUS
  <2> QED
    BY <1>1, <2>1 DEF OpenDamaged, Damaged
<1>3. /\ index = EmptyIndex /\ pending = <<>> /\ FileOK(file) /\ Legal(file.blobs)
      /\ maxSize \in MaxSize \cup {NoLimit}
      /\ file.size = 0 => file.head = 0
  BY <1>2 DEF Consistent, CrashStructure
<1>4. h \in Nat
  BY <1>3, FileTypes DEF Leads, Scrambled
<1>5. End(count) \in Nat /\ count.offset = h
  <2>1. COUNT_SIZE \in Nat
    BY HeapFileAssumption
  <2> QED
    BY <1>1, <1>4, <2>1 DEF MakeRecord, End
<1>6. Follows({}, file, counted, {})
  BY <1>1, <1>2, <1>3, <1>5, GrowFollows DEF Read
<1>7. FileOK(file') /\ Legal(file'.blobs) /\ (file'.size = 0 => file'.head = 0)
  BY <1>2, <1>3, <1>6 DEF Follows
<1>8. Husk(index')
  BY <1>2, <1>3 DEF Husk, EmptyIndex, IsIndex
<1>9. /\ committed' \in [Id -> SUBSET Data] /\ Uncommitted(committed')
      /\ maxSize' \in MaxSize \cup {NoLimit}
      /\ pending' = <<>> /\ pending' \in Seq(Record)
  BY <1>2, <1>3, NothingCommitted
<1> QED
  BY <1>2, <1>7, <1>8, <1>9, HuskConsistent

-----------------------------------------------------------------------------
(* Every step *)

LEMMA CallStep ==
  ASSUME FileLimit < U32, Consistent, Call, tainted = 0
  PROVE  Consistent'
<1>1. CASE OpenEmpty /\ Starts
  BY <1>1, OpenEmptyStep
<1>2. CASE Open /\ Untouched
  BY <1>2, OpenStep
<1>3. CASE LoadRecord /\ Untouched
  BY <1>3, LoadRecordStep
<1>4. CASE Close /\ Commits
  BY <1>4, CloseStep
<1>5. CASE \E id \in Id : CallOf(id)
  BY <1>5, EraseBlobStep, WriteIntoFreeStep, WriteAtEndStep DEF CallOf
<1>6. CASE \E id \in Id : Look(id)
  BY <1>6, LookStep
<1>7. CASE ClearFile /\ Forgets
  BY <1>7, ClearAllStep DEF ClearFile
<1>8. CASE \E m \in MaxSize : (SetMaxSize(m) \/ StartShrink(m)) /\ Untouched
  <2>1. /\ phase = "open" /\ index' = index /\ file' = file /\ pending' = pending
        /\ maxSize' \in MaxSize \cup {NoLimit}
        /\ phase' = "open" \/ (phase' = "shrinking" /\ index.m_alloc # {})
        /\ committed' = committed
    BY <1>8 DEF SetMaxSize, StartShrink, Untouched, history
  <2>2. committed' \in [Id -> SUBSET Data] /\ Fewer(committed, committed', {})
    BY <2>1 DEF Consistent, Survivors, Fewer
  <2> QED
    BY <2>1, <2>2, IdleConsistent
<1>9. CASE \E m \in MaxSize : SetMaxSizeOfEmpty(m) /\ Forgets
  BY <1>9, ClearAllStep DEF SetMaxSizeOfEmpty
<1>10. CASE ShrinkOnce
  BY <1>10, ShrinkStep
<1>11. CASE (UseDangling /\ Untouched) \/ UseDeleted
  BY <1>11, UndefinedStep
<1> QED
  BY <1>1, <1>2, <1>3, <1>4, <1>5, <1>6, <1>7, <1>8, <1>9, <1>10, <1>11 DEF Call

LEMMA RecoveryStep ==
  ASSUME Consistent, Recovery, tainted \in Nat, tainted' = tainted
  PROVE  Consistent'
<1>1. CASE OpenUncommitted
  BY <1>1, OpenEmptyStep
<1>2. CASE OpenThrows
  BY <1>2, CatchStep DEF OpenThrows, Damaged
<1>3. CASE \E h \in Leads, n \in 0 .. MaxDamaged : OpenDamaged(h, n)
  BY <1>3, OpenDamagedStep
<1>4. CASE LoadThrows
  BY <1>4, CatchStep DEF LoadThrows
<1> QED
  BY <1>1, <1>2, <1>3, <1>4 DEF Recovery

\* A step that loads no damaged table.
LEMMA ConsistentStep ==
  ASSUME FileLimit < U32, Consistent, [CrashNext]_allVars,
         tainted = 0, tainted' = tainted
  PROVE  Consistent'
<1>1. CASE Call
  BY <1>1, CallStep
<1>2. CASE Crash
  BY <1>2, CrashStep
<1>3. CASE \E id \in Id, data \in Data : CrashWriting(id, data)
  BY <1>3, CrashWritingStep
<1>4. CASE CrashCommitting
  BY <1>4, CrashCommittingStep
<1>5. CASE Recovery
  <2>1. tainted \in Nat
    OBVIOUS
  <2> QED
    BY <1>5, <2>1, RecoveryStep
<1>6. CASE UNCHANGED allVars
  <2>1. /\ index' = index /\ file' = file /\ maxSize' = maxSize
        /\ pending' = pending /\ phase' = phase
        /\ committed' = committed
    BY <1>6 DEF allVars, vars, history
  <2>2. CrashStructure'
    BY <2>1 DEF Consistent, CrashStructure
  <2>3. Survivors'
    BY <2>1 DEF Consistent, Survivors
  <2> QED
    BY <2>2, <2>3 DEF Consistent
<1> QED
  BY <1>1, <1>2, <1>3, <1>4, <1>5, <1>6 DEF CrashNext

-----------------------------------------------------------------------------
(* What is known of any program *)

\* A program that is open, or has come to what has no meaning.
LEMMA OpenBasics ==
  ASSUME maxSize' \in MaxSize \cup {NoLimit}, pending' = <<>>,
         phase' \in {"open", "shrinking", "undefined"}, tainted' \in 0 .. MaxTainted
  PROVE  Basics'
  BY DEF Basics

\* One that is dead.
LEMMA DeadBasics ==
  ASSUME Basics, NEW f, Die(f), tainted' = tainted
  PROVE  Basics'
  BY DEF Basics, Die

\* A call on a heap file that is open or being made smaller.
LEMMA UsingBasics ==
  ASSUME Basics, phase \in {"open", "shrinking"},
         phase' \in {"open", "shrinking", "undefined"}, pending' = pending,
         \/ maxSize' = maxSize
         \/ maxSize' \in MaxSize \cup {NoLimit},
         tainted' = tainted
  PROVE  Basics'
  BY OpenBasics DEF Basics

LEMMA CallBasics ==
  ASSUME Basics, Call
  PROVE  Basics' /\ (tainted' = tainted \/ (OpenEmpty /\ Starts /\ file = EmptyFile))
<1>1. 0 \in 0 .. MaxTainted
  BY CrashingHeapFileAssumption
<1>2. CASE OpenEmpty /\ Starts
  <2>1. /\ maxSize' = maxSize /\ phase = "closed" /\ phase' = "open"
        /\ pending' = pending
        /\ tainted' = tainted \/ (tainted' = 0 /\ file = EmptyFile)
    BY <1>2 DEF OpenEmpty, Starts
  <2>2. Basics'
    BY <1>1, <2>1, OpenBasics DEF Basics
  <2> QED
    BY <1>2, <2>1, <2>2
<1>3. CASE Open /\ Untouched
  BY <1>3 DEF Open, Untouched, history, Basics
<1>4. CASE LoadRecord /\ Untouched
  BY <1>4 DEF LoadRecord, Untouched, history, Basics
<1>5. CASE Close /\ Commits
  BY <1>5 DEF Close, Commits, Basics
<1>6. ASSUME NEW id \in Id, CallOf(id)
      PROVE  Basics' /\ tainted' = tainted
  <2>1. /\ phase = "open" /\ phase' = "open" /\ maxSize' = maxSize /\ pending' = pending
        /\ tainted' = tainted
    BY <1>6 DEF CallOf, EraseBlob, WriteIntoFree, WriteAtEnd, Touches
  <2> QED
    BY <2>1, UsingBasics
<1>7. ASSUME NEW id \in Id, Look(id)
      PROVE  Basics' /\ tainted' = tainted
  <2>1. /\ phase = "open" /\ phase' = "open" /\ maxSize' = maxSize /\ pending' = pending
        /\ tainted' = tainted
    BY <1>7 DEF Look, Untouched, history
  <2> QED
    BY <2>1, UsingBasics
<1>8. CASE ClearFile /\ Forgets
  BY <1>8, UsingBasics DEF ClearFile, ClearAll, Forgets
<1>9. CASE \E m \in MaxSize : (SetMaxSize(m) \/ StartShrink(m)) /\ Untouched
  BY <1>9, UsingBasics DEF SetMaxSize, StartShrink, Untouched, history
<1>10. CASE \E m \in MaxSize : SetMaxSizeOfEmpty(m) /\ Forgets
  BY <1>10, UsingBasics DEF SetMaxSizeOfEmpty, ClearAll, Forgets
<1>11. CASE ShrinkOnce
  <2>1. /\ phase = "shrinking" /\ phase' \in {"open", "shrinking"} /\ pending' = pending
        /\ maxSize' = maxSize \/ maxSize' = NoLimit
        /\ tainted' = tainted
    BY <1>11 DEF ShrinkOnce, Shrink, Touches
  <2> QED
    BY <2>1, UsingBasics
<1>12. CASE (UseDangling /\ Untouched) \/ UseDeleted
  BY <1>12, UsingBasics DEF UseDangling, UseDeleted, Untouched, history
<1> QED
  BY <1>2, <1>3, <1>4, <1>5, <1>6, <1>7, <1>8, <1>9, <1>10, <1>11, <1>12 DEF Call

LEMMA RecoveryBasics ==
  ASSUME Basics, Recovery
  PROVE  Basics' /\ (tainted' = tainted \/ tainted' = tainted + 1)
<1>1. CASE OpenUncommitted
  BY <1>1 DEF OpenUncommitted, Untouched, history, Basics
<1>2. CASE OpenThrows
  BY <1>2 DEF OpenThrows, Damaged, Catch, Forgets, Basics
<1>3. ASSUME NEW h \in Leads, NEW n \in 0 .. MaxDamaged, OpenDamaged(h, n)
      PROVE  Basics' /\ (tainted' = tainted \/ tainted' = tainted + 1)
  <2>1. /\ phase = "closed" /\ maxSize' = maxSize
        /\ \/ /\ phase' \in {"open", "undefined"} /\ pending' = pending
              /\ tainted' = tainted
           \/ /\ phase' = "loading" /\ tainted < MaxTainted /\ tainted' = tainted + 1
    BY <1>3 DEF OpenDamaged, Damaged
  <2>2. CASE tainted' = tainted /\ phase' \in {"open", "undefined"} /\ pending' = pending
    BY <2>1, <2>2 DEF Basics
  <2>3. CASE phase' = "loading" /\ tainted < MaxTainted /\ tainted' = tainted + 1
    <3>1. tainted' \in 0 .. MaxTainted
      BY <2>3, CrashingHeapFileAssumption DEF Basics
    <3> QED
      BY <2>1, <2>3, <3>1 DEF Basics
  <2> QED
    BY <2>1, <2>2, <2>3
<1>4. CASE LoadThrows
  BY <1>4 DEF LoadThrows, Catch, Forgets, Basics
<1> QED
  BY <1>1, <1>2, <1>3, <1>4 DEF Recovery

\* Every step keeps what is known, and only these change the count of the
\* damaged tables.
LEMMA BasicsStep ==
  ASSUME Basics, [CrashNext]_allVars
  PROVE  /\ Basics'
         /\ \/ tainted' = tainted \/ tainted' = tainted + 1
            \/ OpenEmpty /\ Starts /\ file = EmptyFile
<1>1. CASE Call
  BY <1>1, CallBasics
<1>2. CASE Crash
  BY <1>2, DeadBasics DEF Crash, Untouched, history
<1>3. CASE \E id \in Id, data \in Data : CrashWriting(id, data)
  <2>1. PICK id \in Id, data \in Data : CrashWriting(id, data)
    BY <1>3
  <2>2. tainted' = tainted
    BY <2>1 DEF CrashWriting, Touches
  <2>3. \E f : Die(f)
    BY <2>1 DEF CrashWriting, DieInBlock
  <2> QED
    BY <2>2, <2>3, DeadBasics
<1>4. CASE CrashCommitting
  <2>1. tainted' = tainted /\ \E f : Die(f)
    BY <1>4 DEF CrashCommitting, Untouched, history
  <2> QED
    BY <2>1, DeadBasics
<1>5. CASE Recovery
  BY <1>5, RecoveryBasics
<1>6. CASE UNCHANGED allVars
  BY <1>6 DEF allVars, vars, history, Basics
<1> QED
  BY <1>1, <1>2, <1>3, <1>4, <1>5, <1>6 DEF CrashNext

-----------------------------------------------------------------------------
(* The theorems *)

\* Every reachable state satisfies the invariant, whenever programs die: until
\* a damaged table is loaded, the index that a constructor makes of what is
\* left of the file agrees with it, and the objects that no call has named
\* since the last commit are where the table of that commit says.
THEOREM CrashInductive ==
  ASSUME FileLimit < U32
  PROVE  CrashSpec => []CrashIInv
<1>1. CrashInit => CrashIInv
  <2>1. CrashInit => Basics
    BY CrashingHeapFileAssumption DEF CrashInit, Init, Basics
  <2> QED
    BY <2>1, CrashInitConsistent DEF CrashIInv
<1>2. CrashIInv /\ [CrashNext]_allVars => CrashIInv'
  <2> SUFFICES ASSUME CrashIInv, [CrashNext]_allVars PROVE CrashIInv'
    OBVIOUS
  <2>1. /\ Basics /\ Basics' /\ tainted \in Nat
        /\ \/ tainted' = tainted \/ tainted' = tainted + 1
           \/ OpenEmpty /\ Starts /\ file = EmptyFile
    BY BasicsStep DEF CrashIInv, Basics
  <2>2. ASSUME tainted' = 0 PROVE Consistent'
    <3>1. CASE OpenEmpty /\ Starts /\ file = EmptyFile
      BY <2>1, <3>1, FreshStep
    <3>2. CASE tainted' = tainted
      BY <2>1, <2>2, <3>2, ConsistentStep DEF CrashIInv
    <3>3. tainted' # tainted + 1
      BY <2>1, <2>2
    <3> QED
      BY <2>1, <3>1, <3>2, <3>3
  <2> QED
    BY <2>1, <2>2 DEF CrashIInv
<1> QED
  BY <1>1, <1>2, PTL DEF CrashSpec

\* The members of the class and the file keep their types (heap_file.h), as
\* long as no damaged table is loaded.
THEOREM CrashTypeCorrect ==
  ASSUME FileLimit < U32
  PROVE  CrashSpec => [](tainted = 0 => CrashTypeOK)
<1>1. CrashIInv => (tainted = 0 => CrashTypeOK)
  <2> SUFFICES ASSUME Basics, Consistent PROVE CrashTypeOK
    BY DEF CrashIInv
  <2>1. IsIndex(index)
    BY DEF Consistent, CrashStructure, Agree, Sound, Shape, Husk
  <2>2. FileOK(file)
    BY DEF Consistent, CrashStructure
  <2>3. TypeOK
    BY <2>1, <2>2, FileTypes DEF Consistent, CrashStructure, TypeOK
  <2> QED
    BY <2>3 DEF Basics, Consistent, Survivors, CrashTypeOK
<1> QED
  BY <1>1, CrashInductive, PTL

\* Wherever a program has died, the index of the next one is sound again and
\* describes no more than the file has (findHeapIndex of heap_file.cpp), until
\* a constructor loads a damaged table, and again when the file is empty.
THEOREM RecoveredIndexAlwaysSound ==
  ASSUME FileLimit < U32
  PROVE  CrashSpec => []RecoveredIndexIsSound
<1>1. ASSUME Consistent PROVE IndexSound /\ FileCoversRecords
  <2>1. phase \in {"loading", "open", "shrinking"} /\ ~Dangling(index)
          => Agree(index, file)
    BY <1>1, CrashIndexIs DEF Consistent, CrashStructure
  <2>2. IndexSound
    BY <2>1 DEF IndexSound, Agree, Sound, Shape
  <2>3. FileCoversRecords
    BY <2>1 DEF FileCoversRecords, InUse, Agree, Covers
  <2> QED
    BY <2>2, <2>3
<1>2. CrashIInv => RecoveredIndexIsSound
  BY <1>1 DEF CrashIInv, RecoveredIndexIsSound
<1> QED
  BY <1>2, CrashInductive, PTL

\* While the table of the last commit is intact, the objects that no call has
\* named since can be read, no matter what has been split, merged, moved and
\* half written around them, nor how many programs have died of it.
THEOREM UntouchedAlwaysSurvive ==
  ASSUME FileLimit < U32
  PROVE  CrashSpec => []UntouchedSurvive
<1>1. ASSUME Consistent, phase = "closed", TableIsIntact,
             NEW id \in Id, NEW data \in committed[id]
      PROVE  data \in Readable(id)
  <2>1. Kept(file, committed)
    BY <1>1 DEF Consistent, Survivors
  <2>2. PICK b \in file.blobs : Remains(file, id, data, b)
    BY <2>1 DEF Kept
  <2>3. PICK t \in file.tables : t.offset = file.head
    BY <1>1 DEF TableIsIntact
  <2>4. PICK r \in ToSet(t.records) : Holds(b, r)
    BY <2>2, <2>3 DEF Remains, Held
  <2>5. r \in Records
    BY <1>1, <2>3, <2>4 DEF Records
  <2>6. b \in StoredBlobs /\ b.id = id /\ b.data = data
    BY <2>2, <2>4, <2>5 DEF StoredBlobs, Remains, Holds
  <2>7. r.offset = b.offset /\ r.key = Hash[id] /\ Within(b, r)
    BY <2>4, <2>6 DEF Holds, Within
  <2> QED
    BY <2>5, <2>6, <2>7 DEF Readable
<1>2. CrashIInv => UntouchedSurvive
  BY <1>1 DEF CrashIInv, UntouchedSurvive
<1> QED
  BY <1>2, CrashInductive, PTL
=============================================================================
