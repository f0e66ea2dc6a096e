------------------------------ MODULE DiskFormat ------------------------------
(***************************************************************************)
(* A heap file byte by byte: the head, the block of an object and the      *)
(* table, written and read by programs on several hosts and with several   *)
(* keys, one after another (heap_file.cpp, with Blob, Record::serialize,   *)
(* Simple and ByteOrder).  A byte of the block may change while no program *)
(* has the file open.                                                      *)
(*                                                                         *)
(* What the index does with many records is in HeapFile.  Here it has one  *)
(* at most, at the start of the file, in a block of the size the object    *)
(* needs or some bytes more, as a free block may have them.                *)
(***************************************************************************)
EXTENDS Blob

CONSTANTS
  MIN_SIZE,  \* Record::MIN_SIZE
  Id,        \* ids that callers name
  Data,      \* objects that callers write
  Key,       \* encryption keys
  Slack      \* bytes by which a block may be larger than necessary

\* An IdSizeType is less than MIN_SIZE.  Blocks and objects are smaller than
\* 4 GiB.
ASSUME DiskFormatAssumption ==
  /\ MIN_SIZE \in Nat /\ MIN_SIZE >= BYTE /\ MIN_SIZE < U32
  /\ Id \cup Data \cup Key \subseteq Seq(Byte)
  /\ \A data \in Data : Len(data) < U32
  /\ Host # {}
  /\ Slack \subseteq 0 .. MIN_SIZE - 1

VARIABLES
  file,     \* the bytes of the file
  records,  \* the records of the index, one at most
  host,     \* where the program runs; any host while none does
  key,      \* the key it was given; empty while none runs
  phase,    \* "closed", "open", or "aborted" by an assertion
  object,   \* the object in the file: its id, data, key and record, if any
  damaged   \* the places in the file where a byte has changed since

vars == <<file, records, host, key, phase, object, damaged>>

Record == [offset : Nat, key : Word, size : Word]

End(r) == r.offset + r.size

InBlock(r, i) == r.offset < i /\ i <= End(r)

HEAD_SIZE == 2 * W
SERIALIZED_SIZE == 4 * W
IndexSize(n) == W + n * SERIALIZED_SIZE

\* ftruncate.
Resize(bytes, n) == At(bytes, 0, n)

\* Record::serialize and deserialize.  C++ does not say in which order the
\* operands of + are evaluated; compilers in use go from left to right.
Serialize(r) ==
  WriteH2N(host, r.offset, 2 * W) \o WriteH2N(host, r.key, W)
                                  \o WriteH2N(host, r.size, W)

Deserialize(h, bytes) ==
  [offset |-> ReadN2H(h, SubSeq(bytes, 1, 2 * W)),
   key    |-> ReadN2H(h, SubSeq(bytes, 2 * W + 1, 3 * W)),
   size   |-> ReadN2H(h, SubSeq(bytes, 3 * W + 1, 4 * W))]

-----------------------------------------------------------------------------
(* hasBlob and getBlob *)

\* findBlob: the records it may return.
FindBlob(id) ==
  {r \in ToSet(records) : r.key = Hash(id) /\ HasId(file, r, id)}

HasBlob(clearId) == FindBlob(Encrypt(key, clearId)) # {}

\* The objects getBlob may return: none or one.
GetBlob(clearId) ==
  UNION {{Decrypt(key, data) : data \in GetData(host, file, r)} :
           r \in FindBlob(Encrypt(key, clearId))}

-----------------------------------------------------------------------------

NoObject == {}

AnyHost == CHOOSE h \in Host : TRUE

Init ==
  /\ file = <<>>
  /\ records = <<>>
  /\ host = AnyHost
  /\ key = <<>>
  /\ phase = "closed"
  /\ object = NoObject
  /\ damaged = {}

\* The constructor: the head leads to a count and as many records.  A head
\* that leads behind the end of the file throws, and the file is emptied.
Open(h, k) ==
  LET head  == ReadN2H(h, At(file, 0, HEAD_SIZE))
      count == ReadN2H(h, At(file, head, W))
      table == head + W
  IN
  /\ phase = "closed"
  /\ phase' = "open"
  /\ host' = h
  /\ key' = k
  /\ IF head < Len(file)
     THEN /\ records' = [i \in 1 .. count |->
               Deserialize(h, At(file, table + (i - 1) * SERIALIZED_SIZE,
                                 SERIALIZED_SIZE))]
          /\ UNCHANGED file
     ELSE records' = <<>> /\ file' = <<>>
  /\ UNCHANGED <<object, damaged>>

\* The destructor: an empty file, or head and table.
Close ==
  /\ phase = "open"
  /\ phase' = "closed"
  /\ file' = IF records = <<>> THEN <<>>
             ELSE LET end == End(records[1])
                      f   == Resize(file, end + IndexSize(1))
                  IN  Put(Put(f, 0, WriteH2N(host, end, HEAD_SIZE)),
                          end, WriteH2N(host, 1, W) \o Serialize(records[1]))
  /\ records' = <<>>
  /\ host' = AnyHost
  /\ key' = <<>>
  /\ UNCHANGED <<object, damaged>>

\* release: what is left is room for the head and an empty index.
Released == Resize(file, HEAD_SIZE + IndexSize(0))

EraseBlob(clearId) ==
  /\ phase = "open"
  /\ HasBlob(clearId)
  /\ file' = Released
  /\ records' = <<>>
  /\ object' = NoObject
  /\ damaged' = {}
  /\ UNCHANGED <<host, key, phase>>

\* writeBlob, for the id in the file or when there is none.  A free block that
\* is larger than necessary is still one that a Record can describe.
WriteBlob(clearId, data, slack) ==
  LET id   == Encrypt(key, clearId)
      size == BlobSize(Len(id), Len(data))
      r    == [offset |-> HEAD_SIZE, key |-> Hash(id),
               size   |-> (IF size < MIN_SIZE THEN MIN_SIZE ELSE size) + slack]
      f    == Resize(IF records = <<>> THEN file ELSE Released,
                     End(r) + IndexSize(1))
  IN
  /\ phase = "open"
  /\ records = <<>> \/ HasBlob(clearId)
  /\ slack = 0 \/ r.size \in Word
  /\ damaged' = {}
  /\ CASE ~Fits(r, id, data) ->
            /\ phase' = "aborted"
            /\ file' = f
            /\ records' = <<r>>
            /\ object' = NoObject
       [] Fits(r, id, data) /\ ~IdIsStorable(id) ->
            /\ file' = Resize(f, HEAD_SIZE + IndexSize(0))
            /\ records' = <<>>
            /\ object' = NoObject
            /\ UNCHANGED phase
       [] OTHER ->
            /\ file' = WriteData(host, f, r, id, Encrypt(key, data))
            /\ records' = <<r>>
            /\ object' = {[id |-> clearId, data |-> data, key |-> key, record |-> r]}
            /\ UNCHANGED phase
  /\ UNCHANGED <<host, key>>

\* One byte of the block changes.
Damage(i, byte) ==
  /\ phase = "closed"
  /\ damaged = {}
  /\ i \in DOMAIN file
  /\ file[i] # byte
  /\ \E o \in object : InBlock(o.record, i)
  /\ file' = [file EXCEPT ![i] = byte]
  /\ damaged' = {i}
  /\ UNCHANGED <<records, host, key, phase, object>>

Next ==
  \/ \E h \in Host, k \in Key : Open(h, k)
  \/ Close
  \/ \E id \in Id : EraseBlob(id)
  \/ \E id \in Id, data \in Data, slack \in Slack : WriteBlob(id, data, slack)
  \/ \E i \in DOMAIN file, byte \in Byte : Damage(i, byte)

Spec == Init /\ [][Next]_vars

-----------------------------------------------------------------------------
(* Properties *)

\* What is in the file are bytes, and what is in the index are records whose
\* members have the width they have in the file.
TypeOK ==
  /\ file \in Seq(Byte)
  /\ records \in Seq(Record) /\ Len(records) <= 1
  /\ host \in Host
  /\ key \in Key \cup {<<>>}
  /\ phase \in {"closed", "open", "aborted"}

\* An object is read back, under its id only, by a program with the key that
\* wrote it, on any host and after any number of commits on others.
ReadsBack ==
  phase = "open" /\ damaged = {} =>
    \A o \in object : key = o.key =>
      \A id \in Id : GetBlob(id) = IF id = o.id THEN {o.data} ELSE {}

\* "The hash is used to test for corruption of data" (heap_blob.h): wherever
\* in the block a byte has changed, and to whatever, its object is read as it
\* was or not at all.  A changed length of the data is excepted: the hash of
\* fewer or more bytes may be the same.
DataSizeField(r, id) ==
  LET at == DataSizeAt(r, Len(id)) IN at + 1 .. at + W

OneDamagedByteIsDetected ==
  phase = "open" =>
    \A o \in object :
      key = o.key /\ damaged \cap DataSizeField(o.record, o.id) = {} =>
        GetBlob(o.id) \subseteq {o.data}

\* Reading never leaves the block, whatever byte of it has changed: not even
\* for the id, whose length hasId compares with that of the block and not of
\* what is left of it behind the length.
ReadsStayInBlock ==
  phase = "open" =>
    \A r \in ToSet(records) :
      /\ GetDataReads(host, file, r) <= r.size
      /\ \A id \in Id : HasIdReads(file, r, Encrypt(key, id)) <= r.size

\* A write changes no byte of the file outside the block of the object, save
\* that cutting and growing the file leave zeros: also when the size has
\* wrapped and the block is smaller than the object.
WritesStayInBlock ==
  [][phase = "open" /\ phase' # "closed" =>
       \A r \in ToSet(records') : \A i \in DOMAIN file' :
         InBlock(r, i) \/ file'[i] \in {0, At(file, 0, i)[i]}]_vars

-----------------------------------------------------------------------------
(* Properties the documentation states and the code does not have *)

\* "If the wrong encryption key is used, the heap file will behave as if it
\* were empty" (heap_file.h), even if the empty id, which is the same under
\* every key, is left aside.
WrongKeyFindsNothing ==
  phase = "open" =>
    \A o \in object : key # o.key => \A id \in Id \ {<<>>} : ~HasBlob(id)
=============================================================================
