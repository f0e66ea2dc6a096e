--------------------------------- MODULE Blob ---------------------------------
(***************************************************************************)
(* How an object and its id are laid out in a block of the file and found  *)
(* there again (heap_blob.h, heap_blob.cpp): the length of the id in one   *)
(* byte, the id, the hash and the length of the data, and the data.        *)
(*                                                                         *)
(* A file is a sequence of bytes, and so is what is in it at an offset; a  *)
(* record has the offset and size of a block.  An id and an object are     *)
(* encrypted here; hosts are those of ByteOrder.                           *)
(***************************************************************************)
EXTENDS ByteOrder, Simple

\* Each byte of an id, of data and of a key is one that BitXor maps to a byte.
\* The factor of the hash, 33, is odd, and U32 is a power of two in C++.
ASSUME BlobAssumption ==
  /\ Word = 0 .. U32 - 1
  /\ \A a, b \in Byte : BitXor(a, b) \in Byte
  /\ \A a, b \in Word : (a * 32 + a) % U32 = (b * 32 + b) % U32 => a = b

\* What there is in the file at an offset, zeros behind its end.
At(bytes, offset, len) ==
  [i \in 1 .. len |-> IF offset + i <= Len(bytes) THEN bytes[offset + i] ELSE 0]

\* The file after bytes have been written at an offset.
Put(file, offset, bytes) ==
  [i \in DOMAIN file |-> IF i - offset \in DOMAIN bytes THEN bytes[i - offset]
                         ELSE file[i]]

-----------------------------------------------------------------------------

Overhead == W + W + 1

\* (fault) the size is not one of a uint32_t
BlobSizeUnbounded(idSize, dataSize) == Overhead + idSize + dataSize

BlobSize(idSize, dataSize) == (Overhead + idSize + dataSize) % U32

\* (fault) the hash is not multiplied: it is shifted only
HashShifted(bytes) == FoldLeft(LAMBDA h, b : BitXor((h * 32) % U32, b), 5381 % U32, bytes)

\* hash: djb2 with exclusive or, modulo the values of a uint32_t.
Hash(bytes) ==
  FoldLeft(LAMBDA h, b : BitXor((h * 32 + h) % U32, b), 5381 % U32, bytes)

-----------------------------------------------------------------------------
(* writeData *)

\* (fault) there is no assertion
FitsAlways(rec, id, data) == TRUE

\* What writeData asserts.
Fits(rec, id, data) == Overhead + Len(id) + Len(data) <= rec.size

\* Longer ids are refused: their length is not that of an IdSizeType.
IdIsStorable(id) == Len(id) < BYTE

WriteData(host, file, rec, id, data) ==
  Put(file, rec.offset,
      <<Len(id)>> \o id \o WriteH2N(host, Hash(data), W)
                  \o WriteH2N(host, Len(data), W) \o data)

-----------------------------------------------------------------------------
(* hasId and getData *)

IdSize(file, rec) == At(file, rec.offset, 1)[1]

StoredId(file, rec) == At(file, rec.offset + 1, IdSize(file, rec))

\* The comparison is made only for an id of the stored length, which is not
\* to be longer than the block.
ComparesId(file, rec, id) == Len(id) = IdSize(file, rec) /\ IdSize(file, rec) <= rec.size

HasId(file, rec, id) == ComparesId(file, rec, id) /\ StoredId(file, rec) = id

HashAt(rec, idSize)     == rec.offset + 1 + idSize
DataSizeAt(rec, idSize) == HashAt(rec, idSize) + W
DataAt(rec, idSize)     == DataSizeAt(rec, idSize) + W

StoredHash(host, file, rec) ==
  ReadN2H(host, At(file, HashAt(rec, IdSize(file, rec)), W))

DataSize(host, file, rec) ==
  ReadN2H(host, At(file, DataSizeAt(rec, IdSize(file, rec)), W))

StoredData(host, file, rec) ==
  At(file, DataAt(rec, IdSize(file, rec)), DataSize(host, file, rec))

HeaderFits(file, rec) == IdSize(file, rec) + Overhead <= rec.size

\* (fault) the data may be as long as the whole block
DataFitsAlone(host, file, rec) == DataSize(host, file, rec) <= rec.size

DataFits(host, file, rec) ==
  DataSize(host, file, rec) <= rec.size - Overhead - IdSize(file, rec)

\* The data that getData hands to its reader: none if the block cannot hold
\* what it says or if the hash is not that of the data.
GetData(host, file, rec) ==
  {data \in {StoredData(host, file, rec)} :
     /\ HeaderFits(file, rec)
     /\ DataFits(host, file, rec)
     /\ Hash(data) = StoredHash(host, file, rec)}

\* How far from the start of the block hasId and getData read.
HasIdReads(file, rec, id) ==
  1 + IF ComparesId(file, rec, id) THEN IdSize(file, rec) ELSE 0

GetDataReads(host, file, rec) ==
  IF ~HeaderFits(file, rec) THEN 1
  ELSE Overhead + IdSize(file, rec)
       + IF DataFits(host, file, rec) THEN DataSize(host, file, rec) ELSE 0
=============================================================================
