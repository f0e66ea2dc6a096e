CONSTANTS
  Ptr = {p1, p2, p3, p4, p5}
  Key = {0, 1}
  MIN_SIZE = 2
  U32 = 64
  Id = {1, 2, 3, 4}
  LongId = {4}
  Data = {1, 3}
  Hash <- MCHash
  BlobSize <- MCBlobSize
  ID_SIZE = 1
  HEAD_SIZE = 1
  COUNT_SIZE = 1
  SERIALIZED_SIZE = 1
  MaxSize = {0, 7}
  NoLimit = 99
  FileLimit = 7
SPECIFICATION Spec
SYMMETRY Symmetry
INVARIANT TypeOK
INVARIANT IndexSound
INVARIANT FileCoversRecords
INVARIANT RecordsHoldBlobs
INVARIANT IdsAreUnique
INVARIANT CommitIsReadable
INVARIANT CommittedLoads
PROPERTY ImplementsBlobStore
PROPERTY EachCallDoesItsOwn
PROPERTY ShrinksBelowLimit
CHECK_DEADLOCK FALSE
