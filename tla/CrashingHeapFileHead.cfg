CONSTANTS
  Ptr = {p1, p2, p3, p4, p5}
  Key = {0, 1}
  MIN_SIZE = 2
  U32 = 64
  Id = {1, 2, 3}
  LongId = {3}
  Data = {2, 3}
  Hash <- MCHash
  BlobSize <- MCBlobSize
  ID_SIZE = 2
  HEAD_SIZE = 1
  COUNT_SIZE = 1
  SERIALIZED_SIZE = 1
  MaxSize = {6}
  NoLimit = 99
  FileLimit = 7
  DamagedRecord <- MCDamagedRecord
  MaxDamaged = 2
  MaxTainted = 1
SPECIFICATION CrashSpec
INVARIANT HeadIsReserved
CHECK_DEADLOCK FALSE
