CONSTANTS
  PageSize = 4
  Offset = {0, 3, 4, 6}
  Size = {1, 4}
  Keep = {3, 4}
  Byte = {1}
  Fails = {"ftruncate", "mmap"}
SPECIFICATION Spec
INVARIANT TypeOK
INVARIANT SizeIsTrue
INVARIANT PointersLeadToRange
PROPERTY SubrangesKeepPointers
PROPERTY ImplementsByteFile
CHECK_DEADLOCK FALSE
