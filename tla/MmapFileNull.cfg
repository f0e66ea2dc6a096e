CONSTANTS
  PageSize = 4
  Offset = {0, 3, 4, 6}
  Size = {1, 4}
  Keep = {3, 4}
  Byte = {1}
  Fails = {"mmap"}
SPECIFICATION Spec
INVARIANT PointersAreNotNull
CHECK_DEADLOCK FALSE
