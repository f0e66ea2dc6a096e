CONSTANTS
  Ptr = {p1, p2, p3}
  Key = {0, 1}
  MIN_SIZE = 2
  U32 = 64
  Gap = {0}
  BlockSize = {1, 3}
  Request = {3}
  Start = {1}
  Limit = 10
SPECIFICATION Spec
SYMMETRY Symmetry
INVARIANT ClearsEntirely
CHECK_DEADLOCK FALSE
