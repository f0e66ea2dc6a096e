\* Four values of a uint32_t: two adjacent blocks outgrow m_size.
CONSTANTS
  Ptr = {p1, p2, p3, p4}
  Key = {0, 1}
  MIN_SIZE = 2
  U32 = 4
  Gap = {0}
  BlockSize = {1, 3}
  Request = {3}
  Start = {1}
  Limit = 10
SPECIFICATION Spec
SYMMETRY Symmetry
INVARIANT ListTiles
CHECK_DEADLOCK FALSE
