CONSTANTS
  Ptr = {p1, p2, p3, p4, p5}
  Key = {0, 1}
  MIN_SIZE = 2
  U32 = 64
  Gap = {0, 1, 3}
  BlockSize = {1, 3}
  Request = {0, 3, 4}
  Start = {1}
  Limit = 10
SPECIFICATION Spec
SYMMETRY Symmetry
INVARIANT TypeOK
INVARIANT ListTiles
INVARIANT FiledOnce
INVARIANT FreeIsCoalesced
INVARIANT OnlyClearDangles
PROPERTY BaseNeverMoves
PROPERTY ImplementsAllocator
CHECK_DEADLOCK FALSE
