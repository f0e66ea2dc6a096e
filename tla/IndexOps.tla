------------------------------ MODULE IndexOps ------------------------------
(***************************************************************************)
(* The data structure of class HeapIndex (heap_index.h, heap_index.cpp)    *)
(* and its operations, as constant-level operators on an index value, so   *)
(* that module HeapIndex can drive them one call at a time and module      *)
(* HeapFile can chain several calls inside one of its own operations.      *)
(*                                                                         *)
(* An index value ix has the three containers of the class and the part of *)
(* the C++ heap they point into:                                           *)
(*   ix.m_list   the std::list<Record *>, a sequence of addresses          *)
(*   ix.m_alloc  the multimap by Record::key(),  a set of <<key,  address>>*)
(*   ix.m_free   the multimap by Record::size(), a set of <<size, address>>*)
(*   ix.heap     the live Record objects, a function from addresses        *)
(* An address outside DOMAIN ix.heap has been deleted (or never returned   *)
(* by new).  A multimap entry keeps the key it was inserted under, so a    *)
(* record changed while it is filed would be a stale entry, as in the code.*)
(***************************************************************************)
EXTENDS Integers, Sequences, SequencesExt

CONSTANTS
  Ptr,       \* the addresses `new Record' may return
  Key,       \* the hash codes of object ids
  MIN_SIZE,  \* Record::MIN_SIZE, the smallest block handed out
  U32        \* the number of values of a uint32_t

ASSUME IndexAssumption ==
  /\ Key \subseteq Nat
  /\ 0 \in Key
  /\ MIN_SIZE \in Nat \ {0}
  /\ U32 \in Nat \ {0}

-----------------------------------------------------------------------------
(* class Record *)

Record == [offset : Nat, key : Key, size : Nat]

MakeRecord(offset, key, size) == [offset |-> offset, key |-> key, size |-> size]

\* One past the last byte of the blob a record describes.
End(r) == r.offset + r.size

SharesRightBoundary(lhs, rhs) == End(lhs) = rhs.offset

\* Record::Record(lhs, rhs): the free record that fills the hole between two.
GapRecord(lhs, rhs) == MakeRecord(End(lhs), 0, (rhs.offset - End(lhs)) % U32)

\* (fault) the offset of the absorbed record is ignored
CoalesceSizeOnly(r, s) == [r EXCEPT !.size = (@ + s.size) % U32]

\* Record::coalesce: r absorbs an adjacent record; m_size is a uint32_t.
Coalesce(r, s) ==
  [r EXCEPT !.offset = IF s.offset < @ THEN s.offset ELSE @,
            !.size   = (@ + s.size) % U32]

\* Record::splitOffLeft: the new left part, and what remains of r.
\* (fault) the new left part keeps the size of the whole
LeftPartWhole(r, size) == MakeRecord(r.offset, 0, r.size)

LeftPart(r, size)  == MakeRecord(r.offset, 0, size)

\* (fault) the operands of the subtraction are swapped
RightPartSwapped(r, size) == [r EXCEPT !.offset = @ + size, !.size = size - @]

RightPart(r, size) == [r EXCEPT !.offset = @ + size, !.size = @ - size]

\* (fault) min for max
AtMostMinSize(size) == IF size < MIN_SIZE THEN size ELSE MIN_SIZE

AtLeastMinSize(size) == IF size < MIN_SIZE THEN MIN_SIZE ELSE size

-----------------------------------------------------------------------------
(* class HeapIndex: construction and observers *)

EmptyIndex ==
  [m_list |-> <<>>, m_alloc |-> {}, m_free |-> {}, heap |-> [p \in {} |-> {}]]

\* Addresses the next `new Record' may return: those in use it does not, and one
\* that m_alloc still names after a delete had better not be used either.
Fresh(ix) == Ptr \ (DOMAIN ix.heap \cup {e[2] : e \in ix.m_alloc})

Back(ix) == Last(ix.m_list)

LastRecord(ix) == ix.heap[Back(ix)]

AllocEntry(ix, p) == <<ix.heap[p].key, p>>

FreeEntry(ix, p) == <<ix.heap[p].size, p>>

\* A record in m_list whose object has been deleted.
Dangling(ix) == \E i \in DOMAIN ix.m_list : ix.m_list[i] \notin DOMAIN ix.heap

-----------------------------------------------------------------------------
(* HeapIndex::addAllocatedBlock *)

Push(ix, p, r) ==
  [ix EXCEPT !.m_list = Append(@, p),
             !.heap   = [x \in DOMAIN @ \cup {p} |-> IF x = p THEN r ELSE @[x]]]

PushAllocated(ix, p, r) ==
  [Push(ix, p, r) EXCEPT !.m_alloc = @ \cup {<<r.key, p>>}]

PushFree(ix, p, r) ==
  [Push(ix, p, r) EXCEPT !.m_free = @ \cup {<<r.size, p>>}]

\* The record constructor throws when the new block starts before the end of
\* the last one; both arguments are then released and nothing is changed.
Overlaps(ix, r) == ix.m_list # <<>> /\ r.offset < End(LastRecord(ix))

\* p is the address of the caller's record, g the one the hole's record gets.
AddAllocatedBlock(ix, p, g, r) ==
  IF ix.m_list = <<>> \/ SharesRightBoundary(LastRecord(ix), r)
  THEN PushAllocated(ix, p, r)
  ELSE PushAllocated(PushFree(ix, g, GapRecord(LastRecord(ix), r)), p, r)

\* HeapIndex::isFree: is a record of this value filed as free?
IsFree(ix, p) ==
  \E e \in ix.m_free : e[1] = ix.heap[p].size /\ ix.heap[e[2]] = ix.heap[p]

-----------------------------------------------------------------------------
(* HeapIndex::allocate *)

\* m_free.lower_bound(size): an entry with the smallest sufficient size.  The
\* order of equal keys in a multimap is not specified by C++98: any of them.
LowerBound(ix, size) ==
  {e \in ix.m_free : /\ size <= e[1]
                     /\ \A f \in ix.m_free : size <= f[1] => e[1] <= f[1]}

\* Would the remainder be too small to become a block of its own?
TakesWhole(r, size) == size > r.size - MIN_SIZE

\* (fault) the block stays in m_free
TakeWholeKept(ix, e, key) ==
  [ix EXCEPT !.m_alloc = @ \cup {<<key, e[2]>>},
             !.heap    = [@ EXCEPT ![e[2]].key = key]]

TakeWhole(ix, e, key) ==
  [ix EXCEPT !.m_alloc = @ \cup {<<key, e[2]>>},
             !.m_free  = @ \ {e},
             !.heap    = [@ EXCEPT ![e[2]].key = key]]

\* The index of the record at address p, found by its offset in the code.
PositionOf(ix, p) == CHOOSE i \in DOMAIN ix.m_list : ix.m_list[i] = p

TakeLeft(ix, e, size, key, p) ==
  LET q == e[2]
      r == ix.heap[q]
  IN [ix EXCEPT
        !.m_list  = InsertAt(@, PositionOf(ix, q), p),
        !.m_alloc = @ \cup {<<key, p>>},
        !.m_free  = (@ \ {e}) \cup {<<r.size - size, q>>},
        !.heap    = [x \in DOMAIN @ \cup {p} |->
                       CASE x = p -> [LeftPart(r, size) EXCEPT !.key = key]
                         [] x = q -> RightPart(r, size)
                         [] OTHER -> @[x]]]

\* e is the entry of lower_bound, p the address a split's new record gets.
Allocate(ix, e, size, key, p) ==
  IF TakesWhole(ix.heap[e[2]], size)
  THEN TakeWhole(ix, e, key)
  ELSE TakeLeft(ix, e, size, key, p)

\* The record Allocate returns.
Allocated(ix, e, size, p) == IF TakesWhole(ix.heap[e[2]], size) THEN e[2] ELSE p

-----------------------------------------------------------------------------
(* HeapIndex::deallocate *)

\* One side of HeapIndex::coalesce: p swallows the i-th record if it is free.
Absorb(ix, p, i) ==
  LET q == ix.m_list[i] IN
  IF FreeEntry(ix, q) \notin ix.m_free THEN ix
  ELSE [ix EXCEPT
          !.m_list = RemoveAt(@, i),
          !.m_free = @ \ {FreeEntry(ix, q)},
          !.heap   = [x \in DOMAIN @ \ {q} |->
                        IF x = p THEN Coalesce(@[p], @[q]) ELSE @[x]]]

\* (fault) one side is never merged
CoalesceNothing(ix, p) == ix

CoalesceLeft(ix, p) ==
  LET i == PositionOf(ix, p) IN IF i = 1 THEN ix ELSE Absorb(ix, p, i - 1)

CoalesceRight(ix, p) ==
  LET i == PositionOf(ix, p)
  IN  IF i = Len(ix.m_list) THEN ix ELSE Absorb(ix, p, i + 1)

\* (fault) the last record is filed as free like any other
RetireFiled(ix, p) == [ix EXCEPT !.m_free = @ \cup {FreeEntry(ix, p)}]

\* HeapIndex::isLast and the same comparison in deallocate: by value.
IsLast(ix, p) == ix.m_list # <<>> /\ ix.heap[p] = LastRecord(ix)

\* (fault) the last record is deleted but not popped
RetireUnpopped(ix, p) ==
  IF IsLast(ix, p)
  THEN [ix EXCEPT !.heap = [x \in DOMAIN @ \ {Back(ix)} |-> @[x]]]
  ELSE [ix EXCEPT !.m_free = @ \cup {FreeEntry(ix, p)}]

\* The record at p is in neither multimap: file it, unless it equals the last
\* one, which is then dropped.  Where records are equal that is another record.
Retire(ix, p) ==
  IF IsLast(ix, p)
  THEN [ix EXCEPT !.m_list = Front(@),
                  !.heap   = [x \in DOMAIN @ \ {Back(ix)} |-> @[x]]]
  ELSE [ix EXCEPT !.m_free = @ \cup {FreeEntry(ix, p)}]

\* The records equal to the one at p that is first in the list: the one that
\* deallocate finds by the value of its argument.  Equal keys keep the order of
\* insertion in m_alloc, and any other than the first fails an assertion of
\* coalesce (heap_index.cpp:206).
FirstEqual(ix, p) ==
  LET equal == {i \in DOMAIN ix.m_list : ix.heap[ix.m_list[i]] = ix.heap[p]}
  IN  ix.m_list[CHOOSE i \in equal : \A j \in equal : i <= j]

\* p is the first record equal to the argument; one that is not filed as
\* allocated is left alone and the call returns false.
Unfile(ix, p) == [ix EXCEPT !.m_alloc = @ \ {AllocEntry(ix, p)}]

Deallocate(ix, p) ==
  IF AllocEntry(ix, p) \notin ix.m_alloc THEN ix
  ELSE Retire(CoalesceRight(CoalesceLeft(Unfile(ix, p), p), p), p)

-----------------------------------------------------------------------------
(* HeapIndex::clear *)

\* The maps are emptied and every listed record is deleted; m_list is kept.
Clear(ix) ==
  [ix EXCEPT !.m_alloc = {},
             !.m_free  = {},
             !.heap    = [x \in DOMAIN @ \ ToSet(ix.m_list) |-> @[x]]]

-----------------------------------------------------------------------------
(* What the containers of an index must agree on *)

IsIndex(ix) ==
  /\ ix \in [m_list : Seq(Ptr), m_alloc : SUBSET (Key \X Ptr),
             m_free : SUBSET (Nat \X Ptr), heap : {ix.heap}]
  /\ DOMAIN ix.heap \subseteq Ptr
  /\ ix.heap \in [DOMAIN ix.heap -> Record]

\* Every live record is listed exactly once and every listed record is live.
Listed(ix) ==
  /\ ToSet(ix.m_list) = DOMAIN ix.heap
  /\ \A i, j \in DOMAIN ix.m_list : ix.m_list[i] = ix.m_list[j] => i = j

\* The blobs described by the list cover one range of the file, in order.
Tiled(ix) ==
  /\ \A i \in DOMAIN ix.m_list : ix.heap[ix.m_list[i]].size > 0
  /\ \A i \in DOMAIN ix.m_list : i > 1 =>
       SharesRightBoundary(ix.heap[ix.m_list[i - 1]], ix.heap[ix.m_list[i]])

\* Every live record is filed in exactly one multimap, under its current key
\* or size, and the multimaps hold nothing else.
Filed(ix) ==
  /\ \A p \in DOMAIN ix.heap :
       (AllocEntry(ix, p) \in ix.m_alloc) # (FreeEntry(ix, p) \in ix.m_free)
  /\ \A e \in ix.m_alloc : e[2] \in DOMAIN ix.heap /\ e = AllocEntry(ix, e[2])
  /\ \A e \in ix.m_free  : e[2] \in DOMAIN ix.heap /\ e = FreeEntry(ix, e[2])

FiledFree(ix, p) == FreeEntry(ix, p) \in ix.m_free

\* No two neighbours are free and the last record is never free.
Coalesced(ix) ==
  /\ \A i \in DOMAIN ix.m_list : i > 1 =>
       ~(FiledFree(ix, ix.m_list[i - 1]) /\ FiledFree(ix, ix.m_list[i]))
  /\ ix.m_list # <<>> => ~FiledFree(ix, Back(ix))
=============================================================================
