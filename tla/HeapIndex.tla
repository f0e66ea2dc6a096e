------------------------------ MODULE HeapIndex ------------------------------
(***************************************************************************)
(* The state machine of one HeapIndex object: any sequence of calls of its *)
(* public operations a caller may make.  The class is not thread safe and  *)
(* nothing in the library calls it concurrently: a call is one step.       *)
(***************************************************************************)
EXTENDS IndexOps

CONSTANTS
  Gap,       \* holes a caller may leave in front of an added block
  BlockSize, \* sizes of added blocks
  Request,   \* sizes passed to allocate
  Start,     \* offsets of the first block
  Limit      \* bound: no block ends past this offset

ASSUME HeapIndexAssumption ==
  /\ Gap \subseteq Nat
  /\ BlockSize \subseteq Nat \ {0}
  /\ Request \subseteq Nat
  /\ Start \subseteq Nat
  /\ Limit \in Nat

VARIABLES
  index,  \* the object's containers and records
  ub      \* has the object dereferenced or deleted a deleted record?

vars == <<index, ub>>

Init == index = EmptyIndex /\ ub = FALSE

AddedAt == IF index.m_list = <<>> THEN Start
           ELSE {End(LastRecord(index)) + gap : gap \in Gap}

\* addAllocatedBlock.  A block that starts before the end of the last one
\* makes it throw and changes nothing (Overlaps): a stuttering step.
AddBlock(size, key) ==
  /\ ~ub
  /\ ~Dangling(index)
  /\ \E offset \in AddedAt, p, g \in Fresh(index) :
       /\ p # g
       /\ offset + size <= Limit
       /\ index' = AddAllocatedBlock(index, p, g, MakeRecord(offset, key, size))
  /\ UNCHANGED ub

\* allocate, when lower_bound finds an entry; it returns NULL and changes
\* nothing when there is none.
AllocateBlock(request, key) ==
  LET size == AtLeastMinSize(request) IN
  /\ ~ub
  /\ \E e \in LowerBound(index, size), p \in Fresh(index) :
       index' = Allocate(index, e, size, key, p)
  /\ UNCHANGED ub

\* deallocate, of any record the caller can still name.
DeallocateBlock(p) ==
  /\ ~ub
  /\ index' = Deallocate(index, p)
  /\ UNCHANGED ub

\* clear, and the destructor's call of it.
ClearIndex ==
  /\ ~ub
  /\ ~Dangling(index)
  /\ index' = Clear(index)
  /\ UNCHANGED ub

\* After a clear that left deleted records in m_list, addAllocatedBlock reads
\* the last of them and clear deletes them again: the behaviour is undefined
\* from there on and this specification says nothing more about it.
UseDangling ==
  /\ ~ub
  /\ Dangling(index)
  /\ ub' = TRUE
  /\ UNCHANGED index

Next ==
  \/ \E size \in BlockSize, key \in Key : AddBlock(size, key)
  \/ \E request \in Request, key \in Key : AllocateBlock(request, key)
  \/ \E p \in DOMAIN index.heap : DeallocateBlock(p)
  \/ ClearIndex
  \/ UseDangling

Spec == Init /\ [][Next]_vars

-----------------------------------------------------------------------------
(* Properties *)

\* The containers have the types of the class and records stay under Limit.
TypeOK ==
  /\ IsIndex(index)
  /\ ub \in BOOLEAN
  /\ \A p \in DOMAIN index.heap : End(index.heap[p]) <= Limit

\* "For any two Records at index i and i+1 in this list, the Record at i
\* shares its right-most boundary with the Record at i+1" (heap_index.h):
\* splitting, coalescing and hole filling keep the list an exact tiling.
\* It also makes the list sorted, which equal_range and lower_bound rely on.
ListTiles == Dangling(index) \/ (Listed(index) /\ Tiled(index))

\* Every record is filed once, as allocated or as free, under the key or size
\* it has now: none is lost, filed twice, or left under a stale size.
FiledOnce == Dangling(index) \/ Filed(index)

\* Freeing leaves neither two adjacent free blocks nor a free block at the
\* end; setMaxSize and the commit of HeapFile take the last record for an
\* allocated one without looking.
FreeIsCoalesced == Dangling(index) \/ Coalesced(index)

\* What clear leaves of an index that had records: nothing is filed.
OnlyClearDangles ==
  Dangling(index) => /\ index.m_alloc = {}
                     /\ index.m_free = {}
                     /\ DOMAIN index.heap = {}

\* No operation loses track of the managed range: its first byte stays where
\* it is for as long as there are records.
BaseNeverMoves ==
  [][index.m_list # <<>> /\ index'.m_list # <<>> /\ DOMAIN index'.heap # {}
     => index.heap[Head(index.m_list)].offset
        = index'.heap[Head(index'.m_list)].offset]_vars

\* The index is an allocator of disjoint blocks: seen from outside, a call
\* adds one disjoint block, gives one back, gives all back, or does nothing,
\* and never moves, resizes or retags another block.
Blocks == {index.heap[e[2]] : e \in index.m_alloc}
Abstract == INSTANCE Allocator WITH blocks <- Blocks
ImplementsAllocator == Abstract!Spec

\* heap_index.h: clear() "Clears the index entirely".
ClearsEntirely ==
  index.m_alloc = {} /\ index.m_free = {} => index.m_list = <<>>
=============================================================================
