--------------------------- MODULE HeapIndexProofs ---------------------------
(***************************************************************************)
(* The safety invariants of HeapIndex, and that it implements Allocator,   *)
(* for all sets of addresses, keys and sizes and for every MIN_SIZE, under *)
(* the assumption that no record ends beyond what a uint32_t can count     *)
(* (Limit < U32).  The work is done by IndexLemmas and IndexEffects: here  *)
(* every call is matched with the lemmas about it.                         *)
(***************************************************************************)
EXTENDS HeapIndex, IndexEffects, TLAPS

\* The inductive invariant.  TypeOK and the other invariants of HeapIndex are
\* not inductive one by one: that coalescing finds and keeps a tiling takes
\* that every record is filed under its current size, that a split keeps the
\* free blocks apart takes the tiling, and so on.  After clear the index is no
\* longer sound, but then nothing is filed.
IInv == ub \in BOOLEAN /\ (Sound(index, Limit) \/ Husk(index))

\* A call starts from an index without deleted records, which is sound.
LEMMA UsableIsSound ==
  ASSUME IInv, ~Dangling(index)
  PROVE  Sound(index, Limit)
  BY EmptyHuskSound DEF IInv

\* Where something is allocated or free, nothing has been cleared.
LEMMA FiledIsSound ==
  ASSUME IInv, index.m_alloc # {} \/ index.m_free # {} \/ DOMAIN index.heap # {}
  PROVE  Sound(index, Limit)
  BY DEF IInv, Husk

\* The empty index of the constructor satisfies the invariant.
LEMMA InitIInv == Init => IInv
  BY EmptyIndexSound DEF Init, IInv

\* One block has been allocated between two sound indexes, and the first byte
\* of the range has not moved.
Grants(ix, iy) ==
  /\ Sound(ix, Limit) /\ Sound(iy, Limit)
  /\ \E p : Granted(ix, iy, p)
  /\ ix.m_list # <<>> => Base(iy) = Base(ix)

\* addAllocatedBlock, of a block past the last one.
LEMMA AddBlockCall ==
  ASSUME Limit < U32, IInv, NEW size \in BlockSize, NEW key \in Key,
         AddBlock(size, key)
  PROVE  IInv' /\ Grants(index, index')
<1>1. Sound(index, Limit)
  BY UsableIsSound DEF AddBlock
<1>2. PICK offset \in AddedAt, p \in Fresh(index), g \in Fresh(index) :
        /\ p # g
        /\ offset + size <= Limit
        /\ index' = AddAllocatedBlock(index, p, g, MakeRecord(offset, key, size))
  BY DEF AddBlock
<1> DEFINE r == MakeRecord(offset, key, size)
           s == LastRecord(index)
<1>3. size \in Nat /\ size > 0 /\ Limit \in Nat
  BY HeapIndexAssumption
<1>4. index.m_list # <<>> => End(s) \in Nat
  <2> SUFFICES ASSUME index.m_list # <<>> PROVE End(s) \in Nat
    OBVIOUS
  <2>1. Back(index) \in DOMAIN index.heap
    BY <1>1, BackProperties DEF Sound
  <2>2. s.offset \in Nat /\ s.size \in Nat
    BY <1>1, <2>1, IndexTypes DEF Sound, Shape, LastRecord
  <2> QED
    BY <2>2 DEF End
<1> HIDE DEF s
<1>5. offset \in Nat /\ (index.m_list # <<>> => ~(offset < End(s)))
  <2>1. CASE index.m_list = <<>>
    BY <2>1, HeapIndexAssumption DEF AddedAt
  <2>2. CASE index.m_list # <<>>
    <3>1. PICK gap \in Gap : offset = End(s) + gap
      BY <2>2 DEF AddedAt, s
    <3>2. gap \in Nat
      BY HeapIndexAssumption
    <3> QED
      BY <1>4, <2>2, <3>1, <3>2
  <2> QED
    BY <2>1, <2>2
<1>6. r.offset = offset /\ r.key = key /\ r.size = size
  BY DEF MakeRecord
<1>7. r \in Record
  BY <1>3, <1>5, IndexAssumption DEF MakeRecord, Record
<1>8. End(r) <= Limit /\ ~Overlaps(index, r)
  BY <1>2, <1>5, <1>6 DEF End, Overlaps, s
<1> HIDE DEF r
<1>9. Sound(AddAllocatedBlock(index, p, g, r), Limit)
  BY <1>1, <1>2, <1>3, <1>6, <1>7, <1>8, AddSound
<1>10. Added(index, index', p, r)
  BY <1>1, <1>2, <1>3, <1>6, <1>7, <1>8, AddEffect DEF r
<1>11. ub' \in BOOLEAN
  BY DEF AddBlock, IInv
<1> QED
  BY <1>1, <1>2, <1>9, <1>10, <1>11 DEF IInv, r, Grants, Added

\* allocate.
LEMMA AllocateBlockCall ==
  ASSUME IInv, NEW request \in Request, NEW key \in Key,
         AllocateBlock(request, key)
  PROVE  IInv' /\ Grants(index, index')
<1> DEFINE size == AtLeastMinSize(request)
<1>1. PICK e \in LowerBound(index, size), p \in Fresh(index) :
        index' = Allocate(index, e, size, key, p)
  BY DEF AllocateBlock
<1>2. Sound(index, Limit)
  <2>1. index.m_free # {}
    BY DEF LowerBound
  <2> QED
    BY <2>1, FiledIsSound
<1>3. size \in Nat /\ size > 0 /\ Limit \in Nat
  BY HeapIndexAssumption, IndexAssumption DEF AtLeastMinSize
<1> HIDE DEF size
<1>4. Sound(index', Limit)
  BY <1>1, <1>2, <1>3, AllocateSound
<1>5. Allotted(index, index', Allocated(index, e, size, p), size, key)
  BY <1>1, <1>2, <1>3, AllocateEffect
<1>6. ub' \in BOOLEAN
  BY DEF AllocateBlock, IInv
<1> QED
  BY <1>2, <1>4, <1>5, <1>6 DEF IInv, Grants, Allotted

\* deallocate, of any record.
LEMMA DeallocateBlockIInv ==
  ASSUME Limit < U32, IInv, NEW p \in DOMAIN index.heap, DeallocateBlock(p)
  PROVE  IInv'
<1>1. Sound(index, Limit)
  BY FiledIsSound
<1>2. Sound(index', Limit)
  BY <1>1, HeapIndexAssumption, DeallocateSound DEF DeallocateBlock
<1>3. ub' \in BOOLEAN
  BY DEF DeallocateBlock, IInv
<1> QED
  BY <1>2, <1>3 DEF IInv

\* clear.
LEMMA ClearIndexIInv ==
  ASSUME IInv, ClearIndex
  PROVE  IInv'
  BY ClearHusk DEF ClearIndex, IInv

\* The invariant is inductive.
LEMMA NextIInv ==
  ASSUME Limit < U32, IInv, [Next]_vars
  PROVE  IInv'
<1>1. CASE \E size \in BlockSize, key \in Key : AddBlock(size, key)
  BY <1>1, AddBlockCall
<1>2. CASE \E request \in Request, key \in Key : AllocateBlock(request, key)
  BY <1>2, AllocateBlockCall
<1>3. CASE \E p \in DOMAIN index.heap : DeallocateBlock(p)
  BY <1>3, DeallocateBlockIInv
<1>4. CASE ClearIndex
  BY <1>4, ClearIndexIInv
<1>5. CASE UseDangling
  BY <1>5 DEF UseDangling, IInv
<1>6. CASE UNCHANGED vars
  BY <1>6 DEF vars, IInv
<1> QED
  BY <1>1, <1>2, <1>3, <1>4, <1>5, <1>6 DEF Next

\* Every reachable state of an index satisfies the invariant.
THEOREM Inductive ==
  ASSUME Limit < U32
  PROVE  Spec => []IInv
<1>1. Init => IInv
  BY InitIInv
<1>2. IInv /\ [Next]_vars => IInv'
  BY NextIInv
<1> QED
  BY <1>1, <1>2, PTL DEF Spec

\* The containers keep their types and no record outgrows Limit (the members
\* of class HeapIndex).
THEOREM TypeCorrect ==
  ASSUME Limit < U32
  PROVE  Spec => []TypeOK
<1>1. IInv => TypeOK
  BY DEF IInv, TypeOK, Sound, Shape, Bounded, Husk
<1> QED
  BY <1>1, Inductive, PTL

\* The list stays a gapless, ordered enumeration of the live records through
\* every split, merge, hole and pop (m_list of heap_index.h).
THEOREM ListAlwaysTiles ==
  ASSUME Limit < U32
  PROVE  Spec => []ListTiles
<1>1. IInv => ListTiles
  BY EmptyHuskSound DEF IInv, ListTiles, Sound, Shape
<1> QED
  BY <1>1, Inductive, PTL

\* No record is lost from the multimaps, filed twice, or filed under a key or
\* size it no longer has (m_alloc and m_free of heap_index.h).
THEOREM AlwaysFiledOnce ==
  ASSUME Limit < U32
  PROVE  Spec => []FiledOnce
<1>1. IInv => FiledOnce
  BY EmptyHuskSound DEF IInv, FiledOnce, Sound
<1> QED
  BY <1>1, Inductive, PTL

\* After every deallocate the free blocks are apart and the last block is not
\* free (HeapIndex::coalesce and the pop of deallocate).
THEOREM FreeAlwaysCoalesced ==
  ASSUME Limit < U32
  PROVE  Spec => []FreeIsCoalesced
<1>1. IInv => FreeIsCoalesced
  BY EmptyHuskSound DEF IInv, FreeIsCoalesced, Sound
<1> QED
  BY <1>1, Inductive, PTL

\* The only records that dangle are those clear has left in the list, and then
\* nothing is filed: allocate, deallocate and the observers cannot reach them.
THEOREM OnlyClearLeavesDangling ==
  ASSUME Limit < U32
  PROVE  Spec => []OnlyClearDangles
<1>1. IInv => OnlyClearDangles
  BY SoundNotDangling DEF IInv, OnlyClearDangles, Husk
<1> QED
  BY <1>1, Inductive, PTL

-----------------------------------------------------------------------------
(* Steps *)

\* What a step may do: allocate one block, give one back, forget everything,
\* or nothing.
LEMMA StepCases ==
  ASSUME Limit < U32, IInv, [Next]_vars
  PROVE  \/ Grants(index, index')
         \/ \E p : /\ Sound(index, Limit) /\ Sound(index', Limit)
                   /\ Allocd(index, p) /\ Deallocated(index, index', p)
         \/ Husk(index')
         \/ UNCHANGED index
<1>1. CASE \E size \in BlockSize, key \in Key : AddBlock(size, key)
  BY <1>1, AddBlockCall
<1>2. CASE \E request \in Request, key \in Key : AllocateBlock(request, key)
  BY <1>2, AllocateBlockCall
<1>3. CASE \E p \in DOMAIN index.heap : DeallocateBlock(p)
  <2>1. PICK p \in DOMAIN index.heap : DeallocateBlock(p)
    BY <1>3
  <2>2. Sound(index, Limit)
    BY FiledIsSound
  <2>3. index' = Deallocate(index, p)
    BY <2>1 DEF DeallocateBlock
  <2>4. Sound(index', Limit)
    BY <2>2, <2>3, HeapIndexAssumption, DeallocateSound
  <2>5. CASE Allocd(index, p)
    BY <2>2, <2>3, <2>4, <2>5, HeapIndexAssumption, DeallocateEffect
  <2>6. CASE ~Allocd(index, p)
    BY <2>3, <2>6 DEF Deallocate, Allocd
  <2> QED
    BY <2>5, <2>6
<1>4. CASE ClearIndex
  BY <1>4, ClearHusk DEF ClearIndex, IInv
<1>5. CASE UseDangling
  BY <1>5 DEF UseDangling
<1>6. CASE UNCHANGED vars
  BY <1>6 DEF vars
<1> QED
  BY <1>1, <1>2, <1>3, <1>4, <1>5, <1>6 DEF Next

\* The first byte of the managed range stays where it is as long as there are
\* records: no split, merge, hole or pop loses the head of the range (m_list).
THEOREM BaseStays ==
  ASSUME Limit < U32
  PROVE  Spec => BaseNeverMoves
<1> DEFINE Stays == index.m_list # <<>> /\ index'.m_list # <<>> /\ DOMAIN index'.heap # {}
                    => index.heap[Head(index.m_list)].offset
                       = index'.heap[Head(index'.m_list)].offset
<1>1. ASSUME IInv, [Next]_vars
      PROVE  Stays
  <2> SUFFICES ASSUME index.m_list # <<>>, index'.m_list # <<>>, DOMAIN index'.heap # {}
               PROVE  Base(index) = Base(index')
    BY DEF Base
  <2>1. CASE Grants(index, index')
    BY <2>1 DEF Grants
  <2>2. CASE \E p : Allocd(index, p) /\ Deallocated(index, index', p)
    BY <2>2 DEF Deallocated
  <2>3. CASE Husk(index')
    BY <2>3 DEF Husk
  <2>4. CASE UNCHANGED index
    BY <2>4
  <2> QED
    BY <1>1, <2>1, <2>2, <2>3, <2>4, StepCases
<1>2. IInv /\ [Next]_vars => [Stays]_vars
  BY <1>1
<1> QED
  BY <1>2, Inductive, PTL DEF Spec, BaseNeverMoves

\* The blocks of this module are those of IndexEffects.
LEMMA BlocksAre == Blocks = AllocatedRecords(index) /\ Blocks' = AllocatedRecords(index')
  BY DEF Blocks, AllocatedRecords

\* HeapIndex implements Allocator: whatever it does to its list, multimaps and
\* free records, each call allocates one block that no other one overlaps, or
\* gives one or all back (HeapIndex of heap_index.h, seen by its callers).
THEOREM IsAllocator ==
  ASSUME Limit < U32
  PROVE  Spec => ImplementsAllocator
<1>1. Init => Abstract!Init
  BY DEF Init, Abstract!Init, Blocks, EmptyIndex
<1>2. ASSUME IInv, [Next]_vars
      PROVE  [Abstract!Next]_Blocks
  <2>1. CASE Grants(index, index')
    <3>1. PICK p : Granted(index, index', p)
      BY <2>1 DEF Grants
    <3> DEFINE b == index'.heap[p]
    <3>2. /\ b \notin Blocks
          /\ Blocks' = Blocks \cup {b}
      BY <2>1, <3>1, GrantedRecords, BlocksAre DEF Grants
    <3> HIDE DEF b
    <3>3. /\ b \in Record /\ b.size > 0
          /\ \A c \in Blocks' : b # c => End(b) <= c.offset \/ End(c) <= b.offset
      BY <2>1, <3>2, AllocatedRecordTypes, BlocksAre DEF Grants
    <3>4. b \in Abstract!Block
      BY <3>3 DEF Record, Abstract!Block
    <3>5. \A c \in Blocks : Abstract!Disjoint(b, c)
      BY <3>2, <3>3 DEF Abstract!Disjoint, Abstract!EndOf, End
    <3>6. Abstract!Grant
      BY <3>2, <3>3, <3>4, <3>5 DEF Abstract!Grant
    <3> QED
      BY <3>6 DEF Abstract!Next
  <2>2. CASE \E p : /\ Sound(index, Limit) /\ Sound(index', Limit)
                   /\ Allocd(index, p) /\ Deallocated(index, index', p)
    <3>1. PICK p : /\ Sound(index, Limit) /\ Sound(index', Limit)
                   /\ Allocd(index, p) /\ Deallocated(index, index', p)
      BY <2>2
    <3>2. index.heap[p] \in Blocks /\ Blocks' = Blocks \ {index.heap[p]}
      BY <3>1, DeallocatedRecords, BlocksAre
    <3>3. Abstract!Return
      BY <3>2 DEF Abstract!Return
    <3> QED
      BY <3>3 DEF Abstract!Next
  <2>3. CASE Husk(index')
    BY <2>3 DEF Husk, Blocks, Abstract!Next, Abstract!Reset
  <2>4. CASE UNCHANGED index
    BY <2>4 DEF Blocks
  <2> QED
    BY <1>2, <2>1, <2>2, <2>3, <2>4, StepCases
<1>3. IInv /\ [Next]_vars => [Abstract!Next]_Blocks
  BY <1>2
<1> QED
  BY <1>1, <1>3, Inductive, PTL DEF Spec, ImplementsAllocator, Abstract!Spec
\* Whatever takes the steps of the abstract allocator never lets two blocks
\* share a byte: the refinement is therefore worth having.
LEMMA AbstractNeverOverlaps == Abstract!Spec => []Abstract!NoOverlap
<1>1. Abstract!Init => Abstract!NoOverlap
  BY DEF Abstract!Init, Abstract!NoOverlap
<1>2. Abstract!NoOverlap /\ [Abstract!Next]_Blocks => Abstract!NoOverlap'
  <2> SUFFICES ASSUME Abstract!NoOverlap, [Abstract!Next]_Blocks
               PROVE  Abstract!NoOverlap'
    OBVIOUS
  <2>1. CASE Abstract!Grant
    <3>1. PICK b \in Blocks' :
            Blocks' = Blocks \cup {b} /\ \A c \in Blocks : Abstract!Disjoint(b, c)
      BY <2>1 DEF Abstract!Grant
    <3>2. \A c \in Blocks : Abstract!Disjoint(c, b)
      BY <3>1 DEF Abstract!Disjoint
    <3> QED
      BY <3>1, <3>2 DEF Abstract!NoOverlap
  <2>2. CASE Abstract!Return
    BY <2>2 DEF Abstract!Return, Abstract!NoOverlap
  <2>3. CASE Abstract!Reset
    BY <2>3 DEF Abstract!Reset, Abstract!NoOverlap
  <2>4. CASE UNCHANGED Blocks
    BY <2>4 DEF Abstract!NoOverlap
  <2> QED
    BY <2>1, <2>2, <2>3, <2>4 DEF Abstract!Next
<1> QED
  BY <1>1, <1>2, PTL DEF Abstract!Spec

\* So no two blocks that HeapIndex has handed out ever share a byte of the file
\* (allocate, addAllocatedBlock and deallocate of heap_index.h).
THEOREM BlocksNeverOverlap ==
  ASSUME Limit < U32
  PROVE  Spec => []Abstract!NoOverlap
<1>1. ImplementsAllocator => []Abstract!NoOverlap
  BY AbstractNeverOverlaps DEF ImplementsAllocator
<1> QED
  BY <1>1, IsAllocator, PTL
=============================================================================
