---------------------------- MODULE MmapFileProofs ----------------------------
(***************************************************************************)
(* MmapFile, for every page size, all ranges and every failure of a system *)
(* call: the size it caches is true, pointers lead where they should,      *)
(* ranges within the last one keep them good, and the object is a file of  *)
(* bytes.                                                                  *)
(***************************************************************************)
EXTENDS MmapFile, SequenceTheorems, TLAPS

-----------------------------------------------------------------------------
(* Pages *)

\* The page of an offset starts at or in front of it, at a multiple of the
\* page size (the mask of getPtr).
LEMMA PageOfProperties ==
  ASSUME NEW offset \in Nat
  PROVE  /\ PageOf(offset) \in Nat
         /\ PageOf(offset) <= offset
         /\ PageOf(offset) % PageSize = 0
<1>1. PageSize \in Nat /\ PageSize > 0
  BY MmapFileAssumption
<1> DEFINE q == offset \div PageSize
           r == offset % PageSize
<1>2. q \in Nat /\ r \in 0 .. PageSize - 1 /\ offset = PageSize * q + r
  BY <1>1
<1>3. PageOf(offset) = PageSize * q
  BY <1>1, <1>2 DEF PageOf
<1> HIDE DEF q, r
<1>4. PageSize * q \in Nat
  BY <1>1, <1>2
<1>5. (PageSize * q) % PageSize = 0
  BY <1>1, <1>2
<1> QED
  BY <1>2, <1>3, <1>4, <1>5

\* The window for a range consists of whole pages and holds the range.
LEMMA WindowSizeProperties ==
  ASSUME NEW offset \in Nat, NEW size \in Nat
  PROVE  /\ WindowSize(offset, size) \in Nat
         /\ WindowSize(offset, size) > offset - PageOf(offset) + size
         /\ WindowSize(offset, size) % PageSize = 0
<1>1. PageSize \in Nat /\ PageSize > 0
  BY MmapFileAssumption
<1> DEFINE b == offset - PageOf(offset) + size
           q == b \div PageSize
           r == b % PageSize
<1>2. b \in Nat
  BY PageOfProperties
<1> HIDE DEF b
<1>3. q \in Nat /\ r \in 0 .. PageSize - 1 /\ b = PageSize * q + r
  BY <1>1, <1>2
<1>4. WindowSize(offset, size) = b + PageSize - r
  BY DEF WindowSize, b
<1> HIDE DEF q, r
<1>5. PageSize * (q + 1) = PageSize * q + PageSize
  BY <1>1, <1>3
<1>6. WindowSize(offset, size) = PageSize * (q + 1)
  <2>1. PageSize * q \in Int
    BY <1>1, <1>3
  <2> QED
    BY <1>1, <1>3, <1>4, <1>5, <2>1
<1>7. (PageSize * (q + 1)) % PageSize = 0
  BY <1>1, <1>3
<1>8. WindowSize(offset, size) \in Nat /\ WindowSize(offset, size) > b
  BY <1>1, <1>2, <1>3, <1>4
<1> QED
  BY <1>6, <1>7, <1>8 DEF b

-----------------------------------------------------------------------------
(* The file *)

\* ftruncate gives a sequence of bytes of the length asked for.
LEMMA ResizedProperties ==
  ASSUME NEW bytes \in Seq(Byte \cup {0}), NEW n \in Nat
  PROVE  Resized(bytes, n) \in Seq(Byte \cup {0}) /\ Len(Resized(bytes, n)) = n
<1>1. \A i \in 1 .. n : (IF i <= Len(bytes) THEN bytes[i] ELSE 0) \in Byte \cup {0}
  BY ElementOfSeq, LenProperties
<1>2. Resized(bytes, n) \in [1 .. n -> Byte \cup {0}]
  BY <1>1 DEF Resized
<1> QED
  BY <1>2, IsASeq, LenProperties

-----------------------------------------------------------------------------
(* The invariant *)

\* What a call may have given its caller.
Result ==
  {Nothing, Null, Threw}
    \cup [kind : {"pointer"}, at : Nat, offset : Nat, size : Nat \ {0}]

\* The inductive invariant.  A pointer leads to its range because the range is
\* in the window, and stays so as long as the window does: that is more than
\* PointersLeadToRange, which speaks of m_begin and of the file, says.
PointerInWindow ==
  ptr.kind = "pointer" =>
    /\ phase # "closed"
    /\ ptr.at = ptr.offset - m_offset
    /\ IsInWindow(ptr.offset, ptr.size)

IInv ==
  /\ TypeOK
  /\ ptr \in Result
  /\ phase # "closed" => m_fileSize = Len(disk)
  /\ PointerInWindow

\* The members, without the self-reference TLC needs in TypeOK.
LEMMA Members ==
  ASSUME IInv
  PROVE  /\ m_fileSize \in Nat /\ m_offset \in Nat /\ m_windowSize \in Nat
         /\ m_offset % PageSize = 0 /\ m_windowSize % PageSize = 0
         /\ disk \in Seq(Byte \cup {0}) /\ Len(disk) \in Nat
         /\ PageSize \in Nat /\ PageSize > 0 /\ PageSize % PageSize = 0
         /\ 0 % PageSize = 0
<1>1. PageSize \in Nat /\ PageSize > 0
  BY MmapFileAssumption
<1>2. PageSize % PageSize = 0 /\ 0 % PageSize = 0
  BY <1>1
<1>3. m_offset \in Nat /\ m_windowSize \in Nat
  BY DEF IInv, TypeOK
<1> QED
  BY <1>1, <1>2, <1>3, LenProperties DEF IInv, TypeOK

\* A step that gives the members the right values leads to a state of the
\* right type.
LEMMA TypeAfterStep ==
  ASSUME m_fileSize' \in Nat, m_offset' \in Nat, m_windowSize' \in Nat,
         m_offset' % PageSize = 0, m_windowSize' % PageSize = 0,
         m_begin' \in {NULL, Window(m_offset', m_windowSize')},
         disk' \in Seq(Byte \cup {0}),
         phase' \in {"closed", "open", "aborted", "undefined"}
  PROVE  TypeOK'
<1>1. m_offset' \in {n \in 0 .. m_offset' : n % PageSize = 0}
  OBVIOUS
<1>2. m_windowSize' \in {n \in 0 .. m_windowSize' : n % PageSize = 0}
  OBVIOUS
<1>3. TypeOK' <=>
        /\ m_fileSize' \in Nat
        /\ m_offset' \in {n \in 0 .. m_offset' : n % PageSize = 0}
        /\ m_windowSize' \in {n \in 0 .. m_windowSize' : n % PageSize = 0}
        /\ m_begin' \in {NULL, Window(m_offset', m_windowSize')}
        /\ disk' \in Seq(Byte \cup {0})
        /\ phase' \in {"closed", "open", "aborted", "undefined"}
  BY DEF TypeOK, NULL, Window
<1> QED
  BY <1>1, <1>2, <1>3

\* No object exists and the file is empty.
LEMMA InitIInv == Init => IInv
<1> SUFFICES ASSUME Init PROVE IInv
  OBVIOUS
<1>1. 0 % PageSize = 0
  BY MmapFileAssumption
<1>2. disk \in Seq(Byte \cup {0})
  BY EmptySeq DEF Init
<1>3. TypeOK
  BY <1>1, <1>2 DEF Init, TypeOK
<1> QED
  BY <1>3 DEF Init, IInv, Result, PointerInWindow, Nothing

-----------------------------------------------------------------------------
(* The calls *)

\* A call that throws or gives NULL or nothing, and leaves the members alone.
LEMMA NoPointerIInv ==
  ASSUME IInv, ptr' \in {Nothing, Null, Threw}, UNCHANGED <<members, disk, phase>>
  PROVE  IInv'
<1>1. TypeOK'
  BY Members, TypeAfterStep DEF members, IInv, TypeOK
<1>2. ptr'.kind # "pointer" /\ ptr' \in Result
  BY DEF Nothing, Null, Threw, Result
<1> QED
  BY <1>1, <1>2 DEF IInv, PointerInWindow, members

\* The range is in the window (getPtr, isInWindow).
LEMMA HitIInv ==
  ASSUME IInv, NEW offset \in Nat, NEW size \in Nat \ {0},
         phase # "closed", Hit(offset, size), UNCHANGED phase
  PROVE  IInv'
<1>1. TypeOK'
  BY Members, TypeAfterStep DEF Hit, members, IInv, TypeOK
<1>2. m_offset \in Nat /\ m_offset <= offset
  BY Members DEF Hit, IsInWindow
<1>3. ptr' = Pointer(offset - m_offset, offset, size)
  BY DEF Hit
<1>4. ptr' \in Result
  BY <1>2, <1>3 DEF Result, Pointer
<1>5. PointerInWindow'
  BY <1>3 DEF PointerInWindow, Pointer, Hit, IsInWindow, EffectiveWindowSize, members
<1> QED
  BY <1>1, <1>4, <1>5 DEF IInv, Hit, members

\* What getPtr may leave when the window moves: the file is as it was or has
\* grown to the end of the range, and a pointer is given only if all system
\* calls have succeeded.
LEMMA MoveWindowOutcome ==
  ASSUME IInv, phase # "closed", NEW offset \in Nat, NEW size \in Nat \ {0},
         MoveWindow(offset, size)
  PROVE  /\ m_offset' = PageOf(offset)
         /\ m_windowSize' = WindowSize(offset, size)
         /\ m_begin' \in {NULL, Window(m_offset', m_windowSize')}
         /\ m_fileSize' = Len(disk') /\ m_fileSize' \in Nat
         /\ disk' \in Seq(Byte \cup {0})
         /\ disk' \in {disk, IF Len(disk) < offset + size
                             THEN Resized(disk, offset + size) ELSE disk}
         /\ \/ ptr' = Threw
            \/ /\ ptr' = Pointer(offset - PageOf(offset), offset, size)
               /\ m_begin' = Window(m_offset', m_windowSize')
               /\ m_fileSize' >= offset + size
<1>1. /\ m_fileSize = Len(disk) /\ m_fileSize \in Nat
      /\ disk \in Seq(Byte \cup {0})
  BY Members DEF IInv
<1>2. offset + size \in Nat
  OBVIOUS
<1>3. /\ Resized(disk, offset + size) \in Seq(Byte \cup {0})
      /\ Len(Resized(disk, offset + size)) = offset + size
  BY <1>1, <1>2, ResizedProperties
<1>4. /\ m_offset' = PageOf(offset)
      /\ m_windowSize' = WindowSize(offset, size)
      /\ m_begin' \in {NULL, Window(m_offset', m_windowSize')}
  BY DEF MoveWindow, MmapWorks, MmapFails
<1>5. \/ UNCHANGED <<m_fileSize, disk>>
      \/ /\ m_fileSize < offset + size
         /\ m_fileSize' = offset + size
         /\ disk' = Resized(disk, offset + size)
  BY DEF MoveWindow
<1>6. \/ ptr' = Threw
      \/ /\ ptr' = Pointer(offset - PageOf(offset), offset, size)
         /\ m_begin' = Window(m_offset', m_windowSize')
         /\ m_fileSize < offset + size => m_fileSize' = offset + size
         /\ ~(m_fileSize < offset + size) => m_fileSize' = m_fileSize
  BY DEF MoveWindow, MmapWorks, MmapFails
<1>7. /\ m_fileSize' = Len(disk') /\ m_fileSize' \in Nat
      /\ disk' \in Seq(Byte \cup {0})
  BY <1>1, <1>2, <1>3, <1>5
<1>8. disk' \in {disk, IF Len(disk) < offset + size
                       THEN Resized(disk, offset + size) ELSE disk}
  BY <1>1, <1>5
<1>9. \/ ptr' = Threw
      \/ /\ ptr' = Pointer(offset - PageOf(offset), offset, size)
         /\ m_begin' = Window(m_offset', m_windowSize')
         /\ m_fileSize' >= offset + size
  BY <1>1, <1>2, <1>6
<1> QED
  BY <1>4, <1>7, <1>8, <1>9

\* The window moves (getPtr).
LEMMA MoveWindowIInv ==
  ASSUME IInv, NEW offset \in Nat, NEW size \in Nat \ {0},
         phase # "closed", MoveWindow(offset, size), UNCHANGED phase
  PROVE  IInv'
<1> DEFINE page == PageOf(offset)
           bytes == WindowSize(offset, size)
<1>1. /\ page \in Nat /\ page <= offset /\ page % PageSize = 0
      /\ bytes \in Nat /\ bytes > offset - page + size /\ bytes % PageSize = 0
  BY PageOfProperties, WindowSizeProperties
<1>2. /\ m_offset' = page /\ m_windowSize' = bytes
      /\ m_begin' \in {NULL, Window(m_offset', m_windowSize')}
      /\ m_fileSize' = Len(disk') /\ m_fileSize' \in Nat
      /\ disk' \in Seq(Byte \cup {0})
      /\ \/ ptr' = Threw
         \/ /\ ptr' = Pointer(offset - page, offset, size)
            /\ m_fileSize' >= offset + size
  BY MoveWindowOutcome
<1> HIDE DEF page, bytes
<1>3. TypeOK'
  BY <1>1, <1>2, TypeAfterStep DEF IInv, TypeOK
<1>4. ptr' \in Result
  BY <1>1, <1>2 DEF Result, Pointer, Threw
<1>5. PointerInWindow'
  <2> SUFFICES ASSUME ptr'.kind = "pointer" PROVE PointerInWindow'
    BY DEF PointerInWindow
  <2>1. ptr' = Pointer(offset - page, offset, size) /\ m_fileSize' >= offset + size
    BY <1>2 DEF Threw
  <2>2. ptr'.at = offset - page /\ ptr'.offset = offset /\ ptr'.size = size
    BY <2>1 DEF Pointer
  <2>3. IsInWindow(ptr.offset, ptr.size)'
    BY <1>1, <1>2, <2>1, <2>2 DEF IsInWindow, EffectiveWindowSize
  <2> QED
    BY <1>2, <2>2, <2>3 DEF PointerInWindow
<1> QED
  BY <1>2, <1>3, <1>4, <1>5 DEF IInv
\* Either of the two getPtr, of a range that is asked for.
LEMMA MapIInv ==
  ASSUME IInv, NEW offset \in Offset, NEW size \in Size,
         phase = "open", Map(offset, size), UNCHANGED phase
  PROVE  IInv'
<1>1. offset \in Nat /\ size \in Nat \ {0}
  BY MmapFileAssumption
<1>2. CASE Hit(offset, size)
  BY <1>1, <1>2, HitIInv
<1>3. CASE CannotUnmap
  BY <1>3, NoPointerIInv DEF CannotUnmap
<1>4. CASE MoveWindow(offset, size)
  BY <1>1, <1>4, MoveWindowIInv
<1> QED
  BY <1>2, <1>3, <1>4 DEF Map

\* trim and clear.
LEMMA TrimIInv ==
  ASSUME IInv, NEW n \in Nat, Trim(n)
  PROVE  IInv'
<1>1. CASE CannotUnmap
  BY <1>1, NoPointerIInv DEF CannotUnmap, Trim
<1>2. CASE TrimTo(n)
  <2>1. Resized(disk, n) \in Seq(Byte \cup {0}) /\ Len(Resized(disk, n)) = n
    BY ResizedProperties, Members
  <2>2. /\ m_offset' = 0
        /\ m_windowSize' \in {0, PageSize}
        /\ m_begin' \in {NULL, Window(m_offset', m_windowSize')}
        /\ m_fileSize' \in Nat /\ m_fileSize' = Len(disk')
        /\ disk' \in Seq(Byte \cup {0})
        /\ ptr' \in {Nothing, Threw}
    BY <1>2, <2>1, Members DEF TrimTo, MmapWorks, MmapFails, IInv, Trim
  <2>3. TypeOK'
    BY <2>2, Members, TypeAfterStep DEF Trim, IInv, TypeOK
  <2> QED
    BY <2>2, <2>3 DEF IInv, Result, PointerInWindow, Nothing, Threw
<1> QED
  BY <1>1, <1>2 DEF Trim

\* The caller writes.
LEMMA WriteIInv ==
  ASSUME IInv, NEW v \in Byte, Write(v)
  PROVE  IInv'
<1>1. disk' \in Seq(Byte \cup {0}) /\ Len(disk') = Len(disk)
  <2>1. CASE ptr.at + ptr.size > m_begin.size
    BY <2>1, Members DEF Write
  <2>2. CASE ~(ptr.at + ptr.size > m_begin.size)
    <3> DEFINE In(i) == /\ m_begin.offset + ptr.at < i
                        /\ i <= m_begin.offset + ptr.at + ptr.size
    <3>1. disk' = [i \in DOMAIN disk |-> IF In(i) THEN v ELSE disk[i]]
      BY <2>2 DEF Write
    <3> HIDE DEF In
    <3>2. DOMAIN disk = 1 .. Len(disk) /\ \A i \in 1 .. Len(disk) : disk[i] \in Byte \cup {0}
      BY Members, LenProperties, ElementOfSeq
    <3>3. disk' \in [1 .. Len(disk) -> Byte \cup {0}]
      BY <3>1, <3>2
    <3> QED
      BY <3>3, Members, IsASeq, LenProperties
  <2> QED
    BY <2>1, <2>2
<1>2. TypeOK'
  BY <1>1, Members, TypeAfterStep DEF Write, members, IInv, TypeOK
<1>3. PointerInWindow'
  BY DEF Write, members, IInv, PointerInWindow, IsInWindow, EffectiveWindowSize
<1> QED
  BY <1>1, <1>2, <1>3 DEF Write, members, IInv

\* The constructor maps the first page of the file.
LEMMA OpenIInv ==
  ASSUME IInv, Open
  PROVE  IInv'
<1>1. TypeOK'
  BY Members, TypeAfterStep DEF Open, MmapWorks
<1>2. ptr'.kind # "pointer"
  BY DEF Open, IInv, PointerInWindow
<1> QED
  BY <1>1, <1>2 DEF Open, IInv, PointerInWindow

\* The destructor forgets everything but the file.
LEMMA CloseIInv ==
  ASSUME IInv, Close
  PROVE  IInv'
<1>1. TypeOK'
  BY Members, TypeAfterStep DEF Close
<1> QED
  BY <1>1 DEF Close, IInv, Result, PointerInWindow, Nothing

\* A failed assertion leaves everything as it is.
LEMMA AssertionIInv ==
  ASSUME IInv, AssertionFails
  PROVE  IInv'
<1>1. TypeOK'
  BY Members, TypeAfterStep DEF AssertionFails, members, IInv, TypeOK
<1> QED
  BY <1>1 DEF AssertionFails, members, IInv, PointerInWindow, IsInWindow,
              EffectiveWindowSize

\* The invariant is inductive.
LEMMA NextIInv ==
  ASSUME IInv, [Next]_vars
  PROVE  IInv'
<1>1. ASSUME NEW offset \in Offset, NEW size \in Size, GetWritePtr(offset, size)
      PROVE  IInv'
  BY <1>1, MapIInv DEF GetWritePtr
<1>2. ASSUME NEW offset \in Offset, NEW size \in Size, GetReadPtr(offset, size)
      PROVE  IInv'
  <2>1. CASE offset >= m_fileSize
    BY <1>2, <2>1, NoPointerIInv DEF GetReadPtr
  <2>2. CASE ~(offset >= m_fileSize)
    BY <1>2, <2>2, MapIInv DEF GetReadPtr
  <2> QED
    BY <2>1, <2>2
<1>3. ASSUME NEW n \in Keep, Trim(n) PROVE IInv'
  BY <1>3, TrimIInv, MmapFileAssumption
<1>4. CASE Clear
  BY <1>4, TrimIInv DEF Clear
<1>5. CASE UNCHANGED vars
  <2>1. TypeOK'
    BY <1>5, Members, TypeAfterStep DEF vars, members, IInv, TypeOK
  <2> QED
    BY <1>5, <2>1 DEF vars, members, IInv, PointerInWindow, IsInWindow,
                      EffectiveWindowSize
<1> QED
  BY <1>1, <1>2, <1>3, <1>4, <1>5, OpenIInv, CloseIInv, AssertionIInv, WriteIInv
     DEF Next

\* Every reachable state satisfies the invariant.
THEOREM Inductive == Spec => []IInv
<1>1. IInv /\ [Next]_vars => IInv'
  BY NextIInv
<1> QED
  BY <1>1, InitIInv, PTL DEF Spec
\* The members have their types and windows are whole pages (the members of
\* class MmapFile).
THEOREM TypeCorrect == Spec => []TypeOK
<1>1. IInv => TypeOK
  BY DEF IInv
<1> QED
  BY <1>1, Inductive, PTL

\* m_fileSize is the size of the file, whatever system call of getPtr or trim
\* has failed.
THEOREM SizeAlwaysTrue == Spec => []SizeIsTrue
<1>1. IInv => SizeIsTrue
  BY DEF IInv, SizeIsTrue
<1> QED
  BY <1>1, Inductive, PTL

\* A range that is in the window is mapped and in the file (isInWindow and
\* effectiveWindowSize).
LEMMA PointerLeads ==
  ASSUME IInv
  PROVE  PointersLeadToRange
<1> SUFFICES ASSUME ptr.kind = "pointer", m_begin # NULL
             PROVE  /\ m_begin.offset + ptr.at = ptr.offset
                    /\ ptr.at + ptr.size <= m_begin.size
                    /\ ptr.offset + ptr.size <= Len(disk)
  BY DEF PointersLeadToRange
<1>1. ptr.at \in Nat /\ ptr.offset \in Nat /\ ptr.size \in Nat \ {0}
  BY DEF IInv, Result, Nothing, Null, Threw
<1>2. /\ ptr.at = ptr.offset - m_offset
      /\ IsInWindow(ptr.offset, ptr.size)
      /\ m_fileSize = Len(disk)
  BY DEF IInv, PointerInWindow
<1>3. m_begin.offset = m_offset /\ m_begin.size = m_windowSize
  BY DEF IInv, TypeOK, Window
<1>4. /\ m_fileSize \in Nat /\ m_offset \in Nat /\ m_windowSize \in Nat
      /\ Len(disk) \in Nat
  BY Members
<1>5. /\ ptr.offset + ptr.size <= m_offset + m_windowSize
      /\ ptr.offset + ptr.size <= m_fileSize
  BY <1>1, <1>2, <1>4 DEF IsInWindow, EffectiveWindowSize
<1> QED
  BY <1>1, <1>2, <1>3, <1>4, <1>5

\* Wherever the range lies in its pages, and whatever range the window was
\* mapped for, a pointer leads to the range that was asked for (getPtr).
THEOREM PointersAlwaysLead == Spec => []PointersLeadToRange
<1> QED
  BY PointerLeads, Inductive, PTL

\* A part of a range that is in the window is in it, too.
LEMMA PartIsInWindow ==
  ASSUME IInv, NEW offset \in Offset, NEW size \in Size,
         IsPartOfRange(offset, size)
  PROVE  IsInWindow(offset, size)
<1>1. ptr.at \in Nat /\ ptr.offset \in Nat /\ ptr.size \in Nat \ {0}
  BY DEF IInv, Result, Nothing, Null, Threw, IsPartOfRange
<1>2. IsInWindow(ptr.offset, ptr.size)
  BY DEF IInv, PointerInWindow, IsPartOfRange
<1> QED
  BY <1>1, <1>2, Members, MmapFileAssumption
     DEF IsInWindow, EffectiveWindowSize, IsPartOfRange

\* Asking for parts of the range asked for last leaves the window where it is:
\* pointers into it stay good (what mmap_file.h advises callers to rely on).
THEOREM SubrangesAlwaysKeepPointers == Spec => SubrangesKeepPointers
<1> DEFINE Keeps ==
      \A offset \in Offset, size \in Size :
        /\ IsPartOfRange(offset, size)
        /\ GetWritePtr(offset, size) \/ GetReadPtr(offset, size)
        => UNCHANGED <<m_offset, m_windowSize, m_begin>>
<1>1. IInv => Keeps
  <2> SUFFICES ASSUME IInv, NEW offset \in Offset, NEW size \in Size,
                      IsPartOfRange(offset, size),
                      GetWritePtr(offset, size) \/ GetReadPtr(offset, size)
               PROVE  UNCHANGED <<m_offset, m_windowSize, m_begin>>
    OBVIOUS
  <2>1. UNCHANGED members \/ Map(offset, size)
    BY DEF GetWritePtr, GetReadPtr
  <2>2. UNCHANGED members
    BY <2>1, PartIsInWindow DEF Map, Hit
  <2> QED
    BY <2>2 DEF members
<1>2. [][Keeps]_vars <=> SubrangesKeepPointers
  BY DEF SubrangesKeepPointers
<1> HIDE DEF Keeps
<1> QED
  BY <1>1, <1>2, Inductive, PTL
-----------------------------------------------------------------------------
(* Every step is one of ByteFile's, or none *)

\* The range a user of ByteFile would have.
LastRange ==
  IF ptr.kind = "pointer" THEN Window(ptr.offset, ptr.size) ELSE NULL

\* What the refinement makes of each part of ByteFile.
LEMMA BytesRead ==
  /\ Bytes!None = NULL
  /\ \A n : Bytes!Resized(n) = Resized(disk, n)
  /\ \A offset, size :
       Bytes!Ask(offset, size) <=>
         /\ disk' \in {disk, IF Len(disk) < offset + size
                             THEN Resized(disk, offset + size) ELSE disk}
         /\ \/ LastRange' = NULL
            \/ Len(disk') >= offset + size /\ LastRange' = Window(offset, size)
  /\ \A n : Bytes!Cut(n) <=> disk' = Resized(disk, n) /\ LastRange' = NULL
  /\ Bytes!Forget <=> LastRange' = NULL /\ UNCHANGED disk
  BY DEF Bytes!None, Bytes!Resized, Bytes!Ask, Bytes!Cut, Bytes!Forget,
         Resized, LastRange, NULL, Window

\* getPtr, for reading or for writing, asks for the range.
LEMMA MapAsks ==
  ASSUME IInv, NEW offset \in Offset, NEW size \in Size,
         phase = "open", Map(offset, size)
  PROVE  Bytes!Ask(offset, size)
<1>1. offset \in Nat /\ size \in Nat \ {0}
  BY MmapFileAssumption
<1>2. m_fileSize = Len(disk)
  BY DEF IInv
<1>3. CASE Hit(offset, size)
  <2>1. LastRange' = Window(offset, size) /\ disk' = disk
    BY <1>3 DEF Hit, LastRange, Pointer
  <2>2. offset + size <= Len(disk)
    BY <1>1, <1>2, <1>3, Members DEF Hit, IsInWindow, EffectiveWindowSize
  <2> QED
    BY <1>1, <2>1, <2>2, Members, BytesRead
<1>4. CASE CannotUnmap
  BY <1>4, BytesRead DEF CannotUnmap, LastRange, Threw
<1>5. CASE MoveWindow(offset, size)
  <2>1. /\ m_fileSize' = Len(disk')
        /\ disk' \in {disk, IF Len(disk) < offset + size
                            THEN Resized(disk, offset + size) ELSE disk}
        /\ \/ ptr' = Threw
           \/ /\ ptr' = Pointer(offset - PageOf(offset), offset, size)
              /\ m_fileSize' >= offset + size
    BY <1>1, <1>5, MoveWindowOutcome
  <2> QED
    BY <2>1, BytesRead DEF LastRange, Threw, Pointer
<1> QED
  BY <1>3, <1>4, <1>5 DEF Map

\* trim and clear cut the file, or leave it alone and throw.
LEMMA TrimCuts ==
  ASSUME IInv, NEW n, Trim(n)
  PROVE  Bytes!Cut(n) \/ Bytes!Forget
  BY BytesRead DEF Trim, CannotUnmap, TrimTo, LastRange, Nothing, Threw

\* What is written through the pointer is written into the range.
LEMMA WriteWrites ==
  ASSUME IInv, NEW v \in Byte, Write(v), disk' # disk
  PROVE  Bytes!Write(v)
<1>1. ptr.at \in Nat /\ ptr.size \in Nat \ {0} /\ ptr.kind = "pointer"
  BY DEF IInv, Result, Nothing, Null, Threw, Write
<1>2. ~(ptr.at + ptr.size > m_begin.size)
  BY DEF Write
<1>3. m_begin # NULL
  BY <1>1, <1>2 DEF NULL
<1>4. m_begin.offset + ptr.at = ptr.offset
  BY <1>1, <1>3, PointerLeads DEF PointersLeadToRange
<1>5. disk' = [i \in DOMAIN disk |->
                 IF ptr.offset < i /\ i <= ptr.offset + ptr.size THEN v ELSE disk[i]]
  BY <1>2, <1>4 DEF Write
<1>6. ptr.offset = LastRange.offset /\ ptr.size = LastRange.size
  BY <1>1 DEF LastRange, Window
<1>7. LastRange' = LastRange
  BY DEF Write, LastRange
<1> QED
  BY <1>5, <1>6, <1>7 DEF Bytes!Write, LastRange

\* An MmapFile object is a file of bytes: whatever window is mapped, and
\* whatever system call fails, a range that is asked for is there with the
\* bytes last written, and no other byte changes (mmap_file.h).
THEOREM IsByteFile == Spec => ImplementsByteFile
<1>1. Init => Bytes!Init
  BY DEF Init, Bytes!Init, Bytes!None, NULL, Nothing
<1>2. IInv /\ [Next]_vars => [Bytes!Next]_<<disk, LastRange>>
  <2> SUFFICES ASSUME IInv, [Next]_vars, ~UNCHANGED <<disk, LastRange>>
               PROVE  Bytes!Next
    OBVIOUS
  <2>1. ASSUME NEW offset \in Offset, NEW size \in Size, GetWritePtr(offset, size)
        PROVE  Bytes!Next
    BY <2>1, MapAsks DEF GetWritePtr, Bytes!Next
  <2>2. ASSUME NEW offset \in Offset, NEW size \in Size, GetReadPtr(offset, size)
        PROVE  Bytes!Next
    <3>1. CASE offset >= m_fileSize
      <4>1. Bytes!Forget
        BY <2>2, <3>1, BytesRead DEF GetReadPtr, LastRange, Null
      <4> QED
        BY <4>1 DEF Bytes!Next
    <3>2. CASE ~(offset >= m_fileSize)
      BY <2>2, <3>2, MapAsks DEF GetReadPtr, Bytes!Next
    <3> QED
      BY <3>1, <3>2
  <2>3. ASSUME NEW n \in Keep \cup {0}, Trim(n) PROVE Bytes!Next
    BY <2>3, TrimCuts DEF Bytes!Next
  <2>4. ASSUME NEW v \in Byte, Write(v) PROVE Bytes!Next
    <3>1. LastRange' = LastRange
      BY <2>4 DEF Write, LastRange
    <3> QED
      BY <2>4, <3>1, WriteWrites DEF Bytes!Next
  <2>5. CASE Open
    BY <2>5 DEF Open, LastRange
  <2>6. CASE Close
    <3>1. Bytes!Forget
      BY <2>6, BytesRead DEF Close, LastRange, Nothing
    <3> QED
      BY <3>1 DEF Bytes!Next
  <2>7. CASE AssertionFails
    BY <2>7 DEF AssertionFails, LastRange
  <2>8. CASE UNCHANGED vars
    BY <2>8 DEF vars, LastRange
  <2>9. ASSUME NEW n \in Keep, Trim(n) PROVE Bytes!Next
    BY <2>3, <2>9
  <2>10. CASE Clear
    BY <2>3, <2>10 DEF Clear
  <2> QED
    BY <2>1, <2>2, <2>4, <2>5, <2>6, <2>7, <2>8, <2>9, <2>10 DEF Next
<1>3. [][Bytes!Next]_<<disk, LastRange>> <=> [][Bytes!Next]_(Bytes!vars)
  BY DEF Bytes!vars, LastRange
<1> QED
  BY <1>1, <1>2, <1>3, Inductive, PTL DEF Spec, ImplementsByteFile, Bytes!Spec

-----------------------------------------------------------------------------
(* When no system call fails *)

\* A window is mapped and starts in the file.
Mapped ==
  /\ phase \in {"closed", "open"}
  /\ phase = "open" =>
       /\ m_begin = Window(m_offset, m_windowSize)
       /\ m_windowSize > 0
       /\ m_offset <= m_fileSize

\* If ftruncate and mmap succeed, so does munmap, no assertion fails, nothing
\* is written where nothing is mapped, and no pointer is computed from NULL:
\* failures alone are what leads to the NULL pointers of run mmap_null.
THEOREM WithoutFailuresDefined ==
  ASSUME Fails = {}
  PROVE  Spec => [](phase \in {"closed", "open"} /\ PointersAreNotNull)
<1>1. Init => Mapped
  BY DEF Init, Mapped
<1>2. IInv /\ Mapped /\ [Next]_vars => Mapped'
  <2> SUFFICES ASSUME IInv, Mapped, [Next]_vars PROVE Mapped'
    OBVIOUS
  <2>1. ASSUME NEW offset \in Offset, NEW size \in Size,
               phase = "open", Map(offset, size), UNCHANGED phase
        PROVE  Mapped'
    <3>1. offset \in Nat /\ size \in Nat \ {0}
      BY MmapFileAssumption
    <3>2. CASE UNCHANGED members
      BY <2>1, <3>2 DEF members, Mapped
    <3>3. CASE MoveWindow(offset, size)
      <4>1. /\ MmapWorks(PageOf(offset), WindowSize(offset, size))
            /\ m_fileSize < offset + size => m_fileSize' = offset + size
            /\ ~(m_fileSize < offset + size) => m_fileSize' = m_fileSize
        BY <3>3 DEF MoveWindow, MmapFails
      <4>2. /\ PageOf(offset) \in Nat /\ PageOf(offset) <= offset
            /\ WindowSize(offset, size) > 0
        BY <3>1, PageOfProperties, WindowSizeProperties
      <4> QED
        BY <2>1, <3>1, <4>1, <4>2, Members DEF Mapped, MmapWorks
    <3> QED
      BY <2>1, <3>2, <3>3 DEF Map, Hit, CannotUnmap
  <2>2. ASSUME NEW n \in Nat, Trim(n) PROVE Mapped'
    <3>1. CASE CannotUnmap
      BY <2>2, <3>1 DEF CannotUnmap, Trim, members, Mapped
    <3>2. CASE TrimTo(n)
      BY <2>2, <3>2, Members DEF TrimTo, MmapWorks, MmapFails, Trim, Mapped
    <3> QED
      BY <2>2, <3>1, <3>2 DEF Trim
  <2>3. ASSUME NEW v \in Byte, Write(v) PROVE Mapped'
    <3>1. m_begin # NULL /\ m_begin.size = m_windowSize
      BY <2>3 DEF Write, Mapped, NULL, Window
    <3>2. ptr.at + ptr.size <= m_begin.size
      BY <2>3, <3>1, PointerLeads DEF PointersLeadToRange, Write
    <3>3. ptr.at \in Nat /\ ptr.size \in Nat /\ m_begin.size \in Nat
      BY <2>3, <3>1, Members DEF IInv, Result, Nothing, Null, Threw, Write
    <3> QED
      BY <2>3, <3>2, <3>3 DEF Write, members, Mapped
  <2>4. CASE Open
    BY <2>4, Members DEF Open, MmapWorks, Mapped
  <2>5. CASE Close
    BY <2>5 DEF Close, Mapped
  <2>6. CASE AssertionFails
    BY <2>6 DEF AssertionFails, Asserts, Mapped
  <2>7. CASE UNCHANGED vars
    BY <2>7 DEF vars, members, Mapped
  <2>8. ASSUME NEW offset \in Offset, NEW size \in Size, GetWritePtr(offset, size)
        PROVE  Mapped'
    BY <2>1, <2>8 DEF GetWritePtr
  <2>9. ASSUME NEW offset \in Offset, NEW size \in Size, GetReadPtr(offset, size)
        PROVE  Mapped'
    <3>1. CASE UNCHANGED members
      BY <2>9, <3>1 DEF members, Mapped, GetReadPtr
    <3>2. CASE Map(offset, size)
      BY <2>1, <2>9, <3>2 DEF GetReadPtr
    <3> QED
      BY <2>9, <3>1, <3>2 DEF GetReadPtr
  <2>10. ASSUME NEW n \in Keep, Trim(n) PROVE Mapped'
    BY <2>2, <2>10, MmapFileAssumption
  <2>11. CASE Clear
    BY <2>2, <2>11 DEF Clear
  <2> QED
    BY <2>3, <2>4, <2>5, <2>6, <2>7, <2>8, <2>9, <2>10, <2>11 DEF Next
<1>3. IInv /\ Mapped => phase \in {"closed", "open"} /\ PointersAreNotNull
  <2> SUFFICES ASSUME IInv, Mapped, ptr.kind = "pointer" PROVE m_begin # NULL
    BY DEF Mapped, PointersAreNotNull
  <2>1. phase = "open"
    BY DEF Mapped, IInv, PointerInWindow
  <2> QED
    BY <2>1 DEF Mapped, NULL, Window
<1> QED
  BY <1>1, <1>2, <1>3, Inductive, PTL DEF Spec
=============================================================================
