------------------------------ MODULE MmapFile ------------------------------
(***************************************************************************)
(* One file and the MmapFile objects that open it one after another        *)
(* (mmap_file.h, mmap_file.cpp): a window of whole pages slides over the   *)
(* file, and pointers into it are handed out.  System calls may fail, and  *)
(* every failure is an exception that leaves the members as they are when  *)
(* it is thrown.  A pointer is modelled by its distance from m_begin.      *)
(***************************************************************************)
EXTENDS Integers, Sequences

CONSTANTS
  PageSize,  \* g_pageSize
  Offset,    \* offsets callers ask for
  Size,      \* sizes callers ask for
  Keep,      \* arguments of trim
  Byte,      \* what a caller writes
  Fails      \* the system calls that may fail, among "ftruncate" and "mmap"

ASSUME MmapFileAssumption ==
  /\ PageSize \in Nat \ {0}
  /\ Offset \subseteq Nat
  /\ Size \subseteq Nat \ {0}
  /\ Keep \subseteq Nat
  /\ Fails \subseteq {"ftruncate", "mmap"}

VARIABLES
  m_fileSize,
  m_offset,
  m_windowSize,
  m_begin,  \* what is mapped there, a range of the file, or NULL
  disk,     \* the bytes of the file, which a shared mapping shares
  ptr,      \* what the last call gave its caller
  phase     \* is there an MmapFile object, and is its behaviour defined?

members == <<m_fileSize, m_offset, m_windowSize, m_begin>>
vars == <<members, disk, ptr, phase>>

\* Nothing is mapped there.
NULL == [offset |-> 0, size |-> 0]

Window(offset, size) == [offset |-> offset, size |-> size]

\* Results of a call: nothing, a NULL pointer, an exception, or a pointer at
\* the given distance from m_begin for a range of the file.
Nothing == [kind |-> "nothing"]
Null    == [kind |-> "null"]
Threw   == [kind |-> "threw"]
Pointer(at, offset, size) ==
  [kind |-> "pointer", at |-> at, offset |-> offset, size |-> size]

PageOf(offset) == offset - (offset % PageSize)

\* (fault) not rounded to whole pages
WindowSizeExact(offset, size) == offset - PageOf(offset) + size

\* The window that getPtr maps: from the page of the offset, in whole pages.
WindowSize(offset, size) ==
  LET bytes == offset - PageOf(offset) + size
  IN  bytes + PageSize - (bytes % PageSize)

Resized(bytes, n) ==
  [i \in 1 .. n |-> IF i <= Len(bytes) THEN bytes[i] ELSE 0]

-----------------------------------------------------------------------------
(* System calls *)

\* munmap refuses an empty range, and takes one where nothing is mapped.
CanUnmap == m_windowSize > 0

MmapWorks(offset, size) ==
  /\ m_begin' = Window(offset, size)
  /\ m_offset' = offset
  /\ m_windowSize' = size

MmapFails(offset, size) ==
  /\ "mmap" \in Fails
  /\ m_begin' = NULL
  /\ m_offset' = offset
  /\ m_windowSize' = size

-----------------------------------------------------------------------------
(* Construction and destruction *)

Init ==
  /\ m_fileSize = 0
  /\ m_offset = 0
  /\ m_windowSize = 0
  /\ m_begin = NULL
  /\ disk = <<>>
  /\ ptr = Nothing
  /\ phase = "closed"

Open ==
  /\ phase = "closed"
  /\ m_fileSize' = Len(disk)
  /\ MmapWorks(0, PageSize)
  /\ phase' = "open"
  /\ UNCHANGED <<disk, ptr>>

\* The destructor ignores what its system calls return.
Close ==
  /\ phase = "open"
  /\ m_fileSize' = 0
  /\ m_offset' = 0
  /\ m_windowSize' = 0
  /\ m_begin' = NULL
  /\ ptr' = Nothing
  /\ phase' = "closed"
  /\ UNCHANGED disk

-----------------------------------------------------------------------------
(* getPtr *)

\* (fault) bytes of the last page behind the end of the file are in it
EffectiveWindowSizeWhole == m_windowSize

EffectiveWindowSize ==
  IF m_windowSize < m_fileSize - m_offset THEN m_windowSize
  ELSE m_fileSize - m_offset

\* (fault) a range that ends where the window does is not in it
IsInsideWindow(offset, size) ==
  /\ m_offset <= offset
  /\ m_offset + EffectiveWindowSize > offset + size

IsInWindow(offset, size) ==
  /\ m_offset <= offset
  /\ m_offset + EffectiveWindowSize >= offset + size

\* The assertion of effectiveWindowSize, which every getPtr evaluates.
Asserts == m_offset <= m_fileSize

\* (fault) the window is taken to start at the start of the file
HitFromStart(offset, size) ==
  /\ IsInWindow(offset, size)
  /\ ptr' = Pointer(offset, offset, size)
  /\ UNCHANGED <<members, disk>>

Hit(offset, size) ==
  /\ IsInWindow(offset, size)
  /\ ptr' = Pointer(offset - m_offset, offset, size)
  /\ UNCHANGED <<members, disk>>

\* unmap throws, and nothing has changed.
CannotUnmap ==
  /\ ~CanUnmap
  /\ ptr' = Threw
  /\ UNCHANGED <<members, disk>>

\* The window moves, and the file grows first if it has to.
MoveWindow(offset, size) ==
  LET page == PageOf(offset)
      bytes == WindowSize(offset, size)
      grows == m_fileSize < offset + size
  IN
  /\ CanUnmap
  /\ \/ /\ grows
        /\ "ftruncate" \in Fails
        /\ m_begin' = NULL
        /\ m_offset' = page
        /\ m_windowSize' = bytes
        /\ ptr' = Threw
        /\ UNCHANGED <<m_fileSize, disk>>
     \/ /\ IF grows
           THEN /\ m_fileSize' = offset + size
                /\ disk' = Resized(disk, offset + size)
           ELSE UNCHANGED <<m_fileSize, disk>>
        /\ \/ /\ MmapWorks(page, bytes)
              /\ ptr' = Pointer(offset - page, offset, size)
           \/ MmapFails(page, bytes) /\ ptr' = Threw

Map(offset, size) ==
  \/ Hit(offset, size)
  \/ ~IsInWindow(offset, size) /\ (CannotUnmap \/ MoveWindow(offset, size))

GetWritePtr(offset, size) ==
  /\ phase = "open"
  /\ Asserts
  /\ Map(offset, size)
  /\ UNCHANGED phase

\* The const getPtr gives NULL behind the end of the file, and else calls the
\* other one, which it casts its constness away for.
GetReadPtr(offset, size) ==
  /\ phase = "open"
  /\ IF offset >= m_fileSize
     THEN ptr' = Null /\ UNCHANGED <<members, disk>>
     ELSE Asserts /\ Map(offset, size)
  /\ UNCHANGED phase

\* A failed assertion ends the program.
AssertionFails ==
  /\ phase = "open"
  /\ ~Asserts
  /\ phase' = "aborted"
  /\ UNCHANGED <<members, disk, ptr>>

-----------------------------------------------------------------------------
(* trim and clear *)

\* (fault) the members are set as if ftruncate could not fail
TrimForgetful(n) ==
  /\ CanUnmap
  /\ m_fileSize' = n
  /\ \/ /\ "ftruncate" \in Fails
        /\ m_begin' = NULL
        /\ m_offset' = 0
        /\ m_windowSize' = 0
        /\ ptr' = Threw
        /\ UNCHANGED disk
     \/ /\ disk' = Resized(disk, n)
        /\ \/ MmapWorks(0, PageSize) /\ ptr' = Nothing
           \/ MmapFails(0, PageSize) /\ ptr' = Threw

\* unmap has reset the window to the start of the file.
TrimTo(n) ==
  /\ CanUnmap
  /\ \/ /\ "ftruncate" \in Fails
        /\ m_begin' = NULL
        /\ m_offset' = 0
        /\ m_windowSize' = 0
        /\ ptr' = Threw
        /\ UNCHANGED <<m_fileSize, disk>>
     \/ /\ m_fileSize' = n
        /\ disk' = Resized(disk, n)
        /\ \/ MmapWorks(0, PageSize) /\ ptr' = Nothing
           \/ MmapFails(0, PageSize) /\ ptr' = Threw

Trim(n) ==
  /\ phase = "open"
  /\ CannotUnmap \/ TrimTo(n)
  /\ UNCHANGED phase

Clear == Trim(0)

-----------------------------------------------------------------------------
(* The caller *)

\* The range asked for is written through the pointer just obtained; what is
\* at an address that is not mapped is not defined.
Write(v) ==
  /\ phase = "open"
  /\ ptr.kind = "pointer"
  /\ IF ptr.at + ptr.size > m_begin.size
     THEN phase' = "undefined" /\ UNCHANGED disk
     ELSE /\ disk' = [i \in DOMAIN disk |->
                        IF /\ m_begin.offset + ptr.at < i
                           /\ i <= m_begin.offset + ptr.at + ptr.size
                        THEN v ELSE disk[i]]
          /\ UNCHANGED phase
  /\ UNCHANGED <<members, ptr>>

Next ==
  \/ Open
  \/ Close
  \/ \E offset \in Offset, size \in Size : GetWritePtr(offset, size)
  \/ \E offset \in Offset, size \in Size : GetReadPtr(offset, size)
  \/ AssertionFails
  \/ \E n \in Keep : Trim(n)
  \/ Clear
  \/ \E v \in Byte : Write(v)

Spec == Init /\ [][Next]_vars

-----------------------------------------------------------------------------
(* Properties *)

\* The members have their types, and windows start and end at page bounds.
TypeOK ==
  /\ m_fileSize \in Nat
  /\ m_offset \in {n \in 0 .. m_offset : n % PageSize = 0}
  /\ m_windowSize \in {n \in 0 .. m_windowSize : n % PageSize = 0}
  /\ m_begin \in {NULL, Window(m_offset, m_windowSize)}
  /\ disk \in Seq(Byte \cup {0})
  /\ phase \in {"closed", "open", "aborted", "undefined"}

\* The cached size, which decides about growing, NULL and the window, is the
\* size of the file, whatever system call failed after which.
SizeIsTrue == phase = "open" => m_fileSize = Len(disk)

\* Unless a failed call left m_begin NULL, a pointer leads to the range it
\* was asked for, all of which is mapped and in the file: wherever the range
\* lies in its pages, and also when the window was mapped for another range.
PointersLeadToRange ==
  ptr.kind = "pointer" /\ m_begin # NULL =>
    /\ m_begin.offset + ptr.at = ptr.offset
    /\ ptr.at + ptr.size <= m_begin.size
    /\ ptr.offset + ptr.size <= Len(disk)

\* Asking for a part of the range asked for last does not move the window, so
\* that pointers into the range stay good: "call getPtr() on the entire range
\* of interest and then continue to call getPtr() on smaller portions"
\* (mmap_file.h).
IsPartOfRange(offset, size) ==
  /\ ptr.kind = "pointer"
  /\ ptr.offset <= offset
  /\ offset + size <= ptr.offset + ptr.size

SubrangesKeepPointers ==
  [][\A offset \in Offset, size \in Size :
       /\ IsPartOfRange(offset, size)
       /\ GetWritePtr(offset, size) \/ GetReadPtr(offset, size)
       => UNCHANGED <<m_offset, m_windowSize, m_begin>>]_vars

\* The object is a file of bytes: moving the window, growing, cutting and
\* failing neither lose a byte written nor change another.
Bytes == INSTANCE ByteFile WITH
  bytes <- disk,
  range <- IF ptr.kind = "pointer" THEN Window(ptr.offset, ptr.size) ELSE NULL
ImplementsByteFile == Bytes!Spec

-----------------------------------------------------------------------------
(* A property the header states and the code does not have *)

\* getWritePtr "Will not return NULL but will throw an exception on failure"
\* (mmap_file.h).
PointersAreNotNull == ptr.kind = "pointer" => m_begin # NULL
=============================================================================
