------------------------------ MODULE Services ------------------------------
(***************************************************************************)
(* The services of the import table (runtime/imports/__init__.py) that keep*)
(* state of their own besides the window server: the heap, the streams and *)
(* the C library.  No two of them share a variable, so what one does never *)
(* enables, disables or changes a step of another, and an invariant of one *)
(* alone is an invariant of all together.  "part" says which of them the   *)
(* game calls in a behaviour; the others stand still in one of their       *)
(* initial states.                                                         *)
(***************************************************************************)
EXTENDS GuestHeap, ArchiveFiles, GuestMemory

VARIABLE part

servicesVars == <<heapVars, fileVars, memVars, part>>

HeapAtRest ==
  /\ next = HeapBase /\ blocks = {} /\ stamped = {} /\ vtable = FALSE
  /\ cache = <<>> /\ bitmapOf = <<>> /\ util = [u \in Utils |-> [bitmap |-> 0, pos |-> 0]]

FilesAtRest ==
  /\ saveSet = FALSE /\ disk = [f \in Paths |-> Absent] /\ streams = <<>>
  /\ nextHandle = 0 /\ gone = {} /\ wrote = <<>> /\ ravaged = FALSE /\ clash = FALSE /\ ended = "no"

MemAtRest ==
  /\ mem = [a \in 0 .. (MemTop - 1) |-> 0]
  /\ call = [op |-> "none", a |-> 0, b |-> 0, n |-> 0, result |-> 0]

ServicesInit ==
  \/ part = "heap" /\ HeapInit /\ FilesAtRest /\ MemAtRest
  \/ part = "files" /\ HeapAtRest /\ FilesInit /\ MemAtRest
  \/ part = "memory" /\ HeapAtRest /\ FilesAtRest /\ MemInit

ServicesNext ==
  /\ UNCHANGED part
  /\ \/ part = "heap" /\ HeapNext /\ UNCHANGED <<fileVars, memVars>>
     \/ part = "files" /\ FilesNext /\ UNCHANGED <<heapVars, memVars>>
     \/ part = "memory" /\ MemNext /\ UNCHANGED <<heapVars, fileVars>>

ServicesSpec == ServicesInit /\ [][ServicesNext]_servicesVars

-----------------------------------------------------------------------------
\* Whatever the game asks of its C library is answered as C promises: no file
\* but the save is damaged, acknowledged bytes are on disk, a separator is
\* found where it is, quotient and remainder agree.
LibrarySound == FilesSound /\ StrchrFindsFirst /\ DivisionAgrees

\* What the game was told stays true: strings and blocks it had copied arrived
\* whole and damaged nothing else, and the address it got for a bitmap is the
\* one it gets again.
CallsKeepTheirWord == CopiesArrive /\ AddressIsStable
=============================================================================
