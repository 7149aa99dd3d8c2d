----------------------------- MODULE GuestHeap -----------------------------
(***************************************************************************)
(* The heap the harness lends to the game: the bump allocator of           *)
(* runtime/memory.py, the import handlers that hand out its blocks         *)
(* (runtime/imports/euser.py, mediaclientaudiostream.py), and the bitmap   *)
(* buffers and pixel cursors of runtime/graphics.py.                       *)
(*                                                                         *)
(* Addresses are numbers; memory is kept only as far as the harness writes *)
(* it: the set of words stamped with the shared vtable, and the two words  *)
(* of each TBitmapUtil object of the guest.                                *)
(***************************************************************************)
EXTENDS Integers, FiniteSets

CONSTANTS
  HeapBase, HeapSize,  \* HEAP_VA, HEAP_SIZE
  ReqSizes,            \* sizes the game asks for
  FixedSize,           \* the buffer of EUSER:0x83 (FIXED_SIZE_ALLOC_VAS)
  ObjectSize,          \* min_size of alloc_with_vtable
  SeedSize,            \* the buffer of GLOBAL_BUFFER_SEEDS
  ScreenWidth, ScreenHeight, Bpp,
  Bitmaps,             \* guest addresses of CFbsBitmap objects
  Utils,               \* guest addresses of TBitmapUtil objects
  Coords               \* coordinates the game passes to Begin

ASSUME HeapAssumption ==
  /\ HeapBase \in Nat \ {0} /\ HeapBase % 8 = 0
  /\ HeapSize \in Nat
  /\ ReqSizes \subseteq Nat
  /\ FixedSize \in Nat \ {0} /\ ObjectSize \in Nat \ {0} /\ SeedSize \in Nat \ {0}
  /\ ScreenWidth \in Nat \ {0} /\ ScreenHeight \in Nat \ {0} /\ Bpp \in Nat \ {0}
  /\ Bitmaps \subseteq Nat \ {0}
  /\ Coords \subseteq Int

DataAddressSize == ScreenWidth * ScreenHeight * Bpp

VARIABLES
  next,        \* BumpAllocator.next
  blocks,      \* every block handed out: its address, size and what asked for it
  stamped,     \* addresses of the words the harness wrote the vtable pointer to
  vtable,      \* ctx.vtable_va is set (fake_vtable_trap is enabled)
  cache,       \* ctx.dataaddress_cache
  bitmapOf,    \* ctx.tbitmaputil_bitmap_of
  util         \* the guest's TBitmapUtil objects: iFbsBitmap and iWordPos

heapVars == <<next, blocks, stamped, vtable, cache, bitmapOf, util>>

Kinds == {"object", "raw", "bitmap", "seed"}

-----------------------------------------------------------------------------
(* The allocator.                                                          *)

\* Sizes are rounded up to a multiple of 8, and an empty block takes 8 bytes.
RoundUp(size) == IF size = 0 THEN 8 ELSE 8 * ((size + 7) \div 8)

Fits(size) == next + RoundUp(size) <= HeapBase + HeapSize

\* What alloc returns: the mark, or 0 when the block does not fit.
AllocPtr(size) == IF Fits(size) THEN next ELSE 0

\* The effect of alloc on the mark, which stays where it is on failure.
Alloc(size, kind) ==
  IF Fits(size)
  THEN /\ next' = next + RoundUp(size)
       /\ blocks' = blocks \cup {[at |-> next, size |-> RoundUp(size), kind |-> kind]}
  ELSE UNCHANGED <<next, blocks>>

\* A pointer the harness returns as an object gets the shared vtable.
StampIf(cond, ptr) ==
  stamped' = IF ptr # 0 /\ cond /\ vtable THEN stamped \cup {ptr} ELSE stamped

-----------------------------------------------------------------------------
(* The import handlers that allocate.                                      *)

HandleAlloc(size) ==
  /\ Alloc(size, "object")
  /\ StampIf(size >= 4, AllocPtr(size))
  /\ UNCHANGED <<vtable, cache, bitmapOf, util>>

\* The raw array of the earlier generic allocator, stamped like an object.
StampedRawAlloc(size) ==
  /\ Alloc(size, "raw")
  /\ StampIf(size >= 4, AllocPtr(size))
  /\ UNCHANGED <<vtable, cache, bitmapOf, util>>

\* __builtin_vec_new: array storage, never stamped.
HandleRawAlloc(size) ==
  /\ Alloc(size, "raw")
  /\ UNCHANGED <<stamped, vtable, cache, bitmapOf, util>>

HandleFixedSizeAlloc ==
  /\ Alloc(FixedSize, "object")
  /\ StampIf(TRUE, AllocPtr(FixedSize))
  /\ UNCHANGED <<vtable, cache, bitmapOf, util>>

\* The audio stream factory: without a vtable it hands out nothing at all.
HandleFactory ==
  /\ IF vtable THEN Alloc(ObjectSize, "object") /\ StampIf(TRUE, AllocPtr(ObjectSize))
     ELSE UNCHANGED <<next, blocks, stamped>>
  /\ UNCHANGED <<vtable, cache, bitmapOf, util>>

-----------------------------------------------------------------------------
(* Bitmap buffers and pixel cursors.                                       *)

Cached(b) == b \in DOMAIN cache

\* The buffer of a bitmap: the cached one, else the one allocated now.
BufferOf(b) == IF Cached(b) THEN cache[b] ELSE AllocPtr(DataAddressSize)

\* get_or_make_dataaddress_buffer: a failed allocation is cached as well.
GetOrMake(b) ==
  IF Cached(b) THEN UNCHANGED <<next, blocks, stamped, cache>>
  ELSE /\ Alloc(DataAddressSize, "bitmap")
       /\ StampIf(TRUE, AllocPtr(DataAddressSize))
       /\ cache' = [c \in DOMAIN cache \cup {b} |->
                      IF c = b THEN BufferOf(b) ELSE cache[c]]

HandleDataAddress(b) ==
  /\ GetOrMake(b)
  /\ UNCHANGED <<vtable, bitmapOf, util>>

\* TBitmapUtil(bitmap): the bitmap may be null, the object may not.
HandleUtilCtor(u, b) ==
  /\ util' = [util EXCEPT ![u] = [bitmap |-> b, pos |-> 0]]
  /\ bitmapOf' = [v \in DOMAIN bitmapOf \cup {u} |-> IF v = u THEN b ELSE bitmapOf[v]]
  /\ UNCHANGED <<next, blocks, stamped, vtable, cache>>

\* The bitmap of a cursor: what the constructor recorded, else the word of
\* the guest's own object.
UtilBitmap(u) ==
  IF u \in DOMAIN bitmapOf /\ bitmapOf[u] # 0 THEN bitmapOf[u] ELSE util[u].bitmap

\* The bound of the buffer is not checked.
WordPosUnbounded(buf, x, y) ==
  IF buf = 0 THEN 0
  ELSE IF x \in 0..(ScreenWidth - 1) /\ y >= 0
       THEN buf + (y * ScreenWidth + x) * Bpp
       ELSE buf

\* The pixel (x, y) of a buffer, or its first word when outside.
WordPos(buf, x, y) ==
  LET offset == (y * ScreenWidth + x) * Bpp
  IN  IF buf = 0 THEN 0
      ELSE IF x \in 0..(ScreenWidth - 1) /\ y >= 0 /\ offset < DataAddressSize
           THEN buf + offset
           ELSE buf

HandleUtilBegin(u, x, y) ==
  LET b == UtilBitmap(u)
      buf == IF b = 0 THEN 0 ELSE BufferOf(b)
  IN  /\ IF b = 0 THEN UNCHANGED <<next, blocks, stamped, cache>> ELSE GetOrMake(b)
      /\ util' = [util EXCEPT ![u].pos = WordPos(buf, x, y)]
      /\ UNCHANGED <<vtable, bitmapOf>>

\* FBSCLI:0x19 does nothing.
HandleUtilEnd(u) == UNCHANGED heapVars

-----------------------------------------------------------------------------
\* Patch set-up before the first instruction: the vtable page, and the buffer
\* of GLOBAL_BUFFER_SEEDS, each present unless its patch is disabled.
HeapInit ==
  /\ vtable \in BOOLEAN
  /\ \E seed \in BOOLEAN :
       IF seed /\ RoundUp(SeedSize) <= HeapSize
       THEN /\ next = HeapBase + RoundUp(SeedSize)
            /\ blocks = {[at |-> HeapBase, size |-> RoundUp(SeedSize), kind |-> "seed"]}
       ELSE next = HeapBase /\ blocks = {}
  /\ stamped = {}
  /\ cache = <<>>
  /\ bitmapOf = <<>>
  /\ util \in [Utils -> [bitmap : Bitmaps \cup {0}, pos : {0}]]

HeapNext ==
  \/ \E size \in ReqSizes : HandleAlloc(size) \/ HandleRawAlloc(size)
  \/ HandleFixedSizeAlloc
  \/ HandleFactory
  \/ \E b \in Bitmaps : HandleDataAddress(b)
  \/ \E u \in Utils :
       \/ \E b \in Bitmaps \cup {0} : HandleUtilCtor(u, b)
       \/ \E x, y \in Coords : HandleUtilBegin(u, x, y)
       \/ HandleUtilEnd(u)

HeapSpec == HeapInit /\ [][HeapNext]_heapVars

-----------------------------------------------------------------------------
(* Properties.                                                             *)

Block == [at : Nat, size : Nat \ {0}, kind : Kinds]
Span(b) == b.at .. (b.at + b.size - 1)

\* Blocks never overlap, stay inside the heap and below the mark, and are
\* aligned to 8 bytes, however the calls that allocate interleave and after
\* the heap is exhausted (memory.py:31-40).
BlocksDisjoint ==
  /\ \A b \in blocks : /\ b.at >= HeapBase /\ b.at % 8 = 0
                       /\ b.at + b.size <= next /\ next <= HeapBase + HeapSize
  /\ \A b, c \in blocks : b = c \/ b.at + b.size <= c.at \/ c.at + c.size <= b.at

\* The vtable pointer is written only to the first word of a block that is an
\* object or a bitmap buffer: never into a raw array, whose first element it
\* would replace (the defect described at euser.py:21-25), and never in the
\* middle of a block.
StampsOnlyObjects ==
  \A a \in stamped : \E b \in blocks : b.at = a /\ b.kind \in {"object", "bitmap"}

\* The address cached for a bitmap is the right answer for ever: a buffer of
\* its own, shared with no other bitmap, or 0 when no buffer would fit even
\* now, so that caching the failure loses nothing (graphics.py:53-61).
CacheStaysRight ==
  /\ \A b \in DOMAIN cache :
       IF cache[b] = 0 THEN ~Fits(DataAddressSize)
       ELSE \E k \in blocks : k.at = cache[b] /\ k.kind = "bitmap" /\ k.size >= DataAddressSize
  /\ \A b, c \in DOMAIN cache : cache[b] = cache[c] /\ cache[b] # 0 => b = c

HeapSound == BlocksDisjoint /\ StampsOnlyObjects /\ CacheStaysRight

\* A pixel cursor points into the buffer of the bitmap its own object names,
\* and into no other block of the heap (graphics.py:81-107: "routed through
\* the SAME per-bitmap cache above so pixel writes land in the correct
\* isolated buffer").
CursorsIsolated ==
  \A u \in Utils : util[u].pos # 0 =>
    /\ util[u].bitmap \in DOMAIN cache
    /\ util[u].pos \in cache[util[u].bitmap] .. (cache[util[u].bitmap] + DataAddressSize - 1)
    /\ \A k \in blocks : util[u].pos \in Span(k) => k.at = cache[util[u].bitmap]

\* The address the game holds for a bitmap never changes: it compares the
\* addresses of two calls to learn whether the bitmap was moved
\* (graphics.py:6-11).
AddressIsStable ==
  [][\A b \in DOMAIN cache : b \in DOMAIN cache' /\ cache'[b] = cache[b]]_heapVars
=============================================================================
