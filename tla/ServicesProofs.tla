---------------------------- MODULE ServicesProofs ----------------------------
(***************************************************************************)
(* Proofs about the services of the import table, for every heap and screen*)
(* size, every set of file contents, modes, sizes and offsets, every size  *)
(* of guest memory and every width of a word: blocks never overlap and a   *)
(* pixel cursor never leaves the buffer of its bitmap; what fwrite has     *)
(* acknowledged is on disk and the archive is what it was; strchr finds the*)
(* first match, quotient and remainder agree, and a copy arrives whole.    *)
(*                                                                         *)
(* Each service has an inductive invariant of its own, proved in a section *)
(* of its own; the last section puts them together.                        *)
(***************************************************************************)
EXTENDS Services, EventsProofs, FiniteSetTheorems, TLAPS

-----------------------------------------------------------------------------
(* The heap: its inductive invariant.                                      *)

HeapTypeOK ==
  /\ next \in Nat /\ next >= HeapBase /\ next % 8 = 0
  /\ blocks \subseteq Block
  /\ \A b \in DOMAIN cache : cache[b] \in Nat
  /\ util \in [Utils -> [bitmap : Bitmaps \cup {0}, pos : Nat]]

\* What the constructor recorded for a cursor is what the guest's object says.
RecordsAgree ==
  \A u \in DOMAIN bitmapOf : u \in Utils /\ bitmapOf[u] # 0 => util[u].bitmap = bitmapOf[u]

\* A cursor that is set points into the buffer of its bitmap.  That no other
\* block is there needs no induction of its own: it follows from the rest.
Placed(u) ==
  util[u].pos # 0 =>
    LET b == util[u].bitmap
    IN  /\ b \in DOMAIN cache /\ cache[b] # 0
        /\ util[u].pos \in cache[b] .. (cache[b] + DataAddressSize - 1)

CursorsPlaced == \A u \in Utils : Placed(u)

HeapInv == HeapTypeOK /\ HeapSound /\ CursorsPlaced /\ RecordsAgree

\* What a step may do to mark and blocks.
Grows ==
  /\ next' \in Nat /\ next' >= next /\ next' >= HeapBase /\ next' % 8 = 0
  /\ blocks \subseteq blocks' /\ blocks' \subseteq Block
  /\ \A k \in blocks' \ blocks : k.at = next
  /\ BlocksDisjoint'

\* What a step may do to the cache.
CacheGrows == \A b \in DOMAIN cache : b \in DOMAIN cache' /\ cache'[b] = cache[b]

-----------------------------------------------------------------------------
(* The heap: arithmetic.                                                   *)

\* The types of the constants the steps need.
LEMMA ConstantTypes ==
  /\ HeapBase \in Nat
  /\ \A b \in Bitmaps : b \in Nat
  /\ \A c \in Coords : c \in Int
  BY HeapAssumption

\* Rounding up gives a positive multiple of 8 that is large enough.
LEMMA RoundUpFacts ==
  ASSUME NEW size \in Nat
  PROVE  RoundUp(size) \in Nat \ {0} /\ RoundUp(size) >= size /\ RoundUp(size) % 8 = 0
  BY DEF RoundUp

\* A product of natural numbers is a natural number, positive if both are.
LEMMA ProductFacts ==
  ASSUME NEW m \in Nat, NEW n \in Nat
  PROVE  m * n \in Nat /\ (m # 0 /\ n # 0 => m * n # 0)
  OBVIOUS

\* The buffer of a bitmap is not empty.
LEMMA DataAddressSizeType == DataAddressSize \in Nat \ {0}
<1>1. ScreenWidth * ScreenHeight \in Nat \ {0}
  BY HeapAssumption, ProductFacts
<1> QED
  BY <1>1, HeapAssumption, ProductFacts DEF DataAddressSize

\* A cursor is placed in its buffer.
LEMMA WordPosInBuffer ==
  ASSUME NEW buf \in Nat \ {0}, NEW x \in Int, NEW y \in Int
  PROVE  WordPos(buf, x, y) \in buf .. (buf + DataAddressSize - 1)
<1>1. CASE x \in 0..(ScreenWidth - 1) /\ y >= 0
  <2> DEFINE offset == (y * ScreenWidth + x) * Bpp
  <2>1. y * ScreenWidth \in Nat
    BY <1>1, HeapAssumption, ProductFacts
  <2>2. y * ScreenWidth + x \in Nat
    BY <1>1, <2>1, HeapAssumption
  <2>3. offset \in Nat
    BY <2>2, HeapAssumption, ProductFacts
  <2> HIDE DEF offset
  <2>4. WordPos(buf, x, y) = IF offset < DataAddressSize THEN buf + offset ELSE buf
    BY <1>1 DEF WordPos, offset
  <2> QED
    BY <2>3, <2>4, DataAddressSizeType
<1>2. CASE ~(x \in 0..(ScreenWidth - 1) /\ y >= 0)
  BY <1>2, DataAddressSizeType DEF WordPos
<1> QED
  BY <1>1, <1>2

-----------------------------------------------------------------------------
(* The allocator.                                                          *)

\* A successful allocation puts a new block at the mark, a failed one changes
\* nothing; either way the blocks stay disjoint.
LEMMA AllocGrows ==
  ASSUME HeapInv, NEW size \in Nat, NEW kind \in Kinds, Alloc(size, kind)
  PROVE  /\ Grows
         /\ Fits(size) => /\ AllocPtr(size) = next /\ next # 0
                          /\ \E k \in blocks' : k.at = next /\ k.kind = kind /\ k.size >= size
         /\ ~Fits(size) => AllocPtr(size) = 0 /\ UNCHANGED <<next, blocks>>
<1>1. /\ next \in Nat /\ next >= HeapBase /\ next % 8 = 0 /\ blocks \subseteq Block
      /\ HeapBase \in Nat \ {0} /\ HeapSize \in Nat
  BY HeapAssumption DEF HeapInv, HeapTypeOK
<1>2. BlocksDisjoint
  BY DEF HeapInv, HeapSound
<1>3. CASE Fits(size)
  <2> DEFINE new == [at |-> next, size |-> RoundUp(size), kind |-> kind]
  <2>1. /\ next' = next + RoundUp(size) /\ blocks' = blocks \cup {new}
        /\ next + RoundUp(size) <= HeapBase + HeapSize
    BY <1>3 DEF Alloc, Fits
  <2>2. RoundUp(size) \in Nat \ {0} /\ RoundUp(size) >= size /\ RoundUp(size) % 8 = 0
    BY RoundUpFacts
  <2>3. next' \in Nat /\ next' >= next /\ next' >= HeapBase /\ next' % 8 = 0
    BY <1>1, <2>1, <2>2
  <2>4. new \in Block
    BY <1>1, <2>2 DEF Block
  <2>5. blocks' \subseteq Block
    BY <1>1, <2>1, <2>4
  <2>6. BlocksDisjoint'
    <3>1. \A b \in blocks : /\ b.at \in Nat /\ b.size \in Nat /\ b.at >= HeapBase /\ b.at % 8 = 0
                            /\ b.at + b.size <= next
      BY <1>1, <1>2 DEF BlocksDisjoint, Block
    <3>2. \A b \in blocks' : /\ b.at >= HeapBase /\ b.at % 8 = 0
                             /\ b.at + b.size <= next' /\ next' <= HeapBase + HeapSize
      BY <1>1, <2>1, <2>2, <3>1
    <3>3. \A b, c \in blocks' : b = c \/ b.at + b.size <= c.at \/ c.at + c.size <= b.at
      BY <1>2, <2>1, <3>1 DEF BlocksDisjoint
    <3> QED
      BY <3>2, <3>3 DEF BlocksDisjoint
  <2>7. Grows
    BY <2>1, <2>3, <2>5, <2>6 DEF Grows
  <2>8. new \in blocks' /\ new.at = next /\ new.kind = kind /\ new.size >= size
    BY <2>1, <2>2
  <2>9. \E k \in blocks' : k.at = next /\ k.kind = kind /\ k.size >= size
    BY <2>8
  <2>10. AllocPtr(size) = next /\ next # 0
    BY <1>1, <1>3 DEF AllocPtr
  <2> QED
    BY <1>3, <2>7, <2>9, <2>10
<1>4. CASE ~Fits(size)
  <2>1. UNCHANGED <<next, blocks>>
    BY <1>4 DEF Alloc
  <2> QED
    BY <1>1, <1>2, <1>4, <2>1 DEF Grows, AllocPtr, BlocksDisjoint
<1> QED
  BY <1>3, <1>4

\* Standing still is a way to grow.
LEMMA StillGrows ==
  ASSUME HeapInv, UNCHANGED <<next, blocks>>
  PROVE  Grows
  BY DEF HeapInv, HeapTypeOK, HeapSound, Grows, BlocksDisjoint

\* A vtable written to an object just allocated, if it was.
LEMMA StampKeeps ==
  ASSUME HeapInv, NEW size \in Nat, NEW kind \in {"object", "bitmap"}, NEW cond \in BOOLEAN,
         Alloc(size, kind), StampIf(cond, AllocPtr(size))
  PROVE  StampsOnlyObjects'
<1>1. kind \in Kinds
  BY DEF Kinds
<1>2. /\ blocks \subseteq blocks'
      /\ Fits(size) => /\ AllocPtr(size) = next
                       /\ \E k \in blocks' : k.at = next /\ k.kind = kind
      /\ ~Fits(size) => AllocPtr(size) = 0
  BY <1>1, AllocGrows DEF Grows
<1>3. stamped' \subseteq stamped \cup {AllocPtr(size)} /\ (AllocPtr(size) = 0 => stamped' = stamped)
  BY DEF StampIf
<1>4. StampsOnlyObjects
  BY DEF HeapInv, HeapSound
<1> QED
  BY <1>2, <1>3, <1>4 DEF StampsOnlyObjects

\* No stamp: more blocks do no harm.
LEMMA NoStampKeeps ==
  ASSUME HeapInv, Grows, UNCHANGED stamped
  PROVE  StampsOnlyObjects'
  BY DEF HeapInv, HeapSound, StampsOnlyObjects, Grows

-----------------------------------------------------------------------------
(* The cache.                                                              *)

\* A failure once cached stays right, for the mark never goes back, and a
\* cached buffer stays a block.
LEMMA CacheKeeps ==
  ASSUME HeapInv, Grows, UNCHANGED cache
  PROVE  CacheStaysRight' /\ CacheGrows
<1>1. ASSUME NEW b \in DOMAIN cache
      PROVE  IF cache[b] = 0 THEN ~Fits(DataAddressSize)'
             ELSE \E k \in blocks' : k.at = cache[b] /\ k.kind = "bitmap" /\ k.size >= DataAddressSize
  <2>1. IF cache[b] = 0 THEN ~Fits(DataAddressSize)
        ELSE \E k \in blocks : k.at = cache[b] /\ k.kind = "bitmap" /\ k.size >= DataAddressSize
    BY <1>1 DEF HeapInv, HeapSound, CacheStaysRight
  <2>2. ~Fits(DataAddressSize) => ~Fits(DataAddressSize)'
    <3>1. RoundUp(DataAddressSize) \in Nat
      BY DataAddressSizeType, RoundUpFacts
    <3> QED
      BY <3>1, HeapAssumption DEF Fits, Grows, HeapInv, HeapTypeOK
  <2> QED
    BY <2>1, <2>2 DEF Grows
<1>2. \A b, c \in DOMAIN cache : cache[b] = cache[c] /\ cache[b] # 0 => b = c
  BY DEF HeapInv, HeapSound, CacheStaysRight
<1> QED
  BY <1>1, <1>2 DEF CacheStaysRight, CacheGrows

\* A cached buffer lies below the mark.
LEMMA CachedBelowMark ==
  ASSUME HeapInv, NEW b \in DOMAIN cache, cache[b] # 0
  PROVE  cache[b] \in Nat /\ cache[b] + DataAddressSize <= next
<1>1. PICK k \in blocks : k.at = cache[b] /\ k.size >= DataAddressSize
  BY DEF HeapInv, HeapSound, CacheStaysRight
<1>2. k.at + k.size <= next /\ k.at \in Nat /\ k.size \in Nat
  BY DEF HeapInv, HeapTypeOK, HeapSound, BlocksDisjoint, Block
<1> QED
  BY <1>1, <1>2, DataAddressSizeType DEF HeapInv, HeapTypeOK

\* get_or_make_dataaddress_buffer: the bitmap is cached afterwards, under the
\* address BufferOf names, and every other address is what it was.
LEMMA GetOrMakeFacts ==
  ASSUME HeapInv, NEW b \in Nat, GetOrMake(b)
  PROVE  /\ Grows /\ CacheGrows /\ CacheStaysRight' /\ StampsOnlyObjects'
         /\ b \in DOMAIN cache' /\ cache'[b] = BufferOf(b)
         /\ \A c \in DOMAIN cache' : cache'[c] \in Nat
<1>1. CASE Cached(b)
  <2>1. UNCHANGED <<next, blocks, stamped, cache>>
    BY <1>1 DEF GetOrMake
  <2>2. b \in DOMAIN cache' /\ cache'[b] = BufferOf(b)
    BY <1>1, <2>1 DEF Cached, BufferOf
  <2>3. \A c \in DOMAIN cache' : cache'[c] \in Nat
    BY <2>1 DEF HeapInv, HeapTypeOK
  <2> QED
    BY <2>1, <2>2, <2>3, StillGrows, NoStampKeeps, CacheKeeps
<1>2. CASE ~Cached(b)
  <2> DEFINE size == DataAddressSize
             ptr == AllocPtr(size)
  <2>1. /\ Alloc(size, "bitmap") /\ StampIf(TRUE, ptr)
        /\ cache' = [c \in DOMAIN cache \cup {b} |-> IF c = b THEN ptr ELSE cache[c]]
        /\ b \notin DOMAIN cache
    BY <1>2 DEF GetOrMake, Cached, BufferOf
  <2>2. size \in Nat /\ "bitmap" \in Kinds /\ "bitmap" \in {"object", "bitmap"}
    BY DataAddressSizeType DEF Kinds
  <2>3. /\ Grows
        /\ Fits(size) => /\ ptr = next /\ next # 0
                         /\ \E k \in blocks' : k.at = next /\ k.kind = "bitmap" /\ k.size >= size
        /\ ~Fits(size) => ptr = 0 /\ UNCHANGED <<next, blocks>>
    BY <2>1, <2>2, AllocGrows
  <2>4. StampsOnlyObjects'
    BY <2>1, <2>2, StampKeeps
  <2>5. CacheGrows /\ b \in DOMAIN cache' /\ cache'[b] = ptr /\ BufferOf(b) = ptr
    BY <1>2, <2>1 DEF CacheGrows, BufferOf
  <2>6. \A c \in DOMAIN cache' : cache'[c] \in Nat
    BY <2>1, <2>3 DEF HeapInv, HeapTypeOK
  <2>7. CacheStaysRight'
    <3>1. ASSUME NEW c \in DOMAIN cache'
          PROVE  IF cache'[c] = 0 THEN ~Fits(size)'
                 ELSE \E k \in blocks' : k.at = cache'[c] /\ k.kind = "bitmap" /\ k.size >= size
      <4>1. CASE c = b
        BY <2>3, <2>5, <4>1 DEF Fits
      <4>2. CASE c # b
        <5>1. c \in DOMAIN cache /\ cache'[c] = cache[c]
          BY <2>1, <3>1, <4>2
        <5>2. IF cache[c] = 0 THEN ~Fits(size)
              ELSE \E k \in blocks : k.at = cache[c] /\ k.kind = "bitmap" /\ k.size >= size
          BY <5>1 DEF HeapInv, HeapSound, CacheStaysRight
        <5>3. ~Fits(size) => ~Fits(size)'
          BY <2>3 DEF Fits
        <5> QED
          BY <2>3, <5>1, <5>2, <5>3 DEF Grows
      <4> QED
        BY <4>1, <4>2
    <3>2. ASSUME NEW c \in DOMAIN cache, cache[c] # 0
          PROVE  cache[c] # ptr
      <4>1. cache[c] \in Nat /\ cache[c] + size <= next
        BY <3>2, CachedBelowMark
      <4> QED
        BY <2>3, <3>2, <4>1, DataAddressSizeType DEF HeapInv, HeapTypeOK
    <3>3. \A c, d \in DOMAIN cache : cache[c] = cache[d] /\ cache[c] # 0 => c = d
      BY DEF HeapInv, HeapSound, CacheStaysRight
    <3>4. \A c, d \in DOMAIN cache' : cache'[c] = cache'[d] /\ cache'[c] # 0 => c = d
      BY <2>1, <3>2, <3>3
    <3> QED
      BY <3>1, <3>4 DEF CacheStaysRight
  <2> QED
    BY <2>3, <2>4, <2>5, <2>6, <2>7
<1> QED
  BY <1>1, <1>2

-----------------------------------------------------------------------------
(* The cursors.                                                            *)

\* Whatever lies in the buffer of a bitmap lies in no other block.
LEMMA BufferIsItsOwn ==
  ASSUME blocks \subseteq Block, BlocksDisjoint, CacheStaysRight,
         \A c \in DOMAIN cache : cache[c] \in Nat,
         NEW b \in DOMAIN cache, cache[b] # 0,
         NEW p \in cache[b] .. (cache[b] + DataAddressSize - 1),
         NEW k \in blocks, p \in Span(k)
  PROVE  k.at = cache[b]
<1>1. PICK m \in blocks : m.at = cache[b] /\ m.size >= DataAddressSize
  BY DEF CacheStaysRight
<1>2. /\ m.at \in Nat /\ m.size \in Nat /\ k.at \in Nat /\ k.size \in Nat
  BY DEF Block
<1>3. p \in Nat /\ p >= m.at /\ p < m.at + m.size /\ p >= k.at /\ p < k.at + k.size
  BY <1>1, <1>2, DataAddressSizeType DEF Span
<1>4. m = k
  BY <1>2, <1>3 DEF BlocksDisjoint
<1> QED
  BY <1>1, <1>4

\* Hence a cursor in the buffer of its bitmap is in no other block.
LEMMA PlacedIsIsolated ==
  ASSUME HeapInv
  PROVE  CursorsIsolated
<1>1. /\ blocks \subseteq Block /\ BlocksDisjoint /\ CacheStaysRight
      /\ \A c \in DOMAIN cache : cache[c] \in Nat
  BY DEF HeapInv, HeapTypeOK, HeapSound
<1>2. ASSUME NEW u \in Utils, util[u].pos # 0
      PROVE  /\ util[u].bitmap \in DOMAIN cache
             /\ util[u].pos \in cache[util[u].bitmap] .. (cache[util[u].bitmap] + DataAddressSize - 1)
             /\ \A k \in blocks : util[u].pos \in Span(k) => k.at = cache[util[u].bitmap]
  <2>1. /\ util[u].bitmap \in DOMAIN cache /\ cache[util[u].bitmap] # 0
        /\ util[u].pos \in cache[util[u].bitmap] .. (cache[util[u].bitmap] + DataAddressSize - 1)
    BY <1>2 DEF HeapInv, CursorsPlaced, Placed
  <2> QED
    BY <1>1, <2>1, BufferIsItsOwn
<1> QED
  BY <1>2 DEF CursorsIsolated

\* A cursor the step leaves alone stays where it is while the cache grows.
LEMMA CursorKeeps ==
  ASSUME HeapInv, CacheGrows, NEW u \in Utils, util'[u] = util[u]
  PROVE  Placed(u)'
  BY DEF HeapInv, CursorsPlaced, Placed, CacheGrows

-----------------------------------------------------------------------------
(* The steps.                                                              *)

\* A step that allocates, or not, and touches neither cache nor cursors.
LEMMA AllocationStep ==
  ASSUME HeapInv, Grows, StampsOnlyObjects', UNCHANGED <<cache, bitmapOf, util>>
  PROVE  HeapInv'
<1>1. CacheStaysRight' /\ CacheGrows
  BY CacheKeeps
<1>2. CursorsPlaced'
  BY <1>1, CursorKeeps DEF CursorsPlaced
<1>3. HeapTypeOK'
  BY DEF HeapInv, HeapTypeOK, Grows
<1>4. RecordsAgree'
  BY DEF HeapInv, RecordsAgree
<1> QED
  BY <1>1, <1>2, <1>3, <1>4 DEF HeapInv, HeapSound, Grows

\* The constructor sets cursor and record together.
LEMMA CtorStep ==
  ASSUME HeapInv, NEW u \in Utils, NEW b \in Bitmaps \cup {0}, HandleUtilCtor(u, b)
  PROVE  HeapInv'
<1>1. /\ util' = [util EXCEPT ![u] = [bitmap |-> b, pos |-> 0]]
      /\ bitmapOf' = [v \in DOMAIN bitmapOf \cup {u} |-> IF v = u THEN b ELSE bitmapOf[v]]
      /\ UNCHANGED <<next, blocks, stamped, cache>>
  BY DEF HandleUtilCtor
<1>2. util \in [Utils -> [bitmap : Bitmaps \cup {0}, pos : Nat]]
  BY DEF HeapInv, HeapTypeOK
<1>3. /\ util' \in [Utils -> [bitmap : Bitmaps \cup {0}, pos : Nat]]
      /\ util'[u].bitmap = b /\ util'[u].pos = 0
      /\ \A v \in Utils \ {u} : util'[v] = util[v]
  BY <1>1, <1>2
<1>4. Grows /\ StampsOnlyObjects' /\ CacheStaysRight' /\ CacheGrows
  BY <1>1, StillGrows, NoStampKeeps, CacheKeeps
<1>5. HeapTypeOK'
  BY <1>1, <1>3 DEF HeapInv, HeapTypeOK
<1>6. RecordsAgree'
  BY <1>1, <1>3 DEF HeapInv, RecordsAgree
<1>7. CursorsPlaced'
  <2>1. Placed(u)'
    BY <1>3 DEF Placed
  <2>2. ASSUME NEW v \in Utils \ {u}
        PROVE  Placed(v)'
    BY <1>3, <1>4, CursorKeeps
  <2> QED
    BY <2>1, <2>2 DEF CursorsPlaced
<1> QED
  BY <1>4, <1>5, <1>6, <1>7 DEF HeapInv, HeapSound, Grows

\* The bitmap Begin looks up is the one the guest's object names.
LEMMA UtilBitmapFacts ==
  ASSUME HeapInv, NEW u \in Utils
  PROVE  UtilBitmap(u) = util[u].bitmap /\ UtilBitmap(u) \in Nat
<1>1. UtilBitmap(u) = util[u].bitmap
  BY DEF HeapInv, RecordsAgree, UtilBitmap
<1>2. util[u].bitmap \in Bitmaps \cup {0}
  BY DEF HeapInv, HeapTypeOK
<1>3. util[u].bitmap \in Nat
  BY <1>2, ConstantTypes
<1> QED
  BY <1>1, <1>3

\* Begin moves one cursor into the buffer of its own bitmap.
LEMMA BeginStep ==
  ASSUME HeapInv, NEW u \in Utils, NEW x \in Coords, NEW y \in Coords, HandleUtilBegin(u, x, y)
  PROVE  HeapInv'
<1> DEFINE b == UtilBitmap(u)
           buf == IF b = 0 THEN 0 ELSE BufferOf(b)
<1>1. /\ IF b = 0 THEN UNCHANGED <<next, blocks, stamped, cache>> ELSE GetOrMake(b)
      /\ util' = [util EXCEPT ![u].pos = WordPos(buf, x, y)]
      /\ UNCHANGED bitmapOf
  BY DEF HandleUtilBegin
<1>2. util \in [Utils -> [bitmap : Bitmaps \cup {0}, pos : Nat]]
  BY DEF HeapInv, HeapTypeOK
<1>3. b = util[u].bitmap /\ b \in Nat
  BY UtilBitmapFacts
<1> HIDE DEF b
<1>4. /\ Grows /\ CacheGrows /\ CacheStaysRight' /\ StampsOnlyObjects'
      /\ \A c \in DOMAIN cache' : cache'[c] \in Nat
      /\ b # 0 => b \in DOMAIN cache' /\ cache'[b] = buf
  <2>1. CASE b = 0
    BY <1>1, <2>1, StillGrows, NoStampKeeps, CacheKeeps DEF HeapInv, HeapTypeOK
  <2>2. CASE b # 0
    BY <1>1, <1>3, <2>2, GetOrMakeFacts
  <2> QED
    BY <2>1, <2>2
<1>5. buf \in Nat
  BY <1>4
<1>6. /\ WordPos(buf, x, y) \in Nat
      /\ WordPos(buf, x, y) # 0 => buf # 0 /\ WordPos(buf, x, y) \in buf .. (buf + DataAddressSize - 1)
  <2>1. CASE buf = 0
    BY <2>1 DEF WordPos
  <2>2. CASE buf # 0
    <3>1. x \in Int /\ y \in Int
      BY HeapAssumption
    <3>2. WordPos(buf, x, y) \in buf .. (buf + DataAddressSize - 1)
      BY <1>5, <2>2, <3>1, WordPosInBuffer
    <3> QED
      BY <1>5, <2>2, <3>2, DataAddressSizeType
  <2> QED
    BY <2>1, <2>2
<1> HIDE DEF buf
<1>7. /\ util' \in [Utils -> [bitmap : Bitmaps \cup {0}, pos : Nat]]
      /\ util'[u].bitmap = b /\ util'[u].pos = WordPos(buf, x, y)
      /\ \A v \in Utils \ {u} : util'[v] = util[v]
      /\ \A v \in Utils : util'[v].bitmap = util[v].bitmap
  BY <1>1, <1>2, <1>3, <1>6
<1>8. CursorsPlaced'
  <2>1. Placed(u)'
    <3>1. ASSUME WordPos(buf, x, y) # 0
          PROVE  b # 0
      BY <1>6, <3>1 DEF buf
    <3> QED
      BY <1>4, <1>6, <1>7, <3>1 DEF Placed
  <2>2. ASSUME NEW v \in Utils \ {u}
        PROVE  Placed(v)'
    BY <1>4, <1>7, CursorKeeps
  <2> QED
    BY <2>1, <2>2 DEF CursorsPlaced
<1>9. HeapTypeOK'
  BY <1>4, <1>7 DEF HeapTypeOK, Grows
<1>10. RecordsAgree'
  BY <1>1, <1>7 DEF HeapInv, RecordsAgree
<1> QED
  BY <1>4, <1>8, <1>9, <1>10 DEF HeapInv, HeapSound, Grows

\* The heap starts in a state of the invariant.
LEMMA HeapStart == HeapInit => HeapInv
<1> SUFFICES ASSUME HeapInit
             PROVE  HeapInv
  OBVIOUS
<1>1. /\ stamped = {} /\ cache = <<>> /\ bitmapOf = <<>>
      /\ util \in [Utils -> [bitmap : Bitmaps \cup {0}, pos : {0}]]
  BY DEF HeapInit
<1>2. DOMAIN cache = {} /\ DOMAIN bitmapOf = {}
  BY <1>1
<1>3. /\ next \in Nat /\ next >= HeapBase /\ next % 8 = 0
      /\ blocks \subseteq Block /\ BlocksDisjoint
  <2>1. /\ RoundUp(SeedSize) \in Nat \ {0} /\ RoundUp(SeedSize) >= SeedSize
        /\ RoundUp(SeedSize) % 8 = 0
    BY HeapAssumption, RoundUpFacts
  <2>2. CASE next = HeapBase /\ blocks = {}
    BY <2>2, HeapAssumption DEF BlocksDisjoint
  <2>3. CASE /\ RoundUp(SeedSize) <= HeapSize
             /\ next = HeapBase + RoundUp(SeedSize)
             /\ blocks = {[at |-> HeapBase, size |-> RoundUp(SeedSize), kind |-> "seed"]}
    BY <2>1, <2>3, HeapAssumption DEF BlocksDisjoint, Block, Kinds
  <2> QED
    BY <2>2, <2>3 DEF HeapInit
<1>4. \A u \in Utils : util[u].pos = 0
  BY <1>1
<1> QED
  BY <1>1, <1>2, <1>3, <1>4
  DEF HeapInv, HeapTypeOK, HeapSound, StampsOnlyObjects, CacheStaysRight, CursorsPlaced,
      Placed, RecordsAgree

\* Every import of the heap keeps the invariant.
LEMMA HeapStep == HeapInv /\ [HeapNext]_heapVars => HeapInv'
<1> SUFFICES ASSUME HeapInv, [HeapNext]_heapVars
             PROVE  HeapInv'
  OBVIOUS
<1>1. ASSUME NEW size \in ReqSizes, HandleAlloc(size)
      PROVE  HeapInv'
  <2>1. size \in Nat /\ "object" \in Kinds /\ (size >= 4) \in BOOLEAN
    BY HeapAssumption DEF Kinds
  <2> QED
    BY <1>1, <2>1, AllocGrows, StampKeeps, AllocationStep DEF HandleAlloc
<1>2. ASSUME NEW size \in ReqSizes, HandleRawAlloc(size)
      PROVE  HeapInv'
  <2>1. size \in Nat /\ "raw" \in Kinds
    BY HeapAssumption DEF Kinds
  <2> QED
    BY <1>2, <2>1, AllocGrows, NoStampKeeps, AllocationStep DEF HandleRawAlloc
<1>3. ASSUME HandleFixedSizeAlloc
      PROVE  HeapInv'
  <2>1. FixedSize \in Nat /\ "object" \in Kinds
    BY HeapAssumption DEF Kinds
  <2> QED
    BY <1>3, <2>1, AllocGrows, StampKeeps, AllocationStep DEF HandleFixedSizeAlloc
<1>4. ASSUME HandleFactory
      PROVE  HeapInv'
  <2>1. ObjectSize \in Nat /\ "object" \in Kinds
    BY HeapAssumption DEF Kinds
  <2>2. UNCHANGED <<cache, bitmapOf, util>>
    BY <1>4 DEF HandleFactory
  <2>3. CASE vtable
    BY <1>4, <2>1, <2>2, <2>3, AllocGrows, StampKeeps, AllocationStep DEF HandleFactory
  <2>4. CASE ~vtable
    BY <1>4, <2>2, <2>4, StillGrows, NoStampKeeps, AllocationStep DEF HandleFactory
  <2> QED
    BY <2>3, <2>4
<1>5. ASSUME NEW b \in Bitmaps, HandleDataAddress(b)
      PROVE  HeapInv'
  <2>1. b \in Nat /\ GetOrMake(b) /\ UNCHANGED <<bitmapOf, util>>
    BY <1>5, HeapAssumption DEF HandleDataAddress
  <2>2. /\ Grows /\ CacheGrows /\ CacheStaysRight' /\ StampsOnlyObjects'
        /\ \A c \in DOMAIN cache' : cache'[c] \in Nat
    BY <2>1, GetOrMakeFacts
  <2>3. CursorsPlaced'
    BY <2>1, <2>2, CursorKeeps DEF CursorsPlaced
  <2>4. HeapTypeOK' /\ RecordsAgree'
    BY <2>1, <2>2 DEF HeapInv, HeapTypeOK, RecordsAgree, Grows
  <2> QED
    BY <2>2, <2>3, <2>4 DEF HeapInv, HeapSound, Grows
<1>6. ASSUME NEW u \in Utils, NEW b \in Bitmaps \cup {0}, HandleUtilCtor(u, b)
      PROVE  HeapInv'
  BY <1>6, CtorStep
<1>7. ASSUME NEW u \in Utils, NEW x \in Coords, NEW y \in Coords, HandleUtilBegin(u, x, y)
      PROVE  HeapInv'
  BY <1>7, BeginStep
<1>8. CASE UNCHANGED heapVars
  BY <1>8, StillGrows, NoStampKeeps, AllocationStep DEF heapVars
<1> QED
  BY <1>1, <1>2, <1>3, <1>4, <1>5, <1>6, <1>7, <1>8 DEF HeapNext, HandleUtilEnd

\* The address the game got for a bitmap is the one it gets again.
LEMMA AddressStep == HeapInv /\ [HeapNext]_heapVars => [CacheGrows]_heapVars
<1> SUFFICES ASSUME HeapInv, HeapNext, ~(UNCHANGED heapVars)
             PROVE  CacheGrows
  BY DEF CacheGrows
<1>1. ASSUME NEW b \in Nat, GetOrMake(b)
      PROVE  CacheGrows
  BY <1>1, GetOrMakeFacts
<1>2. CASE UNCHANGED cache
  BY <1>2 DEF CacheGrows
<1>3. ASSUME NEW b \in Bitmaps, HandleDataAddress(b)
      PROVE  CacheGrows
  BY <1>1, <1>3, HeapAssumption DEF HandleDataAddress
<1>4. ASSUME NEW u \in Utils, NEW x \in Coords, NEW y \in Coords, HandleUtilBegin(u, x, y)
      PROVE  CacheGrows
  <2>1. UtilBitmap(u) \in Nat
    BY UtilBitmapFacts
  <2> QED
    BY <1>1, <1>2, <1>4, <2>1 DEF HandleUtilBegin
<1> QED
  BY <1>2, <1>3, <1>4
  DEF HeapNext, HandleAlloc, HandleRawAlloc, HandleFixedSizeAlloc, HandleFactory,
      HandleUtilCtor, HandleUtilEnd, heapVars

-----------------------------------------------------------------------------
(* Signed division.                                                        *)

\* Quotient and remainder of natural numbers.
LEMMA DivisionFacts ==
  ASSUME NEW m \in Nat, NEW k \in Nat \ {0}
  PROVE  /\ m \div k \in Nat /\ m % k \in Nat /\ m % k < k
         /\ m = k * (m \div k) + (m % k)
         /\ k * (m \div k) \in Nat
<1> DEFINE q == m \div k
           r == m % k
<1>1. q \in Int /\ r \in Int /\ 0 <= r /\ r < k /\ m = k * q + r
  OBVIOUS
<1> HIDE DEF q, r
<1>2. q >= 0
  <2> SUFFICES ASSUME q <= -1 PROVE FALSE
    BY <1>1
  <2>1. \A x \in Int : x <= 0 => k * x <= 0
    OBVIOUS
  <2>2. k * (q + 1) <= 0 /\ k * (q + 1) = k * q + k
    BY <2>1, <1>1
  <2> QED
    BY <2>2, <1>1
<1>3. k * q \in Nat
  BY <1>1, <1>2
<1>4. q \in Nat /\ r \in Nat /\ r < k /\ m = k * q + r /\ k * q \in Nat
  BY <1>1, <1>2, <1>3
<1> QED
  BY <1>4 DEF q, r

\* A quotient that reaches the dividend has the divisor 1.
LEMMA QuotientBound ==
  ASSUME NEW m \in Nat, NEW k \in Nat \ {0}
  PROVE  m \div k <= m /\ (m \div k = m /\ m # 0 => k = 1)
<1> DEFINE q == m \div k
<1>1. q \in Nat /\ k * q <= m
  <2>1. q \in Nat /\ m % k \in Nat /\ m = k * q + (m % k) /\ k * q \in Nat
    BY DivisionFacts
  <2> QED
    BY <2>1
<1> HIDE DEF q
<1>2. (k - 1) * q \in Nat /\ k * q = (k - 1) * q + q
  <2>1. k - 1 \in Nat
    OBVIOUS
  <2>2. \A x, y \in Nat : x * y \in Nat
    OBVIOUS
  <2> QED
    BY <1>1, <2>1, <2>2
<1>3. ASSUME q = m, m # 0, k # 1 PROVE FALSE
  <2>1. k - 2 \in Nat /\ q \in Nat
    BY <1>1, <1>3
  <2>2. \A x, y \in Nat : x * y \in Nat
    OBVIOUS
  <2>3. (k - 2) * q \in Nat
    BY <2>1, <2>2
  <2>4. (k - 1) * q = (k - 2) * q + q
    BY <1>1
  <2> QED
    BY <1>1, <1>2, <1>3, <2>3, <2>4
<1> QED
  BY <1>1, <1>2, <1>3 DEF q

\* A multiple leaves no remainder, whatever its sign.
LEMMA MultipleFacts ==
  ASSUME NEW k \in Nat \ {0}, NEW y \in Int
  PROVE  (k * y) % k = 0
<1> DEFINE x == k * y
           q == x \div k
           r == x % k
<1>1. x \in Int
  OBVIOUS
<1> HIDE DEF x
<1>2. q \in Int /\ r \in Int /\ 0 <= r /\ r < k /\ x = k * q + r
  BY <1>1
<1> HIDE DEF q, r
<1>3. r = k * (y - q) /\ y - q \in Int
  BY <1>1, <1>2 DEF x
<1>4. \A d \in Int : d >= 1 => k * d >= k
  OBVIOUS
<1>5. \A d \in Int : d <= -1 => k * d <= -k
  OBVIOUS
<1>6. y - q = 0
  BY <1>2, <1>3, <1>4, <1>5
<1>7. r = 0
  BY <1>3, <1>6
<1> QED
  BY <1>7 DEF r, x

\* A word holds each packable number, and its sign comes back.
LEMMA SignedWords ==
  /\ Top \in Nat \ {0} /\ Modulus = 2 * Top
  /\ \A u \in 0..(Modulus - 1) : ToSigned(u) \in Int /\ Packable(ToSigned(u))
  /\ \A i \in Int : Packable(i) => /\ ToUnsigned(i) # Modulus
                                   /\ ToSigned(ToUnsigned(i)) = i
<1>1. Top \in Nat \ {0} /\ Modulus = 2 * Top
  BY MemoryAssumption DEF Modulus
<1> QED
  BY <1>1 DEF ToSigned, ToUnsigned, Packable

\* The answer of an arithmetic call.
ArithResult(q) == IF Packable(q) THEN ToUnsigned(q) ELSE Modulus

\* A number is its sign times its magnitude.
LEMMA SignFacts ==
  ASSUME NEW a \in Int
  PROVE  /\ Sign(a) \in {-1, 1} /\ Magnitude(a) \in Nat /\ a = Sign(a) * Magnitude(a)
         /\ a # 0 => Magnitude(a) \in Nat \ {0}
         /\ Packable(a) => Magnitude(a) <= Top
         /\ Packable(a) /\ Magnitude(a) = Top => a = -Top /\ Sign(a) = -1
<1>1. Top \in Nat \ {0}
  BY MemoryAssumption
<1> QED
  BY <1>1 DEF Sign, Magnitude, Packable

\* Remainder and divisor, with the sign of the dividend.
LEMMA RestFacts ==
  ASSUME NEW a \in Int, NEW b \in Int, b # 0, NEW rest \in Int,
         rest = Sign(a) * (Magnitude(a) % Magnitude(b))
  PROVE  /\ Magnitude(rest) < Magnitude(b)
         /\ rest # 0 => Sign(rest) = Sign(a)
         /\ (a - rest) % Magnitude(b) = 0
<1> DEFINE m == Magnitude(a)
           k == Magnitude(b)
           t == m \div k
           r == m % k
           g == Sign(a)
<1>1. g \in {-1, 1} /\ m \in Nat /\ a = g * m /\ k \in Nat \ {0}
  BY SignFacts
<1>2. t \in Nat /\ r \in Nat /\ r < k /\ m = k * t + r /\ rest = g * r
  <2> HIDE DEF m, k
  <2>1. t \in Nat /\ r \in Nat /\ r < k /\ m = k * t + r
    BY <1>1, DivisionFacts
  <2> QED
    BY <2>1 DEF m, k
<1> HIDE DEF m, k, t, r, g
<1>3. Magnitude(rest) = r
  BY <1>1, <1>2 DEF Magnitude, Sign
<1>4. rest # 0 => Sign(rest) = g
  BY <1>1, <1>2 DEF Sign
<1>5. a - rest = k * (g * t) /\ g * t \in Int
  <2>1. k * t \in Int
    BY <1>1, <1>2
  <2>2. CASE g = 1
    BY <1>1, <1>2, <2>1, <2>2
  <2>3. CASE g = -1
    <3>1. k * (g * t) = -(k * t)
      BY <1>1, <1>2, <2>3
    <3>2. a - rest = -m + r
      BY <1>1, <1>2, <2>3
    <3> QED
      BY <1>1, <1>2, <2>1, <2>3, <3>1, <3>2
  <2> QED
    BY <1>1, <2>2, <2>3
<1>6. (a - rest) % k = 0
  BY <1>1, <1>5, MultipleFacts, ZenonT(30)
<1> QED
  BY <1>2, <1>3, <1>4, <1>6 DEF k, g

\* The remainder of the two words is packed and comes back.
LEMMA ModAgrees ==
  ASSUME NEW a \in Int, NEW b \in Int, Packable(a), Packable(b)
  PROVE  /\ Packable(FMod(a, b))
         /\ b # 0 => FMod(a, b) = Sign(a) * (Magnitude(a) % Magnitude(b)) /\ FMod(a, b) \in Int
         /\ FMod(a, b) \in Int
<1>1. CASE b = 0
  BY <1>1, MemoryAssumption DEF FMod, Packable
<1>2. CASE b # 0
  <2> DEFINE m == Magnitude(a)
             k == Magnitude(b)
             r == m % k
             g == Sign(a)
  <2>1. g \in {-1, 1} /\ m \in Nat /\ a = g * m /\ k \in Nat \ {0} /\ m <= Top
    BY <1>2, SignFacts
  <2>2. r \in Nat /\ r <= m
    <3> HIDE DEF m, k
    <3>1. m \div k \in Nat /\ r \in Nat /\ m = k * (m \div k) + r /\ k * (m \div k) \in Nat
      BY <2>1, DivisionFacts
    <3> QED
      BY <2>1, <3>1
  <2>3. FMod(a, b) = g * r
    BY <1>2 DEF FMod
  <2> HIDE DEF m, k, r, g
  <2>4. g * r \in Int /\ Packable(g * r)
    BY <2>1, <2>2, MemoryAssumption DEF Packable
  <2> QED
    BY <2>3, <2>4, <1>2 DEF m, k, r, g
<1> QED
  BY <1>1, <1>2

\* The quotient of the two words is packed unless it is the one no word
\* holds, and leaves the remainder.
LEMMA DivAgrees ==
  ASSUME NEW a \in Int, NEW b \in Int, Packable(a), Packable(b)
  PROVE  /\ TruncDiv(a, b) \in Int
         /\ ~Packable(TruncDiv(a, b)) => a = -Top /\ b = -1
         /\ b # 0 => a - b * TruncDiv(a, b) = Sign(a) * (Magnitude(a) % Magnitude(b))
<1>1. CASE b = 0
  BY <1>1, MemoryAssumption DEF TruncDiv, Packable
<1>2. CASE b # 0
  <2> DEFINE m == Magnitude(a)
             k == Magnitude(b)
             t == m \div k
             g == Sign(a)
             e == Sign(b)
  <2>1. /\ g \in {-1, 1} /\ m \in Nat /\ a = g * m /\ m <= Top /\ (m = Top => g = -1 /\ a = -Top)
        /\ e \in {-1, 1} /\ k \in Nat \ {0} /\ b = e * k
    BY <1>2, SignFacts
  <2>2. t \in Nat /\ t <= m /\ (t = m /\ m # 0 => k = 1) /\ m = k * t + (m % k) /\ k * t \in Nat
        /\ m % k \in Nat
    <3> HIDE DEF m, k
    <3> QED
      BY <2>1, DivisionFacts, QuotientBound
  <2>3. TruncDiv(a, b) = g * e * t
    BY <1>2 DEF TruncDiv
  <2>4. Top \in Nat \ {0}
    BY MemoryAssumption
  <2> DEFINE r == m % k
  <2> HIDE DEF m, k, t, g, e, r
  <2>5. g * e \in {-1, 1} /\ (g * e = 1 => e = g)
    BY <2>1
  <2> DEFINE s == g * e
  <2> HIDE DEF s
  <2>6. s \in {-1, 1} /\ (s = 1 => e = g) /\ TruncDiv(a, b) = s * t
    BY <2>3, <2>5 DEF s
  <2>7. s * t \in Int
    BY <2>2, <2>6
  <2>8. ASSUME ~Packable(s * t) PROVE a = -Top /\ b = -1
    <3>1. s = 1 /\ t = Top
      BY <2>1, <2>2, <2>4, <2>6, <2>8 DEF Packable
    <3>2. m = Top /\ k = 1
      BY <2>1, <2>2, <2>4, <3>1
    <3> QED
      BY <2>1, <2>6, <3>1, <3>2
  <2>9. a - b * (s * t) = g * r
    <3>1. b * (s * t) = g * (k * t)
      <4>1. CASE e = 1
        BY <2>1, <2>2, <2>5, <2>6, <4>1 DEF s
      <4>2. CASE e = -1
        <5>1. b = -k /\ s = -g
          BY <2>1, <4>2 DEF s
        <5> QED
          BY <2>1, <2>2, <5>1
      <4> QED
        BY <2>1, <4>1, <4>2
    <3>2. m = k * t + r /\ r \in Nat
      BY <2>2 DEF r
    <3> DEFINE kt == k * t
    <3>3. kt \in Nat
      BY <2>2
    <3> HIDE DEF kt
    <3>4. m = kt + r /\ b * (s * t) = g * kt
      BY <3>1, <3>2 DEF kt
    <3>5. g * m = g * kt + g * r
      BY <2>1, <3>2, <3>3, <3>4
    <3> QED
      BY <2>1, <3>2, <3>3, <3>4, <3>5
  <2> QED
    BY <1>2, <2>6, <2>7, <2>8, <2>9 DEF r, m, k, g
<1> QED
  BY <1>1, <1>2

\* What an arithmetic call leaves behind is what C demands.
LEMMA ArithAgrees ==
  ASSUME NEW op \in {"div", "mod"}, NEW u \in 0..(Modulus - 1), NEW v \in 0..(Modulus - 1),
         HandleArith(op, u, v)
  PROVE  DivisionAgrees'
<1> DEFINE a == ToSigned(u)
           b == ToSigned(v)
           q == IF op = "mod" THEN FMod(a, b) ELSE TruncDiv(a, b)
           w == IF Packable(q) THEN ToUnsigned(q) ELSE Modulus
<1>1. call' = [op |-> op, a |-> u, b |-> v, n |-> 0, result |-> w]
  BY DEF HandleArith, Answer
<1>2. a \in Int /\ b \in Int /\ Packable(a) /\ Packable(b)
  BY SignedWords
<1>3. q \in Int
  <2>1. FMod(a, b) \in Int /\ TruncDiv(a, b) \in Int
    BY <1>2, ModAgrees, DivAgrees
  <2> QED
    BY <2>1
<1>4. IF Packable(q) THEN w # Modulus /\ ToSigned(w) = q ELSE w = Modulus
  <2> HIDE DEF q
  <2> QED
    BY <1>3, SignedWords
<1>5. op = "mod" => Packable(q)
  BY <1>2, ModAgrees
<1>6. ~Packable(q) => op = "div" /\ a = -Top /\ b = -1
  BY <1>2, <1>5, DivAgrees
<1> DEFINE rest == IF op = "mod" THEN q ELSE a - b * q
<1>7. ASSUME b # 0
      PROVE  rest = Sign(a) * (Magnitude(a) % Magnitude(b)) /\ rest \in Int
  <2>1. CASE op = "mod"
    BY <1>2, <1>7, <2>1, ModAgrees
  <2>2. CASE op # "mod"
    <3>1. a - b * q = Sign(a) * (Magnitude(a) % Magnitude(b))
      BY <1>2, <1>7, <2>2, DivAgrees
    <3>2. a - b * q \in Int
      BY <1>2, <1>3
    <3> QED
      BY <2>2, <3>1, <3>2
  <2> QED
    BY <2>1, <2>2
<1> HIDE DEF rest
<1>8. ASSUME b # 0
      PROVE  /\ Magnitude(rest) < Magnitude(b)
             /\ rest # 0 => Sign(rest) = Sign(a)
             /\ (a - rest) % Magnitude(b) = 0
  BY <1>2, <1>7, <1>8, RestFacts
<1>9. /\ call'.op = op /\ ToSigned(call'.a) = a /\ ToSigned(call'.b) = b
      /\ call'.result = w /\ (Raises(call)' <=> w = Modulus)
  BY <1>1 DEF Raises
<1> HIDE DEF a, b, q, w
<1>10. ASSUME w # Modulus
       PROVE  rest = IF op = "mod" THEN ToSigned(w) ELSE a - b * ToSigned(w)
  BY <1>4, <1>10 DEF rest
<1> QED
  BY <1>4, <1>6, <1>8, <1>9, <1>10 DEF DivisionAgrees

-----------------------------------------------------------------------------
(* Strings.                                                                *)

\* A set of natural numbers that is not empty has a smallest member.
LEMMA FirstPosition ==
  ASSUME NEW S \in SUBSET Nat, S # {}
  PROVE  Min(S) \in S /\ \A y \in S : Min(S) <= y
<1>1. PICK x \in S : \A y \in S : <<y, x>> \notin OpToRel(<, Nat)
  BY WFMin, NatLessThanWellFounded, Zenon
<1>2. ASSUME NEW y \in S PROVE x <= y
  <2>1. y < x => <<y, x>> \in OpToRel(<, Nat)
    <3>1. x \in Nat /\ y \in Nat
      OBVIOUS
    <3> QED
      BY <3>1, Zenon DEF OpToRel
  <2>2. x \in Nat /\ y \in Nat
    OBVIOUS
  <2>3. ~(y < x)
    BY <1>1, <2>1, Zenon
  <2> QED
    BY <2>2, <2>3
<1> QED
  BY <1>2 DEF Min

\* A number that is a smallest member is Min.
LEMMA FirstIs ==
  ASSUME NEW S \in SUBSET Nat, NEW x \in S, \A y \in S : x <= y
  PROVE  Min(S) = x
<1> DEFINE m == Min(S)
<1>1. m \in S /\ m <= x
  BY FirstPosition
<1> HIDE DEF m
<1>2. m \in Nat /\ x \in Nat /\ x <= m
  BY <1>1
<1>3. m = x
  BY <1>1, <1>2
<1> QED
  BY <1>3 DEF m

\* Where a scan stops, and that it did not stop before.
Stops(s, i, Stop) == ~Mapped(s + i, 1) \/ mem[s + i] \in Stop

\* A scan ends at the first byte that stops it, or at the cap.
LEMMA ScanEndFacts ==
  ASSUME NEW s \in Nat, NEW cap \in Nat, NEW Stop
  PROVE  /\ ScanEnd(s, cap, Stop) \in 0..cap
         /\ ScanEnd(s, cap, Stop) < cap => Stops(s, ScanEnd(s, cap, Stop), Stop)
         /\ \A i \in 0 .. (ScanEnd(s, cap, Stop) - 1) : ~Stops(s, i, Stop)
<1> DEFINE ends == {i \in 0 .. (cap - 1) : Stops(s, i, Stop)}
           e == ScanEnd(s, cap, Stop)
<1>1. e = IF ends = {} THEN cap ELSE Min(ends)
  BY DEF ScanEnd, Stops
<1> HIDE DEF e
<1>2. CASE ends = {}
  BY <1>1, <1>2 DEF e
<1>3. CASE ends # {}
  <2>1. ends \in SUBSET Nat
    OBVIOUS
  <2>2. e \in ends /\ \A y \in ends : e <= y
    <3> HIDE DEF ends
    <3> QED
      BY <1>1, <1>3, <2>1, FirstPosition
  <2>3. e \in 0..cap /\ Stops(s, e, Stop)
    BY <2>2
  <2>4. ASSUME NEW i \in 0 .. (e - 1) PROVE ~Stops(s, i, Stop)
    <3>1. i \in 0 .. (cap - 1) /\ ~(e <= i)
      BY <2>2
    <3> QED
      BY <2>2, <3>1
  <2> QED
    BY <2>3, <2>4 DEF e
<1> QED
  BY <1>2, <1>3

\* A character inside a string that ends before the cap is found, the first
\* one of them; one that is not inside is not.
LEMMA StrchrIsFirst ==
  ASSUME NEW s \in Nat, NEW c
  PROVE  LET n == Strlen(s)
             inside == {i \in 0..n : Mapped(s + i, 1) /\ mem[s + i] = c}
         IN  n < StrchrCap => Strchr(s, c) = (IF inside = {} THEN 0 ELSE s + Min(inside))
<1> DEFINE n == Strlen(s)
           k == ScanEnd(s, StrchrCap, {0, c})
           inside == {i \in 0..n : Mapped(s + i, 1) /\ mem[s + i] = c}
<1>1. StrlenCap \in Nat /\ StrchrCap \in Nat /\ StrchrCap <= StrlenCap
  BY MemoryAssumption
<1>2. SUFFICES ASSUME n < StrchrCap
               PROVE  Strchr(s, c) = (IF inside = {} THEN 0 ELSE s + Min(inside))
  OBVIOUS
<1>3. /\ n \in Nat /\ Stops(s, n, {0}) /\ \A i \in 0 .. (n - 1) : ~Stops(s, i, {0})
  <2>1. /\ n \in 0..StrlenCap
        /\ n < StrlenCap => Stops(s, n, {0})
        /\ \A i \in 0 .. (n - 1) : ~Stops(s, i, {0})
    BY <1>1, ScanEndFacts DEF Strlen
  <2> HIDE DEF n
  <2> QED
    BY <1>1, <1>2, <2>1
<1>4. /\ k \in 0..StrchrCap
      /\ k < StrchrCap => Stops(s, k, {0, c})
      /\ \A i \in 0 .. (k - 1) : ~Stops(s, i, {0, c})
  BY <1>1, ScanEndFacts
<1>5. Strchr(s, c) = IF k < StrchrCap /\ Mapped(s + k, 1) /\ mem[s + k] = c THEN s + k ELSE 0
  BY DEF Strchr
<1>6. \A i : i \in inside <=> i \in 0..n /\ Mapped(s + i, 1) /\ mem[s + i] = c
  OBVIOUS
<1>7. inside \in SUBSET Nat
  BY <1>3
<1> HIDE DEF n, k, inside
<1>8. \A i : Stops(s, i, {0}) => Stops(s, i, {0, c})
  BY DEF Stops
<1>9. k <= n /\ k \in Nat /\ k < StrchrCap
  <2>1. k \in Nat
    BY <1>4
  <2>2. ~(n < k)
    <3> SUFFICES ASSUME n < k PROVE FALSE
      OBVIOUS
    <3>1. n \in 0 .. (k - 1)
      BY <1>3, <1>4
    <3> QED
      BY <1>3, <1>4, <1>8, <3>1
  <2> QED
    BY <1>1, <1>2, <1>3, <2>1, <2>2
<1>10. ASSUME NEW i \in inside PROVE k <= i
  <2>1. i \in Nat /\ Stops(s, i, {0, c})
    BY <1>6, <1>7 DEF Stops
  <2>2. ~(i \in 0 .. (k - 1))
    BY <1>4, <2>1
  <2> QED
    BY <1>9, <2>1, <2>2
<1>11. CASE Mapped(s + k, 1) /\ mem[s + k] = c
  <2>1. k \in inside
    BY <1>3, <1>6, <1>9, <1>11
  <2>2. Min(inside) = k
    BY <1>7, <1>10, <2>1, FirstIs
  <2> QED
    BY <1>5, <1>9, <1>11, <2>1, <2>2
<1>12. CASE ~(Mapped(s + k, 1) /\ mem[s + k] = c)
  <2>1. k = n
    <3>1. Stops(s, k, {0, c})
      BY <1>4, <1>9
    <3>2. Stops(s, k, {0})
      BY <1>12, <3>1 DEF Stops
    <3>3. ~(k \in 0 .. (n - 1))
      BY <1>3, <3>2
    <3> QED
      BY <1>3, <1>9, <3>3
  <2>2. ASSUME NEW i \in inside PROVE FALSE
    <3>1. i = n
      BY <1>3, <1>6, <1>10, <2>1
    <3> QED
      BY <1>6, <1>12, <2>1, <3>1
  <2> QED
    BY <1>5, <1>12, <2>2
<1> QED
  BY <1>11, <1>12

-----------------------------------------------------------------------------
(* Copies.                                                                 *)

\* One byte of strcpy.
StrcpyStep(d, s, acc, i) ==
  IF acc.done \/ ~Mapped(s + i, 1) \/ ~Mapped(d + i, 1)
  THEN [acc EXCEPT !.done = TRUE]
  ELSE [mem |-> Stored(acc.mem, d + i, <<acc.mem[s + i]>>), done |-> acc.mem[s + i] = 0]

\* g lists the states of a strcpy, byte by byte.
StrcpyStates(d, s, g) ==
  /\ g[0] = [mem |-> mem, done |-> FALSE]
  /\ \A k \in 1..StrcpyCap : g[k] = StrcpyStep(d, s, g[k - 1], k - 1)
  /\ Strcpy(d, s) = g[StrcpyCap].mem

\* strcpy is a loop of StrcpyCap bytes.
LEMMA StrcpyRuns ==
  ASSUME NEW d, NEW s, NEW S, [mem |-> mem, done |-> FALSE] \in S,
         \A b \in S, x \in Nat : StrcpyStep(d, s, b, x) \in S
  PROVE  \E g \in [0..StrcpyCap -> S] : StrcpyStates(d, s, g)
<1> DEFINE n == StrcpyCap
           base == [mem |-> mem, done |-> FALSE]
           seq == [i \in 1..n |-> i - 1]
<1>1. /\ n \in Nat /\ base \in S /\ DOMAIN seq = 1..n
      /\ \A k \in 1..n : seq[k] \in Nat /\ k - 1 \in Nat /\ seq[k] = k - 1
  BY MemoryAssumption
<1> DEFINE Is(f) == f = [t \in SUBSET (1..n) |->
                          IF t = {} THEN base ELSE StrcpyStep(d, s, f[t \ {Max(t)}], seq[Max(t)])]
           h == CHOOSE f : Is(f)
<1>2. Strcpy(d, s) = h[1..n].mem
  BY <1>1 DEF Strcpy, StrcpyStep, FoldLeft, MapThenFoldSet
<1> HIDE DEF n, base, seq
<1>3. \E f : Is(f)
  <2> DEFINE step == [k \in 1..n |-> [b \in S |-> StrcpyStep(d, s, b, seq[k])]]
  <2>1. Loop(n, S, base, step)
    BY <1>1 DEF Loop
  <2>2. PICK f \in [SUBSET (1..n) -> S] : FoldStates(n, base, step, f)
    BY <2>1, FoldHasStates
  <2>3. ASSUME NEW t \in SUBSET (1..n)
        PROVE  f[t] = IF t = {} THEN base ELSE StrcpyStep(d, s, f[t \ {Max(t)}], seq[Max(t)])
    <3>1. CASE t = {}
      BY <2>2, <3>1 DEF FoldStates
    <3>2. CASE t # {}
      <4>1. Max(t) \in 1..n
        BY <1>1, <3>2, LastPosition
      <4>2. f[t \ {Max(t)}] \in S
        OBVIOUS
      <4>3. f[t] = step[Max(t)][f[t \ {Max(t)}]]
        BY <2>2, <3>2 DEF FoldStates
      <4> QED
        BY <3>2, <4>1, <4>2, <4>3
    <3> QED
      BY <3>1, <3>2
  <2>4. f = [t \in SUBSET (1..n) |-> f[t]]
    OBVIOUS
  <2>5. Is(f)
    BY <2>3, <2>4
  <2> QED
    BY <2>5
<1>4. Is(h)
  BY <1>3
<1> HIDE DEF h
<1> DEFINE g == [k \in 0..n |-> h[1..k]]
<1>5. g[0] = base
  <2>1. 1..0 = {} /\ {} \in SUBSET (1..n) /\ 0 \in 0..n
    BY <1>1
  <2> QED
    BY <1>4, <2>1
<1>6. ASSUME NEW k \in 1..n
      PROVE  g[k] = StrcpyStep(d, s, g[k - 1], k - 1)
  <2>1. /\ 1..k \in SUBSET (1..n) /\ 1..k # {} /\ Max(1..k) = k
        /\ (1..k) \ {Max(1..k)} = 1..(k - 1)
    BY <1>1, InitialPositions
  <2>2. k \in 0..n /\ k - 1 \in 0..n
    BY <1>1
  <2>3. h[1..k] = StrcpyStep(d, s, h[1..(k - 1)], k - 1)
    BY <1>1, <1>4, <2>1
  <2> QED
    BY <2>2, <2>3
<1> DEFINE G == {k \in 0..n : g[k] \in S}
<1>7. G = 0..n
  <2>1. G \in SUBSET (0..n) /\ 0 \in G
    BY <1>1, <1>5
  <2>2. ASSUME NEW k \in 1..n, k - 1 \in G
        PROVE  k \in G
    <3>1. g[k - 1] \in S /\ k - 1 \in Nat /\ k \in 0..n
      BY <1>1, <2>2
    <3> HIDE DEF g
    <3>2. g[k] \in S
      BY <1>6, <3>1
    <3> QED
      BY <3>1, <3>2
  <2> HIDE DEF G
  <2> QED
    BY <1>1, <2>1, <2>2, PositionInduction
<1>8. g \in [0..n -> S]
  BY <1>7
<1>9. Strcpy(d, s) = g[n].mem
  BY <1>1, <1>2
<1> HIDE DEF g
<1> QED
  BY <1>5, <1>6, <1>8, <1>9 DEF n, base, StrcpyStates

\* A range stored is there afterwards, and nothing else has changed.
LEMMA StoredFacts ==
  ASSUME NEW m \in [0 .. (MemTop - 1) -> Nat], NEW a \in Nat, NEW bytes \in Seq(Nat),
         a + Len(bytes) <= MemTop
  PROVE  /\ Stored(m, a, bytes) \in [0 .. (MemTop - 1) -> Nat]
         /\ \A i \in 1..Len(bytes) : Stored(m, a, bytes)[a + i - 1] = bytes[i]
         /\ \A i \in 0 .. (MemTop - 1) : i < a \/ i >= a + Len(bytes) => Stored(m, a, bytes)[i] = m[i]
<1> DEFINE r == [i \in 0 .. (MemTop - 1) |->
                   IF i >= a /\ i < a + Len(bytes) THEN bytes[i - a + 1] ELSE m[i]]
<1>1. Len(bytes) \in Nat /\ MemTop \in Nat /\ DOMAIN m = 0 .. (MemTop - 1)
      /\ \A i \in 1..Len(bytes) : bytes[i] \in Nat
  BY MemoryAssumption
<1>2. Stored(m, a, bytes) = r
  BY <1>1 DEF Stored
<1>3. r \in [0 .. (MemTop - 1) -> Nat]
  <2> SUFFICES ASSUME NEW i \in 0 .. (MemTop - 1)
               PROVE  (IF i >= a /\ i < a + Len(bytes) THEN bytes[i - a + 1] ELSE m[i]) \in Nat
    OBVIOUS
  <2>1. CASE i >= a /\ i < a + Len(bytes)
    <3>1. i - a + 1 \in 1..Len(bytes)
      BY <1>1, <2>1
    <3> QED
      BY <1>1, <2>1, <3>1
  <2>2. CASE ~(i >= a /\ i < a + Len(bytes))
    BY <2>2
  <2> QED
    BY <2>1, <2>2
<1>4. ASSUME NEW i \in 1..Len(bytes) PROVE r[a + i - 1] = bytes[i]
  <2>1. a + i - 1 \in 0 .. (MemTop - 1) /\ a + i - 1 >= a /\ a + i - 1 < a + Len(bytes)
        /\ (a + i - 1) - a + 1 = i
    BY <1>1
  <2> QED
    BY <2>1
<1>5. \A i \in 0 .. (MemTop - 1) : i < a \/ i >= a + Len(bytes) => r[i] = m[i]
  BY <1>1
<1> HIDE DEF r
<1> QED
  BY <1>2, <1>3, <1>4, <1>5

\* A range moved arrives as it was.
LEMMA MovedArrives ==
  ASSUME mem \in [0 .. (MemTop - 1) -> Nat], NEW d \in Nat, NEW s \in Nat, NEW n \in Nat,
         Mapped(d, n), Mapped(s, n)
  PROVE  /\ Loaded(Moved(d, s, n), d, n) = Loaded(mem, s, n)
         /\ \A i \in 0 .. (MemTop - 1) : i < d \/ i >= d + n => Moved(d, s, n)[i] = mem[i]
<1> DEFINE bytes == Loaded(mem, s, n)
           m == Moved(d, s, n)
<1>1. MemTop \in Nat
  BY MemoryAssumption
<1>2. bytes \in Seq(Nat) /\ Len(bytes) = n
  <2>1. \A i \in 1..n : s + i - 1 \in 0 .. (MemTop - 1)
    BY <1>1 DEF Mapped
  <2>2. bytes \in [1..n -> Nat]
    BY <2>1 DEF Loaded
  <2> HIDE DEF bytes
  <2> QED
    BY <2>2
<1>3. m = Stored(mem, d, bytes)
  BY DEF Moved
<1> HIDE DEF bytes, m
<1>4. /\ \A i \in 1..n : m[d + i - 1] = bytes[i]
      /\ \A i \in 0 .. (MemTop - 1) : i < d \/ i >= d + n => m[i] = mem[i]
  <2>1. d + Len(bytes) <= MemTop
    BY <1>2 DEF Mapped
  <2> QED
    BY <1>2, <1>3, <2>1, StoredFacts, ZenonT(30)
<1>5. Loaded(m, d, n) = bytes
  <2>1. bytes = [i \in 1..n |-> bytes[i]]
    BY <1>2
  <2> QED
    BY <1>4, <2>1 DEF Loaded
<1> QED
  BY <1>4, <1>5 DEF m, bytes

\* The memory after k bytes of a string of n bytes and its terminator.
Copying(d, s, n, k, acc) ==
  /\ acc.mem \in [0 .. (MemTop - 1) -> Nat] /\ acc.done \in BOOLEAN
  /\ acc.done <=> k > n
  /\ \A i \in 0..n : i < k => acc.mem[d + i] = mem[s + i]
  /\ \A i \in 0 .. (MemTop - 1) : i < d \/ i > d + n => acc.mem[i] = mem[i]

\* A string that ends before the cap, and whose terminator is mapped.
StringAt(s, n) ==
  /\ Mapped(s, n + 1) /\ mem[s + n] = 0
  /\ \A i \in 0 .. (n - 1) : mem[s + i] # 0

\* One turn of strcpy copies one byte and stops behind the terminator.
LEMMA CopyOneByte ==
  ASSUME mem \in [0 .. (MemTop - 1) -> Nat], NEW d \in Nat, NEW s \in Nat, NEW n \in Nat,
         StringAt(s, n), Mapped(d, n + 1), Apart(d, n + 1, s, n + 1),
         NEW k \in Nat, NEW acc \in [mem : [0 .. (MemTop - 1) -> Nat], done : BOOLEAN],
         Copying(d, s, n, k, acc)
  PROVE  Copying(d, s, n, k + 1, StrcpyStep(d, s, acc, k))
<1>1. MemTop \in Nat /\ s + n < MemTop /\ d + n < MemTop
  BY MemoryAssumption DEF StringAt, Mapped
<1>2. /\ acc.mem \in [0 .. (MemTop - 1) -> Nat] /\ acc.done \in BOOLEAN
      /\ acc.done <=> k > n
      /\ \A i \in 0..n : i < k => acc.mem[d + i] = mem[s + i]
      /\ \A i \in 0 .. (MemTop - 1) : i < d \/ i > d + n => acc.mem[i] = mem[i]
  BY DEF Copying
<1>3. CASE k > n
  <2> DEFINE r == [acc EXCEPT !.done = TRUE]
  <2>1. StrcpyStep(d, s, acc, k) = r
    BY <1>2, <1>3 DEF StrcpyStep
  <2>2. r.mem = acc.mem /\ r.done = TRUE
    OBVIOUS
  <2> HIDE DEF r
  <2>3. \A i \in 0..n : i < k + 1 => acc.mem[d + i] = mem[s + i]
    BY <1>2, <1>3
  <2>4. k + 1 > n
    BY <1>3
  <2> QED
    BY <1>2, <2>1, <2>2, <2>3, <2>4 DEF Copying
<1>4. CASE k <= n
  <2> DEFINE byte == acc.mem[s + k]
             m == Stored(acc.mem, d + k, <<byte>>)
             r == [mem |-> m, done |-> byte = 0]
  <2>1. ~acc.done /\ Mapped(s + k, 1) /\ Mapped(d + k, 1)
    BY <1>1, <1>2, <1>4 DEF Mapped
  <2>2. StrcpyStep(d, s, acc, k) = r
    BY <2>1 DEF StrcpyStep
  <2>3. byte = mem[s + k] /\ byte \in Nat
    <3>1. s + k \in 0 .. (MemTop - 1) /\ (s + k < d \/ s + k > d + n)
      BY <1>1, <1>4 DEF Apart
    <3> QED
      BY <1>2, <3>1
  <2> HIDE DEF byte
  <2>4. /\ m \in [0 .. (MemTop - 1) -> Nat] /\ m[d + k] = byte
        /\ \A i \in 0 .. (MemTop - 1) : i # d + k => m[i] = acc.mem[i]
    <3> DEFINE a == d + k
               bytes == <<byte>>
               c == acc.mem
    <3>1. /\ a \in Nat /\ bytes \in Seq(Nat) /\ Len(bytes) = 1 /\ bytes[1] = byte
          /\ a + Len(bytes) <= MemTop /\ c \in [0 .. (MemTop - 1) -> Nat]
      BY <1>1, <1>2, <1>4, <2>3, SMTT(30)
    <3>2. m = Stored(c, a, bytes)
      OBVIOUS
    <3> HIDE DEF a, bytes, c, m
    <3>3. /\ Stored(c, a, bytes) \in [0 .. (MemTop - 1) -> Nat]
          /\ \A i \in 1..Len(bytes) : Stored(c, a, bytes)[a + i - 1] = bytes[i]
          /\ \A i \in 0 .. (MemTop - 1) : i < a \/ i >= a + Len(bytes) => Stored(c, a, bytes)[i] = c[i]
      BY <3>1, StoredFacts, ZenonT(30)
    <3>4. m[a] = byte
      <4>1. 1 \in 1..Len(bytes) /\ a + 1 - 1 = a
        BY <3>1
      <4>2. m[a + 1 - 1] = bytes[1]
        BY <3>2, <3>3, <4>1
      <4> QED
        BY <3>1, <4>1, <4>2
    <3>5. ASSUME NEW i \in 0 .. (MemTop - 1), i # a PROVE m[i] = c[i]
      <4>1. i < a \/ i >= a + Len(bytes)
        BY <3>1, <3>5
      <4> QED
        BY <3>2, <3>3, <4>1
    <3> QED
      BY <3>2, <3>3, <3>4, <3>5 DEF a, c
  <2> HIDE DEF m
  <2>5. r.mem = m /\ r.done = (byte = 0) /\ r.done \in BOOLEAN
    OBVIOUS
  <2> HIDE DEF r
  <2>6. byte = 0 <=> k + 1 > n
    <3>1. mem[s + n] = 0 /\ \A i \in 0 .. (n - 1) : mem[s + i] # 0
      BY DEF StringAt
    <3>2. CASE k = n
      <4>1. byte = 0
        BY <2>3, <3>1, <3>2
      <4> QED
        BY <3>2, <4>1
    <3>3. CASE k # n
      <4>1. k \in 0 .. (n - 1)
        BY <1>4, <3>3
      <4>2. byte # 0 /\ ~(k + 1 > n)
        BY <2>3, <3>1, <4>1, SMTT(30)
      <4> QED
        BY <4>2
    <3> QED
      BY <3>2, <3>3
  <2>7. ASSUME NEW i \in 0..n, i < k + 1 PROVE m[d + i] = mem[s + i]
    <3>1. CASE i = k
      BY <2>3, <2>4, <3>1
    <3>2. CASE i # k
      <4>1. d + i \in 0 .. (MemTop - 1) /\ d + i # d + k /\ i < k
        BY <1>1, <1>4, <2>7, <3>2
      <4> QED
        BY <1>2, <2>4, <4>1
    <3> QED
      BY <3>1, <3>2
  <2>8. ASSUME NEW i \in 0 .. (MemTop - 1), i < d \/ i > d + n PROVE m[i] = mem[i]
    <3>1. i # d + k
      BY <1>4, <2>8
    <3> QED
      BY <1>2, <2>4, <2>8, <3>1
  <2> QED
    BY <2>2, <2>4, <2>5, <2>6, <2>7, <2>8 DEF Copying
<1> QED
  BY <1>3, <1>4

\* A string that ends before the cap arrives whole and touches nothing else.
LEMMA StrcpyArrives ==
  ASSUME mem \in [0 .. (MemTop - 1) -> Nat], NEW d \in Nat, NEW s \in Nat, NEW n \in Nat,
         StringAt(s, n), Mapped(d, n + 1), Apart(d, n + 1, s, n + 1), n < StrcpyCap
  PROVE  /\ Loaded(Strcpy(d, s), d, n + 1) = Loaded(mem, s, n + 1)
         /\ \A i \in 0 .. (MemTop - 1) : i < d \/ i >= d + (n + 1) => Strcpy(d, s)[i] = mem[i]
<1> DEFINE S == [mem : [0 .. (MemTop - 1) -> Nat], done : BOOLEAN]
           base == [mem |-> mem, done |-> FALSE]
<1>1. MemTop \in Nat /\ StrcpyCap \in Nat /\ s + n < MemTop /\ d + n < MemTop
  BY MemoryAssumption DEF StringAt, Mapped
<1>2. base \in S /\ base.mem = mem /\ base.done = FALSE
  OBVIOUS
<1>3. ASSUME NEW acc \in S, NEW i \in Nat PROVE StrcpyStep(d, s, acc, i) \in S
  <2>1. CASE acc.done \/ ~Mapped(s + i, 1) \/ ~Mapped(d + i, 1)
    BY <2>1 DEF StrcpyStep
  <2>2. CASE ~(acc.done \/ ~Mapped(s + i, 1) \/ ~Mapped(d + i, 1))
    <3> DEFINE byte == acc.mem[s + i]
               m == Stored(acc.mem, d + i, <<byte>>)
               r == [mem |-> m, done |-> byte = 0]
    <3>1. StrcpyStep(d, s, acc, i) = r
      BY <2>2 DEF StrcpyStep
    <3>2. /\ d + i \in Nat /\ d + i < MemTop /\ s + i \in 0 .. (MemTop - 1)
          /\ acc.mem \in [0 .. (MemTop - 1) -> Nat]
      BY <1>1, <2>2 DEF Mapped
    <3>3. byte \in Nat
      BY <3>2
    <3> HIDE DEF byte
    <3>4. <<byte>> \in Seq(Nat) /\ Len(<<byte>>) = 1
      BY <3>3
    <3>5. m \in [0 .. (MemTop - 1) -> Nat]
      <4> DEFINE a == d + i
                 bytes == <<byte>>
                 c == acc.mem
      <4>1. /\ a \in Nat /\ bytes \in Seq(Nat) /\ a + Len(bytes) <= MemTop
            /\ c \in [0 .. (MemTop - 1) -> Nat]
        BY <1>1, <3>2, <3>4
      <4>2. m = Stored(c, a, bytes)
        OBVIOUS
      <4> HIDE DEF a, bytes, c, m
      <4> QED
        BY <4>1, <4>2, StoredFacts
    <3> HIDE DEF m
    <3>6. r \in S
      BY <3>5
    <3> QED
      BY <3>1, <3>6
  <2> QED
    BY <2>1, <2>2
<1> HIDE DEF S
<1>4. PICK g \in [0..StrcpyCap -> S] :
        /\ g[0] = base
        /\ \A k \in 1..StrcpyCap : g[k] = StrcpyStep(d, s, g[k - 1], k - 1)
        /\ Strcpy(d, s) = g[StrcpyCap].mem
  <2>1. \A b \in S, x \in Nat : StrcpyStep(d, s, b, x) \in S
    BY <1>3
  <2>2. [mem |-> mem, done |-> FALSE] \in S
    BY <1>2
  <2>3. \E g \in [0..StrcpyCap -> S] : StrcpyStates(d, s, g)
    BY <2>1, <2>2, StrcpyRuns
  <2> QED
    BY <2>3 DEF StrcpyStates
<1> HIDE DEF base
<1> DEFINE G == {k \in 0..StrcpyCap : Copying(d, s, n, k, g[k])}
<1>5. 0 \in G
  <2>1. ~(0 > n) /\ ~\E i \in 0..n : i < 0
    OBVIOUS
  <2>2. Copying(d, s, n, 0, base)
    BY <1>2, <2>1 DEF Copying
  <2> QED
    BY <1>1, <1>4, <2>2
<1>6. ASSUME NEW k \in 1..StrcpyCap, k - 1 \in G
      PROVE  k \in G
  <2> DEFINE acc == g[k - 1]
             j == k - 1
  <2>1. /\ j \in Nat /\ j + 1 = k /\ acc \in S /\ Copying(d, s, n, j, acc)
        /\ k \in 0..StrcpyCap /\ g[k] = StrcpyStep(d, s, acc, j)
    <3>1. k - 1 \in 0..StrcpyCap /\ k \in 0..StrcpyCap /\ k - 1 \in Nat /\ (k - 1) + 1 = k
      BY <1>1
    <3>2. g[k] = StrcpyStep(d, s, g[k - 1], k - 1)
      BY <1>4
    <3>3. Copying(d, s, n, k - 1, g[k - 1])
      BY <1>6
    <3> QED
      BY <3>1, <3>2, <3>3
  <2> HIDE DEF acc, j
  <2>2. Copying(d, s, n, j + 1, StrcpyStep(d, s, acc, j))
    BY <2>1, CopyOneByte DEF S
  <2> QED
    BY <2>1, <2>2
<1> HIDE DEF G
<1>7. G = 0..StrcpyCap
  <2>1. G \in SUBSET (0..StrcpyCap)
    BY DEF G
  <2> QED
    BY <1>1, <1>5, <1>6, <2>1, PositionInduction
<1> DEFINE m == Strcpy(d, s)
<1>8. /\ \A i \in 0..n : m[d + i] = mem[s + i]
      /\ \A i \in 0 .. (MemTop - 1) : i < d \/ i > d + n => m[i] = mem[i]
  <2>1. StrcpyCap \in 0..StrcpyCap
    BY <1>1
  <2>2. Copying(d, s, n, StrcpyCap, g[StrcpyCap])
    BY <1>7, <2>1 DEF G
  <2>3. \A i \in 0..n : i < StrcpyCap
    BY <1>1
  <2> HIDE DEF m
  <2>4. m = g[StrcpyCap].mem
    BY <1>4 DEF m
  <2> QED
    BY <2>2, <2>3, <2>4 DEF Copying
<1> HIDE DEF m
<1>9. Loaded(m, d, n + 1) = Loaded(mem, s, n + 1)
  <2>1. ASSUME NEW i \in 1 .. (n + 1) PROVE m[d + i - 1] = mem[s + i - 1]
    <3>1. i - 1 \in 0..n /\ d + (i - 1) = d + i - 1 /\ s + (i - 1) = s + i - 1
      OBVIOUS
    <3>2. m[d + (i - 1)] = mem[s + (i - 1)]
      BY <1>8, <3>1
    <3> QED
      BY <3>1, <3>2
  <2> QED
    BY <2>1 DEF Loaded
<1>10. \A i \in 0 .. (MemTop - 1) : i < d \/ i >= d + (n + 1) => m[i] = mem[i]
  BY <1>8
<1> QED
  BY <1>9, <1>10 DEF m

-----------------------------------------------------------------------------
(* The calls.                                                              *)

MemInv ==
  /\ call.op = "none" => mem \in [0 .. (MemTop - 1) -> Nat]
  /\ StrchrFindsFirst /\ DivisionAgrees

\* What a copy must have done when it returns.
StrcpyKept ==
  LET d == call'.a  s == call'.b  n == Strlen(s)
  IN  n < StrcpyCap /\ Mapped(s, n + 1) /\ Mapped(d, n + 1) /\ Apart(d, n + 1, s, n + 1)
      => Loaded(mem', d, n + 1) = Loaded(mem, s, n + 1) /\ Untouched(d, n + 1)

MoveKept ==
  LET d == call'.a  s == call'.b  n == call'.n
  IN  IF Mapped(d, n) /\ Mapped(s, n)
      THEN Loaded(mem', d, n) = Loaded(mem, s, n) /\ Untouched(d, n)
      ELSE mem' = mem

CopiesKept ==
  /\ call'.op = "strcpy" => StrcpyKept
  /\ call'.op \in {"memcpy", "memmove"} => MoveKept

\* What an answer says.
LEMMA AnswerFacts ==
  ASSUME NEW op, NEW a, NEW b, NEW n, NEW r, Answer(op, a, b, n, r)
  PROVE  /\ call'.op = op /\ call'.a = a /\ call'.b = b /\ call'.n = n /\ call'.result = r
  BY DEF Answer

\* A call that is none of strchr, div and mod leaves nothing to agree with.
LEMMA OtherAnswer ==
  ASSUME NEW op, NEW a, NEW b, NEW n, NEW r, Answer(op, a, b, n, r),
         op \notin {"none", "strchr", "div", "mod"}
  PROVE  MemInv'
  BY AnswerFacts DEF MemInv, StrchrFindsFirst, DivisionAgrees

\* strchr keeps the memory, and its answer is the first match.
LEMMA StrchrKept ==
  ASSUME NEW s \in Nat, NEW c, HandleStrchr(s, c)
  PROVE  MemInv' /\ CopiesKept
<1>1. Answer("strchr", s, c, 0, Strchr(s, c)) /\ mem' = mem
  BY DEF HandleStrchr
<1>2. /\ call'.op = "strchr" /\ call'.a = s /\ call'.b = c /\ call'.result = Strchr(s, c)
  BY <1>1, AnswerFacts
<1>3. Strlen(s)' = Strlen(s)
  BY <1>1 DEF Strlen, ScanEnd
<1> DEFINE n == Strlen(s)
           inside == {i \in 0..n : Mapped(s + i, 1) /\ mem[s + i] = c}
<1>4. n < StrchrCap => Strchr(s, c) = (IF inside = {} THEN 0 ELSE s + Min(inside))
  BY StrchrIsFirst
<1>5. StrchrFindsFirst'
  <2>1. inside' = inside /\ n' = n
    BY <1>1, <1>3
  <2> QED
    BY <1>1, <1>2, <1>3, <1>4 DEF StrchrFindsFirst
<1>6. DivisionAgrees' /\ CopiesKept /\ call'.op # "none"
  BY <1>2 DEF DivisionAgrees, CopiesKept
<1> QED
  BY <1>5, <1>6 DEF MemInv

\* So do division and modulo, whose answers are the quotient and the remainder.
LEMMA ArithKept ==
  ASSUME NEW op \in {"div", "mod"}, NEW u \in 0..(Modulus - 1), NEW v \in 0..(Modulus - 1),
         HandleArith(op, u, v)
  PROVE  MemInv' /\ CopiesKept
<1>1. call'.op = op
  BY DEF HandleArith, Answer
<1>2. DivisionAgrees'
  BY ArithAgrees
<1> QED
  BY <1>1, <1>2 DEF MemInv, StrchrFindsFirst, CopiesKept

\* strcpy keeps the memory well-formed and leaves a copy.
LEMMA StrcpyCallKept ==
  ASSUME mem \in [0 .. (MemTop - 1) -> Nat], NEW d \in Nat, NEW s \in Nat, HandleStrcpy(d, s)
  PROVE  MemInv' /\ CopiesKept
<1>1. mem' = Strcpy(d, s) /\ Answer("strcpy", d, s, 0, d)
  BY DEF HandleStrcpy
<1>2. call'.op = "strcpy" /\ call'.a = d /\ call'.b = s
  BY <1>1, AnswerFacts
<1>3. MemInv'
  BY <1>1, OtherAnswer
<1> DEFINE n == Strlen(s)
<1>4. ASSUME n < StrcpyCap, Mapped(s, n + 1), Mapped(d, n + 1), Apart(d, n + 1, s, n + 1)
      PROVE  Loaded(mem', d, n + 1) = Loaded(mem, s, n + 1) /\ Untouched(d, n + 1)
  <2>1. StrcpyCap \in Nat /\ StrlenCap \in Nat /\ StrcpyCap <= StrlenCap
    BY MemoryAssumption
  <2>2. /\ n \in 0..StrlenCap
        /\ n < StrlenCap => Stops(s, n, {0})
        /\ \A i \in 0 .. (n - 1) : ~Stops(s, i, {0})
    BY <2>1, ScanEndFacts DEF Strlen
  <2> HIDE DEF n
  <2>3. n \in Nat /\ Stops(s, n, {0})
    BY <1>4, <2>1, <2>2
  <2>4. Mapped(s + n, 1)
    BY <1>4, <2>3 DEF Mapped
  <2>5. StringAt(s, n)
    BY <1>4, <2>2, <2>3, <2>4 DEF StringAt, Stops
  <2>6. /\ Loaded(Strcpy(d, s), d, n + 1) = Loaded(mem, s, n + 1)
        /\ \A i \in 0 .. (MemTop - 1) : i < d \/ i >= d + (n + 1) => Strcpy(d, s)[i] = mem[i]
    BY <1>4, <2>3, <2>5, StrcpyArrives
  <2>7. DOMAIN mem = 0 .. (MemTop - 1)
    OBVIOUS
  <2> QED
    BY <1>1, <2>6, <2>7 DEF Untouched
<1>5. StrcpyKept
  BY <1>2, <1>4 DEF StrcpyKept
<1> QED
  BY <1>2, <1>3, <1>5 DEF CopiesKept

\* memcpy and memmove do, whether the ranges overlap or not.
LEMMA MoveCallKept ==
  ASSUME mem \in [0 .. (MemTop - 1) -> Nat], NEW op \in {"memcpy", "memmove"},
         NEW d \in Nat, NEW s \in Nat, NEW n \in Nat, HandleMove(op, d, s, n)
  PROVE  MemInv' /\ CopiesKept
<1>1. /\ mem' = IF Mapped(d, n) /\ Mapped(s, n) THEN Moved(d, s, n) ELSE mem
      /\ Answer(op, d, s, n, d)
  BY DEF HandleMove
<1>2. call'.op = op /\ call'.a = d /\ call'.b = s /\ call'.n = n
  BY <1>1, AnswerFacts
<1>3. MemInv'
  <2>1. op \notin {"none", "strchr", "div", "mod"}
    OBVIOUS
  <2> QED
    BY <1>1, <2>1, OtherAnswer
<1>4. ASSUME Mapped(d, n), Mapped(s, n)
      PROVE  Loaded(mem', d, n) = Loaded(mem, s, n) /\ Untouched(d, n)
  <2>1. /\ Loaded(Moved(d, s, n), d, n) = Loaded(mem, s, n)
        /\ \A i \in 0 .. (MemTop - 1) : i < d \/ i >= d + n => Moved(d, s, n)[i] = mem[i]
    BY <1>4, MovedArrives
  <2>2. DOMAIN mem = 0 .. (MemTop - 1)
    OBVIOUS
  <2> QED
    BY <1>1, <1>4, <2>1, <2>2 DEF Untouched
<1>5. MoveKept
  BY <1>1, <1>2, <1>4 DEF MoveKept
<1> QED
  BY <1>2, <1>3, <1>5 DEF CopiesKept

\* Every call of the C library answers as C promises.
LEMMA MemStep == MemInv /\ MemNext => MemInv' /\ CopiesKept
<1> SUFFICES ASSUME MemInv, MemNext PROVE MemInv' /\ CopiesKept
  OBVIOUS
<1>1. mem \in [0 .. (MemTop - 1) -> Nat]
  BY DEF MemInv, MemNext
<1>2. Addresses \subseteq Nat /\ Counts \subseteq Nat
  <2>1. MemTop \in Nat /\ Counts \subseteq Nat
    BY MemoryAssumption
  <2> QED
    BY <2>1 DEF Addresses
<1>3. ASSUME NEW op, NEW a, NEW b, NEW n, NEW r, Answer(op, a, b, n, r),
             op \notin {"none", "strchr", "div", "mod", "strcpy", "memcpy", "memmove"}
      PROVE  MemInv' /\ CopiesKept
  <2>1. MemInv'
    BY <1>3, OtherAnswer
  <2>2. call'.op = op
    BY <1>3, AnswerFacts
  <2> QED
    BY <1>3, <2>1, <2>2 DEF CopiesKept
<1>4. ASSUME NEW s \in Addresses, HandleStrlen(s) PROVE MemInv' /\ CopiesKept
  BY <1>3, <1>4 DEF HandleStrlen
<1>5. ASSUME NEW s \in Addresses, NEW c \in Bytes, HandleStrchr(s, c) PROVE MemInv' /\ CopiesKept
  <2>1. s \in Nat
    BY <1>2
  <2> QED
    BY <1>5, <2>1, StrchrKept
<1>6. ASSUME NEW c \in Bytes, HandleToupper(c) PROVE MemInv' /\ CopiesKept
  BY <1>3, <1>6 DEF HandleToupper
<1>7. ASSUME NEW d \in Addresses, NEW s \in Addresses, HandleStrcpy(d, s) PROVE MemInv' /\ CopiesKept
  <2>1. d \in Nat /\ s \in Nat
    BY <1>2
  <2> QED
    BY <1>1, <1>7, <2>1, StrcpyCallKept
<1>8. ASSUME NEW d \in Addresses, NEW s \in Addresses, NEW n \in Counts, HandleMemcmp(d, s, n)
      PROVE  MemInv' /\ CopiesKept
  BY <1>3, <1>8 DEF HandleMemcmp
<1>9. ASSUME NEW d \in Addresses, NEW s \in Addresses, NEW n \in Counts,
             NEW op \in {"memcpy", "memmove"}, HandleMove(op, d, s, n)
      PROVE  MemInv' /\ CopiesKept
  <2>1. d \in Nat /\ s \in Nat /\ n \in Nat
    BY <1>2
  <2> QED
    BY <1>1, <1>9, <2>1, MoveCallKept
<1>10. ASSUME NEW d \in Addresses, NEW v \in Values, NEW w \in Values, HandleSprintf2Digit(d, v, w)
       PROVE  MemInv' /\ CopiesKept
  BY <1>3, <1>10 DEF HandleSprintf2Digit
<1>11. ASSUME NEW op \in {"div", "mod"}, NEW u \in 0..(Modulus - 1), NEW v \in 0..(Modulus - 1),
              HandleArith(op, u, v)
       PROVE  MemInv' /\ CopiesKept
  BY <1>11, ArithKept
<1> QED
  BY <1>4, <1>5, <1>6, <1>7, <1>8, <1>9, <1>10, <1>11 DEF MemNext

\* A step of another part keeps it.
LEMMA MemUntouched == MemInv /\ UNCHANGED memVars => MemInv'
  BY DEF MemInv, memVars, StrchrFindsFirst, DivisionAgrees, Strlen, ScanEnd, Raises

-----------------------------------------------------------------------------
(* Files.                                                                  *)

Cells == 0..255

\* A write left over: where its bytes go, and the bytes.
Writes == Nat \X Seq(Cells)

Streams == [file : Paths, mode : PyModes, pos : Nat, pending : Seq(Writes)]

\* A file's contents once one left-over write went out.
Put(m, content, w) == Written(content, IF Appends(m) THEN Len(content) ELSE w[1], w[2])

\* Bytes written are where they were meant to go; all others stay.
LEMMA WrittenFacts ==
  ASSUME NEW c \in Seq(Cells), NEW at \in Nat, NEW bytes \in Seq(Cells)
  PROVE  /\ Written(c, at, bytes) \in Seq(Cells)
         /\ Len(Written(c, at, bytes)) >= Len(c)
         /\ Len(Written(c, at, bytes)) >= at + Len(bytes)
         /\ \A i \in 1..Len(c) : i <= at \/ i > at + Len(bytes) => Written(c, at, bytes)[i] = c[i]
         /\ \A i \in 1..Len(bytes) : Written(c, at, bytes)[at + i] = bytes[i]
<1> DEFINE top == IF at + Len(bytes) > Len(c) THEN at + Len(bytes) ELSE Len(c)
           cell(i) == IF i > at /\ i <= at + Len(bytes) THEN bytes[i - at]
                      ELSE IF i <= Len(c) THEN c[i] ELSE 0
           r == [i \in 1..top |-> cell(i)]
<1>1. /\ Len(c) \in Nat /\ Len(bytes) \in Nat /\ 0 \in Cells
      /\ \A i \in 1..Len(c) : c[i] \in Cells
      /\ \A i \in 1..Len(bytes) : bytes[i] \in Cells
  <2>1. 0 \in Cells
    BY DEF Cells
  <2> QED
    BY <2>1
<1>2. Written(c, at, bytes) = r
  BY DEF Written
<1> HIDE DEF Cells
<1>3. top \in Nat /\ top >= Len(c) /\ top >= at + Len(bytes)
  BY <1>1
<1>4. ASSUME NEW i \in 1..top PROVE cell(i) \in Cells
  <2>1. CASE i > at /\ i <= at + Len(bytes)
    <3>1. i - at \in 1..Len(bytes)
      BY <1>1, <1>3, <2>1
    <3> QED
      BY <1>1, <2>1, <3>1
  <2>2. CASE ~(i > at /\ i <= at + Len(bytes)) /\ i <= Len(c)
    <3>1. i \in 1..Len(c)
      BY <1>1, <1>3, <2>2
    <3> QED
      BY <1>1, <2>2, <3>1
  <2>3. CASE ~(i > at /\ i <= at + Len(bytes)) /\ ~(i <= Len(c))
    BY <1>1, <2>3
  <2> QED
    BY <2>1, <2>2, <2>3
<1>5. ASSUME NEW i \in 1..Len(c), i <= at \/ i > at + Len(bytes) PROVE cell(i) = c[i] /\ i \in 1..top
  BY <1>1, <1>3, <1>5
<1>6. ASSUME NEW i \in 1..Len(bytes) PROVE cell(at + i) = bytes[i] /\ at + i \in 1..top
  <2>1. at + i > at /\ at + i <= at + Len(bytes) /\ (at + i) - at = i
    BY <1>1
  <2> QED
    BY <1>1, <1>3, <2>1
<1> HIDE DEF cell, top
<1>7. r \in Seq(Cells) /\ Len(r) = top
  <2>1. r \in [1..top -> Cells]
    BY <1>4
  <2>2. r \in Seq(Cells)
    BY <1>3, <2>1
  <2> HIDE DEF r
  <2> QED
    BY <1>3, <2>1, <2>2
<1>8. \A i \in 1..Len(c) : i <= at \/ i > at + Len(bytes) => r[i] = c[i]
  BY <1>5
<1>9. \A i \in 1..Len(bytes) : r[at + i] = bytes[i]
  BY <1>6
<1> QED
  BY <1>2, <1>3, <1>7, <1>8, <1>9

\* The same under a name.
CellsWritten(c, at, bytes) ==
  /\ Written(c, at, bytes) \in Seq(Cells)
  /\ Len(Written(c, at, bytes)) >= Len(c)
  /\ Len(Written(c, at, bytes)) >= at + Len(bytes)
  /\ \A i \in 1..Len(c) : i <= at \/ i > at + Len(bytes) => Written(c, at, bytes)[i] = c[i]
  /\ \A i \in 1..Len(bytes) : Written(c, at, bytes)[at + i] = bytes[i]

\* What a write leaves in a file has that name.
LEMMA WrittenCells ==
  ASSUME NEW c \in Seq(Cells), NEW at \in Nat, NEW bytes \in Seq(Cells)
  PROVE  CellsWritten(c, at, bytes)
BY WrittenFacts DEF CellsWritten

\* A flush writes what is left over, one write after the other.
LEMMA FlushRuns ==
  ASSUME NEW h, NEW m, m = streams[h].mode, NEW p \in Seq(Writes), disk[streams[h].file] \in Seq(Cells)
  PROVE  \E g \in [0..Len(p) -> Seq(Cells)] :
           /\ g[0] = disk[streams[h].file]
           /\ \A k \in 1..Len(p) : g[k] = Put(m, g[k - 1], p[k])
           /\ Flushed(h, p) = g[Len(p)]
<1> DEFINE n == Len(p)
           S == Seq(Cells)
           base == disk[streams[h].file]
<1>1. /\ n \in Nat /\ base \in S /\ DOMAIN p = 1..n
      /\ \A k \in 1..n : p[k] \in Writes /\ k - 1 \in Nat
  OBVIOUS
<1>2. \A b \in S, w \in Writes : Put(m, b, w) \in S
  <2> SUFFICES ASSUME NEW b \in S, NEW w \in Writes PROVE Put(m, b, w) \in S
    OBVIOUS
  <2>1. (IF Appends(m) THEN Len(b) ELSE w[1]) \in Nat /\ w[2] \in Seq(Cells)
    BY DEF Writes
  <2> QED
    BY <2>1, WrittenFacts DEF Put
<1> DEFINE Is(f) == f = [t \in SUBSET (1..n) |->
                          IF t = {} THEN base ELSE Put(m, f[t \ {Max(t)}], p[Max(t)])]
           f0 == CHOOSE f : Is(f)
<1>3. Flushed(h, p) = f0[1..n]
  BY <1>1 DEF Flushed, Put, FoldLeft, MapThenFoldSet
<1> HIDE DEF n, base, S
<1>4. \E f : Is(f)
  <2> DEFINE step == [k \in 1..n |-> [b \in S |-> Put(m, b, p[k])]]
  <2>1. Loop(n, S, base, step)
    BY <1>1, <1>2 DEF Loop
  <2>2. PICK f \in [SUBSET (1..n) -> S] : FoldStates(n, base, step, f)
    BY <2>1, FoldHasStates
  <2>3. ASSUME NEW t \in SUBSET (1..n)
        PROVE  f[t] = IF t = {} THEN base ELSE Put(m, f[t \ {Max(t)}], p[Max(t)])
    <3>1. CASE t = {}
      BY <2>2, <3>1 DEF FoldStates
    <3>2. CASE t # {}
      <4>1. Max(t) \in 1..n
        BY <1>1, <3>2, LastPosition
      <4>2. f[t \ {Max(t)}] \in S
        OBVIOUS
      <4>3. f[t] = step[Max(t)][f[t \ {Max(t)}]]
        BY <2>2, <3>2 DEF FoldStates
      <4> QED
        BY <3>2, <4>1, <4>2, <4>3
    <3> QED
      BY <3>1, <3>2
  <2>4. f = [t \in SUBSET (1..n) |-> f[t]]
    OBVIOUS
  <2>5. Is(f)
    BY <2>3, <2>4
  <2> QED
    BY <2>5
<1>5. Is(f0)
  BY <1>4
<1> HIDE DEF f0
<1> DEFINE g == [k \in 0..n |-> f0[1..k]]
<1>6. g[0] = base
  <2>1. 1..0 = {} /\ {} \in SUBSET (1..n) /\ 0 \in 0..n
    BY <1>1
  <2> QED
    BY <1>5, <2>1
<1>7. ASSUME NEW k \in 1..n
      PROVE  g[k] = Put(m, g[k - 1], p[k])
  <2>1. /\ 1..k \in SUBSET (1..n) /\ 1..k # {} /\ Max(1..k) = k
        /\ (1..k) \ {Max(1..k)} = 1..(k - 1)
    BY <1>1, InitialPositions
  <2>2. k \in 0..n /\ k - 1 \in 0..n
    BY <1>1
  <2>3. f0[1..k] = Put(m, f0[1..(k - 1)], p[k])
    BY <1>1, <1>5, <2>1
  <2> QED
    BY <2>2, <2>3
<1> DEFINE G == {k \in 0..n : g[k] \in S}
<1>8. G = 0..n
  <2>1. G \in SUBSET (0..n) /\ 0 \in G
    BY <1>1, <1>6
  <2>2. ASSUME NEW k \in 1..n, k - 1 \in G
        PROVE  k \in G
    <3>1. g[k - 1] \in S /\ p[k] \in Writes /\ k \in 0..n
      BY <1>1, <2>2
    <3> HIDE DEF g
    <3>2. g[k] \in S
      BY <1>2, <1>7, <3>1
    <3> QED
      BY <3>1, <3>2
  <2> HIDE DEF G
  <2> QED
    BY <1>1, <2>1, <2>2, PositionInduction
<1>9. g \in [0..n -> S]
  BY <1>8
<1>10. Flushed(h, p) = g[n]
  BY <1>1, <1>3
<1> HIDE DEF g
<1> QED
  BY <1>6, <1>7, <1>9, <1>10 DEF n, base, S

\* No byte of a stream's left-over writes goes to place i of its file.
Spares(m, p, i) == Appends(m) \/ p = <<>> \/ i <= p[1][1] \/ i > p[1][1] + Len(p[1][2])

\* A write makes a file no shorter and changes only what it covers.
LEMMA PutFacts ==
  ASSUME NEW m, NEW c \in Seq(Cells), NEW w \in Writes
  PROVE  /\ Put(m, c, w) \in Seq(Cells) /\ Len(Put(m, c, w)) >= Len(c)
         /\ \A i \in 1..Len(c) :
              Appends(m) \/ i <= w[1] \/ i > w[1] + Len(w[2]) => Put(m, c, w)[i] = c[i]
<1> DEFINE at == IF Appends(m) THEN Len(c) ELSE w[1]
<1>1. at \in Nat /\ w[2] \in Seq(Cells) /\ w[1] \in Nat
  BY DEF Writes
<1>2. Put(m, c, w) = Written(c, at, w[2])
  BY DEF Put
<1>3. ASSUME NEW i \in 1..Len(c), Appends(m) \/ i <= w[1] \/ i > w[1] + Len(w[2])
      PROVE  i <= at \/ i > at + Len(w[2])
  BY <1>1, <1>3
<1> HIDE DEF at
<1>4. /\ Written(c, at, w[2]) \in Seq(Cells) /\ Len(Written(c, at, w[2])) >= Len(c)
      /\ \A i \in 1..Len(c) :
           i <= at \/ i > at + Len(w[2]) => Written(c, at, w[2])[i] = c[i]
  BY <1>1, WrittenFacts
<1> QED
  BY <1>2, <1>3, <1>4

\* Flushing at most one left-over write keeps every byte it spares.
LEMMA FlushedFacts ==
  ASSUME NEW h, NEW p \in Seq(Writes), Len(p) <= 1, disk[streams[h].file] \in Seq(Cells)
  PROVE  /\ Flushed(h, p) \in Seq(Cells) /\ Len(Flushed(h, p)) >= Len(disk[streams[h].file])
         /\ \A i \in 1..Len(disk[streams[h].file]) :
              Spares(streams[h].mode, p, i) => Flushed(h, p)[i] = disk[streams[h].file][i]
         /\ p = <<>> => Flushed(h, p) = disk[streams[h].file]
<1> DEFINE m == streams[h].mode
           c == disk[streams[h].file]
<1>0. m = streams[h].mode /\ c \in Seq(Cells)
  OBVIOUS
<1>1. PICK g \in [0..Len(p) -> Seq(Cells)] :
        /\ g[0] = c
        /\ \A k \in 1..Len(p) : g[k] = Put(m, g[k - 1], p[k])
        /\ Flushed(h, p) = g[Len(p)]
  <2> HIDE DEF m
  <2> QED
    BY <1>0, FlushRuns
<1> HIDE DEF m, c
<1>2. CASE p = <<>>
  <2>1. Len(p) = 0 /\ Flushed(h, p) = c
    BY <1>1, <1>2
  <2> QED
    BY <1>0, <1>2, <2>1 DEF m, c
<1>3. CASE p # <<>>
  <2>1. Len(p) = 1 /\ p[1] \in Writes
    <3>1. Len(p) \in Nat \ {0}
      BY <1>3, EmptySeq
    <3>2. Len(p) = 1
      <4> DEFINE n == Len(p)
      <4>1. n \in Nat \ {0} /\ n <= 1
        BY <3>1
      <4> HIDE DEF n
      <4>2. n = 1
        BY <4>1
      <4> QED
        BY <4>2 DEF n
    <3>3. \A k \in 1..Len(p) : p[k] \in Writes
      OBVIOUS
    <3>4. 1 \in 1..Len(p)
      BY <3>2
    <3> QED
      BY <3>2, <3>3, <3>4
  <2>2. Flushed(h, p) = Put(m, c, p[1])
    BY <1>1, <2>1
  <2>3. ASSUME NEW i \in 1..Len(c), Spares(m, p, i)
        PROVE  Appends(m) \/ i <= p[1][1] \/ i > p[1][1] + Len(p[1][2])
    BY <1>3, <2>3 DEF Spares
  <2>4. /\ Put(m, c, p[1]) \in Seq(Cells) /\ Len(Put(m, c, p[1])) >= Len(c)
        /\ \A i \in 1..Len(c) : Spares(m, p, i) => Put(m, c, p[1])[i] = c[i]
    BY <1>0, <2>1, <2>3, PutFacts
  <2> QED
    BY <1>3, <2>2, <2>4 DEF m, c
<1> QED
  BY <1>2, <1>3

\* A write of the stream itself goes out behind what was left over.
LEMMA FlushedAppend ==
  ASSUME NEW h, NEW p \in Seq(Writes), Len(p) <= 1, NEW w \in Writes,
         disk[streams[h].file] \in Seq(Cells)
  PROVE  Flushed(h, Append(p, w)) = Put(streams[h].mode, Flushed(h, p), w)
<1> DEFINE m == streams[h].mode
           c == disk[streams[h].file]
           q == Append(p, w)
<1>0. m = streams[h].mode /\ c \in Seq(Cells)
  OBVIOUS
<1>1. /\ q \in Seq(Writes) /\ Len(q) = Len(p) + 1 /\ q[Len(p) + 1] = w
      /\ Len(p) = 1 => q[1] = p[1]
  OBVIOUS
<1> HIDE DEF m, q
<1>2. PICK g \in [0..Len(p) -> Seq(Cells)] :
        /\ g[0] = c
        /\ \A k \in 1..Len(p) : g[k] = Put(m, g[k - 1], p[k])
        /\ Flushed(h, p) = g[Len(p)]
  BY <1>0, FlushRuns
<1>3. PICK f \in [0..Len(q) -> Seq(Cells)] :
        /\ f[0] = c
        /\ \A k \in 1..Len(q) : f[k] = Put(m, f[k - 1], q[k])
        /\ Flushed(h, q) = f[Len(q)]
  BY <1>0, <1>1, FlushRuns, SMTT(30)
<1> HIDE DEF c
<1>4. Flushed(h, q) = Put(m, Flushed(h, p), w)
  <2>1. CASE Len(p) = 0
    <3>1. Flushed(h, p) = c
      BY <1>2, <2>1
    <3>2. Len(q) = 1 /\ q[1] = w
      BY <1>1, <2>1
    <3> QED
      BY <1>3, <3>1, <3>2
  <2>2. CASE Len(p) = 1
    <3>1. Flushed(h, p) = Put(m, c, p[1])
      BY <1>2, <2>2
    <3>2. Len(q) = 2 /\ q[1] = p[1] /\ q[2] = w
      BY <1>1, <2>2
    <3>3. f[1] = Put(m, c, p[1]) /\ f[2] = Put(m, f[1], w) /\ Flushed(h, q) = f[2]
      BY <1>3, <3>2
    <3> QED
      BY <3>1, <3>3
  <2>3. Len(p) = 0 \/ Len(p) = 1
    <3> DEFINE n == Len(p)
    <3>1. n \in Nat /\ n <= 1
      OBVIOUS
    <3> HIDE DEF n
    <3>2. n = 0 \/ n = 1
      BY <3>1
    <3> QED
      BY <3>2 DEF n
  <2> QED
    BY <2>1, <2>2, <2>3
<1> QED
  BY <1>4 DEF m, q

\* The inductive invariant: a stream is on a file that exists, and has bytes
\* left over from one write at most, which are not among those acknowledged;
\* until the game opens the archive for writing, every stream on it reads.
StreamsLive ==
  \A h \in DOMAIN streams :
    /\ Len(streams[h].pending) <= 1
    /\ disk[streams[h].file] # Absent
    /\ streams[h].file = "save" => saveSet
    /\ streams[h].pending # <<>> => Writable(streams[h].mode)

FilesTyped ==
  /\ disk \in [Paths -> Seq(Cells) \cup {Absent}]
  /\ nextHandle \in Nat
  /\ DOMAIN streams \subseteq 0 .. (nextHandle - 1)
  /\ streams \in [DOMAIN streams -> Streams]
  /\ wrote \in [DOMAIN wrote -> Cells]
  /\ DOMAIN wrote \subseteq Paths \X (Nat \ {0})

AckedIsThere ==
  \A k \in DOMAIN wrote :
    /\ disk[k[1]] # Absent /\ k[2] \in 1..Len(disk[k[1]])
    /\ disk[k[1]][k[2]] = wrote[k]

LeftOversApart ==
  \A h \in DOMAIN streams, k \in DOMAIN wrote :
    k[1] = streams[h].file => Spares(streams[h].mode, streams[h].pending, k[2])

ArchiveReadOnly ==
  /\ disk["resource"] \in {Absent, Original}
  /\ \A h \in DOMAIN streams : streams[h].file = "resource" => streams[h].mode = "rb"

FilesInv ==
  /\ FilesTyped /\ StreamsLive
  /\ clash \/ (AckedIsThere /\ LeftOversApart)
  /\ ravaged \/ ArchiveReadOnly

\* What the invariant says of one open stream.
LEMMA StreamFacts ==
  ASSUME FilesInv, NEW h \in DOMAIN streams
  PROVE  /\ h \in Nat /\ h < nextHandle
         /\ streams[h].file \in Paths /\ streams[h].mode \in PyModes
         /\ streams[h].pos \in Nat /\ streams[h].pending \in Seq(Writes)
         /\ Len(streams[h].pending) <= 1
         /\ disk[streams[h].file] \in Seq(Cells)
<1>1. streams[h] \in Streams /\ h \in 0 .. (nextHandle - 1) /\ nextHandle \in Nat
  BY DEF FilesInv, FilesTyped
<1>2. /\ streams[h].file \in Paths /\ streams[h].mode \in PyModes
      /\ streams[h].pos \in Nat /\ streams[h].pending \in Seq(Writes)
  BY <1>1 DEF Streams
<1>3. Len(streams[h].pending) <= 1 /\ disk[streams[h].file] # Absent
  BY DEF FilesInv, StreamsLive
<1>4. disk[streams[h].file] \in Seq(Cells) \cup {Absent}
  BY <1>2 DEF FilesInv, FilesTyped
<1> QED
  BY <1>1, <1>2, <1>3, <1>4

\* Every number fopen has given out is a stream or closed, and never both.
NumbersOnce ==
  /\ nextHandle \in Nat
  /\ gone \cap DOMAIN streams = {}
  /\ gone \cup DOMAIN streams = 0 .. (nextHandle - 1)

\* The invariants give the claim.
LEMMA FilesInvSound == FilesInv /\ NumbersOnce => FilesSound
<1> SUFFICES ASSUME FilesInv, NumbersOnce PROVE FilesSound
  OBVIOUS
<1>1. StreamsSound
  <2>1. \A h \in DOMAIN streams :
          /\ streams[h].pos >= 0 /\ disk[streams[h].file] # Absent
          /\ streams[h].file = "save" => saveSet
    BY StreamFacts DEF FilesInv, StreamsLive
  <2> QED
    BY <2>1 DEF NumbersOnce, StreamsSound
<1>2. AckedIsOnDisk
  BY DEF FilesInv, AckedIsThere, AckedIsOnDisk
<1>3. ArchiveIntact
  BY DEF FilesInv, ArchiveReadOnly, ArchiveIntact
<1> QED
  BY <1>1, <1>2, <1>3 DEF FilesSound

\* A step that acknowledges nothing: streams close or move, and each file is
\* as it was or with the left-over bytes of one of its streams flushed.
Settles ==
  /\ disk' \in [Paths -> Seq(Cells) \cup {Absent}]
  /\ \A f \in Paths :
       \/ disk'[f] = disk[f]
       \/ \E h \in DOMAIN streams :
            f = streams[h].file /\ disk'[f] = Flushed(h, streams[h].pending)
  /\ DOMAIN streams' \subseteq DOMAIN streams
  /\ streams' \in [DOMAIN streams' -> Streams]
  /\ \A h \in DOMAIN streams' :
       /\ streams'[h].file = streams[h].file /\ streams'[h].mode = streams[h].mode
       /\ streams'[h].pending \in {<<>>, streams[h].pending}
  /\ UNCHANGED <<saveSet, nextHandle, wrote, ravaged, clash>>

\* Flushing what a stream has left over keeps the bytes acknowledged.
LEMMA FlushKeepsAcked ==
  ASSUME FilesInv, LeftOversApart, AckedIsThere, NEW h \in DOMAIN streams,
         NEW k \in DOMAIN wrote, k[1] = streams[h].file
  PROVE  LET r == Flushed(h, streams[h].pending)
         IN  k[2] \in 1..Len(r) /\ r[k[2]] = wrote[k]
<1> DEFINE r == Flushed(h, streams[h].pending)
           c == disk[streams[h].file]
<1>1. /\ streams[h].pending \in Seq(Writes) /\ Len(streams[h].pending) <= 1
      /\ disk[streams[h].file] \in Seq(Cells)
  BY StreamFacts
<1>2. /\ r \in Seq(Cells) /\ Len(r) >= Len(c)
      /\ \A i \in 1..Len(c) : Spares(streams[h].mode, streams[h].pending, i) => r[i] = c[i]
  BY <1>1, FlushedFacts
<1>3. Spares(streams[h].mode, streams[h].pending, k[2])
  BY DEF LeftOversApart
<1>4. k[2] \in 1..Len(c) /\ c[k[2]] = wrote[k]
  BY DEF AckedIsThere
<1> HIDE DEF r
<1>5. Len(c) \in Nat /\ Len(r) \in Nat
  BY <1>1, <1>2
<1> HIDE DEF c
<1>6. k[2] \in 1..Len(r) /\ r[k[2]] = wrote[k]
  BY <1>2, <1>3, <1>4, <1>5
<1> QED
  BY <1>6 DEF r

\* A step that only settles what was pending keeps the invariant.
LEMMA SettlesKeeps == FilesInv /\ Settles => FilesInv'
<1> SUFFICES ASSUME FilesInv, Settles PROVE FilesInv'
  OBVIOUS
<1>1. FilesTyped'
  BY DEF FilesInv, FilesTyped, Settles
<1>2. ASSUME NEW h \in DOMAIN streams
      PROVE  Flushed(h, streams[h].pending) # Absent
  <2>1. Flushed(h, streams[h].pending) \in Seq(Cells)
    BY StreamFacts, FlushedFacts
  <2> QED
    BY <2>1, FilesAssumption DEF Cells
<1>3. StreamsLive'
  <2> SUFFICES ASSUME NEW h \in DOMAIN streams'
               PROVE  /\ Len(streams'[h].pending) <= 1
                      /\ disk'[streams'[h].file] # Absent
                      /\ streams'[h].file = "save" => saveSet'
                      /\ streams'[h].pending # <<>> => Writable(streams'[h].mode)
    BY DEF StreamsLive
  <2>1. /\ h \in DOMAIN streams /\ streams'[h].file = streams[h].file
        /\ streams'[h].mode = streams[h].mode /\ saveSet' = saveSet
        /\ streams'[h].pending \in {<<>>, streams[h].pending}
    BY DEF Settles
  <2>2. /\ Len(streams[h].pending) <= 1 /\ disk[streams[h].file] # Absent
        /\ streams[h].file = "save" => saveSet
        /\ streams[h].pending # <<>> => Writable(streams[h].mode)
    BY <2>1 DEF FilesInv, StreamsLive
  <2>3. streams[h].file \in Paths
    BY <2>1, StreamFacts
  <2>4. disk'[streams[h].file] # Absent
    BY <1>2, <2>2, <2>3 DEF Settles
  <2>5. Len(<<>>) = 0
    OBVIOUS
  <2> QED
    BY <2>1, <2>2, <2>4, <2>5
<1>4. clash' \/ (AckedIsThere' /\ LeftOversApart')
  <2> SUFFICES ASSUME ~clash PROVE AckedIsThere' /\ LeftOversApart'
    BY DEF Settles
  <2>0. AckedIsThere /\ LeftOversApart /\ wrote' = wrote
    BY DEF FilesInv, Settles
  <2>1. ASSUME NEW k \in DOMAIN wrote
        PROVE  disk'[k[1]] # Absent /\ k[2] \in 1..Len(disk'[k[1]]) /\ disk'[k[1]][k[2]] = wrote[k]
    <3>1. k[1] \in Paths
      BY DEF FilesInv, FilesTyped
    <3>2. CASE disk'[k[1]] = disk[k[1]]
      BY <2>0, <3>2 DEF AckedIsThere
    <3>3. ASSUME NEW h \in DOMAIN streams, k[1] = streams[h].file,
                 disk'[k[1]] = Flushed(h, streams[h].pending)
          PROVE  disk'[k[1]] # Absent /\ k[2] \in 1..Len(disk'[k[1]]) /\ disk'[k[1]][k[2]] = wrote[k]
      BY <1>2, <2>0, <3>3, FlushKeepsAcked
    <3> QED
      BY <3>1, <3>2, <3>3 DEF Settles
  <2>2. AckedIsThere'
    BY <2>0, <2>1 DEF AckedIsThere
  <2>3. LeftOversApart'
    BY <2>0 DEF LeftOversApart, Settles, Spares
  <2> QED
    BY <2>2, <2>3
<1>5. ravaged' \/ ArchiveReadOnly'
  <2> SUFFICES ASSUME ~ravaged PROVE ArchiveReadOnly'
    BY DEF Settles
  <2>0. ArchiveReadOnly
    BY DEF FilesInv
  <2>1. ASSUME NEW h \in DOMAIN streams, streams[h].file = "resource"
        PROVE  Flushed(h, streams[h].pending) = disk["resource"]
    <3>1. streams[h].pending = <<>>
      BY <2>0, <2>1 DEF ArchiveReadOnly, FilesInv, StreamsLive, Writable
    <3> QED
      BY <2>1, <3>1, StreamFacts, FlushedFacts
  <2>2. disk'["resource"] = disk["resource"]
    BY <2>1 DEF Settles, Paths
  <2>3. \A h \in DOMAIN streams' : streams'[h].file = "resource" => streams'[h].mode = "rb"
    BY <2>0 DEF ArchiveReadOnly, Settles
  <2> QED
    BY <2>0, <2>2, <2>3 DEF ArchiveReadOnly
<1> QED
  BY <1>1, <1>3, <1>4, <1>5 DEF FilesInv

\* fopen: the new stream has nothing left over, and a file it creates or cuts
\* short holds no acknowledged byte any more.
LEMMA OpenKeeps ==
  ASSUME FilesInv, NEW path \in Paths, NEW mode, HandleFopen(path, mode)
  PROVE  FilesInv'
<1> DEFINE m == PyMode(mode)
           file == Backing(path)
           kept == IF Truncates(m) \/ disk[file] = Absent THEN <<>> ELSE disk[file]
           rec == [file |-> file, mode |-> m,
                   pos |-> IF Appends(m) THEN Len(kept) ELSE 0, pending |-> <<>>]
<1>1. CASE ~(file # "none" /\ CanOpen(file, m))
  <2>1. UNCHANGED <<disk, streams, nextHandle, wrote, ravaged, saveSet, clash>>
    BY <1>1 DEF HandleFopen
  <2> QED
    BY <2>1 DEF FilesInv, FilesTyped, StreamsLive, AckedIsThere, LeftOversApart, ArchiveReadOnly, Spares
<1>2. CASE file # "none" /\ CanOpen(file, m)
  <2>1. /\ disk' = [disk EXCEPT ![file] = kept]
        /\ streams' = [h \in (DOMAIN streams) \cup {nextHandle} |->
                        IF h # nextHandle THEN streams[h] ELSE rec]
        /\ nextHandle' = nextHandle + 1
        /\ wrote' = IF Truncates(m) THEN Forget(file) ELSE wrote
        /\ ravaged' = (ravaged \/ (path # "save" /\ Writable(m)))
        /\ saveSet' = saveSet /\ clash' = clash
    BY <1>2 DEF HandleFopen
  <2>2. /\ file \in Paths /\ m \in PyModes
        /\ file = "save" => saveSet
        /\ file = "resource" => path # "save"
    BY <1>2 DEF Backing, PyMode, PyModes, Paths
  <2>3. CanOpen(file, m)
    BY <1>2
  <2>4. FilesTyped /\ StreamsLive
    BY DEF FilesInv
  <2> HIDE DEF m, file
  <2>5. kept \in Seq(Cells) /\ Len(kept) \in Nat
    <3>1. disk[file] \in Seq(Cells) \cup {Absent} /\ <<>> \in Seq(Cells)
      BY <2>2, <2>4 DEF FilesTyped
    <3>2. kept \in Seq(Cells)
      BY <3>1
    <3> HIDE DEF kept
    <3> QED
      BY <3>2
  <2>6. kept # Absent
    BY <2>5, FilesAssumption DEF Cells
  <2>7. ~Truncates(m) /\ disk[file] # Absent => kept = disk[file]
    OBVIOUS
  <2> HIDE DEF kept
  <2>8. /\ rec \in Streams /\ rec.file = file /\ rec.mode = m /\ rec.pending = <<>>
    <3>1. <<>> \in Seq(Writes)
      OBVIOUS
    <3>2. (IF Appends(m) THEN Len(kept) ELSE 0) \in Nat
      BY <2>5
    <3> QED
      BY <2>2, <3>1, <3>2 DEF Streams
  <2> HIDE DEF rec
  <2>9. nextHandle \notin DOMAIN streams
    BY <2>4 DEF FilesTyped
  <2>10. /\ DOMAIN streams' = DOMAIN streams \cup {nextHandle}
         /\ streams'[nextHandle] = rec
         /\ \A h \in DOMAIN streams : streams'[h] = streams[h]
         /\ streams' = [h \in DOMAIN streams' |-> streams'[h]]
    BY <2>1, <2>9
  <2>11. /\ disk' \in [Paths -> Seq(Cells) \cup {Absent}]
         /\ disk'[file] = kept
         /\ \A f \in Paths : f # file => disk'[f] = disk[f]
    BY <2>1, <2>2, <2>4, <2>5 DEF FilesTyped
  <2>12. /\ DOMAIN wrote' \subseteq DOMAIN wrote
         /\ \A k \in DOMAIN wrote' : wrote'[k] = wrote[k] /\ (Truncates(m) => k[1] # file)
         /\ wrote' = [k \in DOMAIN wrote' |-> wrote'[k]]
    BY <2>1, <2>4 DEF Forget, FilesTyped
  <2>13. FilesTyped'
    <3>1. \A h \in DOMAIN streams' : streams'[h] \in Streams
      BY <2>4, <2>8, <2>10 DEF FilesTyped
    <3>2. streams' \in [DOMAIN streams' -> Streams]
      BY <2>10, <3>1
    <3>3. wrote' \in [DOMAIN wrote' -> Cells] /\ DOMAIN wrote' \subseteq Paths \X (Nat \ {0})
      BY <2>4, <2>12 DEF FilesTyped
    <3>4. nextHandle' \in Nat /\ DOMAIN streams' \subseteq 0 .. (nextHandle' - 1)
      BY <2>1, <2>4, <2>10 DEF FilesTyped
    <3> QED
      BY <2>11, <3>2, <3>3, <3>4 DEF FilesTyped
  <2>14. StreamsLive'
    <3>1. ASSUME NEW h \in DOMAIN streams
          PROVE  /\ Len(streams'[h].pending) <= 1
                 /\ disk'[streams'[h].file] # Absent
                 /\ streams'[h].file = "save" => saveSet'
                 /\ streams'[h].pending # <<>> => Writable(streams'[h].mode)
      <4>1. streams[h].file \in Paths
        BY StreamFacts
      <4> QED
        BY <2>1, <2>4, <2>6, <2>10, <2>11, <4>1 DEF StreamsLive
    <3>2. Len(rec.pending) <= 1
      BY <2>8
    <3> QED
      BY <2>1, <2>2, <2>6, <2>8, <2>10, <2>11, <3>1, <3>2 DEF StreamsLive
  <2>15. clash' \/ (AckedIsThere' /\ LeftOversApart')
    <3> SUFFICES ASSUME ~clash PROVE AckedIsThere' /\ LeftOversApart'
      BY <2>1
    <3>0. AckedIsThere /\ LeftOversApart
      BY DEF FilesInv
    <3>1. ASSUME NEW k \in DOMAIN wrote'
          PROVE  disk'[k[1]] = disk[k[1]]
      <4>1. k[1] \in Paths /\ disk[k[1]] # Absent
        BY <2>4, <2>12, <3>0 DEF FilesTyped, AckedIsThere
      <4>2. k[1] = file => disk[file] # Absent /\ ~Truncates(m)
        BY <2>12, <4>1
      <4> QED
        BY <2>7, <2>11, <4>1, <4>2
    <3>2. AckedIsThere'
      BY <2>12, <3>0, <3>1 DEF AckedIsThere
    <3>3. LeftOversApart'
      BY <2>8, <2>10, <2>12, <3>0 DEF LeftOversApart, Spares
    <3> QED
      BY <3>2, <3>3
  <2>16. ravaged' \/ ArchiveReadOnly'
    <3> SUFFICES ASSUME ~ravaged, ~(path # "save" /\ Writable(m)) PROVE ArchiveReadOnly'
      BY <2>1
    <3>0. ArchiveReadOnly
      BY DEF FilesInv
    <3>1. file = "resource" => m = "rb"
      BY <2>2 DEF Writable
    <3>2. file = "resource" => kept = disk[file]
      BY <2>3, <2>7, <3>1 DEF CanOpen, Truncates, Appends
    <3>3. disk'["resource"] = disk["resource"]
      BY <2>11, <3>2 DEF Paths
    <3> QED
      BY <2>8, <2>10, <3>0, <3>1, <3>3 DEF ArchiveReadOnly
  <2> QED
    BY <2>13, <2>14, <2>15, <2>16 DEF FilesInv
<1> QED
  BY <1>1, <1>2

\* Calls that move, flush or close a stream, or that change nothing.
LEMMA StillSettles ==
  ASSUME FilesInv, UNCHANGED <<saveSet, disk, streams, nextHandle, wrote, ravaged, clash>>
  PROVE  Settles
  BY DEF Settles, FilesInv, FilesTyped

\* A flush leaves the other files alone and the flushed one well-formed.
LEMMA FlushedDisk ==
  ASSUME FilesInv, NEW h \in DOMAIN streams,
         disk' = [disk EXCEPT ![streams[h].file] = Flushed(h, streams[h].pending)]
  PROVE  /\ disk' \in [Paths -> Seq(Cells) \cup {Absent}]
         /\ \A f \in Paths :
              \/ disk'[f] = disk[f]
              \/ \E k \in DOMAIN streams :
                   f = streams[k].file /\ disk'[f] = Flushed(k, streams[k].pending)
<1>1. streams[h].file \in Paths /\ Flushed(h, streams[h].pending) \in Seq(Cells)
  BY StreamFacts, FlushedFacts
<1>2. disk \in [Paths -> Seq(Cells) \cup {Absent}]
  BY DEF FilesInv, FilesTyped
<1> QED
  BY <1>1, <1>2

\* A flush settles.
LEMMA FlushSettles ==
  ASSUME FilesInv, NEW h \in DOMAIN streams, NEW rest \in Nat, Flush(h, rest),
         UNCHANGED <<saveSet, nextHandle, wrote, ravaged, clash>>
  PROVE  Settles
<1>1. /\ disk' = [disk EXCEPT ![streams[h].file] = Flushed(h, streams[h].pending)]
      /\ streams' = [streams EXCEPT ![h].pending = <<>>, ![h].pos = rest]
  BY DEF Flush
<1>2. streams \in [DOMAIN streams -> Streams] /\ <<>> \in Seq(Writes)
  BY DEF FilesInv, FilesTyped
<1>3. /\ DOMAIN streams' = DOMAIN streams
      /\ streams' \in [DOMAIN streams' -> Streams]
      /\ \A k \in DOMAIN streams' :
           /\ streams'[k].file = streams[k].file /\ streams'[k].mode = streams[k].mode
           /\ streams'[k].pending \in {<<>>, streams[k].pending}
  BY <1>1, <1>2 DEF Streams
<1> QED
  BY <1>1, <1>3, FlushedDisk DEF Settles

\* fclose settles, also when the disk is full.
LEMMA CloseSettles ==
  ASSUME FilesInv, NEW h, NEW full, HandleFclose(h, full)
  PROVE  Settles
<1>1. /\ h \in DOMAIN streams
      /\ disk' = IF FlushFails(h, full) THEN disk
                 ELSE [disk EXCEPT ![streams[h].file] = Flushed(h, streams[h].pending)]
      /\ streams' = [k \in DOMAIN streams \ {h} |-> streams[k]]
      /\ UNCHANGED <<saveSet, nextHandle, wrote, ravaged, clash>>
  BY DEF HandleFclose
<1>2. disk \in [Paths -> Seq(Cells) \cup {Absent}] /\ streams \in [DOMAIN streams -> Streams]
  BY DEF FilesInv, FilesTyped
<1>3. /\ DOMAIN streams' \subseteq DOMAIN streams
      /\ streams' \in [DOMAIN streams' -> Streams]
      /\ \A k \in DOMAIN streams' : streams'[k] = streams[k]
  BY <1>1, <1>2
<1>4. CASE FlushFails(h, full)
  BY <1>1, <1>2, <1>3, <1>4 DEF Settles
<1>5. CASE ~FlushFails(h, full)
  BY <1>1, <1>3, <1>5, FlushedDisk DEF Settles
<1> QED
  BY <1>4, <1>5

\* fread settles.
LEMMA ReadSettles ==
  ASSUME FilesInv, NEW h, NEW n \in Nat, NEW mapped, NEW full, HandleRead(h, n, mapped, full)
  PROVE  Settles
<1>1. /\ h \in DOMAIN streams
      /\ UNCHANGED <<saveSet, nextHandle, wrote, ravaged, clash>>
      /\ UNCHANGED <<disk, streams>> \/ Flush(h, streams[h].pos + Len(Raw(h, n)))
  BY DEF HandleRead
<1>2. CASE UNCHANGED <<disk, streams>>
  BY <1>1, <1>2, StillSettles
<1>3. CASE Flush(h, streams[h].pos + Len(Raw(h, n)))
  <2> DEFINE c == Flushed(h, streams[h].pending)
             from == streams[h].pos + 1
             to == IF streams[h].pos + n < Len(c) THEN streams[h].pos + n ELSE Len(c)
  <2>1. Raw(h, n) = SubSeq(c, from, to)
    BY DEF Raw
  <2>2. c \in Seq(Cells) /\ streams[h].pos \in Nat
    BY <1>1, StreamFacts, FlushedFacts
  <2>3. Len(Raw(h, n)) \in Nat
    <3>1. Len(c) \in Nat
      BY <2>2
    <3> HIDE DEF c
    <3>2. from \in Int /\ to \in Int
      BY <2>2, <3>1
    <3> HIDE DEF from, to
    <3>3. Len(SubSeq(c, from, to)) \in Nat
      BY <3>2, <2>2
    <3> QED
      BY <2>1, <3>3
  <2>4. streams[h].pos + Len(Raw(h, n)) \in Nat
    BY <2>2, <2>3
  <2> QED
    BY <1>1, <1>3, <2>4, FlushSettles
<1> QED
  BY <1>1, <1>2, <1>3

\* fseek settles.
LEMMA SeekSettles ==
  ASSUME FilesInv, NEW h, NEW offset \in Int, NEW whence \in 0..3, NEW full,
         HandleFseek(h, offset, whence, full)
  PROVE  Settles
<1> DEFINE s == streams[h]
           origin == CASE whence = 0 -> 0 [] whence = 1 -> s.pos
                       [] OTHER -> Len(Flushed(h, s.pending))
           target == origin + offset
           rest == IF target >= 0 THEN target ELSE s.pos
<1>1. /\ h \in DOMAIN streams
      /\ UNCHANGED <<saveSet, nextHandle, wrote, ravaged, clash>>
      /\ UNCHANGED <<disk, streams>> \/ Flush(h, rest)
  BY DEF HandleFseek
<1>2. s.pos \in Nat /\ Len(Flushed(h, s.pending)) \in Nat
  <2>1. s.pos \in Nat /\ Flushed(h, s.pending) \in Seq(Cells)
    BY <1>1, StreamFacts, FlushedFacts
  <2> QED
    BY <2>1
<1>3. origin \in Nat
  BY <1>2
<1> HIDE DEF origin
<1>4. rest \in Nat
  BY <1>2, <1>3
<1> HIDE DEF rest
<1> QED
  BY <1>1, <1>4, StillSettles, FlushSettles

\* fwrite on a full disk: the bytes stay in the stream, and what they will
\* overwrite is acknowledged no longer.
LEMMA LeftOverKeeps ==
  ASSUME FilesInv, NEW h \in DOMAIN streams, NEW at \in Nat, NEW bytes \in Seq(Cells),
         NEW spots, spots = {<<streams[h].file, i>> : i \in (at + 1) .. (at + Len(bytes))},
         NEW rest \in Nat,
         Writable(streams[h].mode), streams[h].pending = <<>>,
         streams' = [streams EXCEPT ![h].pending = Append(@, <<at, bytes>>), ![h].pos = rest],
         wrote' = [k \in DOMAIN wrote \ spots |-> wrote[k]],
         UNCHANGED <<saveSet, disk, nextHandle, ravaged, clash>>
  PROVE  FilesInv'
<1> DEFINE w == <<at, bytes>>
           p == Append(<<>>, w)
<1>1. FilesTyped /\ StreamsLive
  BY DEF FilesInv
<1>2. w \in Writes /\ w[1] = at /\ w[2] = bytes
  BY DEF Writes
<1> HIDE DEF w
<1>3. p \in Seq(Writes) /\ Len(p) = 1 /\ p[1] = w
  BY <1>2
<1> HIDE DEF p
<1>4. /\ DOMAIN streams' = DOMAIN streams
      /\ streams' = [k \in DOMAIN streams' |-> streams'[k]]
      /\ \A k \in DOMAIN streams : k # h => streams'[k] = streams[k]
      /\ streams'[h] \in Streams
      /\ streams'[h].file = streams[h].file /\ streams'[h].mode = streams[h].mode
      /\ streams'[h].pending = p
  <2>1. streams[h] \in Streams /\ streams \in [DOMAIN streams -> Streams]
    BY <1>1 DEF FilesTyped
  <2>2. streams' = [streams EXCEPT ![h] = [streams[h] EXCEPT !.pending = p, !.pos = rest]]
    BY DEF w, p
  <2>3. [streams[h] EXCEPT !.pending = p, !.pos = rest] \in Streams
    BY <1>3, <2>1 DEF Streams
  <2>4. /\ [streams[h] EXCEPT !.pending = p, !.pos = rest].file = streams[h].file
        /\ [streams[h] EXCEPT !.pending = p, !.pos = rest].mode = streams[h].mode
        /\ [streams[h] EXCEPT !.pending = p, !.pos = rest].pending = p
    BY <2>1 DEF Streams
  <2> QED
    BY <2>1, <2>2, <2>3, <2>4
<1>5. FilesTyped'
  <2>1. streams' \in [DOMAIN streams' -> Streams]
    BY <1>1, <1>4 DEF FilesTyped
  <2>2. wrote' \in [DOMAIN wrote' -> Cells] /\ DOMAIN wrote' \subseteq DOMAIN wrote
    BY <1>1 DEF FilesTyped
  <2> QED
    BY <1>1, <1>4, <2>1, <2>2 DEF FilesTyped
<1>6. StreamsLive'
  <2>1. Len(streams'[h].pending) <= 1 /\ Writable(streams'[h].mode)
    <3>1. streams'[h].pending = p /\ streams'[h].mode = streams[h].mode
      BY <1>4
    <3>2. Writable(streams'[h].mode)
      BY <3>1, Zenon
    <3>3. Len(streams'[h].pending) <= 1
      <4> DEFINE n == Len(streams'[h].pending)
      <4>1. n = 1
        BY <1>3, <3>1
      <4> HIDE DEF n
      <4>2. n <= 1
        BY <4>1
      <4> QED
        BY <4>2 DEF n
    <3> QED
      BY <3>2, <3>3
  <2> QED
    BY <1>1, <1>4, <2>1 DEF StreamsLive
<1>7. clash' \/ (AckedIsThere' /\ LeftOversApart')
  <2> SUFFICES ASSUME ~clash PROVE AckedIsThere' /\ LeftOversApart'
    OBVIOUS
  <2>0. AckedIsThere /\ LeftOversApart
    BY DEF FilesInv
  <2>1. AckedIsThere'
    BY <2>0 DEF AckedIsThere
  <2>2. ASSUME NEW j \in DOMAIN streams, NEW k \in DOMAIN wrote, k \notin spots,
               k[1] = streams[j].file
        PROVE  Spares(streams[j].mode, streams'[j].pending, k[2])
    <3>1. CASE j # h
      BY <1>4, <2>0, <2>2, <3>1 DEF LeftOversApart
    <3>2. CASE j = h
      <4>1. k \in Paths \X (Nat \ {0})
        BY <1>1 DEF FilesTyped
      <4>2. k = <<k[1], k[2]>> /\ k[2] \in Nat
        BY <4>1
      <4>3. k[2] \notin (at + 1) .. (at + Len(bytes))
        BY <2>2, <3>2, <4>2
      <4>4. k[2] <= at \/ k[2] > at + Len(bytes)
        BY <4>2, <4>3
      <4>5. streams'[j].pending[1] = w
        BY <1>3, <1>4, <3>2
      <4> QED
        BY <1>2, <4>4, <4>5 DEF Spares
    <3> QED
      BY <3>1, <3>2
  <2>3. /\ \A j \in DOMAIN streams :
              streams'[j].file = streams[j].file /\ streams'[j].mode = streams[j].mode
        /\ \A k \in DOMAIN wrote' : k \in DOMAIN wrote /\ k \notin spots
    BY <1>4
  <2>4. LeftOversApart'
    <3> SUFFICES ASSUME NEW j \in DOMAIN streams', NEW k \in DOMAIN wrote', k[1] = streams'[j].file
                 PROVE  Spares(streams'[j].mode, streams'[j].pending, k[2])
      BY DEF LeftOversApart
    <3>1. j \in DOMAIN streams
      BY <1>4
    <3>2. /\ streams'[j].file = streams[j].file /\ streams'[j].mode = streams[j].mode
          /\ k \in DOMAIN wrote /\ k \notin spots
      BY <2>3, <3>1
    <3>3. Spares(streams[j].mode, streams'[j].pending, k[2])
      BY <2>2, <3>1, <3>2
    <3> QED
      BY <3>2, <3>3
  <2> QED
    BY <2>1, <2>4
<1>8. ravaged' \/ ArchiveReadOnly'
  BY <1>4 DEF FilesInv, ArchiveReadOnly
<1> QED
  BY <1>5, <1>6, <1>7, <1>8 DEF FilesInv

\* n copies of a byte.
LEMMA FillFacts ==
  ASSUME NEW n \in Nat, NEW byte \in Cells
  PROVE  LET bytes == [i \in 1..n |-> byte]
         IN  bytes \in Seq(Cells) /\ Len(bytes) = n /\ \A i \in 1..n : bytes[i] = byte
<1> DEFINE bytes == [i \in 1..n |-> byte]
<1>1. bytes \in [1..n -> Cells] /\ \A i \in 1..n : bytes[i] = byte
  OBVIOUS
<1>2. bytes \in Seq(Cells)
  BY <1>1
<1> HIDE DEF bytes
<1>3. Len(bytes) = n
  BY <1>1, <1>2
<1>4. bytes \in Seq(Cells) /\ Len(bytes) = n /\ \A i \in 1..n : bytes[i] = byte
  BY <1>1, <1>2, <1>3
<1> QED
  BY <1>4 DEF bytes

\* fwrite that answers with a count: n bytes of one value, at their place.
Acknowledges(h, n, byte, at, bytes, spots) ==
  /\ at = (IF Appends(streams[h].mode)
           THEN Len(Flushed(h, streams[h].pending)) ELSE streams[h].pos)
  /\ bytes = [i \in 1..n |-> byte]
  /\ spots = {<<streams[h].file, i>> : i \in (at + 1) .. (at + n)}
  /\ Writable(streams[h].mode)
  /\ disk' = [disk EXCEPT ![streams[h].file] =
                 Flushed(h, Append(streams[h].pending, <<at, bytes>>))]
  /\ streams' = [streams EXCEPT ![h].pending = <<>>, ![h].pos = at + n]
  /\ wrote' = [k \in DOMAIN wrote \cup spots |-> IF k \in spots THEN byte ELSE wrote[k]]
  /\ clash' = (clash \/ \E o \in DOMAIN streams \ {h} :
                  streams[o].file = streams[h].file /\ streams[o].pending # <<>>)
  /\ UNCHANGED <<saveSet, nextHandle, ravaged>>

\* A write that is acknowledged keeps the invariant.
LEMMA AckedKeeps ==
  ASSUME FilesInv, NEW h \in DOMAIN streams, NEW n \in Nat, NEW byte \in Cells,
         NEW at, NEW bytes, NEW spots, Acknowledges(h, n, byte, at, bytes, spots)
  PROVE  FilesInv'
<1> /\ at = (IF Appends(streams[h].mode)
             THEN Len(Flushed(h, streams[h].pending)) ELSE streams[h].pos)
    /\ bytes = [i \in 1..n |-> byte]
    /\ spots = {<<streams[h].file, i>> : i \in (at + 1) .. (at + n)}
    /\ Writable(streams[h].mode)
    /\ disk' = [disk EXCEPT ![streams[h].file] =
                   Flushed(h, Append(streams[h].pending, <<at, bytes>>))]
    /\ streams' = [streams EXCEPT ![h].pending = <<>>, ![h].pos = at + n]
    /\ wrote' = [k \in DOMAIN wrote \cup spots |-> IF k \in spots THEN byte ELSE wrote[k]]
    /\ clash' = (clash \/ \E o \in DOMAIN streams \ {h} :
                    streams[o].file = streams[h].file /\ streams[o].pending # <<>>)
    /\ UNCHANGED <<saveSet, nextHandle, ravaged>>
  BY DEF Acknowledges
<1> DEFINE file == streams[h].file
           m == streams[h].mode
           q == Flushed(h, streams[h].pending)
           w == <<at, bytes>>
           r == Flushed(h, Append(streams[h].pending, w))
<1>0. FilesTyped /\ StreamsLive
  BY DEF FilesInv
<1>1. /\ file \in Paths /\ streams[h].pos \in Nat
      /\ streams[h].pending \in Seq(Writes) /\ Len(streams[h].pending) <= 1
      /\ disk[file] \in Seq(Cells)
  BY StreamFacts
<1>2. q \in Seq(Cells)
  BY <1>1, FlushedFacts
<1>3. at \in Nat
  <2>1. Len(q) \in Nat
    BY <1>2
  <2> QED
    BY <1>1, <2>1
<1>4. bytes \in Seq(Cells) /\ Len(bytes) = n /\ \A i \in 1..n : bytes[i] = byte
  BY FillFacts
<1>5. w \in Writes /\ w[1] = at /\ w[2] = bytes
  BY <1>3, <1>4 DEF Writes
<1>6. r = Written(q, at, bytes)
  <2> HIDE DEF w
  <2>1. r = Put(m, q, w)
    BY <1>1, <1>5, FlushedAppend
  <2>2. Appends(m) => at = Len(q)
    OBVIOUS
  <2> QED
    BY <1>5, <2>1, <2>2 DEF Put
<1>7. /\ r \in Seq(Cells) /\ Len(r) >= Len(q) /\ Len(r) >= at + n
      /\ \A i \in 1..Len(q) : i <= at \/ i > at + n => r[i] = q[i]
      /\ \A i \in 1..n : r[at + i] = byte
  <2> HIDE DEF q, r
  <2>1. /\ r \in Seq(Cells) /\ Len(r) >= Len(q) /\ Len(r) >= at + Len(bytes)
        /\ \A i \in 1..Len(q) : i <= at \/ i > at + Len(bytes) => r[i] = q[i]
        /\ \A i \in 1..Len(bytes) : r[at + i] = bytes[i]
    <3> DEFINE v == Written(q, at, bytes)
    <3>1. /\ v \in Seq(Cells) /\ Len(v) >= Len(q) /\ Len(v) >= at + Len(bytes)
          /\ \A i \in 1..Len(q) : i <= at \/ i > at + Len(bytes) => v[i] = q[i]
          /\ \A i \in 1..Len(bytes) : v[at + i] = bytes[i]
      <4>1. at \in Nat /\ bytes \in Seq(Cells)
        BY <1>3, <1>4
      <4>2. CellsWritten(q, at, bytes)
        BY <1>2, <4>1, WrittenCells
      <4> QED
        BY <4>2 DEF CellsWritten
    <3>2. r = v
      BY <1>6
    <3> HIDE DEF v
    <3> QED
      BY <3>1, <3>2
  <2>2. Len(bytes) = n /\ \A i \in 1..n : bytes[i] = byte
    BY <1>4
  <2> QED
    BY <2>1, <2>2
<1>8. disk' = [disk EXCEPT ![file] = r]
  OBVIOUS
<1> HIDE DEF q, r, w
<1>9. disk' \in [Paths -> Seq(Cells) \cup {Absent}] /\ disk'[file] = r
      /\ \A f \in Paths : f # file => disk'[f] = disk[f]
  BY <1>0, <1>1, <1>7, <1>8 DEF FilesTyped
<1>10. r # Absent
  BY <1>7, FilesAssumption DEF Cells
<1>11. /\ DOMAIN streams' = DOMAIN streams
       /\ streams' = [k \in DOMAIN streams' |-> streams'[k]]
       /\ \A k \in DOMAIN streams : k # h => streams'[k] = streams[k]
       /\ streams'[h] \in Streams
       /\ streams'[h].file = file /\ streams'[h].mode = m
       /\ streams'[h].pending = <<>>
  <2> DEFINE s == [streams[h] EXCEPT !.pending = <<>>, !.pos = at + n]
  <2>1. streams[h] \in Streams /\ streams \in [DOMAIN streams -> Streams]
    BY <1>0 DEF FilesTyped
  <2>2. streams' = [streams EXCEPT ![h] = s]
    OBVIOUS
  <2>3. at + n \in Nat /\ <<>> \in Seq(Writes)
    BY <1>3
  <2>4. s \in Streams /\ s.file = file /\ s.mode = m /\ s.pending = <<>>
    BY <2>1, <2>3 DEF Streams
  <2> HIDE DEF s
  <2> QED
    BY <2>1, <2>2, <2>4
<1>12. ASSUME NEW k \in spots
       PROVE  /\ k \in Paths \X (Nat \ {0}) /\ k[1] = file
              /\ k[2] \in 1..Len(r) /\ r[k[2]] = byte
  <2>1. PICK i \in (at + 1) .. (at + n) : k = <<file, i>>
    BY <1>12
  <2>2. i \in Nat \ {0} /\ i - at \in 1..n /\ at + (i - at) = i
    BY <1>3, SMTT(30)
  <2>3. r[at + (i - at)] = byte
    BY <1>7, <2>2
  <2>4. Len(r) \in Nat
    BY <1>7
  <2>5. i \in 1..Len(r)
    BY <1>3, <1>7, <2>2, <2>4, SMTT(30)
  <2> QED
    BY <1>1, <2>1, <2>2, <2>3, <2>5
<1>13. FilesTyped'
  <2>1. \A k \in DOMAIN streams' : streams'[k] \in Streams
    BY <1>0, <1>11 DEF FilesTyped
  <2>2. streams' \in [DOMAIN streams' -> Streams]
    BY <1>11, <2>1
  <2>3. DOMAIN wrote' = DOMAIN wrote \cup spots /\ wrote' \in [DOMAIN wrote' -> Cells]
    BY <1>0 DEF FilesTyped
  <2>4. DOMAIN wrote' \subseteq Paths \X (Nat \ {0})
    BY <1>0, <1>12, <2>3 DEF FilesTyped
  <2> QED
    BY <1>0, <1>9, <1>11, <2>2, <2>3, <2>4 DEF FilesTyped
<1>14. StreamsLive'
  <2>1. ASSUME NEW k \in DOMAIN streams
        PROVE  /\ Len(streams'[k].pending) <= 1
               /\ disk'[streams'[k].file] # Absent
               /\ streams'[k].file = "save" => saveSet'
               /\ streams'[k].pending # <<>> => Writable(streams'[k].mode)
    <3>1. streams'[k].file = streams[k].file /\ streams'[k].mode = streams[k].mode
      BY <1>11
    <3>2. streams[k].file \in Paths
      BY StreamFacts
    <3>3. disk'[streams[k].file] # Absent
      BY <1>0, <1>9, <1>10, <3>2 DEF StreamsLive
    <3>4. streams'[k].pending = <<>> \/ streams'[k].pending = streams[k].pending
      BY <1>11
    <3>5. Len(<<>>) <= 1
      OBVIOUS
    <3>6. /\ Len(streams[k].pending) <= 1
          /\ streams[k].file = "save" => saveSet
          /\ streams[k].pending # <<>> => Writable(streams[k].mode)
      BY <1>0 DEF StreamsLive
    <3> QED
      BY <3>1, <3>3, <3>4, <3>5, <3>6
  <2> QED
    BY <1>11, <2>1 DEF StreamsLive
<1>15. clash' \/ (AckedIsThere' /\ LeftOversApart')
  <2> SUFFICES ASSUME ~clash' PROVE AckedIsThere' /\ LeftOversApart'
    OBVIOUS
  <2>0. /\ AckedIsThere /\ LeftOversApart
        /\ \A o \in DOMAIN streams : o # h /\ streams[o].file = file => streams[o].pending = <<>>
    BY DEF FilesInv
  <2>1. ASSUME NEW k \in DOMAIN wrote, k \notin spots
        PROVE  /\ disk'[k[1]] # Absent /\ k[2] \in 1..Len(disk'[k[1]])
               /\ disk'[k[1]][k[2]] = wrote[k]
    <3>1. k[1] \in Paths /\ k = <<k[1], k[2]>> /\ k[2] \in Nat
      <4>1. k \in Paths \X (Nat \ {0})
        BY <1>0 DEF FilesTyped
      <4> QED
        BY <4>1
    <3>2. CASE k[1] # file
      BY <1>9, <2>0, <3>1, <3>2 DEF AckedIsThere
    <3>3. CASE k[1] = file
      <4>1. k[2] \in 1..Len(q) /\ q[k[2]] = wrote[k]
        BY <2>0, <3>3, FlushKeepsAcked DEF q
      <4>2. k[2] \notin (at + 1) .. (at + n)
        BY <2>1, <3>1, <3>3
      <4>3. k[2] <= at \/ k[2] > at + n
        BY <1>3, <3>1, <4>2
      <4>4. r[k[2]] = wrote[k]
        BY <1>7, <4>1, <4>3
      <4>5. Len(q) \in Nat /\ Len(r) \in Nat
        BY <1>2, <1>7
      <4>6. k[2] \in 1..Len(r)
        BY <1>7, <4>1, <4>5
      <4> QED
        BY <1>9, <1>10, <3>3, <4>4, <4>6
    <3> QED
      BY <3>2, <3>3
  <2>2. ASSUME NEW k \in DOMAIN wrote'
        PROVE  /\ disk'[k[1]] # Absent /\ k[2] \in 1..Len(disk'[k[1]])
               /\ disk'[k[1]][k[2]] = wrote'[k]
    <3>1. CASE k \in spots
      BY <1>9, <1>10, <1>12, <3>1
    <3>2. CASE k \notin spots
      <4>1. k \in DOMAIN wrote /\ wrote'[k] = wrote[k]
        BY <3>2
      <4> QED
        BY <2>1, <3>2, <4>1
    <3> QED
      BY <3>1, <3>2
  <2>3. AckedIsThere'
    BY <2>2 DEF AckedIsThere
  <2>4. LeftOversApart'
    <3> SUFFICES ASSUME NEW j \in DOMAIN streams', NEW k \in DOMAIN wrote', k[1] = streams'[j].file
                 PROVE  Spares(streams'[j].mode, streams'[j].pending, k[2])
      BY DEF LeftOversApart
    <3>1. CASE j = h
      BY <1>11, <3>1 DEF Spares
    <3>2. CASE j # h
      <4>1. j \in DOMAIN streams /\ streams'[j] = streams[j]
        BY <1>11, <3>2
      <4>2. CASE k \in spots
        <5>1. streams[j].pending = <<>>
          BY <1>12, <2>0, <3>2, <4>1, <4>2
        <5> QED
          BY <4>1, <5>1 DEF Spares
      <4>3. CASE k \notin spots
        <5>1. k \in DOMAIN wrote
          BY <4>3
        <5> QED
          BY <2>0, <4>1, <5>1 DEF LeftOversApart
      <4> QED
        BY <4>2, <4>3
    <3> QED
      BY <3>1, <3>2
  <2> QED
    BY <2>3, <2>4
<1>16. ravaged' \/ ArchiveReadOnly'
  <2> SUFFICES ASSUME ~ravaged PROVE ArchiveReadOnly'
    OBVIOUS
  <2>0. ArchiveReadOnly
    BY DEF FilesInv
  <2>1. file # "resource"
    BY <2>0 DEF ArchiveReadOnly, Writable
  <2>2. disk'["resource"] = disk["resource"]
    BY <1>9, <2>1 DEF Paths
  <2>3. \A k \in DOMAIN streams : streams'[k].file = streams[k].file /\ streams'[k].mode = streams[k].mode
    BY <1>11
  <2> QED
    BY <1>11, <2>0, <2>2, <2>3 DEF ArchiveReadOnly
<1> QED
  BY <1>13, <1>14, <1>15, <1>16 DEF FilesInv

\* fwrite keeps it, acknowledged or not.
LEMMA WriteKeeps ==
  ASSUME FilesInv, NEW h, NEW size \in Sizes, NEW nmemb \in Sizes, NEW byte \in Byte,
         NEW mapped, NEW full, HandleFwrite(h, size, nmemb, byte, mapped, full)
  PROVE  FilesInv'
<1> DEFINE n == size * nmemb
           s == streams[h]
           at == IF Appends(s.mode) THEN Len(Flushed(h, s.pending)) ELSE s.pos
           bytes == [i \in 1..n |-> byte]
           spots == {<<s.file, i>> : i \in (at + 1) .. (at + n)}
<1>1. n \in Nat /\ byte \in Cells
  <2>1. size \in Nat /\ nmemb \in Nat /\ byte \in Cells
    BY FilesAssumption DEF Cells
  <2>2. \A a, b \in Nat : a * b \in Nat
    OBVIOUS
  <2> QED
    BY <2>1, <2>2
<1>2. h \in DOMAIN streams /\ UNCHANGED <<saveSet, nextHandle, ravaged>>
  BY DEF HandleFwrite
<1>3. CASE n = 0 \/ ~Writable(s.mode) \/ ~mapped
  <2>1. UNCHANGED <<saveSet, disk, streams, nextHandle, wrote, ravaged, clash>>
    BY <1>3 DEF HandleFwrite
  <2> QED
    BY <2>1, StillSettles, SettlesKeeps
<1>4. CASE ~(n = 0 \/ ~Writable(s.mode) \/ ~mapped) /\ full
  <2>1. /\ s.pending = <<>> /\ Writable(s.mode)
        /\ streams' = [streams EXCEPT ![h].pending = Append(@, <<at, bytes>>), ![h].pos = at + n]
        /\ wrote' = [k \in DOMAIN wrote \ spots |-> wrote[k]]
        /\ UNCHANGED <<saveSet, disk, nextHandle, ravaged, clash>>
    BY <1>2, <1>4 DEF HandleFwrite
  <2>2. at \in Nat
    <3>1. s.pos \in Nat /\ Flushed(h, s.pending) \in Seq(Cells)
      BY <1>2, StreamFacts, FlushedFacts
    <3>2. Len(Flushed(h, s.pending)) \in Nat
      BY <3>1
    <3> QED
      BY <3>1, <3>2
  <2> HIDE DEF n, at
  <2>3. bytes \in Seq(Cells) /\ Len(bytes) = n
    BY <1>1, FillFacts
  <2>4. at + n \in Nat
    BY <1>1, <2>2
  <2>5. spots = {<<streams[h].file, i>> : i \in (at + 1) .. (at + Len(bytes))}
    BY <2>3
  <2> HIDE DEF bytes, spots
  <2> QED
    BY <1>2, <2>1, <2>2, <2>3, <2>4, <2>5, LeftOverKeeps
<1>5. CASE ~(n = 0 \/ ~Writable(s.mode) \/ ~mapped) /\ ~full
  <2>1. /\ Writable(s.mode)
        /\ disk' = [disk EXCEPT ![s.file] = Flushed(h, Append(s.pending, <<at, bytes>>))]
        /\ streams' = [streams EXCEPT ![h].pending = <<>>, ![h].pos = at + n]
        /\ wrote' = [k \in DOMAIN wrote \cup spots |-> IF k \in spots THEN byte ELSE wrote[k]]
        /\ clash' = (clash \/ \E o \in DOMAIN streams \ {h} :
                       streams[o].file = s.file /\ streams[o].pending # <<>>)
    BY <1>2, <1>5 DEF HandleFwrite
  <2>2. at = (IF Appends(s.mode) THEN Len(Flushed(h, s.pending)) ELSE s.pos)
    OBVIOUS
  <2>3. bytes = [i \in 1..n |-> byte]
    OBVIOUS
  <2>4. spots = {<<s.file, i>> : i \in (at + 1) .. (at + n)}
    OBVIOUS
  <2> HIDE DEF n, at, bytes, spots
  <2>5. saveSet' = saveSet /\ nextHandle' = nextHandle /\ ravaged' = ravaged
    BY <1>2
  <2>6. n \in Nat /\ byte \in Cells /\ h \in DOMAIN streams
    BY <1>1, <1>2
  <2>7. Acknowledges(h, n, byte, at, bytes, spots)
    BY <2>1, <2>2, <2>3, <2>4, <2>5 DEF Acknowledges
  <2> QED
    BY <2>6, <2>7, AckedKeeps
<1> QED
  BY <1>3, <1>4, <1>5

\* No call of the game's stdio breaks the invariant.
LEMMA FilesStep == FilesInv /\ FilesNext => FilesInv'
<1> SUFFICES ASSUME FilesInv, FilesNext PROVE FilesInv'
  OBVIOUS
<1>1. Sizes \subseteq Nat /\ Offsets \subseteq Int
  BY FilesAssumption
<1>2. ASSUME NEW path \in Paths, NEW mode \in GuestModes, HandleFopen(path, mode)
      PROVE  FilesInv'
  BY <1>2, OpenKeeps
<1>3. ASSUME NEW h \in 0..MaxHandles, NEW full \in BOOLEAN, HandleFclose(h, full)
      PROVE  FilesInv'
  BY <1>3, CloseSettles, SettlesKeeps
<1>4. ASSUME UNCHANGED fileVars PROVE FilesInv'
  BY <1>4, StillSettles, SettlesKeeps DEF fileVars
<1>5. ASSUME NEW h \in 0..MaxHandles, HandleUnknown(h)
      PROVE  FilesInv'
  BY <1>4, <1>5 DEF HandleUnknown
<1>6. ASSUME NEW h \in 0..MaxHandles, NEW full \in BOOLEAN, HandleFgetc(h, full)
      PROVE  FilesInv'
  BY <1>6, ReadSettles, SettlesKeeps DEF HandleFgetc
<1>7. ASSUME NEW h \in 0..MaxHandles, NEW full \in BOOLEAN, NEW size \in Sizes, NEW nmemb \in Sizes,
             NEW mapped \in BOOLEAN, HandleFread(h, size, nmemb, mapped, full)
      PROVE  FilesInv'
  <2>1. size * nmemb \in Nat
    <3>1. size \in Nat /\ nmemb \in Nat
      BY <1>1
    <3> QED
      BY <3>1
  <2>2. CASE UNCHANGED fileVars
    BY <1>4, <2>2
  <2>3. CASE HandleRead(h, size * nmemb, mapped, full)
    BY <2>1, <2>3, ReadSettles, SettlesKeeps
  <2> QED
    BY <1>7, <2>2, <2>3 DEF HandleFread
<1>8. ASSUME NEW h \in 0..MaxHandles, NEW full \in BOOLEAN, NEW size \in Sizes, NEW nmemb \in Sizes,
             NEW mapped \in BOOLEAN, NEW byte \in Byte,
             HandleFwrite(h, size, nmemb, byte, mapped, full)
      PROVE  FilesInv'
  BY <1>8, WriteKeeps
<1>9. ASSUME NEW h \in 0..MaxHandles, NEW full \in BOOLEAN, NEW offset \in Offsets, NEW whence \in 0..3,
             HandleFseek(h, offset, whence, full)
      PROVE  FilesInv'
  <2>1. offset \in Int
    BY <1>1
  <2> QED
    BY <1>9, <2>1, SeekSettles, SettlesKeeps
<1> QED
  BY <1>2, <1>3, <1>5, <1>6, <1>7, <1>8, <1>9 DEF FilesNext

\* A call opens the next number, closes an open one, or leaves the numbers.
LEMMA NumbersMove ==
  ASSUME FilesNext
  PROVE  \/ /\ DOMAIN streams' = DOMAIN streams \cup {nextHandle}
            /\ nextHandle' = nextHandle + 1 /\ gone' = gone
         \/ \E h \in DOMAIN streams :
              /\ DOMAIN streams' = DOMAIN streams \ {h}
              /\ nextHandle' = nextHandle /\ gone' = gone \cup {h}
         \/ UNCHANGED <<DOMAIN streams, nextHandle, gone>>
<1> DEFINE Kept == UNCHANGED <<DOMAIN streams, nextHandle, gone>>
<1>1. ASSUME NEW path, NEW mode, HandleFopen(path, mode)
      PROVE  \/ /\ DOMAIN streams' = DOMAIN streams \cup {nextHandle}
                /\ nextHandle' = nextHandle + 1 /\ gone' = gone
             \/ Kept
  BY <1>1 DEF HandleFopen
<1>2. ASSUME NEW h, NEW full, HandleFclose(h, full)
      PROVE  /\ h \in DOMAIN streams /\ DOMAIN streams' = DOMAIN streams \ {h}
             /\ nextHandle' = nextHandle /\ gone' = gone \cup {h}
  BY <1>2 DEF HandleFclose
<1>3. ASSUME UNCHANGED fileVars PROVE Kept
  BY <1>3 DEF fileVars
<1>4. ASSUME NEW h, NEW rest, Flush(h, rest) PROVE DOMAIN streams' = DOMAIN streams
  BY <1>4 DEF Flush
<1>5. ASSUME NEW h, NEW n, NEW mapped, NEW full, HandleRead(h, n, mapped, full)
      PROVE  Kept
  BY <1>4, <1>5 DEF HandleRead
<1>6. ASSUME NEW h, NEW size, NEW nmemb, NEW mapped, NEW full,
             HandleFread(h, size, nmemb, mapped, full)
      PROVE  Kept
  BY <1>3, <1>5, <1>6 DEF HandleFread
<1>7. ASSUME NEW h, NEW full, HandleFgetc(h, full) PROVE Kept
  BY <1>5, <1>7 DEF HandleFgetc
<1>8. ASSUME NEW h, NEW size, NEW nmemb, NEW byte, NEW mapped, NEW full,
             HandleFwrite(h, size, nmemb, byte, mapped, full)
      PROVE  Kept
  BY <1>8 DEF HandleFwrite
<1>9. ASSUME NEW h, NEW offset, NEW whence, NEW full, HandleFseek(h, offset, whence, full)
      PROVE  Kept
  BY <1>4, <1>9 DEF HandleFseek
<1>10. ASSUME NEW h, HandleUnknown(h) PROVE Kept
  BY <1>3, <1>10 DEF HandleUnknown
<1> HIDE DEF Kept
<1> QED
  BY <1>1, <1>2, <1>6, <1>7, <1>8, <1>9, <1>10 DEF FilesNext, Kept

\* No call uses a number twice.
LEMMA NumbersStep == NumbersOnce /\ FilesNext => NumbersOnce'
<1> SUFFICES ASSUME NumbersOnce, FilesNext PROVE NumbersOnce'
  OBVIOUS
<1> DEFINE numbers == gone \cup DOMAIN streams
<1>1. /\ nextHandle \in Nat /\ numbers = 0 .. (nextHandle - 1)
      /\ gone \cap DOMAIN streams = {}
  BY DEF NumbersOnce
<1>2. CASE /\ DOMAIN streams' = DOMAIN streams \cup {nextHandle}
           /\ nextHandle' = nextHandle + 1 /\ gone' = gone
  <2>1. nextHandle \notin numbers
    BY <1>1
  <2>2. numbers \cup {nextHandle} = 0 .. nextHandle
    BY <1>1
  <2>3. nextHandle' \in Nat /\ nextHandle' - 1 = nextHandle
    BY <1>1, <1>2
  <2>4. gone' \cup DOMAIN streams' = numbers \cup {nextHandle}
    BY <1>2
  <2>5. gone' \cap DOMAIN streams' = {}
    BY <1>1, <1>2, <2>1
  <2> HIDE DEF numbers
  <2> QED
    BY <2>2, <2>3, <2>4, <2>5 DEF NumbersOnce
<1>3. CASE \E h \in DOMAIN streams :
             /\ DOMAIN streams' = DOMAIN streams \ {h}
             /\ nextHandle' = nextHandle /\ gone' = gone \cup {h}
  BY <1>1, <1>3 DEF NumbersOnce
<1>4. CASE UNCHANGED <<DOMAIN streams, nextHandle, gone>>
  BY <1>1, <1>4 DEF NumbersOnce
<1> QED
  BY <1>2, <1>3, <1>4, NumbersMove

\* A step of another part keeps it.
LEMMA FilesUntouched ==
  FilesInv /\ NumbersOnce /\ UNCHANGED fileVars => FilesInv' /\ NumbersOnce'
<1> SUFFICES ASSUME FilesInv, NumbersOnce, UNCHANGED fileVars
             PROVE  FilesInv' /\ NumbersOnce'
  OBVIOUS
<1>1. FilesInv'
  BY StillSettles, SettlesKeeps DEF fileVars
<1>2. NumbersOnce'
  BY DEF NumbersOnce, fileVars
<1> QED
  BY <1>1, <1>2

\* The run starts with no stream, and with files that are as they were found.
LEMMA FilesStart ==
  ASSUME streams = <<>>, nextHandle = 0, gone = {}, wrote = <<>>,
         disk \in [Paths -> {Absent, Original}]
  PROVE  FilesInv /\ NumbersOnce
<1>1. DOMAIN streams = {} /\ DOMAIN wrote = {}
  OBVIOUS
<1>2. disk \in [Paths -> Seq(Cells) \cup {Absent}]
  BY FilesAssumption DEF Cells
<1>3. FilesTyped
  BY <1>1, <1>2 DEF FilesTyped
<1>4. StreamsLive /\ AckedIsThere /\ LeftOversApart
  BY <1>1 DEF StreamsLive, AckedIsThere, LeftOversApart
<1>5. ArchiveReadOnly
  BY <1>1 DEF ArchiveReadOnly, Paths
<1>6. NumbersOnce
  BY <1>1 DEF NumbersOnce
<1> QED
  BY <1>3, <1>4, <1>5, <1>6 DEF FilesInv

-----------------------------------------------------------------------------
(* The services together.                                                  *)

ServicesInv == HeapInv /\ FilesInv /\ NumbersOnce /\ MemInv

\* The memory starts with the invariant.
LEMMA MemStart == MemInit => MemInv
<1> SUFFICES ASSUME MemInit PROVE MemInv
  OBVIOUS
<1>1. call.op = "none" /\ mem \in [0 .. (MemTop - 1) -> Bytes]
  BY DEF MemInit
<1>2. Bytes \subseteq Nat
  BY MemoryAssumption
<1> QED
  BY <1>1, <1>2 DEF MemInv, StrchrFindsFirst, DivisionAgrees

\* Whichever service the game calls, all three start in a state of theirs.
LEMMA ServicesStart == ServicesInit => ServicesInv
<1> SUFFICES ASSUME ServicesInit PROVE ServicesInv
  OBVIOUS
<1>1. HeapInit
  <2>1. ASSUME HeapAtRest PROVE HeapInit
    <3>1. \E seed \in BOOLEAN :
            IF seed /\ RoundUp(SeedSize) <= HeapSize
            THEN /\ next = HeapBase + RoundUp(SeedSize)
                 /\ blocks = {[at |-> HeapBase, size |-> RoundUp(SeedSize), kind |-> "seed"]}
            ELSE next = HeapBase /\ blocks = {}
      <4>1. FALSE \in BOOLEAN /\ next = HeapBase /\ blocks = {}
        BY <2>1 DEF HeapAtRest
      <4> QED
        BY <4>1
    <3>2. util \in [Utils -> [bitmap : Bitmaps \cup {0}, pos : {0}]]
      BY <2>1 DEF HeapAtRest
    <3> QED
      BY <2>1, <3>1, <3>2 DEF HeapInit, HeapAtRest
  <2> QED
    BY <2>1 DEF ServicesInit
<1>2. /\ streams = <<>> /\ nextHandle = 0 /\ gone = {} /\ wrote = <<>>
      /\ disk \in [Paths -> {Absent, Original}]
  <2>1. ASSUME FilesInit PROVE disk \in [Paths -> {Absent, Original}]
    BY <2>1 DEF FilesInit
  <2>2. ASSUME FilesAtRest PROVE disk \in [Paths -> {Absent, Original}]
    BY <2>2 DEF FilesAtRest
  <2> QED
    BY <2>1, <2>2 DEF ServicesInit, FilesInit, FilesAtRest
<1>3. MemInv
  <2>1. ASSUME MemAtRest PROVE MemInit
    BY <2>1, MemoryAssumption DEF MemAtRest, MemInit
  <2> QED
    BY <2>1, MemStart DEF ServicesInit
<1> QED
  BY <1>1, <1>2, <1>3, HeapStart, FilesStart DEF ServicesInv

\* A step of one service leaves the other two alone.
LEMMA ServicesStep == ServicesInv /\ [ServicesNext]_servicesVars => ServicesInv'
<1> SUFFICES ASSUME HeapInv, FilesInv, NumbersOnce, MemInv, [ServicesNext]_servicesVars
             PROVE  HeapInv' /\ FilesInv' /\ NumbersOnce' /\ MemInv'
  BY DEF ServicesInv
<1>1. HeapNext \/ UNCHANGED heapVars
  BY DEF ServicesNext, servicesVars
<1>2. FilesNext \/ UNCHANGED fileVars
  BY DEF ServicesNext, servicesVars
<1>3. MemNext \/ UNCHANGED memVars
  BY DEF ServicesNext, servicesVars
<1> QED
  BY <1>1, <1>2, <1>3, HeapStep, FilesStep, NumbersStep, FilesUntouched, MemStep, MemUntouched

\* The invariant of the three services holds in every state.
THEOREM ServicesInvariant == ServicesSpec => []ServicesInv
  BY ServicesStart, ServicesStep, PTL DEF ServicesSpec

\* For every heap, screen and set of sizes: blocks are disjoint, aligned and
\* inside the heap, a vtable is only ever at the start of an object or a
\* bitmap buffer, and what is cached for a bitmap is right for ever.
THEOREM HeapSoundHolds == ServicesSpec => []HeapSound
<1>1. ServicesInv => HeapSound
  BY DEF ServicesInv, HeapInv
<1> QED
  BY <1>1, ServicesInvariant, PTL

\* For every screen and all coordinates: a pixel cursor is in the buffer of
\* its own bitmap and in no other block.
THEOREM CursorsIsolatedHolds == ServicesSpec => []CursorsIsolated
<1>1. ServicesInv => CursorsIsolated
  BY PlacedIsIsolated DEF ServicesInv
<1> QED
  BY <1>1, ServicesInvariant, PTL

\* For all contents, modes, sizes and offsets, however often the disk is full:
\* the archive is damaged by no stream on the save file, every byte fwrite
\* acknowledged is on disk, and no number fclose has closed is a stream again; for every memory
\* and every width of a word, strchr finds what is in the string and nothing
\* behind it, and quotient and remainder agree.
THEOREM LibrarySoundHolds == ServicesSpec => []LibrarySound
<1>1. ServicesInv => LibrarySound
  BY FilesInvSound DEF ServicesInv, MemInv, LibrarySound
<1> QED
  BY <1>1, ServicesInvariant, PTL

\* For every memory and all addresses and counts: what the game had copied
\* arrived whole, even onto itself, and damaged nothing else; and a bitmap's
\* address is never another one later.
THEOREM CallsKeepTheirWordHolds == ServicesSpec => CallsKeepTheirWord
<1>1. ServicesInv /\ [ServicesNext]_servicesVars => [CopiesKept]_memVars
  BY MemStep DEF ServicesInv, ServicesNext, servicesVars
<1>2. ServicesInv /\ [ServicesNext]_servicesVars => [CacheGrows]_heapVars
  BY AddressStep DEF ServicesInv, ServicesNext, servicesVars
<1>3. CopiesArrive <=> [][CopiesKept]_memVars
  BY PTL DEF CopiesArrive, CopiesKept, StrcpyKept, MoveKept
<1>4. AddressIsStable <=> [][CacheGrows]_heapVars
  BY PTL DEF AddressIsStable, CacheGrows
<1> QED
  BY <1>1, <1>2, <1>3, <1>4, ServicesInvariant, PTL DEF ServicesSpec, CallsKeepTheirWord
=============================================================================
