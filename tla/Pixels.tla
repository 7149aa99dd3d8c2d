------------------------------- MODULE Pixels -------------------------------
(***************************************************************************)
(* The pure parts of the fast drawing paths: the 4-bit blitter of          *)
(* runtime/blit4.py with its verify mode, and from runtime/region_view.py  *)
(* the placement of sprites, the part of the region that is shown, and the *)
(* walk along the list of entities.  Each is computed for an arbitrary     *)
(* input and compared with a reference definition.                         *)
(*                                                                         *)
(* A word holds Pixels pixels of PixelBits bits: 8 of 4 in the code.       *)
(***************************************************************************)
EXTENDS Integers, Sequences, SequencesExt, FiniteSetsExt

CONSTANTS
  PixelBits, Pixels,  \* 4 and 8 in the code
  MaxRows,            \* bound: rows of a blit
  WriteCap,           \* 8000 in the code: writes recorded in verify mode
  Tile,               \* 8 in the code: width of a tile in pixels
  Columns, Positions, CanvasSize,   \* sprites: tiles in a row, where, on what
  RegionSizes, ViewSizes, Cameras, MinView, HalfScreen,
  Nodes, EntityCap    \* the list of entities; 512 in the code

\* Sprites may lie off the canvas, and the camera outside the region; no node
\* of the list of entities has the address 0.
ASSUME PixelAssumption ==
  /\ Tile \in Nat \ {0} /\ MinView \in Nat \ {0}
  /\ CanvasSize \in Nat /\ HalfScreen \in Nat
  /\ Columns \subseteq Nat /\ Positions \subseteq Int
  /\ IsFiniteSet(Nodes) /\ 0 \notin Nodes /\ EntityCap \in Nat \ {0}
  /\ RegionSizes \subseteq Nat /\ ViewSizes \subseteq Nat /\ Cameras \subseteq Int

VARIABLES
  job,     \* what is computed, with its input
  engine,  \* verify mode: the writes of the game's own blitter so far
  pend,    \* verify mode: st["pend"], the expected writes and those seen
  mismatch \* verify mode: st["mismatch"] # 0

pixelVars == <<job, engine, pend, mismatch>>

-----------------------------------------------------------------------------
(* blit4.compute                                                           *)

Shift(n) == 2 ^ (PixelBits * n)
WordBitCount == PixelBits * Pixels
Words == 0 .. (2 ^ WordBitCount - 1)

\* Bytes of a word, the lowest first; a byte holds two pixels, the low first.
Byte(w, k) == (w \div Shift(2 * (k - 1))) % Shift(2)
Pair(b) == <<b % Shift(1), b \div Shift(1)>>

\* A row of whole words is written byte by byte, through the table p2.
FastRow(w) == FlattenSeq([k \in 1 .. (Pixels \div 2) |-> Pair(Byte(w, k))])

\* A row of count pixels: the topmost pixels of the shifted word.
GeneralRow(v, count) ==
  [j \in 1..count |-> (v \div Shift(Pixels - count + j - 1)) % Shift(1)]

\* compute handles what the registers of a known call can hold.
Handled(b) == b.rows > 0 /\ b.count <= Pixels /\ b.shift < WordBitCount

\* The rows of a blit that are written, each with the pixels it gets: a row
\* whose shifted word is zero is left alone.
Rows(b) ==
  LET v(i) == (b.words[i] * 2 ^ b.shift) % 2 ^ WordBitCount
      fast == b.shift = 0 /\ b.count = Pixels
  IN  {<<i, IF fast THEN FastRow(b.words[i]) ELSE GeneralRow(v(i), b.count)>> :
         i \in {j \in 1..b.rows : v(j) # 0}}

\* The writes in the order in which they are made, pixel by pixel.
Writes(b) ==
  FlattenSeq([i \in 1..b.rows |->
    LET row == {r \in Rows(b) : r[1] = i}
    IN  IF row = {} THEN <<>>
        ELSE [j \in 1..b.count |-> <<i, j, (CHOOSE r \in row : TRUE)[2][j]>>]])

Blits == [rows : {MaxRows}, count : 0 .. (Pixels + 1), shift : 0..WordBitCount,
          words : [1..MaxRows -> Words]]
         \cup [rows : {0}, count : {Pixels}, shift : {0}, words : {[i \in 1..MaxRows |-> 0]}]

-----------------------------------------------------------------------------
(* Verify mode: the game's blitter runs, and its writes are compared.      *)

\* The original blitter, by its definition: bit shift, then pixel by pixel
\* from the pixel at which the drawn part of the word begins.
BitAt(w, k) == (w \div 2 ^ k) % 2
EnginePixel(b, i, j) ==
  FoldSet(LAMBDA k, acc : acc + BitAt(b.words[i], k)
                                * 2 ^ (k + b.shift - PixelBits * (Pixels - b.count + j - 1)),
          0, {k \in 0 .. (WordBitCount - 1) :
                k + b.shift \in PixelBits * (Pixels - b.count + j - 1)
                                .. (PixelBits * (Pixels - b.count + j) - 1)})

EngineWrites(b) ==
  FlattenSeq([i \in 1..b.rows |->
    IF \A k \in 0 .. (WordBitCount - 1 - b.shift) : BitAt(b.words[i], k) = 0 THEN <<>>
    ELSE [j \in 1..b.count |-> <<i, j, EnginePixel(b, i, j)>>]])

NoPend == [on |-> FALSE, expected |-> <<>>, got |-> <<>>]

\* on_setup: a call compute does not handle leaves no expectation.
OnSetup(b) ==
  /\ job.kind = "none"
  /\ job' = [kind |-> "blit", in |-> b]
  /\ pend' = IF Handled(b) THEN [on |-> TRUE, expected |-> Writes(b), got |-> <<>>] ELSE pend
  /\ engine' = IF Handled(b) THEN EngineWrites(b) ELSE <<>>
  /\ UNCHANGED mismatch

\* on_write: what the blitter writes is kept up to a cap.
OnWrite ==
  /\ engine # <<>>
  /\ engine' = Tail(engine)
  /\ pend' = IF pend.on /\ Len(pend.got) < WriteCap
             THEN [pend EXCEPT !.got = Append(@, Head(engine))] ELSE pend
  /\ UNCHANGED <<job, mismatch>>

OnExit ==
  /\ job.kind = "blit" /\ engine = <<>> /\ pend.on
  /\ mismatch' = (mismatch \/ pend.expected # pend.got)
  /\ pend' = NoPend
  /\ UNCHANGED <<job, engine>>

-----------------------------------------------------------------------------
(* Sprites, view and entities.                                             *)

\* A nine-bit coordinate of the sprite table, taken as signed.
SignedX(x) == IF x >= 256 THEN x - 512 ELSE x

\* Where tile i of n goes: mirrored sprites are laid out from the far end.
TileAt(s, i) == (IF s.flip THEN s.n - 1 - i ELSE i) * Tile + s.at

\* Clipping forgets one side of the canvas.
ClipRightOnly(dx) == dx .. (IF dx + Tile < CanvasSize THEN dx + Tile - 1 ELSE CanvasSize - 1)

\* The part of a tile that lies on the canvas, empty when none does.
Clip(dx) == (IF dx > 0 THEN dx ELSE 0)
            .. (IF dx + Tile < CanvasSize THEN dx + Tile - 1 ELSE CanvasSize - 1)

\* What a row of tiles paints: at each place of the canvas, which place of
\* which tile of the sprite.
Painted(s) ==
  UNION {{<<p, i, IF s.flip THEN Tile - 1 - (p - TileAt(s, i)) ELSE p - TileAt(s, i)>> :
            p \in Clip(TileAt(s, i))} : i \in 0 .. (s.n - 1)}

Sprites == [n : Columns, at : Positions, flip : BOOLEAN]

\* The part of the region that is shown: a view that keeps the camera in its
\* middle where the region allows it.
View(v) ==
  LET wanted == IF v.view = 0 THEN v.region ELSE v.view
      width == Max({MinView, Min({v.region, wanted})})
  IN  [from |-> Max({0, Min({v.region - width, v.camera + HalfScreen - width \div 2})}),
       width |-> width]

Views == [region : RegionSizes, view : ViewSizes, camera : Cameras]

\* entity_count: along the links until null, an unreadable node (NIL of
\* next), a node seen before, or the cap.
EntityCount(links, head) ==
  FoldLeft(LAMBDA acc, i :
             IF acc.cur = 0 \/ acc.cur \in acc.seen THEN acc
             ELSE IF links[acc.cur] = -1 THEN [acc EXCEPT !.seen = @ \cup {acc.cur}, !.cur = 0]
             ELSE [n |-> acc.n + 1, seen |-> acc.seen \cup {acc.cur}, cur |-> links[acc.cur]],
           [n |-> 0, seen |-> {}, cur |-> head], [i \in 1..EntityCap |-> i]).n

Lists == [links : [Nodes -> Nodes \cup {0, -1}], head : Nodes]

Compute(kind, input) ==
  /\ job.kind = "none"
  /\ job' = [kind |-> kind, in |-> input]
  /\ UNCHANGED <<engine, pend, mismatch>>

PixelInit ==
  /\ job = [kind |-> "none"] /\ engine = <<>> /\ pend = NoPend /\ mismatch = FALSE

PixelNext ==
  \/ \E b \in Blits : OnSetup(b)
  \/ OnWrite
  \/ OnExit
  \/ \E s \in Sprites : Compute("sprite", s)
  \/ \E v \in Views : Compute("view", v)
  \/ \E l \in Lists : Compute("list", l)

-----------------------------------------------------------------------------
(* Properties.                                                             *)

\* The host's blitter and the definition of the original write the same
\* pixels in the same order for every word, shift and width the code accepts,
\* by the fast table as by the general loop, and verify mode says so
\* (blit4.py:54-85, 105-126).
BlitAgrees == ~mismatch

\* Mirrored or not, a sprite paints every place of the canvas it covers
\* exactly once, nothing outside, and a mirrored one is the mirror image.
SpritesAreWhole ==
  job.kind = "sprite" =>
    LET s == job.in
        covered == {p \in 0 .. (CanvasSize - 1) : p >= s.at /\ p < s.at + s.n * Tile}
        source(p) == IF s.flip THEN s.n * Tile - 1 - (p - s.at) ELSE p - s.at
    IN  {<<t[1], t[2] * Tile + t[3]>> : t \in Painted(s)} = {<<p, source(p)>> : p \in covered}

\* The view stays inside the region, and shows the middle of the game's own
\* screen whenever that lies in the region (region_view.py:290-303).
ViewStaysInside ==
  job.kind = "view" =>
    LET v == View(job.in)  middle == job.in.camera + HalfScreen
    IN  /\ v.from >= 0 /\ v.from + v.width <= job.in.region
        /\ middle \in 0 .. (job.in.region - 1) => middle \in v.from .. (v.from + v.width - 1)

\* Counting entities ends, on a list with a cycle as on one without, and
\* counts every node it can pass once.
EntitiesCountedOnce ==
  job.kind = "list" =>
    LET n == EntityCount(job.in.links, job.in.head)
    IN  n <= Cardinality(Nodes) /\ n <= EntityCap /\ (n = 0 => job.in.links[job.in.head] = -1)

PixelsRight == BlitAgrees /\ SpritesAreWhole /\ ViewStaysInside /\ EntitiesCountedOnce
=============================================================================
