----------------------------- MODULE Presenter -----------------------------
(***************************************************************************)
(* Complete-frame presentation: the presenters of runtime/presenter.py     *)
(* and the region viewer of runtime/region_view.py, whose decoded image is *)
(* cached under a key read from the region tables of the game.  A caller   *)
(* outside the repository's run loop calls present at a frame boundary,    *)
(* poll_input in between, and close at the end.                            *)
(*                                                                         *)
(* What is drawn is abstract: a frame is the instruction it was taken at,  *)
(* a decoded layer the version of the data it was decoded from.            *)
(***************************************************************************)
EXTENDS Integers, Sequences, SequencesExt, FiniteSets

CONSTANTS
  FrameLimits,   \* max_frames arguments, 0 for no limit
  MaxRecords,    \* max_records of the pygame presenter, 2048 in the code
  LayerTables,   \* states of one entry of the region tables, see LayerType
  Layers,        \* entries looked at, 4 in the code
  MaxCalls       \* bound: calls of present

\* max_frames is made a natural number by the constructor; the record cap of
\* the classes that have one is positive (0 would mean: none).
ASSUME PresenterAssumption == FrameLimits \subseteq Nat /\ MaxRecords \in Nat \ {0}

PresenterKinds == {"raw", "pygame", "region-view"}

\* An entry of the region tables: map and record pointers (0 for null), the
\* width, and the version of everything the pointers lead to.
LayerType == [map : Nat, tab : Nat, width : Nat, data : Nat]

VARIABLES
  kind, maxFrames,  \* the presenter and its limit
  show,             \* frames_seen, frames_presented, closed and records
  region,           \* the region tables of the game
  readable,         \* guest memory that can be read: nothing, the tables, all
  renderer,         \* RegionRenderer: key, and the layers of its image
  shownKey,         \* ghost: the key of the tables when an image was last drawn
  written           \* ghost: frames the raw presenter stored as files

frameVars == <<kind, maxFrames, show, region, readable, renderer, shownKey, written>>

NoKey == <<>>
NoImage == [of |-> NoKey, layers |-> {}]

-----------------------------------------------------------------------------
(* FramePresenter.present                                                  *)

\* Only the newest max_records records are kept; the raw presenter keeps all.
Trimmed(records) ==
  IF kind # "raw" /\ Len(records) > MaxRecords
  THEN SubSeq(records, Len(records) - MaxRecords + 1, Len(records))
  ELSE records

Full(s) == maxFrames # 0 /\ s.presented >= maxFrames

\* A frame that is refused, or whose drawing raises, is seen and not recorded.
BasePresent(s, insn, fails) ==
  LET seen == [s EXCEPT !.seen = @ + 1]
  IN  IF s.closed \/ Full(s) \/ fails THEN seen
      ELSE [seen EXCEPT !.presented = @ + 1,
              !.records = Trimmed(Append(@, [frame |-> s.presented, insn |-> insn]))]

Present(fails) ==
  /\ kind \in {"raw", "pygame"}
  /\ show.seen < MaxCalls
  /\ show' = BasePresent(show, show.seen, fails)
  /\ written' = IF kind = "raw" /\ show'.presented # show.presented
                THEN written \cup {show.presented} ELSE written
  /\ UNCHANGED <<kind, maxFrames, region, readable, renderer, shownKey>>

-----------------------------------------------------------------------------
(* RegionRenderer.build and RegionViewPresenter.present                    *)

RegionKey == [i \in 1..Layers |-> <<region[i].map, region[i].width>>]

Usable == {i \in 1..Layers : /\ region[i].map # 0 /\ region[i].tab # 0
                             /\ region[i].width \in 1..256}

\* Decoding reads what the tables point to, and composes the layers over one
\* another: layers of two sizes cannot be.
DecodeRaises ==
  readable # "all" \/ \E i, j \in Usable : region[i].width # region[j].width

Decoded == [key |-> RegionKey,
            image |-> [of |-> RegionKey, layers |-> {<<i, region[i].data>> : i \in Usable}]]

Outcome(ok, r) == [ok |-> ok, renderer |-> r]

\* The key is stored before anything is decoded.
BuildKeyFirst ==
  IF readable = "none" THEN Outcome(FALSE, renderer)
  ELSE IF RegionKey = renderer.key /\ renderer.image # NoImage THEN Outcome(TRUE, renderer)
  ELSE IF DecodeRaises \/ Usable = {} THEN Outcome(FALSE, [renderer EXCEPT !.key = RegionKey])
  ELSE Outcome(TRUE, Decoded)

\* The image is decoded again only when the key changes; a build that fails
\* or finds no layer leaves the renderer as it was.
Build ==
  IF readable = "none" THEN Outcome(FALSE, renderer)
  ELSE IF RegionKey = renderer.key /\ renderer.image # NoImage THEN Outcome(TRUE, renderer)
  ELSE IF DecodeRaises \/ Usable = {} THEN Outcome(FALSE, renderer)
  ELSE Outcome(TRUE, Decoded)

\* Only frames of module 1 show the region; every other frame, and a region
\* that cannot be built, is presented like any frame, and is counted as seen
\* once more.  The limit of frames does not hold for region frames.
RegionPresent(module, fails) ==
  LET seen == [show EXCEPT !.seen = @ + 1]
      built == IF module = 1 THEN Build ELSE Outcome(FALSE, renderer)
  IN  /\ kind = "region-view"
      /\ show.seen < MaxCalls
      /\ IF show.closed
         THEN show' = seen /\ UNCHANGED <<renderer, shownKey>>
         ELSE /\ renderer' = built.renderer
              /\ IF built.ok
                 THEN show' = [seen EXCEPT !.presented = @ + 1] /\ shownKey' = RegionKey
                 ELSE show' = BasePresent(seen, show.seen, fails) /\ UNCHANGED shownKey
      /\ UNCHANGED <<kind, maxFrames, region, readable, written>>

-----------------------------------------------------------------------------
\* A QUIT event of the toolkit, or the caller's close.
Close ==
  /\ show' = [show EXCEPT !.closed = TRUE]
  /\ UNCHANGED <<kind, maxFrames, region, readable, renderer, shownKey, written>>

\* The game loads, moves or frees a layer, and maps or unmaps what it needs.
GameChangesRegion(i, layer) ==
  /\ kind = "region-view"
  /\ region' = [region EXCEPT ![i] = layer]
  /\ UNCHANGED <<kind, maxFrames, show, readable, renderer, shownKey, written>>

GameChangesMemory(r) ==
  /\ kind = "region-view"
  /\ readable' = r
  /\ UNCHANGED <<kind, maxFrames, show, region, renderer, shownKey, written>>

FrameInit ==
  /\ kind \in PresenterKinds
  /\ maxFrames \in FrameLimits
  /\ show = [seen |-> 0, presented |-> 0, closed |-> FALSE, records |-> <<>>]
  /\ region \in [1..Layers -> {CHOOSE l \in LayerTables : l.map = 0}]
  /\ readable = "none"
  /\ renderer = [key |-> NoKey, image |-> NoImage]
  /\ shownKey = NoKey
  /\ written = {}

FrameNext ==
  \/ \E fails \in BOOLEAN : Present(fails) \/ \E module \in {1, 5} : RegionPresent(module, fails)
  \/ Close
  \/ \E i \in 1..Layers, layer \in LayerTables : GameChangesRegion(i, layer)
  \/ \E r \in {"none", "tables", "all"} : GameChangesMemory(r)

FrameSpec == FrameInit /\ [][FrameNext]_frameVars

-----------------------------------------------------------------------------
(* Properties.                                                             *)

\* The records are the newest frames in their order: all that were stored as
\* files for the raw presenter, whose manifest must name every file exactly
\* once, and the last max_records for the others; drawing that fails, a limit
\* and a close in between leave no hole (presenter.py:80-103, 131-149).
RecordsAreNewest ==
  LET r == show.records
  IN  /\ \A i \in 1 .. (Len(r) - 1) : r[i].frame < r[i + 1].frame /\ r[i].insn < r[i + 1].insn
      /\ kind = "raw" => /\ Len(r) = show.presented
                         /\ written = {r[i].frame : i \in DOMAIN r}
      /\ kind # "raw" => Len(r) <= MaxRecords
      /\ kind # "region-view" =>
           /\ \A i \in DOMAIN r : r[i].frame = show.presented - Len(r) + i - 1
           /\ maxFrames # 0 => show.presented <= maxFrames

\* The image drawn is one decoded for the tables of that frame, although the
\* tables change between frames, decoding may fail half way, and a renderer
\* that failed is asked again (region_view.py:97-148).
ImageMatchesKey ==
  /\ renderer.image.of = renderer.key
  /\ shownKey # NoKey => renderer.image.of = shownKey
=============================================================================
