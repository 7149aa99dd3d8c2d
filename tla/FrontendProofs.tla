--------------------------- MODULE FrontendProofs ---------------------------
(***************************************************************************)
(* Theorems about the host side (Frontend): the frames and the images of   *)
(* the presenters, the bytes the asset hooks put into the game's buffers,  *)
(* and the clock.  The parts of the module share no variable, so that the  *)
(* invariant of each is kept by the steps of the others.                   *)
(***************************************************************************)
EXTENDS Frontend, EventsProofs, FiniteSetTheorems, TLAPS

-----------------------------------------------------------------------------
(* Presenter: sequences of records.                                        *)

RecordType == [frame : Nat, insn : Nat]

ShowType == [seen : Nat, presented : Nat, closed : BOOLEAN, records : Seq(RecordType)]

\* The counters and records of a presenter after a frame.
Counters(c, s, n, r) == [c EXCEPT !.seen = s, !.presented = n, !.records = r]

\* What the presenter does to its counters keeps their types.
LEMMA ShowChanged ==
  ASSUME NEW c \in ShowType, NEW s \in Nat, NEW n \in Nat, NEW r \in Seq(RecordType)
  PROVE  /\ Counters(c, s, n, r) \in ShowType
         /\ Counters(c, s, n, r).seen = s
         /\ Counters(c, s, n, r).presented = n
         /\ Counters(c, s, n, r).records = r
<1> DEFINE S == Seq(RecordType)
           b == [c EXCEPT !.seen = s, !.presented = n, !.records = r]
<1>1. r \in S
  OBVIOUS
<1>2. c \in [seen : Nat, presented : Nat, closed : BOOLEAN, records : S]
  BY DEF ShowType
<1> HIDE DEF S
<1>3. b \in [seen : Nat, presented : Nat, closed : BOOLEAN, records : S]
  BY <1>1, <1>2
<1>4. b.seen = s /\ b.presented = n /\ b.records = r
  BY <1>1, <1>2
<1> QED
  BY <1>3, <1>4 DEF ShowType, S, Counters

\* Records in the order in which their frames were presented.
Increasing(r) ==
  \A i \in 1 .. (Len(r) - 1) : r[i].frame < r[i + 1].frame /\ r[i].insn < r[i + 1].insn

\* Every record is of a frame before frame n, taken before instruction t.
Before(r, n, t) == \A i \in DOMAIN r : r[i].frame < n /\ r[i].insn < t

\* The records are of the frames just before frame n, without a hole.
Newest(r, n) == \A i \in DOMAIN r : r[i].frame = n - Len(r) + i - 1

\* The frame and the instruction of a record are numbers.
LEMMA RecordsTyped ==
  ASSUME NEW r \in Seq(RecordType)
  PROVE  \A i \in DOMAIN r : r[i].frame \in Nat /\ r[i].insn \in Nat
<1>1. \A i \in DOMAIN r : r[i] \in RecordType
  OBVIOUS
<1> QED
  BY <1>1 DEF RecordType

\* Recording one more frame keeps the order, and no hole appears.
LEMMA RecordAdded ==
  ASSUME NEW r \in Seq(RecordType), NEW n \in Nat, NEW t \in Nat,
         Increasing(r), Before(r, n, t)
  PROVE  LET q == Append(r, [frame |-> n, insn |-> t])
         IN  /\ q \in Seq(RecordType) /\ Len(q) = Len(r) + 1
             /\ Increasing(q) /\ Before(q, n + 1, t + 1)
             /\ Newest(r, n) => Newest(q, n + 1)
<1> DEFINE x == [frame |-> n, insn |-> t]
           q == Append(r, x)
<1>1. x \in RecordType /\ x.frame = n /\ x.insn = t
  BY DEF RecordType
<1> HIDE DEF x
<1>2. q \in Seq(RecordType) /\ Len(q) = Len(r) + 1 /\ Len(r) \in Nat
  BY <1>1
<1>3. \A i \in 1..Len(r) : q[i] = r[i] /\ r[i] \in RecordType
  BY <1>1
<1>4. q[Len(r) + 1] = x
  BY <1>1
<1>5. DOMAIN r = 1..Len(r) /\ DOMAIN q = 1 .. (Len(r) + 1)
  BY <1>2
<1> HIDE DEF q
<1>6. \A i \in 1..Len(r) : r[i].frame \in Nat /\ r[i].insn \in Nat
  BY <1>3 DEF RecordType
<1>7. Increasing(q)
  <2> SUFFICES ASSUME NEW i \in 1..Len(r)
               PROVE  q[i].frame < q[i + 1].frame /\ q[i].insn < q[i + 1].insn
    BY <1>2 DEF Increasing
  <2>1. CASE i = Len(r)
    BY <2>1, <1>1, <1>3, <1>4, <1>5 DEF Before
  <2>2. CASE i < Len(r)
    <3>1. i \in 1 .. (Len(r) - 1) /\ i + 1 \in 1..Len(r)
      BY <2>2, <1>2
    <3> QED
      BY <3>1, <1>3 DEF Increasing
  <2> QED
    BY <2>1, <2>2, <1>2
<1>8. Before(q, n + 1, t + 1)
  BY <1>1, <1>2, <1>3, <1>4, <1>5, <1>6 DEF Before
<1>9. Newest(r, n) => Newest(q, n + 1)
  BY <1>1, <1>2, <1>3, <1>4, <1>5, <1>6 DEF Newest
<1> QED
  BY <1>2, <1>7, <1>8, <1>9 DEF q, x

\* Dropping the oldest records keeps all of this.
LEMMA OldestDropped ==
  ASSUME NEW q \in Seq(RecordType), NEW n \in Nat, NEW t \in Nat,
         NEW m \in Nat, m < Len(q), m # 0,
         Increasing(q), Before(q, n, t)
  PROVE  LET s == SubSeq(q, Len(q) - m + 1, Len(q))
         IN  /\ s \in Seq(RecordType) /\ Len(s) = m
             /\ Increasing(s) /\ Before(s, n, t)
             /\ Newest(q, n) => Newest(s, n)
<1> DEFINE d == Len(q) - m
           s == SubSeq(q, d + 1, Len(q))
<1>1. d \in Nat /\ Len(q) \in Nat /\ d + m = Len(q)
  OBVIOUS
<1>2. s \in Seq(RecordType) /\ Len(s) = m
  BY <1>1
<1>3. \A i \in 1..m : s[i] = q[d + i]
  <2>1. \A i \in 1..m : s[i] = q[(d + 1) + i - 1]
    BY <1>1, SubSeqProperties
  <2> QED
    BY <2>1, <1>1
<1>4. DOMAIN s = 1..m /\ DOMAIN q = 1..Len(q)
  BY <1>2
<1> HIDE DEF s, d
<1>5. Increasing(s)
  <2> SUFFICES ASSUME NEW i \in 1 .. (m - 1)
               PROVE  s[i].frame < s[i + 1].frame /\ s[i].insn < s[i + 1].insn
    BY <1>2 DEF Increasing
  <2>1. d + i \in 1 .. (Len(q) - 1) /\ (d + i) + 1 = d + (i + 1)
    BY <1>1
  <2> QED
    BY <2>1, <1>3 DEF Increasing
<1>6. Before(s, n, t)
  <2> SUFFICES ASSUME NEW i \in 1..m PROVE s[i].frame < n /\ s[i].insn < t
    BY <1>4 DEF Before
  <2> QED
    BY <1>1, <1>3, <1>4 DEF Before
<1>7. Newest(q, n) => Newest(s, n)
  <2> SUFFICES ASSUME Newest(q, n), NEW i \in 1..m
               PROVE  s[i].frame = n - m + i - 1
    BY <1>2, <1>4 DEF Newest
  <2>1. s[i] = q[d + i] /\ d + i \in DOMAIN q
    BY <1>1, <1>3, <1>4
  <2>2. q[d + i].frame = n - Len(q) + (d + i) - 1
    BY <2>1 DEF Newest
  <2> QED
    BY <2>1, <2>2, <1>1, SMTT(30)
<1> QED
  BY <1>2, <1>5, <1>6, <1>7 DEF s, d

-----------------------------------------------------------------------------
(* Presenter: the inductive invariant.                                     *)

\* What the records of a presenter with counters c say.
Ledgered(c) ==
  /\ c \in ShowType
  /\ Increasing(c.records)
  /\ Before(c.records, c.presented, c.seen)
  /\ kind # "raw" => Len(c.records) <= MaxRecords
  /\ kind = "raw" => Len(c.records) = c.presented
  /\ kind # "region-view" => /\ Newest(c.records, c.presented)
                             /\ maxFrames # 0 => c.presented <= maxFrames

\* The frames of the records are those stored as files.
Stored == kind = "raw" => written = {show.records[i].frame : i \in DOMAIN show.records}

FrameInv ==
  /\ kind \in PresenterKinds /\ maxFrames \in Nat
  /\ Ledgered(show)
  /\ Stored
  /\ ImageMatchesKey

\* Trimming to the newest max_records.
LEMMA TrimmedRecords ==
  ASSUME NEW q \in Seq(RecordType), NEW n \in Nat, NEW t \in Nat,
         Increasing(q), Before(q, n, t)
  PROVE  /\ Trimmed(q) \in Seq(RecordType)
         /\ Increasing(Trimmed(q)) /\ Before(Trimmed(q), n, t)
         /\ Newest(q, n) => Newest(Trimmed(q), n)
         /\ kind # "raw" => Len(Trimmed(q)) <= MaxRecords
         /\ kind = "raw" => Trimmed(q) = q
<1>1. MaxRecords \in Nat /\ MaxRecords # 0 /\ Len(q) \in Nat
  BY PresenterAssumption
<1>2. CASE kind # "raw" /\ Len(q) > MaxRecords
  <2>1. Trimmed(q) = SubSeq(q, Len(q) - MaxRecords + 1, Len(q))
    BY <1>2 DEF Trimmed
  <2>2. /\ Trimmed(q) \in Seq(RecordType) /\ Len(Trimmed(q)) = MaxRecords
        /\ Increasing(Trimmed(q)) /\ Before(Trimmed(q), n, t)
        /\ Newest(q, n) => Newest(Trimmed(q), n)
    BY <2>1, <1>1, <1>2, OldestDropped
  <2> QED
    BY <2>2, <1>1, <1>2
<1>3. CASE ~(kind # "raw" /\ Len(q) > MaxRecords)
  <2>1. Trimmed(q) = q
    BY <1>3 DEF Trimmed
  <2> QED
    BY <2>1, <1>1, <1>3
<1> QED
  BY <1>2, <1>3

\* present as the base class has it, on counters already counted once or not:
\* whatever is refused or raises, the records stay those of the presented
\* frames (presenter.py:80-103).
LEMMA BasePresentRecords ==
  ASSUME kind \in PresenterKinds, maxFrames \in Nat,
         NEW c, Ledgered(c), NEW t \in Nat, NEW fails \in BOOLEAN,
         t <= c.seen, Before(c.records, c.presented, t)
  PROVE  /\ Ledgered(BasePresent(c, t, fails))
         /\ \/ /\ BasePresent(c, t, fails).presented = c.presented
               /\ BasePresent(c, t, fails).records = c.records
            \/ /\ BasePresent(c, t, fails).presented = c.presented + 1
               /\ kind = "raw" => BasePresent(c, t, fails).records
                    = Append(c.records, [frame |-> c.presented, insn |-> t])
<1> DEFINE b == BasePresent(c, t, fails)
           q == Append(c.records, [frame |-> c.presented, insn |-> t])
<1>1. /\ c.seen \in Nat /\ c.presented \in Nat /\ c.closed \in BOOLEAN
      /\ c.records \in Seq(RecordType) /\ Len(c.records) \in Nat
  BY DEF Ledgered, ShowType
<1>2. CASE c.closed \/ Full(c) \/ fails
  <2>1. /\ b \in ShowType /\ b.records = c.records
        /\ b.presented = c.presented /\ b.seen = c.seen + 1
    BY <1>1, <1>2 DEF BasePresent, Ledgered, ShowType
  <2>2. Before(c.records, c.presented, c.seen + 1)
    <3>1. \A i \in DOMAIN c.records : c.records[i].insn \in Nat
      BY <1>1, RecordsTyped
    <3> QED
      BY <3>1, <1>1 DEF Before, Ledgered
  <2> HIDE DEF b
  <2>3. Ledgered(b)
    BY <2>1, <2>2 DEF Ledgered
  <2> QED
    BY <2>1, <2>3 DEF b
<1>3. CASE ~(c.closed \/ Full(c) \/ fails)
  <2>1. /\ q \in Seq(RecordType) /\ Len(q) = Len(c.records) + 1
        /\ Increasing(q) /\ Before(q, c.presented + 1, t + 1)
        /\ Newest(c.records, c.presented) => Newest(q, c.presented + 1)
    BY <1>1, RecordAdded DEF Ledgered
  <2>2. b = [c EXCEPT !.seen = c.seen + 1, !.presented = c.presented + 1,
               !.records = Trimmed(q)]
    BY <1>3 DEF BasePresent, Ledgered, ShowType
  <2> HIDE DEF q
  <2>3. /\ Trimmed(q) \in Seq(RecordType)
        /\ Increasing(Trimmed(q)) /\ Before(Trimmed(q), c.presented + 1, t + 1)
        /\ Newest(q, c.presented + 1) => Newest(Trimmed(q), c.presented + 1)
        /\ kind # "raw" => Len(Trimmed(q)) <= MaxRecords
        /\ kind = "raw" => Trimmed(q) = q
    BY <1>1, <2>1, TrimmedRecords
  <2>4. /\ b \in ShowType /\ b.records = Trimmed(q)
        /\ b.presented = c.presented + 1 /\ b.seen = c.seen + 1
    <3>1. c \in ShowType
      BY DEF Ledgered
    <3> DEFINE tr == Trimmed(q)
    <3>2. tr \in Seq(RecordType)
      BY <2>3
    <3> HIDE DEF tr
    <3>3. b = [c EXCEPT !.seen = c.seen + 1, !.presented = c.presented + 1, !.records = tr]
      BY <2>2 DEF tr
    <3> DEFINE s1 == c.seen + 1
               n1 == c.presented + 1
    <3>5. s1 \in Nat /\ n1 \in Nat
      BY <1>1
    <3>6. b = Counters(c, s1, n1, tr)
      BY <3>3 DEF Counters, s1, n1
    <3> HIDE DEF b, s1, n1
    <3>8. Counters(c, s1, n1, tr) \in ShowType
      BY <3>1, <3>2, <3>5, ShowChanged
    <3>9. Counters(c, s1, n1, tr).records = tr
      BY <3>1, <3>2, <3>5, ShowChanged
    <3>10. Counters(c, s1, n1, tr).seen = s1
      BY <3>1, <3>2, <3>5, ShowChanged
    <3>11. Counters(c, s1, n1, tr).presented = n1
      BY <3>1, <3>2, <3>5, ShowChanged
    <3>7. b \in ShowType /\ b.records = tr /\ b.presented = n1 /\ b.seen = s1
      BY <3>6, <3>8, <3>9, <3>10, <3>11
    <3>4. /\ b \in ShowType /\ b.records = tr
          /\ b.presented = c.presented + 1 /\ b.seen = c.seen + 1
      BY <3>7 DEF s1, n1
    <3> QED
      BY <3>4 DEF tr
  <2> HIDE DEF b
  <2>5. Before(b.records, b.presented, b.seen)
    <3>1. \A i \in DOMAIN Trimmed(q) : Trimmed(q)[i].insn \in Nat
      BY <2>3, RecordsTyped
    <3> QED
      BY <3>1, <2>3, <2>4, <1>1 DEF Before
  <2>6. kind # "region-view" /\ maxFrames # 0 => b.presented <= maxFrames
    BY <2>4, <1>1, <1>3 DEF Full
  <2>7. Ledgered(b)
    BY <2>1, <2>3, <2>4, <2>5, <2>6 DEF Ledgered
  <2> QED
    BY <2>3, <2>4, <2>7 DEF b, q
<1> QED
  BY <1>2, <1>3

\* The presenter starts with it, whatever kind it is.
LEMMA FrameInvStart == FrameInit \/ FrameAtRest => FrameInv
<1> SUFFICES ASSUME FrameInit \/ FrameAtRest PROVE FrameInv
  OBVIOUS
<1>1. kind \in PresenterKinds /\ maxFrames \in Nat
  <2>1. CASE FrameInit
    BY <2>1, PresenterAssumption DEF FrameInit
  <2>2. CASE FrameAtRest
    BY <2>2 DEF FrameAtRest, PresenterKinds
  <2> QED
    BY <2>1, <2>2
<1>2. /\ show.seen = 0 /\ show.presented = 0 /\ show.records = <<>>
      /\ show \in ShowType
  <2> DEFINE S == Seq(RecordType)
  <2>1. <<>> \in S
    OBVIOUS
  <2> HIDE DEF S
  <2>2. \E c \in BOOLEAN :
           show = [seen |-> 0, presented |-> 0, closed |-> c, records |-> <<>>]
    BY DEF FrameInit, FrameAtRest
  <2>3. show \in [seen : Nat, presented : Nat, closed : BOOLEAN, records : S]
    BY <2>1, <2>2
  <2> QED
    BY <2>2, <2>3 DEF ShowType, S
<1>3. Ledgered(show)
  <2>1. MaxRecords \in Nat
    BY PresenterAssumption
  <2> QED
    BY <1>1, <1>2, <2>1 DEF Ledgered, Increasing, Before, Newest
<1>4. Stored
  BY <1>2 DEF Stored, FrameInit, FrameAtRest
<1>5. ImageMatchesKey
  BY DEF ImageMatchesKey, FrameInit, FrameAtRest, NoImage
<1> QED
  BY <1>1, <1>3, <1>4, <1>5 DEF FrameInv

\* Recording a frame of the raw presenter adds its file to those stored.
LEMMA FramesOfAppended ==
  ASSUME NEW r \in Seq(RecordType), NEW n \in Nat, NEW t \in Nat
  PROVE  LET q == Append(r, [frame |-> n, insn |-> t])
         IN  {q[i].frame : i \in DOMAIN q} = {r[i].frame : i \in DOMAIN r} \cup {n}
<1> DEFINE x == [frame |-> n, insn |-> t]
           q == Append(r, x)
<1>1. x \in RecordType /\ x.frame = n
  BY DEF RecordType
<1> HIDE DEF x
<1>2. q \in Seq(RecordType) /\ Len(q) = Len(r) + 1 /\ Len(r) \in Nat
  BY <1>1
<1>3. \A i \in 1..Len(r) : q[i] = r[i]
  BY <1>1
<1>4. q[Len(r) + 1] = x
  BY <1>1
<1>5. DOMAIN r = 1..Len(r) /\ DOMAIN q = 1..Len(r) \cup {Len(r) + 1}
  BY <1>2
<1> HIDE DEF q
<1> QED
  <2>1. {q[i].frame : i \in DOMAIN q} = {r[i].frame : i \in DOMAIN r} \cup {n}
    BY <1>1, <1>3, <1>4, <1>5
  <2> QED
    BY <2>1 DEF q, x

\* present of the raw and of the pygame presenter keeps it.
LEMMA PresentKept ==
  ASSUME FrameInv, NEW fails \in BOOLEAN, Present(fails)
  PROVE  FrameInv'
<1>1. /\ kind' = kind /\ maxFrames' = maxFrames /\ kind \in {"raw", "pygame"}
      /\ kind \in PresenterKinds /\ maxFrames \in Nat
      /\ show.seen \in Nat /\ show.presented \in Nat /\ show.records \in Seq(RecordType)
      /\ Ledgered(show)
  BY DEF FrameInv, Present, Ledgered, ShowType
<1>2. Before(show.records, show.presented, show.seen)
  BY <1>1 DEF Ledgered
<1>3. show' = BasePresent(show, show.seen, fails)
  BY DEF Present
<1>4. /\ Ledgered(show')
      /\ \/ show'.presented = show.presented /\ show'.records = show.records
         \/ /\ show'.presented = show.presented + 1
            /\ kind = "raw" => show'.records
                 = Append(show.records, [frame |-> show.presented, insn |-> show.seen])
  BY <1>1, <1>2, <1>3, BasePresentRecords
<1>5. Ledgered(show)'
  BY <1>1, <1>4 DEF Ledgered
<1>6. Stored'
  <2> SUFFICES ASSUME kind = "raw"
               PROVE  written' = {show'.records[i].frame : i \in DOMAIN show'.records}
    BY <1>1 DEF Stored
  <2>1. written = {show.records[i].frame : i \in DOMAIN show.records}
    BY DEF FrameInv, Stored
  <2>2. CASE show'.presented = show.presented /\ show'.records = show.records
    BY <2>1, <2>2 DEF Present
  <2>3. CASE show'.presented = show.presented + 1
    <3>1. show'.presented # show.presented
      BY <2>3, <1>1
    <3>2. written' = written \cup {show.presented}
      BY <3>1 DEF Present
    <3>3. show'.records = Append(show.records, [frame |-> show.presented, insn |-> show.seen])
      BY <3>1, <1>4
    <3> DEFINE q == Append(show.records, [frame |-> show.presented, insn |-> show.seen])
    <3>4. {q[i].frame : i \in DOMAIN q}
            = {show.records[i].frame : i \in DOMAIN show.records} \cup {show.presented}
      BY <1>1, FramesOfAppended
    <3> HIDE DEF q
    <3>5. show'.records = q
      BY <3>3 DEF q
    <3> QED
      BY <3>2, <3>4, <3>5, <2>1
  <2> QED
    BY <2>2, <2>3, <1>4
<1>7. ImageMatchesKey'
  BY DEF FrameInv, ImageMatchesKey, Present
<1> QED
  BY <1>1, <1>5, <1>6, <1>7 DEF FrameInv

\* What build answers: an image decoded for the tables as they are, or the
\* renderer as it was.
LEMMA BuildIsForTheTables ==
  ASSUME ImageMatchesKey
  PROVE  /\ Build.renderer.image.of = Build.renderer.key
         /\ Build.ok => Build.renderer.image.of = RegionKey
         /\ ~Build.ok => Build.renderer = renderer
         /\ Build.ok \in BOOLEAN
<1>1. CASE readable = "none"
  BY <1>1 DEF Build, Outcome, ImageMatchesKey
<1>2. CASE readable # "none" /\ RegionKey = renderer.key /\ renderer.image # NoImage
  BY <1>2 DEF Build, Outcome, ImageMatchesKey
<1>3. CASE /\ readable # "none" /\ ~(RegionKey = renderer.key /\ renderer.image # NoImage)
           /\ (DecodeRaises \/ Usable = {})
  BY <1>3 DEF Build, Outcome, ImageMatchesKey
<1>4. CASE /\ readable # "none" /\ ~(RegionKey = renderer.key /\ renderer.image # NoImage)
           /\ ~(DecodeRaises \/ Usable = {})
  <2>1. Build = Outcome(TRUE, Decoded)
    BY <1>4 DEF Build
  <2> QED
    BY <2>1 DEF Outcome, Decoded
<1> QED
  BY <1>1, <1>2, <1>3, <1>4

\* present of the region view keeps it, drawn or not.
LEMMA RegionPresentKept ==
  ASSUME FrameInv, NEW module \in {1, 5}, NEW fails \in BOOLEAN, RegionPresent(module, fails)
  PROVE  FrameInv'
<1> DEFINE seen == [show EXCEPT !.seen = @ + 1]
           built == IF module = 1 THEN Build ELSE Outcome(FALSE, renderer)
<1>1. /\ kind' = kind /\ maxFrames' = maxFrames /\ kind = "region-view"
      /\ written' = written /\ region' = region
      /\ kind \in PresenterKinds /\ maxFrames \in Nat /\ ImageMatchesKey
      /\ show \in ShowType
      /\ show.seen \in Nat /\ show.presented \in Nat /\ show.records \in Seq(RecordType)
      /\ Ledgered(show)
  BY DEF FrameInv, RegionPresent, Ledgered, ShowType
<1>2. /\ seen = Counters(show, show.seen + 1, show.presented, show.records)
      /\ [seen EXCEPT !.presented = @ + 1]
           = Counters(show, show.seen + 1, show.presented + 1, show.records)
  BY <1>1 DEF Counters, ShowType
<1>3. /\ built.renderer.image.of = built.renderer.key
      /\ built.ok => built.renderer.image.of = RegionKey
      /\ ~built.ok => built.renderer = renderer
  BY <1>1, BuildIsForTheTables DEF Outcome, ImageMatchesKey
<1>4. \/ show' = seen /\ renderer' = renderer /\ shownKey' = shownKey
      \/ /\ show' = [seen EXCEPT !.presented = @ + 1]
         /\ built.ok /\ renderer' = built.renderer /\ shownKey' = RegionKey
      \/ /\ show' = BasePresent(seen, show.seen, fails)
         /\ ~built.ok /\ renderer' = built.renderer /\ shownKey' = shownKey
  BY DEF RegionPresent
<1> HIDE DEF built
<1>5. ImageMatchesKey'
  BY <1>1, <1>3, <1>4 DEF ImageMatchesKey
<1>6. \A i \in DOMAIN show.records :
         show.records[i].frame \in Nat /\ show.records[i].insn \in Nat
  BY <1>1, RecordsTyped
<1>7. Before(show.records, show.presented, show.seen)
  BY <1>1 DEF Ledgered
<1>8. Ledgered(seen)
  <2> DEFINE s1 == show.seen + 1
             n1 == show.presented
             r1 == show.records
  <2>1. s1 \in Nat /\ n1 \in Nat /\ r1 \in Seq(RecordType)
    BY <1>1
  <2>2. Before(r1, n1, s1)
    BY <1>1, <1>6, <1>7 DEF Before
  <2>3. seen = Counters(show, s1, n1, r1)
    BY <1>2
  <2> HIDE DEF s1, n1, r1, seen
  <2>4. Counters(show, s1, n1, r1) \in ShowType
    BY <1>1, <2>1, ShowChanged
  <2>5. Counters(show, s1, n1, r1).records = r1
    BY <1>1, <2>1, ShowChanged
  <2>6. Counters(show, s1, n1, r1).presented = n1
    BY <1>1, <2>1, ShowChanged
  <2>7. Counters(show, s1, n1, r1).seen = s1
    BY <1>1, <2>1, ShowChanged
  <2>8. /\ Increasing(r1)
        /\ kind # "raw" => Len(r1) <= MaxRecords
    BY <1>1 DEF Ledgered, r1
  <2> QED
    BY <1>1, <2>2, <2>3, <2>4, <2>5, <2>6, <2>7, <2>8 DEF Ledgered
<1>9. Ledgered([seen EXCEPT !.presented = @ + 1])
  <2> DEFINE s1 == show.seen + 1
             n1 == show.presented + 1
             r1 == show.records
             more == [seen EXCEPT !.presented = @ + 1]
  <2>1. s1 \in Nat /\ n1 \in Nat /\ r1 \in Seq(RecordType)
    BY <1>1
  <2>2. Before(r1, n1, s1)
    BY <1>1, <1>6, <1>7 DEF Before
  <2>3. more = Counters(show, s1, n1, r1)
    BY <1>2
  <2> HIDE DEF s1, n1, r1, more
  <2>4. Counters(show, s1, n1, r1) \in ShowType
    BY <1>1, <2>1, ShowChanged
  <2>5. Counters(show, s1, n1, r1).records = r1
    BY <1>1, <2>1, ShowChanged
  <2>6. Counters(show, s1, n1, r1).presented = n1
    BY <1>1, <2>1, ShowChanged
  <2>7. Counters(show, s1, n1, r1).seen = s1
    BY <1>1, <2>1, ShowChanged
  <2>8. /\ Increasing(r1)
        /\ kind # "raw" => Len(r1) <= MaxRecords
    BY <1>1 DEF Ledgered, r1
  <2>9. Ledgered(more)
    BY <1>1, <2>2, <2>3, <2>4, <2>5, <2>6, <2>7, <2>8 DEF Ledgered
  <2> QED
    BY <2>9 DEF more
<1>10. Ledgered(BasePresent(seen, show.seen, fails))
  <2>1. seen.seen = show.seen + 1 /\ seen.presented = show.presented /\ seen.records = show.records
    BY <1>1 DEF ShowType
  <2> HIDE DEF seen
  <2>2. show.seen <= seen.seen /\ Before(seen.records, seen.presented, show.seen)
    BY <1>1, <1>7, <2>1
  <2> QED
    BY <1>1, <1>8, <2>2, BasePresentRecords
<1>11. Ledgered(show')
  BY <1>4, <1>8, <1>9, <1>10
<1>12. Ledgered(show)'
  BY <1>1, <1>11 DEF Ledgered
<1> QED
  BY <1>1, <1>5, <1>12 DEF FrameInv, Stored

\* close keeps it.
LEMMA CloseKept == FrameInv /\ Close => FrameInv'
<1> SUFFICES ASSUME FrameInv, Close PROVE FrameInv'
  OBVIOUS
<1>1. show \in ShowType /\ kind' = kind /\ maxFrames' = maxFrames
  BY DEF FrameInv, Ledgered, Close
<1>2. /\ show' \in ShowType /\ show'.seen = show.seen
      /\ show'.presented = show.presented /\ show'.records = show.records
  <2> DEFINE S == Seq(RecordType)
  <2>1. show \in [seen : Nat, presented : Nat, closed : BOOLEAN, records : S]
    BY <1>1 DEF ShowType
  <2> HIDE DEF S
  <2>2. show' = [show EXCEPT !.closed = TRUE]
    BY DEF Close
  <2>3. /\ show' \in [seen : Nat, presented : Nat, closed : BOOLEAN, records : S]
        /\ show'.seen = show.seen
        /\ show'.presented = show.presented /\ show'.records = show.records
    BY <2>1, <2>2
  <2> QED
    BY <2>3 DEF ShowType, S
<1>3. Ledgered(show)'
  BY <1>1, <1>2 DEF FrameInv, Ledgered
<1>4. Stored' /\ ImageMatchesKey'
  BY <1>1, <1>2 DEF FrameInv, Stored, ImageMatchesKey, Close
<1> QED
  BY <1>1, <1>3, <1>4 DEF FrameInv

\* The steps of the game and of the other parts leave presenter and renderer alone.
LEMMA FrameUntouched ==
  FrameInv /\ UNCHANGED <<kind, maxFrames, show, renderer, shownKey, written>> => FrameInv'
BY DEF FrameInv, Ledgered, Stored, ImageMatchesKey

\* Every operation of the presenter keeps it.
LEMMA FrameStep == FrameInv /\ FrameNext => FrameInv'
<1> SUFFICES ASSUME FrameInv, FrameNext PROVE FrameInv'
  OBVIOUS
<1>1. ASSUME NEW fails \in BOOLEAN, Present(fails) PROVE FrameInv'
  BY <1>1, PresentKept
<1>2. ASSUME NEW fails \in BOOLEAN, NEW module \in {1, 5}, RegionPresent(module, fails)
      PROVE  FrameInv'
  BY <1>2, RegionPresentKept
<1>3. CASE Close
  BY <1>3, CloseKept
<1>4. ASSUME NEW i \in 1..Layers, NEW layer \in LayerTables, GameChangesRegion(i, layer)
      PROVE  FrameInv'
  BY <1>4, FrameUntouched DEF GameChangesRegion
<1>5. ASSUME NEW r \in {"none", "tables", "all"}, GameChangesMemory(r) PROVE FrameInv'
  BY <1>5, FrameUntouched DEF GameChangesMemory
<1> QED
  BY <1>1, <1>2, <1>3, <1>4, <1>5 DEF FrameNext

\* The records of every presenter are the newest frames in their order and
\* without a hole, the raw presenter's manifest names exactly the files it
\* wrote, and an image is drawn only for the tables it was decoded for:
\* whatever is refused, fails half way, or changes in the game between frames
\* (presenter.py:80-103, 131-149; region_view.py:97-148).
THEOREM FramesSoundHolds == FrontSpec => []FramesSound
<1>1. FrontInit => FrameInv
  BY FrameInvStart DEF FrontInit
<1>2. FrameInv /\ [FrontNext]_frontVars => FrameInv'
  <2> SUFFICES ASSUME FrameInv, [FrontNext]_frontVars PROVE FrameInv'
    OBVIOUS
  <2>1. CASE FrameNext
    BY <2>1, FrameStep
  <2>2. CASE UNCHANGED frameVars
    BY <2>2, FrameUntouched DEF frameVars
  <2> QED
    BY <2>1, <2>2 DEF FrontNext, frontVars, frameVars
<1>3. FrameInv => FramesSound
  <2> SUFFICES ASSUME FrameInv PROVE FramesSound
    OBVIOUS
  <2>1. show.presented \in Nat /\ show.records \in Seq(RecordType) /\ Ledgered(show)
    BY DEF FrameInv, Ledgered, ShowType
  <2>2. RecordsAreNewest
    BY <2>1 DEF FrameInv, Ledgered, Stored, RecordsAreNewest, Increasing, Newest
  <2> QED
    BY <2>2 DEF FrameInv, FramesSound
<1> QED
  BY <1>1, <1>2, <1>3, PTL DEF FrontSpec

-----------------------------------------------------------------------------
(* Asset reads.                                                            *)

\* The greater of two numbers.
LEMMA MaxOfTwo ==
  ASSUME NEW a \in Int, NEW b \in Int
  PROVE  Max({a, b}) = IF a >= b THEN a ELSE b
<1>1. ASSUME NEW m \in {a, b}, \A y \in {a, b} : m >= y
      PROVE  m = IF a >= b THEN a ELSE b
  BY <1>1
<1>2. \E m \in {a, b} : \A y \in {a, b} : m >= y
  <2>1. CASE a >= b
    BY <2>1
  <2>2. CASE b >= a
    BY <2>2
  <2> QED
    BY <2>1, <2>2
<1> QED
  BY <1>1, <1>2 DEF Max

\* The lesser of two numbers.
LEMMA MinOfTwo ==
  ASSUME NEW a \in Int, NEW b \in Int
  PROVE  Min({a, b}) = IF a <= b THEN a ELSE b
<1>1. ASSUME NEW m \in {a, b}, \A y \in {a, b} : m <= y
      PROVE  m = IF a <= b THEN a ELSE b
  BY <1>1
<1>2. \E m \in {a, b} : \A y \in {a, b} : m <= y
  <2>1. CASE a <= b
    BY <2>1
  <2>2. CASE b <= a
    BY <2>2
  <2> QED
    BY <2>1, <2>2
<1> QED
  BY <1>1, <1>2 DEF Min

\* How many of total bytes from place at on a record of length bytes has.
Given(length, at, total) == Max({0, Min({total, length - at})})

\* A read is never given more than it asks for.
LEMMA GivenBounds ==
  ASSUME NEW length \in Nat, NEW at \in Nat, NEW total \in Nat
  PROVE  Given(length, at, total) \in Nat /\ Given(length, at, total) <= total
<1> DEFINE g == IF total <= length - at THEN total ELSE length - at
<1>1. Min({total, length - at}) = g /\ g \in Int /\ g <= total
  BY MinOfTwo
<1> HIDE DEF g
<1>2. Given(length, at, total) = IF 0 >= g THEN 0 ELSE g
  BY <1>1, MaxOfTwo DEF Given
<1> QED
  BY <1>1, <1>2

\* The bytes of the record of handle h from place at on.
Piece(h, at, total) ==
  [i \in 1..Given(Lengths[RecordOf[h]], at, total) |-> FromFile(RecordOf[h], at + i)]

\* What the hook hands out is the piece at the cursor of the handle.
LEMMA ChunkIsPiece == \A h, total : Chunk(h, total) = Piece(h, cursor[h], total)
BY DEF Chunk, Piece, Given

\* A piece is as long as what is given, which may be nothing.
LEMMA PieceProperties ==
  ASSUME NEW h \in Handles, NEW at \in Nat, NEW total \in Nat
  PROVE  /\ Given(Lengths[RecordOf[h]], at, total) \in Nat
         /\ Given(Lengths[RecordOf[h]], at, total) <= total
         /\ Len(Piece(h, at, total)) = Given(Lengths[RecordOf[h]], at, total)
         /\ Piece(h, at, total) # NoChunk
<1> DEFINE g == Given(Lengths[RecordOf[h]], at, total)
           p == Piece(h, at, total)
<1>1. g \in Nat /\ g <= total
  <2>1. Lengths[RecordOf[h]] \in Nat
    BY AssetAssumption
  <2> QED
    BY <2>1, GivenBounds
<1> HIDE DEF g
<1>2. p = [i \in 1..g |-> FromFile(RecordOf[h], at + i)]
  BY DEF Piece, g
<1>3. Len(p) = g
  BY <1>1, <1>2
<1>4. p # NoChunk
  <2> SUFFICES ASSUME p = NoChunk PROVE FALSE
    OBVIOUS
  <2> HIDE DEF p
  <2>1. Len(NoChunk) = 1 /\ NoChunk[1] = <<"none">>
    BY DEF NoChunk
  <2>2. g = 1
    BY <2>1, <1>3
  <2>3. p[1] = <<"file", RecordOf[h], at + 1>>
    BY <2>2, <1>2 DEF FromFile
  <2>4. <<"file", RecordOf[h], at + 1>> = <<"none">>
    BY <2>1, <2>3
  <2> QED
    BY <2>4
<1> QED
  BY <1>1, <1>3, <1>4 DEF g

\* What on_read and on_ret remember of the read in progress: the chunk in
\* waiting is the one of this read, and there is none when the engine's own
\* bytes are wanted.
Noted ==
  ~reading.done =>
    IF served
    THEN mode = "overwrite" /\ pending = Piece(reading.handle, reading.at, reading.total)
    ELSE pending = NoChunk

ReadType == [handle : Handles, at : Nat, total : Nat, done : BOOLEAN]

AssetInv ==
  /\ mode \in {"skip", "overwrite"}
  /\ cursor \in [Handles -> Nat]
  /\ reading = Idle \/ reading \in ReadType
  /\ Noted
  /\ reading.done => pending = NoChunk
  /\ ReadsAreTheirOwn

\* The installer starts with it.
LEMMA AssetInvStart == AssetInit \/ AssetsAtRest => AssetInv
<1> SUFFICES ASSUME AssetInit \/ AssetsAtRest PROVE AssetInv
  OBVIOUS
<1>1. /\ mode \in {"skip", "overwrite"} /\ cursor \in [Handles -> Nat]
      /\ reading = Idle /\ pending = NoChunk
  BY DEF AssetInit, AssetsAtRest
<1>2. reading.done
  BY <1>1 DEF Idle
<1> QED
  BY <1>1, <1>2 DEF AssetInv, Noted, ReadsAreTheirOwn

\* What ReadsAreTheirOwn says of a buffer b filled by the read r.
OwnBytes(b, r, s) ==
  \A i \in DOMAIN b :
    b[i] = IF s /\ i <= Given(Lengths[RecordOf[r.handle]], r.at, r.total)
           THEN FromFile(RecordOf[r.handle], r.at + i)
           ELSE FromEngine(RecordOf[r.handle], r.at + i)

\* A finished read that holds its own bytes is the claim.
LEMMA OwnBytesSuffice ==
  reading.done /\ OwnBytes(buffer, reading, served) => ReadsAreTheirOwn
BY DEF OwnBytes, ReadsAreTheirOwn, Given

\* A read in mode "skip" fills the buffer with its own piece.
LEMMA SkippedBytes ==
  ASSUME NEW h \in Handles, NEW at \in Nat, NEW total \in Nat,
         NEW r \in ReadType, r.handle = h, r.at = at, r.total = total
  PROVE  OwnBytes(Piece(h, at, total), r, TRUE)
<1> DEFINE g == Given(Lengths[RecordOf[h]], at, total)
           p == Piece(h, at, total)
<1>1. p = [i \in 1..g |-> FromFile(RecordOf[h], at + i)]
  BY DEF Piece
<1> HIDE DEF p
<1>2. g \in Nat
  BY PieceProperties
<1> HIDE DEF g
<1>3. \A i \in DOMAIN p : i <= g /\ p[i] = FromFile(RecordOf[h], at + i)
  BY <1>1, <1>2
<1>4. OwnBytes(p, r, TRUE)
  BY <1>3 DEF OwnBytes, g
<1> QED
  BY <1>4 DEF p

\* The engine's bytes with the piece written over their head.
LEMMA OverlaidBytes ==
  ASSUME NEW h \in Handles, NEW at \in Nat, NEW total \in Nat,
         NEW r \in ReadType, r.handle = h, r.at = at, r.total = total
  PROVE  /\ OwnBytes(Overlaid(Piece(h, at, total), EngineBytes(h, at, total)), r, TRUE)
         /\ OwnBytes(EngineBytes(h, at, total), r, FALSE)
<1> DEFINE g == Given(Lengths[RecordOf[h]], at, total)
           p == Piece(h, at, total)
           e == EngineBytes(h, at, total)
<1>1. p = [i \in 1..g |-> FromFile(RecordOf[h], at + i)]
  BY DEF Piece
<1>2. e = [i \in 1..total |-> FromEngine(RecordOf[h], at + i)]
  BY DEF EngineBytes
<1>3. g \in Nat /\ g <= total /\ Len(p) = g
  BY PieceProperties
<1>4. Len(e) = total
  BY <1>2
<1> HIDE DEF g, p, e
<1>5. OwnBytes(e, r, FALSE)
  BY <1>2 DEF OwnBytes
<1>6. Overlaid(p, e) = [i \in 1..total |-> IF i <= g THEN p[i] ELSE e[i]]
  <2>1. Max({Len(e), Len(p)}) = total
    BY <1>3, <1>4, MaxOfTwo
  <2> QED
    BY <2>1, <1>3 DEF Overlaid
<1>7. OwnBytes(Overlaid(p, e), r, TRUE)
  <2> DEFINE o == Overlaid(p, e)
  <2>1. DOMAIN o = 1..total
    BY <1>6
  <2>2. ASSUME NEW i \in 1..total
        PROVE  o[i] = IF i <= g THEN FromFile(RecordOf[h], at + i)
                      ELSE FromEngine(RecordOf[h], at + i)
    BY <1>6, <1>1, <1>2, <1>3
  <2> HIDE DEF o
  <2>3. OwnBytes(o, r, TRUE)
    BY <2>1, <2>2 DEF OwnBytes, g
  <2> QED
    BY <2>3 DEF o
<1> QED
  BY <1>5, <1>7 DEF p, e

\* The hook on a read keeps it.
LEMMA OnReadKept ==
  ASSUME AssetInv, NEW h \in Handles, NEW total \in Totals, NEW ok \in BOOLEAN,
         OnRead(h, total, ok)
  PROVE  AssetInv'
<1>1. /\ mode' = mode /\ mode \in {"skip", "overwrite"} /\ reading.done
      /\ cursor \in [Handles -> Nat] /\ pending = NoChunk
      /\ served' \in BOOLEAN
  BY DEF AssetInv, OnRead
<1>2. total \in Nat /\ cursor[h] \in Nat
  BY <1>1, AssetAssumption
<1> DEFINE r(d) == [handle |-> h, at |-> cursor[h], total |-> total, done |-> d]
           p == Piece(h, cursor[h], total)
<1>3. /\ Chunk(h, total) = p
      /\ Len(p) \in Nat
  BY <1>2, ChunkIsPiece, PieceProperties
<1>4. CASE served' /\ SkipRead(h, total)
  <2>1. /\ reading' = r(TRUE) /\ buffer' = p /\ pending' = pending
        /\ cursor' = [cursor EXCEPT ![h] = @ + Len(p)]
    BY <1>3, <1>4 DEF SkipRead
  <2>2. reading' \in ReadType /\ reading'.done
        /\ reading'.handle = h /\ reading'.at = cursor[h] /\ reading'.total = total
    BY <2>1, <1>2 DEF ReadType
  <2> HIDE DEF r, p
  <2>3. cursor' \in [Handles -> Nat]
    BY <2>1, <1>1, <1>3
  <2>4. OwnBytes(buffer', reading', TRUE)
    BY <2>1, <2>2, <1>2, SkippedBytes DEF p
  <2>5. ReadsAreTheirOwn'
    BY <2>2, <2>4, <1>4 DEF OwnBytes, ReadsAreTheirOwn, Given
  <2> QED
    BY <1>1, <2>1, <2>2, <2>3, <2>5 DEF AssetInv, Noted
<1>5. CASE served' /\ NoteRead(h, total)
  <2>1. /\ reading' = r(FALSE) /\ pending' = p /\ cursor' = cursor /\ mode = "overwrite"
    BY <1>3, <1>5 DEF NoteRead
  <2>2. reading' \in ReadType /\ ~reading'.done
        /\ reading'.handle = h /\ reading'.at = cursor[h] /\ reading'.total = total
    BY <2>1, <1>2 DEF ReadType
  <2> HIDE DEF r
  <2>3. Noted'
    BY <2>1, <2>2, <1>1, <1>5 DEF Noted, Piece, Given
  <2>4. ReadsAreTheirOwn'
    BY <2>2 DEF ReadsAreTheirOwn
  <2> QED
    BY <1>1, <2>1, <2>2, <2>3, <2>4 DEF AssetInv
<1>6. CASE ~served' /\ LeaveRead(h, total)
  <2>1. /\ reading' = r(FALSE) /\ pending' = pending /\ cursor' = cursor
    BY <1>6 DEF LeaveRead
  <2>2. reading' \in ReadType /\ ~reading'.done
    BY <2>1, <1>2 DEF ReadType
  <2> HIDE DEF r
  <2>3. Noted'
    BY <2>1, <2>2, <1>1, <1>6 DEF Noted
  <2>4. ReadsAreTheirOwn'
    BY <2>2 DEF ReadsAreTheirOwn
  <2> QED
    BY <1>1, <2>1, <2>2, <2>3, <2>4 DEF AssetInv
<1> QED
  BY <1>4, <1>5, <1>6 DEF OnRead

\* The return of the engine's own read keeps it.
LEMMA EngineReturnsKept == AssetInv /\ EngineReturns => AssetInv'
<1> SUFFICES ASSUME AssetInv, EngineReturns PROVE AssetInv'
  OBVIOUS
<1>1. /\ mode' = mode /\ mode \in {"skip", "overwrite"} /\ ~reading.done
      /\ cursor \in [Handles -> Nat] /\ served' = served
      /\ reading \in ReadType
      /\ reading' = [reading EXCEPT !.done = TRUE]
      /\ cursor' = [cursor EXCEPT ![reading.handle] = @ + reading.total]
      /\ Noted
  BY DEF AssetInv, EngineReturns, Idle
<1> DEFINE h == reading.handle
           at == reading.at
           total == reading.total
<1>2. /\ h \in Handles /\ at \in Nat /\ total \in Nat
      /\ reading' \in ReadType /\ reading'.done
      /\ reading'.handle = h /\ reading'.at = at /\ reading'.total = total
  BY <1>1 DEF ReadType
<1>3. cursor' \in [Handles -> Nat]
  BY <1>1, <1>2
<1>4. CASE served
  <2>1. mode = "overwrite" /\ pending = Piece(h, at, total) /\ pending # NoChunk
    BY <1>1, <1>2, <1>4, PieceProperties DEF Noted
  <2>2. buffer' = Overlaid(Piece(h, at, total), EngineBytes(h, at, total)) /\ pending' = NoChunk
    BY <2>1 DEF EngineReturns, ChunkTaken
  <2> HIDE DEF h, at, total
  <2>3. OwnBytes(buffer', reading', TRUE)
    BY <2>2, <1>2, OverlaidBytes
  <2>4. ReadsAreTheirOwn'
    BY <2>3, <1>1, <1>2, <1>4 DEF OwnBytes, ReadsAreTheirOwn, Given
  <2> QED
    BY <1>1, <1>2, <1>3, <2>2, <2>4 DEF AssetInv, Noted
<1>5. CASE ~served
  <2>1. pending = NoChunk
    BY <1>1, <1>5 DEF Noted
  <2>2. buffer' = EngineBytes(h, at, total) /\ pending' = NoChunk
    BY <2>1 DEF EngineReturns, ChunkTaken
  <2> HIDE DEF h, at, total
  <2>3. OwnBytes(buffer', reading', FALSE)
    BY <2>2, <1>2, OverlaidBytes
  <2>4. ReadsAreTheirOwn'
    BY <2>3, <1>1, <1>2, <1>5 DEF OwnBytes, ReadsAreTheirOwn, Given
  <2> QED
    BY <1>1, <1>2, <1>3, <2>2, <2>4 DEF AssetInv, Noted
<1> QED
  BY <1>4, <1>5

\* A step of another part keeps it.
LEMMA AssetUntouched ==
  AssetInv /\ UNCHANGED <<mode, cursor, pending, buffer, reading, served>> => AssetInv'
<1> SUFFICES ASSUME AssetInv, UNCHANGED <<mode, cursor, pending, buffer, reading, served>>
             PROVE  AssetInv'
  OBVIOUS
<1>1. Noted'
  BY DEF AssetInv, Noted
<1>2. ReadsAreTheirOwn'
  BY DEF AssetInv, ReadsAreTheirOwn
<1> QED
  BY <1>1, <1>2 DEF AssetInv

\* Every step of the installer keeps it.
LEMMA AssetStep == AssetInv /\ AssetNext => AssetInv'
<1> SUFFICES ASSUME AssetInv, AssetNext PROVE AssetInv'
  OBVIOUS
<1>1. ASSUME NEW h \in Handles, NEW total \in Totals, NEW ok \in BOOLEAN, OnRead(h, total, ok)
      PROVE  AssetInv'
  BY <1>1, OnReadKept
<1>2. CASE EngineReturns
  BY <1>2, EngineReturnsKept
<1>3. ASSUME NEW records \in SUBSET Records, DirectoryChanges(records) PROVE AssetInv'
  BY <1>3, AssetUntouched DEF DirectoryChanges
<1> QED
  BY <1>1, <1>2, <1>3 DEF AssetNext

\* The buffer of a finished read holds the bytes of its own record from its
\* own cursor on, in either mode, whatever reads of other handles, empty or
\* failed reads and changes of the directory lie between: on_read and on_ret
\* never hand the chunk of one read to another (assets.py:106-152).
THEOREM ReadsAreTheirOwnHolds == FrontSpec => []ReadsAreTheirOwn
<1>1. FrontInit => AssetInv
  BY AssetInvStart DEF FrontInit
<1>2. AssetInv /\ [FrontNext]_frontVars => AssetInv'
  <2> SUFFICES ASSUME AssetInv, [FrontNext]_frontVars PROVE AssetInv'
    OBVIOUS
  <2>1. CASE AssetNext
    BY <2>1, AssetStep
  <2>2. CASE UNCHANGED assetVars
    BY <2>2, AssetUntouched DEF assetVars
  <2> QED
    BY <2>1, <2>2 DEF FrontNext, frontVars, assetVars
<1>3. AssetInv => ReadsAreTheirOwn
  BY DEF AssetInv
<1> QED
  BY <1>1, <1>2, <1>3, PTL DEF FrontSpec

-----------------------------------------------------------------------------
(* The clock.                                                              *)

\* A later count of microseconds is not a smaller count of ticks.
LEMMA DivMonotone ==
  ASSUME NEW k \in Nat \ {0}, NEW n \in Nat
  PROVE  n \div k \in Nat /\ n \div k <= (n + 1) \div k
<1> DEFINE q == n \div k
           p == (n + 1) \div k
<1>1. /\ q \in Int /\ k * q <= n /\ n < k * q + k
      /\ p \in Int /\ n + 1 < k * p + k
  OBVIOUS
<1> HIDE DEF q, p
<1>2. q >= 0
  <2> SUFFICES ASSUME q <= -1 PROVE FALSE
    BY <1>1
  <2>1. \A m \in Int : m <= 0 => k * m <= 0
    OBVIOUS
  <2>2. k * (q + 1) <= 0 /\ k * (q + 1) = k * q + k
    BY <2>1, <1>1
  <2> QED
    BY <2>2, <1>1
<1>3. q <= p
  <2> SUFFICES ASSUME p <= q - 1 PROVE FALSE
    BY <1>1
  <2>1. k * p <= k * (q - 1) /\ k * (q - 1) = k * q - k
    BY <1>1
  <2> QED
    BY <2>1, <1>1
<1> QED
  BY <1>1, <1>2, <1>3 DEF q, p

ClockInv ==
  /\ insn \in Nat /\ afterUs \in Nat /\ told \in Int
  /\ ClockNeverBack

\* Neither the instruction counter nor a delay of the game takes the time back.
LEMMA ClockStep == ClockInv /\ ClockNext => ClockInv'
<1> SUFFICES ASSUME ClockInv, ClockNext PROVE ClockInv'
  OBVIOUS
<1> DEFINE us(n) == n \div InsnPerUs
<1>1. /\ insn \in Nat /\ afterUs \in Nat /\ told \in Int /\ told <= NowUs
      /\ us(insn) \in Nat /\ us(insn) <= us(insn + 1)
  BY ClockAssumption, DivMonotone DEF ClockInv, ClockNeverBack
<1>2. NowUs = IF clockMode = "frozen" THEN 0 ELSE us(insn) + afterUs
  BY DEF NowUs
<1>3. NowUs' = IF clockMode' = "frozen" THEN 0 ELSE us(insn') + afterUs'
  BY DEF NowUs
<1>4. ASSUME NEW d \in Delays, NoteAfter(d) PROVE ClockInv'
  <2>1. d \in Int /\ insn' = insn /\ told' = told /\ clockMode' = clockMode
    BY <1>4, ClockAssumption DEF NoteAfter
  <2>2. afterUs' \in Nat /\ afterUs <= afterUs'
    BY <1>1, <1>4, <2>1 DEF NoteAfter
  <2> HIDE DEF us
  <2> QED
    BY <1>1, <1>2, <1>3, <2>1, <2>2 DEF ClockInv, ClockNeverBack
<1>5. CASE Instruction
  <2>1. insn' = insn + 1 /\ told' = told /\ clockMode' = clockMode /\ afterUs' = afterUs
    BY <1>5 DEF Instruction
  <2>2. us(insn') = us(insn + 1) /\ us(insn + 1) \in Nat
    BY <2>1, <1>1, ClockAssumption, DivMonotone
  <2> HIDE DEF us
  <2> QED
    BY <1>1, <1>2, <1>3, <2>1, <2>2 DEF ClockInv, ClockNeverBack
<1>6. CASE HomeTime
  <2>1. told' = NowUs /\ insn' = insn /\ clockMode' = clockMode /\ afterUs' = afterUs
    BY <1>6 DEF HomeTime
  <2> HIDE DEF us
  <2> QED
    BY <1>1, <1>2, <1>3, <2>1 DEF ClockInv, ClockNeverBack
<1> QED
  BY <1>4, <1>5, <1>6 DEF ClockNext

\* The time the game is told never goes back, in no mode and whatever delays
\* it asks for in between (clock.py:44-58).
THEOREM ClockNeverBackHolds == FrontSpec => []ClockNeverBack
<1>1. FrontInit => ClockInv
  <2> SUFFICES ASSUME FrontInit PROVE ClockInv
    OBVIOUS
  <2>1. insn = 0 /\ afterUs = 0 /\ told = 0
    BY DEF FrontInit, InputInit, InputAtRest
  <2>2. 0 \div InsnPerUs \in Nat
    BY ClockAssumption, DivMonotone
  <2> QED
    BY <2>1, <2>2 DEF ClockInv, ClockNeverBack, NowUs
<1>2. ClockInv /\ [FrontNext]_frontVars => ClockInv'
  <2> SUFFICES ASSUME ClockInv, [FrontNext]_frontVars PROVE ClockInv'
    OBVIOUS
  <2>1. CASE ClockNext
    BY <2>1, ClockStep
  <2>2. CASE InputNext
    <3>1. UNCHANGED clockVars
      BY <2>2 DEF InputNext, Pump, ReleaseAll
    <3> QED
      BY <3>1 DEF clockVars, ClockInv, ClockNeverBack, NowUs
  <2>3. CASE UNCHANGED clockVars
    BY <2>3 DEF clockVars, ClockInv, ClockNeverBack, NowUs
  <2> QED
    BY <2>1, <2>2, <2>3 DEF FrontNext, frontVars, clockVars
<1>3. ClockInv => ClockNeverBack
  BY DEF ClockInv
<1> QED
  BY <1>1, <1>2, <1>3, PTL DEF FrontSpec

-----------------------------------------------------------------------------
(* Keyboard: the loops over transitions and over host events.              *)

\* Transitions fed to the bridge in their order.
Fed(b, steps) == FoldLeft(Bridged, b, steps)

\* Feeding transitions to the bridge is a loop that stays in every set the
\* single transition stays in.
LEMMA BridgedRuns ==
  ASSUME NEW X, NEW S, NEW base \in S, NEW seq \in Seq(X),
         \A b \in S, x \in X : Bridged(b, x) \in S
  PROVE  \E g \in [0..Len(seq) -> S] :
           /\ g[0] = base
           /\ \A k \in 1..Len(seq) : g[k] = Bridged(g[k - 1], seq[k])
           /\ Fed(base, seq) = g[Len(seq)]
<1> DEFINE n == Len(seq)
<1>1. n \in Nat /\ DOMAIN seq = 1..n /\ \A k \in 1..n : seq[k] \in X
  OBVIOUS
<1> DEFINE Is(f) == f = [s \in SUBSET (1..n) |->
                          IF s = {} THEN base ELSE Bridged(f[s \ {Max(s)}], seq[Max(s)])]
           h == CHOOSE f : Is(f)
<1>2. Fed(base, seq) = h[1..n]
  BY <1>1 DEF Fed, FoldLeft, MapThenFoldSet
<1> HIDE DEF n
<1>3. \E f : Is(f)
  <2> DEFINE step == [k \in 1..n |-> [b \in S |-> Bridged(b, seq[k])]]
  <2>1. Loop(n, S, base, step)
    BY <1>1 DEF Loop
  <2>2. PICK f \in [SUBSET (1..n) -> S] : FoldStates(n, base, step, f)
    BY <2>1, FoldHasStates
  <2>3. ASSUME NEW s \in SUBSET (1..n)
        PROVE  f[s] = IF s = {} THEN base ELSE Bridged(f[s \ {Max(s)}], seq[Max(s)])
    <3>1. CASE s = {}
      BY <2>2, <3>1 DEF FoldStates
    <3>2. CASE s # {}
      <4>1. Max(s) \in 1..n
        BY <1>1, <3>2, LastPosition
      <4>2. f[s \ {Max(s)}] \in S
        OBVIOUS
      <4>3. f[s] = step[Max(s)][f[s \ {Max(s)}]]
        BY <2>2, <3>2 DEF FoldStates
      <4> QED
        BY <3>2, <4>1, <4>2, <4>3
    <3> QED
      BY <3>1, <3>2
  <2>4. f = [s \in SUBSET (1..n) |-> f[s]]
    OBVIOUS
  <2>5. Is(f)
    BY <2>3, <2>4
  <2> QED
    BY <2>5
<1>4. Is(h)
  BY <1>3
<1> HIDE DEF h
<1> DEFINE g == [k \in 0..n |-> h[1..k]]
<1>5. g[0] = base
  <2>1. 1..0 = {} /\ {} \in SUBSET (1..n) /\ 0 \in 0..n
    BY <1>1
  <2> QED
    BY <1>4, <2>1
<1>6. ASSUME NEW k \in 1..n
      PROVE  g[k] = Bridged(g[k - 1], seq[k])
  <2>1. /\ 1..k \in SUBSET (1..n) /\ 1..k # {} /\ Max(1..k) = k
        /\ (1..k) \ {Max(1..k)} = 1..(k - 1)
    BY <1>1, InitialPositions
  <2>2. k \in 0..n /\ k - 1 \in 0..n
    BY <1>1
  <2>3. h[1..k] = Bridged(h[1..(k - 1)], seq[k])
    BY <1>4, <2>1
  <2> QED
    BY <2>2, <2>3
<1> DEFINE G == {k \in 0..n : g[k] \in S}
<1>7. G = 0..n
  <2>1. G \in SUBSET (0..n) /\ 0 \in G
    BY <1>1, <1>5
  <2>2. ASSUME NEW k \in 1..n, k - 1 \in G
        PROVE  k \in G
    <3>1. g[k - 1] \in S /\ seq[k] \in X /\ k \in 0..n
      BY <1>1, <2>2
    <3> HIDE DEF g
    <3>2. g[k] \in S
      BY <1>6, <3>1
    <3> QED
      BY <3>1, <3>2
  <2> HIDE DEF G
  <2> QED
    BY <1>1, <2>1, <2>2, PositionInduction
<1>8. g \in [0..n -> S]
  BY <1>7
<1>9. Fed(base, seq) = g[n]
  BY <1>1, <1>2
<1> HIDE DEF g
<1> QED
  BY <1>5, <1>6, <1>8, <1>9 DEF n

\* So is translating host events.
PollStep(acc, e) ==
  [hat |-> HatAfter(acc.hat, e), out |-> acc.out \o Translated(acc.hat, e)]

\* A poll is a loop over the events of the host.
LEMMA PollRuns ==
  ASSUME NEW X, NEW S, NEW base \in S, base = [hat |-> hatKeys, out |-> <<>>],
         NEW seq \in Seq(X),
         \A b \in S, x \in X : PollStep(b, x) \in S
  PROVE  \E g \in [0..Len(seq) -> S] :
           /\ g[0] = base
           /\ \A k \in 1..Len(seq) : g[k] = PollStep(g[k - 1], seq[k])
           /\ Poll(seq) = g[Len(seq)]
<1> DEFINE n == Len(seq)
<1>1. n \in Nat /\ DOMAIN seq = 1..n /\ \A k \in 1..n : seq[k] \in X
  OBVIOUS
<1> DEFINE Is(f) == f = [s \in SUBSET (1..n) |->
                          IF s = {} THEN base ELSE PollStep(f[s \ {Max(s)}], seq[Max(s)])]
           h == CHOOSE f : Is(f)
<1>2. Poll(seq) = h[1..n]
  BY <1>1 DEF Poll, PollStep, FoldLeft, MapThenFoldSet
<1> HIDE DEF n
<1>3. \E f : Is(f)
  <2> DEFINE step == [k \in 1..n |-> [b \in S |-> PollStep(b, seq[k])]]
  <2>1. Loop(n, S, base, step)
    BY <1>1 DEF Loop
  <2>2. PICK f \in [SUBSET (1..n) -> S] : FoldStates(n, base, step, f)
    BY <2>1, FoldHasStates
  <2>3. ASSUME NEW s \in SUBSET (1..n)
        PROVE  f[s] = IF s = {} THEN base ELSE PollStep(f[s \ {Max(s)}], seq[Max(s)])
    <3>1. CASE s = {}
      BY <2>2, <3>1 DEF FoldStates
    <3>2. CASE s # {}
      <4>1. Max(s) \in 1..n
        BY <1>1, <3>2, LastPosition
      <4>2. f[s \ {Max(s)}] \in S
        OBVIOUS
      <4>3. f[s] = step[Max(s)][f[s \ {Max(s)}]]
        BY <2>2, <3>2 DEF FoldStates
      <4> QED
        BY <3>2, <4>1, <4>2, <4>3
    <3> QED
      BY <3>1, <3>2
  <2>4. f = [s \in SUBSET (1..n) |-> f[s]]
    OBVIOUS
  <2>5. Is(f)
    BY <2>3, <2>4
  <2> QED
    BY <2>5
<1>4. Is(h)
  BY <1>3
<1> HIDE DEF h
<1> DEFINE g == [k \in 0..n |-> h[1..k]]
<1>5. g[0] = base
  <2>1. 1..0 = {} /\ {} \in SUBSET (1..n) /\ 0 \in 0..n
    BY <1>1
  <2> QED
    BY <1>4, <2>1
<1>6. ASSUME NEW k \in 1..n
      PROVE  g[k] = PollStep(g[k - 1], seq[k])
  <2>1. /\ 1..k \in SUBSET (1..n) /\ 1..k # {} /\ Max(1..k) = k
        /\ (1..k) \ {Max(1..k)} = 1..(k - 1)
    BY <1>1, InitialPositions
  <2>2. k \in 0..n /\ k - 1 \in 0..n
    BY <1>1
  <2>3. h[1..k] = PollStep(h[1..(k - 1)], seq[k])
    BY <1>4, <2>1
  <2> QED
    BY <2>2, <2>3
<1> DEFINE G == {k \in 0..n : g[k] \in S}
<1>7. G = 0..n
  <2>1. G \in SUBSET (0..n) /\ 0 \in G
    BY <1>1, <1>5
  <2>2. ASSUME NEW k \in 1..n, k - 1 \in G
        PROVE  k \in G
    <3>1. g[k - 1] \in S /\ seq[k] \in X /\ k \in 0..n
      BY <1>1, <2>2
    <3> HIDE DEF g
    <3>2. g[k] \in S
      BY <1>6, <3>1
    <3> QED
      BY <3>1, <3>2
  <2> HIDE DEF G
  <2> QED
    BY <1>1, <2>1, <2>2, PositionInduction
<1>8. g \in [0..n -> S]
  BY <1>7
<1>9. Poll(seq) = g[n]
  BY <1>1, <1>2
<1> HIDE DEF g
<1> QED
  BY <1>5, <1>6, <1>8, <1>9 DEF n
-----------------------------------------------------------------------------
(* Keyboard: what is polled.                                               *)

KeyNames == {KeyName[k] : k \in PhysicalKeys}

Transition == {"down", "up"} \X (Directions \cup KeyNames)

\* What transitions say about a key: the last one of it, if any, is a release;
\* and there is no press of it at all.
ReleasedTo(s, m, d) ==
  \E i \in 1..m : s[i] = <<"up", d>> /\ \A j \in (i + 1)..m : s[j] # <<"down", d>>
UnpressedTo(s, m, d) == \A j \in 1..m : s[j] # <<"down", d>>

Released(s, d) == ReleasedTo(s, Len(s), d)
Unpressed(s, d) == UnpressedTo(s, Len(s), d)

\* The places of a joined sequence.
LEMMA JoinedPlaces ==
  ASSUME NEW S, NEW s \in Seq(S), NEW t \in Seq(S)
  PROVE  /\ s \o t \in Seq(S) /\ Len(s \o t) = Len(s) + Len(t)
         /\ Len(s) \in Nat /\ Len(t) \in Nat
         /\ \A i \in 1..Len(s) : (s \o t)[i] = s[i]
         /\ \A i \in 1..Len(t) : (s \o t)[Len(s) + i] = t[i]
         /\ \A i \in 1..Len(s \o t) : i > Len(s) => i - Len(s) \in 1..Len(t)
                                                    /\ (s \o t)[i] = t[i - Len(s)]
  BY ConcatProperties, LenProperties

\* No press in either part, no press in the whole.
LEMMA UnpressedJoined ==
  ASSUME NEW S, NEW s \in Seq(S), NEW t \in Seq(S), NEW d, Unpressed(s, d), Unpressed(t, d)
  PROVE  Unpressed(s \o t, d)
<1> DEFINE u == s \o t
<1>1. /\ Len(u) = Len(s) + Len(t) /\ Len(s) \in Nat /\ Len(t) \in Nat
      /\ \A i \in 1..Len(s) : u[i] = s[i]
      /\ \A i \in 1..Len(u) : i > Len(s) => i - Len(s) \in 1..Len(t) /\ u[i] = t[i - Len(s)]
  BY JoinedPlaces
<1> HIDE DEF u
<1>2. ASSUME NEW j \in 1..Len(u) PROVE u[j] # <<"down", d>>
  <2>1. CASE j <= Len(s)
    BY <1>1, <2>1 DEF Unpressed, UnpressedTo
  <2>2. CASE j > Len(s)
    BY <1>1, <2>2 DEF Unpressed, UnpressedTo
  <2> QED
    BY <1>1, <2>1, <2>2
<1> QED
  BY <1>2 DEF Unpressed, UnpressedTo, u

\* A release that no press follows stays the last word.
LEMMA ReleasedJoined ==
  ASSUME NEW S, NEW s \in Seq(S), NEW t \in Seq(S), NEW d,
         Released(t, d) \/ (Released(s, d) /\ Unpressed(t, d))
  PROVE  Released(s \o t, d)
<1> DEFINE u == s \o t
<1>1. /\ Len(u) = Len(s) + Len(t) /\ Len(s) \in Nat /\ Len(t) \in Nat
      /\ \A i \in 1..Len(s) : u[i] = s[i]
      /\ \A i \in 1..Len(t) : u[Len(s) + i] = t[i]
      /\ \A i \in 1..Len(u) : i > Len(s) => i - Len(s) \in 1..Len(t) /\ u[i] = t[i - Len(s)]
  BY JoinedPlaces
<1> HIDE DEF u
<1>2. CASE Released(t, d)
  <2>1. PICK i \in 1..Len(t) : t[i] = <<"up", d>> /\ \A j \in (i + 1)..Len(t) : t[j] # <<"down", d>>
    BY <1>2 DEF Released, ReleasedTo
  <2>2. Len(s) + i \in 1..Len(u) /\ u[Len(s) + i] = <<"up", d>>
    BY <1>1, <2>1
  <2>3. ASSUME NEW j \in (Len(s) + i + 1)..Len(u) PROVE u[j] # <<"down", d>>
    <3>1. j \in 1..Len(u) /\ j > Len(s) /\ j - Len(s) \in (i + 1)..Len(t)
      BY <1>1
    <3> QED
      BY <1>1, <2>1, <3>1
  <2> QED
    BY <2>2, <2>3 DEF Released, ReleasedTo, u
<1>3. CASE Released(s, d) /\ Unpressed(t, d)
  <2>1. PICK i \in 1..Len(s) : s[i] = <<"up", d>> /\ \A j \in (i + 1)..Len(s) : s[j] # <<"down", d>>
    BY <1>3 DEF Released, ReleasedTo
  <2>2. i \in 1..Len(u) /\ u[i] = <<"up", d>>
    BY <1>1, <2>1
  <2>3. ASSUME NEW j \in (i + 1)..Len(u) PROVE u[j] # <<"down", d>>
    <3>1. CASE j <= Len(s)
      <4>1. j \in (i + 1)..Len(s) /\ j \in 1..Len(s)
        BY <1>1, <3>1
      <4> QED
        BY <1>1, <2>1, <4>1
    <3>2. CASE j > Len(s)
      <4>1. j \in 1..Len(u)
        BY <1>1
      <4>2. j - Len(s) \in 1..Len(t) /\ u[j] = t[j - Len(s)]
        BY <1>1, <3>2, <4>1
      <4> QED
        BY <1>3, <4>2 DEF Unpressed, UnpressedTo
    <3> QED
      BY <1>1, <3>1, <3>2
  <2> QED
    BY <2>2, <2>3 DEF Released, ReleasedTo, u
<1> QED
  BY <1>2, <1>3

Holds(s, x) == \E i \in 1..Len(s) : s[i] = x

\* A joined sequence holds the elements of its parts.
LEMMA ElementsJoined ==
  ASSUME NEW S, NEW s \in Seq(S), NEW t \in Seq(S), NEW x
  PROVE  Holds(s \o t, x) <=> Holds(s, x) \/ Holds(t, x)
<1> DEFINE u == s \o t
<1>1. /\ Len(u) = Len(s) + Len(t) /\ Len(s) \in Nat /\ Len(t) \in Nat
      /\ \A i \in 1..Len(s) : u[i] = s[i]
      /\ \A i \in 1..Len(t) : u[Len(s) + i] = t[i]
      /\ \A i \in 1..Len(u) : i > Len(s) => i - Len(s) \in 1..Len(t) /\ u[i] = t[i - Len(s)]
  BY JoinedPlaces
<1> HIDE DEF u
<1>2. ASSUME NEW i \in 1..Len(u), u[i] = x
      PROVE  (\E k \in 1..Len(s) : s[k] = x) \/ (\E k \in 1..Len(t) : t[k] = x)
  <2>1. CASE i <= Len(s)
    BY <1>1, <1>2, <2>1
  <2>2. CASE i > Len(s)
    BY <1>1, <1>2, <2>2
  <2> QED
    BY <1>1, <2>1, <2>2
<1>3. ASSUME NEW i \in 1..Len(s), s[i] = x PROVE \E k \in 1..Len(u) : u[k] = x
  BY <1>1, <1>3
<1>4. ASSUME NEW i \in 1..Len(t), t[i] = x PROVE \E k \in 1..Len(u) : u[k] = x
  <2>1. Len(s) + i \in 1..Len(u)
    BY <1>1
  <2> QED
    BY <1>1, <1>4, <2>1
<1>5. (\E i \in 1..Len(u) : u[i] = x)
           <=> (\E i \in 1..Len(s) : s[i] = x) \/ (\E i \in 1..Len(t) : t[i] = x)
  BY <1>2, <1>3, <1>4
<1> QED
  BY <1>5 DEF u, Holds

\* The edges of a set of directions: one of each of its members.
LEMMA EdgesFacts ==
  ASSUME NEW action \in {"down", "up"}, NEW names \in SUBSET Directions
  PROVE  /\ Edges(action, names) \in Seq({"down", "up"} \X Directions)
         /\ \A x : Holds(Edges(action, names), x) <=> \E d \in names : x = <<action, d>>
<1> DEFINE S == {"down", "up"} \X Directions
           edge(name) == IF name \in names THEN << <<action, name>> >> ELSE <<>>
<1>1. ASSUME NEW name \in Directions
      PROVE  /\ edge(name) \in Seq(S)
             /\ \A x : Holds(edge(name), x) <=> name \in names /\ x = <<action, name>>
  <2>1. <<action, name>> \in S
    OBVIOUS
  <2> HIDE DEF S
  <2>2. CASE name \in names
    <3>1. edge(name) = << <<action, name>> >>
      BY <2>2
    <3>2. /\ << <<action, name>> >> \in Seq(S) /\ Len(<< <<action, name>> >>) = 1
          /\ << <<action, name>> >>[1] = <<action, name>>
      BY <2>1
    <3> QED
      BY <2>2, <3>1, <3>2 DEF Holds
  <2>3. CASE name \notin names
    <3>1. edge(name) = <<>>
      BY <2>3
    <3>2. <<>> \in Seq(S) /\ Len(<<>>) = 0
      OBVIOUS
    <3> QED
      BY <2>3, <3>1, <3>2 DEF Holds
  <2> QED
    BY <2>2, <2>3
<1> DEFINE a == edge("down")  b == edge("left")  c == edge("right")  e == edge("up")
<1>2. Edges(action, names) = ((a \o b) \o c) \o e
  BY DEF Edges
<1>3. Directions = {"left", "right", "up", "down"}
  BY DEF Directions
<1>4. /\ a \in Seq(S) /\ \A x : Holds(a, x) <=> "down" \in names /\ x = <<action, "down">>
      /\ b \in Seq(S) /\ \A x : Holds(b, x) <=> "left" \in names /\ x = <<action, "left">>
      /\ c \in Seq(S) /\ \A x : Holds(c, x) <=> "right" \in names /\ x = <<action, "right">>
      /\ e \in Seq(S) /\ \A x : Holds(e, x) <=> "up" \in names /\ x = <<action, "up">>
  <2> HIDE DEF edge, S
  <2> QED
    BY <1>1, <1>3
<1> HIDE DEF a, b, c, e, S, edge
<1> DEFINE ab == a \o b  abc == ab \o c  abce == abc \o e
<1>5. ab \in Seq(S) /\ \A x : Holds(ab, x) <=> Holds(a, x) \/ Holds(b, x)
  <2>1. ab \in Seq(S)
    BY <1>4, JoinedPlaces
  <2>2. ASSUME NEW x PROVE Holds(ab, x) <=> Holds(a, x) \/ Holds(b, x)
    BY <1>4, ElementsJoined
  <2> QED
    BY <2>1, <2>2
<1> HIDE DEF ab
<1>6. abc \in Seq(S) /\ \A x : Holds(abc, x) <=> Holds(ab, x) \/ Holds(c, x)
  <2>1. abc \in Seq(S)
    BY <1>4, <1>5, JoinedPlaces
  <2>2. ASSUME NEW x PROVE Holds(abc, x) <=> Holds(ab, x) \/ Holds(c, x)
    BY <1>4, <1>5, ElementsJoined
  <2> QED
    BY <2>1, <2>2
<1> HIDE DEF abc
<1>7. abce \in Seq(S) /\ \A x : Holds(abce, x) <=> Holds(abc, x) \/ Holds(e, x)
  <2>1. abce \in Seq(S)
    BY <1>4, <1>6, JoinedPlaces
  <2>2. ASSUME NEW x PROVE Holds(abce, x) <=> Holds(abc, x) \/ Holds(e, x)
    BY <1>4, <1>6, ElementsJoined
  <2> QED
    BY <2>1, <2>2
<1> HIDE DEF abce
<1>8. ASSUME NEW x PROVE Holds(abce, x) <=> \E d \in names : x = <<action, d>>
  <2>1. Holds(abce, x) <=>
          \/ "down" \in names /\ x = <<action, "down">>
          \/ "left" \in names /\ x = <<action, "left">>
          \/ "right" \in names /\ x = <<action, "right">>
          \/ "up" \in names /\ x = <<action, "up">>
    BY <1>4, <1>5, <1>6, <1>7
  <2> QED
    BY <1>3, <2>1
<1>9. Edges(action, names) = abce
  BY <1>2 DEF abce, abc, ab
<1> QED
  BY <1>7, <1>8, <1>9 DEF S

\* A motion of the hat releases each direction it left, presses each one it
\* reached, and says nothing of the others.
LEMMA HatEdgesFacts ==
  ASSUME NEW hat \in SUBSET Directions, NEW event, event.hat \in SUBSET Directions
  PROVE  /\ HatEdges(hat, event) \in Seq({"down", "up"} \X Directions)
         /\ \A d : Holds(HatEdges(hat, event), <<"up", d>>) <=> d \in hat \ event.hat
         /\ \A d : Holds(HatEdges(hat, event), <<"down", d>>) <=> d \in event.hat \ hat
<1> DEFINE u == Edges("up", hat \ event.hat)
           w == Edges("down", event.hat \ hat)
           S == {"down", "up"} \X Directions
<1>1. /\ u \in Seq(S) /\ \A x : Holds(u, x) <=> \E d \in hat \ event.hat : x = <<"up", d>>
      /\ w \in Seq(S) /\ \A x : Holds(w, x) <=> \E d \in event.hat \ hat : x = <<"down", d>>
  <2>1. hat \ event.hat \in SUBSET Directions /\ event.hat \ hat \in SUBSET Directions
    OBVIOUS
  <2>2. u \in Seq(S) /\ \A x : Holds(u, x) <=> \E d \in hat \ event.hat : x = <<"up", d>>
    BY <2>1, EdgesFacts
  <2>3. w \in Seq(S) /\ \A x : Holds(w, x) <=> \E d \in event.hat \ hat : x = <<"down", d>>
    BY <2>1, EdgesFacts
  <2> QED
    BY <2>2, <2>3
<1>2. HatEdges(hat, event) = u \o w
  BY DEF HatEdges
<1> HIDE DEF u, w, S
<1>3. u \o w \in Seq(S)
  BY <1>1, JoinedPlaces
<1>4. ASSUME NEW d
      PROVE  /\ Holds(u \o w, <<"up", d>>) <=> d \in hat \ event.hat
             /\ Holds(u \o w, <<"down", d>>) <=> d \in event.hat \ hat
  <2>1. /\ Holds(u, <<"up", d>>) <=> d \in hat \ event.hat
        /\ Holds(w, <<"down", d>>) <=> d \in event.hat \ hat
        /\ ~Holds(u, <<"down", d>>) /\ ~Holds(w, <<"up", d>>)
    BY <1>1
  <2>2. /\ Holds(u \o w, <<"up", d>>) <=> Holds(u, <<"up", d>>) \/ Holds(w, <<"up", d>>)
        /\ Holds(u \o w, <<"down", d>>) <=> Holds(u, <<"down", d>>) \/ Holds(w, <<"down", d>>)
    BY <1>1, ElementsJoined
  <2> QED
    BY <2>1, <2>2
<1> QED
  BY <1>2, <1>3, <1>4 DEF S

\* What one host event is translated to, for a direction no key is mapped to.
LEMMA TranslatedFacts ==
  ASSUME NEW hat \in SUBSET Directions, NEW e \in HostEvents
  PROVE  /\ HatAfter(hat, e) \in SUBSET Directions
         /\ Translated(hat, e) \in Seq(Transition)
         /\ \A d : d \notin KeyNames =>
              /\ d \notin HatAfter(hat, e) => Unpressed(Translated(hat, e), d)
              /\ d \in hat /\ d \notin HatAfter(hat, e) => Released(Translated(hat, e), d)
              /\ d \in hat /\ d \in HatAfter(hat, e) => Unpressed(Translated(hat, e), d)
<1> DEFINE s == Translated(hat, e)
<1>1. \A d : Unpressed(s, d) <=> ~Holds(s, <<"down", d>>)
  BY DEF Unpressed, UnpressedTo, Holds
<1>2. ASSUME Len(s) \in Nat, NEW d, Holds(s, <<"up", d>>), Unpressed(s, d) PROVE Released(s, d)
  <2> HIDE DEF s
  <2>1. PICK i \in 1..Len(s) : s[i] = <<"up", d>>
    BY <1>2 DEF Holds
  <2>2. \A j \in (i + 1)..Len(s) : s[j] # <<"down", d>>
    BY <1>2 DEF Unpressed, UnpressedTo
  <2> QED
    BY <2>1, <2>2 DEF Released, ReleasedTo
<1>3. CASE e.type = "hat"
  <2>1. e.hat \in SUBSET Directions
    <3>1. e \in [type : {"hat"}, hat : HatPositions]
      BY <1>3 DEF HostEvents
    <3>2. \A p \in HatPositions : p \in SUBSET Directions
      BY DEF HatPositions, Directions
    <3> QED
      BY <3>1, <3>2
  <2>2. s = HatEdges(hat, e) /\ HatAfter(hat, e) = e.hat
    BY <1>3 DEF Translated, HatAfter
  <2>3. /\ s \in Seq({"down", "up"} \X Directions)
        /\ \A d : Holds(s, <<"up", d>>) <=> d \in hat \ e.hat
        /\ \A d : Holds(s, <<"down", d>>) <=> d \in e.hat \ hat
    <3>1. /\ HatEdges(hat, e) \in Seq({"down", "up"} \X Directions)
          /\ \A d : Holds(HatEdges(hat, e), <<"up", d>>) <=> d \in hat \ e.hat
          /\ \A d : Holds(HatEdges(hat, e), <<"down", d>>) <=> d \in e.hat \ hat
      BY <2>1, HatEdgesFacts
    <3> HIDE DEF s
    <3> QED
      BY <2>2, <3>1
  <2> HIDE DEF s
  <2>4. s \in Seq(Transition) /\ Len(s) \in Nat
    <3>1. {"down", "up"} \X Directions \subseteq Transition
      BY DEF Transition
    <3>2. Len(s) \in Nat /\ s = [i \in 1..Len(s) |-> s[i]]
          /\ \A i \in 1..Len(s) : s[i] \in {"down", "up"} \X Directions
      BY <2>3
    <3> QED
      BY <3>1, <3>2
  <2>5. \A d : /\ d \notin e.hat => Unpressed(s, d)
               /\ d \in hat /\ d \notin e.hat => Released(s, d)
               /\ d \in hat /\ d \in e.hat => Unpressed(s, d)
    BY <1>1, <1>2, <2>3, <2>4
  <2> QED
    BY <2>1, <2>2, <2>4, <2>5 DEF s
<1>4. CASE e.type # "hat"
  <2>1. e.type \in {"down", "up"} /\ e.key \in PhysicalKeys
    BY <1>4 DEF HostEvents
  <2>2. HatAfter(hat, e) = hat
    BY <1>4 DEF HatAfter
  <2>3. CASE KeyName[e.key] = NoName
    <3>1. s = <<>>
      BY <1>4, <2>3 DEF Translated
    <3>2. <<>> \in Seq(Transition) /\ Len(<<>>) = 0
      OBVIOUS
    <3>3. \A d : Unpressed(<<>>, d)
      BY <3>2 DEF Unpressed, UnpressedTo
    <3> QED
      BY <2>2, <3>1, <3>2, <3>3
  <2>4. CASE KeyName[e.key] # NoName
    <3> DEFINE x == <<e.type, KeyName[e.key]>>
    <3>1. s = <<x>>
      BY <1>4, <2>4 DEF Translated
    <3>2. x \in Transition
      BY <2>1 DEF Transition, KeyNames
    <3>3. \A d : d \notin KeyNames => x # <<"down", d>>
      BY <2>1 DEF KeyNames
    <3> HIDE DEF x
    <3>4. <<x>> \in Seq(Transition) /\ Len(<<x>>) = 1 /\ <<x>>[1] = x
      BY <3>2
    <3>5. \A d : d \notin KeyNames => Unpressed(<<x>>, d)
      BY <3>3, <3>4 DEF Unpressed, UnpressedTo
    <3> QED
      BY <2>2, <3>1, <3>4, <3>5
  <2> QED
    BY <2>3, <2>4
<1> QED
  BY <1>3, <1>4

\* A direction only the hat presses, after events that were polled.
Explained(hat, out, d) ==
  d \in hat \/ Released(out, d) \/ (d \notin hatKeys /\ Unpressed(out, d))

PollStates ==
  {acc \in [hat : SUBSET Directions, out : Seq(Transition)] :
     \A d : d \notin KeyNames => Explained(acc.hat, acc.out, d)}

\* One event of the host keeps the state of a poll well-formed.
LEMMA PollStepKept ==
  ASSUME NEW acc \in PollStates, NEW e \in HostEvents
  PROVE  PollStep(acc, e) \in PollStates
<1> DEFINE t == Translated(acc.hat, e)
           hat == HatAfter(acc.hat, e)
           out == acc.out \o t
           T == Seq(Transition)
<1>1. /\ acc.hat \in SUBSET Directions /\ acc.out \in Seq(Transition)
      /\ \A d : d \notin KeyNames => Explained(acc.hat, acc.out, d)
  BY DEF PollStates
<1>2. /\ hat \in SUBSET Directions /\ t \in Seq(Transition)
      /\ \A d : d \notin KeyNames =>
           /\ d \notin hat => Unpressed(t, d)
           /\ d \in acc.hat /\ d \notin hat => Released(t, d)
           /\ d \in acc.hat /\ d \in hat => Unpressed(t, d)
  BY <1>1, TranslatedFacts
<1> HIDE DEF t, hat
<1>3. out \in T
  BY <1>1, <1>2, JoinedPlaces
<1>4. ASSUME NEW d, d \notin KeyNames PROVE Explained(hat, out, d)
  <2>1. CASE d \in hat
    BY <2>1 DEF Explained
  <2>2. CASE d \notin hat /\ d \in acc.hat
    <3>1. Released(t, d)
      BY <1>2, <1>4, <2>2
    <3> QED
      BY <1>1, <1>2, <3>1, ReleasedJoined DEF Explained
  <2>3. CASE d \notin hat /\ d \notin acc.hat
    <3>1. Unpressed(t, d)
      BY <1>2, <1>4, <2>3
    <3>2. CASE Released(acc.out, d)
      BY <1>1, <1>2, <3>1, <3>2, ReleasedJoined DEF Explained
    <3>3. CASE d \notin hatKeys /\ Unpressed(acc.out, d)
      BY <1>1, <1>2, <3>1, <3>3, UnpressedJoined DEF Explained
    <3> QED
      BY <1>1, <1>4, <2>3, <3>2, <3>3 DEF Explained
  <2> QED
    BY <2>1, <2>2, <2>3
<1> HIDE DEF out, T
<1>5. PollStep(acc, e) = [hat |-> hat, out |-> out]
  BY DEF PollStep, hat, out, t
<1> DEFINE r == [hat |-> hat, out |-> out]
<1>6. r \in [hat : SUBSET Directions, out : T] /\ r.hat = hat /\ r.out = out
  BY <1>2, <1>3
<1> HIDE DEF r
<1>7. r \in PollStates
  BY <1>4, <1>6 DEF PollStates, T
<1> QED
  BY <1>5, <1>7 DEF r

\* So the events of a poll are typed, and what the hat pressed and left again
\* is released.
LEMMA PollFacts ==
  ASSUME hatKeys \in SUBSET Directions, NEW events \in Seq(HostEvents)
  PROVE  Poll(events) \in PollStates
<1> DEFINE base == [hat |-> hatKeys, out |-> <<>>]
           T == Seq(Transition)
<1>1. base \in PollStates
  <2>1. <<>> \in T /\ Len(<<>>) = 0
    OBVIOUS
  <2>2. \A d : Unpressed(<<>>, d)
    BY <2>1 DEF Unpressed, UnpressedTo
  <2>3. \A d : Explained(hatKeys, <<>>, d)
    BY <2>2 DEF Explained
  <2> HIDE DEF T
  <2>4. base \in [hat : SUBSET Directions, out : T] /\ base.hat = hatKeys /\ base.out = <<>>
    BY <2>1
  <2> HIDE DEF base
  <2> QED
    BY <2>3, <2>4 DEF PollStates, T
<1>2. \A acc \in PollStates, e \in HostEvents : PollStep(acc, e) \in PollStates
  BY PollStepKept
<1>3. PICK g \in [0..Len(events) -> PollStates] : Poll(events) = g[Len(events)]
  BY <1>1, <1>2, PollRuns
<1>4. Len(events) \in 0..Len(events)
  OBVIOUS
<1> QED
  BY <1>3, <1>4

-----------------------------------------------------------------------------
(* Keyboard: what the bridge makes of it.                                  *)

BridgeType ==
  [pressed : SUBSET ScanNames, downs : Nat, ups : Nat,
   raised : BOOLEAN, gameDown : SUBSET ScanNames, garbled : BOOLEAN]

\* What the bridge holds pressed is what the game was told, and nobody was
\* told anything by a queue without the methods.
BridgeOK(b) ==
  /\ b \in BridgeType /\ IsFiniteSet(b.pressed) /\ ~b.garbled
  /\ ~b.raised => b.gameDown = b.pressed /\ b.downs - b.ups = Cardinality(b.pressed)
  /\ b.raised => ~hasPush
  /\ ~hasPush => b.gameDown = {} /\ b.downs = 0 /\ b.ups = 0

\* A transition that is heeded, with a queue that has the methods.
LEMMA PushedFacts ==
  ASSUME NEW b, BridgeOK(b), NEW action \in {"down", "up"}, NEW name,
         ~b.raised, Heeds(b, action, name), hasPush
  PROVE  LET r == Bridged(b, <<action, name>>)
         IN  /\ BridgeOK(r) /\ ~r.raised
             /\ r.pressed = IF action = "down" THEN b.pressed \cup {name} ELSE b.pressed \ {name}
<1> DEFINE set == IF action = "down" THEN b.pressed \cup {name} ELSE b.pressed \ {name}
           dn == b.downs + (IF action = "down" THEN 1 ELSE 0)
           un == b.ups + (IF action = "up" THEN 1 ELSE 0)
           gb == b.garbled \/ ((name \in b.gameDown) = (action = "down"))
           gd == IF action = "down" THEN b.gameDown \cup {name} ELSE b.gameDown \ {name}
           r == [b EXCEPT !.pressed = set, !.downs = dn, !.ups = un, !.garbled = gb,
                          !.gameDown = gd]
<1>1. Bridged(b, <<action, name>>) = r
  <2>1. <<action, name>>[1] = action /\ <<action, name>>[2] = name
    OBVIOUS
  <2> QED
    BY <2>1 DEF Bridged
<1>2. /\ b \in BridgeType /\ IsFiniteSet(b.pressed) /\ ~b.garbled
      /\ b.gameDown = b.pressed /\ b.downs - b.ups = Cardinality(b.pressed)
  BY DEF BridgeOK
<1>3. /\ b.pressed \in SUBSET ScanNames /\ b.downs \in Nat /\ b.ups \in Nat
      /\ b.gameDown \in SUBSET ScanNames /\ b.garbled = FALSE
  BY <1>2 DEF BridgeType
<1>4. name \in ScanNames /\ (action = "down" <=> name \notin b.pressed)
  BY DEF Heeds
<1>5. set \in SUBSET ScanNames /\ dn \in Nat /\ un \in Nat /\ gd = set
  BY <1>2, <1>3, <1>4
<1>6. gb = FALSE
  <2>1. CASE action = "down"
    <3>1. name \notin b.gameDown
      BY <1>2, <1>4, <2>1
    <3> QED
      BY <1>3, <2>1, <3>1
  <2>2. CASE action # "down"
    <3>1. name \in b.gameDown
      BY <1>2, <1>4, <2>2
    <3> QED
      BY <1>3, <2>2, <3>1
  <2> QED
    BY <2>1, <2>2
<1>7. IsFiniteSet(set) /\ dn - un = Cardinality(set)
  <2>1. CASE action = "down"
    <3>1. /\ IsFiniteSet(b.pressed \cup {name})
          /\ Cardinality(b.pressed \cup {name}) = Cardinality(b.pressed) + 1
      BY <1>2, <1>4, <2>1, FS_AddElement
    <3>2. dn - un = b.downs - b.ups + 1
      BY <1>3, <2>1
    <3> QED
      BY <1>2, <2>1, <3>1, <3>2
  <2>2. CASE action # "down"
    <3>1. /\ IsFiniteSet(b.pressed \ {name})
          /\ Cardinality(b.pressed \ {name}) = Cardinality(b.pressed) - 1
      BY <1>2, <1>4, <2>2, FS_RemoveElement
    <3>2. dn - un = b.downs - b.ups - 1
      BY <1>3, <2>2
    <3> QED
      BY <1>2, <2>2, <3>1, <3>2
  <2> QED
    BY <2>1, <2>2
<1> HIDE DEF set, dn, un, gb, gd
<1>8. /\ r \in BridgeType /\ r.pressed = set /\ r.downs = dn /\ r.ups = un
      /\ r.garbled = FALSE /\ r.gameDown = set /\ r.raised = b.raised
  BY <1>2, <1>5, <1>6 DEF BridgeType
<1> HIDE DEF r
<1>9. BridgeOK(r) /\ ~r.raised /\ r.pressed = set
  BY <1>7, <1>8 DEF BridgeOK
<1> QED
  BY <1>1, <1>9 DEF set

\* A transition that is heeded, with the queue of this repository.
LEMMA RaisedFacts ==
  ASSUME NEW b, BridgeOK(b), NEW action, NEW name,
         ~b.raised, Heeds(b, action, name), ~hasPush
  PROVE  LET r == Bridged(b, <<action, name>>)
         IN  BridgeOK(r) /\ r.raised
<1> DEFINE set == IF action = "down" THEN b.pressed \cup {name} ELSE b.pressed \ {name}
           r == [b EXCEPT !.pressed = set, !.raised = TRUE]
<1>1. Bridged(b, <<action, name>>) = r
  <2>1. <<action, name>>[1] = action /\ <<action, name>>[2] = name
    OBVIOUS
  <2> QED
    BY <2>1 DEF Bridged
<1>2. /\ b \in BridgeType /\ IsFiniteSet(b.pressed) /\ ~b.garbled
      /\ b.gameDown = {} /\ b.downs = 0 /\ b.ups = 0
  BY DEF BridgeOK
<1>3. name \in ScanNames /\ b.pressed \in SUBSET ScanNames
  BY <1>2 DEF Heeds, BridgeType
<1>4. set \in SUBSET ScanNames
  BY <1>3
<1>5. IsFiniteSet(set)
  BY <1>2, FS_AddElement, FS_RemoveElement
<1> HIDE DEF set
<1>6. /\ r \in BridgeType /\ r.pressed = set /\ r.raised
      /\ r.downs = b.downs /\ r.ups = b.ups /\ r.garbled = b.garbled /\ r.gameDown = b.gameDown
  BY <1>2, <1>4 DEF BridgeType
<1> HIDE DEF r
<1>7. BridgeOK(r) /\ r.raised
  BY <1>2, <1>5, <1>6 DEF BridgeOK
<1> QED
  BY <1>1, <1>7

BridgeStates == {b \in BridgeType : BridgeOK(b)}

\* Whatever the transition, the two agree afterwards; and a key is pressed
\* only if it was, or if it has just been pressed.
LEMMA BridgedKept ==
  ASSUME NEW b \in BridgeStates, NEW x \in Transition
  PROVE  /\ Bridged(b, x) \in BridgeStates
         /\ b.raised => Bridged(b, x).raised
         /\ ~Bridged(b, x).raised =>
              \A d \in Bridged(b, x).pressed :
                 x = <<"down", d>> \/ (d \in b.pressed /\ x # <<"up", d>>)
<1>1. PICK action \in {"down", "up"}, name \in Directions \cup KeyNames : x = <<action, name>>
  BY DEF Transition
<1>2. x[1] = action /\ x[2] = name
  BY <1>1
<1>3. BridgeOK(b)
  BY DEF BridgeStates
<1>4. CASE b.raised \/ ~Heeds(b, action, name)
  <2>1. Bridged(b, x) = b
    BY <1>2, <1>4 DEF Bridged
  <2>2. ASSUME ~b.raised, NEW d \in b.pressed, x = <<"up", d>> PROVE FALSE
    <3>1. action = "up" /\ name = d
      BY <1>1, <2>2
    <3>2. d \in ScanNames
      BY <1>3, <2>2 DEF BridgeOK, BridgeType
    <3> QED
      BY <1>4, <2>2, <3>1, <3>2 DEF Heeds
  <2> QED
    BY <2>1, <2>2
<1>5. CASE ~b.raised /\ Heeds(b, action, name) /\ hasPush
  <2> DEFINE r == Bridged(b, <<action, name>>)
  <2>1. /\ BridgeOK(r) /\ ~r.raised
        /\ r.pressed = IF action = "down" THEN b.pressed \cup {name} ELSE b.pressed \ {name}
    BY <1>3, <1>5, PushedFacts, SMTT(30)
  <2>2. r = Bridged(b, x)
    BY <1>1
  <2> HIDE DEF r
  <2>3. r \in BridgeStates
    BY <2>1 DEF BridgeOK, BridgeStates
  <2>4. ASSUME NEW d \in r.pressed PROVE x = <<"down", d>> \/ (d \in b.pressed /\ x # <<"up", d>>)
    BY <1>1, <2>1, <2>4
  <2> QED
    BY <1>5, <2>2, <2>3, <2>4
<1>6. CASE ~b.raised /\ Heeds(b, action, name) /\ ~hasPush
  <2> DEFINE r == Bridged(b, <<action, name>>)
  <2>1. BridgeOK(r) /\ r.raised
    BY <1>3, <1>6, RaisedFacts
  <2>2. r = Bridged(b, x)
    BY <1>1
  <2> HIDE DEF r
  <2>3. r \in BridgeStates
    BY <2>1 DEF BridgeOK, BridgeStates
  <2> QED
    BY <2>1, <2>2, <2>3
<1> QED
  BY <1>4, <1>5, <1>6

\* Everything one poll yielded, fed to the bridge.
LEMMA FedFacts ==
  ASSUME NEW b \in BridgeStates, NEW out \in Seq(Transition)
  PROVE  LET r == Fed(b, out)
         IN  /\ r \in BridgeStates
             /\ b.raised => r.raised
             /\ ~r.raised => \A d : \/ Released(out, d)
                                    \/ d \notin b.pressed /\ Unpressed(out, d)
                                    => d \notin r.pressed
<1> DEFINE n == Len(out)
<1>1. PICK g \in [0..n -> BridgeStates] :
        /\ g[0] = b
        /\ \A k \in 1..n : g[k] = Bridged(g[k - 1], out[k])
        /\ Fed(b, out) = g[n]
  <2>1. \A c \in BridgeStates, x \in Transition : Bridged(c, x) \in BridgeStates
    BY BridgedKept
  <2> QED
    BY <2>1, BridgedRuns, SMTT(30)
<1>2. n \in Nat /\ \A k \in 1..n : out[k] \in Transition
  OBVIOUS
<1> DEFINE Fine(k) ==
             /\ b.raised => g[k].raised
             /\ ~g[k].raised =>
                  \A d \in g[k].pressed : /\ ~ReleasedTo(out, k, d)
                                          /\ d \in b.pressed \/ ~UnpressedTo(out, k, d)
           G == {k \in 0..n : Fine(k)}
<1> HIDE DEF n
<1>3. 0 \in G
  <2>1. \A d : ~ReleasedTo(out, 0, d)
    BY DEF ReleasedTo
  <2> QED
    BY <1>1, <1>2, <2>1
<1>4. ASSUME NEW k \in 1..n, k - 1 \in G
      PROVE  k \in G
  <2>1. k - 1 \in 0..n /\ k \in 0..n /\ g[k - 1] \in BridgeStates /\ out[k] \in Transition
    BY <1>1, <1>2
  <2>2. Fine(k - 1)
    BY <1>4
  <2>3. /\ g[k - 1].raised => g[k].raised
        /\ ~g[k].raised =>
             \A d \in g[k].pressed :
                out[k] = <<"down", d>> \/ (d \in g[k - 1].pressed /\ out[k] # <<"up", d>>)
    <3> DEFINE c == g[k - 1]
               x == out[k]
    <3>1. g[k] = Bridged(c, x)
      BY <1>1
    <3>2. c \in BridgeStates /\ x \in Transition
      BY <2>1
    <3> HIDE DEF c, x
    <3>3. /\ c.raised => Bridged(c, x).raised
          /\ ~Bridged(c, x).raised =>
               \A d \in Bridged(c, x).pressed :
                  x = <<"down", d>> \/ (d \in c.pressed /\ x # <<"up", d>>)
      BY <3>2, BridgedKept
    <3>4. /\ c.raised => g[k].raised
          /\ ~g[k].raised => \A d \in g[k].pressed :
                               x = <<"down", d>> \/ (d \in c.pressed /\ x # <<"up", d>>)
      BY <3>1, <3>3
    <3> QED
      BY <3>4 DEF c, x
  <2>4. ASSUME ~g[k].raised, NEW d \in g[k].pressed
        PROVE  /\ ~ReleasedTo(out, k, d)
               /\ d \in b.pressed \/ ~UnpressedTo(out, k, d)
    <3>1. k \in Nat /\ k >= 1 /\ k \in 1..k
      BY <1>2
    <3>2. CASE out[k] = <<"down", d>>
      <4>1. ~UnpressedTo(out, k, d)
        BY <3>1, <3>2 DEF UnpressedTo
      <4>2. ASSUME NEW i \in 1..k, out[i] = <<"up", d>>,
                   \A j \in (i + 1)..k : out[j] # <<"down", d>>
            PROVE  FALSE
        <5>1. i # k
          BY <3>2, <4>2
        <5>2. k \in (i + 1)..k
          BY <3>1, <5>1
        <5> QED
          BY <3>2, <4>2, <5>2
      <4> QED
        BY <4>1, <4>2 DEF ReleasedTo
    <3>3. CASE d \in g[k - 1].pressed /\ out[k] # <<"up", d>>
      <4>1. ~ReleasedTo(out, k - 1, d) /\ (d \in b.pressed \/ ~UnpressedTo(out, k - 1, d))
        BY <2>2, <2>3, <2>4, <3>3
      <4>2. ASSUME NEW i \in 1..k, out[i] = <<"up", d>>,
                   \A j \in (i + 1)..k : out[j] # <<"down", d>>
            PROVE  FALSE
        <5>1. i # k
          BY <3>3, <4>2
        <5>2. i \in 1..(k - 1) /\ \A j \in (i + 1)..(k - 1) : j \in (i + 1)..k
          BY <3>1, <5>1
        <5> QED
          BY <4>1, <4>2, <5>2 DEF ReleasedTo
      <4>3. ~UnpressedTo(out, k - 1, d) => ~UnpressedTo(out, k, d)
        <5>1. 1..(k - 1) \subseteq 1..k
          BY <3>1
        <5> QED
          BY <5>1 DEF UnpressedTo
      <4> QED
        BY <4>1, <4>2, <4>3 DEF ReleasedTo
    <3> QED
      BY <2>3, <2>4, <3>2, <3>3
  <2>5. Fine(k)
    BY <2>2, <2>3, <2>4
  <2> HIDE DEF Fine
  <2> QED
    BY <2>1, <2>5
<1> HIDE DEF G
<1>5. G = 0..n
  <2>1. G \in SUBSET (0..n)
    BY DEF G
  <2> QED
    BY <1>2, <1>3, <1>4, <2>1, PositionInduction
<1>6. n \in 0..n
  BY <1>2
<1>7. Fine(n) /\ g[n] \in BridgeStates
  BY <1>5, <1>6 DEF G
<1> QED
  BY <1>1, <1>7 DEF n, Released, Unpressed

KeysInv ==
  /\ hatKeys \in SUBSET Directions
  /\ BridgeOK(Bridge)
  /\ NoDirectionSticks

\* The bridge after a poll or a release of everything.
LEMMA BecomeKept ==
  ASSUME NEW b, BridgeOK(b), Become(b), UNCHANGED hasPush
  PROVE  /\ BridgeOK(Bridge)'
         /\ pressed' = b.pressed /\ raised' = b.raised
<1>1. /\ pressed' = b.pressed /\ downs' = b.downs /\ ups' = b.ups
      /\ raised' = b.raised /\ gameDown' = b.gameDown /\ garbled' = b.garbled
  BY DEF Become
<1>2. /\ b \in BridgeType /\ IsFiniteSet(b.pressed) /\ ~b.garbled
      /\ ~b.raised => b.gameDown = b.pressed /\ b.downs - b.ups = Cardinality(b.pressed)
      /\ b.raised => ~hasPush
      /\ ~hasPush => b.gameDown = {} /\ b.downs = 0 /\ b.ups = 0
  BY DEF BridgeOK
<1>3. /\ b.pressed \in SUBSET ScanNames /\ b.downs \in Nat /\ b.ups \in Nat
      /\ b.raised \in BOOLEAN /\ b.gameDown \in SUBSET ScanNames /\ b.garbled \in BOOLEAN
  BY <1>2 DEF BridgeType
<1> DEFINE r == [pressed |-> b.pressed, downs |-> b.downs, ups |-> b.ups,
                 raised |-> b.raised, gameDown |-> b.gameDown, garbled |-> b.garbled]
<1>4. Bridge' = r
  BY <1>1 DEF Bridge
<1>5. /\ r \in BridgeType
      /\ r.pressed = b.pressed /\ r.downs = b.downs /\ r.ups = b.ups
      /\ r.raised = b.raised /\ r.gameDown = b.gameDown /\ r.garbled = b.garbled
  BY <1>3 DEF BridgeType
<1> HIDE DEF r
<1>6. BridgeOK(r)
  BY <1>2, <1>5 DEF BridgeOK
<1>7. BridgeOK(r)'
  BY <1>6 DEF BridgeOK
<1> QED
  BY <1>1, <1>4, <1>7

\* The record Bridge is the variables of the bridge.
LEMMA BridgeFields ==
  /\ Bridge.pressed = pressed /\ Bridge.downs = downs /\ Bridge.ups = ups
  /\ Bridge.raised = raised /\ Bridge.gameDown = gameDown /\ Bridge.garbled = garbled
  BY DEF Bridge

\* A poll: what the hat has left is not pressed any more.
LEMMA PumpKept ==
  ASSUME KeysInv, NEW events \in Seq(HostEvents), Pump(events)
  PROVE  KeysInv'
<1> DEFINE polled == Poll(events)
           r == Fed(Bridge, polled.out)
<1>1. /\ ~raised /\ hatKeys' = polled.hat /\ Become(r) /\ UNCHANGED hasPush
  BY DEF Pump, Fed
<1>2. /\ hatKeys \in SUBSET Directions /\ BridgeOK(Bridge) /\ NoDirectionSticks
  BY DEF KeysInv
<1>3. polled \in PollStates
  BY <1>2, PollFacts
<1> HIDE DEF polled
<1>4. /\ polled.hat \in SUBSET Directions /\ polled.out \in Seq(Transition)
      /\ \A d : d \notin KeyNames => Explained(polled.hat, polled.out, d)
  BY <1>3 DEF PollStates
<1>5. Bridge \in BridgeStates
  BY <1>2 DEF BridgeOK, BridgeStates
<1> DEFINE out == polled.out
<1>6. /\ r \in BridgeStates
      /\ ~r.raised => \A d : \/ Released(out, d)
                             \/ d \notin Bridge.pressed /\ Unpressed(out, d)
                             => d \notin r.pressed
  BY <1>4, <1>5, FedFacts
<1> HIDE DEF out, r
<1>7. BridgeOK(r)
  BY <1>6 DEF BridgeStates
<1>8. BridgeOK(Bridge)' /\ pressed' = r.pressed /\ raised' = r.raised
  BY <1>1, <1>7, BecomeKept
<1>9. ASSUME ~raised', NEW d \in pressed' \cap Directions, d \notin KeyNames
      PROVE  d \in hatKeys'
  <2>1. ~Released(out, d) /\ (d \in Bridge.pressed \/ ~Unpressed(out, d))
    BY <1>6, <1>8, <1>9
  <2>2. d \in polled.hat \/ Released(out, d) \/ (d \notin hatKeys /\ Unpressed(out, d))
    BY <1>4, <1>9 DEF Explained, out
  <2>3. d \in pressed => d \in hatKeys
    BY <1>1, <1>2, <1>9 DEF NoDirectionSticks, KeyNames
  <2>4. Bridge.pressed = pressed
    BY BridgeFields
  <2> QED
    BY <1>1, <2>1, <2>2, <2>3, <2>4
<1>10. NoDirectionSticks'
  BY <1>9 DEF NoDirectionSticks, KeyNames
<1> QED
  BY <1>1, <1>4, <1>8, <1>10 DEF KeysInv

\* Everything is released.
LEMMA ReleaseKept == KeysInv /\ ReleaseAll => KeysInv'
<1> SUFFICES ASSUME KeysInv, ReleaseAll PROVE KeysInv'
  OBVIOUS
<1>1. /\ hatKeys \in SUBSET Directions /\ BridgeOK(Bridge) /\ NoDirectionSticks
      /\ ~raised /\ UNCHANGED <<hatKeys, hasPush>>
  BY DEF KeysInv, ReleaseAll
<1>2. /\ pressed \in SUBSET ScanNames /\ downs \in Nat /\ ups \in Nat
      /\ gameDown = pressed /\ garbled = FALSE /\ IsFiniteSet(pressed)
      /\ downs - ups = Cardinality(pressed) /\ Bridge \in BridgeType
      /\ ~hasPush => gameDown = {} /\ downs = 0 /\ ups = 0
  <2>1. /\ Bridge \in BridgeType /\ IsFiniteSet(Bridge.pressed) /\ ~Bridge.garbled
        /\ ~Bridge.raised => /\ Bridge.gameDown = Bridge.pressed
                             /\ Bridge.downs - Bridge.ups = Cardinality(Bridge.pressed)
        /\ ~hasPush => Bridge.gameDown = {} /\ Bridge.downs = 0 /\ Bridge.ups = 0
    BY <1>1 DEF BridgeOK
  <2>2. /\ Bridge.pressed \in SUBSET ScanNames /\ Bridge.downs \in Nat /\ Bridge.ups \in Nat
        /\ Bridge.garbled \in BOOLEAN
    BY <2>1 DEF BridgeType
  <2> QED
    BY <1>1, <2>1, <2>2, BridgeFields
<1>3. CASE pressed # {} /\ ~hasPush
  BY <1>1, <1>2, <1>3
<1>4. CASE ~(pressed # {} /\ ~hasPush)
  <2> DEFINE r == [Bridge EXCEPT !.pressed = {}, !.ups = @ + Cardinality(pressed),
                    !.gameDown = @ \ pressed, !.garbled = @ \/ ~(pressed \subseteq gameDown)]
             u == ups + Cardinality(pressed)
  <2>1. Become(r)
    BY <1>4 DEF ReleaseAll
  <2>2. Cardinality(pressed) \in Nat /\ (pressed = {} => Cardinality(pressed) = 0)
    BY <1>2, FS_CardinalityType, FS_EmptySet
  <2>3. IsFiniteSet({}) /\ Cardinality({}) = 0
    BY FS_EmptySet
  <2>4. u \in Nat /\ downs - u = 0 /\ (~hasPush => u = 0)
    BY <1>2, <1>4, <2>2
  <2>5. r = [Bridge EXCEPT !.pressed = {}, !.ups = u, !.gameDown = {}, !.garbled = FALSE]
    <3>1. Bridge.gameDown \ pressed = {}
      BY <1>2, BridgeFields
    <3>2. (Bridge.garbled \/ ~(pressed \subseteq gameDown)) = FALSE
      BY <1>2, BridgeFields
    <3> QED
      BY <3>1, <3>2, BridgeFields
  <2> HIDE DEF u, r
  <2>6. /\ r \in BridgeType /\ r.pressed = {} /\ r.downs = Bridge.downs /\ r.ups = u
        /\ r.raised = Bridge.raised /\ r.gameDown = {} /\ r.garbled = FALSE
    BY <1>2, <2>4, <2>5 DEF BridgeType
  <2>7. BridgeOK(r)
    BY <1>1, <1>2, <2>3, <2>4, <2>6, BridgeFields DEF BridgeOK
  <2>8. BridgeOK(Bridge)' /\ pressed' = {}
    BY <1>1, <2>1, <2>6, <2>7, BecomeKept
  <2> QED
    BY <1>1, <2>8 DEF KeysInv, NoDirectionSticks
<1> QED
  BY <1>3, <1>4

\* Initially nothing is pressed.
LEMMA KeysInvStart == InputInit \/ InputAtRest => KeysInv
<1> SUFFICES ASSUME InputInit \/ InputAtRest PROVE KeysInv
  OBVIOUS
<1>1. /\ hatKeys = {} /\ pressed = {} /\ downs = 0 /\ ups = 0
      /\ raised = FALSE /\ gameDown = {} /\ garbled = FALSE
  BY DEF InputInit, InputAtRest
<1>2. IsFiniteSet({}) /\ Cardinality({}) = 0
  BY FS_EmptySet
<1>3. Bridge \in BridgeType
  BY <1>1 DEF Bridge, BridgeType
<1>4. BridgeOK(Bridge)
  BY <1>1, <1>2, <1>3, BridgeFields DEF BridgeOK
<1> QED
  BY <1>1, <1>4 DEF KeysInv, NoDirectionSticks

\* A step of another part keeps it.
LEMMA KeysUntouched == KeysInv /\ UNCHANGED inputVars => KeysInv'
<1> SUFFICES ASSUME KeysInv, UNCHANGED inputVars PROVE KeysInv'
  OBVIOUS
<1>1. /\ UNCHANGED <<hatKeys, pressed, raised, hasPush>> /\ Bridge' = Bridge
  BY DEF inputVars, Bridge
<1>2. (BridgeOK(Bridge))' = BridgeOK(Bridge)
  BY <1>1 DEF BridgeOK
<1> QED
  BY <1>1, <1>2 DEF KeysInv, NoDirectionSticks

\* It holds in every reachable state.
LEMMA KeysInvHolds == FrontSpec => []KeysInv
<1>1. FrontInit => KeysInv
  BY KeysInvStart DEF FrontInit
<1>2. KeysInv /\ [FrontNext]_frontVars => KeysInv'
  <2> SUFFICES ASSUME KeysInv, [FrontNext]_frontVars PROVE KeysInv'
    OBVIOUS
  <2>1. ASSUME NEW n \in 1..BatchSize, NEW events \in [1..n -> HostEvents], Pump(events)
        PROVE  KeysInv'
    <3>1. n \in Nat
      OBVIOUS
    <3>2. events \in Seq(HostEvents)
      BY <3>1
    <3> QED
      BY <2>1, <3>2, PumpKept
  <2>2. CASE ReleaseAll
    BY <2>2, ReleaseKept
  <2>3. CASE ClockNext
    <3>1. UNCHANGED inputVars
      BY <2>3 DEF ClockNext, NoteAfter, Instruction, HomeTime
    <3> QED
      BY <3>1, KeysUntouched
  <2>4. CASE UNCHANGED inputVars
    BY <2>4, KeysUntouched
  <2> QED
    BY <2>1, <2>2, <2>3, <2>4 DEF FrontNext, InputNext, frontVars
<1> QED
  BY <1>1, <1>2, PTL DEF FrontSpec

\* Whatever keys, buttons and hats the host reports, in batches of any size
\* and with releases of everything in between: the game is told of presses and
\* releases of a key in turn, what the bridge holds pressed is what the game
\* was told is down, no direction sticks behind the hat, and the time never
\* goes back (presenter.py:201-229, host_input.py:14-45, clock.py:44-58).
THEOREM HostSoundHolds == FrontSpec => []HostSound
<1>1. KeysInv => KeysAlternate /\ NoDirectionSticks
  <2> SUFFICES ASSUME KeysInv PROVE KeysAlternate
    BY DEF KeysInv
  <2>1. /\ ~Bridge.garbled
        /\ ~Bridge.raised => /\ Bridge.gameDown = Bridge.pressed
                             /\ Bridge.downs - Bridge.ups = Cardinality(Bridge.pressed)
        /\ ~hasPush => Bridge.gameDown = {} /\ Bridge.downs = 0 /\ Bridge.ups = 0
    BY DEF KeysInv, BridgeOK
  <2> QED
    BY <2>1, BridgeFields DEF KeysAlternate
<1>2. KeysAlternate /\ NoDirectionSticks /\ ClockNeverBack => HostSound
  BY DEF HostSound
<1> QED
  BY <1>1, <1>2, KeysInvHolds, ClockNeverBackHolds, PTL

-----------------------------------------------------------------------------
(* Region view: the part that is shown, and the sprites.                   *)

\* What is drawn is one of the inputs of its kind.
JobInv ==
  /\ job.kind = "view" => job.in \in Views
  /\ job.kind = "sprite" => job.in \in Sprites
  /\ job.kind = "list" => job.in \in Lists

\* In every reachable state what is drawn is one of them.
LEMMA JobInvHolds == FrontSpec => []JobInv
<1>1. FrontInit => JobInv
  BY DEF FrontInit, PixelInit, JobInv
<1>2. JobInv /\ [FrontNext]_frontVars => JobInv'
  <2> SUFFICES ASSUME JobInv, [FrontNext]_frontVars PROVE JobInv'
    OBVIOUS
  <2>1. ASSUME NEW k \in {"sprite", "view", "list"}, NEW x, Compute(k, x),
               k = "view" => x \in Views, k = "sprite" => x \in Sprites,
               k = "list" => x \in Lists
        PROVE  JobInv'
    <3>1. job'.kind = k /\ job'.in = x
      BY <2>1 DEF Compute
    <3> QED
      BY <3>1, <2>1 DEF JobInv
  <2>2. ASSUME NEW b \in Blits, OnSetup(b) PROVE JobInv'
    <3>1. job'.kind = "blit"
      BY <2>2 DEF OnSetup
    <3> QED
      BY <3>1 DEF JobInv
  <2>3. CASE job' = job
    BY <2>3 DEF JobInv
  <2>4. CASE PixelNext
    <3>1. ASSUME NEW s \in Sprites, Compute("sprite", s) PROVE JobInv'
      BY <3>1, <2>1
    <3>2. ASSUME NEW v \in Views, Compute("view", v) PROVE JobInv'
      BY <3>2, <2>1
    <3>3. ASSUME NEW l \in Lists, Compute("list", l) PROVE JobInv'
      BY <3>3, <2>1
    <3>4. CASE OnWrite \/ OnExit
      BY <3>4, <2>3 DEF OnWrite, OnExit
    <3> QED
      BY <2>4, <2>2, <3>1, <3>2, <3>3, <3>4 DEF PixelNext
  <2> QED
    BY <2>3, <2>4 DEF FrontNext, frontVars, pixelVars
<1> QED
  BY <1>1, <1>2, PTL DEF FrontSpec

\* A region at least as wide as the least view is never left by the view, and
\* the middle of the game's screen is in the view when it is in the region.
LEMMA ViewFits ==
  ASSUME NEW v \in Views, v.region >= MinView
  PROVE  LET middle == v.camera + HalfScreen
         IN  /\ View(v).from >= 0 /\ View(v).from + View(v).width <= v.region
             /\ middle \in 0 .. (v.region - 1) =>
                  middle \in View(v).from .. (View(v).from + View(v).width - 1)
<1> DEFINE wanted == IF v.view = 0 THEN v.region ELSE v.view
           width == Max({MinView, Min({v.region, wanted})})
           place == v.camera + HalfScreen - width \div 2
           from == Max({0, Min({v.region - width, place})})
<1>1. /\ v.region \in Nat /\ v.view \in Nat /\ v.camera \in Int /\ HalfScreen \in Nat
      /\ MinView \in Nat \ {0} /\ wanted \in Nat
  BY PixelAssumption DEF Views
<1> HIDE DEF wanted
<1>2. width \in Nat /\ width >= 1 /\ width <= v.region
  <2> DEFINE least == Min({v.region, wanted})
  <2>1. least = IF v.region <= wanted THEN v.region ELSE wanted
    BY <1>1, MinOfTwo
  <2> HIDE DEF least
  <2>2. least \in Nat /\ least <= v.region
    BY <1>1, <2>1
  <2>3. Max({MinView, least}) = IF MinView >= least THEN MinView ELSE least
    BY <1>1, <2>2, MaxOfTwo
  <2> QED
    BY <1>1, <2>2, <2>3 DEF least
<1>3. View(v).from = from /\ View(v).width = width
  BY DEF View, wanted
<1> HIDE DEF width
<1>4. width \div 2 \in Nat /\ width \div 2 <= width - 1 /\ place \in Int
  BY <1>1, <1>2
<1>5. from = IF place < 0 THEN 0 ELSE IF place > v.region - width THEN v.region - width ELSE place
  <2> DEFINE lesser == Min({v.region - width, place})
  <2> HIDE DEF place
  <2>1. lesser = IF v.region - width <= place THEN v.region - width ELSE place
    BY <1>1, <1>2, <1>4, MinOfTwo
  <2> HIDE DEF lesser
  <2>2. lesser \in Int
    BY <2>1, <1>1, <1>2, <1>4
  <2>3. Max({0, lesser}) = IF 0 >= lesser THEN 0 ELSE lesser
    BY <2>2, MaxOfTwo
  <2> QED
    BY <2>1, <2>3, <1>1, <1>2, <1>4 DEF lesser
<1> HIDE DEF from
<1> QED
  BY <1>1, <1>2, <1>3, <1>4, <1>5

\* The view stays inside the region and shows the middle of the game's own
\* screen, for every region of at least MinView, 32 pixels in the code, and
\* every place of the camera.  A smaller region the code widens to 32 pixels:
\* of it nothing is claimed (region_view.py:290-303).
THEOREM ViewStaysInsideHolds ==
  ASSUME \A r \in RegionSizes : r >= MinView
  PROVE  FrontSpec => []ViewStaysInside
<1>1. JobInv => ViewStaysInside
  <2> SUFFICES ASSUME JobInv, job.kind = "view" PROVE ViewStaysInside
    BY DEF ViewStaysInside
  <2>1. job.in \in Views /\ job.in.region >= MinView
    BY DEF JobInv, Views
  <2> QED
    BY <2>1, ViewFits DEF ViewStaysInside
<1> QED
  BY <1>1, JobInvHolds, PTL

\* The tile that is j-th from the left lies between the ends of the sprite.
LEMMA TileInSprite ==
  ASSUME NEW n \in Nat, NEW j \in 0 .. (n - 1)
  PROVE  /\ j * Tile \in Nat /\ n * Tile \in Nat /\ j * Tile + Tile <= n * Tile
         /\ (n - 1 - j) * Tile = n * Tile - Tile - j * Tile
<1>1. Tile \in Nat /\ j \in Nat /\ n - 1 - j \in Nat
  BY PixelAssumption
<1>2. \A a, b \in Nat : a * b \in Nat
  OBVIOUS
<1>3. (n - 1 - j) * Tile = n * Tile - Tile - j * Tile
  BY <1>1
<1>4. j * Tile \in Nat /\ n * Tile \in Nat /\ (n - 1 - j) * Tile \in Nat
  BY <1>1, <1>2
<1> QED
  BY <1>1, <1>3, <1>4

\* The columns of a tile that lie on the canvas.
LEMMA ClipIs ==
  ASSUME NEW dx \in Int
  PROVE  \A p : p \in Clip(dx) <=> /\ p \in Int /\ 0 <= p /\ p < CanvasSize
                                   /\ dx <= p /\ p < dx + Tile
BY PixelAssumption DEF Clip

\* The j-th tile from the left is tile i of the sprite, or of its mirror image.
LEMMA TilePlace ==
  ASSUME NEW s \in Sprites, NEW i \in 0 .. (s.n - 1)
  PROVE  LET j == IF s.flip THEN s.n - 1 - i ELSE i
         IN  /\ j \in 0 .. (s.n - 1) /\ s.n \in Nat /\ s.at \in Int /\ s.flip \in BOOLEAN
             /\ TileAt(s, i) = j * Tile + s.at
             /\ i * Tile = IF s.flip THEN s.n * Tile - Tile - j * Tile ELSE j * Tile
<1>1. s.n \in Nat /\ s.at \in Int /\ s.flip \in BOOLEAN
  BY PixelAssumption DEF Sprites
<1>2. (s.n - 1 - i) * Tile = s.n * Tile - Tile - i * Tile /\ s.n * Tile \in Nat /\ i * Tile \in Nat
  BY <1>1, TileInSprite
<1>3. Tile \in Nat
  BY PixelAssumption
<1> QED
  BY <1>1, <1>2, <1>3 DEF TileAt

\* What is painted at place p belongs there.
LEMMA PaintedRight ==
  ASSUME NEW s \in Sprites, NEW i \in 0 .. (s.n - 1), NEW p \in Clip(TileAt(s, i))
  PROVE  /\ p \in 0 .. (CanvasSize - 1) /\ p >= s.at /\ p < s.at + s.n * Tile
         /\ i * Tile + (IF s.flip THEN Tile - 1 - (p - TileAt(s, i)) ELSE p - TileAt(s, i))
              = IF s.flip THEN s.n * Tile - 1 - (p - s.at) ELSE p - s.at
<1> DEFINE j == IF s.flip THEN s.n - 1 - i ELSE i
           dx == TileAt(s, i)
           jt == j * Tile
           it == i * Tile
           nt == s.n * Tile
<1>1. /\ j \in 0 .. (s.n - 1) /\ s.n \in Nat /\ s.at \in Int /\ s.flip \in BOOLEAN
      /\ dx = jt + s.at
      /\ it = IF s.flip THEN nt - Tile - jt ELSE jt
  BY TilePlace
<1> HIDE DEF j
<1>2. jt \in Nat /\ nt \in Nat /\ jt + Tile <= nt
  BY <1>1, TileInSprite
<1>3. Tile \in Nat /\ Tile >= 1 /\ CanvasSize \in Nat
  BY PixelAssumption
<1> HIDE DEF jt, nt, it
<1>4. dx \in Int
  BY <1>1, <1>2
<1> HIDE DEF dx
<1>5. p \in Int /\ 0 <= p /\ p < CanvasSize /\ dx <= p /\ p < dx + Tile
  BY <1>4, ClipIs DEF dx
<1>6. p \in 0 .. (CanvasSize - 1) /\ p >= s.at /\ p < s.at + nt
  BY <1>1, <1>2, <1>3, <1>5
<1>7. it + (IF s.flip THEN Tile - 1 - (p - dx) ELSE p - dx)
        = IF s.flip THEN nt - 1 - (p - s.at) ELSE p - s.at
  BY <1>1, <1>2, <1>3, <1>5
<1> QED
  BY <1>6, <1>7 DEF dx, nt, it

\* Every place of the canvas that the sprite covers is painted by a tile.
LEMMA PaintedWhole ==
  ASSUME NEW s \in Sprites, NEW p \in 0 .. (CanvasSize - 1), p >= s.at, p < s.at + s.n * Tile
  PROVE  \E i \in 0 .. (s.n - 1) : p \in Clip(TileAt(s, i))
<1> DEFINE d == p - s.at
           j == d \div Tile
           i == IF s.flip THEN s.n - 1 - j ELSE j
<1>1. /\ s.n \in Nat /\ s.at \in Int /\ s.flip \in BOOLEAN
      /\ Tile \in Nat /\ Tile >= 1 /\ CanvasSize \in Nat
  <2>1. s.n \in Columns /\ s.at \in Positions /\ s.flip \in BOOLEAN
    BY DEF Sprites
  <2>2. Columns \subseteq Nat /\ Positions \subseteq Int
    BY PixelAssumption
  <2>3. Tile \in Nat /\ Tile >= 1 /\ CanvasSize \in Nat
    BY PixelAssumption
  <2> QED
    BY <2>1, <2>2, <2>3
<1>2. d \in Nat
  BY <1>1
<1>3. j \in Int /\ Tile * j <= d /\ d < Tile * j + Tile
  <2> HIDE DEF d
  <2> QED
    BY <1>1, <1>2
<1>4. j * Tile = Tile * j
  BY <1>1, <1>3
<1>5. j \in 0 .. (s.n - 1)
  <2>1. j \in Nat
    BY <1>1, <1>2, DivMonotone
  <2>2. j < s.n
    <3> SUFFICES ASSUME s.n <= j PROVE FALSE
      BY <1>1, <2>1
    <3>1. j - s.n \in Nat /\ (j - s.n) * Tile \in Nat
      BY <1>1, <2>1
    <3>2. (j - s.n) * Tile = j * Tile - s.n * Tile
      BY <1>1, <2>1
    <3>3. d < s.n * Tile
      BY <1>1
    <3> HIDE DEF d, j
    <3> QED
      BY <3>1, <3>2, <3>3, <1>1, <1>2, <1>3, <1>4
  <2> QED
    BY <2>1, <2>2, <1>1
<1>6. i \in 0 .. (s.n - 1) /\ j = IF s.flip THEN s.n - 1 - i ELSE i
  <2> HIDE DEF j
  <2> QED
    BY <1>1, <1>5
<1> HIDE DEF i, j
<1>7. TileAt(s, i) = j * Tile + s.at
  BY <1>6, TilePlace
<1>8. j * Tile \in Int
  BY <1>1, <1>5
<1>9. p \in Clip(TileAt(s, i))
  BY <1>1, <1>2, <1>3, <1>4, <1>7, <1>8, ClipIs
<1> QED
  BY <1>6, <1>9

\* Mirrored or not, wholly or partly on the canvas, a sprite paints exactly
\* the places of the canvas it covers, each from its own place of the sprite
\* or of its mirror image (region_view.py:163-210).
THEOREM SpritesAreWholeHolds == FrontSpec => []SpritesAreWhole
<1>1. JobInv => SpritesAreWhole
  <2> SUFFICES ASSUME JobInv, job.kind = "sprite" PROVE SpritesAreWhole
    BY DEF SpritesAreWhole
  <2> DEFINE s == job.in
             covered == {p \in 0 .. (CanvasSize - 1) : p >= s.at /\ p < s.at + s.n * Tile}
             source(p) == IF s.flip THEN s.n * Tile - 1 - (p - s.at) ELSE p - s.at
             spot(i, p) == <<p, i, IF s.flip THEN Tile - 1 - (p - TileAt(s, i))
                                   ELSE p - TileAt(s, i)>>
             image(t) == <<t[1], t[2] * Tile + t[3]>>
  <2>1. s \in Sprites
    BY DEF JobInv
  <2>2. ASSUME NEW i \in 0 .. (s.n - 1), NEW p \in Clip(TileAt(s, i))
        PROVE  p \in covered /\ image(spot(i, p)) = <<p, source(p)>>
    BY <2>1, PaintedRight
  <2>3. ASSUME NEW p \in covered
        PROVE  \E i \in 0 .. (s.n - 1) : p \in Clip(TileAt(s, i))
    BY <2>1, PaintedWhole
  <2>4. Painted(s) = UNION {{spot(i, p) : p \in Clip(TileAt(s, i))} : i \in 0 .. (s.n - 1)}
    BY DEF Painted
  <2> HIDE DEF covered, source, spot, image, s
  <2>5. {image(t) : t \in Painted(s)} = {<<p, source(p)>> : p \in covered}
    BY <2>2, <2>3, <2>4
  <2> QED
    BY <2>5 DEF SpritesAreWhole, covered, source, image, s
<1> QED
  BY <1>1, JobInvHolds, PTL

-----------------------------------------------------------------------------
(* Region view: the walk along the list of entities.                       *)

\* One round of the walk.
EntityStep(links, acc) ==
  IF acc.cur = 0 \/ acc.cur \in acc.seen THEN acc
  ELSE IF links[acc.cur] = -1 THEN [acc EXCEPT !.seen = @ \cup {acc.cur}, !.cur = 0]
  ELSE [n |-> acc.n + 1, seen |-> acc.seen \cup {acc.cur}, cur |-> links[acc.cur]]

\* The walk is a loop of EntityCap rounds.
LEMMA EntityRuns ==
  ASSUME NEW links, NEW head, NEW S, [n |-> 0, seen |-> {}, cur |-> head] \in S,
         \A b \in S : EntityStep(links, b) \in S
  PROVE  \E g \in [0..EntityCap -> S] :
           /\ g[0] = [n |-> 0, seen |-> {}, cur |-> head]
           /\ \A k \in 1..EntityCap : g[k] = EntityStep(links, g[k - 1])
           /\ EntityCount(links, head) = g[EntityCap].n
<1> DEFINE n == EntityCap
           base == [n |-> 0, seen |-> {}, cur |-> head]
<1>1. n \in Nat /\ base \in S /\ DOMAIN [i \in 1..n |-> i] = 1..n
  BY PixelAssumption
<1> DEFINE Is(f) == f = [s \in SUBSET (1..n) |->
                          IF s = {} THEN base ELSE EntityStep(links, f[s \ {Max(s)}])]
           h == CHOOSE f : Is(f)
<1>2. EntityCount(links, head) = h[1..n].n
  BY <1>1 DEF EntityCount, EntityStep, FoldLeft, MapThenFoldSet
<1> HIDE DEF n, base
<1>3. \E f : Is(f)
  <2> DEFINE step == [k \in 1..n |-> [b \in S |-> EntityStep(links, b)]]
  <2>1. Loop(n, S, base, step)
    BY <1>1 DEF Loop
  <2>2. PICK f \in [SUBSET (1..n) -> S] : FoldStates(n, base, step, f)
    BY <2>1, FoldHasStates
  <2>3. ASSUME NEW s \in SUBSET (1..n)
        PROVE  f[s] = IF s = {} THEN base ELSE EntityStep(links, f[s \ {Max(s)}])
    <3>1. CASE s = {}
      BY <2>2, <3>1 DEF FoldStates
    <3>2. CASE s # {}
      <4>1. Max(s) \in 1..n
        BY <1>1, <3>2, LastPosition
      <4>2. f[s \ {Max(s)}] \in S
        OBVIOUS
      <4>3. f[s] = step[Max(s)][f[s \ {Max(s)}]]
        BY <2>2, <3>2 DEF FoldStates
      <4> QED
        BY <3>2, <4>1, <4>2, <4>3
    <3> QED
      BY <3>1, <3>2
  <2>4. f = [s \in SUBSET (1..n) |-> f[s]]
    OBVIOUS
  <2>5. Is(f)
    BY <2>3, <2>4
  <2> QED
    BY <2>5
<1>4. Is(h)
  BY <1>3
<1> HIDE DEF h
<1> DEFINE g == [k \in 0..n |-> h[1..k]]
<1>5. g[0] = base
  <2>1. 1..0 = {} /\ {} \in SUBSET (1..n) /\ 0 \in 0..n
    BY <1>1
  <2> QED
    BY <1>4, <2>1
<1>6. ASSUME NEW k \in 1..n
      PROVE  g[k] = EntityStep(links, g[k - 1])
  <2>1. /\ 1..k \in SUBSET (1..n) /\ 1..k # {} /\ Max(1..k) = k
        /\ (1..k) \ {Max(1..k)} = 1..(k - 1)
    BY <1>1, InitialPositions
  <2>2. k \in 0..n /\ k - 1 \in 0..n
    BY <1>1
  <2>3. h[1..k] = EntityStep(links, h[1..(k - 1)])
    BY <1>4, <2>1
  <2> QED
    BY <2>2, <2>3
<1> DEFINE G == {k \in 0..n : g[k] \in S}
<1>7. G = 0..n
  <2>1. G \in SUBSET (0..n) /\ 0 \in G
    BY <1>1, <1>5
  <2>2. ASSUME NEW k \in 1..n, k - 1 \in G
        PROVE  k \in G
    <3>1. g[k - 1] \in S /\ k \in 0..n
      BY <1>1, <2>2
    <3> HIDE DEF g
    <3>2. g[k] \in S
      BY <1>6, <3>1
    <3> QED
      BY <3>1, <3>2
  <2> HIDE DEF G
  <2> QED
    BY <1>1, <2>1, <2>2, PositionInduction
<1>8. g \in [0..n -> S]
  BY <1>7
<1>9. EntityCount(links, head) = g[n].n
  BY <1>1, <1>2
<1> HIDE DEF g
<1> QED
  BY <1>5, <1>6, <1>8, <1>9 DEF n, base

\* No more nodes are counted than have been seen.
EntityStates ==
  {acc \in [n : Nat, seen : SUBSET Nodes, cur : Nodes \cup {0}] : acc.n <= Cardinality(acc.seen)}

\* A round counts at most one node, the first one unless it cannot be read.
LEMMA EntityStepKept ==
  ASSUME NEW links \in [Nodes -> Nodes \cup {0, -1}], NEW acc \in EntityStates
  PROVE  /\ EntityStep(links, acc) \in EntityStates
         /\ acc.n <= EntityStep(links, acc).n /\ EntityStep(links, acc).n <= acc.n + 1
         /\ acc.cur # 0 /\ acc.seen = {} /\ links[acc.cur] # -1 => EntityStep(links, acc).n = acc.n + 1
<1>1. acc \in [n : Nat, seen : SUBSET Nodes, cur : Nodes \cup {0}] /\ acc.n <= Cardinality(acc.seen)
  BY DEF EntityStates
<1>2. acc.n \in Nat /\ acc.seen \in SUBSET Nodes /\ acc.cur \in Nodes \cup {0}
  BY <1>1
<1>3. IsFiniteSet(acc.seen) /\ Cardinality(acc.seen) \in Nat
  BY <1>2, PixelAssumption, FS_Subset, FS_CardinalityType
<1>4. CASE acc.cur = 0 \/ acc.cur \in acc.seen
  BY <1>2, <1>4 DEF EntityStep
<1>5. CASE ~(acc.cur = 0 \/ acc.cur \in acc.seen)
  <2> DEFINE seen == acc.seen \cup {acc.cur}
  <2>1. seen \in SUBSET Nodes /\ acc.cur \in Nodes
    BY <1>2, <1>5
  <2>2. Cardinality(seen) = Cardinality(acc.seen) + 1
    BY <1>3, <1>5, FS_AddElement
  <2> HIDE DEF seen
  <2>3. CASE links[acc.cur] = -1
    <3> DEFINE r == [acc EXCEPT !.seen = seen, !.cur = 0]
    <3>1. EntityStep(links, acc) = r
      BY <1>5, <2>3 DEF EntityStep, seen
    <3>2. /\ r \in [n : Nat, seen : SUBSET Nodes, cur : Nodes \cup {0}]
          /\ r.n = acc.n /\ r.seen = seen
      BY <1>1, <2>1
    <3> HIDE DEF r
    <3>3. r.n <= Cardinality(r.seen)
      BY <1>1, <1>2, <1>3, <2>2, <3>2
    <3>4. r \in EntityStates
      BY <3>2, <3>3 DEF EntityStates
    <3> QED
      BY <1>2, <2>3, <3>1, <3>2, <3>4
  <2>4. CASE links[acc.cur] # -1
    <3> DEFINE r == [n |-> acc.n + 1, seen |-> seen, cur |-> links[acc.cur]]
    <3>1. EntityStep(links, acc) = r
      BY <1>5, <2>4 DEF EntityStep, seen
    <3>2. /\ r \in [n : Nat, seen : SUBSET Nodes, cur : Nodes \cup {0}]
          /\ r.n = acc.n + 1 /\ r.seen = seen
      BY <1>2, <2>1, <2>4
    <3> HIDE DEF r
    <3>3. r.n <= Cardinality(r.seen)
      BY <1>1, <1>2, <1>3, <2>2, <3>2
    <3>4. r \in EntityStates
      BY <3>2, <3>3 DEF EntityStates
    <3> QED
      BY <1>2, <3>1, <3>2, <3>4
  <2> QED
    BY <2>3, <2>4
<1> QED
  BY <1>4, <1>5

\* On a list with a cycle as on one without, the walk counts no node twice and
\* at most EntityCap of them, and 0 only when the head cannot be read
\* (region_view.py:219-228).
THEOREM EntitiesCountedOnceHolds == FrontSpec => []EntitiesCountedOnce
<1>1. JobInv => EntitiesCountedOnce
  <2> SUFFICES ASSUME JobInv, job.kind = "list" PROVE EntitiesCountedOnce
    BY DEF EntitiesCountedOnce
  <2> DEFINE links == job.in.links
             head == job.in.head
             base == [n |-> 0, seen |-> {}, cur |-> head]
  <2>1. links \in [Nodes -> Nodes \cup {0, -1}] /\ head \in Nodes
    BY DEF JobInv, Lists
  <2> HIDE DEF links, head
  <2>2. /\ EntityCap \in Nat /\ EntityCap >= 1 /\ 0 \notin Nodes
        /\ IsFiniteSet(Nodes) /\ Cardinality(Nodes) \in Nat
    BY PixelAssumption, FS_CardinalityType
  <2>3. base \in [n : Nat, seen : SUBSET Nodes, cur : Nodes \cup {0}]
        /\ base.n = 0 /\ base.seen = {} /\ base.cur = head
    BY <2>1
  <2> HIDE DEF base
  <2>4. base \in EntityStates
    <3>1. Cardinality({}) = 0
      BY FS_EmptySet
    <3> QED
      BY <2>3, <3>1 DEF EntityStates
  <2>5. PICK g \in [0..EntityCap -> EntityStates] :
          /\ g[0] = base
          /\ \A k \in 1..EntityCap : g[k] = EntityStep(links, g[k - 1])
          /\ EntityCount(links, head) = g[EntityCap].n
    <3>1. \A b \in EntityStates : EntityStep(links, b) \in EntityStates
      BY <2>1, EntityStepKept
    <3> QED
      BY <2>4, <3>1, EntityRuns DEF base
  <2> DEFINE Fine(k) == /\ g[k].n <= k
                        /\ k # 0 /\ links[head] # -1 => g[k].n >= 1
             G == {k \in 0..EntityCap : Fine(k)}
  <2>6. 0 \in G
    BY <2>2, <2>3, <2>5
  <2>7. ASSUME NEW k \in 1..EntityCap, k - 1 \in G
        PROVE  k \in G
    <3> DEFINE c == g[k - 1]
               r == g[k]
    <3>1. k \in 0..EntityCap /\ k - 1 \in 0..EntityCap
      BY <2>2
    <3>2. c \in EntityStates /\ r \in EntityStates /\ r = EntityStep(links, c)
      BY <2>5, <3>1
    <3>3. c.n <= k - 1 /\ (k - 1 # 0 /\ links[head] # -1 => c.n >= 1)
      BY <2>7
    <3>4. k - 1 = 0 => c = base
      BY <2>5
    <3> HIDE DEF c, r
    <3>5. /\ c.n <= EntityStep(links, c).n /\ EntityStep(links, c).n <= c.n + 1
          /\ c.cur # 0 /\ c.seen = {} /\ links[c.cur] # -1 => EntityStep(links, c).n = c.n + 1
      BY <2>1, <3>2, EntityStepKept
    <3>6. /\ c.n <= r.n /\ r.n <= c.n + 1
          /\ c.cur # 0 /\ c.seen = {} /\ links[c.cur] # -1 => r.n = c.n + 1
      BY <3>2, <3>5
    <3>7. c.n \in Nat /\ r.n \in Nat
      BY <3>2 DEF EntityStates
    <3>8. r.n <= k
      BY <3>3, <3>6, <3>7
    <3>9. ASSUME links[head] # -1 PROVE r.n >= 1
      <4>1. CASE k - 1 = 0
        BY <2>1, <2>2, <2>3, <3>4, <3>6, <3>7, <3>9, <4>1
      <4>2. CASE k - 1 # 0
        BY <3>3, <3>6, <3>7, <3>9, <4>2
      <4> QED
        BY <4>1, <4>2
    <3>10. Fine(k)
      BY <3>8, <3>9 DEF r
    <3> QED
      BY <3>1, <3>10
  <2> HIDE DEF G
  <2>8. G = 0..EntityCap
    <3>1. G \in SUBSET (0..EntityCap)
      BY DEF G
    <3> QED
      BY <2>2, <2>6, <2>7, <3>1, PositionInduction
  <2>9. EntityCap \in 0..EntityCap
    BY <2>2
  <2>10. Fine(EntityCap)
    BY <2>8, <2>9 DEF G
  <2> DEFINE last == g[EntityCap]
  <2>11. last \in EntityStates /\ EntityCount(links, head) = last.n
         /\ last.n <= EntityCap /\ (links[head] # -1 => last.n >= 1)
    BY <2>2, <2>5, <2>9, <2>10
  <2> HIDE DEF last
  <2>12. last.n \in Nat /\ last.seen \in SUBSET Nodes /\ last.n <= Cardinality(last.seen)
    BY <2>11 DEF EntityStates
  <2>13. Cardinality(last.seen) <= Cardinality(Nodes) /\ Cardinality(last.seen) \in Nat
    BY <2>2, <2>12, FS_Subset, FS_CardinalityType
  <2>14. last.n <= Cardinality(Nodes)
    BY <2>2, <2>12, <2>13
  <2> QED
    BY <2>11, <2>12, <2>14 DEF EntitiesCountedOnce, links, head
<1> QED
  BY <1>1, JobInvHolds, PTL

=============================================================================
