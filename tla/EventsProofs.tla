---------------------------- MODULE EventsProofs ----------------------------
(***************************************************************************)
(* What Reals and TrimStaleNulls compute, for every sequence of events.    *)
(* Both are loops over a sequence; induction over the position of the loop *)
(* is an argument about a set of positions.                                *)
(***************************************************************************)
EXTENDS Events, SequenceTheorems, WellFoundedInduction, TLAPS

-----------------------------------------------------------------------------
\* A set of positions that holds 0 and every successor holds them all.
LEMMA PositionInduction ==
  ASSUME NEW n \in Nat, NEW G \in SUBSET (0..n), 0 \in G,
         \A k \in 1..n : k - 1 \in G => k \in G
  PROVE  G = 0..n
<1> DEFINE B == (0..n) \ G
<1>1. SUFFICES ASSUME B # {} PROVE FALSE
  OBVIOUS
<1>2. B \subseteq Nat
  OBVIOUS
<1>3. PICK x \in B : \A y \in B : <<y, x>> \notin OpToRel(<, Nat)
  BY <1>1, <1>2, WFMin, NatLessThanWellFounded, Zenon
<1>4. x \in 1..n
  OBVIOUS
<1>5. x - 1 \in B
  <2>1. x - 1 \in 0..n
    BY <1>4
  <2>2. x - 1 \notin G
    BY <1>4
  <2> QED
    BY <2>1, <2>2
<1>6. <<x - 1, x>> \in OpToRel(<, Nat)
  <2>1. x - 1 \in Nat /\ x \in Nat /\ x - 1 < x
    BY <1>4
  <2> QED
    BY <2>1, Zenon DEF OpToRel
<1> QED
  BY <1>3, <1>5, <1>6

\* A loop over n positions with a state in S, and the states it goes through.
Loop(n, S, base, step) ==
  n \in Nat /\ base \in S /\ step \in [1..n -> [S -> S]]

LoopStates(n, base, step, f) ==
  f[0] = base /\ \A k \in 1..n : f[k] = step[k][f[k - 1]]

\* A loop has a state after each position.
LEMMA LoopHasStates ==
  ASSUME NEW n, NEW S, NEW base, NEW step, Loop(n, S, base, step)
  PROVE  \E f : f \in [0..n -> S] /\ LoopStates(n, base, step, f)
<1> n \in Nat /\ base \in S /\ step \in [1..n -> [S -> S]]
  BY DEF Loop
<1> DEFINE Runs(m, f) == /\ f[0] = base
                         /\ \A k \in 1..m : f[k] = step[k][f[k - 1]]
           G == {m \in 0..n : \E f \in [0..m -> S] : Runs(m, f)}
<1>1. 0 \in G
  <2> DEFINE f == [k \in 0..0 |-> base]
  <2>1. f \in [0..0 -> S]
    OBVIOUS
  <2>2. f[0] = base /\ 1..0 = {}
    OBVIOUS
  <2>3. Runs(0, f)
    BY <2>2
  <2>4. 0 \in 0..n
    OBVIOUS
  <2> HIDE DEF Runs
  <2> QED
    BY <2>1, <2>3, <2>4
<1>2. ASSUME NEW m \in 1..n, m - 1 \in G
      PROVE  m \in G
  <2>1. PICK f \in [0..(m - 1) -> S] : Runs(m - 1, f)
    BY <1>2
  <2> DEFINE g == [k \in 0..m |-> IF k = m THEN step[m][f[m - 1]] ELSE f[k]]
  <2>2. m - 1 \in 0..(m - 1) /\ m \in 0..m
    OBVIOUS
  <2>3. step[m][f[m - 1]] \in S
    BY <2>2
  <2>4. g \in [0..m -> S]
    BY <2>3
  <2>5. g[0] = base
    BY <2>1
  <2>6. ASSUME NEW k \in 1..m
        PROVE  g[k] = step[k][g[k - 1]]
    <3>1. k \in 0..m /\ k - 1 \in 0..m /\ k - 1 # m
      OBVIOUS
    <3>2. g[k - 1] = f[k - 1]
      BY <3>1
    <3>3. CASE k = m
      BY <3>1, <3>2, <3>3
    <3>4. CASE k # m
      <4>1. k \in 1..(m - 1)
        BY <3>4
      <4> QED
        BY <2>1, <3>1, <3>2, <3>4, <4>1
    <3> QED
      BY <3>3, <3>4
  <2> HIDE DEF g
  <2>7. Runs(m, g)
    BY <2>5, <2>6
  <2>8. m \in 0..n
    OBVIOUS
  <2> HIDE DEF Runs
  <2> QED
    BY <2>4, <2>7, <2>8
<1> HIDE DEF G
<1>3. G = 0..n
  <2>1. G \in SUBSET (0..n)
    BY DEF G
  <2> QED
    BY <1>1, <1>2, <2>1, PositionInduction
<1>4. n \in G
  BY <1>3
<1> QED
  BY <1>4 DEF G, LoopStates

\* ... and only one.
LEMMA LoopIsDetermined ==
  ASSUME NEW n \in Nat, NEW base, NEW step, NEW f, NEW g,
         LoopStates(n, base, step, f), LoopStates(n, base, step, g)
  PROVE  f[n] = g[n]
<1> USE DEF LoopStates
<1> DEFINE G == {m \in 0..n : f[m] = g[m]}
<1>1. 0 \in G
  OBVIOUS
<1>2. \A k \in 1..n : k - 1 \in G => k \in G
  OBVIOUS
<1> HIDE DEF G
<1>3. G = 0..n
  <2>1. G \in SUBSET (0..n)
    BY DEF G
  <2> QED
    BY <1>1, <1>2, <2>1, PositionInduction
<1> QED
  BY <1>3 DEF G

-----------------------------------------------------------------------------
(* FoldLeft of the community modules takes the last position of a set of   *)
(* positions off and folds what is left.                                   *)

\* A set of positions that is not empty has a greatest one.
LEMMA LastPosition ==
  ASSUME NEW n \in Nat, NEW s \in SUBSET (1..n), s # {}
  PROVE  Max(s) \in s /\ \A y \in s : y <= Max(s)
<1> DEFINE G == {m \in 0..n : \A t \in SUBSET (1..m) :
                    t # {} => \E x \in t : \A y \in t : y <= x}
<1>1. 0 \in G
  <2>1. 1..0 = {} /\ 0 \in 0..n
    OBVIOUS
  <2> QED
    BY <2>1
<1>2. ASSUME NEW m \in 1..n, m - 1 \in G
      PROVE  m \in G
  <2>1. SUFFICES ASSUME NEW t \in SUBSET (1..m), t # {}
                 PROVE  \E x \in t : \A y \in t : y <= x
    OBVIOUS
  <2>2. CASE m \in t
    BY <2>2
  <2>3. CASE m \notin t
    <3>1. t \in SUBSET (1..(m - 1))
      BY <2>3
    <3> QED
      BY <1>2, <2>1, <3>1
  <2> QED
    BY <2>2, <2>3
<1> HIDE DEF G
<1>3. G = 0..n
  <2>1. G \in SUBSET (0..n)
    BY DEF G
  <2> QED
    BY <1>1, <1>2, <2>1, PositionInduction
<1>4. \E x \in s : \A y \in s : y <= x
  <2>1. n \in G
    BY <1>3
  <2> QED
    BY <2>1 DEF G
<1>5. \A x \in s : (\A y \in s : x >= y) <=> (\A y \in s : y <= x)
  OBVIOUS
<1> QED
  BY <1>4, <1>5 DEF Max

\* The first k positions: k is the last, and k - 1 are before it.
LEMMA InitialPositions ==
  ASSUME NEW n \in Nat, NEW k \in 1..n
  PROVE  /\ 1..k \in SUBSET (1..n) /\ 1..k # {} /\ Max(1..k) = k
         /\ (1..k) \ {Max(1..k)} = 1..(k - 1)
<1>1. 1..k \in SUBSET (1..n) /\ 1..k # {} /\ k \in 1..k
  OBVIOUS
<1>2. Max(1..k) \in 1..k /\ k <= Max(1..k)
  BY <1>1, LastPosition
<1>3. Max(1..k) = k
  <2> DEFINE x == Max(1..k)
  <2>1. x \in 1..k /\ k <= x
    BY <1>2
  <2> HIDE DEF x
  <2>2. x = k
    BY <2>1
  <2> QED
    BY <2>2 DEF x
<1>4. (1..k) \ {k} = 1..(k - 1)
  OBVIOUS
<1> QED
  BY <1>1, <1>3, <1>4

FoldStates(n, base, step, f) ==
  \A s \in SUBSET (1..n) :
    f[s] = IF s = {} THEN base ELSE step[Max(s)][f[s \ {Max(s)}]]

\* A fold over n positions has a state for each set of them.
LEMMA FoldHasStates ==
  ASSUME NEW n, NEW S, NEW base, NEW step, Loop(n, S, base, step)
  PROVE  \E f : f \in [SUBSET (1..n) -> S] /\ FoldStates(n, base, step, f)
<1> n \in Nat /\ base \in S /\ step \in [1..n -> [S -> S]]
  BY DEF Loop
<1> DEFINE G == {m \in 0..n : \E f \in [SUBSET (1..m) -> S] : FoldStates(m, base, step, f)}
<1>1. 0 \in G
  <2> DEFINE f == [s \in SUBSET (1..0) |-> base]
  <2>1. f \in [SUBSET (1..0) -> S]
    OBVIOUS
  <2>2. \A s \in SUBSET (1..0) : s = {} /\ f[s] = base
    OBVIOUS
  <2> HIDE DEF f
  <2>3. FoldStates(0, base, step, f)
    BY <2>2 DEF FoldStates
  <2>4. 0 \in 0..n
    OBVIOUS
  <2> QED
    BY <2>1, <2>3, <2>4
<1>2. ASSUME NEW m \in 1..n, m - 1 \in G
      PROVE  m \in G
  <2>1. PICK f \in [SUBSET (1..(m - 1)) -> S] : FoldStates(m - 1, base, step, f)
    BY <1>2
  <2> DEFINE g == [s \in SUBSET (1..m) |-> IF m \in s THEN step[m][f[s \ {m}]] ELSE f[s]]
  <2>2. ASSUME NEW s \in SUBSET (1..m)
        PROVE  /\ s \ {m} \in SUBSET (1..(m - 1))
               /\ m \notin s => s \in SUBSET (1..(m - 1))
               /\ m \in s => Max(s) = m
    <3>1. s \ {m} \in SUBSET (1..(m - 1))
      OBVIOUS
    <3>2. ASSUME m \in s PROVE Max(s) = m
      <4> DEFINE x == Max(s)
      <4>0. m \in Nat /\ s # {}
        BY <3>2
      <4>1. x \in s /\ m <= x
        BY <3>2, <4>0, LastPosition
      <4> HIDE DEF x
      <4>2. x = m
        BY <4>1
      <4> QED
        BY <4>2 DEF x
    <3> QED
      BY <3>1, <3>2
  <2>3. g \in [SUBSET (1..m) -> S]
    BY <2>2
  <2>4. ASSUME NEW s \in SUBSET (1..m)
        PROVE  g[s] = IF s = {} THEN base ELSE step[Max(s)][g[s \ {Max(s)}]]
    <3>1. CASE m \in s
      <4>1. Max(s) = m /\ s # {}
        BY <2>2, <3>1
      <4>2. g[s] = step[m][f[s \ {m}]]
        BY <3>1
      <4>3. g[s \ {m}] = f[s \ {m}]
        OBVIOUS
      <4> HIDE DEF g
      <4> QED
        BY <4>1, <4>2, <4>3
    <3>2. CASE m \notin s
      <4>1. s \in SUBSET (1..(m - 1)) /\ g[s] = f[s]
        BY <2>2, <3>2
      <4>2. CASE s = {}
        BY <2>1, <4>1, <4>2 DEF FoldStates
      <4>3. CASE s # {}
        <5>1. g[s \ {Max(s)}] = f[s \ {Max(s)}]
          BY <3>2
        <5>2. f[s] = step[Max(s)][f[s \ {Max(s)}]]
          BY <2>1, <4>1, <4>3 DEF FoldStates
        <5> HIDE DEF g
        <5> QED
          BY <4>1, <4>3, <5>1, <5>2
      <4> QED
        BY <4>2, <4>3
    <3> QED
      BY <3>1, <3>2
  <2> HIDE DEF g
  <2>5. FoldStates(m, base, step, g)
    BY <2>4 DEF FoldStates
  <2>6. m \in 0..n
    OBVIOUS
  <2> QED
    BY <2>3, <2>5, <2>6
<1> HIDE DEF G
<1>3. G = 0..n
  <2>1. G \in SUBSET (0..n)
    BY DEF G
  <2> QED
    BY <1>1, <1>2, <2>1, PositionInduction
<1>4. n \in G
  BY <1>3
<1> QED
  BY <1>4 DEF G

-----------------------------------------------------------------------------
\* The loop Reals runs over s: its states, and its result.
RealStep(s) ==
  [k \in 1..Len(s) |-> [acc \in Seq(RealEvent) |->
     IF s[k] = Null THEN acc ELSE Append(acc, s[k])]]

RealStates(s, f) ==
  /\ f \in [0..Len(s) -> Seq(RealEvent)]
  /\ f[0] = <<>>
  /\ \A k \in 1..Len(s) :
       f[k] = IF s[k] = Null THEN f[k - 1] ELSE Append(f[k - 1], s[k])

\* An event is idle or real, never both.
LEMMA EventKinds ==
  /\ Null \in Event
  /\ Null \notin RealEvent
  /\ \A e \in Event : e # Null => e \in RealEvent
  /\ \A e \in RealEvent : e \in Event /\ e # Null
BY DEF Event, RealEvent, Null

\* One step of the filter keeps the type.
LEMMA RealStepType ==
  ASSUME NEW s \in Seq(Event)
  PROVE  /\ Len(s) \in Nat
         /\ RealStep(s) \in [1..Len(s) -> [Seq(RealEvent) -> Seq(RealEvent)]]
<1>1. Len(s) \in Nat /\ \A k \in 1..Len(s) : s[k] \in Event
  BY ElementOfSeq, LenProperties
<1>2. ASSUME NEW k \in 1..Len(s), NEW acc \in Seq(RealEvent)
      PROVE  (IF s[k] = Null THEN acc ELSE Append(acc, s[k])) \in Seq(RealEvent)
  <2>1. s[k] # Null => s[k] \in RealEvent
    BY <1>1, EventKinds
  <2> QED
    BY <2>1, AppendProperties
<1> QED
  BY <1>1, <1>2 DEF RealStep

\* The filter is a loop over positions.
LEMMA RealsRuns ==
  ASSUME NEW s \in Seq(Event)
  PROVE  \E f : RealStates(s, f) /\ Reals(s) = f[Len(s)]
<1>1. /\ Len(s) \in Nat
      /\ RealStep(s) \in [1..Len(s) -> [Seq(RealEvent) -> Seq(RealEvent)]]
  BY RealStepType
<1>2. <<>> \in Seq(RealEvent)
  BY EmptySeq
<1>3. PICK f \in [0..Len(s) -> Seq(RealEvent)] :
        /\ f[0] = <<>>
        /\ \A k \in 1..Len(s) : f[k] = RealStep(s)[k][f[k - 1]]
  <2>1. Loop(Len(s), Seq(RealEvent), <<>>, RealStep(s))
    BY <1>1, <1>2 DEF Loop
  <2>2. \E f : /\ f \in [0..Len(s) -> Seq(RealEvent)]
               /\ LoopStates(Len(s), <<>>, RealStep(s), f)
    BY <2>1, LoopHasStates
  <2> QED
    BY <2>2 DEF LoopStates
<1>4. \A k \in 1..Len(s) :
        f[k] = IF s[k] = Null THEN f[k - 1] ELSE Append(f[k - 1], s[k])
  <2> TAKE k \in 1..Len(s)
  <2>1. k - 1 \in 0..Len(s)
    BY <1>1
  <2>2. f[k - 1] \in Seq(RealEvent)
    BY <2>1
  <2> QED
    BY <1>3, <2>2 DEF RealStep
<1> DEFINE Is(g) == g = [n \in 0..Len(s) |->
              IF n = 0 THEN <<>>
              ELSE IF s[n] = Null THEN g[n - 1] ELSE Append(g[n - 1], s[n])]
           h == CHOOSE g : Is(g)
<1>5. Is(f)
  <2>1. ASSUME NEW n \in 0..Len(s)
        PROVE  f[n] = IF n = 0 THEN <<>>
              ELSE IF s[n] = Null THEN f[n - 1] ELSE Append(f[n - 1], s[n])
    <3>1. n # 0 => n \in 1..Len(s)
      BY <1>1
    <3> QED
      BY <1>3, <1>4, <3>1
  <2>2. f = [n \in 0..Len(s) |-> f[n]]
    OBVIOUS
  <2> QED
    BY <2>1, <2>2
<1>6. Is(h)
  BY <1>5
<1>7. Reals(s) = h[Len(s)]
  BY DEF Reals
<1>8. /\ h[0] = <<>>
      /\ \A n \in 1..Len(s) : h[n] = IF s[n] = Null THEN h[n - 1]
                                      ELSE Append(h[n - 1], s[n])
  <2> HIDE DEF h
  <2>1. 0 \in 0..Len(s)
    BY <1>1
  <2>2. h[0] = <<>>
    BY <1>6, <2>1
  <2>3. ASSUME NEW n \in 1..Len(s)
        PROVE  h[n] = IF s[n] = Null THEN h[n - 1] ELSE Append(h[n - 1], s[n])
    <3>1. n \in 0..Len(s) /\ n # 0
      BY <1>1
    <3> QED
      BY <1>6, <3>1
  <2> QED
    BY <2>2, <2>3
<1> HIDE DEF h, Is
<1> DEFINE G == {m \in 0..Len(s) : f[m] = h[m]}
<1>9. 0 \in G
  BY <1>1, <1>3, <1>8
<1>10. \A k \in 1..Len(s) : k - 1 \in G => k \in G
  <2> TAKE k \in 1..Len(s)
  <2>1. k \in 0..Len(s)
    BY <1>1
  <2> QED
    BY <1>4, <1>8, <2>1
<1> HIDE DEF G
<1>11. G = 0..Len(s)
  <2>1. G \in SUBSET (0..Len(s))
    BY DEF G
  <2> QED
    BY <1>1, <1>9, <1>10, <2>1, PositionInduction
<1>12. f[Len(s)] = h[Len(s)]
  <2>1. Len(s) \in 0..Len(s)
    BY <1>1
  <2> QED
    BY <1>11, <2>1 DEF G
<1>13. RealStates(s, f)
  BY <1>3, <1>4 DEF RealStates
<1> QED
  BY <1>7, <1>12, <1>13

\* Whatever runs as Reals does gives the real events.
LEMMA RealsAre ==
  ASSUME NEW s \in Seq(Event), NEW f, RealStates(s, f)
  PROVE  Reals(s) = f[Len(s)]
<1>1. PICK g : RealStates(s, g) /\ Reals(s) = g[Len(s)]
  BY RealsRuns
<1>2. /\ Len(s) \in Nat
      /\ RealStep(s) \in [1..Len(s) -> [Seq(RealEvent) -> Seq(RealEvent)]]
  BY RealStepType
<1>3. ASSUME NEW h, RealStates(s, h), NEW k \in 1..Len(s)
      PROVE  h[k] = RealStep(s)[k][h[k - 1]]
  <2>1. k - 1 \in 0..Len(s)
    BY <1>2
  <2>2. h[k - 1] \in Seq(RealEvent)
    BY <1>3, <2>1 DEF RealStates
  <2> QED
    BY <1>3, <2>2 DEF RealStates, RealStep
<1>4. f[0] = g[0]
  BY <1>1 DEF RealStates
<1>5. /\ \A k \in 1..Len(s) : f[k] = RealStep(s)[k][f[k - 1]]
      /\ \A k \in 1..Len(s) : g[k] = RealStep(s)[k][g[k - 1]]
  BY <1>1, <1>3
<1>6. f[Len(s)] = g[Len(s)]
  <2>1. /\ LoopStates(Len(s), f[0], RealStep(s), f)
        /\ LoopStates(Len(s), f[0], RealStep(s), g)
    BY <1>4, <1>5 DEF LoopStates
  <2> QED
    BY <1>2, <2>1, LoopIsDetermined
<1> QED
  BY <1>1, <1>6

-----------------------------------------------------------------------------
\* The real events of a sequence are real events.
LEMMA RealsType ==
  ASSUME NEW s \in Seq(Event)
  PROVE  Reals(s) \in Seq(RealEvent)
<1>1. PICK f : RealStates(s, f) /\ Reals(s) = f[Len(s)]
  BY RealsRuns
<1>2. Len(s) \in 0..Len(s)
  BY LenProperties
<1> QED
  BY <1>1, <1>2 DEF RealStates

\* No event, no real event; one event, that one if it is real.
LEMMA RealsOfFew ==
  /\ Reals(<<>>) = <<>>
  /\ \A e \in Event : Reals(<<e>>) = IF e = Null THEN <<>> ELSE <<e>>
<1>1. Reals(<<>>) = <<>>
  <2>1. PICK f : RealStates(<<>>, f) /\ Reals(<<>>) = f[Len(<<>>)]
    <3>1. <<>> \in Seq(Event)
      BY EmptySeq
    <3> QED
      BY <3>1, RealsRuns
  <2> QED
    BY <2>1, EmptySeq DEF RealStates
<1>2. ASSUME NEW e \in Event
      PROVE  Reals(<<e>>) = IF e = Null THEN <<>> ELSE <<e>>
  <2>1. <<e>> \in Seq(Event) /\ Len(<<e>>) = 1
    OBVIOUS
  <2>2. PICK f : RealStates(<<e>>, f) /\ Reals(<<e>>) = f[Len(<<e>>)]
    BY <2>1, RealsRuns
  <2>3. f[1] = IF e = Null THEN f[0] ELSE Append(f[0], e)
    <3>1. 1 \in 1..Len(<<e>>) /\ 1 - 1 = 0
      BY <2>1
    <3>2. f[1] = IF <<e>>[1] = Null THEN f[1 - 1] ELSE Append(f[1 - 1], <<e>>[1])
      BY <2>2, <3>1 DEF RealStates
    <3> QED
      BY <3>1, <3>2
  <2>4. f[0] = <<>>
    BY <2>2 DEF RealStates
  <2>5. Append(<<>>, e) = <<e>>
    OBVIOUS
  <2> QED
    BY <2>1, <2>2, <2>3, <2>4, <2>5
<1> QED
  BY <1>1, <1>2

\* Appending to the second part of a concatenation.
LEMMA AppendToConcat ==
  ASSUME NEW S, NEW r \in Seq(S), NEW g \in Seq(S), NEW e \in S
  PROVE  r \o Append(g, e) = Append(r \o g, e)
<1> DEFINE a == Append(g, e)
           c == r \o g
<1>1. /\ Len(r) \in Nat /\ Len(g) \in Nat
      /\ a \in Seq(S) /\ Len(a) = Len(g) + 1 /\ a[Len(g) + 1] = e
      /\ \A i \in 1..Len(g) : a[i] = g[i]
  BY LenProperties, AppendProperties
<1>2. /\ c \in Seq(S) /\ Len(c) = Len(r) + Len(g)
      /\ \A i \in 1..(Len(r) + Len(g)) :
            c[i] = IF i <= Len(r) THEN r[i] ELSE g[i - Len(r)]
  BY ConcatProperties
<1> HIDE DEF a, c
<1> DEFINE u == r \o a
           v == Append(c, e)
<1>3. /\ u \in Seq(S) /\ Len(u) = Len(r) + Len(a)
      /\ \A i \in 1..(Len(r) + Len(a)) :
            u[i] = IF i <= Len(r) THEN r[i] ELSE a[i - Len(r)]
  BY <1>1, ConcatProperties
<1>4. /\ v \in Seq(S) /\ Len(v) = Len(c) + 1 /\ v[Len(c) + 1] = e
      /\ \A i \in 1..Len(c) : v[i] = c[i]
  <2>1. c \in Seq(S) /\ Len(c) \in Nat
    BY <1>1, <1>2
  <2> QED
    BY <2>1, AppendProperties
<1> HIDE DEF u, v
<1>5. ASSUME NEW i \in 1..Len(u)
      PROVE  u[i] = v[i]
  <2> DEFINE lr == Len(r)
             lg == Len(g)
  <2>a. /\ lr \in Nat /\ lg \in Nat /\ i \in 1..(lr + lg + 1)
        /\ \A j \in 1..lg : a[j] = g[j]
        /\ a[lg + 1] = e /\ v[lr + lg + 1] = e
        /\ u[i] = IF i <= lr THEN r[i] ELSE a[i - lr]
        /\ i <= lr + lg => v[i] = IF i <= lr THEN r[i] ELSE g[i - lr]
    BY <1>1, <1>2, <1>3, <1>4
  <2> HIDE DEF lr, lg
  <2>1. CASE i <= lr
    BY <2>a, <2>1
  <2>2. CASE i > lr /\ i <= lr + lg
    <3>1. i - lr \in 1..lg
      BY <2>a, <2>2
    <3> QED
      BY <2>a, <2>2, <3>1
  <2>3. CASE i = lr + lg + 1
    <3>1. i - lr = lg + 1 /\ ~(i <= lr)
      BY <2>a, <2>3
    <3> QED
      BY <2>a, <2>3, <3>1
  <2>4. i <= lr \/ (i > lr /\ i <= lr + lg) \/ i = lr + lg + 1
    BY <2>a
  <2> QED
    BY <2>1, <2>2, <2>3, <2>4, Zenon
<1>6. Len(u) = Len(v)
  BY <1>1, <1>2, <1>3, <1>4
<1>7. u = v
  BY <1>3, <1>4, <1>5, <1>6, SeqEqual
<1> QED
  BY <1>7 DEF u, v, a, c

\* The real events of a concatenation.
LEMMA RealsConcat ==
  ASSUME NEW s \in Seq(Event), NEW t \in Seq(Event)
  PROVE  Reals(s \o t) = Reals(s) \o Reals(t)
<1>1. PICK f : RealStates(s, f) /\ Reals(s) = f[Len(s)]
  BY RealsRuns
<1>2. PICK g : RealStates(t, g) /\ Reals(t) = g[Len(t)]
  BY RealsRuns
<1> DEFINE m == Len(s)
           n == Len(t)
           R == Reals(s)
           h == [k \in 0..(m + n) |-> IF k <= m THEN f[k] ELSE R \o g[k - m]]
<1>3. /\ m \in Nat /\ n \in Nat
      /\ s \o t \in Seq(Event)
      /\ Len(s \o t) = m + n
      /\ \A i \in 1..(m + n) : (s \o t)[i] = IF i <= m THEN s[i] ELSE t[i - m]
  BY LenProperties, ConcatProperties
<1>4. /\ R \in Seq(RealEvent)
      /\ R = f[m] /\ f[0] = <<>> /\ g[0] = <<>>
      /\ \A k \in 0..m : f[k] \in Seq(RealEvent)
      /\ \A k \in 0..n : g[k] \in Seq(RealEvent)
  BY <1>1, <1>2, RealsType DEF RealStates
<1>5. /\ \A k \in 1..m :
           f[k] = IF s[k] = Null THEN f[k - 1] ELSE Append(f[k - 1], s[k])
      /\ \A k \in 1..n :
           g[k] = IF t[k] = Null THEN g[k - 1] ELSE Append(g[k - 1], t[k])
  BY <1>1, <1>2 DEF RealStates
<1>6. R \o <<>> = R
  BY <1>4, ConcatEmptySeq
<1> HIDE DEF m, n, R
<1>7. h \in [0..(m + n) -> Seq(RealEvent)]
  <2> SUFFICES ASSUME NEW k \in 0..(m + n)
               PROVE  (IF k <= m THEN f[k] ELSE R \o g[k - m]) \in Seq(RealEvent)
    OBVIOUS
  <2>1. CASE k <= m
    <3>1. k \in 0..m
      BY <1>3, <2>1
    <3> QED
      BY <1>4, <2>1, <3>1
  <2>2. CASE ~(k <= m)
    <3>1. k - m \in 0..n
      BY <1>3, <2>2
    <3>2. R \o g[k - m] \in Seq(RealEvent)
      BY <1>4, <3>1, ConcatProperties
    <3> QED
      BY <2>2, <3>2
  <2> QED
    BY <2>1, <2>2
<1>8. h[0] = <<>>
  <2>1. 0 \in 0..(m + n) /\ 0 <= m
    BY <1>3
  <2> QED
    BY <1>4, <2>1
<1>9. ASSUME NEW k \in 1..(m + n)
      PROVE  h[k] = IF (s \o t)[k] = Null THEN h[k - 1]
                    ELSE Append(h[k - 1], (s \o t)[k])
  <2>1. k \in 0..(m + n) /\ k - 1 \in 0..(m + n)
    BY <1>3
  <2>2. CASE k <= m
    <3>1. k \in 1..m /\ k - 1 <= m
      BY <1>3, <2>2
    <3>2. h[k] = f[k] /\ h[k - 1] = f[k - 1]
      BY <2>1, <2>2, <3>1
    <3>3. (s \o t)[k] = s[k]
      BY <1>3, <2>2
    <3> HIDE DEF h
    <3> QED
      BY <1>5, <3>1, <3>2, <3>3
  <2>3. CASE ~(k <= m)
    <3>1. k - m \in 1..n /\ (k - 1) - m = (k - m) - 1
      BY <1>3, <2>3
    <3>2. h[k] = R \o g[k - m]
      BY <2>1, <2>3
    <3>3. h[k - 1] = R \o g[(k - m) - 1]
      <4>1. CASE k - 1 <= m
        <5>1. k - 1 = m /\ (k - m) - 1 = 0
          BY <1>3, <2>3, <4>1
        <5>2. h[k - 1] = R
          BY <1>4, <2>1, <4>1, <5>1
        <5> QED
          BY <1>4, <1>6, <5>1, <5>2
      <4>2. CASE ~(k - 1 <= m)
        BY <2>1, <3>1, <4>2
      <4> QED
        BY <4>1, <4>2
    <3>4. (s \o t)[k] = t[k - m]
      BY <1>3, <2>3
    <3> HIDE DEF h
    <3>5. (k - m) - 1 \in 0..n
      BY <3>1, <1>3
    <3>6. t[k - m] # Null => t[k - m] \in RealEvent
      <4>1. t[k - m] \in Event
        BY <3>1, ElementOfSeq DEF n
      <4> QED
        BY <4>1, EventKinds
    <3>7. g[k - m] = IF t[k - m] = Null THEN g[(k - m) - 1]
                     ELSE Append(g[(k - m) - 1], t[k - m])
      BY <1>5, <3>1
    <3>8. CASE t[k - m] = Null
      BY <3>2, <3>3, <3>4, <3>7, <3>8
    <3>9. CASE t[k - m] # Null
      <4> DEFINE G == g[(k - m) - 1]
                 e == t[k - m]
      <4>1. G \in Seq(RealEvent) /\ e \in RealEvent
        BY <1>4, <3>5, <3>6, <3>9
      <4>2. g[k - m] = Append(G, e)
        BY <3>7, <3>9
      <4> HIDE DEF G, e
      <4>3. R \o Append(G, e) = Append(R \o G, e)
        <5>1. R \in Seq(RealEvent)
          BY <1>4
        <5> QED
          BY <4>1, <5>1, AppendToConcat
      <4> QED
        BY <3>2, <3>3, <3>4, <3>9, <4>2, <4>3 DEF G, e
    <3> QED
      BY <3>8, <3>9
  <2> QED
    BY <2>2, <2>3
<1>10. h[m + n] = R \o g[n]
  <2>1. m + n \in 0..(m + n) /\ (m + n) - m = n
    BY <1>3
  <2>2. CASE n = 0
    <3>1. m + n = m /\ m <= m
      BY <1>3, <2>2
    <3>2. h[m + n] = f[m]
      BY <2>1, <3>1
    <3> HIDE DEF h
    <3> QED
      BY <1>4, <1>6, <2>2, <3>2
  <2>3. CASE n # 0
    <3>1. ~(m + n <= m)
      BY <1>3, <2>3
    <3> QED
      BY <2>1, <3>1
  <2> QED
    BY <2>2, <2>3
<1> HIDE DEF h
<1>11. RealStates(s \o t, h)
  BY <1>3, <1>7, <1>8, <1>9 DEF RealStates
<1>12. Reals(s \o t) = h[m + n]
  BY <1>3, <1>11, RealsAre
<1> QED
  BY <1>2, <1>10, <1>12 DEF R, n

\* ... of a sequence with one more event ...
LEMMA RealsAppend ==
  ASSUME NEW s \in Seq(Event), NEW e \in Event
  PROVE  Reals(Append(s, e)) = IF e = Null THEN Reals(s) ELSE Append(Reals(s), e)
<1>1. Append(s, e) = s \o <<e>> /\ <<e>> \in Seq(Event)
  BY AppendIsConcat
<1>2. Reals(Append(s, e)) = Reals(s) \o Reals(<<e>>)
  BY <1>1, RealsConcat
<1>3. Reals(s) \in Seq(RealEvent)
  BY RealsType
<1>4. Reals(s) \o <<>> = Reals(s)
  BY <1>3, ConcatEmptySeq
<1>5. ASSUME e # Null PROVE Append(Reals(s), e) = Reals(s) \o <<e>>
  <2>1. e \in RealEvent
    BY <1>5, EventKinds
  <2> QED
    BY <1>3, <2>1, AppendIsConcat
<1> QED
  BY <1>2, <1>4, <1>5, RealsOfFew

\* Idle events are no real ones.
LEMMA NullsReals ==
  ASSUME NEW n \in Nat
  PROVE  Nulls(n) \in Seq(Event) /\ Reals(Nulls(n)) = <<>>
<1> DEFINE s == Nulls(n)
           f == [k \in 0..n |-> <<>>]
<1>1. s \in Seq(Event) /\ Len(s) = n /\ \A k \in 1..n : s[k] = Null
  BY DEF Nulls, Event
<1> HIDE DEF s
<1>2. <<>> \in Seq(RealEvent)
  BY EmptySeq
<1>3. RealStates(s, f)
  <2>1. f \in [0..Len(s) -> Seq(RealEvent)]
    BY <1>1, <1>2
  <2>2. f[0] = <<>>
    OBVIOUS
  <2>3. ASSUME NEW k \in 1..Len(s)
        PROVE  f[k] = IF s[k] = Null THEN f[k - 1] ELSE Append(f[k - 1], s[k])
    <3>1. k - 1 \in 0..n /\ k \in 0..n /\ s[k] = Null
      BY <1>1
    <3>2. f[k - 1] = <<>> /\ f[k] = <<>>
      BY <3>1
    <3> QED
      BY <3>1, <3>2
  <2> HIDE DEF f
  <2> QED
    BY <2>1, <2>2, <2>3 DEF RealStates
<1>4. Reals(s) = <<>>
  <2>1. Reals(s) = f[Len(s)]
    BY <1>1, <1>3, RealsAre
  <2> QED
    BY <1>1, <2>1
<1> QED
  BY <1>1, <1>4 DEF s

\* ... and of a sequence that lost its head.
LEMMA RealsTail ==
  ASSUME NEW s \in Seq(Event), s # <<>>
  PROVE  /\ Head(s) = Null => Reals(Tail(s)) = Reals(s)
         /\ Head(s) # Null => /\ Reals(s) # <<>>
                              /\ Head(Reals(s)) = Head(s)
                              /\ Reals(Tail(s)) = Tail(Reals(s))
<1>1. Head(s) \in Event /\ Tail(s) \in Seq(Event)
  BY HeadTailProperties
<1>2. s = <<Head(s)>> \o Tail(s) /\ <<Head(s)>> \in Seq(Event)
  OBVIOUS
<1> DEFINE T == Reals(Tail(s))
           e == Head(s)
<1>3. Reals(s) = Reals(<<e>>) \o T
  BY <1>1, <1>2, RealsConcat
<1>4. T \in Seq(RealEvent)
  BY <1>1, RealsType
<1>5. <<>> \o T = T
  BY <1>4, ConcatEmptySeq
<1>6. Reals(<<e>>) = IF e = Null THEN <<>> ELSE <<e>>
  BY <1>1, RealsOfFew
<1>7. ASSUME e # Null
      PROVE  Reals(s) # <<>> /\ Head(Reals(s)) = e /\ Tail(Reals(s)) = T
  <2>1. e \in RealEvent
    BY <1>1, <1>7, EventKinds
  <2>2. Reals(s) = <<e>> \o T
    BY <1>3, <1>6, <1>7
  <2> HIDE DEF T, e
  <2> QED
    BY <1>4, <2>1, <2>2
<1> QED
  BY <1>3, <1>5, <1>6, <1>7

-----------------------------------------------------------------------------
\* What the loop of _trim_stale_nulls carries, and its invariant: no run of
\* idle events in the output is longer than allowed, and the run at its end
\* is as long as the counter says, up to the allowance.
TrimState == [out : Seq(Event), run : Nat]

LastRun(acc) == IF acc.run < StaleNullKeep THEN acc.run ELSE StaleNullKeep

RunCounted(acc) ==
  /\ LastRun(acc) <= Len(acc.out)
  /\ LastRun(acc) = Len(acc.out) \/ acc.out[Len(acc.out) - LastRun(acc)] # Null

TrimStates(s, a) ==
  /\ a[0] = [out |-> <<>>, run |-> 0]
  /\ \A k \in 1..Len(s) : a[k] = TrimStep(a[k - 1], s[k])

\* One more event keeps runs short if it is real or the last run has room.
LEMMA RunsStayShort ==
  ASSUME NEW acc \in TrimState, NEW e \in Event,
         RunsAreShort(acc.out), RunCounted(acc),
         e = Null => acc.run < StaleNullKeep
  PROVE  RunsAreShort(Append(acc.out, e))
<1> DEFINE s == acc.out
           t == Append(s, e)
           L == Len(s)
           K == StaleNullKeep
           r == LastRun(acc)
<1>1. K \in Nat \ {0} /\ acc.run \in Nat /\ s \in Seq(Event)
  BY EventsAssumption DEF TrimState
<1>2. L \in Nat
  BY <1>1, LenProperties
<1>3. /\ Len(t) = L + 1
      /\ \A i \in 1..L : t[i] = s[i]
      /\ t[L + 1] = e
  BY <1>1, AppendProperties
<1>4. \A i \in 1..(L - K) : \E j \in i..(i + K) : s[j] # Null
  BY DEF RunsAreShort
<1>5. /\ r <= L
      /\ r = L \/ s[L - r] # Null
      /\ r \in 0..K
      /\ e = Null => r < K
  BY <1>1 DEF RunCounted, LastRun
<1> HIDE DEF s, t, L, K, r
<1>6. ASSUME NEW i \in 1..(L + 1 - K)
      PROVE  \E j \in i..(i + K) : t[j] # Null
  <2>1. CASE i <= L - K
    <3>1. i \in 1..(L - K)
      BY <1>1, <1>2, <2>1
    <3>2. PICK j \in i..(i + K) : s[j] # Null
      BY <1>4, <3>1
    <3>3. j \in 1..L
      BY <1>1, <1>2, <2>1
    <3> QED
      BY <1>3, <3>2, <3>3
  <2>2. CASE i = L + 1 - K /\ e # Null
    <3>1. L + 1 \in i..(i + K)
      BY <1>1, <1>2, <2>2
    <3> QED
      BY <1>3, <2>2, <3>1
  <2>3. CASE i = L + 1 - K /\ e = Null
    <3>1. r # L
      BY <1>1, <1>2, <1>5, <2>3
    <3>2. L - r \in i..(i + K) /\ L - r \in 1..L
      BY <1>1, <1>2, <1>5, <2>3, <3>1
    <3> QED
      BY <1>3, <1>5, <3>1, <3>2
  <2> QED
    BY <1>1, <1>2, <2>1, <2>2, <2>3
<1>7. Len(t) - K = L + 1 - K
  BY <1>1, <1>2, <1>3
<1> QED
  BY <1>6, <1>7 DEF RunsAreShort, t, s, K

\* One iteration keeps the types, drops no real event and keeps the runs short.
LEMMA TrimStepKeeps ==
  ASSUME NEW acc \in TrimState, NEW e \in Event
  PROVE  LET next == TrimStep(acc, e) IN
         /\ next \in TrimState
         /\ Len(next.out) <= Len(acc.out) + 1
         /\ Reals(next.out) = IF e = Null THEN Reals(acc.out)
                              ELSE Append(Reals(acc.out), e)
         /\ RunsAreShort(acc.out) /\ RunCounted(acc) =>
              RunsAreShort(next.out) /\ RunCounted(next)
<1> DEFINE s == acc.out
           t == Append(s, e)
           K == StaleNullKeep
           next == TrimStep(acc, e)
<1>1. K \in Nat \ {0} /\ acc.run \in Nat /\ s \in Seq(Event) /\ Len(s) \in Nat
  BY EventsAssumption, LenProperties DEF TrimState
<1>2. /\ t \in Seq(Event) /\ Len(t) = Len(s) + 1
      /\ \A i \in 1..Len(s) : t[i] = s[i]
      /\ t[Len(s) + 1] = e
  BY <1>1, AppendProperties
<1>3. Reals(t) = IF e = Null THEN Reals(s) ELSE Append(Reals(s), e)
  BY <1>1, RealsAppend
<1>4. RunsAreShort(s) /\ RunCounted(acc) /\ (e = Null => acc.run < K) => RunsAreShort(t)
  BY RunsStayShort
<1>5. CASE e # Null
  <2>1. next = [out |-> t, run |-> 0]
    BY <1>5 DEF TrimStep
  <2>2. RunCounted([out |-> t, run |-> 0])
    <3> HIDE DEF s, t
    <3>1. LastRun([out |-> t, run |-> 0]) = 0
      BY <1>1 DEF LastRun
    <3>2. Len(t) - 0 = Len(s) + 1 /\ 0 <= Len(t)
      BY <1>1, <1>2
    <3> QED
      BY <1>2, <1>5, <3>1, <3>2 DEF RunCounted
  <2> HIDE DEF next, s, t
  <2>3. next \in TrimState /\ next.out = t
    BY <1>2, <2>1 DEF TrimState
  <2> QED
    BY <1>1, <1>2, <1>3, <1>4, <1>5, <2>1, <2>2, <2>3 DEF next, s
<1>6. CASE e = Null /\ acc.run < K
  <2>1. next = [out |-> t, run |-> acc.run + 1]
    BY <1>6 DEF TrimStep
  <2>2. RunCounted(acc) => RunCounted([out |-> t, run |-> acc.run + 1])
    <3> DEFINE n == acc.run
    <3>1. LastRun([out |-> t, run |-> n + 1]) = n + 1 /\ LastRun(acc) = n
      BY <1>1, <1>6 DEF LastRun
    <3> HIDE DEF n, s, t
    <3>2. Len(t) - (n + 1) = Len(s) - n
      BY <1>1, <1>2 DEF n
    <3>3. ASSUME RunCounted(acc)
          PROVE  n <= Len(s) /\ (n = Len(s) \/ s[Len(s) - n] # Null)
      BY <3>1, <3>3 DEF RunCounted, s
    <3>4. ASSUME RunCounted(acc), n # Len(s)
          PROVE  t[Len(s) - n] = s[Len(s) - n]
      <4>1. Len(s) - n \in 1..Len(s)
        BY <1>1, <3>3, <3>4 DEF n
      <4> QED
        BY <1>2, <4>1
    <3>5. ASSUME RunCounted(acc)
          PROVE  RunCounted([out |-> t, run |-> n + 1])
      <4>1. /\ n + 1 <= Len(t)
            /\ n + 1 = Len(t) \/ t[Len(t) - (n + 1)] # Null
        BY <1>1, <1>2, <3>2, <3>3, <3>4, <3>5 DEF n
      <4> QED
        BY <3>1, <4>1 DEF RunCounted
    <3> QED
      BY <3>5 DEF n
  <2> HIDE DEF next, s, t
  <2>3. next \in TrimState /\ next.out = t
    BY <1>1, <1>2, <2>1 DEF TrimState
  <2> QED
    BY <1>1, <1>2, <1>3, <1>4, <1>6, <2>1, <2>2, <2>3 DEF next, s
<1>7. CASE e = Null /\ ~(acc.run < K)
  <2>1. next = [out |-> s, run |-> acc.run + 1]
    BY <1>7 DEF TrimStep
  <2>2. RunCounted(acc) => RunCounted([out |-> s, run |-> acc.run + 1])
    <3>1. LastRun([out |-> s, run |-> acc.run + 1]) = K /\ LastRun(acc) = K
      BY <1>1, <1>7 DEF LastRun
    <3> QED
      BY <3>1 DEF RunCounted
  <2> HIDE DEF next, s
  <2>3. next \in TrimState /\ next.out = s
    BY <1>1, <2>1 DEF TrimState
  <2> QED
    BY <1>1, <1>7, <2>1, <2>2, <2>3 DEF next, s
<1> QED
  BY <1>5, <1>6, <1>7

\* The loop of the trim has a state after each entry.
LEMMA TrimRuns ==
  ASSUME NEW s \in Seq(Event), ~(Len(s) <= StaleNullThreshold)
  PROVE  \E a : TrimStates(s, a) /\ TrimStaleNulls(s) = a[Len(s)].out
<1> DEFINE init == [out |-> <<>>, run |-> 0]
           step == [k \in 1..Len(s) |-> [acc \in TrimState |-> TrimStep(acc, s[k])]]
<1>1. Len(s) \in Nat /\ \A k \in 1..Len(s) : s[k] \in Event
  BY ElementOfSeq, LenProperties
<1>2. Loop(Len(s), TrimState, init, step)
  <2>1. init \in TrimState
    BY EmptySeq DEF TrimState
  <2>2. \A k \in 1..Len(s), acc \in TrimState : TrimStep(acc, s[k]) \in TrimState
    BY <1>1, TrimStepKeeps
  <2> HIDE DEF init
  <2> QED
    BY <1>1, <2>1, <2>2 DEF Loop
<1>3. PICK f : f \in [0..Len(s) -> TrimState] /\ LoopStates(Len(s), init, step, f)
  BY <1>2, LoopHasStates
<1> DEFINE Is(g) == g = [n \in 0..Len(s) |->
              IF n = 0 THEN init ELSE TrimStep(g[n - 1], s[n])]
           h == CHOOSE g : Is(g)
<1>4. Is(f)
  <2>1. ASSUME NEW n \in 0..Len(s)
        PROVE  f[n] = IF n = 0 THEN init ELSE TrimStep(f[n - 1], s[n])
    <3>1. CASE n = 0
      BY <1>3, <3>1 DEF LoopStates
    <3>2. CASE n # 0
      <4>1. n \in 1..Len(s) /\ n - 1 \in 0..Len(s)
        BY <1>1, <3>2
      <4>2. f[n - 1] \in TrimState
        BY <1>3, <4>1
      <4>3. f[n] = step[n][f[n - 1]]
        BY <1>3, <4>1 DEF LoopStates
      <4> QED
        BY <3>2, <4>1, <4>2, <4>3
    <3> QED
      BY <3>1, <3>2
  <2>2. f = [n \in 0..Len(s) |-> f[n]]
    BY <1>3
  <2> HIDE DEF step, init
  <2> QED
    BY <2>1, <2>2
<1>5. Is(h)
  BY <1>4
<1>6. TrimStaleNulls(s) = h[Len(s)].out
  BY DEF TrimStaleNulls
<1>7. TrimStates(s, h)
  <2> HIDE DEF h
  <2>1. 0 \in 0..Len(s)
    BY <1>1
  <2>2. h[0] = init
    BY <1>5, <2>1
  <2>3. ASSUME NEW n \in 1..Len(s)
        PROVE  h[n] = TrimStep(h[n - 1], s[n])
    <3>1. n \in 0..Len(s) /\ n # 0
      BY <1>1
    <3> QED
      BY <1>5, <3>1
  <2> QED
    BY <2>2, <2>3 DEF TrimStates
<1> QED
  BY <1>6, <1>7

\* The trim of stale idle events keeps every real event, in order, never makes
\* a queue longer, and bounds every run of idle events in a queue it touches.
LEMMA TrimKeeps ==
  ASSUME NEW s \in Seq(Event)
  PROVE  /\ TrimStaleNulls(s) \in Seq(Event)
         /\ Len(TrimStaleNulls(s)) <= Len(s)
         /\ Reals(TrimStaleNulls(s)) = Reals(s)
         /\ \/ Len(TrimStaleNulls(s)) <= StaleNullThreshold
            \/ RunsAreShort(TrimStaleNulls(s))
<1>1. Len(s) \in Nat /\ \A k \in 1..Len(s) : s[k] \in Event
  BY ElementOfSeq, LenProperties
<1>2. CASE Len(s) <= StaleNullThreshold
  <2>1. TrimStaleNulls(s) = s
    BY <1>2 DEF TrimStaleNulls
  <2> QED
    BY <1>1, <1>2, <2>1
<1>3. CASE ~(Len(s) <= StaleNullThreshold)
  <2>1. PICK a : TrimStates(s, a) /\ TrimStaleNulls(s) = a[Len(s)].out
    BY <1>3, TrimRuns
  <2>2. PICK f : RealStates(s, f) /\ Reals(s) = f[Len(s)]
    BY RealsRuns
  <2> DEFINE Good(k) == /\ a[k] \in TrimState
                        /\ Len(a[k].out) <= k
                        /\ Reals(a[k].out) = f[k]
                        /\ RunsAreShort(a[k].out)
                        /\ RunCounted(a[k])
             G == {k \in 0..Len(s) : Good(k)}
  <2>3. 0 \in G
    <3>1. a[0] = [out |-> <<>>, run |-> 0] /\ f[0] = <<>>
      BY <2>1, <2>2 DEF TrimStates, RealStates
    <3>2. a[0] \in TrimState /\ a[0].out = <<>> /\ a[0].run = 0
      BY <3>1, EmptySeq DEF TrimState
    <3>3. Reals(<<>>) = <<>> /\ Len(<<>>) = 0
      BY RealsOfFew
    <3>4. RunsAreShort(<<>>)
      BY <3>3, EventsAssumption DEF RunsAreShort
    <3>5. LastRun(a[0]) = 0
      BY <3>2, EventsAssumption DEF LastRun
    <3>6. RunCounted(a[0])
      BY <3>2, <3>3, <3>5 DEF RunCounted
    <3>7. Good(0)
      BY <3>1, <3>2, <3>3, <3>4, <3>6
    <3> HIDE DEF Good
    <3> QED
      BY <1>1, <3>7
  <2>4. \A k \in 1..Len(s) : k - 1 \in G => k \in G
    <3> SUFFICES ASSUME NEW k \in 1..Len(s), Good(k - 1)
                 PROVE  Good(k)
      <4> HIDE DEF Good
      <4>1. \A k \in 1..Len(s) : k \in 0..Len(s)
        BY <1>1
      <4> QED
        BY <4>1
    <3> DEFINE acc == a[k - 1]
               next == a[k]
    <3>1. s[k] \in Event
      BY <1>1
    <3>2. next = TrimStep(acc, s[k])
      BY <2>1 DEF TrimStates
    <3>3. f[k] = IF s[k] = Null THEN f[k - 1] ELSE Append(f[k - 1], s[k])
      BY <2>2 DEF RealStates
    <3>4. /\ next \in TrimState
          /\ Len(next.out) <= Len(acc.out) + 1
          /\ Reals(next.out) = IF s[k] = Null THEN Reals(acc.out)
                               ELSE Append(Reals(acc.out), s[k])
          /\ RunsAreShort(next.out) /\ RunCounted(next)
      BY <3>1, <3>2, TrimStepKeeps
    <3>5. Len(acc.out) \in Nat /\ Len(next.out) \in Nat /\ Len(acc.out) <= k - 1
      BY <3>4, LenProperties DEF TrimState
    <3>6. Len(next.out) <= k
      BY <1>1, <3>4, <3>5
    <3> QED
      BY <3>3, <3>4, <3>6
  <2> HIDE DEF G
  <2>5. G = 0..Len(s)
    <3>1. G \in SUBSET (0..Len(s))
      BY DEF G
    <3> QED
      BY <1>1, <2>3, <2>4, <3>1, PositionInduction
  <2>6. Good(Len(s))
    <3>1. Len(s) \in 0..Len(s)
      BY <1>1
    <3> QED
      BY <2>5, <3>1 DEF G
  <2> QED
    BY <2>1, <2>2, <2>6 DEF TrimState
<1> QED
  BY <1>2, <1>3
=============================================================================
