-------------------------- MODULE EventQueueProofs --------------------------
(***************************************************************************)
(* Proofs about the event queue, for every set of batches, every scan code *)
(* and every keep, threshold and length of a burst.                        *)
(***************************************************************************)
EXTENDS EventQueue, EventsProofs

-----------------------------------------------------------------------------
\* What the refill and the pushes append is a sequence of events.
LEMMA BatchType ==
  ASSUME NEW b \in Batches
  PROVE  b \in Seq(Event)
BY QueueAssumption

\* The pushes append sequences of events.
LEMMA BurstType ==
  ASSUME NEW s \in Scan
  PROVE  Burst(s) \in Seq(Event)
<1>1. /\ KeyDown(s) \in Event /\ Key(s) \in Event /\ KeyUp(s) \in Event
      /\ Null \in Event
  BY DEF Event, RealEvent, KeyDown, Key, KeyUp
<1>2. \A n \in Nat : Nulls(n) \in Seq(Event)
  BY <1>1 DEF Nulls
<1>3. /\ <<Null, KeyDown(s)>> \in Seq(Event) /\ Nulls(3) \in Seq(Event)
      /\ <<Key(s)>> \in Seq(Event) /\ Nulls(HoldNulls) \in Seq(Event)
      /\ <<KeyUp(s)>> \in Seq(Event) /\ Nulls(GapNulls) \in Seq(Event)
  BY <1>1, <1>2, EventsAssumption
<1> DEFINE S == Seq(Event)
           a == <<Null, KeyDown(s)>>
           c == <<Key(s)>>
           d == <<KeyUp(s)>>
<1>4. \A u, v \in S : u \o v \in S
  BY ConcatProperties
<1>5. Burst(s) = ((((a \o Nulls(3)) \o c) \o Nulls(HoldNulls)) \o d) \o Nulls(GapNulls)
  BY DEF Burst
<1> HIDE DEF S, a, c, d
<1> QED
  BY <1>3, <1>4, <1>5 DEF S, a, c, d

-----------------------------------------------------------------------------
\* The invariant: the types need it, because a pop takes the head of owed.
QueueInv == QueueTypeOK /\ RealsSurvive

\* A pop takes the head of the queue and, if it is real, the head of owed.
LEMMA PoppedKeeps ==
  ASSUME NEW s \in Seq(Event), s # <<>>, Len(s) <= MaxQueue, Popped(s, Reals(s))
  PROVE  /\ q' \in Seq(Event)
         /\ Len(q') <= MaxQueue
         /\ owed' = Reals(q')
         /\ owed' \in Seq(RealEvent)
<1>1. /\ Tail(s) \in Seq(Event) /\ Len(Tail(s)) = Len(s) - 1 /\ Len(s) \in Nat
  BY HeadTailProperties, LenProperties
<1>2. MaxQueue \in Nat
  BY QueueAssumption
<1>3. q' = Tail(s) /\ owed' = IF Head(s) = Null THEN Reals(s) ELSE Tail(Reals(s))
  BY DEF Popped
<1>4. owed' = Reals(Tail(s))
  BY <1>3, RealsTail
<1>5. Reals(Tail(s)) \in Seq(RealEvent)
  BY <1>1, RealsType
<1>6. Len(Tail(s)) <= MaxQueue
  BY <1>1, <1>2
<1> QED
  BY <1>1, <1>3, <1>4, <1>5, <1>6, Zenon

\* Appending b to the queue hands its real events in.
LEMMA AppendedKeeps ==
  ASSUME NEW s \in Seq(Event), NEW b \in Seq(Event), Len(s) + Len(b) <= MaxQueue
  PROVE  /\ s \o b \in Seq(Event)
         /\ Len(s \o b) <= MaxQueue
         /\ Reals(s \o b) = Reals(s) \o Reals(b)
         /\ Reals(s) \o Reals(b) \in Seq(RealEvent)
<1>1. s \o b \in Seq(Event) /\ Len(s \o b) = Len(s) + Len(b)
  BY ConcatProperties
<1>2. Reals(s \o b) \in Seq(RealEvent)
  BY <1>1, RealsType
<1> QED
  BY <1>1, <1>2, RealsConcat

\* Every operation of the class keeps the invariant.
LEMMA QueueStep ==
  ASSUME QueueInv, [QueueNext]_queueVars
  PROVE  QueueInv'
<1>1. /\ q \in Seq(Event) /\ Len(q) <= MaxQueue /\ owed \in Seq(RealEvent)
      /\ running \in BOOLEAN /\ Reals(q) = owed
  BY DEF QueueInv, QueueTypeOK, RealsSurvive
<1>2. ASSUME NEW b \in Batches, ProduceTick(b)
      PROVE  QueueInv'
  <2>1. b \in Seq(Event) /\ Len(q) + Len(b) <= MaxQueue
    BY <1>2, BatchType DEF ProduceTick, Fits
  <2>2. /\ q \o b \in Seq(Event) /\ Len(q \o b) <= MaxQueue
        /\ Reals(q \o b) = owed \o Reals(b)
        /\ owed \o Reals(b) \in Seq(RealEvent)
    BY <1>1, <2>1, AppendedKeeps
  <2>3. /\ q' = TrimStaleNulls(q \o b) /\ owed' = owed \o Reals(b)
        /\ running' = running
    BY <1>2 DEF ProduceTick
  <2>4. /\ TrimStaleNulls(q \o b) \in Seq(Event)
        /\ Len(TrimStaleNulls(q \o b)) <= Len(q \o b)
        /\ Reals(TrimStaleNulls(q \o b)) = Reals(q \o b)
    BY <2>2, TrimKeeps
  <2>5. Len(q') <= MaxQueue
    <3>1. Len(q') \in Nat /\ Len(q \o b) \in Nat /\ MaxQueue \in Nat
      BY <2>2, <2>3, <2>4, LenProperties, QueueAssumption
    <3> QED
      BY <2>2, <2>3, <2>4, <3>1
  <2> QED
    BY <1>1, <2>2, <2>3, <2>4, <2>5 DEF QueueInv, QueueTypeOK, RealsSurvive
<1>3. ASSUME NEW b \in Batches, PopAfterRefill(b)
      PROVE  QueueInv'
  <2>1. /\ b \in Seq(Event) /\ b # <<>> /\ q = <<>> /\ Len(<<>>) + Len(b) <= MaxQueue
        /\ Popped(b, owed \o Reals(b)) /\ running' = running
    BY <1>3, BatchType DEF PopAfterRefill, Fits
  <2>2. Len(<<>>) = 0 /\ Len(b) \in Nat
    BY <2>1, LenProperties, EmptySeq
  <2>3. owed \o Reals(b) = Reals(b)
    <3>1. owed = <<>>
      BY <1>1, <2>1, RealsOfFew
    <3>2. Reals(b) \in Seq(RealEvent)
      BY <2>1, RealsType
    <3> QED
      BY <3>1, <3>2, ConcatEmptySeq
  <2>4. Len(b) <= MaxQueue
    BY <2>1, <2>2
  <2>5. /\ q' \in Seq(Event) /\ Len(q') <= MaxQueue
        /\ owed' = Reals(q') /\ owed' \in Seq(RealEvent)
    BY <2>1, <2>3, <2>4, PoppedKeeps
  <2> QED
    BY <1>1, <2>1, <2>5 DEF QueueInv, QueueTypeOK, RealsSurvive
<1>4. ASSUME NEW b \in Batches, PopStarved(b)
      PROVE  QueueInv'
  BY <1>1, <1>4 DEF PopStarved, QueueInv, QueueTypeOK, RealsSurvive
<1>5. ASSUME NEW b \in Batches, Peek(b)
      PROVE  QueueInv'
  <2>1. /\ b \in Seq(Event) /\ q = <<>> /\ Len(<<>>) + Len(b) <= MaxQueue
        /\ q' = b /\ owed' = owed \o Reals(b) /\ running' = running
    BY <1>5, BatchType DEF Peek, Fits
  <2>2. Len(b) <= MaxQueue
    <3>1. Len(<<>>) = 0 /\ Len(b) \in Nat
      BY <2>1, LenProperties, EmptySeq
    <3> QED
      BY <2>1, <3>1
  <2>3. owed \o Reals(b) = Reals(b) /\ Reals(b) \in Seq(RealEvent)
    <3>1. owed = <<>>
      BY <1>1, <2>1, RealsOfFew
    <3>2. Reals(b) \in Seq(RealEvent)
      BY <2>1, RealsType
    <3> QED
      BY <3>1, <3>2, ConcatEmptySeq
  <2> QED
    BY <1>1, <2>1, <2>2, <2>3 DEF QueueInv, QueueTypeOK, RealsSurvive
<1>6. CASE Pop
  <2>1. q # <<>> /\ Popped(q, owed) /\ running' = running
    BY <1>6 DEF Pop
  <2>2. /\ q' \in Seq(Event) /\ Len(q') <= MaxQueue
        /\ owed' = Reals(q') /\ owed' \in Seq(RealEvent)
    BY <1>1, <2>1, PoppedKeeps
  <2> QED
    BY <1>1, <2>1, <2>2 DEF QueueInv, QueueTypeOK, RealsSurvive
<1>7. ASSUME NEW b \in Seq(Event), Push(b)
      PROVE  QueueInv'
  <2>1. /\ Len(q) + Len(b) <= MaxQueue /\ q' = q \o b
        /\ owed' = owed \o Reals(b) /\ running' = running
    BY <1>7 DEF Push, Fits
  <2>2. /\ q \o b \in Seq(Event) /\ Len(q \o b) <= MaxQueue
        /\ Reals(q \o b) = owed \o Reals(b)
        /\ owed \o Reals(b) \in Seq(RealEvent)
    BY <1>1, <2>1, AppendedKeeps
  <2> QED
    BY <1>1, <2>1, <2>2 DEF QueueInv, QueueTypeOK, RealsSurvive
<1>8. ASSUME NEW s \in Scan, PushDownUpPair(s)
      PROVE  QueueInv'
  BY <1>7, <1>8, BurstType DEF PushDownUpPair
<1>9. CASE PushIdle
  <2>1. <<Null>> \in Seq(Event)
    BY EventKinds
  <2> QED
    BY <1>7, <1>9, <2>1 DEF PushIdle
<1>10. CASE UNCHANGED queueVars
  BY <1>1, <1>10 DEF queueVars, QueueInv, QueueTypeOK, RealsSurvive
<1> QED
  BY <1>2, <1>3, <1>4, <1>5, <1>6, <1>8, <1>9, <1>10 DEF QueueNext

\* It holds in every reachable state.
LEMMA QueueInvariant == QueueSpec => []QueueInv
<1>1. QueueInit => QueueInv
  <2>1. MaxQueue \in Nat /\ Len(<<>>) = 0
    BY QueueAssumption, EmptySeq
  <2> QED
    BY <2>1, RealsOfFew, EmptySeq
    DEF QueueInit, QueueInv, QueueTypeOK, RealsSurvive
<1> QED
  BY <1>1, QueueStep, PTL DEF QueueSpec

\* The queue stays a bounded sequence of events, whatever is refilled, pushed,
\* trimmed and popped (class EventQueue of input.py).
THEOREM QueueTypeCorrect == QueueSpec => []QueueTypeOK
BY QueueInvariant, PTL DEF QueueInv

\* Trimming never loses, duplicates or reorders a real event (the claim of the
\* comment at input.py:111-113), for every queue, batch, keep and threshold.
THEOREM RealsSurviveHolds == QueueSpec => []RealsSurvive
BY QueueInvariant, PTL DEF QueueInv

\* A tick bounds the backlog of idle events, wherever the real ones stand
\* (docstring of _trim_stale_nulls).
THEOREM TickBoundsBacklogHolds == QueueSpec => TickBoundsBacklog
<1> DEFINE A == (\E b \in Batches : ProduceTick(b)) =>
                  Len(q') <= StaleNullThreshold \/ RunsAreShort(q')
<1>1. ASSUME QueueInv PROVE A
  <2> SUFFICES ASSUME NEW b \in Batches, ProduceTick(b)
               PROVE  Len(q') <= StaleNullThreshold \/ RunsAreShort(q')
    OBVIOUS
  <2>1. b \in Seq(Event) /\ q \in Seq(Event)
    BY <1>1, BatchType DEF QueueInv, QueueTypeOK
  <2>2. q \o b \in Seq(Event)
    BY <2>1, ConcatProperties
  <2>3. q' = TrimStaleNulls(q \o b)
    BY DEF ProduceTick
  <2> QED
    BY <2>2, <2>3, TrimKeeps
<1>2. QueueInv => [A]_queueVars
  BY <1>1
<1> QED
  BY <1>2, QueueInvariant, PTL DEF TickBoundsBacklog

-----------------------------------------------------------------------------
(* Gaps: where the real events stand, and what lies between them.          *)

RealsUpTo(t, i) == Len(Reals(SubSeq(t, 1, i)))
IsNth(t, n, i) == RealsUpTo(t, i) = n /\ (i = 0 \/ t[i] # Null)

\* a says of each real event of t, and of the start, where it stands.
Places(t, a) ==
  /\ a \in [0..Len(Reals(t)) -> 0..Len(t)]
  /\ \A i \in 0..Len(t) : RealsUpTo(t, i) \in Nat /\ RealsUpTo(t, i) <= Len(Reals(t))
  /\ \A n \in 0..Len(Reals(t)), i \in 0..Len(t) : IsNth(t, n, i) <=> i = a[n]

\* One more event at the end leaves every shorter prefix as it was.
LEMMA PrefixFacts ==
  ASSUME NEW t \in Seq(Event), NEW e \in Event
  PROVE  /\ Append(t, e) \in Seq(Event) /\ Len(Append(t, e)) = Len(t) + 1
         /\ \A i \in 1..Len(t) : Append(t, e)[i] = t[i]
         /\ Append(t, e)[Len(t) + 1] = e
         /\ \A i \in 0..Len(t) : SubSeq(Append(t, e), 1, i) = SubSeq(t, 1, i)
         /\ SubSeq(Append(t, e), 1, Len(t) + 1) = Append(t, e)
<1> DEFINE u == Append(t, e)
<1>1. /\ u \in Seq(Event) /\ Len(u) = Len(t) + 1 /\ Len(t) \in Nat
      /\ \A i \in 1..Len(t) : u[i] = t[i]
      /\ u[Len(t) + 1] = e
  BY AppendProperties, LenProperties
<1> HIDE DEF u
<1>2. ASSUME NEW i \in 0..Len(t)
      PROVE  SubSeq(u, 1, i) = SubSeq(t, 1, i)
  <2>1. \A k \in 1..i : k \in 1..Len(t)
    BY <1>1
  <2>2. [k \in 1..i |-> u[k]] = [k \in 1..i |-> t[k]]
    BY <1>1, <2>1
  <2>3. SubSeq(u, 1, i) = [k \in 1..i |-> u[k]] /\ SubSeq(t, 1, i) = [k \in 1..i |-> t[k]]
    BY <1>1
  <2> QED
    BY <2>2, <2>3
<1>3. SubSeq(u, 1, Len(t) + 1) = u
  <2>1. SubSeq(u, 1, Len(u)) = u
    BY <1>1
  <2> QED
    BY <1>1, <2>1
<1> QED
  BY <1>1, <1>2, <1>3 DEF u

\* A prefix grows by one event at a time.
LEMMA PrefixGrows ==
  ASSUME NEW t \in Seq(Event), NEW k \in 1..Len(t)
  PROVE  t[k] \in Event /\ SubSeq(t, 1, k) = Append(SubSeq(t, 1, k - 1), t[k])
<1>1. t[k] \in Event
  BY ElementOfSeq
<1> DEFINE p == SubSeq(t, 1, k - 1)
           r == SubSeq(t, 1, k)
<1>2. /\ Len(t) \in Nat
      /\ p \in Seq(Event) /\ Len(p) = k - 1 /\ \A i \in 1..(k - 1) : p[i] = t[i]
      /\ r \in Seq(Event) /\ Len(r) = k /\ \A i \in 1..k : r[i] = t[i]
  OBVIOUS
<1> HIDE DEF p, r
<1> DEFINE w == Append(p, t[k])
<1>3. /\ w \in Seq(Event) /\ Len(w) = Len(p) + 1 /\ w[Len(p) + 1] = t[k]
      /\ \A i \in 1..Len(p) : w[i] = p[i]
  BY <1>1, <1>2, AppendProperties
<1> HIDE DEF w
<1>4. Len(w) = k /\ \A i \in 1..k : w[i] = r[i]
  BY <1>2, <1>3
<1>5. w = r
  BY <1>2, <1>3, <1>4, SeqEqual
<1> QED
  BY <1>1, <1>5 DEF w, p, r

\* One more event is one more real event, or none.
LEMMA CountOfAppend ==
  ASSUME NEW t \in Seq(Event), NEW e \in Event
  PROVE  Len(Reals(Append(t, e))) = IF e = Null THEN Len(Reals(t)) ELSE Len(Reals(t)) + 1
<1>1. Reals(t) \in Seq(RealEvent)
  BY RealsType
<1>2. Reals(Append(t, e)) = IF e = Null THEN Reals(t) ELSE Append(Reals(t), e)
  BY RealsAppend
<1>3. CASE e # Null
  <2>1. e \in RealEvent
    BY <1>3, EventKinds
  <2> DEFINE R == Reals(t)
  <2> HIDE DEF R
  <2>2. R \in Seq(RealEvent)
    BY <1>1 DEF R
  <2>3. Len(Append(R, e)) = Len(R) + 1
    BY <2>1, <2>2, AppendProperties
  <2> QED
    BY <1>2, <1>3, <2>3 DEF R
<1> QED
  BY <1>2, <1>3

\* Such a table says what NthReal chooses.
LEMMA NthRealIs ==
  ASSUME NEW t, NEW a, Places(t, a), NEW n \in 0..Len(Reals(t))
  PROVE  NthReal(t, n) = a[n]
<1>1. a[n] \in 0..Len(t)
  BY DEF Places
<1>2. \A i \in 0..Len(t) : IsNth(t, n, i) <=> i = a[n]
  BY DEF Places
<1>3. NthReal(t, n) = CHOOSE i \in 0..Len(t) : IsNth(t, n, i)
  BY DEF NthReal, IsNth, RealsUpTo
<1> QED
  BY <1>1, <1>2, <1>3

\* With an idle event at the end no real event moves; a real one at the end
\* stands there.
LEMMA PlacesGrow ==
  ASSUME NEW t \in Seq(Event), NEW e \in Event, NEW a, Places(t, a)
  PROVE  LET N == Len(Reals(t))
         IN  /\ e = Null => Places(Append(t, e), a)
             /\ e # Null => Places(Append(t, e),
                              [n \in 0..(N + 1) |-> IF n <= N THEN a[n] ELSE Len(t) + 1])
<1> DEFINE N == Len(Reals(t))
           u == Append(t, e)
           L == Len(t)
<1>1. /\ u \in Seq(Event) /\ Len(u) = L + 1
      /\ \A i \in 1..L : u[i] = t[i]
      /\ u[L + 1] = e
      /\ \A i \in 0..L : SubSeq(u, 1, i) = SubSeq(t, 1, i)
      /\ SubSeq(u, 1, L + 1) = u
  BY PrefixFacts
<1>2. Reals(u) = IF e = Null THEN Reals(t) ELSE Append(Reals(t), e)
  BY RealsAppend
<1>3. N \in Nat /\ L \in Nat /\ Reals(t) \in Seq(RealEvent)
  BY RealsType, LenProperties
<1>4. Len(Reals(u)) = IF e = Null THEN N ELSE N + 1
  BY CountOfAppend
<1>5. /\ a \in [0..N -> 0..L]
      /\ \A i \in 0..L : RealsUpTo(t, i) \in Nat /\ RealsUpTo(t, i) <= N
      /\ \A n \in 0..N, i \in 0..L : IsNth(t, n, i) <=> i = a[n]
  BY DEF Places
<1>6. \A i \in 0..L : RealsUpTo(u, i) = RealsUpTo(t, i)
  BY <1>1 DEF RealsUpTo
<1>7. RealsUpTo(u, L + 1) = Len(Reals(u))
  BY <1>1 DEF RealsUpTo
<1> HIDE DEF N, u, L
<1>8. ASSUME NEW n, NEW i \in 0..L
      PROVE  IsNth(u, n, i) <=> IsNth(t, n, i)
  <2>1. i = 0 \/ u[i] = t[i]
    BY <1>1, <1>3
  <2> QED
    BY <1>6, <2>1 DEF IsNth
<1>9. \A i \in 0..(L + 1) : i \in 0..L \/ i = L + 1
  BY <1>3
<1>10. \A i \in 0..(L + 1) : RealsUpTo(u, i) \in Nat /\ RealsUpTo(u, i) <= Len(Reals(u))
  <2>1. Len(Reals(u)) \in Nat /\ Len(Reals(u)) >= N
    BY <1>3, <1>4
  <2> SUFFICES ASSUME NEW i \in 0..(L + 1)
               PROVE  RealsUpTo(u, i) \in Nat /\ RealsUpTo(u, i) <= Len(Reals(u))
    OBVIOUS
  <2>2. CASE i \in 0..L
    <3>1. RealsUpTo(t, i) \in Nat /\ RealsUpTo(t, i) <= N
      BY <1>5, <2>2
    <3>2. RealsUpTo(u, i) = RealsUpTo(t, i)
      BY <1>6, <2>2
    <3> QED
      BY <1>3, <2>1, <3>1, <3>2
  <2>3. CASE i = L + 1
    BY <1>7, <2>1, <2>3
  <2> QED
    BY <1>9, <2>2, <2>3
<1>13. a \in [0..N -> 0..L]
  BY <1>5
<1>11. CASE e = Null
  <2>1. \A n : ~IsNth(u, n, L + 1)
    <3>1. L + 1 # 0
      BY <1>3
    <3> QED
      BY <1>1, <1>11, <3>1 DEF IsNth
  <2>2. a \in [0..N -> 0..(L + 1)]
    <3>1. 0..L \subseteq 0..(L + 1)
      BY <1>3
    <3> QED
      BY <1>13, <3>1
  <2>3. \A n \in 0..N : a[n] \in 0..L /\ a[n] # L + 1
    BY <1>3, <1>13
  <2>4. ASSUME NEW n \in 0..N, NEW i \in 0..(L + 1)
        PROVE  IsNth(u, n, i) <=> i = a[n]
    <3>1. CASE i \in 0..L
      BY <1>5, <1>8, <3>1
    <3>2. CASE i = L + 1
      BY <2>1, <2>3, <3>2
    <3> QED
      BY <1>9, <3>1, <3>2
  <2>5. Len(Reals(u)) = N
    BY <1>4, <1>11
  <2>6. Places(u, a)
    BY <1>1, <1>10, <2>2, <2>4, <2>5 DEF Places
  <2> QED
    BY <1>11, <2>6 DEF u
<1>12. CASE e # Null
  <2> DEFINE c == [n \in 0..(N + 1) |-> IF n <= N THEN a[n] ELSE L + 1]
  <2>0. Len(Reals(u)) = N + 1
    BY <1>4, <1>12
  <2>1. IsNth(u, N + 1, L + 1)
    BY <1>1, <1>7, <1>12, <2>0 DEF IsNth
  <2>2. \A n \in 0..N : ~IsNth(u, n, L + 1)
    <3>1. \A n \in 0..N : n # N + 1
      BY <1>3
    <3> QED
      BY <1>7, <2>0, <3>1 DEF IsNth
  <2>3. \A i \in 0..L : ~IsNth(u, N + 1, i)
    <3>1. \A i \in 0..L : RealsUpTo(t, i) # N + 1
      BY <1>3, <1>5
    <3> QED
      BY <1>6, <3>1 DEF IsNth
  <2>4. \A n \in 0..(N + 1) : n \in 0..N \/ n = N + 1
    BY <1>3
  <2>5. \A n \in 0..N : c[n] = a[n] /\ a[n] \in 0..L /\ a[n] # L + 1
    BY <1>3, <1>13
  <2>6. c[N + 1] = L + 1
    BY <1>3
  <2>7. c \in [0..(N + 1) -> 0..(L + 1)]
    <3>1. \A n \in 0..(N + 1) : c[n] \in 0..(L + 1)
      <4> HIDE DEF c
      <4>1. \A x \in 0..L : x \in 0..(L + 1)
        BY <1>3
      <4>2. L + 1 \in 0..(L + 1)
        BY <1>3
      <4> QED
        BY <2>4, <2>5, <2>6, <4>1, <4>2
    <3> QED
      BY <3>1
  <2> HIDE DEF c
  <2>8. ASSUME NEW n \in 0..(N + 1), NEW i \in 0..(L + 1)
        PROVE  IsNth(u, n, i) <=> i = c[n]
    <3>1. CASE n \in 0..N /\ i \in 0..L
      BY <1>5, <1>8, <2>5, <3>1
    <3>2. CASE n \in 0..N /\ i = L + 1
      BY <2>2, <2>5, <3>2
    <3>3. CASE n = N + 1 /\ i \in 0..L
      <4>1. i # L + 1
        BY <1>3, <3>3
      <4> QED
        BY <2>3, <2>6, <3>3, <4>1
    <3>4. CASE n = N + 1 /\ i = L + 1
      BY <2>1, <2>6, <3>4
    <3> QED
      BY <1>9, <2>4, <3>1, <3>2, <3>3, <3>4
  <2>9. Places(u, c)
    BY <1>1, <1>10, <2>0, <2>7, <2>8 DEF Places
  <2> QED
    BY <1>12, <2>9 DEF c, u, L, N
<1> QED
  BY <1>11, <1>12

\* Every sequence of events has such a table.
LEMMA PlacesExist ==
  ASSUME NEW t \in Seq(Event)
  PROVE  \E a : Places(t, a)
<1> DEFINE P(k) == SubSeq(t, 1, k)
           G == {k \in 0..Len(t) : \E a : Places(P(k), a)}
<1>1. /\ Len(t) \in Nat /\ 0 \in 0..Len(t)
      /\ P(0) = <<>> /\ P(Len(t)) = t
  BY LenProperties
<1>2. ASSUME NEW k \in 0..Len(t)
      PROVE  P(k) \in Seq(Event)
  BY <1>1
<1>3. ASSUME NEW k \in 1..Len(t)
      PROVE  t[k] \in Event /\ P(k) = Append(P(k - 1), t[k])
  BY PrefixGrows
<1>4. 0 \in G
  <2> DEFINE a == [n \in 0..0 |-> 0]
  <2>1. Reals(<<>>) = <<>> /\ Len(<<>>) = 0
    BY RealsOfFew
  <2>2. \A i \in 0..0 : i = 0 /\ RealsUpTo(<<>>, i) = 0
    <3>1. SubSeq(<<>>, 1, 0) = <<>>
      OBVIOUS
    <3>2. RealsUpTo(<<>>, 0) = 0
      BY <2>1, <3>1 DEF RealsUpTo
    <3>3. \A i \in 0..0 : i = 0
      OBVIOUS
    <3> QED
      BY <3>2, <3>3
  <2>3. a \in [0..0 -> 0..0] /\ \A n \in 0..0 : n = 0 /\ a[n] = 0
    OBVIOUS
  <2> HIDE DEF a
  <2>4. \A n \in 0..0, i \in 0..0 : IsNth(<<>>, n, i) <=> i = a[n]
    BY <2>2, <2>3 DEF IsNth
  <2>5. Places(<<>>, a)
    BY <2>1, <2>2, <2>3, <2>4 DEF Places
  <2> QED
    BY <1>1, <2>5
<1>5. ASSUME NEW k \in 1..Len(t), k - 1 \in G
      PROVE  k \in G
  <2>1. PICK a : Places(P(k - 1), a)
    BY <1>5
  <2>2. P(k - 1) \in Seq(Event) /\ t[k] \in Event /\ P(k) = Append(P(k - 1), t[k])
    <3>1. k - 1 \in 0..Len(t)
      BY <1>1
    <3> QED
      BY <1>2, <1>3, <3>1
  <2> HIDE DEF P
  <2>3. \E c : Places(P(k), c)
    BY <2>1, <2>2, PlacesGrow
  <2> QED
    BY <1>1, <2>3
<1> HIDE DEF G
<1>6. G \in SUBSET (0..Len(t))
  BY DEF G
<1>7. G = 0..Len(t)
  BY <1>1, <1>4, <1>5, <1>6, PositionInduction
<1>8. Len(t) \in G
  BY <1>1, <1>7
<1> QED
  BY <1>1, <1>8 DEF G

\* What one more event does to the gaps.
LEMMA GapOfAppend ==
  ASSUME NEW t \in Seq(Event), NEW e \in Event
  PROVE  LET N == Len(Reals(t))
             u == Append(t, e)
         IN  /\ N \in Nat /\ \A n \in 0..N : GapAfter(t, n) \in Int
             /\ e = Null =>
                  /\ Len(Reals(u)) = N
                  /\ \A n \in 0..N : GapAfter(u, n) = IF n = N THEN GapAfter(t, n) + 1
                                                      ELSE GapAfter(t, n)
             /\ e # Null =>
                  /\ Len(Reals(u)) = N + 1
                  /\ \A n \in 0..N : GapAfter(u, n) = GapAfter(t, n)
                  /\ GapAfter(u, N + 1) = 0
<1> DEFINE N == Len(Reals(t))
           L == Len(t)
           u == Append(t, e)
<1>1. PICK a : Places(t, a)
  BY PlacesExist
<1>2. N \in Nat /\ L \in Nat /\ Len(u) = L + 1 /\ a \in [0..N -> 0..L]
  BY <1>1, RealsType, LenProperties, PrefixFacts DEF Places
<1>3. \A n \in 0..N : NthReal(t, n) = a[n] /\ a[n] \in Int
  BY <1>1, <1>2, NthRealIs
<1>4. \A n \in 0..N : GapAfter(t, n) = (IF n < N THEN a[n + 1] - 1 ELSE L) - a[n]
  <2> SUFFICES ASSUME NEW n \in 0..N
               PROVE  GapAfter(t, n) = (IF n < N THEN a[n + 1] - 1 ELSE L) - a[n]
    OBVIOUS
  <2>1. n < N => n + 1 \in 0..N
    BY <1>2
  <2> QED
    BY <1>3, <2>1 DEF GapAfter
<1>5. \A n \in 0..N : GapAfter(t, n) \in Int /\ (n < N => n + 1 \in 0..N)
  BY <1>2, <1>3, <1>4
<1>6. Len(Reals(u)) = IF e = Null THEN N ELSE N + 1
  BY CountOfAppend
<1>7. CASE e = Null
  <2>1. Places(u, a)
    BY <1>1, <1>7, PlacesGrow
  <2>2. Len(Reals(u)) = N
    BY <1>6, <1>7
  <2> HIDE DEF u, N, L
  <2>3. \A n \in 0..N : NthReal(u, n) = a[n]
    BY <2>1, <2>2, NthRealIs
  <2>4. \A n \in 0..N : GapAfter(u, n) = (IF n < N THEN a[n + 1] - 1 ELSE L + 1) - a[n]
    BY <1>2, <1>5, <2>2, <2>3 DEF GapAfter
  <2>5. \A n \in 0..N : GapAfter(u, n) = IF n = N THEN GapAfter(t, n) + 1
                                         ELSE GapAfter(t, n)
    BY <1>2, <1>3, <1>4, <2>4
  <2> QED
    BY <1>2, <1>5, <1>7, <2>2, <2>5 DEF u, N
<1>8. CASE e # Null
  <2> DEFINE c == [n \in 0..(N + 1) |-> IF n <= N THEN a[n] ELSE L + 1]
  <2>1. Places(u, c)
    BY <1>1, <1>8, PlacesGrow
  <2>2. Len(Reals(u)) = N + 1
    BY <1>6, <1>8
  <2> HIDE DEF u, N, L
  <2>3. (\A n \in 0..N : c[n] = a[n]) /\ c[N + 1] = L + 1
    BY <1>2
  <2> HIDE DEF c
  <2>4. \A n \in 0..(N + 1) : NthReal(u, n) = c[n]
    BY <2>1, <2>2, NthRealIs
  <2>5. ASSUME NEW n \in 0..N
        PROVE  GapAfter(u, n) = GapAfter(t, n)
    <3>1. n < N + 1 /\ n \in 0..(N + 1) /\ n + 1 \in 0..(N + 1)
      BY <1>2
    <3>2. GapAfter(u, n) = c[n + 1] - 1 - c[n]
      BY <2>2, <2>4, <3>1 DEF GapAfter
    <3>3. CASE n < N
      <4>1. n + 1 \in 0..N
        BY <1>2, <3>3
      <4> QED
        BY <1>4, <2>3, <3>2, <3>3, <4>1
    <3>4. CASE n = N
      <4>1. c[n + 1] - 1 = L
        <5>1. c[n + 1] = L + 1
          BY <2>3, <3>4
        <5> QED
          BY <1>2, <5>1
      <4>2. GapAfter(t, n) = L - a[n]
        BY <1>2, <1>4, <3>4
      <4> QED
        BY <2>3, <3>2, <4>1, <4>2
    <3> QED
      BY <1>2, <3>3, <3>4
  <2>6. GapAfter(u, N + 1) = 0
    <3>1. ~(N + 1 < N + 1) /\ N + 1 \in 0..(N + 1)
      BY <1>2
    <3>2. GapAfter(u, N + 1) = Len(u) - c[N + 1]
      BY <2>2, <2>4, <3>1 DEF GapAfter
    <3> QED
      BY <1>2, <2>3, <3>2
  <2> QED
    BY <1>2, <1>5, <1>8, <2>2, <2>5, <2>6 DEF u, N
<1> QED
  BY <1>7, <1>8

\* A gap is a number.
LEMMA GapsAreNumbers ==
  ASSUME NEW t \in Seq(Event)
  PROVE  \A n \in 0..Len(Reals(t)) : GapAfter(t, n) \in Int
BY GapOfAppend, EventKinds

\* What the trim has made of the entries p: the same real events, each gap cut
\* down to the allowance, and the last gap in the counter.
TrimmedLike(acc, p) ==
  /\ acc.out \in Seq(Event)
  /\ acc.run \in Nat
  /\ Len(Reals(acc.out)) = Len(Reals(p))
  /\ acc.run = GapAfter(p, Len(Reals(p)))
  /\ \A n \in 0..Len(Reals(p)) :
       GapAfter(acc.out, n) = IF GapAfter(p, n) < StaleNullKeep
                              THEN GapAfter(p, n) ELSE StaleNullKeep

\* Before the loop there is one empty gap.
LEMMA NothingTrimmed == TrimmedLike([out |-> <<>>, run |-> 0], <<>>)
<1>1. StaleNullKeep \in Nat \ {0}
  BY EventsAssumption
<1>2. <<>> \in Seq(Event) /\ Len(<<>>) = 0 /\ Reals(<<>>) = <<>>
  BY EmptySeq, RealsOfFew
<1>3. NthReal(<<>>, 0) = 0
  <2>1. \A i \in 0..0 : i = 0
    OBVIOUS
  <2>2. SubSeq(<<>>, 1, 0) = <<>>
    OBVIOUS
  <2> DEFINE First(i) == Len(Reals(SubSeq(<<>>, 1, i))) = 0 /\ (i = 0 \/ <<>>[i] # Null)
  <2>3. First(0) /\ 0 \in 0..0
    <3>1. Reals(SubSeq(<<>>, 1, 0)) = <<>> /\ Len(Reals(SubSeq(<<>>, 1, 0))) = 0
      BY <1>2, <2>2, Zenon
    <3>2. First(0)
      BY <3>1, Zenon
    <3> QED
      BY <2>1, <3>2
  <2>4. NthReal(<<>>, 0) = CHOOSE i \in 0..0 : First(i)
    BY <1>2 DEF NthReal
  <2> HIDE DEF First
  <2>5. NthReal(<<>>, 0) \in 0..0
    BY <2>3, <2>4
  <2> QED
    BY <2>1, <2>5
<1>4. GapAfter(<<>>, 0) = 0
  BY <1>2, <1>3 DEF GapAfter
<1>5. \A n \in 0..0 : n = 0
  OBVIOUS
<1> DEFINE acc == [out |-> <<>>, run |-> 0]
<1>6. acc.out = <<>> /\ acc.run = 0
  OBVIOUS
<1> HIDE DEF acc
<1>7. TrimmedLike(acc, <<>>)
  BY <1>1, <1>2, <1>4, <1>5, <1>6 DEF TrimmedLike
<1> QED
  BY <1>7 DEF acc

\* One iteration keeps the likeness.
LEMMA TrimStepLike ==
  ASSUME NEW p \in Seq(Event), NEW e \in Event, NEW acc, TrimmedLike(acc, p)
  PROVE  TrimmedLike(TrimStep(acc, e), Append(p, e))
<1> DEFINE K == StaleNullKeep
           N == Len(Reals(p))
           o == acc.out
           next == TrimStep(acc, e)
           u == Append(p, e)
           w == Append(o, e)
<1>1. /\ o \in Seq(Event) /\ acc.run \in Nat /\ Len(Reals(o)) = N
      /\ acc.run = GapAfter(p, N)
      /\ \A n \in 0..N : GapAfter(o, n) = IF GapAfter(p, n) < K THEN GapAfter(p, n) ELSE K
  BY DEF TrimmedLike
<1>2. K \in Nat \ {0} /\ w \in Seq(Event)
  BY <1>1, EventsAssumption, AppendProperties
<1>3. /\ N \in Nat /\ \A n \in 0..N : GapAfter(p, n) \in Int
      /\ e = Null =>
           /\ Len(Reals(u)) = N
           /\ \A n \in 0..N : GapAfter(u, n) = IF n = N THEN GapAfter(p, n) + 1
                                               ELSE GapAfter(p, n)
      /\ e # Null =>
           /\ Len(Reals(u)) = N + 1
           /\ \A n \in 0..N : GapAfter(u, n) = GapAfter(p, n)
           /\ GapAfter(u, N + 1) = 0
  BY GapOfAppend
<1>4. /\ e = Null =>
           /\ Len(Reals(w)) = N
           /\ \A n \in 0..N : GapAfter(w, n) = IF n = N THEN GapAfter(o, n) + 1
                                               ELSE GapAfter(o, n)
      /\ e # Null =>
           /\ Len(Reals(w)) = N + 1
           /\ \A n \in 0..N : GapAfter(w, n) = GapAfter(o, n)
           /\ GapAfter(w, N + 1) = 0
  BY <1>1, GapOfAppend
<1>5. N \in 0..N /\ GapAfter(o, N) = IF acc.run < K THEN acc.run ELSE K
  BY <1>1, <1>3
<1>6. CASE e # Null
  <2>1. next.out = w /\ next.run = 0
    BY <1>6 DEF TrimStep
  <2> HIDE DEF next, u, w, N, o, K
  <2>2. Len(Reals(w)) = N + 1 /\ Len(Reals(u)) = N + 1
        /\ GapAfter(u, N + 1) = 0 /\ GapAfter(w, N + 1) = 0
    BY <1>3, <1>4, <1>6
  <2>3. \A n \in 0..(N + 1) : n \in 0..N \/ n = N + 1
    BY <1>3
  <2>4. ASSUME NEW n \in 0..(N + 1)
        PROVE  GapAfter(w, n) = IF GapAfter(u, n) < K THEN GapAfter(u, n) ELSE K
    <3>1. CASE n \in 0..N
      <4>1. GapAfter(w, n) = GapAfter(o, n) /\ GapAfter(u, n) = GapAfter(p, n)
        BY <1>3, <1>4, <1>6, <3>1
      <4> QED
        BY <1>1, <3>1, <4>1
    <3>2. CASE n = N + 1
      BY <1>2, <2>2, <3>2
    <3> QED
      BY <2>3, <3>1, <3>2
  <2>5. TrimmedLike(next, u)
    BY <1>2, <2>1, <2>2, <2>4 DEF TrimmedLike, K
  <2> QED
    BY <2>5 DEF next, u
<1>7. CASE e = Null
  <2>1. /\ next.run = acc.run + 1
        /\ next.out = IF acc.run < K THEN w ELSE o
    BY <1>7 DEF TrimStep
  <2> HIDE DEF next, u, w, N, o, K
  <2>2. Len(Reals(w)) = N /\ Len(Reals(u)) = N
    BY <1>3, <1>4, <1>7
  <2>3. GapAfter(u, N) = acc.run + 1 /\ acc.run + 1 \in Nat
    BY <1>1, <1>3, <1>5, <1>7
  <2>4. ASSUME NEW n \in 0..N
        PROVE  GapAfter(next.out, n) = IF GapAfter(u, n) < K THEN GapAfter(u, n) ELSE K
    <3>1. CASE n # N
      <4>1. GapAfter(w, n) = GapAfter(o, n) /\ GapAfter(u, n) = GapAfter(p, n)
        BY <1>3, <1>4, <1>7, <3>1
      <4>2. GapAfter(next.out, n) = GapAfter(o, n)
        BY <2>1, <4>1
      <4> QED
        BY <1>1, <4>1, <4>2
    <3>2. CASE n = N /\ acc.run < K
      <4>1. GapAfter(w, N) = GapAfter(o, N) + 1
        BY <1>4, <1>5, <1>7
      <4>2. GapAfter(next.out, n) = acc.run + 1
        BY <1>5, <2>1, <3>2, <4>1
      <4> QED
        BY <1>1, <1>2, <2>3, <3>2, <4>2
    <3>3. CASE n = N /\ ~(acc.run < K)
      <4>1. GapAfter(next.out, n) = K
        BY <1>5, <2>1, <3>3
      <4> QED
        BY <1>1, <1>2, <2>3, <3>3, <4>1
    <3> QED
      BY <3>1, <3>2, <3>3
  <2>5. next.out \in Seq(Event) /\ Len(Reals(next.out)) = N
    BY <1>1, <1>2, <2>1, <2>2
  <2>6. TrimmedLike(next, u)
    BY <2>1, <2>2, <2>3, <2>4, <2>5 DEF TrimmedLike, K
  <2> QED
    BY <2>6 DEF next, u
<1> QED
  BY <1>6, <1>7

\* The trim shortens each gap to the allowance, and no further: after k entries
\* the output holds the real events of the prefix, and the counter is the length
\* of the prefix's last gap.
LEMMA TrimGaps ==
  ASSUME NEW s \in Seq(Event)
  PROVE  \A n \in 0..Len(Reals(s)) :
           GapAfter(TrimStaleNulls(s), n) >=
             (IF GapAfter(s, n) < StaleNullKeep THEN GapAfter(s, n) ELSE StaleNullKeep)
<1> DEFINE K == StaleNullKeep
           Kept(g) == IF g < K THEN g ELSE K
<1>1. K \in Nat \ {0} /\ Len(s) \in Nat
  BY EventsAssumption, LenProperties
<1>2. \A n \in 0..Len(Reals(s)) : GapAfter(s, n) \in Int
  BY <1>1, GapsAreNumbers
<1>3. CASE Len(s) <= StaleNullThreshold
  <2>1. TrimStaleNulls(s) = s
    BY <1>3 DEF TrimStaleNulls
  <2> QED
    BY <1>1, <1>2, <2>1
<1>4. CASE ~(Len(s) <= StaleNullThreshold)
  <2>1. PICK a : TrimStates(s, a) /\ TrimStaleNulls(s) = a[Len(s)].out
    BY <1>4, TrimRuns
  <2> DEFINE P(k) == SubSeq(s, 1, k)
             G == {k \in 0..Len(s) : TrimmedLike(a[k], P(k))}
  <2>2. 0 \in G
    <3>1. a[0] = [out |-> <<>>, run |-> 0] /\ P(0) = <<>>
      BY <2>1 DEF TrimStates
    <3>2. TrimmedLike([out |-> <<>>, run |-> 0], <<>>)
      BY NothingTrimmed
    <3>3. TrimmedLike(a[0], P(0))
      BY <3>1, <3>2, Zenon
    <3> HIDE DEF P
    <3> QED
      BY <1>1, <3>3
  <2>3. ASSUME NEW k \in 1..Len(s), k - 1 \in G
        PROVE  k \in G
    <3>1. s[k] \in Event /\ P(k) = Append(P(k - 1), s[k])
      BY PrefixGrows
    <3>2. a[k] = TrimStep(a[k - 1], s[k])
      BY <2>1 DEF TrimStates
    <3>3. P(k - 1) \in Seq(Event)
      BY <1>1
    <3>4. TrimmedLike(a[k - 1], P(k - 1)) /\ k \in 0..Len(s)
      BY <1>1, <2>3
    <3> HIDE DEF P
    <3>5. TrimmedLike(a[k], P(k))
      BY <3>1, <3>2, <3>3, <3>4, TrimStepLike
    <3> QED
      BY <3>4, <3>5
  <2>4. G \in SUBSET (0..Len(s)) /\ P(Len(s)) = s
    OBVIOUS
  <2> HIDE DEF G
  <2>5. G = 0..Len(s)
    BY <1>1, <2>2, <2>3, <2>4, PositionInduction
  <2>6. TrimmedLike(a[Len(s)], s)
    <3>1. Len(s) \in G
      BY <1>1, <2>5
    <3> QED
      BY <2>4, <3>1 DEF G
  <2>7. \A n \in 0..Len(Reals(s)) : GapAfter(TrimStaleNulls(s), n) = Kept(GapAfter(s, n))
    BY <2>1, <2>6 DEF TrimmedLike
  <2> QED
    BY <1>1, <1>2, <2>7
<1> QED
  BY <1>3, <1>4

\* A tick never closes a gap of idle polls: the KeyUp of a press does not come
\* to stand right behind its KeyDown (_trim_stale_nulls of input.py).
THEOREM GapsSurviveHolds == QueueSpec => GapsSurvive
<1> DEFINE A == \A b \in Batches : ProduceTick(b) =>
                  \A n \in 0..Len(Reals(q \o b)) :
                    GapAfter(q', n) >= (IF GapAfter(q \o b, n) < StaleNullKeep
                                        THEN GapAfter(q \o b, n) ELSE StaleNullKeep)
<1>1. ASSUME QueueInv PROVE A
  <2> SUFFICES ASSUME NEW b \in Batches, ProduceTick(b)
               PROVE  \A n \in 0..Len(Reals(q \o b)) :
                        GapAfter(q', n) >= (IF GapAfter(q \o b, n) < StaleNullKeep
                                            THEN GapAfter(q \o b, n) ELSE StaleNullKeep)
    OBVIOUS
  <2>1. b \in Seq(Event) /\ q \in Seq(Event)
    BY <1>1, BatchType DEF QueueInv, QueueTypeOK
  <2> DEFINE s == q \o b
  <2>2. s \in Seq(Event)
    BY <2>1, ConcatProperties
  <2>3. q' = TrimStaleNulls(s)
    BY DEF ProduceTick
  <2> HIDE DEF s
  <2>4. \A n \in 0..Len(Reals(s)) :
          GapAfter(TrimStaleNulls(s), n) >=
            (IF GapAfter(s, n) < StaleNullKeep THEN GapAfter(s, n) ELSE StaleNullKeep)
    BY <2>2, TrimGaps
  <2> QED
    BY <2>3, <2>4, Zenon DEF s
<1>2. QueueInv => [A]_queueVars
  BY <1>1
<1> QED
  BY <1>2, QueueInvariant, PTL DEF GapsSurvive

=============================================================================
