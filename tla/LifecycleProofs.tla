-------------------------- MODULE LifecycleProofs --------------------------
(***************************************************************************)
(* The lifecycle tracer over the injector and the async model, for every   *)
(* sequence of keys and whatever the game does: its eight counters agree   *)
(* with the ledger of the registry, no stage outruns the one before it,    *)
(* and an interpretation is attributed to the event the game has in hand.  *)
(* The counters are related to three marks of the registry: the last id    *)
(* given, the last one fetched, the last one promised to a request.        *)
(***************************************************************************)
EXTENDS Lifecycle, SyncedInputProofs

-----------------------------------------------------------------------------
(* Counting roles.                                                         *)

\* However many ids are looked at, at most three roles are found.
LEMMA RolesCount ==
  ASSUME NEW S \in SUBSET Roles
  PROVE  IsFiniteSet(S) /\ Cardinality(S) \in 0..3
<1>1. /\ IsFiniteSet({}) /\ Cardinality({}) = 0
      /\ "down" \notin {} /\ "key" \notin {"down"} /\ "up" \notin {"down", "key"}
  BY FS_EmptySet
<1>2. IsFiniteSet({"down"}) /\ Cardinality({"down"}) = 1
  BY FS_Singleton
<1>3. IsFiniteSet({"down", "key"}) /\ Cardinality({"down", "key"}) = 2
  <2>1. {"down", "key"} = {"down"} \cup {"key"}
    OBVIOUS
  <2> QED
    BY <1>1, <1>2, <2>1, FS_AddElement
<1>4. IsFiniteSet(Roles) /\ Cardinality(Roles) = 3
  <2>1. Roles = {"down", "key"} \cup {"up"}
    BY DEF Roles
  <2> QED
    BY <1>1, <1>3, <2>1, FS_AddElement
<1>5. IsFiniteSet(S) /\ Cardinality(S) <= 3
  BY <1>4, FS_Subset
<1> QED
  BY <1>5, FS_CardinalityType

\* The number of roles whose ids are among ids.
Hits(t, ids) == Cardinality(TrackedRoles(t, ids))

\* Tracked roles among ids are at most three, and are counted as sets are.
LEMMA HitsCount ==
  ASSUME NEW t, NEW A, NEW B
  PROVE  /\ Hits(t, A) \in 0..3 /\ Hits(t, B) \in 0..3
         /\ A \subseteq B => Hits(t, A) <= Hits(t, B)
         /\ Hits(t, A \cup B) <= Hits(t, A) + Hits(t, B)
         /\ A \cap B = {} => Hits(t, A \cup B) = Hits(t, A) + Hits(t, B)
<1> DEFINE X == TrackedRoles(t, A)
           Y == TrackedRoles(t, B)
<1>1. X \in SUBSET Roles /\ Y \in SUBSET Roles
  BY DEF TrackedRoles
<1>2. TrackedRoles(t, A \cup B) = X \cup Y
  BY DEF TrackedRoles
<1>3. A \subseteq B => X \subseteq Y
  BY DEF TrackedRoles
<1>4. A \cap B = {} => X \cap Y = {}
  BY DEF TrackedRoles
<1> HIDE DEF X, Y
<1>5. /\ IsFiniteSet(X) /\ Cardinality(X) \in 0..3
      /\ IsFiniteSet(Y) /\ Cardinality(Y) \in 0..3
  BY <1>1, RolesCount
<1>6. X \subseteq Y => Cardinality(X) <= Cardinality(Y)
  BY <1>5, FS_Subset
<1>7. Cardinality(X \cup Y) = Cardinality(X) + Cardinality(Y) - Cardinality(X \cap Y)
  BY <1>5, FS_Union
<1>8. Cardinality(X \cap Y) \in Nat /\ (X \cap Y = {} => Cardinality(X \cap Y) = 0)
  BY <1>5, FS_Intersection, FS_CardinalityType, FS_EmptySet
<1>9. Hits(t, A) = Cardinality(X) /\ Hits(t, B) = Cardinality(Y)
      /\ Hits(t, A \cup B) = Cardinality(X \cup Y)
  BY <1>2 DEF Hits, X, Y
<1> QED
  BY <1>3, <1>4, <1>5, <1>6, <1>7, <1>8, <1>9

\* The number of roles whose ids are n or below.
Upto(t, n) == Hits(t, 1..n)

\* Counting on from a to b adds the roles whose ids lie between.
LEMMA UptoGrows ==
  ASSUME NEW t, NEW a \in Nat, NEW b \in Nat, a <= b
  PROVE  /\ Upto(t, a) \in 0..3 /\ Upto(t, b) \in 0..3
         /\ Upto(t, b) = Upto(t, a) + Hits(t, (a + 1)..b)
         /\ Upto(t, a) <= Upto(t, b)
         /\ Hits(t, (a + 1)..b) \in 0..3
<1>1. 1..b = (1..a) \cup ((a + 1)..b) /\ (1..a) \cap ((a + 1)..b) = {}
  OBVIOUS
<1> DEFINE A == 1..a
           B == (a + 1)..b
<1>2. /\ Hits(t, A) \in 0..3 /\ Hits(t, B) \in 0..3
      /\ Hits(t, A \cup B) = Hits(t, A) + Hits(t, B)
  <2>1. A \cap B = {}
    BY <1>1
  <2> HIDE DEF A, B
  <2> QED
    BY <2>1, HitsCount
<1>3. Upto(t, a) = Hits(t, A) /\ Upto(t, b) = Hits(t, A \cup B)
  BY <1>1 DEF Upto
<1>4. Hits(t, A \cup B) \in 0..3
  BY HitsCount
<1> QED
  BY <1>2, <1>3, <1>4

\* The tracked ids are ids of events, one for each role.
IdsApart(t) ==
  \A r \in Roles : t.tracked[r] \in Nat \ {0}
                   /\ \A s \in Roles : t.tracked[r] = t.tracked[s] => r = s

\* An id belongs to one tracked role or to none.
LEMMA OneHit ==
  ASSUME NEW t, t.armed => IdsApart(t), NEW id
  PROVE  /\ TrackedRoles(t, {id}) = {} => Hits(t, {id}) = 0
         /\ TrackedRoles(t, {id}) # {} => Hits(t, {id}) = 1
         /\ id = None => Hits(t, {id}) = 0
<1>1. CASE TrackedRoles(t, {id}) = {}
  BY <1>1, FS_EmptySet DEF Hits
<1>2. CASE TrackedRoles(t, {id}) # {}
  <2>1. PICK r \in Roles : t.armed /\ t.tracked[r] = id
    BY <1>2 DEF TrackedRoles
  <2>2. TrackedRoles(t, {id}) = {r} /\ id # None
    BY <2>1 DEF TrackedRoles, IdsApart, None
  <2> QED
    BY <1>2, <2>2, FS_Singleton DEF Hits
<1> QED
  BY <1>1, <1>2

-----------------------------------------------------------------------------
(* The marks of the registry.                                              *)

\* The last id fetched, and the last one promised to a request.
Fetched(r) == r.nextEvent - 1 - Len(r.eventFifo)
Backed(r) == Fetched(r) + ClaimedIn(r)

\* The ledger holds the ids from the first one not fetched to the last given.
Numbered(r) ==
  /\ Fetched(r) \in Nat
  /\ \A p \in 1..Len(r.eventFifo) : r.eventFifo[p].id = Fetched(r) + p

\* A request wakes the game once, after its completion, and only a completed
\* one has an event.
WakesOwned(r) ==
  /\ \A m, n \in 1..Len(r.wakeLog) : r.wakeLog[m] = r.wakeLog[n] => m = n
  /\ \A n \in 1..Len(r.wakeLog) : /\ r.wakeLog[n] < r.nextRequest
                                  /\ r.requests[r.wakeLog[n]].state # "PENDING"
  /\ \A i \in RequestId : r.requests[i].state # "COMPLETED" => r.requests[i].event = None

Marked(r) == Promised(r) /\ Numbered(r) /\ WakesOwned(r)

\* The events the wakes not yet attributed stand for.
WakeEvents(r) == {r.requests[r.wakeLog[n]].event : n \in 1..Len(r.wakeLog)}

\* The events of the requests completed between r and s.
NewlyBacked(r, s) ==
  {s.requests[i].event : i \in InState(s, "COMPLETED") \ InState(r, "COMPLETED")}

\* What an enqueuing or a registration does to the marks.
Promoted(r, s) ==
  /\ s.nextEvent \in Nat /\ r.nextEvent <= s.nextEvent
  /\ Fetched(s) = Fetched(r)
  /\ Backed(r) <= Backed(s)
  /\ NewlyBacked(r, s) \subseteq (Backed(r) + 1)..Backed(s)
  /\ WakeEvents(s) \subseteq WakeEvents(r) \cup NewlyBacked(r, s)

\* The three marks stand in their order.
LEMMA MarksOrdered ==
  ASSUME NEW r \in Registry(RealEvent), Ledgered(r), Numbered(r)
  PROVE  /\ Len(r.eventFifo) \in Nat /\ ClaimedIn(r) \in 0..Len(r.eventFifo)
         /\ r.nextEvent \in Nat \ {0}
         /\ Fetched(r) \in Nat /\ Backed(r) \in Nat
         /\ Fetched(r) <= Backed(r) /\ Backed(r) <= r.nextEvent - 1
         /\ Fetched(r) + Len(r.eventFifo) = r.nextEvent - 1
<1> DEFINE L == Len(r.eventFifo)
           N == r.nextEvent
           c == ClaimedIn(r)
<1>1. L \in Nat /\ N \in 1..(MaxEvents + 1) /\ c \in 0..L
  BY ViewFacts, Elements DEF Registry
<1>2. Fetched(r) = N - 1 - L /\ Fetched(r) \in Nat /\ Backed(r) = Fetched(r) + c
  BY DEF Numbered, Fetched, Backed
<1> HIDE DEF L, N, c
<1>3. N \in Nat \ {0}
  BY <1>1, RegistryAssumption
<1>4. /\ L \in Nat /\ c \in 0..L /\ N \in Nat \ {0}
      /\ Fetched(r) \in Nat /\ Backed(r) \in Nat
      /\ Fetched(r) <= Backed(r) /\ Backed(r) <= N - 1
      /\ Fetched(r) + L = N - 1
  BY <1>1, <1>2, <1>3
<1> QED
  BY <1>4 DEF L, N, c

\* The wakes of a registry.
LEMMA WakeLogFacts ==
  ASSUME NEW E, NEW r \in Registry(E)
  PROVE  /\ Len(r.wakeLog) \in Nat
         /\ \A n \in 1..Len(r.wakeLog) : r.wakeLog[n] \in RequestId
<1>1. r.wakeLog \in Seq(RequestId)
  BY DEF Registry
<1> QED
  BY <1>1, LenProperties, ElementOfSeq

\* The wakes a match adds, behind those that wait to be attributed.
LEMMA MatchedWakes ==
  ASSUME NEW E, NEW r \in Registry(E), LineInOrder(r)
  PROVE  LET t == TryMatch(r)
             n == Cardinality(Matched(r))
             W == Len(r.wakeLog)
         IN  /\ n \in 0..Len(r.pendingOrder)
             /\ Len(t.wakeLog) = W + n
             /\ \A k \in 1..W : t.wakeLog[k] = r.wakeLog[k]
             /\ \A k \in (W + 1)..(W + n) : t.wakeLog[k] = r.pendingOrder[k - W]
<1> DEFINE t == TryMatch(r)
           n == Cardinality(Matched(r))
           W == Len(r.wakeLog)
           line == r.pendingOrder
           wakes == r.wakeLog
           head == SubSeq(line, 1, n)
<1>1. n \in 0..Len(line)
  BY TryMatchFields
<1>2. t.wakeLog = wakes \o head
  BY DEF TryMatch, Registry
<1>3. line \in Seq(RequestId) /\ wakes \in Seq(RequestId)
  BY DEF Registry
<1> HIDE DEF t, n, line, wakes, head
<1>4. Len(line) \in Nat
  BY <1>3, LenProperties
<1>5. /\ head \in Seq(RequestId) /\ Len(head) = n
      /\ \A k \in 1..n : head[k] = line[k]
  BY <1>1, <1>3, <1>4, SubSeqProperties DEF head
<1>6. /\ Len(wakes \o head) = Len(wakes) + Len(head)
      /\ \A k \in 1..(Len(wakes) + Len(head)) :
           (wakes \o head)[k] = IF k <= Len(wakes) THEN wakes[k] ELSE head[k - Len(wakes)]
  BY <1>3, <1>5, ConcatProperties
<1>7. Len(wakes) \in Nat /\ n \in Nat /\ W = Len(wakes)
  BY <1>1, <1>3, <1>4, LenProperties DEF wakes, W
<1> HIDE DEF W
<1>8. /\ Len(t.wakeLog) = W + n
      /\ \A k \in 1..(W + n) :
           t.wakeLog[k] = IF k <= W THEN wakes[k] ELSE head[k - W]
  BY <1>2, <1>5, <1>6, <1>7
<1>9. \A k \in 1..W : t.wakeLog[k] = wakes[k]
  BY <1>7, <1>8
<1>10. ASSUME NEW k \in (W + 1)..(W + n)
       PROVE  t.wakeLog[k] = line[k - W]
  BY <1>5, <1>7, <1>8
<1>11. W = Len(r.wakeLog) /\ line = r.pendingOrder /\ wakes = r.wakeLog
       /\ n = Cardinality(Matched(r)) /\ t = TryMatch(r)
  BY DEF W, line, wakes, n, t
<1> QED
  BY <1>1, <1>8, <1>9, <1>10, <1>11

-----------------------------------------------------------------------------
(* What the steps of the registry do to the marks.                         *)

\* _try_match moves the last promised id on, and adds the wakes of the
\* requests it completes.
LEMMA MatchMarks ==
  ASSUME NEW r \in Registry(RealEvent), Ledgered(r), Numbered(r), WakesOwned(r)
  PROVE  /\ Promoted(r, TryMatch(r))
         /\ Numbered(TryMatch(r))
         /\ WakesOwned(TryMatch(r))
<1> DEFINE s == TryMatch(r)
           n == Cardinality(Matched(r))
           W == Len(r.wakeLog)
           F == Len(r.eventFifo)
           c == ClaimedIn(r)
           d == ClaimedIn(s)
<1>1. s \in Registry(RealEvent) /\ Ledgered(s)
  BY TryMatchType, TryMatchLedgered
<1>2. LineInOrder(r) /\ IdsFresh(r)
  BY DEF Ledgered
<1>3. /\ s.nextEvent = r.nextEvent
      /\ Len(s.eventFifo) = F
      /\ \A p \in 1..F : s.eventFifo[p].id = r.eventFifo[p].id
  BY MatchedEntries DEF SameEntries
<1>4. /\ s.nextRequest = r.nextRequest
      /\ n \in 0..Len(r.pendingOrder)
      /\ \A p \in 1..F : p \in Matched(r) => s.eventFifo[p].claimedBy = Partner(r, p)
      /\ \A k \in 1..n : \E p \in Matched(r) : Partner(r, p) = r.pendingOrder[k]
      /\ \A p \in Matched(r) : /\ s.requests[Partner(r, p)].state = "COMPLETED"
                               /\ s.requests[Partner(r, p)].event = r.eventFifo[p].id
      /\ \A i \in RequestId :
           (\A p \in Matched(r) : Partner(r, p) # i) => s.requests[i] = r.requests[i]
  BY <1>2, TryMatchFields
<1>5. \A p \in Matched(r) :
        /\ p \in 1..F /\ p \in Unclaimed(r)
        /\ Partner(r, p) \in RequestId
        /\ r.requests[Partner(r, p)].state = "PENDING"
  <2> SUFFICES ASSUME NEW p \in Matched(r)
               PROVE  /\ p \in 1..F /\ p \in Unclaimed(r)
                      /\ Partner(r, p) \in RequestId
                      /\ r.requests[Partner(r, p)].state = "PENDING"
    OBVIOUS
  <2>1. p \in Unclaimed(r)
    BY DEF Matched
  <2>2. p \in 1..F
    BY <2>1, MatchFacts
  <2>3. Rank(r, p) \in 1..Len(r.pendingOrder)
    BY MatchFacts
  <2> QED
    BY <2>1, <2>2, <2>3, ViewFacts DEF Partner
<1>6. /\ c \in 0..F /\ d \in 0..F /\ c <= d
      /\ \A p \in 1..F : p \in Unclaimed(r) <=> c < p
      /\ \A p \in 1..F : s.eventFifo[p].claimedBy # None <=> p <= d
  <2>1. c \in 0..F /\ \A p \in 1..F : p \in Unclaimed(r) <=> c < p
    BY ViewFacts
  <2>2. d \in 0..F /\ \A p \in 1..F : s.eventFifo[p].claimedBy # None <=> p <= d
    BY <1>1, <1>3, ViewFacts
  <2>3. c <= d
    <3> DEFINE L == Len(r.pendingOrder)
               k == F - c
    <3>1. k \in Nat /\ L \in Nat /\ d = c + (IF k < L THEN k ELSE L)
      BY MatchView
    <3> HIDE DEF c, d, k, L, F
    <3> QED
      BY <2>1, <3>1
  <2> QED
    BY <2>1, <2>2, <2>3
<1>7. /\ Len(s.wakeLog) = W + n
      /\ \A k \in 1..W : s.wakeLog[k] = r.wakeLog[k]
      /\ \A k \in (W + 1)..(W + n) : s.wakeLog[k] = r.pendingOrder[k - W]
  BY <1>2, MatchedWakes
<1>8. W \in Nat /\ \A k \in 1..W : r.wakeLog[k] \in RequestId
  BY WakeLogFacts
<1>9. /\ \A k, m \in 1..W : r.wakeLog[k] = r.wakeLog[m] => k = m
      /\ \A k \in 1..W : /\ r.wakeLog[k] < r.nextRequest
                         /\ r.requests[r.wakeLog[k]].state # "PENDING"
      /\ \A i \in RequestId : r.requests[i].state # "COMPLETED" => r.requests[i].event = None
  BY DEF WakesOwned
<1>10. /\ Fetched(r) \in Nat /\ \A p \in 1..F : r.eventFifo[p].id = Fetched(r) + p
       /\ Backed(r) = Fetched(r) + c /\ r.nextEvent \in Nat
  <2>1. r.nextEvent \in Nat /\ Fetched(r) \in Nat
    BY MarksOrdered
  <2> QED
    BY <2>1 DEF Numbered, Backed
<1>11. Fetched(s) = Fetched(r) /\ Backed(s) = Fetched(r) + d
  BY <1>3 DEF Fetched, Backed
<1>12. s.eventFifo \in Seq(Entry(RealEvent)) /\ F \in Nat
  BY <1>1, Elements DEF Registry
<1> HIDE DEF s, n, W, F, c, d
<1>13. Numbered(s)
  BY <1>3, <1>10, <1>11 DEF Numbered
\* A wake already in the log keeps its request.
<1>14. \A k \in 1..W : /\ s.wakeLog[k] = r.wakeLog[k]
                       /\ s.requests[s.wakeLog[k]] = r.requests[r.wakeLog[k]]
  BY <1>4, <1>5, <1>7, <1>8, <1>9
\* A wake added belongs to a request that was in the line.
<1>15. \A k \in (W + 1)..(W + n) :
         \E p \in Matched(r) : s.wakeLog[k] = Partner(r, p)
  <2> SUFFICES ASSUME NEW k \in (W + 1)..(W + n)
               PROVE  \E p \in Matched(r) : s.wakeLog[k] = Partner(r, p)
    OBVIOUS
  <2>1. n \in Nat
    BY <1>4, Elements
  <2>2. k - W \in 1..n
    BY <1>8, <2>1
  <2> QED
    BY <1>4, <1>7, <2>2
<1>16. \A i \in RequestId :
         s.requests[i] # r.requests[i] => \E p \in Matched(r) : Partner(r, p) = i
  BY <1>4
<1>17. n \in Nat
  BY <1>4, Elements
<1>18. Promoted(r, s)
  <2>1. NewlyBacked(r, s) \subseteq (Backed(r) + 1)..Backed(s)
    <3> SUFFICES ASSUME NEW i \in RequestId, s.requests[i].state = "COMPLETED",
                        r.requests[i].state # "COMPLETED"
                 PROVE  s.requests[i].event \in (Backed(r) + 1)..Backed(s)
      BY DEF NewlyBacked, InState
    <3>1. PICK p \in Matched(r) : Partner(r, p) = i
      BY <1>16
    <3>2. p \in 1..F /\ c < p /\ i # None
      BY <1>5, <1>6, <3>1 DEF RequestId, None
    <3>3. p <= d
      BY <1>4, <1>6, <3>1, <3>2
    <3>4. s.requests[i].event = Fetched(r) + p
      BY <1>4, <1>10, <3>1, <3>2
    <3> QED
      BY <1>6, <1>10, <1>11, <1>12, <3>2, <3>3, <3>4
  <2>2. WakeEvents(s) \subseteq WakeEvents(r) \cup NewlyBacked(r, s)
    <3> SUFFICES ASSUME NEW k \in 1..(W + n)
                 PROVE  s.requests[s.wakeLog[k]].event
                          \in WakeEvents(r) \cup NewlyBacked(r, s)
      BY <1>7 DEF WakeEvents
    <3>1. CASE k \in 1..W
      <4>1. s.requests[s.wakeLog[k]].event = r.requests[r.wakeLog[k]].event
        BY <1>14, <3>1
      <4> QED
        BY <3>1, <4>1 DEF WakeEvents, W
    <3>2. CASE k \in (W + 1)..(W + n)
      <4>1. PICK p \in Matched(r) : s.wakeLog[k] = Partner(r, p)
        BY <1>15, <3>2
      <4>2. /\ s.wakeLog[k] \in RequestId
            /\ s.requests[s.wakeLog[k]].state = "COMPLETED"
            /\ r.requests[s.wakeLog[k]].state # "COMPLETED"
        BY <1>4, <1>5, <4>1
      <4> QED
        BY <4>2 DEF NewlyBacked, InState
    <3> QED
      BY <1>8, <1>17, <3>1, <3>2
  <2>3. Backed(r) <= Backed(s)
    BY <1>6, <1>10, <1>11, <1>12
  <2> QED
    BY <1>3, <1>10, <1>11, <2>1, <2>2, <2>3 DEF Promoted
<1>19. WakesOwned(s)
  <2>1. ASSUME NEW k \in 1..(W + n), NEW m \in 1..(W + n), s.wakeLog[k] = s.wakeLog[m],
               k < m
        PROVE  FALSE
    <3>1. CASE m \in 1..W
      BY <1>8, <1>9, <1>14, <2>1, <3>1
    <3>2. CASE k \in 1..W /\ m \in (W + 1)..(W + n)
      <4>1. PICK p \in Matched(r) : s.wakeLog[m] = Partner(r, p)
        BY <1>15, <3>2
      <4> QED
        BY <1>5, <1>9, <1>14, <2>1, <3>2, <4>1
    <3>3. CASE k \in (W + 1)..(W + n) /\ m \in (W + 1)..(W + n)
      <4>1. k - W \in 1..Len(r.pendingOrder) /\ m - W \in 1..Len(r.pendingOrder)
            /\ k - W < m - W
        BY <1>4, <1>8, <1>17, <2>1, <3>3, Elements
      <4>2. r.pendingOrder[k - W] < r.pendingOrder[m - W]
        BY <1>2, <4>1 DEF LineInOrder
      <4>3. r.pendingOrder[k - W] \in Nat
        BY <4>1, Elements
      <4> QED
        BY <1>7, <2>1, <3>3, <4>2, <4>3
    <3> QED
      BY <1>8, <1>17, <2>1, <3>1, <3>2, <3>3
  <2>2. \A k, m \in 1..(W + n) : s.wakeLog[k] = s.wakeLog[m] => k = m
    BY <1>8, <1>17, <2>1
  <2>3. ASSUME NEW k \in 1..(W + n)
        PROVE  /\ s.wakeLog[k] < s.nextRequest
               /\ s.requests[s.wakeLog[k]].state # "PENDING"
    <3>1. CASE k \in 1..W
      BY <1>4, <1>9, <1>14, <3>1
    <3>2. CASE k \in (W + 1)..(W + n)
      <4>1. PICK p \in Matched(r) : s.wakeLog[k] = Partner(r, p)
        BY <1>15, <3>2
      <4>2. s.wakeLog[k] \in RequestId /\ r.requests[s.wakeLog[k]].state # "ABSENT"
        BY <1>5, <4>1
      <4>3. s.wakeLog[k] < r.nextRequest
        BY <1>2, <4>2, Elements DEF IdsFresh, RequestId
      <4> QED
        BY <1>4, <4>1, <4>3
    <3> QED
      BY <1>8, <1>17, <3>1, <3>2
  <2>4. \A i \in RequestId : s.requests[i].state # "COMPLETED" => s.requests[i].event = None
    BY <1>4, <1>9, <1>16
  <2> QED
    BY <1>7, <2>2, <2>3, <2>4 DEF WakesOwned
<1> QED
  BY <1>13, <1>18, <1>19 DEF s

\* The registry before on_event_enqueued matches.
Appended(r, evs) == [r EXCEPT !.eventFifo = r.eventFifo \o Entries(r, evs),
                              !.nextEvent = r.nextEvent + Len(evs)]

\* With more entries at the end of the ledger the marks are as before.
LEMMA AppendedMarks ==
  ASSUME NEW r, Marked(r), NEW evs \in Seq(RealEvent), Enqueueable(r, evs)
  PROVE  LET m == Appended(r, evs) IN
         /\ m \in Registry(RealEvent) /\ Ledgered(m)
         /\ Numbered(m) /\ WakesOwned(m)
         /\ m.nextEvent \in Nat /\ r.nextEvent <= m.nextEvent
         /\ Fetched(m) = Fetched(r) /\ Backed(m) = Backed(r)
         /\ m.requests = r.requests /\ m.wakeLog = r.wakeLog
<1> DEFINE m == Appended(r, evs)
           new == Entries(r, evs)
           old == r.eventFifo
           F == Len(old)
           E == Len(evs)
<1>1. r \in Registry(RealEvent) /\ Ledgered(r) /\ Numbered(r) /\ WakesOwned(r)
  BY DEF Marked, Promised
<1>2. m \in Registry(RealEvent) /\ Ledgered(m)
  BY <1>1, AppendedType, AppendedLedgered DEF Appended
<1>3. /\ m.eventFifo = old \o new /\ m.nextEvent = r.nextEvent + E
      /\ m.requests = r.requests /\ m.wakeLog = r.wakeLog
      /\ m.nextRequest = r.nextRequest
  BY <1>1 DEF Registry, Appended
<1>4. /\ new \in Seq(Entry(RealEvent)) /\ Len(new) = E
      /\ \A k \in 1..E : new[k].id = r.nextEvent + k - 1
  BY <1>1, EntriesType DEF Entries
<1>5. old \in Seq(Entry(RealEvent)) /\ F \in Nat /\ E \in Nat
  BY <1>1, LenProperties DEF Registry
<1>6. r.nextEvent \in Nat /\ Fetched(r) \in Nat
  BY <1>1, MarksOrdered
<1>7. Fetched(r) = r.nextEvent - 1 - F
  BY DEF Fetched
<1>8. ClaimedIn(m) = ClaimedIn(r)
  BY <1>1, AppendedView DEF Appended
<1>9. \A p \in 1..F : old[p].id = Fetched(r) + p
  BY <1>1 DEF Numbered
<1> HIDE DEF m, new, old, F, E
<1>10. /\ Len(m.eventFifo) = F + E
       /\ \A p \in 1..(F + E) :
            m.eventFifo[p] = IF p <= F THEN old[p] ELSE new[p - F]
  <2>1. /\ Len(old \o new) = Len(old) + Len(new)
        /\ \A p \in 1..(Len(old) + Len(new)) :
             (old \o new)[p] = IF p <= Len(old) THEN old[p] ELSE new[p - Len(old)]
    BY <1>4, <1>5, ConcatProperties
  <2>2. F = Len(old)
    BY DEF F
  <2> QED
    BY <1>3, <1>4, <2>1, <2>2
<1>11. Fetched(m) = Fetched(r) /\ Backed(m) = Backed(r)
  BY <1>3, <1>5, <1>6, <1>7, <1>8, <1>10 DEF Fetched, Backed
<1>12. ASSUME NEW p \in 1..(F + E)
       PROVE  m.eventFifo[p].id = Fetched(r) + p
  <2>1. CASE p <= F
    BY <1>5, <1>9, <1>10, <2>1
  <2>2. CASE F < p
    <3>1. p - F \in 1..E /\ m.eventFifo[p] = new[p - F]
      BY <1>5, <1>10, <2>2
    <3>2. m.eventFifo[p].id = r.nextEvent + (p - F) - 1
      BY <1>4, <3>1
    <3> QED
      BY <1>5, <1>6, <1>7, <3>2
  <2> QED
    BY <1>5, <2>1, <2>2
<1>13. Numbered(m)
  BY <1>6, <1>10, <1>11, <1>12 DEF Numbered
<1>14. WakesOwned(m)
  BY <1>1, <1>3 DEF WakesOwned
<1>15. m.nextEvent \in Nat /\ r.nextEvent <= m.nextEvent
  BY <1>3, <1>5, <1>6
<1> QED
  BY <1>2, <1>3, <1>11, <1>13, <1>14, <1>15 DEF m

\* What two registries with the same requests and wakes have in common.
LEMMA SameRequests ==
  ASSUME NEW r, NEW m, NEW s, m.requests = r.requests, m.wakeLog = r.wakeLog
  PROVE  /\ NewlyBacked(m, s) = NewlyBacked(r, s)
         /\ WakeEvents(m) = WakeEvents(r)
  BY DEF NewlyBacked, WakeEvents, InState

\* on_event_enqueued.
LEMMA EnqueuedMarks ==
  ASSUME NEW r, Marked(r), NEW b \in Seq(Event), Enqueueable(r, Reals(b))
  PROVE  LET s == OnEventsEnqueued(r, Reals(b))
         IN  Promoted(r, s) /\ Marked(s) /\ s.nextEvent = r.nextEvent + Len(Reals(b))
<1> DEFINE evs == Reals(b)
           s == OnEventsEnqueued(r, evs)
           m == Appended(r, evs)
<1>1. Promised(r) /\ evs \in Seq(RealEvent)
  BY RealsType DEF Marked
<1>2. s = TryMatch(m) /\ Promised(s)
  BY <1>1, EnqueueKeeps DEF OnEventsEnqueued, Appended
<1>3. /\ m \in Registry(RealEvent) /\ Ledgered(m)
      /\ Numbered(m) /\ WakesOwned(m)
      /\ m.nextEvent \in Nat /\ r.nextEvent <= m.nextEvent
      /\ Fetched(m) = Fetched(r) /\ Backed(m) = Backed(r)
      /\ m.requests = r.requests /\ m.wakeLog = r.wakeLog
  BY <1>1, AppendedMarks
<1>4. s.nextEvent = r.nextEvent + Len(evs)
  BY <1>1, EnqueuedEntries DEF ExtendedBy
<1>5. m.nextEvent = r.nextEvent + Len(evs)
  BY <1>1 DEF Promised, Registry, Appended
<1> HIDE DEF evs, s, m
<1>6. Promoted(m, s) /\ Numbered(s) /\ WakesOwned(s)
  BY <1>2, <1>3, MatchMarks
<1>7. NewlyBacked(m, s) = NewlyBacked(r, s) /\ WakeEvents(m) = WakeEvents(r)
  BY <1>3, SameRequests
<1>8. Promoted(r, s)
  BY <1>3, <1>4, <1>5, <1>6, <1>7 DEF Promoted
<1> QED
  BY <1>2, <1>4, <1>6, <1>8 DEF Marked, s, evs

\* register_request.
LEMMA RegisteredMarks ==
  ASSUME NEW r, Marked(r), NEW a \in StatusAddr, Registrable(r)
  PROVE  LET s == RegisterRequest(r, a)
         IN  Promoted(r, s) /\ Marked(s) /\ s.nextEvent = r.nextEvent
<1> DEFINE s == RegisterRequest(r, a)
           m == Recorded(r, a)
<1>1. /\ Promised(r) /\ r \in Registry(RealEvent) /\ Ledgered(r)
      /\ Numbered(r) /\ WakesOwned(r) /\ Promised(s)
  BY RegisterKeeps DEF Marked, Promised
<1>2. r.nextEvent \in Nat /\ Backed(r) \in Nat
  BY <1>1, MarksOrdered
<1>3. CASE Live(r, a) # {}
  <2>1. s = r
    BY <1>3 DEF RegisterRequest
  <2>2. Promoted(r, r)
    BY <1>2 DEF Promoted, NewlyBacked
  <2> QED
    BY <1>1, <2>1, <2>2 DEF Marked
<1>4. CASE Live(r, a) = {}
  <2>1. s = TryMatch(m)
    BY <1>4 DEF RegisterRequest
  <2>2. m \in Registry(RealEvent) /\ Ledgered(m)
    BY <1>1, <1>4, RecordedType, RecordedLedgered
  <2>3. /\ m.eventFifo = r.eventFifo /\ ClaimedIn(m) = ClaimedIn(r)
    BY <1>1, <1>4, RecordedView
  <2>4. /\ m.nextEvent = r.nextEvent /\ m.wakeLog = r.wakeLog
        /\ m.nextRequest = r.nextRequest + 1
        /\ r.nextRequest \in RequestId
        /\ m.requests = [r.requests EXCEPT ![r.nextRequest] =
                           [addr |-> a, state |-> "PENDING", event |-> None]]
    BY <1>1 DEF Recorded, Registry, Registrable, RequestId, RegistryAssumption
  <2>5. r.requests \in [RequestId -> Request]
    BY <1>1 DEF Registry
  <2> HIDE DEF m, s
  <2>6. /\ m.requests[r.nextRequest].state = "PENDING"
        /\ m.requests[r.nextRequest].event = None
        /\ \A i \in RequestId : i # r.nextRequest => m.requests[i] = r.requests[i]
    BY <2>4, <2>5
  <2>7. Fetched(m) = Fetched(r) /\ Backed(m) = Backed(r) /\ Numbered(m)
    BY <1>1, <2>3, <2>4 DEF Fetched, Backed, Numbered
  <2>8. \A n \in 1..Len(r.wakeLog) : /\ r.wakeLog[n] \in RequestId
                                     /\ r.wakeLog[n] # r.nextRequest
                                     /\ r.wakeLog[n] < r.nextRequest
                                     /\ r.wakeLog[n] < r.nextRequest + 1
                                     /\ m.requests[r.wakeLog[n]] = r.requests[r.wakeLog[n]]
    <3> SUFFICES ASSUME NEW n \in 1..Len(r.wakeLog)
                 PROVE  /\ r.wakeLog[n] \in RequestId
                        /\ r.wakeLog[n] # r.nextRequest
                        /\ r.wakeLog[n] < r.nextRequest
                        /\ r.wakeLog[n] < r.nextRequest + 1
                        /\ m.requests[r.wakeLog[n]] = r.requests[r.wakeLog[n]]
      OBVIOUS
    <3>1. r.wakeLog[n] \in RequestId /\ r.wakeLog[n] < r.nextRequest
      BY <1>1, WakeLogFacts DEF WakesOwned
    <3>2. r.wakeLog[n] \in Int /\ r.nextRequest \in Int
      BY <2>4, <3>1 DEF RequestId
    <3>3. r.wakeLog[n] # r.nextRequest /\ r.wakeLog[n] < r.nextRequest + 1
      BY <3>1, <3>2
    <3> QED
      BY <2>6, <3>1, <3>3
  <2>9. WakesOwned(m)
    <3>1. \A i \in RequestId : m.requests[i].state # "COMPLETED" => m.requests[i].event = None
      BY <1>1, <2>6 DEF WakesOwned
    <3>2. \A k, n \in 1..Len(r.wakeLog) : r.wakeLog[k] = r.wakeLog[n] => k = n
      BY <1>1 DEF WakesOwned
    <3>3. \A n \in 1..Len(r.wakeLog) : r.requests[r.wakeLog[n]].state # "PENDING"
      BY <1>1 DEF WakesOwned
    <3> QED
      BY <2>4, <2>8, <3>1, <3>2, <3>3 DEF WakesOwned
  <2>10. Promoted(m, s) /\ Numbered(s) /\ WakesOwned(s)
    BY <2>1, <2>2, <2>7, <2>9, MatchMarks
  <2>11. WakeEvents(m) = WakeEvents(r)
    BY <2>4, <2>8 DEF WakeEvents
  <2>12. NewlyBacked(m, s) = NewlyBacked(r, s)
    <3>1. r.requests[r.nextRequest].state = "ABSENT"
      <4>1. IdsFresh(r) /\ r.nextRequest \in Int
        BY <1>1, <2>4 DEF Ledgered, RequestId
      <4> QED
        BY <2>4, <4>1 DEF IdsFresh
    <3>2. InState(m, "COMPLETED") = InState(r, "COMPLETED")
      BY <2>6, <3>1 DEF InState
    <3> QED
      BY <3>2 DEF NewlyBacked
  <2>13. Promoted(r, s)
    BY <2>4, <2>7, <2>10, <2>11, <2>12 DEF Promoted
  <2>14. s.nextEvent = r.nextEvent
    BY <2>1, <2>2, <2>4, MatchedEntries DEF SameEntries
  <2> QED
    BY <1>1, <2>10, <2>13, <2>14 DEF Marked, s
<1> QED
  BY <1>3, <1>4

\* on_event_consumed: the first id not fetched is fetched.
LEMMA ConsumedMarks ==
  ASSUME NEW r, Marked(r), r.eventFifo # <<>>
  PROVE  LET s == OnEventConsumed(r) IN
         /\ Marked(s)
         /\ s.nextEvent = r.nextEvent
         /\ Head(r.eventFifo).id = Fetched(r) + 1
         /\ Fetched(s) = Fetched(r) + 1
         /\ Backed(r) <= Backed(s)
         /\ WakeEvents(s) \subseteq WakeEvents(r) \cup {None}
<1> DEFINE s == OnEventConsumed(r)
           F == Len(r.eventFifo)
           c == ClaimedIn(r)
           i == r.eventFifo[1].claimedBy
<1>1. /\ Promised(r) /\ r \in Registry(RealEvent) /\ Ledgered(r)
      /\ Numbered(r) /\ WakesOwned(r)
  BY DEF Marked, Promised
<1>2. Promised(s) /\ s \in Registry(RealEvent) /\ Ledgered(s)
  BY <1>1, ConsumedKeeps DEF Promised
<1>3. /\ F \in Nat \ {0} /\ Len(s.eventFifo) = F - 1
      /\ \A p \in 1..(F - 1) : s.eventFifo[p] = r.eventFifo[p + 1]
      /\ s.nextRequest = r.nextRequest
      /\ i # None => s.requests[i].state = "ABSENT"
      /\ \A j \in RequestId : j # i => s.requests[j] = r.requests[j]
  BY <1>1, ConsumedFields
<1>4. /\ s.nextEvent = r.nextEvent /\ s.wakeLog = r.wakeLog
      /\ Head(r.eventFifo) = r.eventFifo[1]
      /\ s.requests = IF i # None /\ r.requests[i].state = "COMPLETED"
                      THEN [r.requests EXCEPT ![i] = Absent]
                      ELSE r.requests
  BY <1>1 DEF OnEventConsumed, Registry
<1>5. /\ c \in 0..F
      /\ \A p \in 1..F : r.eventFifo[p].claimedBy # None <=> p <= c
  BY <1>1, ViewFacts
<1>6. r.nextEvent \in Nat /\ Fetched(r) \in Nat /\ Fetched(r) = r.nextEvent - 1 - F
  BY <1>1, MarksOrdered DEF Fetched
<1>7. Backed(r) = Fetched(r) + c
  BY DEF Backed
<1>8. \A p \in 1..F : r.eventFifo[p].id = Fetched(r) + p
  BY <1>1 DEF Numbered
<1>9. r.requests \in [RequestId -> Request]
  BY <1>1 DEF Registry
<1> HIDE DEF s, F, c, i
<1>10. ClaimedIn(s) = IF c = 0 THEN 0 ELSE c - 1
  <2> DEFINE d == IF c = 0 THEN 0 ELSE c - 1
  <2>1. d \in 0..(F - 1)
    BY <1>3, <1>5
  <2>2. ASSUME NEW p \in 1..(F - 1)
        PROVE  s.eventFifo[p].claimedBy # None <=> p <= d
    <3>1. p + 1 \in 1..F /\ s.eventFifo[p] = r.eventFifo[p + 1]
      BY <1>3
    <3>2. s.eventFifo[p].claimedBy # None <=> p + 1 <= c
      BY <1>5, <3>1
    <3> QED
      BY <1>3, <1>5, <3>2
  <2> HIDE DEF d
  <2>3. ClaimedIn(s) = d
    BY <1>2, <1>3, <2>1, <2>2, ClaimsReach
  <2> QED
    BY <2>3 DEF d
<1>11. Fetched(s) = Fetched(r) + 1
  BY <1>3, <1>4, <1>6 DEF Fetched
<1>12. Backed(r) <= Backed(s)
  <2>1. Backed(s) = Fetched(r) + 1 + ClaimedIn(s)
    BY <1>11 DEF Backed
  <2> QED
    BY <1>3, <1>5, <1>6, <1>7, <1>10, <2>1
<1>13. Numbered(s)
  <2>1. ASSUME NEW p \in 1..(F - 1)
        PROVE  s.eventFifo[p].id = Fetched(s) + p
    <3>1. p + 1 \in 1..F /\ s.eventFifo[p] = r.eventFifo[p + 1]
      BY <1>3
    <3>2. s.eventFifo[p].id = Fetched(r) + (p + 1)
      BY <1>8, <3>1
    <3> QED
      BY <1>6, <1>11, <3>2
  <2> QED
    BY <1>3, <1>6, <1>11, <2>1 DEF Numbered
<1>14. \A j \in RequestId : s.requests[j] = r.requests[j] \/ s.requests[j] = Absent
  BY <1>4, <1>9
<1>15. WakeEvents(s) \subseteq WakeEvents(r) \cup {None}
  <2> SUFFICES ASSUME NEW n \in 1..Len(r.wakeLog)
               PROVE  s.requests[r.wakeLog[n]].event \in WakeEvents(r) \cup {None}
    BY <1>4 DEF WakeEvents
  <2>1. r.wakeLog[n] \in RequestId
    BY <1>1, WakeLogFacts
  <2> QED
    BY <1>14, <2>1 DEF WakeEvents, Absent
<1>16. WakesOwned(s)
  <2>1. \A n \in 1..Len(r.wakeLog) : r.wakeLog[n] \in RequestId
    BY <1>1, WakeLogFacts
  <2>2. Absent.state = "ABSENT" /\ Absent.event = None
    BY DEF Absent
  <2>3. /\ \A n \in 1..Len(r.wakeLog) : r.requests[r.wakeLog[n]].state # "PENDING"
        /\ \A j \in RequestId : r.requests[j].state # "COMPLETED" => r.requests[j].event = None
    BY <1>1 DEF WakesOwned
  <2>4. \A n \in 1..Len(r.wakeLog) : s.requests[r.wakeLog[n]].state # "PENDING"
    BY <1>14, <2>1, <2>2, <2>3
  <2>5. \A j \in RequestId : s.requests[j].state # "COMPLETED" => s.requests[j].event = None
    BY <1>14, <2>2, <2>3
  <2>6. /\ \A m, n \in 1..Len(r.wakeLog) : r.wakeLog[m] = r.wakeLog[n] => m = n
        /\ \A n \in 1..Len(r.wakeLog) : r.wakeLog[n] < r.nextRequest
    BY <1>1 DEF WakesOwned
  <2> QED
    BY <1>3, <1>4, <2>4, <2>5, <2>6 DEF WakesOwned
<1>17. Head(r.eventFifo).id = Fetched(r) + 1
  BY <1>3, <1>4, <1>8
<1> QED
  BY <1>2, <1>4, <1>11, <1>12, <1>13, <1>15, <1>16, <1>17 DEF Marked, s

\* Two completed requests have two events.
LEMMA EventsDiffer ==
  ASSUME NEW r, Marked(r), NEW i \in RequestId, NEW j \in RequestId,
         r.requests[i].state = "COMPLETED", r.requests[j].state = "COMPLETED",
         r.requests[i].event = r.requests[j].event
  PROVE  i = j
<1>1. r \in Registry(RealEvent) /\ Ledgered(r) /\ Numbered(r)
  BY DEF Marked, Promised
<1>2. ClaimsBacked(r) /\ CompletionsBacked(r)
  BY <1>1 DEF Ledgered
<1>3. PICK p \in 1..Len(r.eventFifo) : r.eventFifo[p].claimedBy = i
  BY <1>2 DEF CompletionsBacked
<1>4. PICK m \in 1..Len(r.eventFifo) : r.eventFifo[m].claimedBy = j
  BY <1>2 DEF CompletionsBacked
<1>5. i # None /\ j # None
  BY <1>1, Elements
<1>6. r.eventFifo[p].id = r.eventFifo[m].id
  BY <1>2, <1>3, <1>4, <1>5 DEF ClaimsBacked
<1>7. Fetched(r) + p = Fetched(r) + m /\ Fetched(r) \in Nat
  BY <1>1, <1>6 DEF Numbered
<1>8. p \in Nat /\ m \in Nat
  BY <1>1, Elements
<1>9. p = m
  BY <1>7, <1>8
<1> QED
  BY <1>3, <1>4, <1>9

\* wait_for_any_request: the wake it attributes leaves the log, and no wake
\* still in it stands for the same event.
LEMMA WaitMarks ==
  ASSUME NEW r, Marked(r)
  PROVE  LET s == WaitForAnyRequest(r)
             e == r.requests[Head(r.wakeLog)].event
         IN
         /\ Marked(s)
         /\ s.nextEvent = r.nextEvent
         /\ Fetched(s) = Fetched(r) /\ Backed(s) = Backed(r)
         /\ WakeEvents(s) \subseteq WakeEvents(r)
         /\ r.signalCount # 0 /\ r.wakeLog # <<>> =>
              e \in WakeEvents(r) /\ (e = None \/ e \notin WakeEvents(s))
<1> DEFINE s == WaitForAnyRequest(r)
           w == r.wakeLog
           W == Len(w)
<1>1. /\ Promised(r) /\ r \in Registry(RealEvent) /\ Ledgered(r)
      /\ Numbered(r) /\ WakesOwned(r)
  BY DEF Marked, Promised
<1>2. Promised(s)
  BY <1>1, WaitKeeps
<1>3. CASE r.signalCount = 0
  BY <1>1, <1>3 DEF WaitForAnyRequest, Marked
<1>4. CASE r.signalCount # 0
  <2>1. /\ s.nextEvent = r.nextEvent /\ s.eventFifo = r.eventFifo
        /\ s.requests = r.requests /\ s.nextRequest = r.nextRequest
        /\ s.wakeLog = IF w = <<>> THEN <<>> ELSE Tail(w)
    BY <1>1, <1>4 DEF WaitForAnyRequest, Registry
  <2>2. /\ w \in Seq(RequestId) /\ W \in Nat
        /\ \A n \in 1..W : w[n] \in RequestId
    BY <1>1, WakeLogFacts DEF Registry
  <2>3. Fetched(s) = Fetched(r)
    BY <2>1 DEF Fetched
  <2>4. Backed(s) = Backed(r)
    BY <2>1, <2>3 DEF Backed, ClaimedIn, Unclaimed
  <2>5. Numbered(s)
    BY <1>1, <2>1, <2>3 DEF Numbered
  <2>6. CASE w = <<>>
    <3>1. WakesOwned(s) /\ WakeEvents(s) = WakeEvents(r)
      BY <1>1, <2>1, <2>6 DEF WakesOwned, WakeEvents
    <3> QED
      BY <1>2, <2>1, <2>3, <2>4, <2>5, <2>6, <3>1 DEF Marked
  <2>7. CASE w # <<>>
    <3>1. /\ Len(s.wakeLog) = W - 1 /\ W # 0
          /\ \A n \in 1..(W - 1) : s.wakeLog[n] = w[n + 1]
          /\ Head(w) = w[1]
      <4> HIDE DEF s, w
      <4>1. s.wakeLog = Tail(w)
        BY <2>1, <2>7
      <4>2. /\ Len(Tail(w)) = Len(w) - 1
            /\ \A n \in 1..(Len(w) - 1) : Tail(w)[n] = w[n + 1]
            /\ Head(w) = w[1]
        BY <2>2, <2>7, HeadTailProperties
      <4>3. W # 0
        BY <2>2, <2>7, EmptySeq
      <4> QED
        BY <4>1, <4>2, <4>3
    <3>2. /\ \A m, n \in 1..W : w[m] = w[n] => m = n
          /\ \A n \in 1..W : w[n] < r.nextRequest /\ r.requests[w[n]].state # "PENDING"
          /\ \A j \in RequestId : r.requests[j].state # "COMPLETED" => r.requests[j].event = None
      BY <1>1 DEF WakesOwned
    <3> HIDE DEF s, w, W
    <3>3. \A n \in 1..(W - 1) : n + 1 \in 1..W /\ n + 1 # 1
      BY <2>2
    <3>4. WakesOwned(s)
      <4>1. \A m, n \in 1..(W - 1) : s.wakeLog[m] = s.wakeLog[n] => m = n
        <5> SUFFICES ASSUME NEW m \in 1..(W - 1), NEW n \in 1..(W - 1),
                            s.wakeLog[m] = s.wakeLog[n]
                     PROVE  m = n
          OBVIOUS
        <5>1. m + 1 = n + 1
          BY <3>1, <3>2, <3>3
        <5> QED
          BY <5>1
      <4>2. \A n \in 1..(W - 1) : /\ s.wakeLog[n] < r.nextRequest
                                  /\ r.requests[s.wakeLog[n]].state # "PENDING"
        BY <3>1, <3>2, <3>3
      <4> QED
        BY <2>1, <3>1, <3>2, <4>1, <4>2 DEF WakesOwned
    <3>5. WakeEvents(s) = {r.requests[w[n + 1]].event : n \in 1..(W - 1)}
      BY <2>1, <3>1, ZenonT(30) DEF WakeEvents
    <3>6. WakeEvents(r) = {r.requests[w[n]].event : n \in 1..W}
      BY DEF WakeEvents, w, W
    <3>7. WakeEvents(s) \subseteq WakeEvents(r)
      BY <3>3, <3>5, <3>6
    <3>8. 1 \in 1..W
      BY <2>2, <3>1
    <3>9. r.requests[Head(w)].event \in WakeEvents(r)
      BY <3>1, <3>6, <3>8
    <3>10. ASSUME r.requests[Head(w)].event # None,
                  r.requests[Head(w)].event \in WakeEvents(s)
           PROVE  FALSE
      <4>1. PICK n \in 1..(W - 1) : r.requests[w[n + 1]].event = r.requests[w[1]].event
        BY <3>1, <3>5, <3>10
      <4>2. /\ w[1] \in RequestId /\ w[n + 1] \in RequestId
            /\ r.requests[w[1]].state = "COMPLETED"
            /\ r.requests[w[n + 1]].state = "COMPLETED"
        BY <2>2, <3>1, <3>2, <3>3, <3>8, <3>10, <4>1
      <4>3. w[n + 1] = w[1]
        BY <4>1, <4>2, EventsDiffer
      <4> QED
        BY <3>2, <3>3, <3>8, <4>3
    <3> QED
      BY <1>2, <2>1, <2>3, <2>4, <2>5, <3>4, <3>7, <3>9, <3>10 DEF Marked, s, w
  <2> QED
    BY <2>6, <2>7
<1> QED
  BY <1>3, <1>4

\* What the injector knows of the ledger says that it is numbered.
LEMMA JoinedNumbered ==
  ASSUME NEW i \in Injector, NEW r \in Registry(RealEvent), FetchedInOrder(i, r)
  PROVE  Numbered(r)
<1> DEFINE F == Len(r.eventFifo)
           N == r.nextEvent
           first == i.ids["down"]
<1>1. N \in Nat /\ N # 0
  <2>1. N \in 1..(MaxEvents + 1)
    BY DEF Registry
  <2> QED
    BY <2>1, RegistryAssumption
<1>2. first \in Nat
  BY FieldTypes
<1>3. Fetched(r) = N - 1 - F
  BY DEF Fetched
<1> HIDE DEF N, first
<1>4. CASE i.state = "AWAITING_CONSUMPTION"
  <2>1. PICK k \in 0..2 : InFlightAt(k, i, r)
    BY <1>4 DEF FetchedInOrder
  <2>2. /\ N = first + Queued(i) /\ F = Queued(i) - k
        /\ \A p \in 1..F : r.eventFifo[p].id = first + k + p - 1
    BY <2>1 DEF InFlightAt, N, first
  <2>3. Queued(i) \in 2..3
    BY DEF Queued
  <2>4. \A p \in 1..F : r.eventFifo[p].id \in EventId
    BY Elements DEF Entry
  <2> HIDE DEF F
  <2>5. first + k # 0
    <3>1. CASE F = 0
      BY <1>2, <2>2, <2>3, <3>1
    <3>2. CASE F # 0
      <4>1. 1 \in 1..F
        BY <2>2, <2>3, <3>2
      <4>2. r.eventFifo[1].id = first + k + 1 - 1 /\ r.eventFifo[1].id \in EventId
        BY <2>2, <2>4, <4>1
      <4> QED
        BY <1>2, <4>2 DEF EventId
    <3> QED
      BY <3>1, <3>2
  <2>6. Fetched(r) = first + k - 1 /\ Fetched(r) \in Nat
    BY <1>2, <1>3, <2>2, <2>3, <2>5
  <2>7. \A p \in 1..F : r.eventFifo[p].id = Fetched(r) + p
    <3> SUFFICES ASSUME NEW p \in 1..F
                 PROVE  r.eventFifo[p].id = Fetched(r) + p
      OBVIOUS
    <3>1. r.eventFifo[p].id = first + k + p - 1
      BY <2>2
    <3> QED
      BY <1>2, <2>6, <3>1
  <2> QED
    BY <2>6, <2>7 DEF Numbered, F
<1>5. CASE i.state # "AWAITING_CONSUMPTION"
  <2>1. F = 0
    BY <1>5 DEF FetchedInOrder
  <2>2. Fetched(r) \in Nat
    BY <1>1, <1>3, <2>1
  <2> QED
    BY <2>1, <2>2 DEF Numbered
<1> QED
  BY <1>4, <1>5

-----------------------------------------------------------------------------
(* The tracer.                                                             *)

Tracer ==
  [armed   : BOOLEAN,
   tracked : [Roles -> Nat],
   count   : [Stages -> Nat],
   active  : Roles \cup {"none"}]

\* Each counter against the mark of the registry it follows.  The wakes still
\* in the log are counted with those attributed, and the dispatch in progress
\* with the interpretations, because each may still become one.
Traced(t, r) ==
  /\ t \in Tracer
  /\ t.armed => IdsApart(t) /\ t.count["generated"] >= 3
  /\ t.count["enqueued"] = Upto(t, r.nextEvent - 1)
  /\ t.count["dequeued_by_getevent"] = Upto(t, Fetched(r))
  /\ t.count["injector_acknowledged"] = Upto(t, Fetched(r))
  /\ t.count["eventready_completed"] <= Upto(t, Backed(r))
  /\ t.count["wait_woken"] + Hits(t, WakeEvents(r)) <= t.count["eventready_completed"]
  /\ t.count["interpreted_by_module"] + (IF t.active = "none" THEN 0 ELSE 1)
       <= t.count["dequeued_by_getevent"]

\* The roles found depend on the ids the tracer was armed with only.
LEMMA SameArming ==
  ASSUME NEW t, NEW u, u.armed <=> t.armed, u.tracked = t.tracked
  PROVE  /\ \A ids : TrackedRoles(u, ids) = TrackedRoles(t, ids)
         /\ \A ids : Hits(u, ids) = Hits(t, ids)
         /\ \A n : Upto(u, n) = Upto(t, n)
         /\ IdsApart(u) <=> IdsApart(t)
<1>1. \A ids : TrackedRoles(u, ids) = TrackedRoles(t, ids)
  BY DEF TrackedRoles
<1> QED
  BY <1>1 DEF Hits, Upto, IdsApart

\* A stage counted further is the only field that changes.
LEMMA CountedFields ==
  ASSUME NEW t, t \in Tracer, NEW stage, stage \in Stages, NEW n, n \in Nat,
         NEW u, u = Counted(t, stage, n)
  PROVE  /\ u \in Tracer
         /\ u.armed <=> t.armed
         /\ u.tracked = t.tracked /\ u.active = t.active
         /\ u.count[stage] = t.count[stage] + n
         /\ \A s \in Stages : s # stage => u.count[s] = t.count[s]
         /\ u.count[stage] \in Nat
<1>1. t.count \in [Stages -> Nat] /\ t.count[stage] \in Nat
  BY DEF Tracer
<1>2. t.count[stage] + n \in Nat
  BY <1>1
<1>3. /\ u.count = [t.count EXCEPT ![stage] = t.count[stage] + n]
      /\ u.armed = t.armed /\ u.tracked = t.tracked /\ u.active = t.active
      /\ u = [t EXCEPT !.count = [t.count EXCEPT ![stage] = t.count[stage] + n]]
  BY DEF Counted, Tracer
<1>4. [t.count EXCEPT ![stage] = t.count[stage] + n] \in [Stages -> Nat]
  BY <1>1, <1>2
<1>5. u \in Tracer
  BY <1>3, <1>4 DEF Tracer
<1> QED
  BY <1>1, <1>2, <1>3, <1>5

\* An unarmed tracer finds nothing.
LEMMA Unarmed ==
  ASSUME NEW t, ~t.armed
  PROVE  (\A ids : Hits(t, ids) = 0) /\ (\A n : Upto(t, n) = 0)
<1>1. \A ids : TrackedRoles(t, ids) = {}
  BY DEF TrackedRoles
<1> QED
  BY <1>1, FS_EmptySet DEF Hits, Upto

\* The counts of a traced tracer, by name.
LEMMA TracedCounts ==
  ASSUME NEW t, NEW r, Traced(t, r)
  PROVE  /\ t \in Tracer /\ t.armed \in BOOLEAN /\ t.tracked \in [Roles -> Nat]
         /\ t.active \in Roles \cup {"none"}
         /\ t.count["generated"] \in Nat
         /\ t.count["enqueued"] \in Nat
         /\ t.count["eventready_completed"] \in Nat
         /\ t.count["wait_woken"] \in Nat
         /\ t.count["dequeued_by_getevent"] \in Nat
         /\ t.count["interpreted_by_module"] \in Nat
         /\ t.count["injector_acknowledged"] \in Nat
  BY DEF Traced, Tracer, Stages

\* The events of the wakes in the log were given an id long ago.
LEMMA WakeEventsOld ==
  ASSUME NEW r, Marked(r), NEW e \in WakeEvents(r)
  PROVE  e \in 0..(r.nextEvent - 1)
<1>1. r \in Registry(RealEvent) /\ Ledgered(r) /\ Numbered(r) /\ WakesOwned(r)
  BY DEF Marked, Promised
<1>2. PICK n \in 1..Len(r.wakeLog) : e = r.requests[r.wakeLog[n]].event
  BY DEF WakeEvents
<1> DEFINE i == r.wakeLog[n]
<1>3. i \in RequestId
  BY <1>1, WakeLogFacts
<1> HIDE DEF i
<1>4. e = r.requests[i].event
  BY <1>2 DEF i
<1>5. r.nextEvent \in Nat \ {0}
  BY <1>1, MarksOrdered
<1>6. CASE r.requests[i].state # "COMPLETED"
  <2>1. e = None
    BY <1>1, <1>3, <1>4, <1>6 DEF WakesOwned
  <2> QED
    BY <1>5, <2>1 DEF None
<1>7. CASE r.requests[i].state = "COMPLETED"
  <2>1. PICK p \in 1..Len(r.eventFifo) : r.eventFifo[p].claimedBy = i
    BY <1>1, <1>3, <1>7 DEF Ledgered, CompletionsBacked
  <2>2. i # None
    BY <1>1, <1>3, Elements
  <2>3. e = r.eventFifo[p].id
    BY <1>1, <1>4, <2>1, <2>2 DEF Ledgered, ClaimsBacked
  <2>4. e = Fetched(r) + p
    BY <1>1, <2>3 DEF Numbered
  <2>5. /\ Fetched(r) \in Nat /\ Len(r.eventFifo) \in Nat
        /\ Fetched(r) + Len(r.eventFifo) = r.nextEvent - 1
    BY <1>1, MarksOrdered
  <2> QED
    BY <1>5, <2>4, <2>5
<1> QED
  BY <1>6, <1>7

\* The refill sends a key: arming takes the three ids that come next.
LEMMA AnnouncedTraced ==
  ASSUME NEW t, NEW r, Marked(r), Traced(t, r),
         NEW i \in Injector, NEW o, NEW mod, Outcome(i, o, mod, r)
  PROVE  Traced(Announced(t, i, o.inj), r)
<1> DEFINE j == o.inj
           u == Armed(t, j.ids, j.scan)
           v == KeyGenerated(u, j.scan)
<1>1. CASE j.idx = i.idx
  BY <1>1 DEF Announced
<1>2. CASE j.idx # i.idx
  <2>1. j \in Injector
    BY DEF Outcome
  <2>2. Sends(i, o, mod, r)
    BY <1>2, <2>1 DEF Outcome, Rests, Releases, Injector
  <2>3. /\ j.ids["down"] = r.nextEvent /\ j.ids["key"] = r.nextEvent + 1
        /\ j.ids["up"] = r.nextEvent + 2
    BY <2>2 DEF Sends
  <2>4. j.ids \in [Roles -> Nat]
    BY <2>1, FieldTypes
  <2>5. Announced(t, i, j) = v
    BY <1>2 DEF Announced
  <2>6. /\ r.nextEvent \in Nat \ {0} /\ Fetched(r) \in Nat /\ Backed(r) \in Nat
        /\ Fetched(r) <= Backed(r) /\ Backed(r) <= r.nextEvent - 1
    BY MarksOrdered DEF Marked, Promised
  <2>7. t \in Tracer
    BY DEF Traced
  <2> HIDE DEF j
  <2>8. CASE j.scan # Tracked
    BY <2>5, <2>8 DEF KeyGenerated, Armed, j
  <2>9. CASE j.scan = Tracked
    <3>1. v = Counted(u, "generated", 3)
      BY <2>9 DEF KeyGenerated
    <3>2. CASE t.armed
      <4>1. u = t
        BY <3>2 DEF Armed
      <4>2. /\ v \in Tracer /\ (v.armed <=> t.armed) /\ v.tracked = t.tracked
            /\ v.active = t.active
            /\ v.count["generated"] = t.count["generated"] + 3
            /\ \A s \in Stages : s # "generated" => v.count[s] = t.count[s]
        BY <2>7, <3>1, <4>1, CountedFields DEF Stages
      <4> HIDE DEF u, v
      <4>3. /\ \A ids : Hits(v, ids) = Hits(t, ids)
            /\ \A n : Upto(v, n) = Upto(t, n)
            /\ IdsApart(v) <=> IdsApart(t)
        BY <4>2, SameArming
      <4>4. t.count["generated"] \in Nat
        BY TracedCounts
      <4>5. v.count["generated"] >= 3
        BY <3>2, <4>2, <4>4 DEF Traced
      <4>6. Traced(v, r)
        BY <4>2, <4>3, <4>5 DEF Traced, Stages
      <4> QED
        BY <2>5, <4>6 DEF j
    <3>3. CASE ~t.armed
      <4>1. u = [t EXCEPT !.armed = TRUE, !.tracked = j.ids]
        BY <2>9, <3>3 DEF Armed
      <4>2. /\ u \in Tracer /\ u.armed /\ u.tracked = j.ids
            /\ u.count = t.count /\ u.active = t.active
        BY <2>4, <2>7, <4>1 DEF Tracer
      <4> HIDE DEF u
      <4>3. /\ v \in Tracer /\ v.armed /\ v.tracked = j.ids
            /\ v.active = t.active
            /\ v.count["generated"] = t.count["generated"] + 3
            /\ \A s \in Stages : s # "generated" => v.count[s] = t.count[s]
        <5>1. "generated" \in Stages /\ 3 \in Nat
          BY DEF Stages
        <5> HIDE DEF v
        <5> QED
          BY <3>1, <4>2, <5>1, CountedFields
      <4> HIDE DEF v
      <4>4. \A role \in Roles : v.tracked[role] \in Nat /\ v.tracked[role] >= r.nextEvent
        BY <2>3, <2>6, <4>3 DEF Roles
      <4>5. IdsApart(v)
        BY <2>3, <2>6, <4>3 DEF IdsApart, Roles
      <4>6. ASSUME NEW ids, \A e \in ids : e \in 0..(r.nextEvent - 1)
            PROVE  Hits(v, ids) = 0
        <5>1. TrackedRoles(v, ids) = {}
          <6> SUFFICES ASSUME NEW role \in Roles, v.tracked[role] \in ids
                       PROVE  FALSE
            BY DEF TrackedRoles
          <6> QED
            BY <2>6, <4>4, <4>6
        <5> QED
          BY <5>1, FS_EmptySet DEF Hits
      <4>7. \A n \in 0..(r.nextEvent - 1) : Upto(v, n) = 0
        <5> SUFFICES ASSUME NEW n \in 0..(r.nextEvent - 1)
                     PROVE  Upto(v, n) = 0
          OBVIOUS
        <5>1. \A e \in 1..n : e \in 0..(r.nextEvent - 1)
          BY <2>6
        <5> QED
          BY <4>6, <5>1 DEF Upto
      <4>8. Hits(v, WakeEvents(r)) = 0
        BY <4>6, WakeEventsOld
      <4>9. (\A ids : Hits(t, ids) = 0) /\ (\A n : Upto(t, n) = 0)
        BY <3>3, Unarmed
      <4>10. Upto(v, r.nextEvent - 1) = 0 /\ Upto(v, Fetched(r)) = 0 /\ Upto(v, Backed(r)) = 0
        BY <2>6, <4>7
      <4>11. v.count["generated"] >= 3
        BY <4>3, TracedCounts
      <4>12. Traced(v, r)
        BY <4>3, <4>5, <4>8, <4>9, <4>10, <4>11 DEF Traced, Stages
      <4> QED
        BY <2>5, <4>12 DEF j
    <3> QED
      BY <3>2, <3>3
  <2> QED
    BY <2>8, <2>9
<1> QED
  BY <1>1, <1>2

\* on_event_enqueued and on_eventready_completed.
LEMMA EnqueuedTraced ==
  ASSUME NEW t, NEW r, Marked(r), Traced(t, r), NEW s, Marked(s), Promoted(r, s)
  PROVE  Traced(Enqueued(t, r, s), s)
<1> DEFINE new    == r.nextEvent..(s.nextEvent - 1)
           backed == NewlyBacked(r, s)
           u == Counted(t, "enqueued", Hits(t, new))
           v == Counted(u, "eventready_completed", Hits(t, backed))
<1>1. Enqueued(t, r, s) = v
  BY DEF Enqueued, NewlyBacked, Hits
<1>2. Hits(t, new) \in 0..3 /\ Hits(t, backed) \in 0..3
      /\ Hits(t, WakeEvents(r)) \in 0..3 /\ Hits(t, WakeEvents(s)) \in 0..3
  BY HitsCount
<1>3. t \in Tracer
  BY DEF Traced
<1>4. /\ r.nextEvent \in Nat \ {0} /\ Fetched(r) \in Nat /\ Backed(r) \in Nat
      /\ Fetched(r) <= Backed(r) /\ Backed(r) <= r.nextEvent - 1
      /\ s.nextEvent \in Nat \ {0} /\ Backed(s) \in Nat
  BY MarksOrdered DEF Marked, Promised
<1>5. /\ Fetched(s) = Fetched(r) /\ Backed(r) <= Backed(s)
      /\ r.nextEvent <= s.nextEvent
      /\ backed \subseteq (Backed(r) + 1)..Backed(s)
      /\ WakeEvents(s) \subseteq WakeEvents(r) \cup backed
  BY DEF Promoted
<1> DEFINE m == Hits(t, new)
           k == Hits(t, backed)
<1> HIDE DEF new, backed, m, k
<1>17. /\ m \in Nat /\ k \in Nat
       /\ "enqueued" \in Stages /\ "eventready_completed" \in Stages
  BY <1>2 DEF Stages, m, k
<1>18. u = Counted(t, "enqueued", m) /\ v = Counted(u, "eventready_completed", k)
  BY DEF m, k
<1> HIDE DEF u, v
<1>6. /\ u \in Tracer /\ (u.armed <=> t.armed) /\ u.tracked = t.tracked /\ u.active = t.active
      /\ u.count["enqueued"] = t.count["enqueued"] + m
      /\ \A stage \in Stages : stage # "enqueued" => u.count[stage] = t.count[stage]
  BY <1>3, <1>17, <1>18, CountedFields
<1>7. /\ v \in Tracer /\ (v.armed <=> u.armed) /\ v.tracked = u.tracked /\ v.active = u.active
      /\ v.count["eventready_completed"] = u.count["eventready_completed"] + k
      /\ \A stage \in Stages : stage # "eventready_completed" => v.count[stage] = u.count[stage]
  BY <1>6, <1>17, <1>18, CountedFields
<1>8. /\ \A ids : Hits(v, ids) = Hits(t, ids)
      /\ \A n : Upto(v, n) = Upto(t, n)
      /\ IdsApart(v) <=> IdsApart(t)
  BY <1>6, <1>7, SameArming
<1>9. /\ v.count["generated"] = t.count["generated"]
      /\ v.count["enqueued"] = t.count["enqueued"] + Hits(t, new)
      /\ v.count["dequeued_by_getevent"] = t.count["dequeued_by_getevent"]
      /\ v.count["injector_acknowledged"] = t.count["injector_acknowledged"]
      /\ v.count["eventready_completed"] = t.count["eventready_completed"] + Hits(t, backed)
      /\ v.count["wait_woken"] = t.count["wait_woken"]
      /\ v.count["interpreted_by_module"] = t.count["interpreted_by_module"]
  BY <1>6, <1>7 DEF Stages, m, k
<1>10. Upto(t, s.nextEvent - 1) = Upto(t, r.nextEvent - 1) + Hits(t, new)
  <2>1. (r.nextEvent - 1) + 1 = r.nextEvent /\ r.nextEvent - 1 \in Nat
        /\ s.nextEvent - 1 \in Nat /\ r.nextEvent - 1 <= s.nextEvent - 1
    BY <1>4, <1>5
  <2> QED
    BY <2>1, UptoGrows DEF new
<1>11. Upto(t, Backed(s)) >= Upto(t, Backed(r)) + Hits(t, backed)
  <2>1. Upto(t, Backed(s)) = Upto(t, Backed(r)) + Hits(t, (Backed(r) + 1)..Backed(s))
        /\ Upto(t, Backed(r)) \in 0..3 /\ Hits(t, (Backed(r) + 1)..Backed(s)) \in 0..3
    BY <1>4, <1>5, UptoGrows
  <2>2. Hits(t, backed) <= Hits(t, (Backed(r) + 1)..Backed(s))
    BY <1>5, HitsCount
  <2> QED
    BY <1>2, <2>1, <2>2
<1>12. Hits(t, WakeEvents(s)) <= Hits(t, WakeEvents(r)) + Hits(t, backed)
  <2>1. Hits(t, WakeEvents(s)) <= Hits(t, WakeEvents(r) \cup backed)
        /\ Hits(t, WakeEvents(r) \cup backed) \in 0..3
    BY <1>5, HitsCount
  <2>2. Hits(t, WakeEvents(r) \cup backed) <= Hits(t, WakeEvents(r)) + Hits(t, backed)
    BY HitsCount
  <2> QED
    BY <1>2, <2>1, <2>2
<1>13. Upto(t, Backed(r)) \in Nat /\ Upto(t, Backed(s)) \in Nat
  <2>1. \A n : Hits(t, 1..n) \in 0..3
    BY HitsCount
  <2> QED
    BY <2>1 DEF Upto
<1>14. v.count["eventready_completed"] <= Upto(v, Backed(s))
  <2>1. t.count["eventready_completed"] <= Upto(t, Backed(r))
        /\ t.count["eventready_completed"] \in Nat
    BY TracedCounts DEF Traced
  <2> QED
    BY <1>2, <1>8, <1>9, <1>11, <1>13, <2>1
<1>15. v.count["wait_woken"] + Hits(v, WakeEvents(s)) <= v.count["eventready_completed"]
  <2>1. t.count["wait_woken"] + Hits(t, WakeEvents(r)) <= t.count["eventready_completed"]
        /\ t.count["wait_woken"] \in Nat /\ t.count["eventready_completed"] \in Nat
    BY TracedCounts DEF Traced
  <2>2. Hits(v, WakeEvents(s)) = Hits(t, WakeEvents(s))
    BY <1>8
  <2> DEFINE wr == Hits(t, WakeEvents(r))
             ws == Hits(t, WakeEvents(s))
             hb == Hits(t, backed)
  <2>3. wr \in Nat /\ ws \in Nat /\ hb \in Nat /\ ws <= wr + hb
    BY <1>2, <1>12
  <2> HIDE DEF wr, ws, hb
  <2>4. /\ t.count["wait_woken"] + wr <= t.count["eventready_completed"]
        /\ v.count["wait_woken"] = t.count["wait_woken"]
        /\ v.count["eventready_completed"] = t.count["eventready_completed"] + hb
    BY <1>9, <2>1 DEF wr, hb
  <2>5. v.count["wait_woken"] + ws <= v.count["eventready_completed"]
    BY <2>1, <2>3, <2>4
  <2> QED
    BY <2>2, <2>5 DEF ws
<1>16. Traced(v, s)
  BY <1>5, <1>6, <1>7, <1>8, <1>9, <1>10, <1>14, <1>15 DEF Traced
<1> QED
  BY <1>1, <1>16

\* The event at the head of the ledger is one the injector waits for.
LEMMA HeadIsOfTheKey ==
  ASSUME NEW i \in Injector, Sequenced(i), NEW r, Marked(r), FetchedInOrder(i, r),
         r.eventFifo # <<>>
  PROVE  /\ i.state = "AWAITING_CONSUMPTION"
         /\ \E role \in Roles : i.ids[role] = Head(r.eventFifo).id
<1> DEFINE F == Len(r.eventFifo)
           first == i.ids["down"]
           id == Head(r.eventFifo).id
<1>1. r \in Registry(RealEvent) /\ Ledgered(r)
  BY DEF Marked, Promised
<1>2. F \in Nat \ {0} /\ id = r.eventFifo[1].id
  BY <1>1, ConsumedFields
<1>3. i.state = "AWAITING_CONSUMPTION"
  BY <1>2 DEF FetchedInOrder
<1>4. PICK k \in 0..2 : InFlightAt(k, i, r)
  BY <1>3 DEF FetchedInOrder
<1>5. first \in Nat /\ i.ids["key"] = first + 1 /\ i.ids["up"] = first + 2
  BY <1>3, FieldTypes DEF Sequenced
<1>6. \A p \in 1..F : r.eventFifo[p].id = first + k + p - 1
  BY <1>4 DEF InFlightAt
<1> HIDE DEF F, first, id
<1>7. 1 \in 1..F
  BY <1>2
<1>8. id = first + k
  <2>1. r.eventFifo[1].id = first + k + 1 - 1
    BY <1>6, <1>7
  <2> QED
    BY <1>2, <1>5, <2>1
<1>9. k = 0 \/ k = 1 \/ k = 2
  OBVIOUS
<1>10. \E role \in Roles : i.ids[role] = id
  BY <1>5, <1>8, <1>9 DEF Roles, first
<1> QED
  BY <1>3, <1>10 DEF id

\* What the tracer notes when GetEvent hands over the head of the ledger.
LEMMA DeliveryFields ==
  ASSUME NEW t \in Tracer, t.armed => IdsApart(t), NEW i, NEW id,
         i.state = "AWAITING_CONSUMPTION", \E role \in Roles : i.ids[role] = id,
         NEW d, d = Dequeued(Acknowledged(t, i, id), id)
  PROVE  /\ d \in Tracer /\ (d.armed <=> t.armed) /\ d.tracked = t.tracked
         /\ d.count["injector_acknowledged"]
              = t.count["injector_acknowledged"] + Hits(t, {id})
         /\ d.count["dequeued_by_getevent"]
              = t.count["dequeued_by_getevent"] + Hits(t, {id})
         /\ \A s \in Stages :
              s \notin {"injector_acknowledged", "dequeued_by_getevent"} =>
                d.count[s] = t.count[s]
         /\ Hits(t, {id}) = 0 => d.active = t.active
         /\ Hits(t, {id}) \in 0..1
         /\ Hits(t, {id}) = 1 => d.active \in Roles /\ t.armed /\ t.tracked[d.active] = id
<1> DEFINE a == Acknowledged(t, i, id)
           n == Hits(t, {id})
           X == TrackedRoles(t, {id})
<1>1. n = (IF X = {} THEN 0 ELSE 1) /\ n \in 0..1
  BY OneHit
<1>2. /\ "injector_acknowledged" \in Stages /\ "dequeued_by_getevent" \in Stages
      /\ "injector_acknowledged" # "dequeued_by_getevent"
      /\ n \in Nat /\ 1 \in Nat
  BY <1>1 DEF Stages
<1>3. a = Counted(t, "injector_acknowledged", n)
  BY DEF Acknowledged, Hits
<1> HIDE DEF a, n
<1>4. /\ a \in Tracer /\ (a.armed <=> t.armed) /\ a.tracked = t.tracked
      /\ a.active = t.active
      /\ a.count["injector_acknowledged"] = t.count["injector_acknowledged"] + n
      /\ \A s \in Stages : s # "injector_acknowledged" => a.count[s] = t.count[s]
  BY <1>2, <1>3, CountedFields
<1>5. TrackedRoles(a, {id}) = X
  BY <1>4, SameArming
<1>6. d = Dequeued(a, id)
  BY DEF a
<1>7. CASE X = {}
  <2>1. d = a
    BY <1>5, <1>6, <1>7 DEF Dequeued
  <2>2. n = 0
    BY <1>1, <1>7
  <2>3. t.count["dequeued_by_getevent"] \in Nat /\ t.count["injector_acknowledged"] \in Nat
    BY <1>2 DEF Tracer
  <2>4. d.count["dequeued_by_getevent"] = t.count["dequeued_by_getevent"]
    BY <1>2, <1>4, <2>1
  <2> QED
    BY <1>1, <1>4, <2>1, <2>2, <2>3, <2>4 DEF n
<1>8. CASE X # {}
  <2> DEFINE b == Counted(a, "dequeued_by_getevent", 1)
             role == CHOOSE x \in X : TRUE
  <2>1. d = [b EXCEPT !.active = role]
    BY <1>5, <1>6, <1>8 DEF Dequeued
  <2>2. role \in X
    BY <1>8
  <2>3. role \in Roles /\ t.armed /\ t.tracked[role] = id
    BY <2>2 DEF TrackedRoles
  <2> HIDE DEF b, role, X
  <2>5. /\ b \in Tracer /\ (b.armed <=> a.armed) /\ b.tracked = a.tracked
        /\ b.count["dequeued_by_getevent"] = a.count["dequeued_by_getevent"] + 1
        /\ \A s \in Stages : s # "dequeued_by_getevent" => b.count[s] = a.count[s]
    BY <1>2, <1>4, CountedFields DEF b
  <2>6. /\ d \in Tracer /\ (d.armed <=> b.armed) /\ d.tracked = b.tracked
        /\ d.count = b.count /\ d.active = role
    BY <2>1, <2>3, <2>5 DEF Tracer
  <2>7. n = 1
    BY <1>1, <1>8
  <2>8. /\ d.count["injector_acknowledged"] = t.count["injector_acknowledged"] + n
        /\ d.count["dequeued_by_getevent"] = t.count["dequeued_by_getevent"] + n
    BY <1>2, <1>4, <2>5, <2>6, <2>7
  <2>9. \A s \in Stages :
          s \notin {"injector_acknowledged", "dequeued_by_getevent"} =>
            d.count[s] = t.count[s]
    BY <1>4, <2>5, <2>6
  <2> QED
    BY <1>4, <2>3, <2>5, <2>6, <2>7, <2>8, <2>9 DEF n
<1> QED
  BY <1>7, <1>8

\* on_injector_ack and on_event_consumed.
LEMMA DeliveryTraced ==
  ASSUME NEW t, NEW r, Marked(r), Traced(t, r),
         NEW i \in Injector, Sequenced(i), FetchedInOrder(i, r), NEW e,
         NEW s, s = IF e = Null THEN r ELSE OnEventConsumed(r)
  PROVE  Marked(s) /\ Traced(Delivery(t, e, r, i), s)
<1>1. CASE e = Null
  BY <1>1 DEF Delivery
<1>2. CASE e # Null /\ r.eventFifo = <<>>
  BY <1>2 DEF Delivery, OnEventConsumed
<1>3. CASE e # Null /\ r.eventFifo # <<>>
  <2> DEFINE id == Head(r.eventFifo).id
             d == Delivery(t, e, r, i)
             n == Hits(t, {id})
             N == r.nextEvent
             f == Fetched(r)
             b == Backed(r)
             g == Backed(s)
  <2>1. s = OnEventConsumed(r)
    BY <1>3
  <2>2. /\ Marked(s) /\ s.nextEvent = N
        /\ id = f + 1 /\ Fetched(s) = f + 1 /\ b <= g
        /\ WakeEvents(s) \subseteq WakeEvents(r) \cup {None}
    BY <1>3, <2>1, ConsumedMarks
  <2>3. d = Dequeued(Acknowledged(t, i, id), id)
    BY <1>3 DEF Delivery
  <2>4. /\ i.state = "AWAITING_CONSUMPTION"
        /\ \E role \in Roles : i.ids[role] = id
    BY <1>3, HeadIsOfTheKey
  <2>5. t \in Tracer /\ (t.armed => IdsApart(t))
    BY DEF Traced
  <2>6. f \in Nat /\ b \in Nat /\ g \in Nat
    BY <2>2, MarksOrdered DEF Marked, Promised
  <2> HIDE DEF id, d, N, f, b, g
  <2>7. /\ d \in Tracer /\ (d.armed <=> t.armed) /\ d.tracked = t.tracked
        /\ d.count["injector_acknowledged"] = t.count["injector_acknowledged"] + n
        /\ d.count["dequeued_by_getevent"] = t.count["dequeued_by_getevent"] + n
        /\ \A stage \in Stages :
             stage \notin {"injector_acknowledged", "dequeued_by_getevent"} =>
               d.count[stage] = t.count[stage]
        /\ n = 0 => d.active = t.active
        /\ n \in 0..1
    BY <2>3, <2>4, <2>5, DeliveryFields
  <2> HIDE DEF n
  <2>8. /\ \A ids : Hits(d, ids) = Hits(t, ids)
        /\ \A k : Upto(d, k) = Upto(t, k)
        /\ IdsApart(d) <=> IdsApart(t)
    BY <2>7, SameArming
  <2>9. /\ d.count["generated"] = t.count["generated"]
        /\ d.count["enqueued"] = t.count["enqueued"]
        /\ d.count["eventready_completed"] = t.count["eventready_completed"]
        /\ d.count["wait_woken"] = t.count["wait_woken"]
        /\ d.count["interpreted_by_module"] = t.count["interpreted_by_module"]
    BY <2>7 DEF Stages
  <2>10. Upto(t, f + 1) = Upto(t, f) + n
    <3>1. (f + 1)..(f + 1) = {id} /\ f + 1 \in Nat /\ f <= f + 1
      BY <2>2, <2>6
    <3>2. Upto(t, f + 1) = Upto(t, f) + Hits(t, (f + 1)..(f + 1))
      BY <2>6, <3>1, UptoGrows
    <3> QED
      BY <3>1, <3>2 DEF n
  <2>11. Upto(t, b) <= Upto(t, g) /\ Upto(t, b) \in Nat /\ Upto(t, g) \in Nat
    BY <2>2, <2>6, UptoGrows, SMTT(30)
  <2>12. Hits(t, WakeEvents(s)) <= Hits(t, WakeEvents(r))
         /\ Hits(t, WakeEvents(s)) \in Nat /\ Hits(t, WakeEvents(r)) \in Nat
    <3>1. Hits(t, WakeEvents(s)) <= Hits(t, WakeEvents(r) \cup {None})
      BY <2>2, HitsCount
    <3>2. Hits(t, WakeEvents(r) \cup {None}) <= Hits(t, WakeEvents(r)) + Hits(t, {None})
      BY HitsCount
    <3>3. Hits(t, {None}) = 0
      BY <2>5, OneHit
    <3>4. Hits(t, WakeEvents(s)) \in 0..3 /\ Hits(t, WakeEvents(r)) \in 0..3
          /\ Hits(t, WakeEvents(r) \cup {None}) \in 0..3
      BY HitsCount
    <3> QED
      BY <3>1, <3>2, <3>3, <3>4
  <2>13. /\ t.count["enqueued"] = Upto(t, N - 1)
         /\ t.count["dequeued_by_getevent"] = Upto(t, f)
         /\ t.count["injector_acknowledged"] = Upto(t, f)
         /\ t.count["eventready_completed"] <= Upto(t, b)
         /\ t.count["wait_woken"] + Hits(t, WakeEvents(r)) <= t.count["eventready_completed"]
         /\ t.count["interpreted_by_module"] + (IF t.active = "none" THEN 0 ELSE 1)
              <= t.count["dequeued_by_getevent"]
         /\ t.armed => t.count["generated"] >= 3
    BY DEF Traced, N, f, b
  <2>14. /\ t.count["eventready_completed"] \in Nat
         /\ t.count["wait_woken"] \in Nat
         /\ t.count["dequeued_by_getevent"] \in Nat
         /\ t.count["interpreted_by_module"] \in Nat
    BY TracedCounts
  <2>15. d.count["eventready_completed"] <= Upto(d, g)
    BY <2>8, <2>9, <2>11, <2>13, <2>14
  <2>16. d.count["wait_woken"] + Hits(d, WakeEvents(s)) <= d.count["eventready_completed"]
    BY <2>8, <2>9, <2>12, <2>13, <2>14
  <2>17. d.count["interpreted_by_module"] + (IF d.active = "none" THEN 0 ELSE 1)
           <= d.count["dequeued_by_getevent"]
    <3>1. CASE n = 0
      BY <2>7, <2>9, <2>13, <2>14, <3>1
    <3>2. CASE n = 1
      <4>1. t.count["interpreted_by_module"] <= t.count["dequeued_by_getevent"]
        BY <2>13, <2>14
      <4>2. d.count["dequeued_by_getevent"] = t.count["dequeued_by_getevent"] + 1
        BY <2>7, <3>2
      <4>3. d.count["interpreted_by_module"] + 1 <= d.count["dequeued_by_getevent"]
        BY <2>9, <2>14, <4>1, <4>2
      <4> QED
        BY <2>9, <2>14, <4>1, <4>2, <4>3
    <3> QED
      BY <2>7, <3>1, <3>2
  <2>18. Traced(d, s)
    BY <2>2, <2>5, <2>7, <2>8, <2>9, <2>10, <2>13, <2>15, <2>16, <2>17 DEF Traced, g
  <2> QED
    BY <2>2, <2>18 DEF d
<1> QED
  BY <1>1, <1>2, <1>3

\* on_wait_woken.
LEMMA WokenTraced ==
  ASSUME NEW t, NEW r, Marked(r), Traced(t, r)
  PROVE  Marked(WaitForAnyRequest(r)) /\ Traced(Woken(t, r), WaitForAnyRequest(r))
<1> DEFINE s == WaitForAnyRequest(r)
           e == r.requests[Head(r.wakeLog)].event
           n == Hits(t, {e})
           u == Woken(t, r)
           wr == Hits(t, WakeEvents(r))
           ws == Hits(t, WakeEvents(s))
<1>1. /\ Marked(s) /\ s.nextEvent = r.nextEvent
      /\ Fetched(s) = Fetched(r) /\ Backed(s) = Backed(r)
      /\ WakeEvents(s) \subseteq WakeEvents(r)
      /\ r.signalCount # 0 /\ r.wakeLog # <<>> =>
           e \in WakeEvents(r) /\ (e = None \/ e \notin WakeEvents(s))
  BY WaitMarks
<1>2. t \in Tracer /\ (t.armed => IdsApart(t))
  BY DEF Traced
<1>3. n \in 0..3 /\ wr \in 0..3 /\ ws \in 0..3 /\ ws <= wr
  BY <1>1, HitsCount
<1>4. /\ t.count["wait_woken"] + wr <= t.count["eventready_completed"]
      /\ t.count["wait_woken"] \in Nat /\ t.count["eventready_completed"] \in Nat
  BY TracedCounts DEF Traced
<1>5. CASE r.signalCount = 0 \/ r.wakeLog = <<>>
  <2>1. u = t
    BY <1>5 DEF Woken
  <2> HIDE DEF s, u, wr, ws
  <2>2. t.count["wait_woken"] + ws <= t.count["eventready_completed"]
    BY <1>3, <1>4
  <2>3. Traced(t, s)
    BY <1>1, <2>2 DEF Traced, ws
  <2> QED
    BY <1>1, <2>1, <2>3 DEF s, u
<1>6. CASE r.signalCount # 0 /\ r.wakeLog # <<>>
  <2>1. u = Counted(t, "wait_woken", n)
    BY <1>6 DEF Woken, Hits
  <2>2. n + ws <= wr
    <3>1. CASE e = None
      <4>1. n = 0
        BY <1>2, <3>1, OneHit
      <4> QED
        BY <1>3, <4>1
    <3>2. CASE e # None
      <4>1. {e} \cap WakeEvents(s) = {} /\ {e} \cup WakeEvents(s) \subseteq WakeEvents(r)
        BY <1>1, <1>6, <3>2
      <4>2. /\ Hits(t, {e} \cup WakeEvents(s)) = n + ws
            /\ Hits(t, {e} \cup WakeEvents(s)) <= wr
        BY <4>1, HitsCount
      <4> QED
        BY <4>2
    <3> QED
      BY <3>1, <3>2
  <2> HIDE DEF s, u, n, wr, ws
  <2>3. n \in Nat /\ "wait_woken" \in Stages
    BY <1>3 DEF Stages
  <2>4. /\ u \in Tracer /\ (u.armed <=> t.armed) /\ u.tracked = t.tracked
        /\ u.active = t.active
        /\ u.count["wait_woken"] = t.count["wait_woken"] + n
        /\ \A stage \in Stages : stage # "wait_woken" => u.count[stage] = t.count[stage]
    BY <1>2, <2>1, <2>3, CountedFields
  <2>5. /\ \A ids : Hits(u, ids) = Hits(t, ids)
        /\ \A k : Upto(u, k) = Upto(t, k)
        /\ IdsApart(u) <=> IdsApart(t)
    BY <2>4, SameArming
  <2>6. /\ u.count["generated"] = t.count["generated"]
        /\ u.count["enqueued"] = t.count["enqueued"]
        /\ u.count["dequeued_by_getevent"] = t.count["dequeued_by_getevent"]
        /\ u.count["injector_acknowledged"] = t.count["injector_acknowledged"]
        /\ u.count["eventready_completed"] = t.count["eventready_completed"]
        /\ u.count["interpreted_by_module"] = t.count["interpreted_by_module"]
    BY <2>4 DEF Stages
  <2>7. u.count["wait_woken"] + ws <= u.count["eventready_completed"]
    BY <1>3, <1>4, <2>2, <2>3, <2>4, <2>6
  <2>8. Traced(u, s)
    BY <1>1, <2>4, <2>5, <2>6, <2>7 DEF Traced, ws
  <2> QED
    BY <1>1, <2>8 DEF s, u
<1> QED
  BY <1>5, <1>6

\* The lesser of two counts is a count.
LEMMA EarlierCount ==
  ASSUME NEW m \in Nat, NEW n \in Nat
  PROVE  Min({m, n}) \in Nat
<1>1. \E x \in {m, n} : \A y \in {m, n} : x <= y
  OBVIOUS
<1>2. Min({m, n}) \in {m, n}
  BY <1>1 DEF Min
<1> QED
  BY <1>2

\* _on_getevent_return and _on_interpreted.
LEMMA HandledTraced ==
  ASSUME NEW t, NEW r, Traced(t, r)
  PROVE  /\ \A scan : Traced(Returned(t, scan), r)
         /\ Traced(Interpreted(t), r)
<1>1. /\ t \in Tracer /\ t.count \in [Stages -> Nat]
      /\ t.count["delivered_to_handler"] \in Nat
      /\ t.count["interpreted_by_module"] \in Nat
      /\ t.count["dequeued_by_getevent"] \in Nat
  BY DEF Traced, Tracer, Stages
<1>2. t.count["interpreted_by_module"] + (IF t.active = "none" THEN 0 ELSE 1)
        <= t.count["dequeued_by_getevent"]
  BY DEF Traced
<1>3. t.count["interpreted_by_module"] <= t.count["dequeued_by_getevent"]
  BY <1>1, <1>2
<1>4. ASSUME NEW scan
      PROVE  Traced(Returned(t, scan), r)
  <2>1. CASE scan # Tracked
    <3> DEFINE u == [t EXCEPT !.active = "none"]
    <3>1. Returned(t, scan) = u
      BY <2>1 DEF Returned
    <3>2. /\ u \in Tracer /\ (u.armed <=> t.armed) /\ u.tracked = t.tracked
          /\ u.count = t.count /\ u.active = "none"
      BY <1>1 DEF Tracer
    <3> HIDE DEF u
    <3>3. /\ \A ids : Hits(u, ids) = Hits(t, ids)
          /\ \A k : Upto(u, k) = Upto(t, k)
          /\ IdsApart(u) <=> IdsApart(t)
      BY <3>2, SameArming
    <3>4. Traced(u, r)
      BY <1>1, <1>3, <3>2, <3>3 DEF Traced
    <3> QED
      BY <3>1, <3>4
  <2>2. CASE scan = Tracked
    <3> DEFINE n == Min({t.count["delivered_to_handler"] + 1, MaxDelivered})
               c == [t.count EXCEPT !["delivered_to_handler"] = n]
               u == ReturnCounted(t)
    <3>1. Returned(t, scan) = u
      BY <2>2 DEF Returned
    <3>2. n \in Nat
      <4>1. t.count["delivered_to_handler"] + 1 \in Nat /\ MaxDelivered \in Nat
        BY <1>1, LifecycleAssumption
      <4> QED
        BY <4>1, EarlierCount
    <3>3. u = [t EXCEPT !.count = c]
      BY <1>1 DEF ReturnCounted, Tracer
    <3> HIDE DEF n, u
    <3>4. c \in [Stages -> Nat]
      BY <1>1, <3>2
    <3>5. \A stage \in Stages : stage # "delivered_to_handler" => c[stage] = t.count[stage]
      BY <1>1
    <3> HIDE DEF c
    <3>6. /\ u \in Tracer /\ (u.armed <=> t.armed) /\ u.tracked = t.tracked
          /\ u.count = c /\ u.active = t.active
      BY <1>1, <3>3, <3>4 DEF Tracer
    <3>7. /\ \A ids : Hits(u, ids) = Hits(t, ids)
          /\ \A k : Upto(u, k) = Upto(t, k)
          /\ IdsApart(u) <=> IdsApart(t)
      BY <3>6, SameArming
    <3>8. Traced(u, r)
      BY <3>5, <3>6, <3>7 DEF Traced, Stages
    <3> QED
      BY <3>1, <3>8
  <2> QED
    BY <2>1, <2>2
<1>5. Traced(Interpreted(t), r)
  <2>1. CASE t.active = "none"
    BY <2>1 DEF Interpreted
  <2>2. CASE t.active # "none"
    <3> DEFINE v == Counted(t, "interpreted_by_module", 1)
               u == [v EXCEPT !.active = "none"]
    <3>1. Interpreted(t) = u
      BY <2>2 DEF Interpreted
    <3>2. "interpreted_by_module" \in Stages /\ 1 \in Nat
      BY DEF Stages
    <3> HIDE DEF v
    <3>4. /\ v \in Tracer /\ (v.armed <=> t.armed) /\ v.tracked = t.tracked
          /\ v.count["interpreted_by_module"] = t.count["interpreted_by_module"] + 1
          /\ \A stage \in Stages :
               stage # "interpreted_by_module" => v.count[stage] = t.count[stage]
      BY <1>1, <3>2, CountedFields DEF v
    <3>5. /\ u \in Tracer /\ (u.armed <=> v.armed) /\ u.tracked = v.tracked
          /\ u.count = v.count /\ u.active = "none"
      BY <3>4 DEF Tracer
    <3> HIDE DEF u
    <3>6. /\ \A ids : Hits(u, ids) = Hits(t, ids)
          /\ \A k : Upto(u, k) = Upto(t, k)
          /\ IdsApart(u) <=> IdsApart(t)
      BY <3>4, <3>5, SameArming
    <3>7. u.count["interpreted_by_module"] + 0 <= u.count["dequeued_by_getevent"]
      BY <1>1, <1>2, <2>2, <3>4, <3>5 DEF Stages
    <3>8. Traced(u, r)
      BY <3>4, <3>5, <3>6, <3>7 DEF Traced, Stages
    <3> QED
      BY <3>1, <3>8
  <2> QED
    BY <2>1, <2>2
<1> QED
  BY <1>4, <1>5

-----------------------------------------------------------------------------
(* The steps of the traced run.                                            *)

Followed == InStep /\ Marked(reg) /\ Traced(tracer, reg)

\* What the refill leaves, to the tracer too.
LEMMA RefillTraced ==
  ASSUME Followed, Enqueueable(reg, Reals(Refilled.batch))
  PROVE  LET o    == Refilled
             full == OnEventsEnqueued(reg, Reals(o.batch))
         IN
         /\ Marked(full)
         /\ Traced(Enqueued(Announced(tracer, inj, o.inj), reg, full), full)
         /\ o.inj \in Injector /\ Sequenced(o.inj) /\ FetchedInOrder(o.inj, full)
<1> DEFINE o    == Refilled
           full == OnEventsEnqueued(reg, Reals(o.batch))
<1>1. InStep /\ Marked(reg) /\ Traced(tracer, reg) /\ inj \in Injector /\ Sequenced(inj)
  BY DEF Followed, InStep
<1>2. Outcome(inj, o, module, reg) /\ Joined(o.inj, full)
  BY <1>1, RefilledFacts
<1> HIDE DEF o
<1>3. Enqueueable(reg, Reals(o.batch))
  BY DEF o
<1>4. o.batch \in Seq(Event)
  BY <1>1, <1>2, OutcomeBatch
<1>5. Promoted(reg, full) /\ Marked(full)
  BY <1>1, <1>3, <1>4, EnqueuedMarks
<1>6. Traced(Announced(tracer, inj, o.inj), reg)
  BY <1>1, <1>2, AnnouncedTraced
<1>7. Traced(Enqueued(Announced(tracer, inj, o.inj), reg, full), full)
  BY <1>1, <1>5, <1>6, EnqueuedTraced
<1>8. o.inj \in Injector /\ Sequenced(o.inj)
  BY <1>2 DEF Outcome
<1>9. FetchedInOrder(o.inj, full)
  BY <1>2 DEF Joined
<1> QED
  BY <1>5, <1>7, <1>8, <1>9 DEF o

\* The steps of the tracer that are steps of the injector it observes.
LEMMA TraceIsSync ==
  ASSUME TraceNext
  PROVE  SyncNext \/ UNCHANGED syncVars
<1>1. CASE TracedTick \/ TracedFetch \/ TracedFetchAfterRefill
           \/ (\E a \in NotifyAddr : TracedAsks(a)) \/ TracedWaits \/ Untraced
  BY <1>1 DEF TraceNext, TracedTick, TracedFetch, TracedFetchAfterRefill,
              TracedAsks, TracedWaits, Untraced, SyncNext
<1>2. CASE GetEventReturns \/ KeyInterpreted \/ KeyHandled
  BY <1>2 DEF GetEventReturns, KeyInterpreted, KeyHandled, syncVars
<1> QED
  BY <1>1, <1>2 DEF TraceNext

\* Every step of the traced model keeps it.
LEMMA FollowedStep ==
  ASSUME Followed, [TraceNext]_traceVars
  PROVE  Followed'
<1>1. InStep /\ Marked(reg) /\ Traced(tracer, reg) /\ inj \in Injector /\ Sequenced(inj)
      /\ FetchedInOrder(inj, reg)
  BY DEF Followed, InStep, Joined
<1>2. CASE UNCHANGED traceVars
  <2>1. UNCHANGED syncVars /\ reg' = reg /\ tracer' = tracer
    BY <1>2 DEF traceVars, syncVars
  <2>2. InStep'
    BY <1>1, <2>1, SyncedStep
  <2> QED
    BY <1>1, <2>1, <2>2 DEF Followed
<1>3. CASE TraceNext
  <2>1. InStep'
    BY <1>1, <1>3, TraceIsSync, SyncedStep
  <2> SUFFICES Marked(reg') /\ Traced(tracer', reg')
    BY <2>1 DEF Followed
  <2>2. CASE TracedTick
    <3>1. /\ Enqueueable(reg, Reals(Refilled.batch))
          /\ reg' = OnEventsEnqueued(reg, Reals(Refilled.batch))
          /\ inj' = Refilled.inj
          /\ tracer' = Enqueued(Announced(tracer, inj, inj'), reg, reg')
      BY <2>2 DEF TracedTick, Tick, ProduceTick
    <3> QED
      BY <3>1, RefillTraced
  <2>3. CASE TracedFetch
    <3>1. /\ reg' = IF Head(q) = Null THEN reg ELSE OnEventConsumed(reg)
          /\ tracer' = Delivery(tracer, Head(q), reg, inj)
      BY <2>3 DEF TracedFetch, Fetch, GetEvent, Delivered
    <3> QED
      BY <1>1, <3>1, DeliveryTraced
  <2>4. CASE TracedFetchAfterRefill
    <3>1. CASE Refilled.batch = <<>>
      <4>1. tracer' = tracer /\ reg' = reg
        BY <2>4, <3>1 DEF TracedFetchAfterRefill, FetchAfterRefill,
                          GetEventAfterRefill, GetEventStarved
      <4> QED
        BY <1>1, <4>1
    <3>2. CASE Refilled.batch # <<>>
      <4> DEFINE o    == Refilled
                 full == OnEventsEnqueued(reg, Reals(o.batch))
                 t    == Enqueued(Announced(tracer, inj, o.inj), reg, full)
      <4>1. /\ Enqueueable(reg, Reals(o.batch))
            /\ reg' = IF Head(o.batch) = Null THEN full ELSE OnEventConsumed(full)
            /\ tracer' = Delivery(t, Head(o.batch), full, o.inj)
        BY <2>4, <3>2 DEF TracedFetchAfterRefill, FetchAfterRefill,
                          GetEventAfterRefill, GetEventStarved, Delivered
      <4>2. /\ Marked(full) /\ Traced(t, full)
            /\ o.inj \in Injector /\ Sequenced(o.inj) /\ FetchedInOrder(o.inj, full)
        BY <4>1, RefillTraced
      <4> HIDE DEF o, full, t
      <4> QED
        BY <4>1, <4>2, DeliveryTraced
    <3> QED
      BY <3>1, <3>2
  <2>5. CASE \E a \in NotifyAddr : TracedAsks(a)
    <3>1. PICK a \in NotifyAddr : TracedAsks(a)
      BY <2>5
    <3>2. /\ a \in StatusAddr /\ Registrable(reg)
          /\ reg' = RegisterRequest(reg, a)
          /\ tracer' = Enqueued(tracer, reg, reg')
      BY <3>1, AsyncAssumption DEF TracedAsks, Asks, Notify
    <3>3. Promoted(reg, reg') /\ Marked(reg')
      BY <1>1, <3>2, RegisteredMarks
    <3> QED
      BY <1>1, <3>2, <3>3, EnqueuedTraced
  <2>6. CASE TracedWaits
    <3>1. reg' = WaitForAnyRequest(reg) /\ tracer' = Woken(tracer, reg)
      BY <2>6 DEF TracedWaits, Waits, Wait
    <3> QED
      BY <1>1, <3>1, WokenTraced
  <2>7. CASE GetEventReturns
    <3>1. reg' = reg /\ tracer' = Returned(tracer, hand.scan)
      BY <2>7 DEF GetEventReturns
    <3> QED
      BY <1>1, <3>1, HandledTraced
  <2>8. CASE KeyInterpreted
    <3>1. reg' = reg /\ tracer' = Interpreted(tracer)
      BY <2>8 DEF KeyInterpreted
    <3> QED
      BY <1>1, <3>1, HandledTraced
  <2>9. CASE KeyHandled
    BY <1>1, <2>9 DEF KeyHandled
  <2>10. CASE Untraced
    <3>1. reg' = reg /\ tracer' = tracer
      BY <2>10 DEF Untraced, EntersModule, Elapse
    <3> QED
      BY <1>1, <3>1
  <2> QED
    BY <1>3, <2>2, <2>3, <2>4, <2>5, <2>6, <2>7, <2>8, <2>9, <2>10 DEF TraceNext
<1> QED
  BY <1>2, <1>3

\* The traced model starts with it.
LEMMA FollowedStart == TraceInit => Followed
<1> SUFFICES ASSUME TraceInit
             PROVE  Followed
  OBVIOUS
<1>1. InStep /\ reg = EmptyRegistry
  BY SyncedStart DEF TraceInit, SyncInit, Init
<1>2. Promised(reg) /\ Numbered(reg)
  BY <1>1, JoinedNumbered DEF InStep, Joined, Mirrored, Promised
<1>3. WakesOwned(reg) /\ WakeEvents(reg) = {}
  <2>1. reg.wakeLog = <<>> /\ reg.requests = [i \in RequestId |-> Absent]
    BY <1>1 DEF EmptyRegistry
  <2> QED
    BY <2>1 DEF WakesOwned, WakeEvents, Absent
<1>4. Marked(reg)
  BY <1>2, <1>3 DEF Marked
<1>5. tracer = TracerStart
  BY DEF TraceInit
<1>6. /\ tracer \in Tracer /\ ~tracer.armed /\ tracer.active = "none"
      /\ \A s \in Stages : tracer.count[s] = 0
  BY <1>5 DEF TracerStart, Tracer
<1>7. (\A ids : Hits(tracer, ids) = 0) /\ (\A n : Upto(tracer, n) = 0)
  BY <1>6, Unarmed
<1>8. Traced(tracer, reg)
  BY <1>6, <1>7 DEF Traced, Stages
<1> QED
  BY <1>1, <1>4, <1>8 DEF Followed

\* It holds in every reachable state.
LEMMA FollowedInvariant == TraceSpec => []Followed
<1>1. Followed /\ [TraceNext]_traceVars => Followed'
  BY FollowedStep
<1> QED
  BY <1>1, FollowedStart, PTL DEF TraceSpec

\* The tracer, the injector and the registry agree about the tracked key: what
\* the tracer counted as dequeued is what it heard acknowledged, and what it
\* counted as enqueued and not dequeued is what the ledger holds of the key.
THEOREM ObserversAgreeHolds == TraceSpec => []ObserversAgree
<1>1. ASSUME Followed
      PROVE  ObserversAgree
  <2> DEFINE t == tracer
             r == reg
             queued == {e.id : e \in ToSet(r.eventFifo)}
             f == Fetched(r)
             N == r.nextEvent
             L == Len(r.eventFifo)
  <2>1. Marked(r) /\ Traced(t, r) /\ r \in Registry(RealEvent) /\ Ledgered(r) /\ Numbered(r)
    BY <1>1 DEF Followed, Marked, Promised
  <2>2. f \in Nat /\ L \in Nat /\ N \in Nat \ {0} /\ f + L = N - 1
    BY <2>1, MarksOrdered
  <2>3. DOMAIN r.eventFifo = 1..L /\ \A p \in 1..L : r.eventFifo[p].id = f + p
    BY <2>1, Elements DEF Numbered
  <2>4. queued = {r.eventFifo[p].id : p \in 1..L}
    BY <2>3 DEF ToSet
  <2> HIDE DEF queued, f, N, L
  <2>5. queued = (f + 1)..(N - 1)
    <3>1. ASSUME NEW x \in queued
          PROVE  x \in (f + 1)..(N - 1)
      BY <2>2, <2>3, <2>4
    <3>2. ASSUME NEW x \in (f + 1)..(N - 1)
          PROVE  x \in queued
      <4>1. x - f \in 1..L /\ f + (x - f) = x
        BY <2>2
      <4>2. r.eventFifo[x - f].id = x
        BY <2>3, <4>1
      <4> QED
        BY <2>4, <4>1, <4>2
    <3> QED
      BY <3>1, <3>2
  <2>6. /\ Upto(t, N - 1) = Upto(t, f) + Hits(t, (f + 1)..(N - 1))
        /\ Upto(t, f) \in Nat /\ Hits(t, (f + 1)..(N - 1)) \in Nat
    <3>1. N - 1 \in Nat /\ f <= N - 1
      BY <2>2
    <3> QED
      BY <2>2, <3>1, UptoGrows, SMTT(30)
  <2>7. /\ t.count["enqueued"] = Upto(t, N - 1)
        /\ t.count["dequeued_by_getevent"] = Upto(t, f)
        /\ t.count["injector_acknowledged"] = Upto(t, f)
    BY <2>1 DEF Traced, N, f
  <2>8. t.count["enqueued"] - t.count["dequeued_by_getevent"] = Hits(t, queued)
    BY <2>5, <2>6, <2>7
  <2> QED
    BY <2>7, <2>8 DEF ObserversAgree, Hits, queued
<1> QED
  BY <1>1, FollowedInvariant, PTL

\* No stage outruns the one before it.
THEOREM StagesNestHolds == TraceSpec => []StagesNest
<1>1. ASSUME Followed
      PROVE  StagesNest
  <2> DEFINE t == tracer
             r == reg
             f == Fetched(r)
             b == Backed(r)
             N == r.nextEvent
             ws == Hits(t, WakeEvents(r))
  <2>1. Marked(r) /\ Traced(t, r) /\ r \in Registry(RealEvent) /\ Ledgered(r) /\ Numbered(r)
    BY <1>1 DEF Followed, Marked, Promised
  <2>2. f \in Nat /\ b \in Nat /\ N \in Nat \ {0} /\ f <= b /\ b <= N - 1
    BY <2>1, MarksOrdered
  <2>3. ws \in 0..3
    BY HitsCount
  <2>4. /\ t.count["generated"] \in Nat
        /\ t.count["enqueued"] \in Nat
        /\ t.count["eventready_completed"] \in Nat
        /\ t.count["wait_woken"] \in Nat
        /\ t.count["dequeued_by_getevent"] \in Nat
        /\ t.count["interpreted_by_module"] \in Nat
    BY <2>1, TracedCounts
  <2>5. /\ t.armed => t.count["generated"] >= 3
        /\ t.count["enqueued"] = Upto(t, N - 1)
        /\ t.count["dequeued_by_getevent"] = Upto(t, f)
        /\ t.count["eventready_completed"] <= Upto(t, b)
        /\ t.count["wait_woken"] + ws <= t.count["eventready_completed"]
        /\ t.count["interpreted_by_module"] + (IF t.active = "none" THEN 0 ELSE 1)
             <= t.count["dequeued_by_getevent"]
    BY <2>1 DEF Traced
  <2> HIDE DEF f, b, N, ws
  <2>6. /\ Upto(t, f) \in 0..3 /\ Upto(t, b) \in 0..3 /\ Upto(t, N - 1) \in 0..3
        /\ Upto(t, f) <= Upto(t, b) /\ Upto(t, b) <= Upto(t, N - 1)
    <3>1. N - 1 \in Nat
      BY <2>2
    <3> QED
      BY <2>2, <3>1, UptoGrows
  <2>7. ~t.armed => Upto(t, N - 1) = 0
    BY Unarmed
  <2>8. /\ t.count["enqueued"] <= t.count["generated"] /\ t.count["enqueued"] <= 3
    BY <2>4, <2>5, <2>6, <2>7
  <2>9. /\ t.count["eventready_completed"] <= t.count["enqueued"]
        /\ t.count["dequeued_by_getevent"] <= t.count["enqueued"]
    BY <2>4, <2>5, <2>6
  <2>10. /\ t.count["wait_woken"] <= t.count["eventready_completed"]
         /\ t.count["interpreted_by_module"] <= t.count["dequeued_by_getevent"]
    BY <2>3, <2>4, <2>5
  <2> QED
    BY <2>8, <2>9, <2>10 DEF StagesNest
<1> QED
  BY <1>1, FollowedInvariant, PTL

-----------------------------------------------------------------------------
(* An interpretation belongs to the tracked event in hand.                 *)

\* No navigation key is left once a phase key was sent.
NavDone(i) ==
  /\ i.idx > 0 \/ i.origin = "phase" \/ i.state = "WAIT_PHASE_BOUNDARY" => i.nav = <<>>
  /\ i.origin = "none" => i.state \notin {"AWAITING_CONSUMPTION", "AWAITING_NEW_PENDING"}

\* Sending a burst leaves the navigation keys alone.
LEMMA SentNav ==
  ASSUME NEW j \in Injector, NEW origin \in {"nav", "phase"}, NEW s, NEW hold, NEW next
  PROVE  LET k == Sent(j, origin, s, hold, next).inj IN
         /\ k.nav = j.nav /\ k.origin = origin
         /\ k.state = "AWAITING_CONSUMPTION"
         /\ k.idx = IF origin = "phase" THEN j.idx + 1 ELSE j.idx
  BY DEF Sent, InFlight, Injector

\* Nor does a call of refill in READY bring one back.
LEMMA ReadyNav ==
  ASSUME NEW j \in Injector, j.idx <= MaxKeys, j.nav = <<>>, NEW next \in Nat
  PROVE  NavDone(Ready(j, next).inj)
<1> DEFINE o == Ready(j, next)
<1> HIDE DEF o
<1>1. \/ \E s \in {"SINGLE_KEY_HALT", "DONE", "WAIT_PHASE_BOUNDARY"} :
           o.inj = [j EXCEPT !.state = s]
      \/ \E hold \in {KeyHold, FirstKeyHold} :
           o = Sent(j, "phase", Keys[j.idx + 1], hold, next)
  BY ReadyKinds DEF o
<1>2. CASE \E s \in {"SINGLE_KEY_HALT", "DONE", "WAIT_PHASE_BOUNDARY"} :
             o.inj = [j EXCEPT !.state = s]
  <2>1. o.inj.nav = <<>> /\ o.inj.state \notin {"AWAITING_CONSUMPTION", "AWAITING_NEW_PENDING"}
    BY <1>2 DEF Injector
  <2> QED
    BY <2>1 DEF NavDone, o
<1>3. CASE \E hold \in {KeyHold, FirstKeyHold} :
             o = Sent(j, "phase", Keys[j.idx + 1], hold, next)
  <2>1. o.inj.nav = <<>> /\ o.inj.origin = "phase"
    BY <1>3, SentNav
  <2> QED
    BY <2>1 DEF NavDone, o
<1> QED
  BY <1>1, <1>2, <1>3

\* No call of refill does, in any state of the injector.
LEMMA RefillNav ==
  ASSUME NEW i \in Injector, Sequenced(i), NavDone(i), NEW mod \in Modules, NEW r,
         r.nextEvent \in Nat
  PROVE  NavDone(Called(i, mod, r).inj)
<1> DEFINE o    == Called(i, mod, r)
           next == r.nextEvent
<1> SUFFICES NavDone(o.inj)
  OBVIOUS
<1>8. o = Called(i, mod, r)
  OBVIOUS
<1> HIDE DEF o
<1>1. i.idx <= MaxKeys /\ i.state \in States /\ i.state # "READY"
      /\ i.nav \in Seq(Scan) /\ i.idx \in Nat
  BY FieldTypes DEF Sequenced
<1>2. CASE i.stalled \/ i.state \in {"SINGLE_KEY_HALT", "DONE"}
           \/ (i.state = "WAIT_MODULE5" /\ mod # "module5")
           \/ (i.state = "WAIT_PHASE_BOUNDARY" /\ ~(mod = "module28" /\ AnyPending(r)))
  <2>1. o.inj = i
    BY <1>2, <1>8 DEF Called, Refill, Advance, Idle
  <2> QED
    BY <2>1
\* READY is reached with no navigation key left.
<1>3. ASSUME NEW j \in Injector, j.idx = i.idx, j.nav = <<>>, o = Ready(j, next)
      PROVE  NavDone(o.inj)
  <2> HIDE DEF next
  <2>1. next \in Nat
    BY DEF next
  <2> QED
    BY <1>1, <1>3, <2>1, ReadyNav
<1>4. CASE ~i.stalled /\ ((i.state = "WAIT_MODULE5" /\ mod = "module5") \/ i.state = "NAV_READY")
  <2> DEFINE j == [i EXCEPT !.state = "NAV_READY"]
             k == [j EXCEPT !.state = "READY"]
             m == [j EXCEPT !.nav = Tail(i.nav)]
  <2>1. o = NavReady(j, next)
    BY <1>4, <1>8 DEF Called, Refill, Advance, Injector
  <2>2. /\ j \in Injector /\ j.nav = i.nav /\ j.idx = i.idx
        /\ k \in Injector /\ k.nav = i.nav /\ k.idx = i.idx
    BY DEF Injector, States
  <2>3. CASE i.nav = <<>>
    <3>1. o = Ready(k, next)
      BY <2>1, <2>2, <2>3 DEF NavReady
    <3> HIDE DEF k
    <3> QED
      BY <1>3, <2>2, <2>3, <3>1
  <2>4. CASE i.nav # <<>>
    <3>1. Tail(i.nav) \in Seq(Scan)
      BY <1>1, <2>4
    <3>2. m \in Injector /\ m.idx = i.idx
      BY <2>2, <3>1 DEF Injector
    <3>3. o = Sent(m, "nav", Head(i.nav), KeyHold, next)
      BY <2>1, <2>2, <2>4 DEF NavReady
    <3> HIDE DEF m
    <3>4. o.inj.idx = i.idx /\ o.inj.origin = "nav" /\ o.inj.state = "AWAITING_CONSUMPTION"
      BY <3>2, <3>3, SentNav
    <3>5. ~(i.idx > 0)
      BY <2>4 DEF NavDone
    <3> QED
      BY <3>4, <3>5 DEF NavDone
  <2> QED
    BY <2>3, <2>4
<1>5. CASE ~i.stalled /\ i.state = "WAIT_PHASE_BOUNDARY" /\ mod = "module28" /\ AnyPending(r)
  <2> DEFINE j == [i EXCEPT !.state = "READY", !.boundary = TRUE]
  <2>1. o = Ready(j, next)
    BY <1>5, <1>8 DEF Called, Refill, Advance
  <2>2. j \in Injector /\ j.idx = i.idx /\ j.nav = <<>>
    BY <1>5 DEF Injector, States, NavDone
  <2> HIDE DEF j
  <2> QED
    BY <1>3, <2>1, <2>2
<1>6. CASE ~i.stalled /\ i.state = "AWAITING_CONSUMPTION"
  <2>1. o = AwaitConsumption(i)
    BY <1>6, <1>8 DEF Called, Refill, Advance
  <2> DEFINE late == ConsumptionDeadline(i) < 0
  <2>2. \/ o.inj = [i EXCEPT !.released = TRUE]
        \/ o.inj = [i EXCEPT !.stalled = late]
    BY <2>1 DEF AwaitConsumption, Idle
  <2> HIDE DEF late
  <2>3. /\ o.inj.nav = i.nav /\ o.inj.idx = i.idx /\ o.inj.origin = i.origin
        /\ o.inj.state = i.state
    BY <2>2 DEF Injector
  <2> QED
    BY <2>3 DEF NavDone
<1>7. CASE ~i.stalled /\ i.state = "AWAITING_NEW_PENDING"
  <2>1. o = AwaitNewPending(i, AnyPending(r), next)
    BY <1>7, <1>8 DEF Called, Refill, Advance
  <2>2. CASE AnyPending(r) /\ i.nextAt <= 0 /\ i.scanSeen /\ i.origin = "nav"
    <3>1. o.inj = [i EXCEPT !.state = "NAV_READY"]
      BY <2>1, <2>2 DEF AwaitNewPending
    <3>2. /\ o.inj.nav = i.nav /\ o.inj.idx = i.idx /\ o.inj.origin = i.origin
          /\ o.inj.state = "NAV_READY"
      BY <3>1 DEF Injector
    <3> QED
      BY <3>2 DEF NavDone
  <2>3. CASE AnyPending(r) /\ i.nextAt <= 0 /\ i.scanSeen /\ i.origin # "nav"
    <3> DEFINE j == [i EXCEPT !.state = "READY"]
    <3>1. o = Ready(j, next)
      BY <2>1, <2>3 DEF AwaitNewPending
    <3>2. i.origin = "phase"
      BY <1>7, <2>3 DEF NavDone, Injector
    <3>3. j \in Injector /\ j.idx = i.idx /\ j.nav = <<>>
      BY <3>2 DEF Injector, States, NavDone
    <3> HIDE DEF j
    <3> QED
      BY <1>3, <3>1, <3>3
  <2>4. CASE ~(AnyPending(r) /\ i.nextAt <= 0 /\ i.scanSeen)
    <3> DEFINE late == Later(i.nextAt, i.closedAt + StallBudget) < 0 /\ ~AnyPending(r)
    <3>1. o.inj = [i EXCEPT !.stalled = late]
      BY <2>1, <2>4 DEF AwaitNewPending, Idle
    <3> HIDE DEF late
    <3>2. /\ o.inj.nav = i.nav /\ o.inj.idx = i.idx /\ o.inj.origin = i.origin
          /\ o.inj.state = i.state
      BY <3>1 DEF Injector
    <3> QED
      BY <3>2 DEF NavDone
  <2> QED
    BY <2>2, <2>3, <2>4
<1> QED
  BY <1>1, <1>2, <1>4, <1>5, <1>6, <1>7 DEF States

\* Nor does an acknowledgement of a consumed event.
LEMMA ConsumedNav ==
  ASSUME NEW i \in Injector, NavDone(i), NEW id
  PROVE  NavDone(Consumed(i, id))
<1> DEFINE j == Consumed(i, id)
<1>1. /\ j.nav = i.nav /\ j.idx = i.idx /\ j.origin = i.origin
      /\ j.state = i.state \/ (i.state = "AWAITING_CONSUMPTION" /\ j.state = "AWAITING_NEW_PENDING")
  BY DEF Consumed, Injector
<1> HIDE DEF j
<1> QED
  BY <1>1 DEF NavDone, j

\* What matters of the tracer for an interpretation.
SameDispatch(t, u) ==
  /\ u.armed <=> t.armed
  /\ u.tracked = t.tracked
  /\ u.active = t.active
  /\ u.count["interpreted_by_module"] = t.count["interpreted_by_module"]

\* Enqueuing and completion do not touch what is being dispatched.
LEMMA EnqueuedSame ==
  ASSUME NEW t \in Tracer, NEW r, NEW s
  PROVE  SameDispatch(t, Enqueued(t, r, s))
<1> DEFINE m == Hits(t, r.nextEvent..(s.nextEvent - 1))
           k == Hits(t, NewlyBacked(r, s))
           u == Counted(t, "enqueued", m)
           v == Counted(u, "eventready_completed", k)
<1>1. Enqueued(t, r, s) = v
  BY DEF Enqueued, NewlyBacked, Hits
<1>2. m \in Nat /\ k \in Nat
  BY HitsCount
<1>3. "enqueued" \in Stages /\ "eventready_completed" \in Stages
  BY DEF Stages
<1> HIDE DEF m, k
<1>4. /\ u \in Tracer /\ (u.armed <=> t.armed) /\ u.tracked = t.tracked /\ u.active = t.active
      /\ \A stage \in Stages : stage # "enqueued" => u.count[stage] = t.count[stage]
  BY <1>2, <1>3, CountedFields
<1> HIDE DEF u
<1>5. /\ (v.armed <=> u.armed) /\ v.tracked = u.tracked /\ v.active = u.active
      /\ \A stage \in Stages : stage # "eventready_completed" => v.count[stage] = u.count[stage]
  BY <1>2, <1>3, <1>4, CountedFields
<1> HIDE DEF v
<1> QED
  BY <1>1, <1>4, <1>5 DEF SameDispatch, Stages

\* Nor does a wake.
LEMMA WokenSame ==
  ASSUME NEW t \in Tracer, NEW r
  PROVE  SameDispatch(t, Woken(t, r))
<1>1. CASE r.signalCount = 0 \/ r.wakeLog = <<>>
  BY <1>1 DEF Woken, SameDispatch
<1>2. CASE ~(r.signalCount = 0 \/ r.wakeLog = <<>>)
  <2> DEFINE n == Hits(t, {r.requests[Head(r.wakeLog)].event})
             u == Counted(t, "wait_woken", n)
  <2>1. Woken(t, r) = u
    BY <1>2 DEF Woken, Hits
  <2>2. n \in Nat /\ "wait_woken" \in Stages
    BY HitsCount DEF Stages
  <2> HIDE DEF n
  <2>3. /\ (u.armed <=> t.armed) /\ u.tracked = t.tracked /\ u.active = t.active
        /\ \A stage \in Stages : stage # "wait_woken" => u.count[stage] = t.count[stage]
    BY <2>2, CountedFields
  <2> HIDE DEF u
  <2> QED
    BY <2>1, <2>3 DEF SameDispatch, Stages
<1> QED
  BY <1>1, <1>2

\* The first phase key with the tracked scan code arms the tracer; nothing
\* else does.
LEMMA AnnouncedSame ==
  ASSUME NEW t \in Tracer, NEW i, NEW j, j.ids \in [Roles -> Nat],
         NEW u, u = Announced(t, i, j)
  PROVE  /\ t.armed \/ j.idx = i.idx \/ j.scan # Tracked => SameDispatch(t, u)
         /\ ~t.armed /\ j.idx # i.idx /\ j.scan = Tracked =>
              /\ u.armed /\ u.tracked = j.ids /\ u.active = t.active
              /\ u.count["interpreted_by_module"] = t.count["interpreted_by_module"]
         /\ u \in Tracer
<1>1. CASE j.idx = i.idx \/ j.scan # Tracked
  <2>1. u = t
    BY <1>1 DEF Announced, KeyGenerated, Armed
  <2> QED
    BY <1>1, <2>1 DEF SameDispatch
<1>2. CASE j.idx # i.idx /\ j.scan = Tracked
  <2> DEFINE a == Armed(t, j.ids, j.scan)
  <2>1. u = Counted(a, "generated", 3)
    BY <1>2 DEF Announced, KeyGenerated
  <2>2. "generated" \in Stages /\ 3 \in Nat
    BY DEF Stages
  <2>3. CASE t.armed
    <3>1. a = t
      BY <2>3 DEF Armed
    <3>2. /\ u \in Tracer /\ (u.armed <=> t.armed) /\ u.tracked = t.tracked /\ u.active = t.active
          /\ \A stage \in Stages : stage # "generated" => u.count[stage] = t.count[stage]
      BY <2>1, <2>2, <3>1, CountedFields
    <3> QED
      BY <2>3, <3>2 DEF SameDispatch, Stages
  <2>4. CASE ~t.armed
    <3>1. a = [t EXCEPT !.armed = TRUE, !.tracked = j.ids]
      BY <1>2, <2>4 DEF Armed
    <3>2. /\ a \in Tracer /\ a.armed /\ a.tracked = j.ids
          /\ a.count = t.count /\ a.active = t.active
      BY <3>1 DEF Tracer
    <3> HIDE DEF a
    <3>3. /\ u \in Tracer /\ (u.armed <=> a.armed) /\ u.tracked = a.tracked /\ u.active = a.active
          /\ \A stage \in Stages : stage # "generated" => u.count[stage] = a.count[stage]
      BY <2>1, <2>2, <3>2, CountedFields
    <3> QED
      BY <1>2, <2>4, <3>2, <3>3 DEF Stages
  <2> QED
    BY <2>3, <2>4
<1> QED
  BY <1>1, <1>2

Hand == [type : {"NULL", "KEY", "KEY_DOWN", "KEY_UP"}, scan : Scan \cup {"none"}, id : Nat]

FirstTracked(n) ==
  n \in 1..Len(Keys) /\ Keys[n] = Tracked /\ \A m \in 1..(n - 1) : Keys[m] # Tracked

\* The tracer is armed with the ids of the first tracked key, and every key
\* sent after it has ids above them.
ArmedFor(t, i, r) ==
  /\ ~t.armed => \A m \in 1..i.idx : Keys[m] # Tracked
  /\ t.armed =>
       /\ \A role \in Roles : t.tracked[role] <= t.tracked["up"]
       /\ i.ids = t.tracked => FirstTracked(i.idx)
       /\ i.ids # t.tracked => t.tracked["up"] < i.ids["down"]
       /\ i.ids # t.tracked \/ i.state # "AWAITING_CONSUMPTION" =>
            t.tracked["up"] < r.nextEvent

\* A dispatch of the tracked key still open when the next key is in flight
\* ends with the return of that key's first event.
Passed(t, i, h, a) ==
  t.active # "none" /\ i.ids # t.tracked =>
    /\ i.scan # Tracked
    /\ i.state = "AWAITING_CONSUMPTION"
    /\ \/ i.consumed = {}
       \/ i.consumed = {"down"} /\ a = "returned" /\ h.scan # Tracked

\* While the dispatch is open, a returned tracked key is the very event.
InHand(t, h, a) ==
  t.active # "none" =>
    /\ a # "polling" /\ h.type # "NULL" /\ h.scan = Tracked => t.tracked[t.active] = h.id
    /\ a = "key" => h.type # "NULL" /\ h.scan = Tracked

Dispatching(t, i, r, h, a) ==
  h \in Hand /\ ArmedFor(t, i, r) /\ Passed(t, i, h, a) /\ InHand(t, h, a)

\* It does not depend on the rest of the tracer, nor on the clocks.
LEMMA SameDispatching ==
  ASSUME NEW t, NEW i, NEW r, NEW h, NEW a, Dispatching(t, i, r, h, a),
         NEW u, SameDispatch(t, u),
         t.armed => t.tracked["up"] \in Nat,
         NEW j, j.ids = i.ids, j.idx = i.idx, j.scan = i.scan,
         j.consumed = i.consumed,
         j.state = "AWAITING_CONSUMPTION" <=> i.state = "AWAITING_CONSUMPTION",
         NEW s, r.nextEvent \in Nat, s.nextEvent \in Nat, r.nextEvent <= s.nextEvent
  PROVE  Dispatching(u, j, s, h, a)
<1>1. ArmedFor(u, j, s)
  <2>1. t.armed /\ t.tracked["up"] < r.nextEvent => t.tracked["up"] < s.nextEvent
    OBVIOUS
  <2> QED
    BY <2>1 DEF Dispatching, ArmedFor, SameDispatch
<1>2. Passed(u, j, h, a) /\ InHand(u, h, a)
  BY DEF Dispatching, Passed, InHand, SameDispatch
<1> QED
  BY <1>1, <1>2 DEF Dispatching

\* A tracer with an open dispatch is armed.
LEMMA OpenIsArmed ==
  ASSUME NEW t, NEW r, Traced(t, r), t.active # "none"
  PROVE  t.armed /\ t.active \in Roles
<1>1. /\ t.count["interpreted_by_module"] \in Nat
      /\ t.count["dequeued_by_getevent"] \in Nat
      /\ t.active \in Roles \cup {"none"}
  BY TracedCounts
<1>2. t.count["interpreted_by_module"] + 1 <= t.count["dequeued_by_getevent"]
  BY DEF Traced
<1>3. t.count["dequeued_by_getevent"] = Upto(t, Fetched(r))
  BY DEF Traced
<1>4. ~t.armed => Upto(t, Fetched(r)) = 0
  BY Unarmed
<1> QED
  BY <1>1, <1>2, <1>3, <1>4

\* A refill keeps all of this.
LEMMA RefillDispatching ==
  ASSUME NEW t, NEW r, Marked(r), Traced(t, r), r.nextEvent \in Nat,
         NEW i \in Injector, Sequenced(i), NavDone(i),
         NEW h, NEW a, Dispatching(t, i, r, h, a),
         NEW o, NEW mod, Outcome(i, o, mod, r),
         NEW s, s.nextEvent \in Nat, r.nextEvent <= s.nextEvent,
         NEW u, u = Enqueued(Announced(t, i, o.inj), r, s)
  PROVE  /\ Dispatching(u, o.inj, s, h, a)
         /\ u.count["interpreted_by_module"] = t.count["interpreted_by_module"]
<1> DEFINE j == o.inj
           v == Announced(t, i, j)
<1>1. t \in Tracer /\ t.tracked \in [Roles -> Nat] /\ "up" \in Roles /\ "down" \in Roles
  BY TracedCounts DEF Roles
<1>2. j \in Injector /\ Sequenced(j)
  BY DEF Outcome
<1>3. j.ids \in [Roles -> Nat] /\ i.ids \in [Roles -> Nat] /\ i.idx \in Nat
      /\ j.idx \in Nat /\ j.idx <= Len(Keys)
  BY <1>2, FieldTypes
<1>4. Rests(i, o, r) \/ Releases(i, o) \/ Sends(i, o, mod, r)
  BY DEF Outcome
<1> HIDE DEF j
<1>5. /\ t.armed \/ j.idx = i.idx \/ j.scan # Tracked => SameDispatch(t, v)
      /\ ~t.armed /\ j.idx # i.idx /\ j.scan = Tracked =>
           /\ v.armed /\ v.tracked = j.ids /\ v.active = t.active
           /\ v.count["interpreted_by_module"] = t.count["interpreted_by_module"]
      /\ v \in Tracer
  BY <1>1, <1>3, AnnouncedSame
<1>6. u = Enqueued(v, r, s)
  BY DEF v, j
<1> HIDE DEF v
<1>7. SameDispatch(v, u)
  BY <1>5, <1>6, EnqueuedSame
<1>8. u.count["interpreted_by_module"] = t.count["interpreted_by_module"]
  BY <1>5, <1>7 DEF SameDispatch
<1>9. CASE Rests(i, o, r) \/ Releases(i, o)
  <2>1. /\ j.ids = i.ids /\ j.idx = i.idx /\ j.scan = i.scan /\ j.consumed = i.consumed
        /\ j.state = "AWAITING_CONSUMPTION" <=> i.state = "AWAITING_CONSUMPTION"
    BY <1>9 DEF Rests, Releases, Injector, j
  <2>2. SameDispatch(t, u)
    BY <1>5, <1>7, <2>1 DEF SameDispatch
  <2>3. t.armed => t.tracked["up"] \in Nat
    BY <1>1
  <2>4. Dispatching(u, j, s, h, a)
    BY <2>1, <2>2, <2>3, SameDispatching
  <2> QED
    BY <1>8, <2>4 DEF j
<1>10. CASE Sends(i, o, mod, r)
  <2>1. /\ i.state # "AWAITING_CONSUMPTION" /\ j.state = "AWAITING_CONSUMPTION"
        /\ j.ids["down"] = r.nextEvent
        /\ j.ids["key"] = r.nextEvent + 1
        /\ j.ids["up"] = r.nextEvent + 2
        /\ j.consumed = {}
        /\ \/ i.nav # <<>> /\ j.idx = i.idx
           \/ j.idx = i.idx + 1 /\ j.scan = Keys[i.idx + 1]
    BY <1>10 DEF Sends, j
  <2>2. i.idx > 0 => j.idx = i.idx + 1 /\ j.scan = Keys[i.idx + 1]
    BY <2>1 DEF NavDone
  <2>3. j.idx # i.idx => j.idx = i.idx + 1 /\ j.scan = Keys[j.idx]
    BY <1>3, <2>1
  <2>4. h \in Hand /\ ArmedFor(t, i, r) /\ Passed(t, i, h, a) /\ InHand(t, h, a)
    BY DEF Dispatching
  <2>5. CASE t.armed
    <3>1. SameDispatch(t, u)
      BY <1>5, <1>7, <2>5 DEF SameDispatch
    <3>2. t.tracked["up"] < r.nextEvent
      BY <2>1, <2>4, <2>5 DEF ArmedFor
    <3>3. j.ids # t.tracked /\ t.tracked["up"] < j.ids["down"] /\ t.tracked["up"] < s.nextEvent
      BY <1>1, <2>1, <3>2
    <3>4. ArmedFor(u, j, s)
      BY <2>4, <2>5, <3>1, <3>3 DEF ArmedFor, SameDispatch
    <3>5. t.active # "none" => j.scan # Tracked
      <4> SUFFICES ASSUME t.active # "none"
                   PROVE  j.scan # Tracked
        OBVIOUS
      <4>1. i.ids = t.tracked
        BY <2>1, <2>4 DEF Passed
      <4>2. FirstTracked(i.idx)
        BY <2>4, <2>5, <4>1 DEF ArmedFor
      <4>3. i.idx > 0 /\ i.idx \in 1..Len(Keys)
        BY <4>2, Measures DEF FirstTracked
      <4>4. j.idx = i.idx + 1 /\ j.scan = Keys[i.idx + 1]
        BY <2>2, <4>3
      <4>5. i.idx \in 1..(Len(Keys) - 1)
        BY <1>3, <4>3, <4>4, Measures
      <4> QED
        BY <4>2, <4>4, <4>5, FirstTrackedAssumption DEF FirstTracked
    <3>6. Passed(u, j, h, a) /\ InHand(u, h, a)
      BY <2>1, <2>4, <3>1, <3>5 DEF Passed, InHand, SameDispatch
    <3> QED
      BY <1>8, <2>4, <3>4, <3>6 DEF Dispatching, j
  <2>6. CASE ~t.armed
    <3>1. t.active = "none" /\ u.active = "none"
      BY <1>5, <1>7, <2>6, OpenIsArmed DEF SameDispatch
    <3>2. Passed(u, j, h, a) /\ InHand(u, h, a)
      BY <3>1 DEF Passed, InHand
    <3>3. \A m \in 1..i.idx : Keys[m] # Tracked
      BY <2>4, <2>6 DEF ArmedFor
    <3>4. CASE j.idx # i.idx /\ j.scan = Tracked
      <4>1. u.armed /\ u.tracked = j.ids
        BY <1>5, <1>7, <2>6, <3>4 DEF SameDispatch
      <4>2. FirstTracked(j.idx)
        <5>1. j.idx \in 1..Len(Keys) /\ Keys[j.idx] = Tracked /\ j.idx - 1 = i.idx
          BY <1>3, <2>3, <3>4, Measures
        <5> QED
          BY <3>3, <5>1 DEF FirstTracked
      <4>3. \A role \in Roles : j.ids[role] <= j.ids["up"]
        BY <2>1 DEF Roles
      <4>4. ArmedFor(u, j, s)
        BY <2>1, <4>1, <4>2, <4>3 DEF ArmedFor
      <4> QED
        BY <1>8, <2>4, <3>2, <4>4 DEF Dispatching, j
    <3>5. CASE ~(j.idx # i.idx /\ j.scan = Tracked)
      <4>1. ~u.armed
        BY <1>5, <1>7, <2>6, <3>5 DEF SameDispatch
      <4>2. \A m \in 1..j.idx : Keys[m] # Tracked
        BY <1>3, <2>3, <3>3, <3>5
      <4>3. ArmedFor(u, j, s)
        BY <4>1, <4>2 DEF ArmedFor
      <4> QED
        BY <1>8, <2>4, <3>2, <4>3 DEF Dispatching, j
    <3> QED
      BY <3>4, <3>5
  <2> QED
    BY <2>5, <2>6
<1> QED
  BY <1>4, <1>9, <1>10

\* The real event at the head of the queue is the one at the head of the ledger.
LEMMA HeadIsFirst ==
  ASSUME NEW s \in Seq(Event), s # <<>>, Head(s) # Null,
         NEW r, Marked(r), Reals(s) = Undelivered(r)
  PROVE  r.eventFifo # <<>> /\ r.eventFifo[1].event = Head(s)
<1>1. Reals(s) # <<>> /\ Head(Reals(s)) = Head(s)
  BY RealsTail
<1>2. r \in Registry(RealEvent)
  BY DEF Marked, Promised
<1>3. Undelivered(r) \in Seq(RealEvent) /\ Len(Undelivered(r)) = Len(r.eventFifo)
  BY <1>2, UndeliveredType
<1>4. Len(r.eventFifo) \in Nat /\ DOMAIN r.eventFifo = 1..Len(r.eventFifo)
  BY <1>2, Elements
<1> DEFINE u == Undelivered(r)
           F == Len(r.eventFifo)
<1>5. u = [p \in 1..F |-> r.eventFifo[p].event]
  BY <1>4 DEF Undelivered
<1>6. u # <<>> /\ Head(u) = Head(s)
  BY <1>1
<1> HIDE DEF u
<1>7. Len(u) # 0 /\ Head(u) = u[1]
  BY <1>3, <1>6 DEF u
<1>8. 1 \in 1..F
  BY <1>3, <1>4, <1>7 DEF u
<1>9. r.eventFifo[1].event = Head(s)
  BY <1>5, <1>6, <1>7, <1>8
<1>10. r.eventFifo # <<>>
  BY <1>4, <1>8
<1> QED
  BY <1>9, <1>10

\* What matters of the tracer after a delivery.
LEMMA DeliveryDispatch ==
  ASSUME NEW t \in Tracer, t.armed => IdsApart(t), NEW i, NEW id,
         i.state = "AWAITING_CONSUMPTION", \E role \in Roles : i.ids[role] = id
  PROVE  LET d == Dequeued(Acknowledged(t, i, id), id) IN
         /\ (d.armed <=> t.armed) /\ d.tracked = t.tracked
         /\ d.count["interpreted_by_module"] = t.count["interpreted_by_module"]
         /\ Hits(t, {id}) = 0 => d.active = t.active
         /\ Hits(t, {id}) \in 0..1
         /\ Hits(t, {id}) = 1 => d.active \in Roles /\ t.armed /\ t.tracked[d.active] = id
<1> DEFINE d == Dequeued(Acknowledged(t, i, id), id)
<1>1. d = Dequeued(Acknowledged(t, i, id), id)
  OBVIOUS
<1> HIDE DEF d
<1>2. /\ d \in Tracer /\ (d.armed <=> t.armed) /\ d.tracked = t.tracked
      /\ \A s \in Stages :
           s \notin {"injector_acknowledged", "dequeued_by_getevent"} =>
             d.count[s] = t.count[s]
      /\ Hits(t, {id}) = 0 => d.active = t.active
      /\ Hits(t, {id}) \in 0..1
      /\ Hits(t, {id}) = 1 => d.active \in Roles /\ t.armed /\ t.tracked[d.active] = id
  BY <1>1, DeliveryFields
<1>3. "interpreted_by_module" \in Stages
  BY DEF Stages
<1> QED
  BY <1>2, <1>3 DEF d

\* The structure g after GetEvent filled it.
FilledFrom(g, e, r) ==
  IF e = Null THEN [g EXCEPT !.type = "NULL", !.id = 0]
  ELSE [type |-> e.type, scan |-> e.scan, id |-> Head(r.eventFifo).id]

\* GetEvent hands over e: the dispatch it may open is that of the event in hand.
LEMMA DeliveryDispatching ==
  ASSUME NEW t, NEW r, Marked(r), Traced(t, r), NEW i \in Injector, Sequenced(i),
         FetchedInOrder(i, r),
         NEW e, e # Null => r.eventFifo # <<>> /\ r.eventFifo[1].event = e,
         NEW g, Dispatching(t, i, r, g, "polling"),
         NEW s, s = IF e = Null THEN r ELSE OnEventConsumed(r),
         NEW h, h = FilledFrom(g, e, r)
  PROVE  /\ Dispatching(Delivery(t, e, r, i), Acked(i, e, r), s, h, "returned")
         /\ Delivery(t, e, r, i).count["interpreted_by_module"]
              = t.count["interpreted_by_module"]
<1>1. g \in Hand /\ ArmedFor(t, i, r) /\ Passed(t, i, g, "polling") /\ InHand(t, g, "polling")
  BY DEF Dispatching
<1>2. CASE e = Null
  <2>1. h \in Hand /\ h.type = "NULL"
    BY <1>1, <1>2 DEF Hand, FilledFrom
  <2>2. Delivery(t, e, r, i) = t /\ Acked(i, e, r) = i /\ s = r
    BY <1>2 DEF Delivery, Acked
  <2>3. Passed(t, i, h, "returned") /\ InHand(t, h, "returned")
    BY <1>1, <2>1 DEF Passed, InHand
  <2> QED
    BY <1>1, <2>1, <2>2, <2>3 DEF Dispatching
<1>3. CASE e # Null
  <2> DEFINE id == Head(r.eventFifo).id
             d == Delivery(t, e, r, i)
             n == Hits(t, {id})
             j == Acked(i, e, r)
             first == i.ids["down"]
  <2>1. /\ r.eventFifo # <<>> /\ r.eventFifo[1].event = e
        /\ s = OnEventConsumed(r) /\ h = [type |-> e.type, scan |-> e.scan, id |-> id]
        /\ d = Dequeued(Acknowledged(t, i, id), id)
        /\ j = Consumed(i, id)
    BY <1>3 DEF Delivery, Acked, FilledFrom
  <2>2. i.state = "AWAITING_CONSUMPTION" /\ \E role \in Roles : i.ids[role] = id
    BY <2>1, HeadIsOfTheKey
  <2>3. t \in Tracer /\ (t.armed => IdsApart(t)) /\ t.tracked \in [Roles -> Nat]
    BY TracedCounts DEF Traced
  <2>4. r \in Registry(RealEvent) /\ Ledgered(r) /\ s.nextEvent = r.nextEvent
    BY <2>1, ConsumedMarks DEF Marked, Promised
  <2>5. PICK k \in 0..2 : InFlightAt(k, i, r)
    BY <2>2 DEF FetchedInOrder
  <2>6. /\ first \in Nat /\ i.ids["key"] = first + 1 /\ i.ids["up"] = first + 2
        /\ i.ids \in [Roles -> Nat] /\ i.scan \in Scan
    BY <2>2, FieldTypes DEF Sequenced
  <2>7. Len(r.eventFifo) \in Nat \ {0} /\ id = r.eventFifo[1].id
    BY <2>1, <2>4, ConsumedFields
  <2>8. /\ i.consumed = FirstRoles(k)
        /\ r.nextEvent = first + Queued(i)
        /\ Len(r.eventFifo) = Queued(i) - k
        /\ \A p \in 1..Len(r.eventFifo) :
             /\ r.eventFifo[p].id = first + k + p - 1
             /\ r.eventFifo[p].event = EventOf(RoleAt[k + p], i.scan)
    BY <2>5 DEF InFlightAt
  <2>9. id = first + k /\ e = EventOf(RoleAt[k + 1], i.scan)
    <3> DEFINE F == Len(r.eventFifo)
    <3> HIDE DEF F
    <3>1. 1 \in 1..F
      BY <2>7 DEF F
    <3>2. /\ r.eventFifo[1].id = first + k + 1 - 1
          /\ r.eventFifo[1].event = EventOf(RoleAt[k + 1], i.scan)
      BY <2>8, <3>1 DEF F
    <3> HIDE DEF first, id
    <3> QED
      BY <2>1, <2>6, <2>7, <3>2
  <2>10. e.scan = i.scan /\ e.type \in {"KEY", "KEY_DOWN", "KEY_UP"}
    <3>1. k = 0 \/ k = 1 \/ k = 2
      OBVIOUS
    <3>2. RoleAt[k + 1] \in {"down", "key", "up"}
      BY <3>1 DEF RoleAt
    <3> QED
      BY <2>9, <3>2 DEF EventOf, KeyDown, Key, KeyUp
  <2>11. h \in Hand /\ h.scan = i.scan /\ h.type # "NULL" /\ h.id = id
    <3>1. id \in Nat
      BY <2>6, <2>9
    <3>2. h = [type |-> e.type, scan |-> i.scan, id |-> id] /\ i.scan \in Scan
      BY <2>1, <2>6, <2>10
    <3> HIDE DEF id
    <3> QED
      BY <2>10, <3>1, <3>2 DEF Hand
  <2>12. j.ids = i.ids /\ j.idx = i.idx /\ j.scan = i.scan
    BY <2>1, ConsumedTypes
  <2>13. /\ k = 2 => r.nextEvent = first + 3
         /\ k # 2 => j.state = "AWAITING_CONSUMPTION"
         /\ k = 0 => j.consumed = {"down"}
    <3>1. ConsumedRoles(i, id) = FirstRoles(k + 1)
      BY <2>2, <2>8, <2>9, NextRole
    <3>2. FirstRoles(k + 1) = Roles <=> k = 2
      BY AllRoles
    <3>3. k = 2 => r.nextEvent = first + 3
      <4>1. Queued(i) \in 2..3
        BY DEF Queued
      <4> HIDE DEF first
      <4> QED
        BY <2>7, <2>8, <4>1
    <3>4. ASSUME k # 2
          PROVE  j.state = "AWAITING_CONSUMPTION" /\ j.consumed = FirstRoles(k + 1)
      <4>1. j = [i EXCEPT !.consumed = FirstRoles(k + 1)]
        BY <2>1, <2>2, <3>1, <3>2, <3>4 DEF Consumed
      <4> QED
        BY <2>2, <4>1 DEF Injector
    <3>5. FirstRoles(1) = {"down"}
      BY DEF FirstRoles, RoleAt
    <3> QED
      BY <3>3, <3>4, <3>5
  <2> HIDE DEF d, j
  <2>14. /\ (d.armed <=> t.armed) /\ d.tracked = t.tracked
         /\ d.count["interpreted_by_module"] = t.count["interpreted_by_module"]
         /\ n = 0 => d.active = t.active
         /\ n \in 0..1
         /\ n = 1 => d.active \in Roles /\ t.armed /\ t.tracked[d.active] = id
    <3>1. d = Dequeued(Acknowledged(t, i, id), id)
      BY <2>1
    <3> HIDE DEF id
    <3>2. /\ (d.armed <=> t.armed) /\ d.tracked = t.tracked
          /\ d.count["interpreted_by_module"] = t.count["interpreted_by_module"]
          /\ Hits(t, {id}) = 0 => d.active = t.active
          /\ Hits(t, {id}) \in 0..1
          /\ Hits(t, {id}) = 1 => d.active \in Roles /\ t.armed /\ t.tracked[d.active] = id
      BY <2>2, <2>3, <3>1, DeliveryDispatch
    <3> QED
      BY <3>2
  <2>15. t.armed /\ i.ids = t.tracked => n = 1
    <3> SUFFICES ASSUME t.armed, i.ids = t.tracked
                 PROVE  n = 1
      OBVIOUS
    <3>1. n = (IF TrackedRoles(t, {id}) = {} THEN 0 ELSE 1)
      BY <2>3, OneHit
    <3>2. PICK role \in Roles : i.ids[role] = id
      BY <2>2
    <3>3. role \in TrackedRoles(t, {id})
      BY <3>2 DEF TrackedRoles
    <3> QED
      BY <3>1, <3>3
  <2>16. ArmedFor(d, j, s)
    <3>1. ~t.armed => \A m \in 1..i.idx : Keys[m] # Tracked
      BY <1>1 DEF ArmedFor
    <3>2. t.armed =>
            /\ \A role \in Roles : t.tracked[role] <= t.tracked["up"]
            /\ i.ids = t.tracked => FirstTracked(i.idx)
            /\ i.ids # t.tracked => t.tracked["up"] < first
            /\ i.ids # t.tracked => t.tracked["up"] < r.nextEvent
      BY <1>1 DEF ArmedFor
    <3>3. t.armed /\ i.ids = t.tracked /\ k = 2 => t.tracked["up"] < r.nextEvent
      BY <2>6, <2>13
    <3> HIDE DEF first
    <3> QED
      BY <2>4, <2>12, <2>13, <2>14, <3>1, <3>2, <3>3 DEF ArmedFor, first
  <2>17. CASE n = 1
    <3>1. t.armed /\ d.active \in Roles /\ d.tracked[d.active] = h.id
      BY <2>11, <2>14, <2>17
    <3>2. j.ids = d.tracked
      <4>1. CASE i.ids # t.tracked
        <5>1. t.tracked["up"] < first /\ t.tracked[d.active] <= t.tracked["up"]
          BY <1>1, <3>1, <4>1 DEF ArmedFor
        <5>2. t.tracked[d.active] = first + k
          BY <2>9, <2>14, <2>17
        <5>3. t.tracked["up"] \in Nat /\ t.tracked[d.active] \in Nat
          BY <2>3, <3>1 DEF Roles
        <5> HIDE DEF first
        <5> QED
          BY <2>6, <5>1, <5>2, <5>3
      <4> QED
        BY <2>12, <2>14, <4>1
    <3>3. Passed(d, j, h, "returned") /\ InHand(d, h, "returned")
      BY <3>1, <3>2 DEF Passed, InHand
    <3> QED
      BY <2>11, <2>14, <2>16, <3>3 DEF Dispatching, d, j
  <2>18. CASE n = 0
    <3>1. d.active = t.active
      BY <2>14, <2>18
    <3>2. CASE t.active = "none"
      <4>1. Passed(d, j, h, "returned") /\ InHand(d, h, "returned")
        BY <3>1, <3>2 DEF Passed, InHand
      <4> QED
        BY <2>11, <2>14, <2>16, <4>1 DEF Dispatching, d, j
    <3>3. CASE t.active # "none"
      <4>1. t.armed
        BY <3>3, OpenIsArmed
      <4>2. i.ids # t.tracked
        BY <2>15, <2>18, <4>1
      <4>3. i.scan # Tracked /\ i.consumed = {}
        BY <1>1, <3>3, <4>2 DEF Passed
      <4>4. k = 0
        <5>1. k # 0 => 1 \in 1..k
          OBVIOUS
        <5>2. k # 0 => RoleAt[1] \in FirstRoles(k)
          BY <5>1 DEF FirstRoles
        <5> QED
          BY <2>8, <4>3, <5>2
      <4>5. Passed(d, j, h, "returned") /\ InHand(d, h, "returned")
        BY <2>11, <2>12, <2>13, <4>3, <4>4 DEF Passed, InHand
      <4> QED
        BY <2>11, <2>14, <2>16, <4>5 DEF Dispatching, d, j
    <3> QED
      BY <3>2, <3>3
  <2> QED
    BY <2>14, <2>17, <2>18
<1> QED
  BY <1>2, <1>3

-----------------------------------------------------------------------------
(* The steps of the traced run, once more.                                 *)

Attributed == Followed /\ NavDone(inj) /\ Dispatching(tracer, inj, reg, hand, at)

InterpretationIsInHand ==
  tracer'.count["interpreted_by_module"] # tracer.count["interpreted_by_module"]
    => tracer.active # "none" /\ tracer.tracked[tracer.active] = hand.id

\* A refill leaves what is in hand attributed to its key.
LEMMA RefillAttributed ==
  ASSUME Attributed, Enqueueable(reg, Reals(Refilled.batch))
  PROVE  LET o    == Refilled
             full == OnEventsEnqueued(reg, Reals(o.batch))
             t    == Enqueued(Announced(tracer, inj, o.inj), reg, full)
         IN  /\ NavDone(o.inj)
             /\ Dispatching(t, o.inj, full, hand, at)
             /\ t.count["interpreted_by_module"] = tracer.count["interpreted_by_module"]
<1> DEFINE o    == Refilled
           full == OnEventsEnqueued(reg, Reals(o.batch))
           t    == Enqueued(Announced(tracer, inj, o.inj), reg, full)
<1>1. /\ InStep /\ Marked(reg) /\ Traced(tracer, reg) /\ NavDone(inj)
      /\ Dispatching(tracer, inj, reg, hand, at)
      /\ inj \in Injector /\ Sequenced(inj) /\ module \in Modules
  BY DEF Attributed, Followed, InStep
<1>2. Outcome(inj, o, module, reg)
  BY <1>1, RefilledFacts
<1>3. reg.nextEvent \in Nat
  BY <1>1, MarksOrdered DEF Marked, Promised
<1>4. o = Called(inj, module, reg)
  BY DEF Refilled, SomePending, Called, AnyPending
<1>5. Enqueueable(reg, Reals(o.batch))
  OBVIOUS
<1>6. t = Enqueued(Announced(tracer, inj, o.inj), reg, full)
  OBVIOUS
<1> HIDE DEF o, t
<1>7. NavDone(o.inj)
  BY <1>1, <1>3, <1>4, RefillNav
<1>8. o.batch \in Seq(Event)
  BY <1>1, <1>2, OutcomeBatch
<1>9. full.nextEvent \in Nat /\ reg.nextEvent <= full.nextEvent
  BY <1>1, <1>5, <1>8, EnqueuedMarks DEF Promoted
<1> HIDE DEF full
<1>10. Marked(reg) /\ Traced(tracer, reg) /\ NavDone(inj) /\ Sequenced(inj)
       /\ inj \in Injector /\ Dispatching(tracer, inj, reg, hand, at)
  BY <1>1
<1>11. Dispatching(t, o.inj, full, hand, at)
  BY <1>2, <1>3, <1>6, <1>9, <1>10, RefillDispatching
<1>12. t.count["interpreted_by_module"] = tracer.count["interpreted_by_module"]
  <2> DEFINE v == Announced(tracer, inj, o.inj)
  <2>1. t = Enqueued(v, reg, full) /\ v = Announced(tracer, inj, o.inj)
    BY <1>6
  <2> HIDE DEF v
  <2>2. tracer \in Tracer /\ o.inj.ids \in [Roles -> Nat]
    BY <1>2, <1>10, TracedCounts, FieldTypes DEF Outcome
  <2>3. v \in Tracer
        /\ v.count["interpreted_by_module"] = tracer.count["interpreted_by_module"]
    BY <2>1, <2>2, AnnouncedSame DEF SameDispatch
  <2> QED
    BY <2>1, <2>3, EnqueuedSame DEF SameDispatch
<1> QED
  BY <1>7, <1>11, <1>12 DEF full, t, o

\* A refill that appends nothing rests.
LEMMA StarvedRests ==
  ASSUME NEW i \in Injector, Sequenced(i), NEW o, NEW mod, NEW r,
         Outcome(i, o, mod, r), o.batch = <<>>
  PROVE  Rests(i, o, r)
<1>1. CASE Releases(i, o)
  <2>1. i.scan \in Scan /\ o.batch = Release(i.scan)
    BY <1>1 DEF Releases, Sequenced
  <2> QED
    BY <2>1, ReleaseReals
<1>2. CASE Sends(i, o, mod, r)
  <2>1. o.inj \in Injector
    BY DEF Outcome
  <2>2. o.inj.scan \in Scan /\ o.inj.hold \in Nat
        /\ o.batch = KeyBurst(o.inj.scan, o.inj.hold)
    BY <1>2, <2>1, FieldTypes DEF Sends
  <2> QED
    BY <2>2, BurstReals
<1> QED
  BY <1>1, <1>2 DEF Outcome

\* A step that leaves the key, the ids and the dispatch as they are.
LEMMA QuietStep ==
  ASSUME Attributed, hand' = hand, at' = at, inj' = inj,
         reg'.nextEvent = reg.nextEvent,
         SameDispatch(tracer, tracer')
  PROVE  /\ NavDone(inj') /\ Dispatching(tracer', inj', reg', hand', at')
         /\ InterpretationIsInHand
<1>1. /\ Marked(reg) /\ Traced(tracer, reg) /\ NavDone(inj)
      /\ Dispatching(tracer, inj, reg, hand, at)
  BY DEF Attributed, Followed
<1>2. reg.nextEvent \in Nat /\ reg.nextEvent <= reg'.nextEvent /\ reg'.nextEvent \in Nat
  BY <1>1, MarksOrdered DEF Marked, Promised
<1>3. tracer.armed => tracer.tracked["up"] \in Nat
  BY <1>1, TracedCounts DEF Roles
<1>4. Dispatching(tracer', inj, reg', hand, at)
  BY <1>1, <1>2, <1>3, SameDispatching
<1> QED
  BY <1>1, <1>4 DEF InterpretationIsInHand, SameDispatch

\* The game returns from GetEvent, or passes the key on.
LEMMA HandledDispatching ==
  ASSUME Attributed, GetEventReturns \/ KeyInterpreted \/ KeyHandled
  PROVE  /\ NavDone(inj') /\ Dispatching(tracer', inj', reg', hand', at')
         /\ InterpretationIsInHand
<1>1. /\ Traced(tracer, reg) /\ NavDone(inj)
      /\ hand \in Hand /\ ArmedFor(tracer, inj, reg)
      /\ Passed(tracer, inj, hand, at) /\ InHand(tracer, hand, at)
      /\ tracer \in Tracer
  BY TracedCounts DEF Attributed, Followed, Dispatching
<1>2. inj' = inj /\ reg' = reg /\ hand' = hand
  BY DEF GetEventReturns, KeyInterpreted, KeyHandled
<1>3. CASE GetEventReturns
  <2>1. /\ at = "returned" /\ tracer' = Returned(tracer, hand.scan)
        /\ at' = IF hand.type = "NULL" THEN "polling" ELSE "key"
    BY <1>3 DEF GetEventReturns
  <2>2. CASE hand.scan # Tracked
    <3> DEFINE u == [tracer EXCEPT !.active = "none"]
    <3>1. tracer' = u
      BY <2>1, <2>2 DEF Returned
    <3>2. /\ u.active = "none" /\ (u.armed <=> tracer.armed) /\ u.tracked = tracer.tracked
          /\ u.count["interpreted_by_module"] = tracer.count["interpreted_by_module"]
      BY <1>1 DEF Tracer
    <3> HIDE DEF u
    <3>3. ArmedFor(u, inj, reg) /\ Passed(u, inj, hand, at') /\ InHand(u, hand, at')
      BY <1>1, <3>2 DEF ArmedFor, Passed, InHand
    <3> QED
      BY <1>1, <1>2, <3>1, <3>2, <3>3 DEF Dispatching, InterpretationIsInHand
  <2>3. CASE hand.scan = Tracked
    <3> DEFINE u == ReturnCounted(tracer)
    <3>1. tracer' = u
      BY <2>1, <2>3 DEF Returned
    <3>2. /\ u.active = tracer.active /\ (u.armed <=> tracer.armed) /\ u.tracked = tracer.tracked
          /\ u.count["interpreted_by_module"] = tracer.count["interpreted_by_module"]
      BY <1>1 DEF ReturnCounted, Tracer, Stages
    <3> HIDE DEF u
    <3>3. ArmedFor(u, inj, reg)
      BY <1>1, <3>2 DEF ArmedFor
    <3>4. Passed(u, inj, hand, at') /\ InHand(u, hand, at')
      BY <1>1, <2>1, <2>3, <3>2 DEF Passed, InHand
    <3> QED
      BY <1>1, <1>2, <3>1, <3>2, <3>3, <3>4 DEF Dispatching, InterpretationIsInHand
  <2> QED
    BY <2>2, <2>3
<1>4. CASE KeyInterpreted
  <2>1. at = "key" /\ at' = at /\ tracer' = Interpreted(tracer)
    BY <1>4 DEF KeyInterpreted
  <2>2. CASE tracer.active = "none"
    <3>1. tracer' = tracer
      BY <2>1, <2>2 DEF Interpreted
    <3> QED
      BY <1>1, <1>2, <2>1, <3>1 DEF Dispatching, InterpretationIsInHand
  <2>3. CASE tracer.active # "none"
    <3> DEFINE v == Counted(tracer, "interpreted_by_module", 1)
               u == [v EXCEPT !.active = "none"]
    <3>1. tracer' = u
      BY <2>1, <2>3 DEF Interpreted
    <3>2. "interpreted_by_module" \in Stages /\ 1 \in Nat
      BY DEF Stages
    <3> HIDE DEF v
    <3>3. v \in Tracer /\ (v.armed <=> tracer.armed) /\ v.tracked = tracer.tracked
      BY <1>1, <3>2, CountedFields DEF v
    <3>4. u.active = "none" /\ (u.armed <=> tracer.armed) /\ u.tracked = tracer.tracked
      BY <3>3 DEF Tracer
    <3> HIDE DEF u
    <3>5. ArmedFor(u, inj, reg) /\ Passed(u, inj, hand, at') /\ InHand(u, hand, at')
      BY <1>1, <3>4 DEF ArmedFor, Passed, InHand
    <3>6. tracer.tracked[tracer.active] = hand.id
      BY <1>1, <2>1, <2>3 DEF InHand
    <3> QED
      BY <1>1, <1>2, <2>3, <3>1, <3>5, <3>6 DEF Dispatching, InterpretationIsInHand
  <2> QED
    BY <2>2, <2>3
<1>5. CASE KeyHandled
  <2>1. at = "key" /\ at' = "polling" /\ tracer' = tracer
    BY <1>5 DEF KeyHandled
  <2>2. Passed(tracer, inj, hand, at') /\ InHand(tracer, hand, at')
    BY <1>1, <2>1 DEF Passed, InHand
  <2> QED
    BY <1>1, <1>2, <2>1, <2>2 DEF Dispatching, InterpretationIsInHand
<1> QED
  BY <1>3, <1>4, <1>5

\* An acknowledgement by GetEvent brings no navigation key back.
LEMMA AckedNav ==
  ASSUME NEW i \in Injector, NavDone(i), NEW e, NEW r
  PROVE  NavDone(Acked(i, e, r))
  BY ConsumedNav DEF Acked

\* A fetch from the queue, and one that refills it first.
LEMMA FetchDispatching ==
  ASSUME Attributed, TracedFetch
  PROVE  /\ NavDone(inj') /\ Dispatching(tracer', inj', reg', hand', at')
         /\ InterpretationIsInHand
<1>1. /\ Marked(reg) /\ Traced(tracer, reg) /\ NavDone(inj)
      /\ Dispatching(tracer, inj, reg, hand, at)
      /\ inj \in Injector /\ Sequenced(inj) /\ FetchedInOrder(inj, reg)
      /\ q \in Seq(Event) /\ Reals(q) = Undelivered(reg)
  BY DEF Attributed, Followed, InStep, Joined, Mirrored
<1>2. /\ at = "polling" /\ at' = "returned" /\ q # <<>>
      /\ reg' = IF Head(q) = Null THEN reg ELSE OnEventConsumed(reg)
      /\ inj' = Acked(inj, Head(q), reg)
      /\ tracer' = Delivery(tracer, Head(q), reg, inj)
      /\ hand' = Filled(Head(q), reg)
  BY DEF TracedFetch, Fetch, GetEvent, Delivered
<1>3. hand' = FilledFrom(hand, Head(q), reg)
  BY <1>2 DEF Filled, FilledFrom
<1>4. Head(q) # Null => reg.eventFifo # <<>> /\ reg.eventFifo[1].event = Head(q)
  BY <1>1, <1>2, HeadIsFirst
<1>5. /\ Dispatching(tracer', inj', reg', hand', at')
      /\ tracer'.count["interpreted_by_module"] = tracer.count["interpreted_by_module"]
  BY <1>1, <1>2, <1>3, <1>4, DeliveryDispatching
<1>6. NavDone(inj')
  BY <1>1, <1>2, AckedNav
<1> QED
  BY <1>5, <1>6 DEF InterpretationIsInHand

\* A GetEvent that refills first keeps the attribution.
LEMMA FirstFetchDispatching ==
  ASSUME Attributed, TracedFetchAfterRefill
  PROVE  /\ NavDone(inj') /\ Dispatching(tracer', inj', reg', hand', at')
         /\ InterpretationIsInHand
<1> DEFINE o    == Refilled
           full == OnEventsEnqueued(reg, Reals(o.batch))
           t    == Enqueued(Announced(tracer, inj, o.inj), reg, full)
<1>1. /\ InStep /\ Marked(reg) /\ Traced(tracer, reg) /\ NavDone(inj)
      /\ Dispatching(tracer, inj, reg, hand, at)
      /\ inj \in Injector /\ Sequenced(inj) /\ module \in Modules /\ Mirrored
  BY DEF Attributed, Followed, InStep
<1>2. reg.nextEvent \in Nat
  BY <1>1, MarksOrdered DEF Marked, Promised
<1>3. o = Called(inj, module, reg)
  BY DEF Refilled, SomePending, Called, AnyPending
<1>4. Outcome(inj, o, module, reg)
  BY <1>1, <1>2, <1>3, RefillOutcome
<1>5. CASE o.batch = <<>>
  <2>1. tracer' = tracer /\ hand' = hand /\ at' = at /\ reg' = reg /\ inj' = o.inj
    BY <1>5 DEF TracedFetchAfterRefill, FetchAfterRefill, GetEventAfterRefill,
                GetEventStarved
  <2> HIDE DEF o
  <2>2. Rests(inj, o, reg)
    BY <1>1, <1>4, <1>5, StarvedRests
  <2>3. NavDone(o.inj)
    BY <1>1, <1>2, <1>3, RefillNav
  <2>4. tracer.armed => tracer.tracked["up"] \in Nat
    BY <1>1, TracedCounts DEF Roles
  <2>5. /\ o.inj.ids = inj.ids /\ o.inj.idx = inj.idx /\ o.inj.scan = inj.scan
        /\ o.inj.consumed = inj.consumed
        /\ o.inj.state = "AWAITING_CONSUMPTION" <=> inj.state = "AWAITING_CONSUMPTION"
    BY <2>2 DEF Rests
  <2>6. SameDispatch(tracer, tracer) /\ reg.nextEvent <= reg.nextEvent
    BY <1>2 DEF SameDispatch
  <2>7. Dispatching(tracer, o.inj, reg, hand, at)
    BY <1>1, <1>2, <2>4, <2>5, <2>6, SameDispatching
  <2> QED
    BY <2>1, <2>3, <2>7 DEF InterpretationIsInHand
<1>6. CASE o.batch # <<>>
  <2>1. /\ Enqueueable(reg, Reals(o.batch)) /\ q = <<>> /\ Len(q) + Len(o.batch) <= MaxQueue
        /\ at = "polling" /\ at' = "returned"
        /\ reg' = IF Head(o.batch) = Null THEN full ELSE OnEventConsumed(full)
        /\ inj' = Acked(o.inj, Head(o.batch), full)
        /\ tracer' = Delivery(t, Head(o.batch), full, o.inj)
        /\ hand' = Filled(Head(o.batch), full)
    BY <1>6 DEF TracedFetchAfterRefill, FetchAfterRefill, GetEventAfterRefill,
                GetEventStarved, Delivered, Fits
  <2>2. /\ Marked(full) /\ Traced(t, full)
        /\ o.inj \in Injector /\ Sequenced(o.inj) /\ FetchedInOrder(o.inj, full)
    BY <2>1, RefillTraced DEF Attributed
  <2>3. /\ NavDone(o.inj) /\ Dispatching(t, o.inj, full, hand, at)
        /\ t.count["interpreted_by_module"] = tracer.count["interpreted_by_module"]
    BY <2>1, RefillAttributed
  <2> HIDE DEF o
  <2>4. o.batch \in Seq(Event)
    BY <1>1, <1>4, OutcomeBatch
  <2>5. Reals(o.batch) = Undelivered(full)
    BY <1>1, <2>1, <2>4, FirstRefill
  <2> HIDE DEF full, t
  <2>6. hand' = FilledFrom(hand, Head(o.batch), full)
    BY <2>1 DEF Filled, FilledFrom
  <2>7. Head(o.batch) # Null =>
          full.eventFifo # <<>> /\ full.eventFifo[1].event = Head(o.batch)
    BY <1>6, <2>2, <2>4, <2>5, HeadIsFirst
  <2>8. /\ Dispatching(tracer', inj', reg', hand', at')
        /\ tracer'.count["interpreted_by_module"] = t.count["interpreted_by_module"]
    BY <2>1, <2>2, <2>3, <2>6, <2>7, DeliveryDispatching
  <2>9. NavDone(inj')
    BY <2>1, <2>2, <2>3, AckedNav
  <2> QED
    BY <2>3, <2>8, <2>9 DEF InterpretationIsInHand
<1> QED
  BY <1>5, <1>6

\* Every step keeps the attribution, and interprets only what is in hand.
LEMMA AttributedStep ==
  ASSUME Attributed, [TraceNext]_traceVars
  PROVE  Attributed' /\ InterpretationIsInHand
<1>1. Followed'
  BY FollowedStep DEF Attributed
<1>2. /\ Marked(reg) /\ Traced(tracer, reg) /\ tracer \in Tracer /\ NavDone(inj)
      /\ Dispatching(tracer, inj, reg, hand, at)
  BY TracedCounts DEF Attributed, Followed
<1> SUFFICES /\ NavDone(inj') /\ Dispatching(tracer', inj', reg', hand', at')
             /\ InterpretationIsInHand
  BY <1>1 DEF Attributed
<1>3. CASE UNCHANGED traceVars
  BY <1>2, <1>3 DEF traceVars, InterpretationIsInHand
<1>4. CASE TracedTick
  <2>1. /\ Enqueueable(reg, Reals(Refilled.batch))
        /\ reg' = OnEventsEnqueued(reg, Reals(Refilled.batch))
        /\ inj' = Refilled.inj
        /\ tracer' = Enqueued(Announced(tracer, inj, inj'), reg, reg')
        /\ hand' = hand /\ at' = at
    BY <1>4 DEF TracedTick, Tick, ProduceTick
  <2> QED
    BY <2>1, RefillAttributed DEF InterpretationIsInHand
<1>5. CASE \E a \in NotifyAddr : TracedAsks(a)
  <2>1. PICK a \in NotifyAddr : TracedAsks(a)
    BY <1>5
  <2>2. /\ a \in StatusAddr /\ Registrable(reg)
        /\ reg' = RegisterRequest(reg, a)
        /\ tracer' = Enqueued(tracer, reg, reg')
        /\ hand' = hand /\ at' = at /\ inj' = inj
    BY <2>1, AsyncAssumption DEF TracedAsks, Asks, Notify
  <2>3. reg'.nextEvent = reg.nextEvent
    BY <1>2, <2>2, RegisteredMarks
  <2>4. SameDispatch(tracer, tracer')
    BY <1>2, <2>2, EnqueuedSame
  <2> QED
    BY <2>2, <2>3, <2>4, QuietStep
<1>6. CASE TracedWaits
  <2>1. /\ reg' = WaitForAnyRequest(reg) /\ tracer' = Woken(tracer, reg)
        /\ hand' = hand /\ at' = at /\ inj' = inj
    BY <1>6 DEF TracedWaits, Waits, Wait
  <2>2. reg'.nextEvent = reg.nextEvent
    BY <1>2, <2>1, WaitMarks
  <2>3. SameDispatch(tracer, tracer')
    BY <1>2, <2>1, WokenSame
  <2> QED
    BY <2>1, <2>2, <2>3, QuietStep
<1>7. CASE Untraced
  <2>1. reg' = reg /\ tracer' = tracer /\ hand' = hand /\ at' = at
    BY <1>7 DEF Untraced, EntersModule, Elapse
  <2>2. CASE inj' = inj
    BY <1>2, <2>1, <2>2 DEF InterpretationIsInHand
  <2>3. CASE inj' = Elapsed(inj)
    <3> DEFINE j == Elapsed(inj)
    <3>1. inj \in Injector
      BY DEF Attributed, Followed, InStep
    <3>2. /\ j.ids = inj.ids /\ j.idx = inj.idx /\ j.scan = inj.scan
          /\ j.consumed = inj.consumed /\ j.state = inj.state
          /\ j.nav = inj.nav /\ j.origin = inj.origin
      BY <3>1 DEF Elapsed, Injector
    <3> HIDE DEF j
    <3>3. NavDone(j)
      BY <1>2, <3>2 DEF NavDone
    <3>4. tracer.armed => tracer.tracked["up"] \in Nat
      BY <1>2, TracedCounts DEF Roles
    <3>5. SameDispatch(tracer, tracer) /\ reg.nextEvent \in Nat /\ reg.nextEvent <= reg.nextEvent
      BY <1>2, MarksOrdered DEF SameDispatch, Marked, Promised
    <3>6. Dispatching(tracer, j, reg, hand, at)
      BY <1>2, <3>2, <3>4, <3>5, SameDispatching
    <3> QED
      BY <2>1, <2>3, <3>3, <3>6 DEF InterpretationIsInHand, j
  <2> QED
    BY <1>7, <2>2, <2>3 DEF Untraced, EntersModule, Elapse
<1> QED
  BY <1>3, <1>4, <1>5, <1>6, <1>7, FetchDispatching, FirstFetchDispatching,
     HandledDispatching DEF TraceNext

\* The traced model starts with it.
LEMMA AttributedStart == TraceInit => Attributed
<1> SUFFICES ASSUME TraceInit
             PROVE  NavDone(inj) /\ Dispatching(tracer, inj, reg, hand, at)
  BY FollowedStart DEF Attributed
<1>1. inj = Start /\ tracer = TracerStart /\ hand = [type |-> "NULL", scan |-> "none", id |-> 0]
  BY DEF TraceInit, SyncInit
<1>2. /\ inj.idx = 0 /\ inj.origin = "none" /\ inj.state = "WAIT_MODULE5"
  BY <1>1 DEF Start
<1>3. ~tracer.armed /\ tracer.active = "none"
  BY <1>1 DEF TracerStart
<1>4. hand \in Hand
  BY <1>1 DEF Hand
<1> QED
  BY <1>2, <1>3, <1>4 DEF NavDone, Dispatching, ArmedFor, Passed, InHand

\* An interpretation is counted for the tracked key only while the game handles
\* that very event: _active_dispatch_role never survives into the handling of
\* another one.
THEOREM InterpretedIsTrackedHolds == TraceSpec => InterpretedIsTracked
<1>1. Attributed /\ [TraceNext]_traceVars => Attributed'
  BY AttributedStep
<1>2. Attributed /\ [TraceNext]_traceVars =>
        [tracer'.count["interpreted_by_module"] # tracer.count["interpreted_by_module"]
           => /\ tracer.active # "none"
              /\ tracer.tracked[tracer.active] = hand.id]_traceVars
  BY AttributedStep DEF InterpretationIsInHand
<1> QED
  BY <1>1, <1>2, AttributedStart, PTL DEF TraceSpec, InterpretedIsTracked

=============================================================================
