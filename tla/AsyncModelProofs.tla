-------------------------- MODULE AsyncModelProofs --------------------------
(***************************************************************************)
(* Proofs about the request registry and the async model built on it, for  *)
(* every set of status words, every set of batches and every bound:        *)
(*  - its types, and the matching of requests and events;                  *)
(*  - the life of a request: which requests wait, which are answered, and  *)
(*    by which event.  One inductive invariant, Ledgered, gives the order  *)
(*    properties of AsyncModel; a second, TruthTold, what the game reads   *)
(*    in its status words;                                                 *)
(*  - that it implements EventQueue and WindowServer, by the two step      *)
(*    simulations of AsyncRefinement.                                      *)
(***************************************************************************)
EXTENDS AsyncRefinement, EventsProofs, FiniteSetTheorems, SequenceTheorems, TLAPS

-----------------------------------------------------------------------------
\* Counting upwards through a bounded set of positions visits every count
\* from 1 to its size, once.
LEMMA RankCounts ==
  ASSUME NEW n \in Nat, NEW U \in SUBSET (1..n)
  PROVE  /\ IsFiniteSet(U)
         /\ Cardinality(U) \in Nat
         /\ \A p \in U : RankIn(U, p) \in 1..Cardinality(U)
         /\ \A p, m \in U : p < m => RankIn(U, p) < RankIn(U, m)
         /\ \A k \in 1..Cardinality(U) : \E p \in U : RankIn(U, p) = k
<1> DEFINE Upto(p) == {i \in U : i <= p}
           f == [p \in U |-> RankIn(U, p)]
<1>1. IsFiniteSet(U) /\ Cardinality(U) \in Nat
  <2>1. IsFiniteSet(1..n)
    BY FS_Interval
  <2>2. IsFiniteSet(U)
    BY <2>1, FS_Subset
  <2> QED
    BY <2>2, FS_CardinalityType
<1>2. ASSUME NEW p \in U
      PROVE  /\ IsFiniteSet(Upto(p))
             /\ RankIn(U, p) \in 1..Cardinality(U)
             /\ RankIn(U, p) \in Nat
  <2>1. Upto(p) \in SUBSET U /\ p \in Upto(p)
    OBVIOUS
  <2>2. /\ IsFiniteSet(Upto(p))
        /\ Cardinality(Upto(p)) <= Cardinality(U)
        /\ Cardinality(Upto(p)) \in Nat
    BY <1>1, <2>1, FS_Subset, FS_CardinalityType
  <2>3. Cardinality(Upto(p)) # 0
    BY <2>1, <2>2, FS_EmptySet
  <2> QED
    BY <1>1, <2>2, <2>3 DEF RankIn
<1>3. ASSUME NEW p \in U, NEW m \in U, p < m
      PROVE  RankIn(U, p) < RankIn(U, m)
  <2>1. Upto(p) \in SUBSET Upto(m) /\ m \in Upto(m) /\ m \notin Upto(p)
    <3>1. p \in Nat /\ m \in Nat /\ \A i \in U : i \in Nat
      OBVIOUS
    <3>2. ASSUME NEW i \in Upto(p)
          PROVE  i \in Upto(m)
      BY <1>3, <3>1
    <3>3. m \in Upto(m)
      BY <3>1
    <3>4. m \notin Upto(p)
      BY <1>3, <3>1
    <3> QED
      BY <3>2, <3>3, <3>4
  <2>2. Cardinality(Upto(p)) <= Cardinality(Upto(m))
    BY <1>2, <2>1, FS_Subset
  <2>3. Cardinality(Upto(p)) # Cardinality(Upto(m))
    BY <1>2, <2>1, FS_Subset
  <2> QED
    BY <1>2, <2>2, <2>3 DEF RankIn
<1>4. f \in Injection(U, 1..Cardinality(U))
  <2>1. f \in [U -> 1..Cardinality(U)]
    BY <1>2
  <2>2. ASSUME NEW a \in U, NEW b \in U, RankIn(U, a) = RankIn(U, b)
        PROVE  a = b
    <3>1. a \in Nat /\ b \in Nat
      OBVIOUS
    <3>2. RankIn(U, a) \in Nat /\ RankIn(U, b) \in Nat
      BY <1>2
    <3>3. ~(a < b)
      BY <1>3, <2>2, <3>2
    <3>4. ~(b < a)
      BY <1>3, <2>2, <3>2
    <3> QED
      BY <3>1, <3>3, <3>4
  <2> QED
    BY <2>1, <2>2 DEF Injection, IsInjective
<1>5. f \in Surjection(U, 1..Cardinality(U))
  <2>1. /\ IsFiniteSet(1..Cardinality(U))
        /\ Cardinality(1..Cardinality(U)) = Cardinality(U)
    BY <1>1, FS_Interval
  <2> QED
    BY <1>4, <2>1, FS_Injection
<1>6. \A k \in 1..Cardinality(U) : \E p \in U : RankIn(U, p) = k
  BY <1>5 DEF Surjection
<1> QED
  BY <1>1, <1>2, <1>3, <1>6

\* In particular there is a first position.
LEMMA FirstPosition ==
  ASSUME NEW n \in Nat, NEW U \in SUBSET (1..n), U # {}
  PROVE  \E p \in U : \A m \in U : p <= m
<1>1. /\ Cardinality(U) \in Nat
      /\ \A p \in U : RankIn(U, p) \in 1..Cardinality(U)
      /\ \A p, m \in U : p < m => RankIn(U, p) < RankIn(U, m)
      /\ \A k \in 1..Cardinality(U) : \E p \in U : RankIn(U, p) = k
  BY RankCounts
<1>2. PICK p \in U : RankIn(U, p) = 1
  <2>1. PICK u \in U : TRUE
    OBVIOUS
  <2>2. RankIn(U, u) \in 1..Cardinality(U)
    BY <1>1
  <2>3. 1 \in 1..Cardinality(U)
    BY <1>1, <2>2
  <2> QED
    BY <1>1, <2>3
<1>3. ASSUME NEW m \in U
      PROVE  p <= m
  <2>1. RankIn(U, m) \in 1..Cardinality(U)
    BY <1>1
  <2>2. ~(m < p)
    BY <1>1, <1>2, <2>1
  <2>3. m \in Nat /\ p \in Nat
    OBVIOUS
  <2> QED
    BY <2>2, <2>3
<1> QED
  BY <1>3

-----------------------------------------------------------------------------
\* The facts about one run of the matching loop that every use of it needs.
LEMMA MatchFacts ==
  ASSUME NEW E, NEW r \in Registry(E)
  PROVE  /\ DOMAIN r.eventFifo = 1..Len(r.eventFifo)
         /\ Len(r.eventFifo) \in Nat
         /\ Len(r.pendingOrder) \in Nat
         /\ Unclaimed(r) \in SUBSET (1..Len(r.eventFifo))
         /\ \A p \in Unclaimed(r) : Rank(r, p) \in Nat \ {0}
         /\ IsFiniteSet(Matched(r))
         /\ Cardinality(Matched(r)) \in 0..Len(r.pendingOrder)
         /\ \A p \in Matched(r) : Rank(r, p) \in 1..Len(r.pendingOrder)
         /\ \A p \in Matched(r) : Partner(r, p) \in RequestId
         /\ \A p, m \in Matched(r) : p # m => Rank(r, p) # Rank(r, m)
<1> DEFINE L == Len(r.pendingOrder)
           U == Unclaimed(r)
           M == Matched(r)
<1>1. /\ r.eventFifo \in Seq(Entry(E))
      /\ r.pendingOrder \in Seq(RequestId)
  BY DEF Registry
<1>2. /\ DOMAIN r.eventFifo = 1..Len(r.eventFifo)
      /\ Len(r.eventFifo) \in Nat
      /\ L \in Nat
  BY <1>1
<1>3. U \in SUBSET (1..Len(r.eventFifo))
  BY <1>2 DEF Unclaimed
<1>4. /\ IsFiniteSet(U)
      /\ Cardinality(U) \in Nat
      /\ \A p \in U : Rank(r, p) \in 1..Cardinality(U)
      /\ \A p, m \in U : p < m => Rank(r, p) < Rank(r, m)
  BY <1>2, <1>3, RankCounts DEF Rank
<1>5. M \in SUBSET U
  BY DEF Matched
<1>6. \A p \in M : Rank(r, p) \in 1..L
  BY <1>2, <1>4 DEF Matched
<1>7. \A p \in M : Partner(r, p) \in RequestId
  BY <1>1, <1>6 DEF Partner
<1>8. ASSUME NEW p \in M, NEW m \in M, p # m
      PROVE  Rank(r, p) # Rank(r, m)
  <2>1. p \in Nat /\ m \in Nat
    BY <1>3, <1>5
  <2>2. p < m \/ m < p
    BY <1>8, <2>1
  <2>3. /\ p < m => Rank(r, p) < Rank(r, m)
        /\ m < p => Rank(r, m) < Rank(r, p)
    BY <1>4, <1>5
  <2>4. Rank(r, p) \in Nat /\ Rank(r, m) \in Nat
    BY <1>6
  <2> QED
    BY <2>2, <2>3, <2>4
<1>9. IsFiniteSet(M) /\ Cardinality(M) \in Nat
  BY <1>4, <1>5, FS_Subset, FS_CardinalityType
<1>10. Cardinality(M) <= L
  <2> DEFINE g == [p \in M |-> Rank(r, p)]
  <2>1. g \in [M -> 1..L]
    BY <1>6
  <2>2. \A a, b \in M : g[a] = g[b] => a = b
    BY <1>8
  <2>3. g \in Injection(M, 1..L)
    BY <2>1, <2>2 DEF Injection, IsInjective
  <2>4. IsFiniteSet(1..L) /\ Cardinality(1..L) = L
    <3>1. L \in Int /\ 1 \in Int /\ (1 > L => L = 0)
      BY <1>2
    <3> HIDE DEF L
    <3> QED
      BY <3>1, FS_Interval
  <2> QED
    BY <2>3, <2>4, FS_Injection
<1> QED
  BY <1>2, <1>3, <1>4, <1>6, <1>7, <1>8, <1>9, <1>10

-----------------------------------------------------------------------------
\* One run of the matching loop leaves a well-formed registry.
LEMMA TryMatchType ==
  ASSUME NEW E, NEW r \in Registry(E)
  PROVE  TryMatch(r) \in Registry(E)
<1> DEFINE n == Cardinality(Matched(r))
           done == {Partner(r, p) : p \in Matched(r)}
           backer(i) == r.eventFifo[CHOOSE p \in Matched(r) : Partner(r, p) = i].id
           addrs == {r.requests[i].addr : i \in done}
           requests == [i \in RequestId |->
             IF i \in done
             THEN [r.requests[i] EXCEPT !.state = "COMPLETED", !.event = backer(i)]
             ELSE r.requests[i]]
           pendingOrder == SubSeq(r.pendingOrder, n + 1, Len(r.pendingOrder))
           eventFifo == [p \in DOMAIN r.eventFifo |->
             IF p \in Matched(r)
             THEN [r.eventFifo[p] EXCEPT !.claimedBy = Partner(r, p)]
             ELSE r.eventFifo[p]]
           wakeLog == r.wakeLog \o SubSeq(r.pendingOrder, 1, n)
           status == [a \in StatusAddr |->
             IF a \in addrs THEN "KErrNone" ELSE r.status[a]]
<1>1. /\ r.requests \in [RequestId -> Request]
      /\ r.pendingOrder \in Seq(RequestId)
      /\ r.eventFifo \in Seq(Entry(E))
      /\ r.wakeLog \in Seq(RequestId)
      /\ r.signalCount \in Nat
      /\ r.pending \in SUBSET StatusAddr
      /\ r.status \in [StatusAddr -> StatusWord]
  BY DEF Registry
<1>2. /\ n \in 0..Len(r.pendingOrder)
      /\ Len(r.pendingOrder) \in Nat
      /\ DOMAIN r.eventFifo = 1..Len(r.eventFifo)
      /\ Len(r.eventFifo) \in Nat
      /\ Matched(r) \subseteq DOMAIN r.eventFifo
      /\ \A p \in Matched(r) : Partner(r, p) \in RequestId
  BY MatchFacts DEF Matched
<1>3. requests \in [RequestId -> Request]
  <2>1. ASSUME NEW i \in done
        PROVE  backer(i) \in EventId
    <3>1. \E p \in Matched(r) : Partner(r, p) = i
      OBVIOUS
    <3> DEFINE c == CHOOSE p \in Matched(r) : Partner(r, p) = i
    <3>2. c \in DOMAIN r.eventFifo
      BY <1>2, <3>1
    <3> HIDE DEF c
    <3>3. r.eventFifo[c] \in Entry(E)
      BY <1>1, <1>2, <3>2
    <3>4. r.eventFifo[c].id \in EventId
      BY <3>3 DEF Entry
    <3> QED
      BY <3>4 DEF c
  <2>2. ASSUME NEW i \in RequestId
        PROVE  (IF i \in done
                THEN [r.requests[i] EXCEPT !.state = "COMPLETED", !.event = backer(i)]
                ELSE r.requests[i]) \in Request
    <3>1. r.requests[i] \in Request
      BY <1>1
    <3>2. CASE i \in done
      <4>1. backer(i) \in EventId
        BY <2>1, <3>2
      <4> HIDE DEF backer, done
      <4> QED
        BY <3>1, <3>2, <4>1 DEF Request
    <3>3. CASE i \notin done
      BY <3>1, <3>3
    <3> QED
      BY <3>2, <3>3
  <2> QED
    BY <2>2
<1>4. /\ pendingOrder \in Seq(RequestId)
      /\ SubSeq(r.pendingOrder, 1, n) \in Seq(RequestId)
  <2>1. \A k \in 1..Len(r.pendingOrder) : r.pendingOrder[k] \in RequestId
    BY <1>1
  <2> HIDE DEF n
  <2> QED
    BY <1>2, <2>1, SubSeqProperties
<1>5. eventFifo \in Seq(Entry(E))
  <2>1. ASSUME NEW p \in 1..Len(r.eventFifo)
        PROVE  (IF p \in Matched(r)
                THEN [r.eventFifo[p] EXCEPT !.claimedBy = Partner(r, p)]
                ELSE r.eventFifo[p]) \in Entry(E)
    <3>1. r.eventFifo[p] \in Entry(E)
      BY <1>1
    <3> QED
      BY <1>2, <3>1 DEF Entry
  <2>2. eventFifo \in [1..Len(r.eventFifo) -> Entry(E)]
    BY <1>2, <2>1
  <2> QED
    BY <1>2, <2>2, SeqDef
<1>6. wakeLog \in Seq(RequestId)
  BY <1>1, <1>4, ConcatProperties
<1>7. r.signalCount + n \in Nat
  BY <1>1, <1>2
<1>8. status \in [StatusAddr -> StatusWord]
  BY <1>1, RegistryAssumption DEF StatusWord
<1>9. r.pending \ addrs \in SUBSET StatusAddr
  BY <1>1
<1>10. TryMatch(r) = [r EXCEPT !.requests = requests,
                              !.pendingOrder = pendingOrder,
                              !.eventFifo = eventFifo,
                              !.wakeLog = wakeLog,
                              !.signalCount = r.signalCount + n,
                              !.pending = r.pending \ addrs,
                              !.status = status]
  BY DEF TryMatch
<1> HIDE DEF n, done, addrs, requests, pendingOrder, eventFifo, wakeLog, status
<1> QED
  BY <1>3, <1>4, <1>5, <1>6, <1>7, <1>8, <1>9, <1>10 DEF Registry

\* After the loop nobody waits or nothing is unclaimed, whatever it started
\* from: this is all that stands between the model and a lost wakeup.
LEMMA TryMatchExhausts ==
  ASSUME NEW E, NEW r \in Registry(E)
  PROVE  TryMatch(r).pendingOrder # <<>> => Unclaimed(TryMatch(r)) = {}
<1> DEFINE n == Cardinality(Matched(r))
           L == Len(r.pendingOrder)
           U == Unclaimed(r)
<1>1. /\ TryMatch(r).pendingOrder = SubSeq(r.pendingOrder, n + 1, L)
      /\ TryMatch(r).eventFifo = [p \in DOMAIN r.eventFifo |->
           IF p \in Matched(r)
           THEN [r.eventFifo[p] EXCEPT !.claimedBy = Partner(r, p)]
           ELSE r.eventFifo[p]]
  BY DEF TryMatch, Registry
<1>2. /\ n \in 0..L
      /\ L \in Nat
      /\ Len(r.eventFifo) \in Nat
      /\ U \in SUBSET (1..Len(r.eventFifo))
      /\ \A p \in Matched(r) : Partner(r, p) \in RequestId
      /\ IsFiniteSet(Matched(r))
  BY MatchFacts
<1>3. ASSUME NEW p \in Unclaimed(TryMatch(r))
      PROVE  p \in U /\ Rank(r, p) > L
  <2>1. p \in DOMAIN r.eventFifo
    BY <1>1 DEF Unclaimed
  <2>2. p \notin Matched(r)
    <3>1. SUFFICES ASSUME p \in Matched(r) PROVE FALSE
      OBVIOUS
    <3>2. TryMatch(r).eventFifo[p] = [r.eventFifo[p] EXCEPT !.claimedBy = Partner(r, p)]
      BY <1>1, <2>1, <3>1
    <3>3. Partner(r, p) \in RequestId /\ Partner(r, p) # None
      BY <1>2, <3>1 DEF RequestId, None
    <3>4. r.eventFifo[p] \in Entry(E)
      BY <2>1 DEF Registry
    <3>5. TryMatch(r).eventFifo[p].claimedBy = Partner(r, p)
      BY <3>2, <3>4 DEF Entry
    <3> QED
      BY <3>3, <3>5 DEF Unclaimed
  <2>3. p \in U
    BY <1>1, <2>1, <2>2 DEF Unclaimed
  <2>4. Rank(r, p) \in Nat
    BY <2>3, MatchFacts
  <2> QED
    BY <1>2, <2>2, <2>3, <2>4 DEF Matched
<1>4. ASSUME NEW p \in U, Rank(r, p) > L
      PROVE  n = L
  <2>1. /\ Cardinality(U) \in Nat
        /\ Rank(r, p) \in 1..Cardinality(U)
        /\ \A k \in 1..Cardinality(U) : \E m \in U : Rank(r, m) = k
    BY <1>2, RankCounts DEF Rank
  <2>2. \A k \in 1..L : \E m \in Matched(r) : Rank(r, m) = k
    BY <1>2, <1>4, <2>1, SMTT(30) DEF Matched
  <2> DEFINE g == [m \in Matched(r) |-> Rank(r, m)]
  <2>3. g \in Surjection(Matched(r), 1..L)
    <3>1. g \in [Matched(r) -> 1..L]
      BY MatchFacts
    <3> QED
      BY <2>2, <3>1 DEF Surjection
  <2>4. Cardinality(1..L) <= n
    BY <1>2, <2>3, FS_Surjection
  <2>5. Cardinality(1..L) = L
    <3>1. L \in Int /\ 1 \in Int /\ (1 > L => L = 0)
      BY <1>2
    <3> HIDE DEF L
    <3> QED
      BY <3>1, FS_Interval
  <2> QED
    BY <1>2, <2>4, <2>5
<1>5. n = L => TryMatch(r).pendingOrder = <<>>
  <2>1. n \in Int /\ L \in Int
    BY <1>2
  <2> HIDE DEF n, L
  <2> QED
    BY <1>1, <2>1, SubSeqEmpty
<1> QED
  BY <1>3, <1>4, <1>5

-----------------------------------------------------------------------------
\* Each operation of the registry keeps it well-formed.  First the record of a
\* new request, before any matching ...
LEMMA RecordedType ==
  ASSUME NEW E, NEW r \in Registry(E), NEW a \in StatusAddr, Registrable(r)
  PROVE  Recorded(r, a) \in Registry(E)
<1>1. /\ r.nextRequest \in RequestId
      /\ r.nextRequest + 1 \in 1..(MaxRequests + 1)
  BY RegistryAssumption DEF Registry, Registrable, RequestId
<1>2. [addr |-> a, state |-> "PENDING", event |-> None] \in Request
  BY DEF Request
<1>3. [r.requests EXCEPT ![r.nextRequest] =
         [addr |-> a, state |-> "PENDING", event |-> None]] \in [RequestId -> Request]
  BY <1>1, <1>2 DEF Registry
<1>4. Append(r.pendingOrder, r.nextRequest) \in Seq(RequestId)
  BY <1>1 DEF Registry
<1>5. [r.status EXCEPT ![a] = "KRequestPending"] \in [StatusAddr -> StatusWord]
  BY DEF Registry, StatusWord
<1> QED
  BY <1>1, <1>3, <1>4, <1>5 DEF Recorded, Registry

\* ... register_request as a whole ...
LEMMA RegisterType ==
  ASSUME NEW E, NEW r \in Registry(E), NEW a \in StatusAddr, Registrable(r)
  PROVE  RegisterRequest(r, a) \in Registry(E)
BY RecordedType, TryMatchType DEF RegisterRequest

\* ... the new entries of the ledger, before any matching ...
LEMMA EntriesType ==
  ASSUME NEW E, NEW r \in Registry(E), NEW evs \in Seq(E), Enqueueable(r, evs)
  PROVE  /\ Entries(r, evs) \in Seq(Entry(E))
         /\ Len(Entries(r, evs)) = Len(evs)
         /\ r.nextEvent + Len(evs) \in 1..(MaxEvents + 1)
<1>1. /\ Len(evs) \in Nat
      /\ r.nextEvent \in Nat \ {0}
      /\ r.nextEvent + Len(evs) \in 1..(MaxEvents + 1)
  BY RegistryAssumption DEF Registry, Enqueueable
<1>2. ASSUME NEW k \in 1..Len(evs)
      PROVE  [id |-> r.nextEvent + k - 1, event |-> evs[k], claimedBy |-> None]
               \in Entry(E)
  BY <1>1, RegistryAssumption DEF Entry, EventId
<1>3. Entries(r, evs) \in [1..Len(evs) -> Entry(E)]
  BY <1>2 DEF Entries
<1> QED
  BY <1>1, <1>3, SeqDef

\* ... and appending them keeps the registry well-formed.
LEMMA AppendedType ==
  ASSUME NEW E, NEW r \in Registry(E), NEW evs \in Seq(E), Enqueueable(r, evs)
  PROVE  [r EXCEPT !.eventFifo = r.eventFifo \o Entries(r, evs),
                   !.nextEvent = r.nextEvent + Len(evs)] \in Registry(E)
<1>1. /\ Entries(r, evs) \in Seq(Entry(E))
      /\ r.nextEvent + Len(evs) \in 1..(MaxEvents + 1)
  BY EntriesType
<1>2. r.eventFifo \o Entries(r, evs) \in Seq(Entry(E))
  BY <1>1, ConcatProperties DEF Registry
<1> QED
  BY <1>1, <1>2 DEF Registry

\* ... on_event_enqueued for the events of one refill ...
LEMMA EnqueueType ==
  ASSUME NEW E, NEW r \in Registry(E), NEW evs \in Seq(E), Enqueueable(r, evs)
  PROVE  OnEventsEnqueued(r, evs) \in Registry(E)
BY AppendedType, TryMatchType DEF OnEventsEnqueued

\* ... on_event_consumed ...
LEMMA ConsumedType ==
  ASSUME NEW E, NEW r \in Registry(E)
  PROVE  OnEventConsumed(r) \in Registry(E)
<1>1. CASE r.eventFifo = <<>>
  BY <1>1 DEF OnEventConsumed
<1>2. CASE r.eventFifo # <<>>
  <2> DEFINE i == Head(r.eventFifo).claimedBy
             requests == IF i # None /\ r.requests[i].state = "COMPLETED"
                         THEN [r.requests EXCEPT ![i] = Absent]
                         ELSE r.requests
  <2>1. Tail(r.eventFifo) \in Seq(Entry(E))
    BY <1>2, HeadTailProperties DEF Registry
  <2>2. Absent \in Request
    BY DEF Absent, Request
  <2>3. requests \in [RequestId -> Request]
    BY <2>2 DEF Registry
  <2>4. OnEventConsumed(r) = [r EXCEPT !.eventFifo = Tail(r.eventFifo),
                                      !.requests = requests]
    BY <1>2 DEF OnEventConsumed
  <2> HIDE DEF requests
  <2> QED
    BY <2>1, <2>3, <2>4 DEF Registry
<1> QED
  BY <1>1, <1>2

\* ... on_request_complete ...
LEMMA CompleteType ==
  ASSUME NEW E, NEW r \in Registry(E), NEW a \in StatusAddr, NEW c \in Reasons
  PROVE  OnRequestComplete(r, a, c) \in Registry(E)
<1>1. [r.status EXCEPT ![a] = c] \in [StatusAddr -> StatusWord]
  BY DEF Registry, StatusWord
<1>2. /\ r.pending \ {a} \in SUBSET StatusAddr
      /\ r.signalCount + 1 \in Nat
  BY DEF Registry
<1> QED
  BY <1>1, <1>2 DEF OnRequestComplete, Registry

\* deque.remove takes an element out of a line and leaves a line.
LEMMA RemoveFirstType ==
  ASSUME NEW S, NEW s \in Seq(S), NEW e
  PROVE  /\ RemoveFirst(s, e) \in Seq(S)
         /\ s = <<>> => RemoveFirst(s, e) = <<>>
<1> DEFINE I == {k \in 1..Len(s) : s[k] = e}
<1>1. Len(s) \in Nat
  OBVIOUS
<1>2. CASE I = {}
  BY <1>1, <1>2 DEF RemoveFirst
<1>3. CASE I # {}
  <2> DEFINE m == SelectInSeq(s, LAMBDA v : v = e)
  <2>1. m = Min(I)
    BY <1>3 DEF SelectInSeq
  <2>2. m \in I
    <3>1. I \in SUBSET (1..Len(s))
      OBVIOUS
    <3>2. \E k \in I : \A j \in I : k <= j
      BY <1>1, <1>3, <3>1, FirstPosition
    <3> QED
      BY <2>1, <3>2 DEF Min
  <2>3. RemoveFirst(s, e) = SubSeq(s, 1, m - 1) \o SubSeq(s, m + 1, Len(s))
    BY <1>3 DEF RemoveFirst, RemoveAt
  <2>4. m \in 1..Len(s)
    BY <2>2
  <2> HIDE DEF m
  <2>5. /\ SubSeq(s, 1, m - 1) \in Seq(S)
        /\ SubSeq(s, m + 1, Len(s)) \in Seq(S)
    BY <1>1, <2>4, SubSeqProperties
  <2>6. s # <<>>
    BY <2>4
  <2> QED
    BY <2>3, <2>5, <2>6, ConcatProperties
<1> QED
  BY <1>2, <1>3

\* ... cancel ...
LEMMA CancelType ==
  ASSUME NEW E, NEW r \in Registry(E), NEW i \in RequestId
  PROVE  Cancelled(r, i) \in Registry(E)
<1>1. Absent \in Request
  BY DEF Absent, Request
<1>2. [r.requests EXCEPT ![i] = Absent] \in [RequestId -> Request]
  BY <1>1 DEF Registry
<1>3. RemoveFirst(r.pendingOrder, i) \in Seq(RequestId)
  BY RemoveFirstType DEF Registry
<1>4. r.pending \ {r.requests[i].addr} \in SUBSET StatusAddr
  BY DEF Registry
<1> QED
  BY <1>2, <1>3, <1>4 DEF Cancelled, Registry

\* ... and wait_for_any_request.
LEMMA WaitType ==
  ASSUME NEW E, NEW r \in Registry(E)
  PROVE  WaitForAnyRequest(r) \in Registry(E)
<1>1. CASE r.signalCount = 0
  BY <1>1 DEF WaitForAnyRequest
<1>2. CASE r.signalCount # 0
  <2>1. r.signalCount - 1 \in Nat
    BY <1>2 DEF Registry
  <2>2. (IF r.wakeLog = <<>> THEN <<>> ELSE Tail(r.wakeLog)) \in Seq(RequestId)
    BY HeadTailProperties DEF Registry
  <2> QED
    BY <1>2, <2>1, <2>2 DEF WaitForAnyRequest, Registry
<1> QED
  BY <1>1, <1>2

\* The registry a run starts with.
LEMMA EmptyRegistryType == EmptyRegistry \in Registry(RealEvent)
<1>1. [i \in RequestId |-> Absent] \in [RequestId -> Request]
  BY DEF Absent, Request
<1>2. [a \in StatusAddr |-> "KErrNone"] \in [StatusAddr -> StatusWord]
  BY RegistryAssumption DEF StatusWord
<1>3. 1 \in 1..(MaxRequests + 1) /\ 1 \in 1..(MaxEvents + 1)
  BY RegistryAssumption
<1> QED
  BY <1>1, <1>2, <1>3 DEF EmptyRegistry, Registry

-----------------------------------------------------------------------------
\* A batch is a sequence of events; its real ones are real.
LEMMA BatchTypes ==
  ASSUME NEW b \in Batches
  PROVE  b \in Seq(Event) /\ Reals(b) \in Seq(RealEvent)
BY AsyncAssumption, RealsType

\* Every step of the async model is a stutter of the registry, one operation
\* on it, or the two a GetEvent on an empty queue makes.
LEMMA StepsOfRegistry ==
  ASSUME Next
  PROVE  \/ reg' = reg
         \/ \E b \in Batches : /\ Enqueueable(reg, Reals(b))
                               /\ reg' = OnEventsEnqueued(reg, Reals(b))
         \/ \E b \in Batches : /\ Enqueueable(reg, Reals(b))
                               /\ reg' = OnEventConsumed(OnEventsEnqueued(reg, Reals(b)))
         \/ reg' = OnEventConsumed(reg)
         \/ \E a \in NotifyAddr : /\ Registrable(reg)
                                 /\ reg' = RegisterRequest(reg, a)
         \/ \E a \in SelfAddr, c \in Reasons : reg' = OnRequestComplete(reg, a, c)
         \/ \E i \in InState(reg, "PENDING") : reg' = Cancelled(reg, i)
         \/ reg' = WaitForAnyRequest(reg)
<1>1. CASE \E b \in Batches : ProduceTick(b)
  BY <1>1 DEF ProduceTick
<1>2. CASE \E b \in Batches : GetEventAfterRefill(b)
  BY <1>2 DEF GetEventAfterRefill, Delivered
<1>3. CASE \E b \in Batches : Peek(b)
  BY <1>3 DEF Peek
<1>4. CASE GetEvent
  BY <1>4 DEF GetEvent, Delivered
<1>5. CASE \E b \in Batches : GetEventStarved(b)
  BY <1>5 DEF GetEventStarved
<1>6. CASE \E a \in NotifyAddr : Notify(a)
  BY <1>6 DEF Notify
<1>7. CASE \E a \in NotifyAddr : Cancel(a)
  BY <1>7 DEF Cancel
<1>8. CASE \E a \in SelfAddr, c \in Reasons : Complete(a, c)
  BY <1>8 DEF Complete
<1>9. CASE Wait
  BY <1>9 DEF Wait
<1> QED
  BY <1>1, <1>2, <1>3, <1>4, <1>5, <1>6, <1>7, <1>8, <1>9 DEF Next

-----------------------------------------------------------------------------
\* The registry is well-formed in every reachable state (types of the fields of
\* RequestRegistry, async_model.py:190-203).
THEOREM RegistryTypeCorrect == Spec => []RegistryOK
<1>1. Init => RegistryOK
  BY EmptyRegistryType DEF Init, RegistryOK
<1>2. RegistryOK /\ [Next]_vars => RegistryOK'
  <2> SUFFICES ASSUME RegistryOK, [Next]_vars
               PROVE  RegistryOK'
    OBVIOUS
  <2>1. reg \in Registry(RealEvent)
    BY DEF RegistryOK
  <2>2. CASE UNCHANGED vars
    BY <2>1, <2>2 DEF vars, RegistryOK
  <2>3. CASE Next
    <3>1. CASE reg' = reg
      BY <2>1, <3>1 DEF RegistryOK
    <3>2. ASSUME NEW b \in Batches, Enqueueable(reg, Reals(b))
          PROVE  OnEventsEnqueued(reg, Reals(b)) \in Registry(RealEvent)
      BY <2>1, <3>2, EnqueueType, BatchTypes
    <3>3. ASSUME NEW b \in Batches, Enqueueable(reg, Reals(b))
          PROVE  OnEventConsumed(OnEventsEnqueued(reg, Reals(b))) \in Registry(RealEvent)
      BY <3>2, <3>3, ConsumedType
    <3>4. OnEventConsumed(reg) \in Registry(RealEvent)
      BY <2>1, ConsumedType
    <3>5. ASSUME NEW a \in NotifyAddr, Registrable(reg)
          PROVE  RegisterRequest(reg, a) \in Registry(RealEvent)
      BY <2>1, <3>5, RegisterType, AsyncAssumption
    <3>6. ASSUME NEW a \in SelfAddr, NEW c \in Reasons
          PROVE  OnRequestComplete(reg, a, c) \in Registry(RealEvent)
      BY <2>1, CompleteType, AsyncAssumption
    <3>7. ASSUME NEW i \in InState(reg, "PENDING")
          PROVE  Cancelled(reg, i) \in Registry(RealEvent)
      BY <2>1, CancelType DEF InState
    <3>8. WaitForAnyRequest(reg) \in Registry(RealEvent)
      BY <2>1, WaitType
    <3> QED
      BY <2>3, <3>1, <3>2, <3>3, <3>4, <3>5, <3>6, <3>7, <3>8, StepsOfRegistry
         DEF RegistryOK
  <2> QED
    BY <2>2, <2>3
<1> QED
  BY <1>1, <1>2, PTL DEF Spec

-----------------------------------------------------------------------------
\* NoLostWakeup as a predicate on registries, so that the operations can be
\* composed.
Exhausted(r) == r.pendingOrder # <<>> => Unclaimed(r) = {}

\* Fetching an event frees nobody: it adds no unclaimed event and no waiter.
LEMMA ExhaustedConsumed ==
  ASSUME NEW E, NEW r \in Registry(E), Exhausted(r)
  PROVE  Exhausted(OnEventConsumed(r))
<1>1. CASE r.eventFifo = <<>>
  BY <1>1 DEF OnEventConsumed
<1>2. CASE r.eventFifo # <<>>
  <2>1. /\ OnEventConsumed(r).eventFifo = Tail(r.eventFifo)
        /\ OnEventConsumed(r).pendingOrder = r.pendingOrder
    BY <1>2 DEF OnEventConsumed, Registry
  <2>2. /\ Len(r.eventFifo) \in Nat
        /\ DOMAIN r.eventFifo = 1..Len(r.eventFifo)
        /\ Tail(r.eventFifo) \in Seq(Entry(E))
        /\ Len(Tail(r.eventFifo)) = Len(r.eventFifo) - 1
        /\ DOMAIN Tail(r.eventFifo) = 1..(Len(r.eventFifo) - 1)
        /\ \A k \in 1..(Len(r.eventFifo) - 1) :
             Tail(r.eventFifo)[k] = r.eventFifo[k + 1]
    BY <1>2, HeadTailProperties DEF Registry
  <2>3. ASSUME NEW k \in Unclaimed(OnEventConsumed(r))
        PROVE  k + 1 \in Unclaimed(r)
    BY <2>1, <2>2 DEF Unclaimed
  <2> QED
    BY <2>1, <2>3 DEF Exhausted
<1> QED
  BY <1>1, <1>2

\* No lost wakeup (the completion triggers "case A" and "case B" of
\* async_model.py:300-302 and 318-319 leave no request waiting beside an
\* unclaimed event, whatever the game and the refill do).
THEOREM NoLostWakeupHolds == Spec => []NoLostWakeup
<1>1. Init => NoLostWakeup
  BY DEF Init, NoLostWakeup, EmptyRegistry
<1>2. RegistryOK /\ RegistryOK' /\ NoLostWakeup /\ [Next]_vars => NoLostWakeup'
  <2> SUFFICES ASSUME RegistryOK, RegistryOK', NoLostWakeup, [Next]_vars
               PROVE  NoLostWakeup'
    OBVIOUS
  <2>1. reg \in Registry(RealEvent) /\ Exhausted(reg)
    BY DEF RegistryOK, NoLostWakeup, Exhausted
  <2>2. Exhausted(reg') => NoLostWakeup'
    BY DEF NoLostWakeup, Exhausted
  <2>3. CASE reg' = reg
    BY <2>1, <2>2, <2>3
  <2>4. ASSUME NEW b \in Batches, Enqueueable(reg, Reals(b))
        PROVE  Exhausted(OnEventsEnqueued(reg, Reals(b)))
    <3> DEFINE r1 == [reg EXCEPT !.eventFifo = reg.eventFifo \o Entries(reg, Reals(b)),
                                 !.nextEvent = reg.nextEvent + Len(Reals(b))]
    <3>1. r1 \in Registry(RealEvent)
      BY <2>1, <2>4, AppendedType, BatchTypes
    <3> QED
      BY <3>1, TryMatchExhausts DEF OnEventsEnqueued, Exhausted
  <2>5. ASSUME NEW b \in Batches, Enqueueable(reg, Reals(b))
        PROVE  Exhausted(OnEventConsumed(OnEventsEnqueued(reg, Reals(b))))
    <3>1. OnEventsEnqueued(reg, Reals(b)) \in Registry(RealEvent)
      BY <2>1, <2>5, EnqueueType, BatchTypes
    <3> QED
      BY <2>4, <2>5, <3>1, ExhaustedConsumed
  <2>6. Exhausted(OnEventConsumed(reg))
    BY <2>1, ExhaustedConsumed
  <2>7. ASSUME NEW a \in NotifyAddr, Registrable(reg)
        PROVE  Exhausted(RegisterRequest(reg, a))
    <3>1. Recorded(reg, a) \in Registry(RealEvent)
      BY <2>1, <2>7, RecordedType, AsyncAssumption
    <3>2. Exhausted(TryMatch(Recorded(reg, a)))
      BY <3>1, TryMatchExhausts DEF Exhausted
    <3> QED
      BY <2>1, <3>2 DEF RegisterRequest
  <2>8. ASSUME NEW a \in SelfAddr, NEW c \in Reasons
        PROVE  Exhausted(OnRequestComplete(reg, a, c))
    BY <2>1 DEF Exhausted, OnRequestComplete, Unclaimed, Registry
  <2>9. ASSUME NEW i \in InState(reg, "PENDING")
        PROVE  Exhausted(Cancelled(reg, i))
    <3>1. /\ Cancelled(reg, i).eventFifo = reg.eventFifo
          /\ Cancelled(reg, i).pendingOrder = RemoveFirst(reg.pendingOrder, i)
      BY <2>1 DEF Cancelled, Registry
    <3>2. reg.pendingOrder = <<>> => Cancelled(reg, i).pendingOrder = <<>>
      BY <2>1, <3>1, RemoveFirstType DEF Registry
    <3> QED
      BY <2>1, <3>1, <3>2 DEF Exhausted, Unclaimed
  <2>10. Exhausted(WaitForAnyRequest(reg))
    BY <2>1 DEF Exhausted, WaitForAnyRequest, Unclaimed, Registry
  <2>11. CASE UNCHANGED vars
    BY <2>3, <2>11 DEF vars
  <2> QED
    BY <2>2, <2>3, <2>4, <2>5, <2>6, <2>7, <2>8, <2>9, <2>10, <2>11, StepsOfRegistry
<1> QED
  BY <1>1, <1>2, RegistryTypeCorrect, PTL DEF Spec

-----------------------------------------------------------------------------
\* The signals cover the completions nobody has been woken for.
Covered(r) == Len(r.wakeLog) <= r.signalCount

\* The loop gives one signal for each completion it logs.
LEMMA CoveredMatch ==
  ASSUME NEW E, NEW r \in Registry(E), Covered(r)
  PROVE  Covered(TryMatch(r))
<1> DEFINE n == Cardinality(Matched(r))
           line == SubSeq(r.pendingOrder, 1, n)
<1>1. /\ n \in 0..Len(r.pendingOrder)
      /\ Len(r.pendingOrder) \in Nat
  BY MatchFacts
<1>2. /\ TryMatch(r).wakeLog = r.wakeLog \o line
      /\ TryMatch(r).signalCount = r.signalCount + n
  BY DEF TryMatch, Registry
<1>3. line \in Seq(RequestId) /\ Len(line) = n
  <2>1. \A k \in 1..Len(r.pendingOrder) : r.pendingOrder[k] \in RequestId
    BY DEF Registry
  <2> HIDE DEF n
  <2> QED
    BY <1>1, <2>1, SubSeqProperties
<1>4. /\ r.wakeLog \in Seq(RequestId)
      /\ Len(r.wakeLog) \in Nat
      /\ r.signalCount \in Nat
  BY DEF Registry
<1>5. Len(r.wakeLog \o line) = Len(r.wakeLog) + n
  BY <1>3, <1>4, ConcatProperties
<1> QED
  BY <1>1, <1>2, <1>4, <1>5 DEF Covered

\* WaitForAnyRequest never finds the semaphore empty while a completion is
\* unreported, however RequestComplete, completions and wakes interleave
\* (signal_count and _completion_wake_log, async_model.py:342-343, 423-438).
THEOREM WakesHaveSignalsHolds == Spec => []WakesHaveSignals
<1>1. Init => WakesHaveSignals
  BY DEF Init, WakesHaveSignals, EmptyRegistry
<1>2. RegistryOK /\ WakesHaveSignals /\ [Next]_vars => WakesHaveSignals'
  <2> SUFFICES ASSUME RegistryOK, WakesHaveSignals, [Next]_vars
               PROVE  WakesHaveSignals'
    OBVIOUS
  <2>1. reg \in Registry(RealEvent) /\ Covered(reg)
    BY DEF RegistryOK, WakesHaveSignals, Covered
  <2>2. Covered(reg') => WakesHaveSignals'
    BY DEF WakesHaveSignals, Covered
  <2>3. CASE reg' = reg
    BY <2>1, <2>2, <2>3
  <2>4. ASSUME NEW b \in Batches, Enqueueable(reg, Reals(b))
        PROVE  Covered(OnEventsEnqueued(reg, Reals(b)))
    <3> DEFINE r1 == [reg EXCEPT !.eventFifo = reg.eventFifo \o Entries(reg, Reals(b)),
                                 !.nextEvent = reg.nextEvent + Len(Reals(b))]
    <3>1. r1 \in Registry(RealEvent)
      BY <2>1, <2>4, AppendedType, BatchTypes
    <3>2. Covered(r1)
      BY <2>1 DEF Covered, Registry
    <3> QED
      BY <3>1, <3>2, CoveredMatch DEF OnEventsEnqueued
  <2>5. ASSUME NEW r \in Registry(RealEvent), Covered(r)
        PROVE  Covered(OnEventConsumed(r))
    BY <2>5 DEF Covered, OnEventConsumed, Registry
  <2>6. ASSUME NEW b \in Batches, Enqueueable(reg, Reals(b))
        PROVE  Covered(OnEventConsumed(OnEventsEnqueued(reg, Reals(b))))
    <3>1. OnEventsEnqueued(reg, Reals(b)) \in Registry(RealEvent)
      BY <2>1, <2>6, EnqueueType, BatchTypes
    <3> QED
      BY <2>4, <2>5, <2>6, <3>1
  <2>7. ASSUME NEW a \in NotifyAddr, Registrable(reg)
        PROVE  Covered(RegisterRequest(reg, a))
    <3>1. Recorded(reg, a) \in Registry(RealEvent)
      BY <2>1, <2>7, RecordedType, AsyncAssumption
    <3>2. Covered(Recorded(reg, a))
      BY <2>1 DEF Covered, Recorded, Registry
    <3> QED
      BY <2>1, <3>1, <3>2, CoveredMatch DEF RegisterRequest
  <2>8. ASSUME NEW a \in SelfAddr, NEW c \in Reasons
        PROVE  Covered(OnRequestComplete(reg, a, c))
    BY <2>1 DEF Covered, OnRequestComplete, Registry
  <2>9. ASSUME NEW i \in InState(reg, "PENDING")
        PROVE  Covered(Cancelled(reg, i))
    BY <2>1 DEF Covered, Cancelled, Registry
  <2>10. Covered(WaitForAnyRequest(reg))
    <3>1. CASE reg.signalCount = 0
      BY <2>1, <3>1 DEF WaitForAnyRequest
    <3>2. CASE reg.signalCount # 0 /\ reg.wakeLog = <<>>
      <4>1. /\ WaitForAnyRequest(reg).wakeLog = <<>>
            /\ WaitForAnyRequest(reg).signalCount = reg.signalCount - 1
        BY <2>1, <3>2 DEF WaitForAnyRequest, Registry
      <4>2. reg.signalCount - 1 \in Nat
        BY <2>1, <3>2 DEF Registry
      <4> QED
        BY <4>1, <4>2, EmptySeq DEF Covered
    <3>3. CASE reg.signalCount # 0 /\ reg.wakeLog # <<>>
      <4>1. /\ WaitForAnyRequest(reg).wakeLog = Tail(reg.wakeLog)
            /\ WaitForAnyRequest(reg).signalCount = reg.signalCount - 1
        BY <2>1, <3>3 DEF WaitForAnyRequest, Registry
      <4>2. Len(Tail(reg.wakeLog)) = Len(reg.wakeLog) - 1
        BY <2>1, <3>3, HeadTailProperties DEF Registry
      <4>3. Len(reg.wakeLog) \in Nat /\ reg.signalCount \in Nat
        BY <2>1 DEF Registry
      <4> QED
        BY <2>1, <4>1, <4>2, <4>3 DEF Covered
    <3> QED
      BY <3>1, <3>2, <3>3
  <2>11. CASE UNCHANGED vars
    BY <2>3, <2>11 DEF vars
  <2> QED
    BY <2>1, <2>2, <2>3, <2>4, <2>5, <2>6, <2>7, <2>8, <2>9, <2>10, <2>11, StepsOfRegistry
<1> QED
  BY <1>1, <1>2, RegistryTypeCorrect, PTL DEF Spec

-----------------------------------------------------------------------------
(* The invariant, as predicates on registries.                             *)

\* No id is in use before its registration.
IdsFresh(r) ==
  \A i \in RequestId : i >= r.nextRequest => r.requests[i].state = "ABSENT"

\* A live request belongs to a status word, and to one no other has.
WordsOwned(r) ==
  \A i \in RequestId :
    r.requests[i].state # "ABSENT" => r.requests[i].addr \in StatusAddr

WordsDiffer(r) ==
  \A i, j \in RequestId :
    /\ r.requests[i].state # "ABSENT" /\ r.requests[j].state # "ABSENT"
    /\ r.requests[i].addr = r.requests[j].addr
    => i = j

\* The line is the PENDING requests in the order of their ids, behind every
\* COMPLETED one.
LineInOrder(r) ==
  \A m, n \in 1..Len(r.pendingOrder) :
    m < n => r.pendingOrder[m] < r.pendingOrder[n]

LineIsPending(r) ==
  \A i \in RequestId :
    r.requests[i].state = "PENDING" <=>
      \E n \in 1..Len(r.pendingOrder) : r.pendingOrder[n] = i

ServedInOrder(r) ==
  \A i, j \in RequestId :
    r.requests[i].state = "COMPLETED" /\ r.requests[j].state = "PENDING" => i < j

\* The claims, as ClaimsArePrefix and CompletedAreBacked have them.
ClaimsInOrder(r) ==
  \A m, n \in 1..Len(r.eventFifo) :
    m < n /\ r.eventFifo[n].claimedBy # None =>
      /\ r.eventFifo[m].claimedBy # None
      /\ r.eventFifo[m].claimedBy < r.eventFifo[n].claimedBy

ClaimsBacked(r) ==
  \A p \in 1..Len(r.eventFifo) :
    r.eventFifo[p].claimedBy # None =>
      /\ r.requests[r.eventFifo[p].claimedBy].state = "COMPLETED"
      /\ r.requests[r.eventFifo[p].claimedBy].event = r.eventFifo[p].id

CompletionsBacked(r) ==
  \A i \in RequestId :
    r.requests[i].state = "COMPLETED" =>
      \E p \in 1..Len(r.eventFifo) : r.eventFifo[p].claimedBy = i

Ledgered(r) ==
  /\ IdsFresh(r)
  /\ WordsOwned(r)
  /\ WordsDiffer(r)
  /\ LineInOrder(r)
  /\ LineIsPending(r)
  /\ ServedInOrder(r)
  /\ ClaimsInOrder(r)
  /\ ClaimsBacked(r)
  /\ CompletionsBacked(r)

-----------------------------------------------------------------------------
\* The types the steps below need, one element at a time.
LEMMA Elements ==
  ASSUME NEW E, NEW r \in Registry(E)
  PROVE  /\ Len(r.pendingOrder) \in Nat
         /\ Len(r.eventFifo) \in Nat
         /\ DOMAIN r.pendingOrder = 1..Len(r.pendingOrder)
         /\ DOMAIN r.eventFifo = 1..Len(r.eventFifo)
         /\ \A n \in 1..Len(r.pendingOrder) : r.pendingOrder[n] \in RequestId
         /\ \A p \in 1..Len(r.eventFifo) :
              /\ r.eventFifo[p] \in Entry(E)
              /\ r.eventFifo[p].claimedBy \in RequestId \cup {None}
         /\ \A i \in RequestId :
              /\ r.requests[i] \in Request
              /\ r.requests[i].state \in {"ABSENT", "PENDING", "COMPLETED"}
         /\ r.nextRequest \in 1..(MaxRequests + 1)
         /\ \A i \in RequestId : i \in Nat /\ i # None
<1>1. \A p \in 1..Len(r.eventFifo) : r.eventFifo[p] \in Entry(E)
  BY DEF Registry
<1>2. \A p \in 1..Len(r.eventFifo) : r.eventFifo[p].claimedBy \in RequestId \cup {None}
  BY <1>1 DEF Entry
<1>3. \A i \in RequestId : r.requests[i] \in Request
  BY DEF Registry
<1>4. \A i \in RequestId : r.requests[i].state \in {"ABSENT", "PENDING", "COMPLETED"}
  BY <1>3 DEF Request
<1>5. /\ Len(r.pendingOrder) \in Nat
      /\ Len(r.eventFifo) \in Nat
      /\ DOMAIN r.pendingOrder = 1..Len(r.pendingOrder)
      /\ DOMAIN r.eventFifo = 1..Len(r.eventFifo)
      /\ \A n \in 1..Len(r.pendingOrder) : r.pendingOrder[n] \in RequestId
      /\ r.nextRequest \in 1..(MaxRequests + 1)
  BY DEF Registry
<1>6. \A i \in RequestId : i \in Nat /\ i # None
  BY RegistryAssumption DEF RequestId, None
<1> QED
  BY <1>1, <1>2, <1>3, <1>4, <1>5, <1>6

\* The matched events have the ranks from 1 to their number.
LEMMA MatchedRanks ==
  ASSUME NEW E, NEW r \in Registry(E)
  PROVE  /\ \A p \in Matched(r) : Rank(r, p) \in 1..Cardinality(Matched(r))
         /\ \A k \in 1..Cardinality(Matched(r)) :
              \E p \in Matched(r) : Rank(r, p) = k
<1> DEFINE L == Len(r.pendingOrder)
           U == Unclaimed(r)
           M == Matched(r)
           top == IF Cardinality(U) <= L THEN Cardinality(U) ELSE L
<1>1. /\ Len(r.eventFifo) \in Nat
      /\ L \in Nat
      /\ U \in SUBSET (1..Len(r.eventFifo))
      /\ IsFiniteSet(M)
      /\ \A p, m \in M : p # m => Rank(r, p) # Rank(r, m)
  BY MatchFacts
<1>2. /\ Cardinality(U) \in Nat
      /\ \A p \in U : Rank(r, p) \in 1..Cardinality(U)
      /\ \A k \in 1..Cardinality(U) : \E p \in U : Rank(r, p) = k
  BY <1>1, RankCounts DEF Rank
<1>3. top \in Nat /\ top <= L /\ top <= Cardinality(U)
  BY <1>1, <1>2
<1>4. \A p \in M : Rank(r, p) \in 1..top
  BY <1>1, <1>2 DEF Matched
<1>5. \A k \in 1..top : \E p \in M : Rank(r, p) = k
  BY <1>1, <1>2 DEF Matched
<1> HIDE DEF top, L, U, M
<1>6. Cardinality(M) = top
  <2> DEFINE g == [p \in M |-> Rank(r, p)]
  <2>1. g \in [M -> 1..top]
    BY <1>4
  <2>2. g \in Injection(M, 1..top)
    BY <1>1, <2>1 DEF Injection, IsInjective, M
  <2>3. g \in Surjection(M, 1..top)
    BY <1>5, <2>1 DEF Surjection
  <2>4. IsFiniteSet(1..top) /\ Cardinality(1..top) = top
    BY <1>3, FS_Interval
  <2>5. g \in Bijection(M, 1..top)
    BY <2>2, <2>3 DEF Bijection
  <2>6. ExistsBijection(M, 1..top)
    BY <2>5 DEF ExistsBijection
  <2> QED
    BY <1>1, <2>4, <2>6, FS_Bijection DEF M
<1> QED
  BY <1>4, <1>5, <1>6 DEF M

\* What one run of the matching loop does, field by field, when the line is in
\* order: the first n requests of the line are answered, the n-th by the n-th
\* unclaimed event.
LEMMA TryMatchFields ==
  ASSUME NEW E, NEW r \in Registry(E), LineInOrder(r)
  PROVE  LET t == TryMatch(r)
             n == Cardinality(Matched(r))
             L == Len(r.pendingOrder)
         IN
         /\ n \in 0..L
         /\ t.nextRequest = r.nextRequest
         /\ Len(t.pendingOrder) = L - n
         /\ \A k \in 1..(L - n) : t.pendingOrder[k] = r.pendingOrder[k + n]
         /\ Len(t.eventFifo) = Len(r.eventFifo)
         /\ \A p \in 1..Len(r.eventFifo) :
              /\ t.eventFifo[p].id = r.eventFifo[p].id
              /\ t.eventFifo[p].event = r.eventFifo[p].event
              /\ p \in Matched(r) => t.eventFifo[p].claimedBy = Partner(r, p)
              /\ p \notin Matched(r) => t.eventFifo[p].claimedBy = r.eventFifo[p].claimedBy
         /\ \A k \in 1..n : \E p \in Matched(r) : Partner(r, p) = r.pendingOrder[k]
         /\ \A p \in Matched(r) :
              \E k \in 1..n : k = Rank(r, p) /\ Partner(r, p) = r.pendingOrder[k]
         /\ \A p \in Matched(r) :
              /\ t.requests[Partner(r, p)].state = "COMPLETED"
              /\ t.requests[Partner(r, p)].event = r.eventFifo[p].id
         /\ \A i \in RequestId : t.requests[i].addr = r.requests[i].addr
         /\ \A i \in RequestId :
              (\A p \in Matched(r) : Partner(r, p) # i) => t.requests[i] = r.requests[i]
         /\ \A a \in StatusAddr :
              t.status[a] = IF \E p \in Matched(r) : r.requests[Partner(r, p)].addr = a
                            THEN "KErrNone" ELSE r.status[a]
<1> DEFINE t == TryMatch(r)
           M == Matched(r)
           n == Cardinality(M)
           L == Len(r.pendingOrder)
           done == {Partner(r, p) : p \in M}
           backer(i) == r.eventFifo[CHOOSE p \in M : Partner(r, p) = i].id
           addrs == {r.requests[i].addr : i \in done}
<1>1. /\ n \in 0..L
      /\ L \in Nat
      /\ Len(r.eventFifo) \in Nat
      /\ M \in SUBSET (1..Len(r.eventFifo))
      /\ \A p \in M : Rank(r, p) \in 1..L
      /\ \A p \in M : Partner(r, p) \in RequestId
      /\ \A p, m \in M : p # m => Rank(r, p) # Rank(r, m)
  BY MatchFacts DEF Matched
<1>2. /\ \A p \in M : Rank(r, p) \in 1..n
      /\ \A k \in 1..n : \E p \in M : Rank(r, p) = k
  BY MatchedRanks
<1>3. /\ DOMAIN r.eventFifo = 1..Len(r.eventFifo)
      /\ \A k \in 1..L : r.pendingOrder[k] \in RequestId
      /\ \A p \in 1..Len(r.eventFifo) : r.eventFifo[p] \in Entry(E)
      /\ \A i \in RequestId : r.requests[i] \in Request
      /\ \A i \in RequestId : i \in Nat
  BY Elements
<1>4. /\ t.pendingOrder = SubSeq(r.pendingOrder, n + 1, L)
      /\ t.nextRequest = r.nextRequest
      /\ t.eventFifo = [p \in DOMAIN r.eventFifo |->
           IF p \in M THEN [r.eventFifo[p] EXCEPT !.claimedBy = Partner(r, p)]
           ELSE r.eventFifo[p]]
      /\ t.requests = [i \in RequestId |->
           IF i \in done
           THEN [r.requests[i] EXCEPT !.state = "COMPLETED", !.event = backer(i)]
           ELSE r.requests[i]]
      /\ t.status = [a \in StatusAddr |->
           IF a \in addrs THEN "KErrNone" ELSE r.status[a]]
  BY DEF TryMatch, Registry
<1>5. Len(t.eventFifo) = Len(r.eventFifo)
  <2>1. TryMatch(r) \in Registry(E)
    BY TryMatchType
  <2>2. Len(t.eventFifo) \in Nat /\ DOMAIN t.eventFifo = 1..Len(t.eventFifo)
    BY <2>1, Elements
  <2>3. DOMAIN t.eventFifo = 1..Len(r.eventFifo)
    BY <1>3, <1>4
  <2> HIDE DEF t
  <2> QED
    BY <1>1, <2>2, <2>3
<1>6. /\ Len(t.pendingOrder) = L - n
      /\ \A k \in 1..(L - n) : t.pendingOrder[k] = r.pendingOrder[k + n]
  <2>1. \A k \in (n + 1)..L : r.pendingOrder[k] \in RequestId
    BY <1>1, <1>3
  <2> HIDE DEF n, t, L
  <2>2. /\ n + 1 \in Int /\ L \in Int
        /\ L - (n + 1) + 1 = L - n
        /\ (IF n + 1 <= L THEN L - (n + 1) + 1 ELSE 0) = L - n
        /\ \A k \in 1..(L - n) : (n + 1) + k - 1 = k + n
    BY <1>1
  <2> DEFINE rest == SubSeq(r.pendingOrder, n + 1, L)
  <2>3. /\ Len(rest) = (IF n + 1 <= L THEN L - (n + 1) + 1 ELSE 0)
        /\ \A k \in 1..(L - (n + 1) + 1) :
             rest[k] = r.pendingOrder[(n + 1) + k - 1]
    BY <2>1, <2>2, SubSeqProperties
  <2>4. t.pendingOrder = rest
    BY <1>4
  <2> HIDE DEF rest
  <2> QED
    BY <2>2, <2>3, <2>4
<1>7. ASSUME NEW p \in 1..Len(r.eventFifo)
      PROVE  /\ t.eventFifo[p].id = r.eventFifo[p].id
             /\ t.eventFifo[p].event = r.eventFifo[p].event
             /\ p \in M => t.eventFifo[p].claimedBy = Partner(r, p)
             /\ p \notin M => t.eventFifo[p].claimedBy = r.eventFifo[p].claimedBy
  <2>1. t.eventFifo[p] = IF p \in M
                         THEN [r.eventFifo[p] EXCEPT !.claimedBy = Partner(r, p)]
                         ELSE r.eventFifo[p]
    BY <1>3, <1>4
  <2>2. r.eventFifo[p] \in Entry(E)
    BY <1>3
  <2> HIDE DEF t, M
  <2> QED
    BY <2>1, <2>2 DEF Entry
<1>8. ASSUME NEW p \in M, NEW m \in M, Partner(r, p) = Partner(r, m)
      PROVE  p = m
  <2>1. Rank(r, p) \in 1..L /\ Rank(r, m) \in 1..L
    BY <1>1
  <2>2. /\ r.pendingOrder[Rank(r, p)] \in Nat
        /\ r.pendingOrder[Rank(r, p)] = r.pendingOrder[Rank(r, m)]
    BY <1>3, <1>8, <2>1 DEF Partner
  <2>3. Rank(r, p) = Rank(r, m)
    BY <1>1, <2>1, <2>2 DEF LineInOrder
  <2> QED
    BY <1>1, <2>3
<1>9. ASSUME NEW p \in M
      PROVE  /\ t.requests[Partner(r, p)].state = "COMPLETED"
             /\ t.requests[Partner(r, p)].event = r.eventFifo[p].id
  <2> DEFINE i == Partner(r, p)
  <2>1. i \in done /\ i \in RequestId
    BY <1>1
  <2>2. t.requests[i] = [r.requests[i] EXCEPT !.state = "COMPLETED", !.event = backer(i)]
    BY <1>4, <2>1
  <2>3. backer(i) = r.eventFifo[p].id
    BY <1>8
  <2>4. r.requests[i] \in Request
    BY <1>3, <2>1
  <2> HIDE DEF i, t, backer
  <2>5. t.requests[i].state = "COMPLETED" /\ t.requests[i].event = r.eventFifo[p].id
    BY <2>2, <2>3, <2>4 DEF Request
  <2> QED
    BY <2>5 DEF i
<1>10. ASSUME NEW i \in RequestId
       PROVE  /\ t.requests[i].addr = r.requests[i].addr
              /\ (\A p \in M : Partner(r, p) # i) => t.requests[i] = r.requests[i]
  <2>1. t.requests[i] = IF i \in done
           THEN [r.requests[i] EXCEPT !.state = "COMPLETED", !.event = backer(i)]
           ELSE r.requests[i]
    BY <1>4
  <2>2. (\A p \in M : Partner(r, p) # i) => i \notin done
    OBVIOUS
  <2>3. r.requests[i] \in Request
    BY <1>3
  <2> HIDE DEF t, done, backer
  <2> QED
    BY <2>1, <2>2, <2>3 DEF Request
<1>11. \A a \in StatusAddr :
         t.status[a] = IF \E p \in M : r.requests[Partner(r, p)].addr = a
                       THEN "KErrNone" ELSE r.status[a]
  <2> SUFFICES ASSUME NEW a \in StatusAddr
               PROVE  t.status[a] = IF \E p \in M : r.requests[Partner(r, p)].addr = a
                                    THEN "KErrNone" ELSE r.status[a]
    OBVIOUS
  <2>1. t.status[a] = IF a \in addrs THEN "KErrNone" ELSE r.status[a]
    BY <1>4
  <2>2. a \in addrs <=> \E p \in M : r.requests[Partner(r, p)].addr = a
    OBVIOUS
  <2> HIDE DEF addrs, t
  <2> QED
    BY <2>1, <2>2
<1>12. \A k \in 1..n : \E p \in M : Partner(r, p) = r.pendingOrder[k]
  BY <1>2 DEF Partner
<1>13. \A p \in M : \E k \in 1..n : k = Rank(r, p) /\ Partner(r, p) = r.pendingOrder[k]
  BY <1>2 DEF Partner
<1> HIDE DEF t, M, n, L
<1>14. QED
  BY <1>1, <1>4, <1>5, <1>6, <1>7, <1>9, <1>10, <1>11, <1>12, <1>13 DEF t, M, n, L

\* The matching loop keeps the ledger in order, whatever the ledger and the
\* line hold: the events it claims follow the claimed ones, and the requests it
\* answers follow the answered ones.
LEMMA TryMatchLedgered ==
  ASSUME NEW E, NEW r \in Registry(E), Ledgered(r)
  PROVE  Ledgered(TryMatch(r))
<1> DEFINE t == TryMatch(r)
           M == Matched(r)
           n == Cardinality(M)
           L == Len(r.pendingOrder)
           F == Len(r.eventFifo)
<1>1. LineInOrder(r)
  BY DEF Ledgered
<1>2. /\ n \in 0..L
      /\ t.nextRequest = r.nextRequest
      /\ Len(t.pendingOrder) = L - n
      /\ \A k \in 1..(L - n) : t.pendingOrder[k] = r.pendingOrder[k + n]
      /\ Len(t.eventFifo) = F
  BY <1>1, TryMatchFields
<1>3. \A p \in 1..F :
        /\ t.eventFifo[p].id = r.eventFifo[p].id
        /\ p \in M => t.eventFifo[p].claimedBy = Partner(r, p)
        /\ p \notin M => t.eventFifo[p].claimedBy = r.eventFifo[p].claimedBy
  BY <1>1, TryMatchFields
<1>4. /\ \A k \in 1..n : \E p \in M : Partner(r, p) = r.pendingOrder[k]
      /\ \A p \in M : \E k \in 1..n : k = Rank(r, p) /\ Partner(r, p) = r.pendingOrder[k]
  BY <1>1, TryMatchFields
<1>5. /\ \A p \in M : /\ t.requests[Partner(r, p)].state = "COMPLETED"
                      /\ t.requests[Partner(r, p)].event = r.eventFifo[p].id
      /\ \A i \in RequestId : t.requests[i].addr = r.requests[i].addr
      /\ \A i \in RequestId :
           (\A p \in M : Partner(r, p) # i) => t.requests[i] = r.requests[i]
  BY <1>1, TryMatchFields
<1>6. /\ L \in Nat
      /\ F \in Nat
      /\ \A k \in 1..L : r.pendingOrder[k] \in RequestId
      /\ \A p \in 1..F : r.eventFifo[p].claimedBy \in RequestId \cup {None}
      /\ \A i \in RequestId : r.requests[i].state \in {"ABSENT", "PENDING", "COMPLETED"}
      /\ r.nextRequest \in 1..(MaxRequests + 1)
      /\ \A i \in RequestId : i \in Nat /\ i # None
  BY Elements
<1>7. /\ M \in SUBSET (1..F)
      /\ \A p \in 1..F : p \in Unclaimed(r) <=> r.eventFifo[p].claimedBy = None
      /\ \A p \in Unclaimed(r) : p \in M <=> Rank(r, p) <= L
      /\ M \in SUBSET Unclaimed(r)
      /\ \A p \in M : Partner(r, p) \in RequestId
  BY MatchFacts DEF Matched, Unclaimed
<1>8. /\ \A p \in Unclaimed(r) : Rank(r, p) \in Nat
      /\ \A p, m \in Unclaimed(r) : p < m => Rank(r, p) < Rank(r, m)
  <2>1. Unclaimed(r) \in SUBSET (1..F) /\ F \in Nat
    BY MatchFacts
  <2> DEFINE U == Unclaimed(r)
  <2> HIDE DEF F, U
  <2>2. /\ Cardinality(U) \in Nat
        /\ \A p \in U : RankIn(U, p) \in 1..Cardinality(U)
        /\ \A p, m \in U : p < m => RankIn(U, p) < RankIn(U, m)
    BY <2>1, RankCounts DEF U
  <2>3. \A p \in U : RankIn(U, p) \in Nat
    BY <2>2
  <2> QED
    BY <2>2, <2>3 DEF Rank, U
<1> HIDE DEF t, M, n, L, F
\* A matched request was PENDING; the others keep their state.
<1>9. ASSUME NEW i \in RequestId
      PROVE  \/ /\ t.requests[i].state = r.requests[i].state
                /\ t.requests[i] = r.requests[i]
                /\ \A k \in 1..n : r.pendingOrder[k] # i
             \/ /\ t.requests[i].state = "COMPLETED"
                /\ r.requests[i].state = "PENDING"
                /\ \E k \in 1..n : r.pendingOrder[k] = i
  <2>1. CASE \A p \in M : Partner(r, p) # i
    BY <1>4, <1>5, <2>1
  <2>2. CASE \E p \in M : Partner(r, p) = i
    <3>1. PICK k \in 1..n : r.pendingOrder[k] = i
      BY <1>4, <2>2
    <3>2. k \in 1..L
      BY <1>2, <1>6
    <3>3. r.requests[i].state = "PENDING"
      BY <3>1, <3>2 DEF Ledgered, LineIsPending, L
    <3> QED
      BY <1>5, <2>2, <3>1, <3>3
  <2> QED
    BY <2>1, <2>2
<1>10. IdsFresh(t)
  BY <1>2, <1>9 DEF Ledgered, IdsFresh
<1>11. WordsOwned(t) /\ WordsDiffer(t)
  BY <1>5, <1>9 DEF Ledgered, WordsOwned, WordsDiffer
<1>12. LineInOrder(t)
  <2> SUFFICES ASSUME NEW a \in 1..(L - n), NEW b \in 1..(L - n), a < b
               PROVE  t.pendingOrder[a] < t.pendingOrder[b]
    BY <1>2 DEF LineInOrder
  <2>1. a + n \in 1..L /\ b + n \in 1..L /\ a + n < b + n
    BY <1>2, <1>6
  <2>2. r.pendingOrder[a + n] < r.pendingOrder[b + n]
    BY <1>1, <2>1 DEF LineInOrder, L
  <2> QED
    BY <1>2, <2>2
<1>13. LineIsPending(t)
  <2> SUFFICES ASSUME NEW i \in RequestId
               PROVE  t.requests[i].state = "PENDING" <=>
                        \E k \in 1..(L - n) : t.pendingOrder[k] = i
    BY <1>2 DEF LineIsPending
  <2>1. ASSUME t.requests[i].state = "PENDING"
        PROVE  \E k \in 1..(L - n) : t.pendingOrder[k] = i
    <3>1. r.requests[i].state = "PENDING" /\ \A k \in 1..n : r.pendingOrder[k] # i
      BY <1>9, <2>1
    <3>2. PICK k \in 1..L : r.pendingOrder[k] = i
      BY <3>1 DEF Ledgered, LineIsPending, L
    <3>3. k - n \in 1..(L - n) /\ (k - n) + n = k
      BY <1>2, <1>6, <3>1, <3>2
    <3>4. t.pendingOrder[k - n] = i
      BY <1>2, <3>2, <3>3
    <3> QED
      BY <3>3, <3>4
  <2>2. ASSUME NEW k \in 1..(L - n), t.pendingOrder[k] = i
        PROVE  t.requests[i].state = "PENDING"
    <3>1. k + n \in 1..L /\ r.pendingOrder[k + n] = i
      BY <1>2, <1>6, <2>2, SMTT(30)
    <3>2. r.requests[i].state = "PENDING"
      BY <3>1 DEF Ledgered, LineIsPending, L
    <3>3. ASSUME NEW j \in 1..n
          PROVE  r.pendingOrder[j] # i
      <4>1. j \in 1..L /\ j < k + n
        BY <1>2, <1>6
      <4>2. r.pendingOrder[j] < r.pendingOrder[k + n]
        BY <1>1, <3>1, <4>1 DEF LineInOrder, L
      <4> QED
        BY <1>6, <3>1, <4>1, <4>2
    <3> QED
      BY <1>9, <3>2, <3>3
  <2> QED
    BY <2>1, <2>2
<1>14. ServedInOrder(t)
  <2> SUFFICES ASSUME NEW i \in RequestId, NEW j \in RequestId,
                      t.requests[i].state = "COMPLETED", t.requests[j].state = "PENDING"
               PROVE  i < j
    BY DEF ServedInOrder
  <2>1. r.requests[j].state = "PENDING" /\ \A k \in 1..n : r.pendingOrder[k] # j
    BY <1>9
  <2>2. CASE r.requests[i].state = "COMPLETED"
    BY <2>1, <2>2 DEF Ledgered, ServedInOrder
  <2>3. CASE \E k \in 1..n : r.pendingOrder[k] = i
    <3>1. PICK k \in 1..n : r.pendingOrder[k] = i
      BY <2>3
    <3>2. PICK m \in 1..L : r.pendingOrder[m] = j
      BY <2>1 DEF Ledgered, LineIsPending, L
    <3>3. k \in 1..L /\ k < m
      BY <1>2, <1>6, <2>1, <3>2
    <3> QED
      BY <1>1, <3>1, <3>2, <3>3 DEF LineInOrder, L
  <2> QED
    BY <1>9, <2>2, <2>3
\* A claim made before is a claim still; a new one is of a matched event.
<1>15. ASSUME NEW p \in 1..F, t.eventFifo[p].claimedBy # None
       PROVE  \/ /\ p \in M
                 /\ t.eventFifo[p].claimedBy = Partner(r, p)
                 /\ r.requests[Partner(r, p)].state = "PENDING"
              \/ /\ p \notin M /\ p \notin Unclaimed(r)
                 /\ t.eventFifo[p].claimedBy = r.eventFifo[p].claimedBy
                 /\ r.eventFifo[p].claimedBy # None
                 /\ r.eventFifo[p].claimedBy \in RequestId
                 /\ r.requests[r.eventFifo[p].claimedBy].state = "COMPLETED"
  <2>1. CASE p \in M
    <3>1. PICK k \in 1..n : Partner(r, p) = r.pendingOrder[k]
      BY <1>4, <2>1
    <3>2. k \in 1..L
      BY <1>2, <1>6
    <3>3. r.requests[Partner(r, p)].state = "PENDING"
      BY <1>7, <2>1, <3>1, <3>2 DEF Ledgered, LineIsPending, L
    <3> QED
      BY <1>3, <2>1, <3>3
  <2>2. CASE p \notin M
    <3>1. r.eventFifo[p].claimedBy # None /\ r.eventFifo[p].claimedBy \in RequestId
      BY <1>3, <1>6, <1>15, <2>2
    <3>2. r.requests[r.eventFifo[p].claimedBy].state = "COMPLETED"
      BY <3>1 DEF Ledgered, ClaimsBacked, F
    <3> QED
      BY <1>3, <1>7, <2>2, <3>1, <3>2
  <2> QED
    BY <2>1, <2>2
<1>16. ClaimsInOrder(t)
  <2> SUFFICES ASSUME NEW a \in 1..F, NEW b \in 1..F, a < b,
                      t.eventFifo[b].claimedBy # None
               PROVE  /\ t.eventFifo[a].claimedBy # None
                      /\ t.eventFifo[a].claimedBy < t.eventFifo[b].claimedBy
    BY <1>2 DEF ClaimsInOrder
  <2>1. CASE b \notin M
    <3>1. r.eventFifo[b].claimedBy # None /\ t.eventFifo[b].claimedBy = r.eventFifo[b].claimedBy
      BY <1>15, <2>1
    <3>2. /\ r.eventFifo[a].claimedBy # None
          /\ r.eventFifo[a].claimedBy < r.eventFifo[b].claimedBy
      BY <3>1 DEF Ledgered, ClaimsInOrder, F
    <3>3. a \notin M
      BY <1>7, <3>2
    <3> QED
      BY <1>3, <3>1, <3>2, <3>3
  <2>2. CASE b \in M /\ a \notin Unclaimed(r)
    <3>1. a \notin M /\ r.eventFifo[a].claimedBy # None
      BY <1>7, <2>2
    <3>2. t.eventFifo[a].claimedBy # None
      BY <1>3, <3>1
    <3>3. /\ t.eventFifo[a].claimedBy \in RequestId
          /\ r.requests[t.eventFifo[a].claimedBy].state = "COMPLETED"
      BY <1>15, <3>1, <3>2
    <3>4. /\ t.eventFifo[b].claimedBy \in RequestId
          /\ r.requests[t.eventFifo[b].claimedBy].state = "PENDING"
      BY <1>7, <1>15, <2>2
    <3> QED
      BY <3>2, <3>3, <3>4 DEF Ledgered, ServedInOrder
  <2>3. CASE b \in M /\ a \in Unclaimed(r)
    <3>1. b \in Unclaimed(r) /\ Rank(r, b) <= L /\ Rank(r, a) < Rank(r, b)
      BY <1>7, <1>8, <2>3
    <3>2. a \in M
      BY <1>6, <1>7, <1>8, <2>3, <3>1
    <3>3. PICK k \in 1..n : k = Rank(r, a) /\ Partner(r, a) = r.pendingOrder[k]
      BY <1>4, <3>2
    <3>4. PICK m \in 1..n : m = Rank(r, b) /\ Partner(r, b) = r.pendingOrder[m]
      BY <1>4, <2>3
    <3>5. k \in 1..L /\ m \in 1..L /\ k < m
      BY <1>2, <1>6, <3>1, <3>3, <3>4
    <3>6. r.pendingOrder[k] < r.pendingOrder[m]
      BY <1>1, <3>5 DEF LineInOrder, L
    <3>7. t.eventFifo[a].claimedBy = Partner(r, a) /\ t.eventFifo[b].claimedBy = Partner(r, b)
      BY <1>3, <2>3, <3>2
    <3> QED
      BY <1>6, <1>7, <3>2, <3>3, <3>4, <3>6, <3>7
  <2> QED
    BY <2>1, <2>2, <2>3
<1>17. ClaimsBacked(t)
  <2> SUFFICES ASSUME NEW p \in 1..F, t.eventFifo[p].claimedBy # None
               PROVE  /\ t.requests[t.eventFifo[p].claimedBy].state = "COMPLETED"
                      /\ t.requests[t.eventFifo[p].claimedBy].event = t.eventFifo[p].id
    BY <1>2 DEF ClaimsBacked
  <2>1. CASE p \in M
    BY <1>3, <1>5, <2>1
  <2>2. CASE p \notin M
    <3> DEFINE i == r.eventFifo[p].claimedBy
    <3>1. /\ t.eventFifo[p].claimedBy = i /\ i \in RequestId /\ i # None
          /\ r.requests[i].state = "COMPLETED"
      BY <1>15, <2>2
    <3>2. t.requests[i] = r.requests[i]
      BY <1>9, <3>1
    <3>3. r.requests[i].event = r.eventFifo[p].id
      BY <3>1 DEF Ledgered, ClaimsBacked, F
    <3> QED
      BY <1>3, <3>1, <3>2, <3>3
  <2> QED
    BY <2>1, <2>2
<1>18. CompletionsBacked(t)
  <2> SUFFICES ASSUME NEW i \in RequestId, t.requests[i].state = "COMPLETED"
               PROVE  \E p \in 1..F : t.eventFifo[p].claimedBy = i
    BY <1>2 DEF CompletionsBacked
  <2>1. CASE \E k \in 1..n : r.pendingOrder[k] = i
    BY <1>3, <1>4, <1>7, <2>1
  <2>2. CASE r.requests[i].state = "COMPLETED"
    <3>1. PICK p \in 1..F : r.eventFifo[p].claimedBy = i
      BY <2>2 DEF Ledgered, CompletionsBacked, F
    <3>2. p \notin M
      BY <1>6, <1>7, <3>1
    <3> QED
      BY <1>3, <3>1, <3>2
  <2> QED
    BY <1>9, <2>1, <2>2
<1> QED
  BY <1>10, <1>11, <1>12, <1>13, <1>14, <1>16, <1>17, <1>18 DEF Ledgered, t

-----------------------------------------------------------------------------
\* Every other operation keeps it too.  New events are unclaimed, and stand
\* behind all others ...
LEMMA AppendedLedgered ==
  ASSUME NEW E, NEW r \in Registry(E), NEW evs \in Seq(E), Enqueueable(r, evs),
         Ledgered(r)
  PROVE  Ledgered([r EXCEPT !.eventFifo = r.eventFifo \o Entries(r, evs),
                            !.nextEvent = r.nextEvent + Len(evs)])
<1> DEFINE t == [r EXCEPT !.eventFifo = r.eventFifo \o Entries(r, evs),
                          !.nextEvent = r.nextEvent + Len(evs)]
           F == Len(r.eventFifo)
           G == Len(evs)
<1>1. /\ t.requests = r.requests
      /\ t.pendingOrder = r.pendingOrder
      /\ t.nextRequest = r.nextRequest
      /\ t.eventFifo = r.eventFifo \o Entries(r, evs)
  BY DEF Registry
<1>2. F \in Nat /\ G \in Nat
  BY Elements
<1>3. /\ Len(Entries(r, evs)) = G
      /\ \A k \in 1..G : Entries(r, evs)[k].claimedBy = None
  BY <1>2, EntriesType DEF Entries
<1>4. /\ Len(t.eventFifo) = F + G
      /\ \A p \in 1..(F + G) :
           t.eventFifo[p] = IF p <= F THEN r.eventFifo[p] ELSE Entries(r, evs)[p - F]
  <2>1. r.eventFifo \in Seq(Entry(E)) /\ Entries(r, evs) \in Seq(Entry(E))
    BY EntriesType DEF Registry
  <2> DEFINE new == Entries(r, evs)
  <2> HIDE DEF t, new
  <2>2. /\ Len(r.eventFifo \o new) = Len(r.eventFifo) + Len(new)
        /\ \A p \in 1..(Len(r.eventFifo) + Len(new)) :
             (r.eventFifo \o new)[p] =
               IF p <= Len(r.eventFifo) THEN r.eventFifo[p] ELSE new[p - Len(r.eventFifo)]
    BY <2>1, ConcatProperties DEF new
  <2>3. Len(new) = G
    BY <1>3 DEF new
  <2> QED
    BY <1>1, <2>2, <2>3 DEF new
<1>5. \A p \in 1..(F + G) :
        t.eventFifo[p].claimedBy # None =>
          p \in 1..F /\ t.eventFifo[p] = r.eventFifo[p]
  <2> SUFFICES ASSUME NEW p \in 1..(F + G), t.eventFifo[p].claimedBy # None
               PROVE  p \in 1..F /\ t.eventFifo[p] = r.eventFifo[p]
    OBVIOUS
  <2>1. p <= F
    <3>1. SUFFICES ASSUME p > F PROVE FALSE
      BY <1>2
    <3>2. p - F \in 1..G /\ ~(p <= F)
      BY <1>2, <3>1
    <3> HIDE DEF t, F, G
    <3> QED
      BY <1>3, <1>4, <3>2
  <2> HIDE DEF t
  <2> QED
    BY <1>2, <1>4, <2>1
<1>6. \A p \in 1..F : p \in 1..(F + G) /\ t.eventFifo[p] = r.eventFifo[p]
  <2> HIDE DEF t
  <2> QED
    BY <1>2, <1>4
<1> HIDE DEF t, F, G
<1>7. ClaimsInOrder(t)
  <2> SUFFICES ASSUME NEW a \in 1..(F + G), NEW b \in 1..(F + G), a < b,
                      t.eventFifo[b].claimedBy # None
               PROVE  /\ t.eventFifo[a].claimedBy # None
                      /\ t.eventFifo[a].claimedBy < t.eventFifo[b].claimedBy
    BY <1>4 DEF ClaimsInOrder
  <2>1. b \in 1..F /\ a \in 1..F
    BY <1>2, <1>5
  <2> QED
    BY <1>5, <1>6, <2>1 DEF Ledgered, ClaimsInOrder, F
<1>8. ClaimsBacked(t)
  BY <1>1, <1>4, <1>5 DEF Ledgered, ClaimsBacked, F
<1>9. CompletionsBacked(t)
  BY <1>1, <1>4, <1>6 DEF Ledgered, CompletionsBacked, F
<1> QED
  BY <1>1, <1>7, <1>8, <1>9
     DEF t, Ledgered, IdsFresh, WordsOwned, WordsDiffer, LineInOrder, LineIsPending,
         ServedInOrder

\* ... a new request has a fresh id, which puts it behind all others, and a word
\* of its own because register_request refuses a duplicate ...
LEMMA RecordedLedgered ==
  ASSUME NEW E, NEW r \in Registry(E), NEW a \in StatusAddr, Registrable(r),
         Live(r, a) = {}, Ledgered(r)
  PROVE  Ledgered(Recorded(r, a))
<1> DEFINE t == Recorded(r, a)
           L == Len(r.pendingOrder)
           new == r.nextRequest
<1>1. /\ L \in Nat
      /\ \A k \in 1..L : r.pendingOrder[k] \in RequestId
      /\ \A i \in RequestId : r.requests[i].state \in {"ABSENT", "PENDING", "COMPLETED"}
      /\ new \in 1..(MaxRequests + 1)
      /\ \A i \in RequestId : i \in Nat /\ i # None
      /\ \A p \in 1..Len(r.eventFifo) : r.eventFifo[p].claimedBy \in RequestId \cup {None}
  BY Elements
<1>2. new \in RequestId
  BY <1>1, RegistryAssumption DEF Registrable, RequestId
<1>3. /\ t.nextRequest = new + 1
      /\ t.eventFifo = r.eventFifo
      /\ t.pendingOrder = Append(r.pendingOrder, new)
      /\ t.requests = [r.requests EXCEPT
           ![new] = [addr |-> a, state |-> "PENDING", event |-> None]]
  BY DEF Recorded, Registry
<1>4. /\ t.requests[new].addr = a
      /\ t.requests[new].state = "PENDING"
      /\ \A i \in RequestId : i # new => t.requests[i] = r.requests[i]
  <2>1. r.requests \in [RequestId -> Request]
    BY DEF Registry
  <2> HIDE DEF t, new
  <2> QED
    BY <1>2, <1>3, <2>1
<1>5. /\ Len(t.pendingOrder) = L + 1
      /\ \A k \in 1..L : t.pendingOrder[k] = r.pendingOrder[k]
      /\ t.pendingOrder[L + 1] = new
  <2>1. r.pendingOrder \in Seq(RequestId)
    BY DEF Registry
  <2> HIDE DEF t, new
  <2> QED
    BY <1>2, <1>3, <2>1, AppendProperties
<1>6. r.requests[new].state = "ABSENT"
  BY <1>1, <1>2 DEF Ledgered, IdsFresh
<1>7. \A i \in RequestId : r.requests[i].state # "ABSENT" => i < new
  BY <1>1 DEF Ledgered, IdsFresh
<1>8. \A k \in 1..L : r.pendingOrder[k] < new
  <2> SUFFICES ASSUME NEW k \in 1..L
               PROVE  r.pendingOrder[k] < new
    OBVIOUS
  <2>1. r.requests[r.pendingOrder[k]].state = "PENDING"
    BY <1>1 DEF Ledgered, LineIsPending
  <2> QED
    BY <1>1, <1>7, <2>1
<1>9. \A i \in RequestId : r.requests[i].state # "ABSENT" => r.requests[i].addr # a
  BY <1>1 DEF Live
<1> HIDE DEF t, L, new
<1>10. IdsFresh(t)
  BY <1>1, <1>2, <1>3, <1>4 DEF Ledgered, IdsFresh, new
<1>11. WordsOwned(t) /\ WordsDiffer(t)
  BY <1>4, <1>9 DEF Ledgered, WordsOwned, WordsDiffer
<1>12. LineInOrder(t)
  <2> SUFFICES ASSUME NEW m \in 1..(L + 1), NEW n \in 1..(L + 1), m < n
               PROVE  t.pendingOrder[m] < t.pendingOrder[n]
    BY <1>5 DEF LineInOrder
  <2>1. CASE n = L + 1
    BY <1>1, <1>5, <1>8, <2>1
  <2>2. CASE n # L + 1
    <3>1. m \in 1..L /\ n \in 1..L
      BY <1>1, <2>2
    <3> QED
      BY <1>5, <3>1 DEF Ledgered, LineInOrder, L
  <2> QED
    BY <2>1, <2>2
<1>13. LineIsPending(t)
  <2>1. \A i \in RequestId : r.requests[i].state = "PENDING" <=>
          \E k \in 1..L : r.pendingOrder[k] = i
    BY DEF Ledgered, LineIsPending, L
  <2>2. \A k \in 1..(L + 1) : k \in 1..L \/ k = L + 1
    BY <1>1
  <2>3. \A k \in 1..L : k \in 1..(L + 1)
    BY <1>1
  <2>4. L + 1 \in 1..(L + 1)
    BY <1>1
  <2>5. ASSUME NEW i \in RequestId
        PROVE  t.requests[i].state = "PENDING" <=>
                 \E k \in 1..(L + 1) : t.pendingOrder[k] = i
    <3>1. CASE i = new
      BY <1>4, <1>5, <2>4, <3>1
    <3>2. CASE i # new
      BY <1>4, <1>5, <2>1, <2>2, <2>3, <3>2
    <3> QED
      BY <3>1, <3>2
  <2> QED
    BY <1>5, <2>5 DEF LineIsPending
<1>14. ServedInOrder(t)
  BY <1>4, <1>7 DEF Ledgered, ServedInOrder
<1>15. ClaimsInOrder(t)
  BY <1>3 DEF Ledgered, ClaimsInOrder
<1>16. ClaimsBacked(t)
  BY <1>1, <1>3, <1>4, <1>6 DEF Ledgered, ClaimsBacked
<1>17. CompletionsBacked(t)
  BY <1>3, <1>4 DEF Ledgered, CompletionsBacked
<1> QED
  BY <1>10, <1>11, <1>12, <1>13, <1>14, <1>15, <1>16, <1>17 DEF Ledgered, t

\* ... fetching an event takes the claim with the least id, and with it the
\* only request that it answered ...
LEMMA ConsumedFields ==
  ASSUME NEW E, NEW r \in Registry(E), r.eventFifo # <<>>, Ledgered(r)
  PROVE  LET t == OnEventConsumed(r)
             F == Len(r.eventFifo)
             i == r.eventFifo[1].claimedBy
         IN
         /\ F \in Nat \ {0}
         /\ Len(t.eventFifo) = F - 1
         /\ \A p \in 1..(F - 1) : t.eventFifo[p] = r.eventFifo[p + 1]
         /\ t.pendingOrder = r.pendingOrder
         /\ t.nextRequest = r.nextRequest
         /\ t.status = r.status
         /\ i # None => t.requests[i].state = "ABSENT"
         /\ \A j \in RequestId : j # i => t.requests[j] = r.requests[j]
<1> DEFINE t == OnEventConsumed(r)
           i == r.eventFifo[1].claimedBy
<1>1. Len(r.eventFifo) \in Nat \ {0}
  BY DEF Registry
<1>2. Head(r.eventFifo) = r.eventFifo[1]
  BY DEF Registry
<1>3. i \in RequestId \cup {None}
  BY <1>1, Elements
<1>4. /\ t.eventFifo = Tail(r.eventFifo)
      /\ t.pendingOrder = r.pendingOrder
      /\ t.nextRequest = r.nextRequest
      /\ t.status = r.status
      /\ t.requests = IF i # None /\ r.requests[i].state = "COMPLETED"
                      THEN [r.requests EXCEPT ![i] = Absent]
                      ELSE r.requests
  BY <1>2 DEF OnEventConsumed, Registry
<1>5. /\ Len(t.eventFifo) = Len(r.eventFifo) - 1
      /\ \A p \in 1..(Len(r.eventFifo) - 1) : t.eventFifo[p] = r.eventFifo[p + 1]
  BY <1>4, HeadTailProperties DEF Registry
<1>6. i # None => r.requests[i].state = "COMPLETED"
  BY <1>1 DEF Ledgered, ClaimsBacked
<1>7. r.requests \in [RequestId -> Request]
  BY DEF Registry
<1>8. /\ i # None => t.requests[i].state = "ABSENT"
      /\ \A j \in RequestId : j # i => t.requests[j] = r.requests[j]
  <2> HIDE DEF i, t
  <2> QED
    BY <1>3, <1>4, <1>6, <1>7 DEF Absent
<1> QED
  BY <1>1, <1>4, <1>5, <1>8

\* ... and the ledger stays in order.
LEMMA ConsumedLedgered ==
  ASSUME NEW E, NEW r \in Registry(E), Ledgered(r)
  PROVE  Ledgered(OnEventConsumed(r))
<1>1. CASE r.eventFifo = <<>>
  BY <1>1 DEF OnEventConsumed
<1>2. CASE r.eventFifo # <<>>
  <2> DEFINE t == OnEventConsumed(r)
             F == Len(r.eventFifo)
             i == r.eventFifo[1].claimedBy
  <2>1. /\ F \in Nat \ {0}
        /\ Len(t.eventFifo) = F - 1
        /\ \A p \in 1..(F - 1) : t.eventFifo[p] = r.eventFifo[p + 1]
        /\ t.pendingOrder = r.pendingOrder
        /\ t.nextRequest = r.nextRequest
        /\ i # None => t.requests[i].state = "ABSENT"
        /\ \A j \in RequestId : j # i => t.requests[j] = r.requests[j]
    BY <1>2, ConsumedFields
  <2>2. /\ \A p \in 1..F : r.eventFifo[p].claimedBy \in RequestId \cup {None}
        /\ \A j \in RequestId : j # None /\ j \in Nat
        /\ \A k \in 1..Len(r.pendingOrder) : r.pendingOrder[k] \in RequestId
    BY Elements
  <2>3. /\ i \in RequestId \cup {None}
        /\ i # None => r.requests[i].state = "COMPLETED"
    BY <2>1, <2>2 DEF Ledgered, ClaimsBacked
  <2> HIDE DEF t, F, i
  <2>4. ASSUME NEW j \in RequestId
        PROVE  \/ j # i /\ t.requests[j] = r.requests[j]
               \/ /\ j = i /\ t.requests[j].state = "ABSENT"
                  /\ r.requests[j].state = "COMPLETED"
    BY <2>1, <2>2, <2>3
  <2>5. IdsFresh(t) /\ WordsOwned(t) /\ WordsDiffer(t)
    BY <2>1, <2>4 DEF Ledgered, IdsFresh, WordsOwned, WordsDiffer
  <2>6. /\ LineInOrder(t)
        /\ LineIsPending(t)
        /\ ServedInOrder(t)
    <3>1. LineInOrder(t)
      BY <2>1 DEF Ledgered, LineInOrder
    <3>2. \A j \in RequestId :
            /\ t.requests[j].state = "PENDING" <=> r.requests[j].state = "PENDING"
            /\ t.requests[j].state = "COMPLETED" => r.requests[j].state = "COMPLETED"
      BY <2>4
    <3>3. LineIsPending(t)
      BY <2>1, <3>2 DEF Ledgered, LineIsPending
    <3>4. ServedInOrder(t)
      BY <3>2 DEF Ledgered, ServedInOrder
    <3> QED
      BY <3>1, <3>3, <3>4
  <2>7. \A p \in 1..(F - 1) : p + 1 \in 1..F /\ 1 < p + 1
    BY <2>1
  <2>8. ClaimsInOrder(t)
    <3> SUFFICES ASSUME NEW a \in 1..(F - 1), NEW b \in 1..(F - 1), a < b,
                        t.eventFifo[b].claimedBy # None
                 PROVE  /\ t.eventFifo[a].claimedBy # None
                        /\ t.eventFifo[a].claimedBy < t.eventFifo[b].claimedBy
      BY <2>1 DEF ClaimsInOrder
    <3>1. a + 1 < b + 1
      BY <2>1
    <3> QED
      BY <2>1, <2>7, <3>1 DEF Ledgered, ClaimsInOrder, F
  <2>9. ASSUME NEW p \in 1..(F - 1), r.eventFifo[p + 1].claimedBy # None
        PROVE  r.eventFifo[p + 1].claimedBy \in RequestId \ {i}
    <3>1. 1 \in 1..F
      BY <2>1
    <3>2. i # None /\ i < r.eventFifo[p + 1].claimedBy
      BY <2>7, <2>9, <3>1 DEF Ledgered, ClaimsInOrder, F, i
    <3> QED
      BY <2>2, <2>3, <2>7, <2>9, <3>2
  <2>10. ClaimsBacked(t)
    <3> SUFFICES ASSUME NEW p \in 1..(F - 1), t.eventFifo[p].claimedBy # None
                 PROVE  /\ t.requests[t.eventFifo[p].claimedBy].state = "COMPLETED"
                        /\ t.requests[t.eventFifo[p].claimedBy].event = t.eventFifo[p].id
      BY <2>1 DEF ClaimsBacked
    <3>1. t.eventFifo[p] = r.eventFifo[p + 1] /\ p + 1 \in 1..F
      BY <2>1, <2>7
    <3>2. /\ r.requests[r.eventFifo[p + 1].claimedBy].state = "COMPLETED"
          /\ r.requests[r.eventFifo[p + 1].claimedBy].event = r.eventFifo[p + 1].id
      BY <3>1 DEF Ledgered, ClaimsBacked, F
    <3>3. t.requests[r.eventFifo[p + 1].claimedBy] = r.requests[r.eventFifo[p + 1].claimedBy]
      BY <2>1, <2>9, <3>1
    <3> QED
      BY <3>1, <3>2, <3>3
  <2>11. CompletionsBacked(t)
    <3> SUFFICES ASSUME NEW j \in RequestId, t.requests[j].state = "COMPLETED"
                 PROVE  \E p \in 1..(F - 1) : t.eventFifo[p].claimedBy = j
      BY <2>1 DEF CompletionsBacked
    <3>1. j # i /\ r.requests[j].state = "COMPLETED"
      BY <2>4
    <3>2. PICK p \in 1..F : r.eventFifo[p].claimedBy = j
      BY <3>1 DEF Ledgered, CompletionsBacked, F
    <3>3. p # 1
      BY <3>1, <3>2 DEF i
    <3>4. p - 1 \in 1..(F - 1) /\ (p - 1) + 1 = p
      BY <2>1, <3>3
    <3>5. t.eventFifo[p - 1] = r.eventFifo[p]
      BY <2>1, <3>4
    <3> QED
      BY <3>2, <3>4, <3>5
  <2> QED
    BY <2>5, <2>6, <2>8, <2>10, <2>11 DEF Ledgered, t
<1> QED
  BY <1>1, <1>2

\* ... deque.remove takes one element out and closes the gap ...
LEMMA RemoveFirstFields ==
  ASSUME NEW S, NEW s \in Seq(S), NEW e, \E k \in 1..Len(s) : s[k] = e
  PROVE  \E m \in 1..Len(s) :
           /\ s[m] = e
           /\ Len(RemoveFirst(s, e)) = Len(s) - 1
           /\ \A k \in 1..(Len(s) - 1) :
                RemoveFirst(s, e)[k] = IF k < m THEN s[k] ELSE s[k + 1]
<1> DEFINE I == {k \in 1..Len(s) : s[k] = e}
           m == SelectInSeq(s, LAMBDA v : v = e)
<1>1. Len(s) \in Nat /\ \A k \in 1..Len(s) : s[k] \in S
  OBVIOUS
<1>2. I # {} /\ I \in SUBSET (1..Len(s))
  OBVIOUS
<1>3. m \in I
  <2>1. m = Min(I)
    BY <1>2 DEF SelectInSeq
  <2>2. \E k \in I : \A j \in I : k <= j
    BY <1>1, <1>2, FirstPosition
  <2> QED
    BY <2>1, <2>2 DEF Min
<1>4. m \in 1..Len(s) /\ s[m] = e
  BY <1>3
<1>5. RemoveFirst(s, e) = SubSeq(s, 1, m - 1) \o SubSeq(s, m + 1, Len(s))
  BY DEF RemoveFirst, RemoveAt
<1> HIDE DEF m
<1> DEFINE before == SubSeq(s, 1, m - 1)
           after == SubSeq(s, m + 1, Len(s))
<1>6. /\ before \in Seq(S)
      /\ Len(before) = m - 1
      /\ \A k \in 1..(m - 1) : before[k] = s[k]
  <2>1. /\ 1 \in Int /\ m - 1 \in Int
        /\ \A k \in 1..(m - 1) : s[k] \in S
        /\ (IF 1 <= m - 1 THEN (m - 1) - 1 + 1 ELSE 0) = m - 1
        /\ (m - 1) - 1 + 1 = m - 1
        /\ \A k \in 1..(m - 1) : 1 + k - 1 = k
    BY <1>1, <1>4
  <2> QED
    BY <2>1, SubSeqProperties
<1>7. /\ after \in Seq(S)
      /\ Len(after) = Len(s) - m
      /\ \A k \in 1..(Len(s) - m) : after[k] = s[k + m]
  <2>1. /\ m + 1 \in Int /\ Len(s) \in Int
        /\ \A k \in (m + 1)..Len(s) : s[k] \in S
        /\ (IF m + 1 <= Len(s) THEN Len(s) - (m + 1) + 1 ELSE 0) = Len(s) - m
        /\ Len(s) - (m + 1) + 1 = Len(s) - m
        /\ \A k \in 1..(Len(s) - m) : (m + 1) + k - 1 = k + m
    BY <1>1, <1>4
  <2> QED
    BY <2>1, SubSeqProperties
<1> HIDE DEF before, after
<1> DEFINE t == before \o after
<1>8. /\ Len(t) = Len(s) - 1
      /\ \A k \in 1..(Len(s) - 1) :
           t[k] = IF k <= m - 1 THEN before[k] ELSE after[k - (m - 1)]
  <2>1. Len(before) + Len(after) = Len(s) - 1
    BY <1>1, <1>4, <1>6, <1>7
  <2>2. /\ Len(t) = Len(before) + Len(after)
        /\ \A k \in 1..(Len(before) + Len(after)) :
             t[k] = IF k <= Len(before) THEN before[k] ELSE after[k - Len(before)]
    BY <1>6, <1>7, ConcatProperties
  <2> HIDE DEF t
  <2> QED
    BY <1>6, <2>1, <2>2
<1>9. RemoveFirst(s, e) = t
  BY <1>5 DEF before, after
<1> HIDE DEF t
<1>10. ASSUME NEW k \in 1..(Len(s) - 1)
       PROVE  t[k] = IF k < m THEN s[k] ELSE s[k + 1]
  <2>1. CASE k < m
    <3>1. k \in 1..(m - 1) /\ k <= m - 1
      BY <1>1, <1>4, <2>1
    <3> QED
      BY <1>6, <1>8, <2>1, <3>1
  <2>2. CASE ~(k < m)
    <3>1. /\ ~(k <= m - 1)
          /\ k - (m - 1) \in 1..(Len(s) - m)
          /\ (k - (m - 1)) + m = k + 1
      BY <1>1, <1>4, <2>2
    <3>2. after[k - (m - 1)] = s[k + 1]
      BY <1>7, <3>1
    <3> QED
      BY <1>8, <2>2, <3>1, <3>2
  <2> QED
    BY <2>1, <2>2
<1> QED
  BY <1>4, <1>8, <1>9, <1>10

\* ... so that a cancelled request leaves the line in order and nothing else ...
LEMMA CancelledLedgered ==
  ASSUME NEW E, NEW r \in Registry(E), NEW i \in InState(r, "PENDING"), Ledgered(r)
  PROVE  Ledgered(Cancelled(r, i))
<1> DEFINE t == Cancelled(r, i)
           L == Len(r.pendingOrder)
<1>1. i \in RequestId /\ r.requests[i].state = "PENDING"
  BY DEF InState
<1>2. /\ t.requests = [r.requests EXCEPT ![i] = Absent]
      /\ t.pendingOrder = RemoveFirst(r.pendingOrder, i)
      /\ t.eventFifo = r.eventFifo
      /\ t.nextRequest = r.nextRequest
  BY DEF Cancelled, Registry
<1>3. /\ t.requests[i].state = "ABSENT"
      /\ \A j \in RequestId : j # i => t.requests[j] = r.requests[j]
  <2>1. r.requests \in [RequestId -> Request]
    BY DEF Registry
  <2> HIDE DEF t
  <2> QED
    BY <1>1, <1>2, <2>1 DEF Absent
<1>4. /\ L \in Nat
      /\ \A k \in 1..L : r.pendingOrder[k] \in RequestId
      /\ \A j \in RequestId : j \in Nat
      /\ \A p \in 1..Len(r.eventFifo) : r.eventFifo[p].claimedBy \in RequestId \cup {None}
  BY Elements
<1>5. \E k \in 1..L : r.pendingOrder[k] = i
  BY <1>1 DEF Ledgered, LineIsPending
<1>6. PICK m \in 1..L :
        /\ r.pendingOrder[m] = i
        /\ Len(t.pendingOrder) = L - 1
        /\ \A k \in 1..(L - 1) :
             t.pendingOrder[k] = IF k < m THEN r.pendingOrder[k] ELSE r.pendingOrder[k + 1]
  <2> DEFINE line == r.pendingOrder
  <2>1. line \in Seq(RequestId) /\ \E k \in 1..Len(line) : line[k] = i
    BY <1>5 DEF Registry
  <2> HIDE DEF t, line
  <2>2. \E m \in 1..Len(line) :
          /\ line[m] = i
          /\ Len(RemoveFirst(line, i)) = Len(line) - 1
          /\ \A k \in 1..(Len(line) - 1) :
               RemoveFirst(line, i)[k] = IF k < m THEN line[k] ELSE line[k + 1]
    BY <2>1, RemoveFirstFields
  <2> QED
    BY <1>2, <2>2 DEF line
<1> HIDE DEF t, L
<1>7. IdsFresh(t) /\ WordsOwned(t) /\ WordsDiffer(t)
  BY <1>2, <1>3 DEF Ledgered, IdsFresh, WordsOwned, WordsDiffer
\* Where an element of the shorter line stood before.
<1> DEFINE was(k) == IF k < m THEN k ELSE k + 1
<1>8. /\ \A k \in 1..(L - 1) : was(k) \in 1..L /\ was(k) # m
      /\ \A k \in 1..(L - 1) : t.pendingOrder[k] = r.pendingOrder[was(k)]
      /\ \A a, b \in 1..(L - 1) : a < b => was(a) < was(b)
      /\ \A k \in 1..L : k # m => \E j \in 1..(L - 1) : was(j) = k
  <2>1. \A k \in 1..(L - 1) : was(k) \in 1..L /\ was(k) # m
    BY <1>4
  <2>2. \A a, b \in 1..(L - 1) : a < b => was(a) < was(b)
    BY <1>4
  <2>3. ASSUME NEW k \in 1..L, k # m
        PROVE  \E j \in 1..(L - 1) : was(j) = k
    <3>1. CASE k < m
      <4>1. k \in 1..(L - 1) /\ was(k) = k
        BY <1>4, <3>1
      <4> QED
        BY <4>1
    <3>2. CASE k > m
      <4>1. k - 1 \in 1..(L - 1) /\ was(k - 1) = k
        BY <1>4, <3>2
      <4> QED
        BY <4>1
    <3> QED
      BY <1>4, <2>3, <3>1, <3>2
  <2>4. \A k \in 1..(L - 1) : t.pendingOrder[k] = r.pendingOrder[was(k)]
    BY <1>6
  <2> QED
    BY <2>1, <2>2, <2>3, <2>4
<1> HIDE DEF was
<1>9. LineInOrder(t)
  <2> SUFFICES ASSUME NEW a \in 1..(L - 1), NEW b \in 1..(L - 1), a < b
               PROVE  t.pendingOrder[a] < t.pendingOrder[b]
    BY <1>6 DEF LineInOrder
  <2>1. was(a) \in 1..L /\ was(b) \in 1..L /\ was(a) < was(b)
    BY <1>8
  <2>2. r.pendingOrder[was(a)] < r.pendingOrder[was(b)]
    BY <2>1 DEF Ledgered, LineInOrder, L
  <2> QED
    BY <1>8, <2>2
<1>10. \A k \in 1..L : k # m => r.pendingOrder[k] # i
  <2> SUFFICES ASSUME NEW k \in 1..L, k # m, r.pendingOrder[k] = i
               PROVE  FALSE
    OBVIOUS
  <2>1. k < m \/ m < k
    BY <1>4
  <2>2. i \in Nat /\ ~(i < i)
    BY <1>1, <1>4
  <2> QED
    BY <1>6, <2>1, <2>2 DEF Ledgered, LineInOrder, L
<1>11. LineIsPending(t)
  <2> SUFFICES ASSUME NEW j \in RequestId
               PROVE  t.requests[j].state = "PENDING" <=>
                        \E k \in 1..(L - 1) : t.pendingOrder[k] = j
    BY <1>6 DEF LineIsPending
  <2>1. CASE j = i
    BY <1>3, <1>8, <1>10, <2>1
  <2>2. CASE j # i
    <3>1. r.requests[j].state = "PENDING" <=> \E k \in 1..L : r.pendingOrder[k] = j
      BY DEF Ledgered, LineIsPending, L
    <3>2. (\E k \in 1..L : r.pendingOrder[k] = j) <=>
            \E k \in 1..(L - 1) : t.pendingOrder[k] = j
      <4>1. ASSUME NEW k \in 1..L, r.pendingOrder[k] = j
            PROVE  \E n \in 1..(L - 1) : t.pendingOrder[n] = j
        <5>1. k # m
          BY <1>6, <2>2, <4>1
        <5>2. PICK n \in 1..(L - 1) : was(n) = k
          BY <1>8, <5>1
        <5> QED
          BY <1>8, <4>1, <5>2
      <4>2. ASSUME NEW k \in 1..(L - 1), t.pendingOrder[k] = j
            PROVE  \E n \in 1..L : r.pendingOrder[n] = j
        BY <1>8, <4>2
      <4> QED
        BY <4>1, <4>2
    <3> QED
      BY <1>3, <2>2, <3>1, <3>2
  <2> QED
    BY <2>1, <2>2
<1>12. ServedInOrder(t)
  BY <1>3 DEF Ledgered, ServedInOrder
<1>13. ClaimsInOrder(t)
  BY <1>2 DEF Ledgered, ClaimsInOrder
<1>14. ClaimsBacked(t)
  <2>1. \A p \in 1..Len(r.eventFifo) :
          r.eventFifo[p].claimedBy # None => r.eventFifo[p].claimedBy # i
    BY <1>1 DEF Ledgered, ClaimsBacked
  <2> QED
    BY <1>2, <1>3, <1>4, <2>1 DEF Ledgered, ClaimsBacked
<1>15. CompletionsBacked(t)
  BY <1>2, <1>3 DEF Ledgered, CompletionsBacked
<1> QED
  BY <1>7, <1>9, <1>11, <1>12, <1>13, <1>14, <1>15 DEF Ledgered, t

\* ... and an operation that leaves requests, line and ledger alone.
LEMMA UntouchedLedgered ==
  ASSUME NEW r, NEW t, Ledgered(r),
         t.requests = r.requests, t.pendingOrder = r.pendingOrder,
         t.eventFifo = r.eventFifo, t.nextRequest = r.nextRequest
  PROVE  Ledgered(t)
BY DEF Ledgered, IdsFresh, WordsOwned, WordsDiffer, LineInOrder, LineIsPending,
       ServedInOrder, ClaimsInOrder, ClaimsBacked, CompletionsBacked

-----------------------------------------------------------------------------
(* What the game reads in its status words.                                *)

\* StatusTellsTruth as a predicate on registries.
TruthTold(r) ==
  \A i \in RequestId :
    /\ r.requests[i].state = "PENDING" /\ r.requests[i].addr \notin SelfAddr =>
         r.status[r.requests[i].addr] = "KRequestPending"
    /\ r.requests[i].state = "COMPLETED" /\ r.requests[i].addr \notin SelfAddr =>
         r.status[r.requests[i].addr] = "KErrNone"

\* The matching loop writes KErrNone to the words of the requests it answers,
\* and to no word that another request waits on.
LEMMA TryMatchTruth ==
  ASSUME NEW E, NEW r \in Registry(E), Ledgered(r), TruthTold(r)
  PROVE  TruthTold(TryMatch(r))
<1> DEFINE t == TryMatch(r)
           M == Matched(r)
<1>1. LineInOrder(r)
  BY DEF Ledgered
<1>2. /\ \A p \in M : t.requests[Partner(r, p)].state = "COMPLETED"
      /\ \A i \in RequestId : t.requests[i].addr = r.requests[i].addr
      /\ \A i \in RequestId :
           (\A p \in M : Partner(r, p) # i) => t.requests[i] = r.requests[i]
      /\ \A a \in StatusAddr :
           t.status[a] = IF \E p \in M : r.requests[Partner(r, p)].addr = a
                         THEN "KErrNone" ELSE r.status[a]
  BY <1>1, TryMatchFields
<1>3. \A p \in M : /\ Partner(r, p) \in RequestId
                   /\ r.requests[Partner(r, p)].state = "PENDING"
  <2> SUFFICES ASSUME NEW p \in M
               PROVE  /\ Partner(r, p) \in RequestId
                      /\ r.requests[Partner(r, p)].state = "PENDING"
    OBVIOUS
  <2>1. Partner(r, p) \in RequestId /\ Rank(r, p) \in 1..Len(r.pendingOrder)
    BY MatchFacts
  <2> QED
    BY <2>1 DEF Ledgered, LineIsPending, Partner
<1> HIDE DEF t, M
<1>4. ASSUME NEW i \in RequestId, t.requests[i].state \in {"PENDING", "COMPLETED"},
             t.requests[i].addr \notin SelfAddr
      PROVE  t.status[t.requests[i].addr] =
               IF t.requests[i].state = "PENDING" THEN "KRequestPending" ELSE "KErrNone"
  <2> DEFINE a == r.requests[i].addr
  <2>1. t.requests[i].addr = a
    BY <1>2
  <2>2. CASE \E p \in M : Partner(r, p) = i
    <3>1. t.requests[i].state = "COMPLETED" /\ r.requests[i].state = "PENDING"
      BY <1>2, <1>3, <2>2
    <3>2. a \in StatusAddr
      BY <3>1 DEF Ledgered, WordsOwned
    <3> QED
      BY <1>2, <2>1, <2>2, <3>1, <3>2
  <2>3. CASE \A p \in M : Partner(r, p) # i
    <3>1. t.requests[i] = r.requests[i]
      BY <1>2, <2>3
    <3>2. a \in StatusAddr
      BY <1>4, <3>1 DEF Ledgered, WordsOwned
    <3>3. \A p \in M : r.requests[Partner(r, p)].addr # a
      BY <1>3, <1>4, <2>3, <3>1 DEF Ledgered, WordsDiffer
    <3>4. t.status[a] = r.status[a]
      BY <1>2, <3>2, <3>3
    <3> QED
      BY <1>4, <3>1, <3>4 DEF TruthTold
  <2> QED
    BY <2>2, <2>3
<1> QED
  BY <1>4 DEF TruthTold, t

\* A registration writes KRequestPending to a word no live request has.
LEMMA RecordedTruth ==
  ASSUME NEW E, NEW r \in Registry(E), NEW a \in StatusAddr, Registrable(r),
         Live(r, a) = {}, Ledgered(r), TruthTold(r)
  PROVE  TruthTold(Recorded(r, a))
<1> DEFINE t == Recorded(r, a)
           new == r.nextRequest
<1>1. /\ r.requests \in [RequestId -> Request]
      /\ r.status \in [StatusAddr -> StatusWord]
      /\ new \in RequestId
  BY RegistryAssumption DEF Registry, Registrable, RequestId
<1>2. /\ t.requests = [r.requests EXCEPT
           ![new] = [addr |-> a, state |-> "PENDING", event |-> None]]
      /\ t.status = [r.status EXCEPT ![a] = "KRequestPending"]
  BY DEF Recorded, Registry
<1> HIDE DEF t, new
<1>3. /\ t.requests[new].addr = a /\ t.requests[new].state = "PENDING"
      /\ t.status[a] = "KRequestPending"
      /\ \A i \in RequestId : i # new => t.requests[i] = r.requests[i]
      /\ \A b \in StatusAddr : b # a => t.status[b] = r.status[b]
  BY <1>1, <1>2
<1>4. \A i \in RequestId :
        r.requests[i].state \in {"PENDING", "COMPLETED"} => r.requests[i].addr # a
  BY DEF Live
<1>5. \A i \in RequestId :
        r.requests[i].state \in {"PENDING", "COMPLETED"} => r.requests[i].addr \in StatusAddr
  BY DEF Ledgered, WordsOwned
<1> QED
  BY <1>3, <1>4, <1>5 DEF TruthTold, t

-----------------------------------------------------------------------------
(* One step of the async model.                                            *)

Promised(r) == r \in Registry(RealEvent) /\ Ledgered(r) /\ TruthTold(r)

\* on_event_enqueued for the events of one refill.
LEMMA EnqueueKeeps ==
  ASSUME NEW r, Promised(r), NEW b \in Seq(Event), Enqueueable(r, Reals(b))
  PROVE  Promised(OnEventsEnqueued(r, Reals(b)))
<1> DEFINE evs == Reals(b)
           r1 == [r EXCEPT !.eventFifo = r.eventFifo \o Entries(r, evs),
                           !.nextEvent = r.nextEvent + Len(evs)]
<1>1. r \in Registry(RealEvent) /\ evs \in Seq(RealEvent)
  BY RealsType DEF Promised
<1> HIDE DEF evs
<1>2. r1 \in Registry(RealEvent)
  BY <1>1, AppendedType DEF evs
<1>3. Ledgered(r1)
  BY <1>1, AppendedLedgered DEF Promised, evs
<1>4. /\ r1.requests = r.requests
      /\ r1.status = r.status
  BY <1>1 DEF Registry
<1>5. TruthTold(r1)
  BY <1>4 DEF Promised, TruthTold
<1>6. OnEventsEnqueued(r, evs) = TryMatch(r1)
  BY DEF OnEventsEnqueued
<1> HIDE DEF r1
<1>7. Promised(TryMatch(r1))
  BY <1>2, <1>3, <1>5, TryMatchType, TryMatchLedgered, TryMatchTruth DEF Promised
<1> QED
  BY <1>6, <1>7 DEF evs

\* on_event_consumed, which leaves the other requests as they were.
LEMMA ConsumedKeeps ==
  ASSUME NEW r, Promised(r)
  PROVE  Promised(OnEventConsumed(r))
<1> DEFINE t == OnEventConsumed(r)
<1>1. r \in Registry(RealEvent)
  BY DEF Promised
<1>2. /\ t.status = r.status
      /\ \A i \in RequestId : t.requests[i].state # "ABSENT" => t.requests[i] = r.requests[i]
  <2>1. CASE r.eventFifo = <<>>
    BY <2>1 DEF OnEventConsumed
  <2>2. CASE r.eventFifo # <<>>
    <3>1. /\ t.status = r.status
          /\ r.eventFifo[1].claimedBy # None =>
               t.requests[r.eventFifo[1].claimedBy].state = "ABSENT"
          /\ \A j \in RequestId :
               j # r.eventFifo[1].claimedBy => t.requests[j] = r.requests[j]
      BY <1>1, <2>2, ConsumedFields DEF Promised
    <3>2. \A j \in RequestId : j # None
      BY <1>1, Elements
    <3> HIDE DEF t
    <3> QED
      BY <3>1, <3>2
  <2> QED
    BY <2>1, <2>2
<1>3. t \in Registry(RealEvent) /\ Ledgered(t)
  BY <1>1, ConsumedType, ConsumedLedgered DEF Promised
<1> HIDE DEF t
<1>4. TruthTold(t)
  <2>1. \A i \in RequestId :
          t.requests[i].state \in {"PENDING", "COMPLETED"} => t.requests[i] = r.requests[i]
    BY <1>2
  <2> QED
    BY <1>2, <2>1 DEF Promised, TruthTold
<1> QED
  BY <1>3, <1>4 DEF Promised, t

\* register_request, duplicate or not.
LEMMA RegisterKeeps ==
  ASSUME NEW r, Promised(r), NEW a \in StatusAddr, Registrable(r)
  PROVE  Promised(RegisterRequest(r, a))
<1>1. r \in Registry(RealEvent)
  BY DEF Promised
<1>2. CASE Live(r, a) # {}
  BY <1>2 DEF RegisterRequest
<1>3. CASE Live(r, a) = {}
  <2> DEFINE r1 == Recorded(r, a)
  <2>1. r1 \in Registry(RealEvent) /\ Ledgered(r1) /\ TruthTold(r1)
    BY <1>1, <1>3, RecordedType, RecordedLedgered, RecordedTruth DEF Promised
  <2>2. RegisterRequest(r, a) = TryMatch(r1)
    BY <1>3 DEF RegisterRequest
  <2>3. Promised(TryMatch(r1))
    <3> HIDE DEF r1
    <3> QED
      BY <2>1, TryMatchType, TryMatchLedgered, TryMatchTruth DEF Promised
  <2> HIDE DEF r1
  <2> QED
    BY <2>2, <2>3
<1> QED
  BY <1>2, <1>3

\* RequestComplete, which writes only to a word the game completes itself.
LEMMA CompleteKeeps ==
  ASSUME NEW r, Promised(r), NEW a \in SelfAddr, NEW c \in Reasons
  PROVE  Promised(OnRequestComplete(r, a, c))
<1> DEFINE t == OnRequestComplete(r, a, c)
<1>1. r \in Registry(RealEvent) /\ a \in StatusAddr
  BY AsyncAssumption DEF Promised
<1>2. /\ t.requests = r.requests
      /\ t.pendingOrder = r.pendingOrder
      /\ t.eventFifo = r.eventFifo
      /\ t.nextRequest = r.nextRequest
      /\ t.status = [r.status EXCEPT ![a] = c]
  BY <1>1 DEF OnRequestComplete, Registry
<1>3. t \in Registry(RealEvent)
  BY <1>1, CompleteType
<1> HIDE DEF t
<1>4. Ledgered(t)
  BY <1>2, UntouchedLedgered DEF Promised
<1>5. \A b \in StatusAddr : b \notin SelfAddr => t.status[b] = r.status[b]
  BY <1>1, <1>2 DEF Registry
<1>6. TruthTold(t)
  <2>1. \A i \in RequestId :
          r.requests[i].state \in {"PENDING", "COMPLETED"} =>
            r.requests[i].addr \in StatusAddr
    BY DEF Promised, Ledgered, WordsOwned
  <2> QED
    BY <1>2, <1>5, <2>1 DEF Promised, TruthTold
<1> QED
  BY <1>3, <1>4, <1>6 DEF Promised, t

\* cancel.
LEMMA CancelKeeps ==
  ASSUME NEW r, Promised(r), NEW i \in InState(r, "PENDING")
  PROVE  Promised(Cancelled(r, i))
<1> DEFINE t == Cancelled(r, i)
<1>1. r \in Registry(RealEvent) /\ i \in RequestId
  BY DEF Promised, InState
<1>2. /\ t.requests = [r.requests EXCEPT ![i] = Absent]
      /\ t.status = r.status
  BY <1>1 DEF Cancelled, Registry
<1>3. t \in Registry(RealEvent) /\ Ledgered(t)
  BY <1>1, CancelType, CancelledLedgered DEF Promised
<1>4. r.requests \in [RequestId -> Request]
  BY <1>1 DEF Registry
<1> HIDE DEF t
<1>5. \A j \in RequestId :
        t.requests[j].state \in {"PENDING", "COMPLETED"} => t.requests[j] = r.requests[j]
  BY <1>1, <1>2, <1>4 DEF Absent
<1>6. TruthTold(t)
  BY <1>2, <1>5 DEF Promised, TruthTold
<1> QED
  BY <1>3, <1>6 DEF Promised, t

\* wait_for_any_request.
LEMMA WaitKeeps ==
  ASSUME NEW r, Promised(r)
  PROVE  Promised(WaitForAnyRequest(r))
<1> DEFINE t == WaitForAnyRequest(r)
<1>1. r \in Registry(RealEvent)
  BY DEF Promised
<1>2. /\ t.requests = r.requests
      /\ t.pendingOrder = r.pendingOrder
      /\ t.eventFifo = r.eventFifo
      /\ t.nextRequest = r.nextRequest
      /\ t.status = r.status
  BY <1>1 DEF WaitForAnyRequest, Registry
<1>3. t \in Registry(RealEvent)
  BY <1>1, WaitType
<1> HIDE DEF t
<1>4. Ledgered(t)
  BY <1>2, UntouchedLedgered DEF Promised
<1>5. TruthTold(t)
  BY <1>2 DEF Promised, TruthTold
<1> QED
  BY <1>3, <1>4, <1>5 DEF Promised, t

\* A step of the model keeps the promise.
LEMMA StepKeeps ==
  ASSUME Promised(reg), [Next]_vars
  PROVE  Promised(reg')
<1>1. CASE reg' = reg
  BY <1>1
<1>2. ASSUME NEW b \in Batches, Enqueueable(reg, Reals(b)),
             reg' = OnEventsEnqueued(reg, Reals(b))
      PROVE  Promised(reg')
  <2>1. b \in Seq(Event)
    BY BatchTypes
  <2> QED
    BY <1>2, <2>1, EnqueueKeeps
<1>3. ASSUME NEW b \in Batches, Enqueueable(reg, Reals(b)),
             reg' = OnEventConsumed(OnEventsEnqueued(reg, Reals(b)))
      PROVE  Promised(reg')
  <2> DEFINE r1 == OnEventsEnqueued(reg, Reals(b))
  <2>1. Promised(r1)
    <3>1. b \in Seq(Event)
      BY BatchTypes
    <3> QED
      BY <1>3, <3>1, EnqueueKeeps
  <2> HIDE DEF r1
  <2>2. Promised(OnEventConsumed(r1))
    BY <2>1, ConsumedKeeps
  <2> QED
    BY <1>3, <2>2 DEF r1
<1>4. CASE reg' = OnEventConsumed(reg)
  BY <1>4, ConsumedKeeps
<1>5. ASSUME NEW a \in NotifyAddr, Registrable(reg), reg' = RegisterRequest(reg, a)
      PROVE  Promised(reg')
  BY <1>5, RegisterKeeps, AsyncAssumption
<1>6. ASSUME NEW a \in SelfAddr, NEW c \in Reasons, reg' = OnRequestComplete(reg, a, c)
      PROVE  Promised(reg')
  BY <1>6, CompleteKeeps
<1>7. ASSUME NEW i \in InState(reg, "PENDING"), reg' = Cancelled(reg, i)
      PROVE  Promised(reg')
  BY <1>7, CancelKeeps
<1>8. CASE reg' = WaitForAnyRequest(reg)
  BY <1>8, WaitKeeps
<1>9. CASE UNCHANGED vars
  BY <1>1, <1>9 DEF vars
<1> QED
  BY <1>1, <1>2, <1>3, <1>4, <1>5, <1>6, <1>7, <1>8, <1>9, StepsOfRegistry

\* The empty registry promises nothing and keeps it.
LEMMA EmptyPromised == Promised(EmptyRegistry)
<1> DEFINE e == EmptyRegistry
<1>1. e \in Registry(RealEvent)
  BY EmptyRegistryType
<1>2. /\ e.requests = [i \in RequestId |-> Absent]
      /\ e.pendingOrder = <<>>
      /\ e.eventFifo = <<>>
  BY DEF EmptyRegistry
<1>3. \A i \in RequestId : e.requests[i].state = "ABSENT"
  BY <1>2 DEF Absent
<1>4. Len(e.pendingOrder) = 0 /\ Len(e.eventFifo) = 0
  BY <1>2
<1> HIDE DEF e
<1>5. Ledgered(e)
  BY <1>3, <1>4 DEF Ledgered, IdsFresh, WordsOwned, WordsDiffer, LineInOrder,
    LineIsPending, ServedInOrder, ClaimsInOrder, ClaimsBacked, CompletionsBacked
<1>6. TruthTold(e)
  BY <1>3 DEF TruthTold
<1> QED
  BY <1>1, <1>5, <1>6 DEF Promised, e

\* The registry keeps its promise in every reachable state.
THEOREM LedgerInvariant == Spec => []Promised(reg)
<1>1. Init => Promised(reg)
  BY EmptyPromised DEF Init
<1>2. Promised(reg) /\ [Next]_vars => Promised(reg)'
  BY StepKeeps
<1> QED
  BY <1>1, <1>2, PTL DEF Spec

\* The claimed events are a prefix of the ledger, in the order of the requests
\* that claimed them: GetEvent hands over the event the oldest answered request
\* was promised (_try_match and on_event_consumed, async_model.py:321-380).
THEOREM ClaimsArePrefixHolds == Spec => []ClaimsArePrefix
<1>1. Promised(reg) => ClaimsArePrefix
  <2> SUFFICES ASSUME Promised(reg) PROVE ClaimsArePrefix
    OBVIOUS
  <2>1. DOMAIN reg.eventFifo = 1..Len(reg.eventFifo)
    BY Elements DEF Promised
  <2> QED
    BY <2>1 DEF Promised, Ledgered, ClaimsInOrder, ClaimsArePrefix
<1> QED
  BY <1>1, LedgerInvariant, PTL

\* A request is COMPLETED exactly while the event that completed it waits in
\* the queue (_complete and on_event_consumed).
THEOREM CompletedAreBackedHolds == Spec => []CompletedAreBacked
<1>1. Promised(reg) => CompletedAreBacked
  <2> SUFFICES ASSUME Promised(reg) PROVE CompletedAreBacked
    OBVIOUS
  <2>1. DOMAIN reg.eventFifo = 1..Len(reg.eventFifo)
    BY Elements DEF Promised
  <2>2. \A p \in DOMAIN reg.eventFifo :
          reg.eventFifo[p].claimedBy # None =>
            /\ reg.requests[reg.eventFifo[p].claimedBy].state = "COMPLETED"
            /\ reg.requests[reg.eventFifo[p].claimedBy].event = reg.eventFifo[p].id
    BY <2>1 DEF Promised, Ledgered, ClaimsBacked
  <2>3. \A i \in InState(reg, "COMPLETED") :
          \E p \in DOMAIN reg.eventFifo : reg.eventFifo[p].claimedBy = i
    BY <2>1 DEF Promised, Ledgered, CompletionsBacked, InState
  <2> QED
    BY <2>2, <2>3 DEF CompletedAreBacked
<1> QED
  BY <1>1, LedgerInvariant, PTL

\* First come, first served, through any cancellation (_pending_order).
THEOREM PendingOrderExactHolds == Spec => []PendingOrderExact
<1>1. Promised(reg) => PendingOrderExact
  <2> SUFFICES ASSUME Promised(reg) PROVE PendingOrderExact
    OBVIOUS
  <2>1. /\ DOMAIN reg.pendingOrder = 1..Len(reg.pendingOrder)
        /\ \A n \in 1..Len(reg.pendingOrder) : reg.pendingOrder[n] \in RequestId
    BY Elements DEF Promised
  <2>2. ToSet(reg.pendingOrder) = InState(reg, "PENDING")
    BY <2>1 DEF Promised, Ledgered, LineIsPending, ToSet, InState
  <2>3. \A m, n \in DOMAIN reg.pendingOrder :
          m < n => reg.pendingOrder[m] < reg.pendingOrder[n]
    BY <2>1 DEF Promised, Ledgered, LineInOrder
  <2>4. \A i \in InState(reg, "COMPLETED"), j \in InState(reg, "PENDING") : i < j
    BY DEF Promised, Ledgered, ServedInOrder, InState
  <2> QED
    BY <2>2, <2>3, <2>4 DEF PendingOrderExact
<1> QED
  BY <1>1, LedgerInvariant, PTL

\* No two live requests share a TRequestStatus (the duplicate check of
\* register_request, async_model.py:270-279).
THEOREM OneLivePerStatusHolds == Spec => []OneLivePerStatus
<1>1. Promised(reg) => OneLivePerStatus
  <2> SUFFICES ASSUME Promised(reg), NEW a \in StatusAddr
               PROVE  Cardinality(Live(reg, a)) <= 1
    BY DEF OneLivePerStatus
  <2>1. \A i, j \in Live(reg, a) : i = j
    BY DEF Promised, Ledgered, WordsDiffer, Live
  <2>2. CASE Live(reg, a) = {}
    BY <2>2, FS_EmptySet
  <2>3. CASE Live(reg, a) # {}
    <3>1. PICK i \in Live(reg, a) : TRUE
      BY <2>3
    <3>2. Live(reg, a) = {i}
      BY <2>1, <3>1
    <3> QED
      BY <3>2, FS_Singleton
  <2> QED
    BY <2>2, <2>3
<1> QED
  BY <1>1, LedgerInvariant, PTL

\* A status word the game registered and does not complete itself tells the
\* truth about its request (the writes of register_request and _complete).
THEOREM StatusTellsTruthHolds == Spec => []StatusTellsTruth
<1>1. Promised(reg) => StatusTellsTruth
  BY DEF Promised, TruthTold, StatusTellsTruth
<1> QED
  BY <1>1, LedgerInvariant, PTL

-----------------------------------------------------------------------------
(* What the ledger of a registry says is undelivered.                      *)

Undelivered(r) == [p \in DOMAIN r.eventFifo |-> r.eventFifo[p].event]

\* It is a sequence of events, as long as the ledger.
LEMMA UndeliveredType ==
  ASSUME NEW E, NEW r \in Registry(E)
  PROVE  /\ Undelivered(r) \in Seq(E)
         /\ Len(Undelivered(r)) = Len(r.eventFifo)
         /\ \A p \in 1..Len(r.eventFifo) : Undelivered(r)[p] = r.eventFifo[p].event
<1>1. /\ Len(r.eventFifo) \in Nat
      /\ DOMAIN r.eventFifo = 1..Len(r.eventFifo)
      /\ \A p \in 1..Len(r.eventFifo) : r.eventFifo[p] \in Entry(E)
  BY Elements
<1>2. \A p \in 1..Len(r.eventFifo) : r.eventFifo[p].event \in E
  BY <1>1 DEF Entry
<1> DEFINE F == Len(r.eventFifo)
<1>3. Undelivered(r) = [p \in 1..F |-> r.eventFifo[p].event]
  BY <1>1 DEF Undelivered
<1> HIDE DEF F
<1>4. Undelivered(r) \in Seq(E) /\ Len(Undelivered(r)) = F
  BY <1>1, <1>2, <1>3 DEF F
<1> QED
  BY <1>3, <1>4 DEF F

\* Two ledgers with the same events.
LEMMA UndeliveredSame ==
  ASSUME NEW E, NEW r \in Registry(E), NEW t \in Registry(E),
         Len(t.eventFifo) = Len(r.eventFifo),
         \A p \in 1..Len(r.eventFifo) : t.eventFifo[p].event = r.eventFifo[p].event
  PROVE  Undelivered(t) = Undelivered(r)
<1> DEFINE u == Undelivered(r)
           v == Undelivered(t)
<1>1. /\ u \in Seq(E) /\ Len(u) = Len(r.eventFifo)
      /\ \A p \in 1..Len(r.eventFifo) : u[p] = r.eventFifo[p].event
  BY UndeliveredType
<1>2. /\ v \in Seq(E) /\ Len(v) = Len(r.eventFifo)
      /\ \A p \in 1..Len(r.eventFifo) : v[p] = r.eventFifo[p].event
  BY UndeliveredType
<1> HIDE DEF u, v
<1>3. u = v
  BY <1>1, <1>2, SeqEqual
<1> QED
  BY <1>3 DEF u, v

\* on_event_enqueued adds the new events at the end ...
LEMMA UndeliveredAppended ==
  ASSUME NEW E, NEW r \in Registry(E), NEW evs \in Seq(E), Enqueueable(r, evs)
  PROVE  Undelivered([r EXCEPT !.eventFifo = r.eventFifo \o Entries(r, evs),
                               !.nextEvent = r.nextEvent + Len(evs)])
           = Undelivered(r) \o evs
<1> DEFINE t == [r EXCEPT !.eventFifo = r.eventFifo \o Entries(r, evs),
                          !.nextEvent = r.nextEvent + Len(evs)]
           F == Len(r.eventFifo)
           G == Len(evs)
           u == Undelivered(r)
           v == Undelivered(t)
<1>1. t \in Registry(E) /\ t.eventFifo = r.eventFifo \o Entries(r, evs)
  BY AppendedType DEF Registry
<1>2. /\ Entries(r, evs) \in Seq(Entry(E)) /\ Len(Entries(r, evs)) = G
      /\ r.eventFifo \in Seq(Entry(E))
      /\ F \in Nat /\ G \in Nat
  BY EntriesType, LenProperties DEF Registry
<1>3. \A k \in 1..G : Entries(r, evs)[k].event = evs[k]
  BY DEF Entries
<1>4. /\ u \in Seq(E) /\ Len(u) = F
      /\ \A p \in 1..F : u[p] = r.eventFifo[p].event
  BY UndeliveredType
<1> HIDE DEF t, F, G, u
<1>5. /\ Len(t.eventFifo) = F + G
      /\ \A p \in 1..(F + G) : t.eventFifo[p] = IF p <= F THEN r.eventFifo[p]
                                                ELSE Entries(r, evs)[p - F]
  <2> DEFINE x == r.eventFifo
             y == Entries(r, evs)
             S == Seq(Entry(E))
  <2>1. x \in S /\ y \in S /\ Len(x) = F /\ Len(y) = G /\ t.eventFifo = x \o y
    BY <1>1, <1>2 DEF F
  <2> HIDE DEF x, y
  <2>2. /\ Len(x \o y) = F + G
        /\ \A p \in 1..(F + G) : (x \o y)[p] = IF p <= F THEN x[p] ELSE y[p - F]
    BY <2>1, ConcatProperties
  <2> QED
    BY <2>1, <2>2 DEF x, y
<1>6. /\ v \in Seq(E) /\ Len(v) = F + G
      /\ \A p \in 1..(F + G) : v[p] = t.eventFifo[p].event
  BY <1>1, <1>5, UndeliveredType
<1> HIDE DEF v
<1> DEFINE w == u \o evs
<1>7. /\ w \in Seq(E) /\ Len(w) = F + G
      /\ \A p \in 1..(F + G) : w[p] = IF p <= F THEN u[p] ELSE evs[p - F]
  BY <1>4, ConcatProperties DEF G
<1> HIDE DEF w
<1>8. ASSUME NEW p \in 1..(F + G)
      PROVE  v[p] = w[p]
  <2>1. CASE p <= F
    <3>1. p \in 1..F
      BY <1>2, <2>1
    <3> QED
      BY <1>4, <1>5, <1>6, <1>7, <2>1, <3>1
  <2>2. CASE ~(p <= F)
    <3>1. p - F \in 1..G
      BY <1>2, <2>2
    <3> QED
      BY <1>3, <1>5, <1>6, <1>7, <2>2, <3>1
  <2> QED
    BY <2>1, <2>2
<1>9. v = w
  BY <1>6, <1>7, <1>8, SeqEqual
<1> QED
  BY <1>9 DEF v, w, u, t

\* ... matching moves none ...
LEMMA UndeliveredMatched ==
  ASSUME NEW E, NEW r \in Registry(E), Ledgered(r)
  PROVE  Undelivered(TryMatch(r)) = Undelivered(r)
<1> DEFINE t == TryMatch(r)
<1>1. LineInOrder(r)
  BY DEF Ledgered
<1>2. /\ Len(t.eventFifo) = Len(r.eventFifo)
      /\ \A p \in 1..Len(r.eventFifo) : t.eventFifo[p].event = r.eventFifo[p].event
  BY <1>1, TryMatchFields
<1>3. t \in Registry(E)
  BY TryMatchType
<1> HIDE DEF t
<1>4. Undelivered(t) = Undelivered(r)
  BY <1>2, <1>3, UndeliveredSame
<1> QED
  BY <1>4 DEF t

\* ... so a refill appends its real events ...
LEMMA UndeliveredEnqueued ==
  ASSUME NEW E, NEW r \in Registry(E), Ledgered(r), NEW evs \in Seq(E),
         Enqueueable(r, evs)
  PROVE  Undelivered(OnEventsEnqueued(r, evs)) = Undelivered(r) \o evs
<1> DEFINE t == [r EXCEPT !.eventFifo = r.eventFifo \o Entries(r, evs),
                          !.nextEvent = r.nextEvent + Len(evs)]
<1>1. t \in Registry(E) /\ Ledgered(t) /\ Undelivered(t) = Undelivered(r) \o evs
  BY AppendedType, AppendedLedgered, UndeliveredAppended
<1> HIDE DEF t
<1>2. Undelivered(TryMatch(t)) = Undelivered(r) \o evs
  BY <1>1, UndeliveredMatched
<1> QED
  BY <1>2 DEF OnEventsEnqueued, t

\* ... on_event_consumed takes the oldest ...
LEMMA UndeliveredConsumed ==
  ASSUME NEW E, NEW r \in Registry(E), Ledgered(r), Undelivered(r) # <<>>
  PROVE  /\ r.eventFifo # <<>>
         /\ Undelivered(OnEventConsumed(r)) = Tail(Undelivered(r))
<1> DEFINE t == OnEventConsumed(r)
           F == Len(r.eventFifo)
           u == Undelivered(r)
           v == Undelivered(t)
<1>1. /\ u \in Seq(E) /\ Len(u) = F
      /\ \A p \in 1..F : u[p] = r.eventFifo[p].event
  BY UndeliveredType
<1>2. r.eventFifo # <<>>
  <2>1. SUFFICES ASSUME r.eventFifo = <<>> PROVE FALSE
    OBVIOUS
  <2>2. F = 0
    BY <2>1
  <2> HIDE DEF F, u
  <2> QED
    BY <1>1, <2>2, EmptySeq DEF u
<1>3. /\ F \in Nat \ {0}
      /\ Len(t.eventFifo) = F - 1
      /\ \A p \in 1..(F - 1) : t.eventFifo[p] = r.eventFifo[p + 1]
  BY <1>2, ConsumedFields
<1>4. t \in Registry(E)
  BY ConsumedType
<1> HIDE DEF t, F, u
<1>5. /\ v \in Seq(E) /\ Len(v) = F - 1
      /\ \A p \in 1..(F - 1) : v[p] = t.eventFifo[p].event
  BY <1>3, <1>4, UndeliveredType
<1>6. u # <<>>
  BY DEF u
<1>7. /\ Tail(u) \in Seq(E) /\ Len(Tail(u)) = F - 1
      /\ \A p \in 1..(F - 1) : Tail(u)[p] = u[p + 1]
  BY <1>1, <1>6, HeadTailProperties
<1> HIDE DEF v
<1>8. ASSUME NEW p \in 1..(F - 1)
      PROVE  v[p] = Tail(u)[p]
  <2>1. p + 1 \in 1..F
    BY <1>3
  <2> QED
    BY <1>1, <1>3, <1>5, <1>7, <2>1
<1>9. v = Tail(u)
  BY <1>5, <1>7, <1>8, SeqEqual
<1> QED
  BY <1>2, <1>9 DEF v, u, t

\* ... and no other call touches it.
LEMMA UndeliveredRegistered ==
  ASSUME NEW E, NEW r \in Registry(E), Ledgered(r), NEW a \in StatusAddr,
         Registrable(r)
  PROVE  Undelivered(RegisterRequest(r, a)) = Undelivered(r)
<1>1. CASE Live(r, a) # {}
  BY <1>1 DEF RegisterRequest
<1>2. CASE Live(r, a) = {}
  <2> DEFINE t == Recorded(r, a)
  <2>1. t \in Registry(E) /\ Ledgered(t)
    BY <1>2, RecordedType, RecordedLedgered
  <2>2. t.eventFifo = r.eventFifo
    BY DEF Recorded, Registry
  <2>3. Undelivered(t) = Undelivered(r)
    BY <2>2 DEF Undelivered
  <2> HIDE DEF t
  <2>4. Undelivered(TryMatch(t)) = Undelivered(r)
    BY <2>1, <2>3, UndeliveredMatched
  <2> QED
    BY <1>2, <2>4 DEF RegisterRequest, t
<1> QED
  BY <1>1, <1>2

\* Nor do completions by the game, cancellations and waits.
LEMMA UndeliveredUntouched ==
  ASSUME NEW E, NEW r \in Registry(E)
  PROVE  /\ \A a \in SelfAddr, c \in Reasons :
              Undelivered(OnRequestComplete(r, a, c)) = Undelivered(r)
         /\ \A i \in RequestId : Undelivered(Cancelled(r, i)) = Undelivered(r)
         /\ Undelivered(WaitForAnyRequest(r)) = Undelivered(r)
<1>1. \A a \in SelfAddr, c \in Reasons :
        OnRequestComplete(r, a, c).eventFifo = r.eventFifo
  BY DEF OnRequestComplete, Registry
<1>2. \A i \in RequestId : Cancelled(r, i).eventFifo = r.eventFifo
  BY DEF Cancelled, Registry
<1>3. WaitForAnyRequest(r).eventFifo = r.eventFifo
  BY DEF WaitForAnyRequest, Registry
<1> QED
  BY <1>1, <1>2, <1>3 DEF Undelivered

-----------------------------------------------------------------------------
(* The queue and the ledger together.                                      *)

Mirrored ==
  /\ Promised(reg)
  /\ q \in Seq(Event)
  /\ Len(q) <= MaxQueue
  /\ running \in BOOLEAN
  /\ Reals(q) = Undelivered(reg)

\* EventQueue speaks of the same events.
LEMMA SameEvents ==
  /\ LedgerEvents = Undelivered(reg)
  /\ Queue!Null = Null
  /\ \A s : Queue!Reals(s) = Reals(s)
  /\ \A s : Queue!TrimStaleNulls(s) = TrimStaleNulls(s)
<1>1. LedgerEvents = Undelivered(reg)
  BY DEF LedgerEvents, Undelivered
<1>2. Queue!Null = Null
  BY DEF Queue!Null, Null
<1>3. \A s : Queue!Reals(s) = Reals(s)
  BY <1>2 DEF Queue!Reals, Reals
<1>4. \A s : Queue!TrimStaleNulls(s) = TrimStaleNulls(s)
  BY DEF Queue!TrimStaleNulls, TrimStaleNulls, Queue!TrimStep, TrimStep,
         Queue!Null, Null
<1> QED
  BY <1>1, <1>2, <1>3, <1>4

\* GetEvent on a queue s and a registry r that agree: both move on together.
LEMMA DeliveredMirrors ==
  ASSUME NEW s \in Seq(Event), s # <<>>, Len(s) <= MaxQueue,
         NEW r, Promised(r), Reals(s) = Undelivered(r), Delivered(s, r)
  PROVE  /\ Promised(reg')
         /\ q' \in Seq(Event) /\ Len(q') <= MaxQueue
         /\ q' = Tail(s)
         /\ Undelivered(reg') = IF Head(s) = Null THEN Undelivered(r)
                                ELSE Tail(Undelivered(r))
         /\ Reals(q') = Undelivered(reg')
         /\ Head(s) # Null => Undelivered(r) # <<>>
<1>1. /\ Tail(s) \in Seq(Event) /\ Len(Tail(s)) = Len(s) - 1 /\ Len(s) \in Nat
  BY HeadTailProperties, LenProperties
<1>2. Len(Tail(s)) <= MaxQueue
  BY <1>1, AsyncAssumption
<1>3. q' = Tail(s) /\ reg' = IF Head(s) = Null THEN r ELSE OnEventConsumed(r)
  BY DEF Delivered
<1>4. Promised(reg')
  BY <1>3, ConsumedKeeps
<1>5. Head(s) # Null => Undelivered(r) # <<>>
  BY RealsTail
<1>6. r \in Registry(RealEvent) /\ Ledgered(r)
  BY DEF Promised
<1>7. Undelivered(reg') = IF Head(s) = Null THEN Undelivered(r)
                          ELSE Tail(Undelivered(r))
  BY <1>3, <1>5, <1>6, UndeliveredConsumed
<1>8. Reals(Tail(s)) = IF Head(s) = Null THEN Reals(s) ELSE Tail(Reals(s))
  BY RealsTail
<1> QED
  BY <1>1, <1>2, <1>3, <1>4, <1>5, <1>7, <1>8

\* A refill of b reaches the queue and the ledger.
LEMMA RefilledMirrors ==
  ASSUME Mirrored, NEW b \in Seq(Event), Len(q) + Len(b) <= MaxQueue,
         Enqueueable(reg, Reals(b))
  PROVE  /\ q \o b \in Seq(Event) /\ Len(q \o b) <= MaxQueue
         /\ Promised(OnEventsEnqueued(reg, Reals(b)))
         /\ Undelivered(OnEventsEnqueued(reg, Reals(b)))
              = Undelivered(reg) \o Reals(b)
         /\ Reals(q \o b) = Undelivered(reg) \o Reals(b)
<1>1. b \in Seq(Event) /\ Reals(b) \in Seq(RealEvent)
  BY RealsType
<1>2. q \in Seq(Event) /\ Promised(reg) /\ Reals(q) = Undelivered(reg)
  BY DEF Mirrored
<1>3. q \o b \in Seq(Event) /\ Len(q \o b) = Len(q) + Len(b)
  BY <1>1, <1>2, ConcatProperties
<1>4. Promised(OnEventsEnqueued(reg, Reals(b)))
  BY <1>2, EnqueueKeeps
<1>5. Undelivered(OnEventsEnqueued(reg, Reals(b))) = Undelivered(reg) \o Reals(b)
  BY <1>1, <1>2, UndeliveredEnqueued DEF Promised
<1>6. Reals(q \o b) = Undelivered(reg) \o Reals(b)
  BY <1>1, <1>2, RealsConcat
<1> QED
  BY <1>1, <1>3, <1>4, <1>5, <1>6

\* A refill of an empty queue.
LEMMA FirstRefill ==
  ASSUME Mirrored, NEW b \in Seq(Event), q = <<>>, Len(q) + Len(b) <= MaxQueue,
         Enqueueable(reg, Reals(b))
  PROVE  /\ Len(b) <= MaxQueue
         /\ Undelivered(reg) = <<>>
         /\ Promised(OnEventsEnqueued(reg, Reals(b)))
         /\ Undelivered(OnEventsEnqueued(reg, Reals(b))) = Reals(b)
         /\ Undelivered(reg) \o Reals(b) = Reals(b)
<1>1. b \in Seq(Event) /\ Reals(b) \in Seq(RealEvent)
  BY RealsType
<1>2. /\ Promised(OnEventsEnqueued(reg, Reals(b)))
      /\ Undelivered(OnEventsEnqueued(reg, Reals(b))) = Undelivered(reg) \o Reals(b)
      /\ q \o b \in Seq(Event) /\ Len(q \o b) <= MaxQueue
  BY RefilledMirrors
<1>3. Undelivered(reg) = <<>>
  BY RealsOfFew DEF Mirrored
<1>4. <<>> \o Reals(b) = Reals(b) /\ <<>> \o b = b
  BY <1>1, ConcatEmptySeq
<1> QED
  BY <1>1, <1>2, <1>3, <1>4

\* The three calls of the refill, whatever it appends: on the clock, ...
LEMMA TickMirrors ==
  ASSUME Mirrored, NEW b \in Seq(Event), ProduceTick(b)
  PROVE  /\ Mirrored'
         /\ Undelivered(reg') = Undelivered(reg) \o Reals(b)
<1>1. /\ Len(q) + Len(b) <= MaxQueue /\ Enqueueable(reg, Reals(b))
      /\ q' = TrimStaleNulls(q \o b)
      /\ reg' = OnEventsEnqueued(reg, Reals(b))
      /\ running' = running
  BY DEF ProduceTick, Fits
<1>2. /\ q \o b \in Seq(Event) /\ Len(q \o b) <= MaxQueue
      /\ Promised(reg')
      /\ Undelivered(reg') = Undelivered(reg) \o Reals(b)
      /\ Reals(q \o b) = Undelivered(reg) \o Reals(b)
  BY <1>1, RefilledMirrors
<1>3. /\ q' \in Seq(Event) /\ Len(q') <= Len(q \o b)
      /\ Reals(q') = Reals(q \o b)
  BY <1>1, <1>2, TrimKeeps
<1>4. Len(q') <= MaxQueue
  <2>1. Len(q') \in Nat /\ Len(q \o b) \in Nat /\ MaxQueue \in Nat
    BY <1>2, <1>3, LenProperties, AsyncAssumption
  <2> QED
    BY <1>2, <1>3, <2>1
<1> QED
  BY <1>1, <1>2, <1>3, <1>4 DEF Mirrored

\* ... from a fetch that finds the queue empty, ...
LEMMA FetchMirrors ==
  ASSUME Mirrored, NEW b \in Seq(Event), GetEventAfterRefill(b)
  PROVE  /\ Mirrored'
         /\ q' = Tail(b)
         /\ Undelivered(reg') = IF Head(b) = Null THEN Reals(b) ELSE Tail(Reals(b))
         /\ Undelivered(reg) \o Reals(b) = Reals(b)
<1> DEFINE r1 == OnEventsEnqueued(reg, Reals(b))
<1>1. /\ q = <<>> /\ b # <<>> /\ Len(q) + Len(b) <= MaxQueue
      /\ Enqueueable(reg, Reals(b))
      /\ Delivered(b, r1) /\ running' = running
  BY DEF GetEventAfterRefill, Fits
<1>2. /\ Len(b) <= MaxQueue
      /\ Promised(r1)
      /\ Undelivered(r1) = Reals(b)
      /\ Undelivered(reg) \o Reals(b) = Reals(b)
  BY <1>1, FirstRefill
<1> HIDE DEF r1
<1>3. /\ Promised(reg')
      /\ q' \in Seq(Event) /\ Len(q') <= MaxQueue
      /\ q' = Tail(b)
      /\ Undelivered(reg') = IF Head(b) = Null THEN Reals(b) ELSE Tail(Reals(b))
      /\ Reals(q') = Undelivered(reg')
  BY <1>1, <1>2, DeliveredMirrors
<1> QED
  BY <1>1, <1>2, <1>3 DEF Mirrored

\* ... and from a peek that does.
LEMMA PeekMirrors ==
  ASSUME Mirrored, NEW b \in Seq(Event), Peek(b)
  PROVE  /\ Mirrored'
         /\ Undelivered(reg') = Reals(b)
         /\ Undelivered(reg) \o Reals(b) = Reals(b)
<1>1. /\ q = <<>> /\ Len(q) + Len(b) <= MaxQueue
      /\ Enqueueable(reg, Reals(b))
      /\ q' = b
      /\ reg' = OnEventsEnqueued(reg, Reals(b)) /\ running' = running
  BY DEF Peek, Fits
<1>2. /\ Len(b) <= MaxQueue
      /\ Promised(reg')
      /\ Undelivered(reg') = Reals(b)
      /\ Undelivered(reg) \o Reals(b) = Reals(b)
  BY <1>1, FirstRefill
<1> QED
  BY <1>1, <1>2 DEF Mirrored

\* Every step keeps queue and ledger together and is a step of EventQueue.
LEMMA MirrorStep ==
  ASSUME Mirrored, [Next]_vars
  PROVE  Mirrored' /\ [Queue!QueueNext]_Queue!queueVars
<1>1. /\ Promised(reg) /\ q \in Seq(Event) /\ Len(q) <= MaxQueue
      /\ running \in BOOLEAN /\ Reals(q) = Undelivered(reg)
  BY DEF Mirrored
<1>2. reg \in Registry(RealEvent) /\ Ledgered(reg)
  BY <1>1 DEF Promised
<1>3. /\ LedgerEvents = Undelivered(reg)
      /\ LedgerEvents' = Undelivered(reg')
      /\ Queue!Null = Null
      /\ \A s : Queue!Reals(s) = Reals(s)
      /\ \A s : Queue!TrimStaleNulls(s) = TrimStaleNulls(s)
  BY SameEvents DEF LedgerEvents, Undelivered
<1>4. ASSUME NEW b \in Batches, running, ProduceTick(b)
      PROVE  Mirrored' /\ Queue!ProduceTick(b)
  <2>1. Mirrored' /\ Undelivered(reg') = Undelivered(reg) \o Reals(b)
    <3>1. b \in Seq(Event)
      BY BatchTypes
    <3> QED
      BY <1>4, <3>1, TickMirrors
  <2>2. Queue!ProduceTick(b)
    BY <1>3, <1>4, <2>1 DEF ProduceTick, Fits, Queue!ProduceTick, Queue!Fits
  <2> QED
    BY <2>1, <2>2
<1>5. ASSUME NEW b \in Batches, running, GetEventAfterRefill(b)
      PROVE  Mirrored' /\ Queue!PopAfterRefill(b)
  <2>1. /\ Mirrored'
        /\ q' = Tail(b)
        /\ Undelivered(reg') = IF Head(b) = Null THEN Reals(b) ELSE Tail(Reals(b))
        /\ Undelivered(reg) \o Reals(b) = Reals(b)
    <3>1. b \in Seq(Event)
      BY BatchTypes
    <3> QED
      BY <1>5, <3>1, FetchMirrors
  <2>2. Queue!PopAfterRefill(b)
    BY <1>3, <1>5, <2>1
    DEF GetEventAfterRefill, Fits, Queue!PopAfterRefill, Queue!Popped, Queue!Fits
  <2> QED
    BY <2>1, <2>2
<1>6. ASSUME NEW b \in Batches, running, GetEventStarved(b)
      PROVE  Mirrored' /\ Queue!PopStarved(b)
  <2>1. q = <<>> /\ b = <<>> /\ running' = FALSE /\ q' = q /\ reg' = reg
    BY <1>6 DEF GetEventStarved
  <2> QED
    BY <1>1, <1>3, <1>6, <2>1 DEF Mirrored, Queue!PopStarved
<1>7. ASSUME NEW b \in Batches, running, Peek(b)
      PROVE  Mirrored' /\ Queue!Peek(b)
  <2>1. /\ Mirrored'
        /\ Undelivered(reg') = Reals(b)
        /\ Undelivered(reg) \o Reals(b) = Reals(b)
    <3>1. b \in Seq(Event)
      BY BatchTypes
    <3> QED
      BY <1>7, <3>1, PeekMirrors
  <2>2. Queue!Peek(b)
    BY <1>3, <1>7, <2>1 DEF Peek, Fits, Queue!Peek, Queue!Fits
  <2> QED
    BY <2>1, <2>2
<1>8. ASSUME running, GetEvent
      PROVE  Mirrored' /\ Queue!Pop
  <2>1. q # <<>> /\ Delivered(q, reg) /\ running' = running
    BY <1>8 DEF GetEvent
  <2>2. /\ Promised(reg')
        /\ q' \in Seq(Event) /\ Len(q') <= MaxQueue
        /\ q' = Tail(q)
        /\ Undelivered(reg') = IF Head(q) = Null THEN Undelivered(reg)
                               ELSE Tail(Undelivered(reg))
        /\ Reals(q') = Undelivered(reg')
    BY <1>1, <2>1, DeliveredMirrors
  <2>3. Mirrored'
    BY <1>1, <2>1, <2>2 DEF Mirrored
  <2>4. Queue!Pop
    BY <1>3, <1>8, <2>1, <2>2 DEF Queue!Pop, Queue!Popped
  <2> QED
    BY <2>3, <2>4
<1>9. ASSUME q' = q, running' = running, Promised(reg'),
             Undelivered(reg') = Undelivered(reg)
      PROVE  Mirrored' /\ UNCHANGED Queue!queueVars
  BY <1>1, <1>3, <1>9 DEF Mirrored, Queue!queueVars
<1>10. ASSUME NEW a \in NotifyAddr, Notify(a)
       PROVE  Mirrored' /\ UNCHANGED Queue!queueVars
  <2>1. /\ Registrable(reg) /\ reg' = RegisterRequest(reg, a)
        /\ q' = q /\ running' = running /\ a \in StatusAddr
    BY <1>10, AsyncAssumption DEF Notify
  <2>2. Promised(reg') /\ Undelivered(reg') = Undelivered(reg)
    BY <1>1, <1>2, <2>1, RegisterKeeps, UndeliveredRegistered
  <2> QED
    BY <1>9, <2>1, <2>2
<1>11. ASSUME NEW a \in NotifyAddr, Cancel(a)
       PROVE  Mirrored' /\ UNCHANGED Queue!queueVars
  <2>1. PICK i \in InState(reg, "PENDING") : reg' = Cancelled(reg, i)
    BY <1>11 DEF Cancel
  <2>2. q' = q /\ running' = running /\ i \in RequestId
    BY <1>11 DEF Cancel, InState
  <2>3. Promised(reg') /\ Undelivered(reg') = Undelivered(reg)
    BY <1>1, <1>2, <2>1, <2>2, CancelKeeps, UndeliveredUntouched
  <2> QED
    BY <1>9, <2>2, <2>3
<1>12. ASSUME NEW a \in SelfAddr, NEW c \in Reasons, Complete(a, c)
       PROVE  Mirrored' /\ UNCHANGED Queue!queueVars
  <2>1. reg' = OnRequestComplete(reg, a, c) /\ q' = q /\ running' = running
    BY <1>12 DEF Complete
  <2>2. Promised(reg') /\ Undelivered(reg') = Undelivered(reg)
    BY <1>1, <1>2, <2>1, CompleteKeeps, UndeliveredUntouched
  <2> QED
    BY <1>9, <2>1, <2>2
<1>13. ASSUME Wait
       PROVE  Mirrored' /\ UNCHANGED Queue!queueVars
  <2>1. reg' = WaitForAnyRequest(reg) /\ q' = q /\ running' = running
    BY <1>13 DEF Wait
  <2>2. Promised(reg') /\ Undelivered(reg') = Undelivered(reg)
    BY <1>1, <1>2, <2>1, WaitKeeps, UndeliveredUntouched
  <2> QED
    BY <1>9, <2>1, <2>2
<1>14. CASE UNCHANGED vars
  BY <1>1, <1>9, <1>14 DEF vars
<1>15. CASE Next
  <2>1. running
    BY <1>15 DEF Next
  <2>2. CASE \E b \in Batches : ProduceTick(b) \/ GetEventAfterRefill(b)
                                  \/ GetEventStarved(b) \/ Peek(b)
    BY <1>4, <1>5, <1>6, <1>7, <2>1, <2>2 DEF Queue!QueueNext
  <2>3. CASE GetEvent
    BY <1>8, <2>1, <2>3 DEF Queue!QueueNext
  <2>4. CASE \/ \E a \in NotifyAddr : Notify(a) \/ Cancel(a)
             \/ \E a \in SelfAddr, c \in Reasons : Complete(a, c)
             \/ Wait
    BY <1>10, <1>11, <1>12, <1>13, <2>4
  <2> QED
    BY <1>15, <2>2, <2>3, <2>4 DEF Next
<1> QED
  BY <1>14, <1>15

\* Both are empty at the start ...
LEMMA MirrorInit == Init => Mirrored /\ Queue!QueueInit
<1> SUFFICES ASSUME Init PROVE Mirrored /\ Queue!QueueInit
  OBVIOUS
<1>1. q = <<>> /\ reg = EmptyRegistry /\ running = TRUE
  BY DEF Init
<1>2. Promised(EmptyRegistry)
  BY EmptyPromised
<1>3. EmptyRegistry.eventFifo = <<>>
  BY DEF EmptyRegistry
<1>4. Undelivered(EmptyRegistry) = <<>>
  <2>1. Undelivered(EmptyRegistry) \in Seq(RealEvent)
    BY <1>2, UndeliveredType DEF Promised
  <2>2. Len(Undelivered(EmptyRegistry)) = 0
    <3>1. Len(EmptyRegistry.eventFifo) = 0
      BY <1>3
    <3> QED
      BY <1>2, <3>1, UndeliveredType DEF Promised
  <2> QED
    BY <2>1, <2>2, EmptySeq
<1>5. Len(<<>>) = 0 /\ MaxQueue \in Nat /\ <<>> \in Seq(Event)
  BY AsyncAssumption, EmptySeq
<1>6. Mirrored
  BY <1>1, <1>2, <1>4, <1>5, RealsOfFew DEF Mirrored
<1>7. Queue!QueueInit
  BY <1>1, <1>4, SameEvents DEF Queue!QueueInit
<1> QED
  BY <1>6, <1>7

\* ... and agree ever after.
LEMMA MirrorInvariant == Spec => []Mirrored
BY MirrorInit, MirrorStep, PTL DEF Spec

\* The types of the whole model: queue, registry and run flag.
THEOREM TypeCorrect == Spec => []TypeOK
<1>1. Mirrored => TypeOK
  BY DEF Mirrored, Promised, TypeOK, RegistryOK
<1> QED
  BY <1>1, MirrorInvariant, PTL

\* The ledger and the queue never disagree about the undelivered real events
\* or their order, although the trim rebuilds the queue behind the registry's
\* back (input.py:122-144, async_model.py:345-380).
THEOREM LedgerMirrorsQueueHolds == Spec => []LedgerMirrorsQueue
<1>1. Mirrored => LedgerMirrorsQueue
  BY SameEvents DEF Mirrored, LedgerMirrorsQueue, Queue!RealsSurvive
<1> QED
  BY <1>1, MirrorInvariant, PTL

\* The queue of the wired model is an EventQueue whose observer is the ledger.
THEOREM QueueImplemented == Spec => ImplementsEventQueue
<1>1. Init => Queue!QueueInit
  BY MirrorInit
<1>2. Mirrored /\ [Next]_vars => [Queue!QueueNext]_Queue!queueVars
  BY MirrorStep
<1> QED
  BY <1>1, <1>2, MirrorInvariant, PTL DEF Spec, ImplementsEventQueue, Queue!QueueSpec

-----------------------------------------------------------------------------
(* What a client of the window server sees of a registry: the words that   *)
(* wait, and the words that were told of an event, each in order.          *)

ClaimedIn(r) == Cardinality(DOMAIN r.eventFifo \ Unclaimed(r))

Waiters(r) == [n \in DOMAIN r.pendingOrder |-> r.requests[r.pendingOrder[n]].addr]

Told(r) == [p \in 1..ClaimedIn(r) |-> r.requests[r.eventFifo[p].claimedBy].addr]

\* A set of positions closed under going back is an initial interval.
LEMMA InitialInterval ==
  ASSUME NEW n \in Nat, NEW S \in SUBSET (1..n),
         \A p, m \in 1..n : p < m /\ m \in S => p \in S
  PROVE  Cardinality(S) \in 0..n /\ \A p \in 1..n : p \in S <=> p <= Cardinality(S)
<1> DEFINE U == (1..n) \ S
<1>1. \E x \in 0..n : S = 1..x
  <2>1. CASE U = {}
    <3>1. S = 1..n
      BY <2>1
    <3> QED
      BY <3>1
  <2>2. CASE U # {}
    <3>1. PICK x \in U : \A m \in U : x <= m
      BY <2>2, FirstPosition
    <3>2. x \in 1..n
      OBVIOUS
    <3>3. ASSUME NEW p \in 1..n
          PROVE  p \in S <=> p <= x - 1
      <4>1. CASE p < x
        <5>1. p \in S
          BY <3>1, <3>2, <4>1
        <5> QED
          BY <3>2, <4>1, <5>1
      <4>2. CASE p = x
        BY <3>1, <3>2, <4>2
      <4>3. CASE x < p
        <5>1. p \notin S
          BY <3>1, <3>2, <4>3
        <5> QED
          BY <3>2, <4>3, <5>1
      <4> QED
        BY <3>2, <4>1, <4>2, <4>3
    <3>4. S = 1..(x - 1)
      <4>1. \A p \in S : p \in 1..(x - 1)
        BY <3>2, <3>3
      <4>2. \A p \in 1..(x - 1) : p \in S
        BY <3>2, <3>3
      <4> QED
        BY <4>1, <4>2
    <3> QED
      BY <3>2, <3>4
  <2> QED
    BY <2>1, <2>2
<1>2. PICK x \in 0..n : S = 1..x
  BY <1>1
<1>3. Cardinality(1..x) = x
  <2>1. x \in Int /\ 1 \in Int /\ (1 > x => x = 0)
    OBVIOUS
  <2> QED
    BY <2>1, FS_Interval
<1> QED
  BY <1>2, <1>3

\* The claimed entries come first, and the sequences a client sees are
\* sequences of status words.
LEMMA ViewFacts ==
  ASSUME NEW E, NEW r \in Registry(E), Ledgered(r)
  PROVE  /\ ClaimedIn(r) \in 0..Len(r.eventFifo)
         /\ \A p \in 1..Len(r.eventFifo) :
              r.eventFifo[p].claimedBy # None <=> p <= ClaimedIn(r)
         /\ \A p \in 1..Len(r.eventFifo) : p \in Unclaimed(r) <=> ClaimedIn(r) < p
         /\ \A p \in 1..ClaimedIn(r) :
              /\ r.eventFifo[p].claimedBy \in RequestId
              /\ r.requests[r.eventFifo[p].claimedBy].state = "COMPLETED"
         /\ \A n \in 1..Len(r.pendingOrder) :
              /\ r.pendingOrder[n] \in RequestId
              /\ r.requests[r.pendingOrder[n]].state = "PENDING"
         /\ Waiters(r) \in Seq(StatusAddr)
         /\ Len(Waiters(r)) = Len(r.pendingOrder)
         /\ \A n \in 1..Len(r.pendingOrder) :
              Waiters(r)[n] = r.requests[r.pendingOrder[n]].addr
         /\ Told(r) \in Seq(StatusAddr)
         /\ Len(Told(r)) = ClaimedIn(r)
         /\ \A p \in 1..ClaimedIn(r) :
              Told(r)[p] = r.requests[r.eventFifo[p].claimedBy].addr
<1> DEFINE F == Len(r.eventFifo)
           L == Len(r.pendingOrder)
           S == DOMAIN r.eventFifo \ Unclaimed(r)
           c == ClaimedIn(r)
<1>1. /\ F \in Nat /\ L \in Nat
      /\ DOMAIN r.eventFifo = 1..F /\ DOMAIN r.pendingOrder = 1..L
      /\ \A n \in 1..L : r.pendingOrder[n] \in RequestId
      /\ \A p \in 1..F : r.eventFifo[p].claimedBy \in RequestId \cup {None}
  BY Elements
<1>2. \A p \in 1..F : p \in S <=> r.eventFifo[p].claimedBy # None
  BY <1>1 DEF Unclaimed
<1>3. \A p, m \in 1..F : p < m /\ m \in S => p \in S
  BY <1>2 DEF Ledgered, ClaimsInOrder
<1>4. S \in SUBSET (1..F)
  BY <1>1
<1>5. c = Cardinality(S)
  BY DEF ClaimedIn
<1> HIDE DEF S, c, F, L
<1>6. c \in 0..F /\ \A p \in 1..F : p \in S <=> p <= c
  BY <1>1, <1>3, <1>4, <1>5, InitialInterval
<1>7. \A p \in 1..F : p \in Unclaimed(r) <=> c < p
  BY <1>1, <1>6 DEF S
<1>8. ASSUME NEW p \in 1..c
      PROVE  /\ r.eventFifo[p].claimedBy \in RequestId
             /\ r.requests[r.eventFifo[p].claimedBy].state = "COMPLETED"
             /\ r.requests[r.eventFifo[p].claimedBy].addr \in StatusAddr
  <2>1. p \in 1..F /\ p <= c
    BY <1>1, <1>6
  <2>2. r.eventFifo[p].claimedBy # None
    BY <1>2, <1>6, <2>1
  <2>3. r.eventFifo[p].claimedBy \in RequestId
    BY <1>1, <2>1, <2>2
  <2>4. r.requests[r.eventFifo[p].claimedBy].state = "COMPLETED"
    BY <2>1, <2>2 DEF Ledgered, ClaimsBacked, F
  <2> QED
    BY <2>3, <2>4 DEF Ledgered, WordsOwned
<1>9. ASSUME NEW n \in 1..L
      PROVE  /\ r.pendingOrder[n] \in RequestId
             /\ r.requests[r.pendingOrder[n]].state = "PENDING"
             /\ r.requests[r.pendingOrder[n]].addr \in StatusAddr
  <2>1. r.pendingOrder[n] \in RequestId
    BY <1>1
  <2>2. r.requests[r.pendingOrder[n]].state = "PENDING"
    BY <2>1 DEF Ledgered, LineIsPending, L
  <2> QED
    BY <2>1, <2>2 DEF Ledgered, WordsOwned
<1>10. Waiters(r) = [n \in 1..L |-> r.requests[r.pendingOrder[n]].addr]
  BY <1>1 DEF Waiters
<1>11. Waiters(r) \in Seq(StatusAddr) /\ Len(Waiters(r)) = L
  BY <1>1, <1>9, <1>10
<1>12. Told(r) = [p \in 1..c |-> r.requests[r.eventFifo[p].claimedBy].addr]
  BY DEF Told, c
<1>13. Told(r) \in Seq(StatusAddr) /\ Len(Told(r)) = c
  <2>1. c \in Nat
    BY <1>1, <1>6
  <2> QED
    BY <1>8, <1>12, <2>1
<1>14. /\ \A n \in 1..L : Waiters(r)[n] = r.requests[r.pendingOrder[n]].addr
       /\ \A p \in 1..c : Told(r)[p] = r.requests[r.eventFifo[p].claimedBy].addr
  BY <1>10, <1>12
<1>15. \A p \in 1..F : r.eventFifo[p].claimedBy # None <=> p <= c
  BY <1>2, <1>6
<1> QED
  BY <1>6, <1>7, <1>8, <1>9, <1>11, <1>13, <1>14, <1>15 DEF c, F, L

\* How far the claims reach is what the entries say.
LEMMA ClaimsReach ==
  ASSUME NEW E, NEW r \in Registry(E), Ledgered(r), NEW c \in 0..Len(r.eventFifo),
         \A p \in 1..Len(r.eventFifo) : r.eventFifo[p].claimedBy # None <=> p <= c
  PROVE  ClaimedIn(r) = c
<1> DEFINE F == Len(r.eventFifo)
           d == ClaimedIn(r)
<1>1. /\ d \in 0..F /\ F \in Nat
      /\ \A p \in 1..F : r.eventFifo[p].claimedBy # None <=> p <= d
  BY ViewFacts, Elements
<1> HIDE DEF d
<1>2. ~(c < d)
  <2> SUFFICES ASSUME c < d PROVE FALSE
    OBVIOUS
  <2>1. d \in 1..F
    BY <1>1
  <2> QED
    BY <1>1, <2>1
<1>3. ~(d < c)
  <2> SUFFICES ASSUME d < c PROVE FALSE
    OBVIOUS
  <2>1. c \in 1..F
    BY <1>1
  <2> QED
    BY <1>1, <2>1
<1> QED
  BY <1>1, <1>2, <1>3 DEF d

\* Two registries that show the same of those who wait ...
LEMMA WaitersSame ==
  ASSUME NEW E, NEW r \in Registry(E), Ledgered(r), NEW t \in Registry(E), Ledgered(t),
         t.pendingOrder = r.pendingOrder,
         \A n \in 1..Len(r.pendingOrder) :
           t.requests[r.pendingOrder[n]].addr = r.requests[r.pendingOrder[n]].addr
  PROVE  Waiters(t) = Waiters(r)
<1> DEFINE L == Len(r.pendingOrder)
           u == Waiters(r)
           v == Waiters(t)
<1>1. /\ u \in Seq(StatusAddr) /\ Len(u) = L
      /\ \A n \in 1..L : u[n] = r.requests[r.pendingOrder[n]].addr
  BY ViewFacts
<1>2. /\ v \in Seq(StatusAddr) /\ Len(v) = L
      /\ \A n \in 1..L : v[n] = t.requests[r.pendingOrder[n]].addr
  BY ViewFacts
<1> HIDE DEF u, v
<1>3. u = v
  BY <1>1, <1>2, SeqEqual
<1> QED
  BY <1>3 DEF u, v

\* ... of those who were told.
LEMMA ToldSame ==
  ASSUME NEW E, NEW r \in Registry(E), Ledgered(r), NEW t \in Registry(E), Ledgered(t),
         ClaimedIn(t) = ClaimedIn(r),
         \A p \in 1..ClaimedIn(r) :
           t.requests[t.eventFifo[p].claimedBy].addr
             = r.requests[r.eventFifo[p].claimedBy].addr
  PROVE  Told(t) = Told(r)
<1> DEFINE c == ClaimedIn(r)
           u == Told(r)
           v == Told(t)
<1>1. /\ u \in Seq(StatusAddr) /\ Len(u) = c
      /\ \A p \in 1..c : u[p] = r.requests[r.eventFifo[p].claimedBy].addr
  BY ViewFacts
<1>2. /\ v \in Seq(StatusAddr) /\ Len(v) = c
      /\ \A p \in 1..c : v[p] = t.requests[t.eventFifo[p].claimedBy].addr
  BY ViewFacts
<1> HIDE DEF u, v
<1>3. u = v
  BY <1>1, <1>2, SeqEqual
<1> QED
  BY <1>3 DEF u, v

\* The matching loop answers the first waiters, one for each event not yet
\* spoken for, and tells them in order.
LEMMA MatchView ==
  ASSUME NEW E, NEW r \in Registry(E), Ledgered(r)
  PROVE  LET L == Len(r.pendingOrder)
             k == Len(r.eventFifo) - ClaimedIn(r)
             n == IF k < L THEN k ELSE L
             t == TryMatch(r)
         IN
         /\ k \in Nat /\ L \in Nat
         /\ ClaimedIn(t) = ClaimedIn(r) + n
         /\ Waiters(t) = SubSeq(Waiters(r), n + 1, L)
         /\ Told(t) = Told(r) \o SubSeq(Waiters(r), 1, n)
<1> DEFINE F == Len(r.eventFifo)
           L == Len(r.pendingOrder)
           c == ClaimedIn(r)
           k == F - c
           n == IF k < L THEN k ELSE L
           t == TryMatch(r)
           M == Matched(r)
           w == Waiters(r)
<1>1. /\ c \in 0..F
      /\ \A p \in 1..F : r.eventFifo[p].claimedBy # None <=> p <= c
      /\ \A p \in 1..F : p \in Unclaimed(r) <=> c < p
      /\ \A p \in 1..c : r.eventFifo[p].claimedBy \in RequestId
      /\ \A m \in 1..L : r.pendingOrder[m] \in RequestId
      /\ w \in Seq(StatusAddr) /\ Len(w) = L
      /\ \A m \in 1..L : w[m] = r.requests[r.pendingOrder[m]].addr
      /\ Told(r) \in Seq(StatusAddr) /\ Len(Told(r)) = c
      /\ \A p \in 1..c : Told(r)[p] = r.requests[r.eventFifo[p].claimedBy].addr
  BY ViewFacts
<1>2. /\ F \in Nat /\ L \in Nat /\ DOMAIN r.eventFifo = 1..F
      /\ \A i \in RequestId : i \in Nat /\ i # None
  BY Elements
<1>3. k \in Nat /\ n \in 0..k /\ n \in 0..L /\ n \in Nat
  BY <1>1, <1>2
<1>4. ASSUME NEW p \in 1..F, c < p
      PROVE  Rank(r, p) = p - c
  <2>1. {i \in Unclaimed(r) : i <= p} = (c + 1)..p
    <3>1. Unclaimed(r) \in SUBSET (1..F)
      BY <1>2 DEF Unclaimed
    <3> HIDE DEF F, c
    <3>2. \A i \in (c + 1)..p : i \in Unclaimed(r) /\ i <= p
      BY <1>1, <1>2
    <3>3. \A i \in Unclaimed(r) : i <= p => i \in (c + 1)..p
      BY <1>1, <1>2, <3>1
    <3> QED
      BY <3>2, <3>3
  <2>2. Cardinality((c + 1)..p) = p - c
    <3> HIDE DEF F, c
    <3>1. c + 1 \in Int /\ p \in Int /\ ~(c + 1 > p) /\ p - (c + 1) + 1 = p - c
      BY <1>1, <1>2, <1>4
    <3> QED
      BY <3>1, FS_Interval
  <2> QED
    BY <2>1, <2>2 DEF Rank, RankIn
<1> HIDE DEF F, c, L
<1>5. M = (c + 1)..(c + n)
  <2>1. M \in SUBSET (1..F) /\ \A p \in M : p \in Unclaimed(r) /\ Rank(r, p) <= L
    BY MatchFacts DEF Matched, F, L
  <2>2. ASSUME NEW p \in M
        PROVE  p \in (c + 1)..(c + n)
    <3>1. p \in 1..F /\ c < p /\ p - c <= L
      BY <1>1, <1>4, <2>1
    <3> QED
      BY <1>1, <1>2, <3>1
  <2>3. ASSUME NEW p \in (c + 1)..(c + n)
        PROVE  p \in M
    <3>1. p \in 1..F /\ c < p /\ p - c <= L
      BY <1>1, <1>2, <1>3
    <3>2. p \in Unclaimed(r) /\ Rank(r, p) <= L
      BY <1>1, <1>4, <3>1
    <3> QED
      BY <3>2 DEF Matched, L
  <2> HIDE DEF M
  <2> QED
    BY <2>2, <2>3
<1>6. Cardinality(M) = n
  <2> DEFINE a == c + 1
             z == c + n
  <2>1. a \in Int /\ z \in Int /\ (a > z => n = 0) /\ (~(a > z) => z - a + 1 = n)
    BY <1>1, <1>2, <1>3
  <2>2. M = a..z
    BY <1>5
  <2> HIDE DEF a, z, n, M
  <2>3. Cardinality(a..z) = IF a > z THEN 0 ELSE z - a + 1
    BY <2>1, FS_Interval
  <2> QED
    BY <2>1, <2>2, <2>3
<1>7. ASSUME NEW p \in M
      PROVE  Partner(r, p) = r.pendingOrder[p - c]
  <2>1. p \in 1..F /\ c < p
    BY <1>1, <1>2, <1>3, <1>5
  <2> QED
    BY <1>4, <2>1 DEF Partner
<1>8. /\ Len(t.pendingOrder) = L - n
      /\ \A m \in 1..(L - n) : t.pendingOrder[m] = r.pendingOrder[m + n]
      /\ Len(t.eventFifo) = F
      /\ \A p \in 1..F :
           /\ p \in M => t.eventFifo[p].claimedBy = Partner(r, p)
           /\ p \notin M => t.eventFifo[p].claimedBy = r.eventFifo[p].claimedBy
      /\ \A i \in RequestId : t.requests[i].addr = r.requests[i].addr
  <2>1. LineInOrder(r)
    BY DEF Ledgered
  <2>2. /\ Len(t.pendingOrder) = Len(r.pendingOrder) - Cardinality(M)
        /\ \A m \in 1..(Len(r.pendingOrder) - Cardinality(M)) :
             t.pendingOrder[m] = r.pendingOrder[m + Cardinality(M)]
        /\ Len(t.eventFifo) = Len(r.eventFifo)
        /\ \A p \in 1..Len(r.eventFifo) :
             /\ p \in M => t.eventFifo[p].claimedBy = Partner(r, p)
             /\ p \notin M => t.eventFifo[p].claimedBy = r.eventFifo[p].claimedBy
        /\ \A i \in RequestId : t.requests[i].addr = r.requests[i].addr
    BY <2>1, TryMatchFields
  <2> HIDE DEF t, M, n
  <2> QED
    BY <1>6, <2>2 DEF F, L
<1>9. t \in Registry(E) /\ Ledgered(t)
  BY TryMatchType, TryMatchLedgered
<1> HIDE DEF t, M, n, k, w
<1>10. ASSUME NEW p \in M
       PROVE  /\ p \in 1..F /\ c < p /\ p <= c + n /\ p - c \in 1..n
              /\ p - c \in 1..L
              /\ t.eventFifo[p].claimedBy = r.pendingOrder[p - c]
  <2>1. c \in Nat /\ F \in Nat /\ c + n <= F /\ p \in (c + 1)..(c + n)
    BY <1>1, <1>2, <1>3, <1>5 DEF k
  <2>2. p \in 1..F /\ c < p /\ p <= c + n /\ p - c \in 1..n /\ p - c \in 1..L
    BY <1>2, <1>3, <2>1
  <2>3. t.eventFifo[p].claimedBy = r.pendingOrder[p - c]
    BY <1>7, <1>8, <2>2
  <2> QED
    BY <2>2, <2>3
<1>11. ClaimedIn(t) = c + n
  <2>1. c + n \in 0..Len(t.eventFifo)
    BY <1>1, <1>2, <1>3, <1>8 DEF k
  <2>2. ASSUME NEW p \in 1..Len(t.eventFifo)
        PROVE  t.eventFifo[p].claimedBy # None <=> p <= c + n
    <3>1. p \in 1..F
      BY <1>8
    <3>2. CASE p \in M
      <4>1. r.pendingOrder[p - c] # None
        BY <1>1, <1>2, <1>10, <3>2
      <4> QED
        BY <1>10, <3>2, <4>1
    <3>3. CASE p \notin M
      <4>1. t.eventFifo[p].claimedBy = r.eventFifo[p].claimedBy
        BY <1>8, <3>1, <3>3
      <4>2. p <= c <=> p <= c + n
        BY <1>1, <1>2, <1>3, <1>5, <3>1, <3>3
      <4> QED
        BY <1>1, <3>1, <4>1, <4>2
    <3> QED
      BY <3>2, <3>3
  <2> QED
    BY <1>9, <2>1, <2>2, ClaimsReach
<1>12. Waiters(t) = SubSeq(w, n + 1, L)
  <2> DEFINE u == Waiters(t)
             v == SubSeq(w, n + 1, L)
  <2>1. /\ u \in Seq(StatusAddr) /\ Len(u) = L - n
        /\ \A m \in 1..(L - n) : u[m] = t.requests[t.pendingOrder[m]].addr
    BY <1>8, <1>9, ViewFacts
  <2>2. /\ v \in Seq(StatusAddr) /\ Len(v) = L - n
        /\ \A m \in 1..(L - n) : v[m] = w[m + n]
    <3>1. \A i \in (n + 1)..L : w[i] \in StatusAddr
      <4>1. \A i \in (n + 1)..L : i \in 1..Len(w)
        BY <1>1, <1>2, <1>3
      <4> QED
        BY <1>1, <4>1, ElementOfSeq
    <3>2. n + 1 \in Int /\ L \in Int /\ L - (n + 1) + 1 = L - n
          /\ (~(n + 1 <= L) => L - n = 0)
          /\ \A m \in 1..(L - n) : (n + 1) + m - 1 = m + n
      BY <1>2, <1>3
    <3> QED
      BY <3>1, <3>2, SubSeqProperties
  <2> HIDE DEF u, v
  <2>3. ASSUME NEW m \in 1..(L - n)
        PROVE  u[m] = v[m]
    <3>1. m + n \in 1..L
      BY <1>2, <1>3
    <3>2. r.pendingOrder[m + n] \in RequestId
      BY <1>1, <3>1
    <3>3. u[m] = r.requests[r.pendingOrder[m + n]].addr
      BY <1>8, <2>1, <3>2, SMTT(30)
    <3> QED
      BY <1>1, <2>2, <3>1, <3>3
  <2>4. u = v
    BY <2>1, <2>2, <2>3, SeqEqual
  <2> QED
    BY <2>4 DEF u, v
<1>13. Told(t) = Told(r) \o SubSeq(w, 1, n)
  <2> DEFINE u == Told(t)
             x == Told(r)
             y == SubSeq(w, 1, n)
             v == x \o y
  <2>1. /\ u \in Seq(StatusAddr) /\ Len(u) = c + n
        /\ \A p \in 1..(c + n) : u[p] = t.requests[t.eventFifo[p].claimedBy].addr
    BY <1>9, <1>11, ViewFacts
  <2>2. /\ y \in Seq(StatusAddr) /\ Len(y) = n
        /\ \A m \in 1..n : y[m] = w[m]
    <3>1. \A i \in 1..n : w[i] \in StatusAddr
      <4>1. \A i \in 1..n : i \in 1..Len(w)
        BY <1>1, <1>2, <1>3
      <4> QED
        BY <1>1, <4>1, ElementOfSeq
    <3>2. 1 \in Int /\ n \in Int /\ n - 1 + 1 = n /\ (~(1 <= n) => n = 0)
          /\ \A m \in 1..n : 1 + m - 1 = m
      BY <1>3
    <3> QED
      BY <3>1, <3>2, SubSeqProperties
  <2>3. x \in Seq(StatusAddr) /\ Len(x) = c
        /\ \A p \in 1..c : x[p] = r.requests[r.eventFifo[p].claimedBy].addr
    BY <1>1
  <2> HIDE DEF u, x, y
  <2>4. /\ v \in Seq(StatusAddr) /\ Len(v) = c + n
        /\ \A p \in 1..(c + n) : v[p] = IF p <= c THEN x[p] ELSE y[p - c]
    BY <2>2, <2>3, ConcatProperties, ZenonT(30)
  <2> HIDE DEF v
  <2>5. ASSUME NEW p \in 1..(c + n)
        PROVE  u[p] = v[p]
    <3>1. CASE p <= c
      <4>1. p \in 1..c /\ p \in 1..F /\ p \notin M
        BY <1>1, <1>2, <1>5, <3>1
      <4>2. t.eventFifo[p].claimedBy = r.eventFifo[p].claimedBy
        BY <1>8, <4>1
      <4>3. r.eventFifo[p].claimedBy \in RequestId
        BY <1>1, <4>1
      <4>4. u[p] = r.requests[r.eventFifo[p].claimedBy].addr
        BY <1>8, <2>1, <4>2, <4>3
      <4> QED
        BY <2>3, <2>4, <3>1, <4>1, <4>4
    <3>2. CASE ~(p <= c)
      <4>1. p \in M
        BY <1>1, <1>2, <1>3, <1>5, <3>2
      <4>2. /\ t.eventFifo[p].claimedBy = r.pendingOrder[p - c]
            /\ p - c \in 1..n /\ p - c \in 1..L
        BY <1>10, <4>1
      <4>3. w[p - c] = r.requests[r.pendingOrder[p - c]].addr
            /\ r.pendingOrder[p - c] \in RequestId
        BY <1>1, <4>2
      <4> QED
        BY <1>8, <2>1, <2>2, <2>4, <3>2, <4>2, <4>3, ZenonT(30)
    <3> QED
      BY <3>1, <3>2
  <2>6. u = v
    BY <2>1, <2>4, <2>5, SeqEqual
  <2> QED
    BY <2>6 DEF u, v, x, y
<1> QED
  BY <1>2, <1>3, <1>11, <1>12, <1>13 DEF c, t, w, L, F, k, n

\* While anybody waits, every event is spoken for.
LEMMA ExhaustedView ==
  ASSUME NEW E, NEW r \in Registry(E), Ledgered(r), Exhausted(r)
  PROVE  Len(r.pendingOrder) = 0 \/ ClaimedIn(r) = Len(r.eventFifo)
<1> DEFINE F == Len(r.eventFifo)
           c == ClaimedIn(r)
<1>1. /\ c \in 0..F /\ F \in Nat /\ Len(r.pendingOrder) \in Nat
      /\ \A p \in 1..F : p \in Unclaimed(r) <=> c < p
  BY ViewFacts, Elements
<1>2. CASE r.pendingOrder = <<>>
  BY <1>2
<1>3. CASE r.pendingOrder # <<>>
  <2>1. Unclaimed(r) = {}
    BY <1>3 DEF Exhausted
  <2> HIDE DEF F, c
  <2>2. c # F => F \in 1..F /\ c < F
    BY <1>1
  <2> QED
    BY <1>1, <2>1, <2>2 DEF c, F
<1> QED
  BY <1>2, <1>3

\* New entries change nothing that a client sees until the matching ...
LEMMA AppendedView ==
  ASSUME NEW E, NEW r \in Registry(E), Ledgered(r), NEW evs \in Seq(E),
         Enqueueable(r, evs)
  PROVE  LET t == [r EXCEPT !.eventFifo = r.eventFifo \o Entries(r, evs),
                            !.nextEvent = r.nextEvent + Len(evs)]
         IN
         /\ t.pendingOrder = r.pendingOrder
         /\ Len(t.eventFifo) = Len(r.eventFifo) + Len(evs)
         /\ ClaimedIn(t) = ClaimedIn(r)
         /\ Waiters(t) = Waiters(r)
         /\ Told(t) = Told(r)
<1> DEFINE t == [r EXCEPT !.eventFifo = r.eventFifo \o Entries(r, evs),
                          !.nextEvent = r.nextEvent + Len(evs)]
           F == Len(r.eventFifo)
           G == Len(evs)
           c == ClaimedIn(r)
<1>1. t \in Registry(E) /\ Ledgered(t)
  BY AppendedType, AppendedLedgered
<1>2. /\ t.pendingOrder = r.pendingOrder /\ t.requests = r.requests
      /\ t.eventFifo = r.eventFifo \o Entries(r, evs)
  BY DEF Registry
<1>3. /\ r.eventFifo \in Seq(Entry(E)) /\ F \in Nat /\ G \in Nat
      /\ Entries(r, evs) \in Seq(Entry(E)) /\ Len(Entries(r, evs)) = G
  BY EntriesType, LenProperties DEF Registry
<1>4. \A k \in 1..G : Entries(r, evs)[k].claimedBy = None
  BY DEF Entries
<1>5. /\ c \in 0..F
      /\ \A p \in 1..F : r.eventFifo[p].claimedBy # None <=> p <= c
  BY ViewFacts
<1> HIDE DEF t, F, G, c
<1>6. /\ Len(t.eventFifo) = F + G
      /\ \A p \in 1..(F + G) : t.eventFifo[p] = IF p <= F THEN r.eventFifo[p]
                                                ELSE Entries(r, evs)[p - F]
  <2> DEFINE x == r.eventFifo
             y == Entries(r, evs)
             S == Seq(Entry(E))
  <2>1. x \in S /\ y \in S /\ Len(x) = F /\ Len(y) = G /\ t.eventFifo = x \o y
    BY <1>2, <1>3 DEF F
  <2> HIDE DEF x, y
  <2>2. /\ Len(x \o y) = F + G
        /\ \A p \in 1..(F + G) : (x \o y)[p] = IF p <= F THEN x[p] ELSE y[p - F]
    BY <2>1, ConcatProperties
  <2> QED
    BY <2>1, <2>2 DEF x, y
<1>7. ClaimedIn(t) = c
  <2>1. c \in 0..Len(t.eventFifo)
    BY <1>3, <1>5, <1>6
  <2>2. ASSUME NEW p \in 1..Len(t.eventFifo)
        PROVE  t.eventFifo[p].claimedBy # None <=> p <= c
    <3>1. p \in 1..(F + G)
      BY <1>6
    <3>2. CASE p <= F
      <4>1. p \in 1..F
        BY <1>3, <3>1, <3>2
      <4> QED
        BY <1>5, <1>6, <3>1, <3>2, <4>1
    <3>3. CASE ~(p <= F)
      <4>1. p - F \in 1..G /\ ~(p <= c)
        BY <1>3, <1>5, <3>1, <3>3
      <4> QED
        BY <1>4, <1>6, <3>1, <3>3, <4>1
    <3> QED
      BY <3>2, <3>3
  <2> QED
    BY <1>1, <2>1, <2>2, ClaimsReach
<1>8. Waiters(t) = Waiters(r)
  BY <1>1, <1>2, WaitersSame
<1>9. Told(t) = Told(r)
  <2>1. ASSUME NEW p \in 1..c
        PROVE  t.eventFifo[p] = r.eventFifo[p]
    <3>1. p \in 1..(F + G) /\ p <= F
      BY <1>3, <1>5
    <3> QED
      BY <1>6, <3>1
  <2>2. \A p \in 1..ClaimedIn(r) :
          t.requests[t.eventFifo[p].claimedBy].addr
            = r.requests[r.eventFifo[p].claimedBy].addr
    BY <1>2, <2>1 DEF c
  <2>3. ClaimedIn(t) = ClaimedIn(r)
    BY <1>7 DEF c
  <2> QED
    BY <1>1, <2>2, <2>3, ToldSame
<1> QED
  BY <1>2, <1>6, <1>7, <1>8, <1>9 DEF t, F, G, c

\* ... which answers as many waiters as there are new events.
LEMMA EnqueuedView ==
  ASSUME NEW E, NEW r \in Registry(E), Ledgered(r), Exhausted(r), NEW evs \in Seq(E),
         Enqueueable(r, evs)
  PROVE  LET L == Len(Waiters(r))
             n == IF Len(evs) < L THEN Len(evs) ELSE L
             t == OnEventsEnqueued(r, evs)
         IN
         /\ Waiters(t) = SubSeq(Waiters(r), n + 1, L)
         /\ Told(t) = Told(r) \o SubSeq(Waiters(r), 1, n)
<1> DEFINE t == [r EXCEPT !.eventFifo = r.eventFifo \o Entries(r, evs),
                          !.nextEvent = r.nextEvent + Len(evs)]
           L == Len(r.pendingOrder)
           G == Len(evs)
           k == Len(t.eventFifo) - ClaimedIn(t)
           m == IF k < Len(t.pendingOrder) THEN k ELSE Len(t.pendingOrder)
           n == IF G < L THEN G ELSE L
<1>1. t \in Registry(E) /\ Ledgered(t)
  BY AppendedType, AppendedLedgered
<1>2. /\ t.pendingOrder = r.pendingOrder
      /\ Len(t.eventFifo) = Len(r.eventFifo) + G
      /\ ClaimedIn(t) = ClaimedIn(r)
      /\ Waiters(t) = Waiters(r)
      /\ Told(t) = Told(r)
  BY AppendedView
<1>3. Len(r.pendingOrder) = 0 \/ ClaimedIn(r) = Len(r.eventFifo)
  BY ExhaustedView
<1>4. /\ L \in Nat /\ G \in Nat /\ Len(r.eventFifo) \in Nat
      /\ ClaimedIn(r) \in 0..Len(r.eventFifo)
      /\ Len(Waiters(r)) = L
  BY ViewFacts, Elements, LenProperties
<1>5. OnEventsEnqueued(r, evs) = TryMatch(t)
  BY DEF OnEventsEnqueued
<1> HIDE DEF t
<1>6. /\ Waiters(TryMatch(t)) = SubSeq(Waiters(t), m + 1, Len(t.pendingOrder))
      /\ Told(TryMatch(t)) = Told(t) \o SubSeq(Waiters(t), 1, m)
  BY <1>1, MatchView
<1>7. m = n
  BY <1>2, <1>3, <1>4
<1> HIDE DEF m
<1> QED
  BY <1>2, <1>4, <1>5, <1>6, <1>7

\* A registration is answered at once if an event is free, and waits at the
\* end of the line if none is.
LEMMA RecordedView ==
  ASSUME NEW E, NEW r \in Registry(E), Ledgered(r), NEW a \in StatusAddr,
         Registrable(r), Live(r, a) = {}
  PROVE  LET t == Recorded(r, a) IN
         /\ t.eventFifo = r.eventFifo
         /\ Len(t.pendingOrder) = Len(r.pendingOrder) + 1
         /\ ClaimedIn(t) = ClaimedIn(r)
         /\ Waiters(t) = Append(Waiters(r), a)
         /\ Told(t) = Told(r)
<1> DEFINE t == Recorded(r, a)
           L == Len(r.pendingOrder)
           new == r.nextRequest
           c == ClaimedIn(r)
<1>1. t \in Registry(E) /\ Ledgered(t)
  BY RecordedType, RecordedLedgered
<1>2. /\ t.eventFifo = r.eventFifo
      /\ t.pendingOrder = Append(r.pendingOrder, new)
      /\ t.requests = [r.requests EXCEPT
           ![new] = [addr |-> a, state |-> "PENDING", event |-> None]]
      /\ r.requests \in [RequestId -> Request]
      /\ r.pendingOrder \in Seq(RequestId)
      /\ new \in RequestId
  BY RegistryAssumption DEF Recorded, Registry, Registrable, RequestId
<1>3. /\ L \in Nat
      /\ \A n \in 1..L : /\ r.pendingOrder[n] \in RequestId
                         /\ r.requests[r.pendingOrder[n]].state = "PENDING"
      /\ \A p \in 1..c : /\ r.eventFifo[p].claimedBy \in RequestId
                         /\ r.requests[r.eventFifo[p].claimedBy].state = "COMPLETED"
      /\ Waiters(r) \in Seq(StatusAddr) /\ Len(Waiters(r)) = L
      /\ \A n \in 1..L : Waiters(r)[n] = r.requests[r.pendingOrder[n]].addr
  BY ViewFacts, Elements
<1>4. r.requests[new].state = "ABSENT"
  <2>1. new \in Nat
    BY <1>2, Elements
  <2> QED
    BY <1>2, <2>1 DEF Ledgered, IdsFresh
<1>5. /\ \A i \in RequestId : i # new => t.requests[i] = r.requests[i]
      /\ t.requests[new].addr = a
  BY <1>2
<1>6. /\ Len(t.pendingOrder) = L + 1
      /\ \A n \in 1..L : t.pendingOrder[n] = r.pendingOrder[n]
      /\ t.pendingOrder[L + 1] = new
  BY <1>2, AppendProperties
<1>7. ClaimedIn(t) = c
  BY <1>2 DEF ClaimedIn, Unclaimed
<1> HIDE DEF t, c, new, L
<1>8. Told(t) = Told(r)
  <2>1. ASSUME NEW p \in 1..c
        PROVE  t.requests[t.eventFifo[p].claimedBy].addr
                 = r.requests[r.eventFifo[p].claimedBy].addr
    BY <1>2, <1>3, <1>4, <1>5
  <2> QED
    BY <1>1, <1>7, <2>1, ToldSame DEF c
<1>9. Waiters(t) = Append(Waiters(r), a)
  <2> DEFINE w == Waiters(r)
             u == Waiters(t)
             v == Append(w, a)
  <2>1. /\ u \in Seq(StatusAddr) /\ Len(u) = L + 1
        /\ \A n \in 1..(L + 1) : u[n] = t.requests[t.pendingOrder[n]].addr
    BY <1>1, <1>6, ViewFacts
  <2>2. w \in Seq(StatusAddr) /\ Len(w) = L
    BY <1>3
  <2>3. \A n \in 1..L : w[n] = r.requests[r.pendingOrder[n]].addr
    BY <1>3
  <2> HIDE DEF u, w
  <2>4. /\ v \in Seq(StatusAddr) /\ Len(v) = L + 1
        /\ \A n \in 1..L : v[n] = w[n]
        /\ v[L + 1] = a
    BY <2>2, AppendProperties
  <2> HIDE DEF v
  <2>5. ASSUME NEW n \in 1..(L + 1)
        PROVE  u[n] = v[n]
    <3>1. CASE n = L + 1
      BY <1>5, <1>6, <2>1, <2>4, <3>1
    <3>2. CASE n # L + 1
      <4>1. n \in 1..L
        BY <1>3, <3>2
      <4>2. r.pendingOrder[n] \in RequestId /\ r.pendingOrder[n] # new
        BY <1>3, <1>4, <4>1
      <4>3. u[n] = r.requests[r.pendingOrder[n]].addr
        BY <1>5, <1>6, <2>1, <4>1, <4>2
      <4> QED
        BY <2>3, <2>4, <4>1, <4>3
    <3> QED
      BY <3>1, <3>2
  <2>6. u = v
    BY <2>1, <2>4, <2>5, SeqEqual
  <2> QED
    BY <2>6 DEF u, v, w
<1> QED
  BY <1>2, <1>6, <1>7, <1>8, <1>9 DEF t, c, L

\* ... as the matching then decides.
LEMMA RegisteredView ==
  ASSUME NEW E, NEW r \in Registry(E), Ledgered(r), Exhausted(r),
         NEW a \in StatusAddr, Registrable(r), Live(r, a) = {}
  PROVE  LET t == RegisterRequest(r, a) IN
         \/ /\ ClaimedIn(r) < Len(r.eventFifo)
            /\ Told(t) = Append(Told(r), a)
            /\ Waiters(t) = Waiters(r)
         \/ /\ ClaimedIn(r) = Len(r.eventFifo)
            /\ Waiters(t) = Append(Waiters(r), a)
            /\ Told(t) = Told(r)
<1> DEFINE t == Recorded(r, a)
           L == Len(r.pendingOrder)
           F == Len(r.eventFifo)
           c == ClaimedIn(r)
           w == Waiters(r)
           v == Waiters(t)
<1>1. t \in Registry(E) /\ Ledgered(t)
  BY RecordedType, RecordedLedgered
<1>2. /\ t.eventFifo = r.eventFifo
      /\ Len(t.pendingOrder) = L + 1
      /\ ClaimedIn(t) = c
      /\ v = Append(w, a)
      /\ Told(t) = Told(r)
  BY RecordedView
<1>3. L = 0 \/ c = F
  BY ExhaustedView
<1>4. /\ L \in Nat /\ F \in Nat /\ c \in 0..F
      /\ w \in Seq(StatusAddr) /\ Len(w) = L /\ Told(r) \in Seq(StatusAddr)
  BY ViewFacts, Elements
<1>5. RegisterRequest(r, a) = TryMatch(t)
  BY DEF RegisterRequest
<1> HIDE DEF t, F, c, L
<1>6. LET k == Len(t.eventFifo) - ClaimedIn(t)
          n == IF k < Len(t.pendingOrder) THEN k ELSE Len(t.pendingOrder)
      IN  /\ Waiters(TryMatch(t)) = SubSeq(v, n + 1, Len(t.pendingOrder))
          /\ Told(TryMatch(t)) = Told(t) \o SubSeq(v, 1, n)
  BY <1>1, MatchView
<1> HIDE DEF w, v
<1>7. v \in Seq(StatusAddr) /\ Len(v) = L + 1 /\ v[L + 1] = a
  BY <1>2, <1>4, AppendProperties
<1>8. CASE c < F
  <2>1. L = 0 /\ ~(F - c < 1)
    BY <1>3, <1>4, <1>8
  <2>2. Len(t.eventFifo) = F
    BY <1>2 DEF F
  <2>3. /\ Waiters(TryMatch(t)) = SubSeq(v, 2, 1)
        /\ Told(TryMatch(t)) = Told(r) \o SubSeq(v, 1, 1)
    BY <1>2, <1>6, <2>1, <2>2
  <2>4. SubSeq(v, 2, 1) = <<>>
    BY SubSeqEmpty
  <2>5. w = <<>>
    BY <1>4, <2>1, EmptySeq
  <2>6. v = <<a>>
    BY <1>2, <2>5
  <2>7. SubSeq(v, 1, 1) = <<a>>
    <3>1. SubSeq(v, 1, Len(v)) = v
      BY <1>7, SubSeqFull
    <3> QED
      BY <1>7, <2>1, <2>6, <3>1
  <2>8. Append(Told(r), a) = Told(r) \o <<a>>
    BY <1>4, AppendIsConcat
  <2> QED
    BY <1>5, <1>8, <2>3, <2>4, <2>5, <2>7, <2>8 DEF c, F, w
<1>9. CASE c = F
  <2>1. Len(t.eventFifo) = F /\ F - c = 0 /\ 0 < L + 1 /\ 0 + 1 = 1
    BY <1>2, <1>4, <1>9 DEF F
  <2>2. /\ Waiters(TryMatch(t)) = SubSeq(v, 1, Len(v))
        /\ Told(TryMatch(t)) = Told(r) \o SubSeq(v, 1, 0)
    BY <1>2, <1>6, <1>7, <2>1
  <2>3. SubSeq(v, 1, Len(v)) = v
    BY <1>7, SubSeqFull
  <2>4. SubSeq(v, 1, 0) = <<>>
    BY SubSeqEmpty
  <2>5. Told(r) \o <<>> = Told(r)
    BY <1>4, ConcatEmptySeq
  <2> QED
    BY <1>2, <1>5, <1>9, <2>2, <2>3, <2>4, <2>5 DEF c, F, w
<1> QED
  BY <1>4, <1>8, <1>9

\* Fetching an event takes the oldest answer with it, if there is one ...
LEMMA ConsumedView ==
  ASSUME NEW E, NEW r \in Registry(E), Ledgered(r), r.eventFifo # <<>>
  PROVE  LET t == OnEventConsumed(r) IN
         /\ Waiters(t) = Waiters(r)
         /\ Told(t) = IF Told(r) = <<>> THEN <<>> ELSE Tail(Told(r))
<1> DEFINE t == OnEventConsumed(r)
           F == Len(r.eventFifo)
           L == Len(r.pendingOrder)
           c == ClaimedIn(r)
           d == IF c = 0 THEN 0 ELSE c - 1
           i == r.eventFifo[1].claimedBy
           u == Told(r)
           v == Told(t)
<1>1. /\ F \in Nat \ {0}
      /\ Len(t.eventFifo) = F - 1
      /\ \A p \in 1..(F - 1) : t.eventFifo[p] = r.eventFifo[p + 1]
      /\ t.pendingOrder = r.pendingOrder
      /\ \A j \in RequestId : j # i => t.requests[j] = r.requests[j]
  BY ConsumedFields
<1>2. t \in Registry(E) /\ Ledgered(t)
  BY ConsumedType, ConsumedLedgered
<1>3. /\ c \in 0..F
      /\ \A p \in 1..F : r.eventFifo[p].claimedBy # None <=> p <= c
      /\ \A p \in 1..c : /\ r.eventFifo[p].claimedBy \in RequestId
                         /\ r.requests[r.eventFifo[p].claimedBy].state = "COMPLETED"
      /\ \A n \in 1..L : /\ r.pendingOrder[n] \in RequestId
                         /\ r.requests[r.pendingOrder[n]].state = "PENDING"
      /\ u \in Seq(StatusAddr) /\ Len(u) = c
      /\ \A p \in 1..c : u[p] = r.requests[r.eventFifo[p].claimedBy].addr
  BY ViewFacts
<1>4. \A j \in RequestId : j \in Nat /\ j # None
  BY Elements
<1> HIDE DEF t, F, L, c, u
<1>5. \A n \in 1..L : r.pendingOrder[n] # i
  <2> SUFFICES ASSUME NEW n \in 1..L, r.pendingOrder[n] = i PROVE FALSE
    OBVIOUS
  <2>1. i \in RequestId /\ i # None
    BY <1>3, <1>4
  <2>2. 1 \in 1..F
    BY <1>1
  <2>3. 1 <= c
    BY <1>3, <2>1, <2>2
  <2>4. 1 \in 1..c
    BY <1>1, <1>3, <2>3
  <2> QED
    BY <1>3, <2>4
<1>6. Waiters(t) = Waiters(r)
  <2>1. \A n \in 1..Len(r.pendingOrder) :
          t.requests[r.pendingOrder[n]].addr = r.requests[r.pendingOrder[n]].addr
    BY <1>1, <1>3, <1>5 DEF L
  <2> QED
    BY <1>1, <1>2, <2>1, WaitersSame
<1>7. ClaimedIn(t) = d
  <2>1. d \in 0..Len(t.eventFifo)
    BY <1>1, <1>3
  <2>2. ASSUME NEW p \in 1..Len(t.eventFifo)
        PROVE  t.eventFifo[p].claimedBy # None <=> p <= d
    <3>1. p \in 1..(F - 1) /\ p + 1 \in 1..F
      BY <1>1
    <3>2. p + 1 <= c <=> p <= d
      BY <1>1, <1>3, <3>1
    <3> QED
      BY <1>1, <1>3, <3>1, <3>2, SMTT(30)
  <2> HIDE DEF d
  <2> QED
    BY <1>2, <2>1, <2>2, ClaimsReach
<1>8. /\ v \in Seq(StatusAddr) /\ Len(v) = d
      /\ \A p \in 1..d : v[p] = t.requests[t.eventFifo[p].claimedBy].addr
  BY <1>2, <1>7, ViewFacts
<1> HIDE DEF v
<1>9. CASE c = 0
  <2>1. u = <<>> /\ v = <<>>
    BY <1>3, <1>8, <1>9, EmptySeq
  <2> QED
    BY <1>6, <2>1 DEF u, v, t
<1>10. CASE c # 0
  <2>1. u # <<>> /\ d = c - 1 /\ c \in Nat \ {0}
    <3>1. Len(<<>>) = 0
      BY EmptySeq
    <3> QED
      BY <1>1, <1>3, <1>10, <3>1
  <2>2. /\ Tail(u) \in Seq(StatusAddr) /\ Len(Tail(u)) = c - 1
        /\ \A p \in 1..(c - 1) : Tail(u)[p] = u[p + 1]
    BY <1>3, <2>1, HeadTailProperties
  <2>3. ASSUME NEW p \in 1..(c - 1)
        PROVE  v[p] = Tail(u)[p]
    <3>1. p \in 1..(F - 1) /\ p + 1 \in 1..c /\ p + 1 \in 1..F /\ 1 \in 1..F /\ 1 < p + 1
      BY <1>1, <1>3, <2>1
    <3>2. r.eventFifo[p + 1].claimedBy \in RequestId
      BY <1>3, <3>1
    <3>3. r.eventFifo[p + 1].claimedBy # i
      <4>1. i < r.eventFifo[p + 1].claimedBy
        BY <1>4, <3>1, <3>2 DEF Ledgered, ClaimsInOrder, F
      <4> QED
        BY <1>4, <3>2, <4>1
    <3>4. t.eventFifo[p].claimedBy = r.eventFifo[p + 1].claimedBy
      BY <1>1, <3>1
    <3>5. v[p] = r.requests[r.eventFifo[p + 1].claimedBy].addr
      <4>1. v[p] = t.requests[t.eventFifo[p].claimedBy].addr
        BY <1>8, <2>1
      <4>2. t.requests[r.eventFifo[p + 1].claimedBy] = r.requests[r.eventFifo[p + 1].claimedBy]
        BY <1>1, <3>2, <3>3
      <4> QED
        BY <3>4, <4>1, <4>2
    <3> QED
      BY <1>3, <2>2, <3>1, <3>5
  <2>4. v = Tail(u)
    BY <1>8, <2>1, <2>2, <2>3, SeqEqual
  <2> QED
    BY <1>6, <2>1, <2>4 DEF u, v, t
<1> QED
  BY <1>9, <1>10

\* ... cancelling takes the one waiter with that word out of the line ...
LEMMA CancelledView ==
  ASSUME NEW E, NEW r \in Registry(E), Ledgered(r), NEW i \in InState(r, "PENDING")
  PROVE  LET t == Cancelled(r, i)
             a == r.requests[i].addr
         IN
         /\ \E n \in 1..Len(Waiters(r)) : Waiters(r)[n] = a
         /\ Waiters(t) = RemoveFirst(Waiters(r), a)
         /\ Told(t) = Told(r)
<1> DEFINE t == Cancelled(r, i)
           L == Len(r.pendingOrder)
           c == ClaimedIn(r)
           a == r.requests[i].addr
           w == Waiters(r)
           v == Waiters(t)
           x == RemoveFirst(w, a)
<1>1. i \in RequestId /\ r.requests[i].state = "PENDING"
  BY DEF InState
<1>2. /\ t.requests = [r.requests EXCEPT ![i] = Absent]
      /\ t.pendingOrder = RemoveFirst(r.pendingOrder, i)
      /\ t.eventFifo = r.eventFifo
  BY DEF Cancelled, Registry
<1>3. t \in Registry(E) /\ Ledgered(t)
  <2>1. t \in Registry(E)
    BY <1>1, CancelType
  <2>2. Ledgered(t)
    BY CancelledLedgered
  <2> QED
    BY <2>1, <2>2
<1>4. /\ c \in 0..Len(r.eventFifo)
      /\ \A p \in 1..c : /\ r.eventFifo[p].claimedBy \in RequestId
                         /\ r.requests[r.eventFifo[p].claimedBy].state = "COMPLETED"
      /\ \A n \in 1..L : /\ r.pendingOrder[n] \in RequestId
                         /\ r.requests[r.pendingOrder[n]].state = "PENDING"
      /\ w \in Seq(StatusAddr) /\ Len(w) = L
      /\ \A n \in 1..L : w[n] = r.requests[r.pendingOrder[n]].addr
  BY ViewFacts
<1>5. L \in Nat /\ \A j \in RequestId : j \in Nat
  BY Elements
<1>6. /\ v \in Seq(StatusAddr) /\ Len(v) = Len(t.pendingOrder)
      /\ \A n \in 1..Len(t.pendingOrder) :
           v[n] = t.requests[t.pendingOrder[n]].addr
  BY <1>3, ViewFacts
<1>7. \E n \in 1..L : r.pendingOrder[n] = i
  BY <1>1 DEF Ledgered, LineIsPending
<1> HIDE DEF t, L, c, w, v
<1>8. \A j \in RequestId : j # i => t.requests[j] = r.requests[j]
  <2>1. r.requests \in [RequestId -> Request]
    BY DEF Registry
  <2> QED
    BY <1>1, <1>2, <2>1
<1>9. Told(t) = Told(r)
  <2>1. ClaimedIn(t) = ClaimedIn(r)
    BY <1>2 DEF ClaimedIn, Unclaimed
  <2>2. ASSUME NEW p \in 1..ClaimedIn(r)
        PROVE  t.requests[t.eventFifo[p].claimedBy].addr
                 = r.requests[r.eventFifo[p].claimedBy].addr
    BY <1>1, <1>2, <1>4, <1>8 DEF c
  <2> QED
    BY <1>3, <2>1, <2>2, ToldSame
<1>10. PICK m \in 1..L :
         /\ r.pendingOrder[m] = i
         /\ Len(t.pendingOrder) = L - 1
         /\ \A n \in 1..(L - 1) :
              t.pendingOrder[n] = IF n < m THEN r.pendingOrder[n] ELSE r.pendingOrder[n + 1]
  <2> DEFINE line == r.pendingOrder
  <2>1. line \in Seq(RequestId) /\ \E n \in 1..Len(line) : line[n] = i
    BY <1>7 DEF L, Registry
  <2> HIDE DEF line
  <2>2. \E m \in 1..Len(line) :
          /\ line[m] = i
          /\ Len(RemoveFirst(line, i)) = Len(line) - 1
          /\ \A n \in 1..(Len(line) - 1) :
               RemoveFirst(line, i)[n] = IF n < m THEN line[n] ELSE line[n + 1]
    BY <2>1, RemoveFirstFields
  <2> QED
    BY <1>2, <2>2 DEF line, L
<1>11. w[m] = a
  BY <1>4, <1>10
<1>12. \A n \in 1..L : w[n] = a => n = m
  <2> SUFFICES ASSUME NEW n \in 1..L, w[n] = a PROVE n = m
    OBVIOUS
  <2>1. r.pendingOrder[n] \in RequestId
        /\ r.requests[r.pendingOrder[n]].state = "PENDING"
        /\ r.requests[r.pendingOrder[n]].addr = a
    BY <1>4
  <2>2. r.pendingOrder[n] = i
    BY <1>1, <2>1 DEF Ledgered, WordsDiffer
  <2>3. ~(n < m) /\ ~(m < n)
    BY <1>1, <1>5, <1>10, <2>2 DEF Ledgered, LineInOrder, L
  <2> QED
    BY <1>5, <2>3
<1>13. \E k \in 1..Len(w) :
         /\ w[k] = a
         /\ Len(x) = Len(w) - 1
         /\ \A n \in 1..(Len(w) - 1) : x[n] = IF n < k THEN w[n] ELSE w[n + 1]
  <2>1. \E k \in 1..Len(w) : w[k] = a
    BY <1>4, <1>11
  <2>2. w \in Seq(StatusAddr)
    BY <1>4
  <2> HIDE DEF a
  <2> QED
    BY <2>1, <2>2, RemoveFirstFields
<1>14. x \in Seq(StatusAddr)
  <2> HIDE DEF a
  <2> QED
    BY <1>4, RemoveFirstType
<1> HIDE DEF a, x
<1>15. /\ Len(x) = L - 1
       /\ \A n \in 1..(L - 1) : x[n] = IF n < m THEN w[n] ELSE w[n + 1]
  BY <1>4, <1>12, <1>13
<1>16. ASSUME NEW n \in 1..(L - 1)
       PROVE  v[n] = x[n]
  <2> DEFINE k == IF n < m THEN n ELSE n + 1
  <2>1. k \in 1..L /\ k # m
    BY <1>5
  <2>2. x[n] = w[k] /\ t.pendingOrder[n] = r.pendingOrder[k]
    BY <1>10, <1>15
  <2> HIDE DEF k
  <2>3. r.pendingOrder[k] \in RequestId /\ r.pendingOrder[k] # i
    <3>1. w[k] # a
      BY <1>12, <2>1
    <3> QED
      BY <1>4, <2>1, <3>1 DEF a
  <2>4. v[n] = t.requests[r.pendingOrder[k]].addr
    BY <1>6, <1>10, <2>2
  <2> QED
    BY <1>4, <1>8, <2>1, <2>2, <2>3, <2>4
<1>17. v = x
  BY <1>6, <1>10, <1>14, <1>15, <1>16, SeqEqual
<1> QED
  BY <1>4, <1>9, <1>11, <1>17 DEF v, x, t, a, w

\* ... and the game's own completions and its waits change nothing here.
LEMMA UntouchedView ==
  ASSUME NEW r, NEW t, t.requests = r.requests, t.pendingOrder = r.pendingOrder,
         t.eventFifo = r.eventFifo
  PROVE  Waiters(t) = Waiters(r) /\ Told(t) = Told(r)
BY DEF Waiters, Told, ClaimedIn, Unclaimed

\* How many waiters n new events answer.
AnswersIn(r, n) == IF n < Len(Waiters(r)) THEN n ELSE Len(Waiters(r))

-----------------------------------------------------------------------------
(* The window server's state and actions in those terms.                   *)

\* The variables of WindowServer are the view of the registry.
LEMMA ServerSees ==
  /\ Server!serverVars = <<Undelivered(reg), Waiters(reg), Told(reg)>>
  /\ Server!serverVars' = <<Undelivered(reg'), Waiters(reg'), Told(reg')>>
BY DEF Server!serverVars, LedgerEvents, ClaimedCount, Undelivered, Waiters, Told,
       ClaimedIn

\* A step that the view shows as an arrival is one, ...
LEMMA ArriveSeen ==
  ASSUME NEW evs,
         Undelivered(reg') = Undelivered(reg) \o evs,
         Told(reg') = Told(reg) \o SubSeq(Waiters(reg), 1, AnswersIn(reg, Len(evs))),
         Waiters(reg') = SubSeq(Waiters(reg), AnswersIn(reg, Len(evs)) + 1,
                                Len(Waiters(reg)))
  PROVE  Server!Arrive(evs)
BY DEF Server!Arrive, Server!Answered, Server!Answers, AnswersIn, LedgerEvents,
       ClaimedCount, Undelivered, Waiters, Told, ClaimedIn

\* ... as a question, ...
LEMMA AskSeen ==
  ASSUME NEW a, Undelivered(reg') = Undelivered(reg),
         a \notin ToSet(Waiters(reg)), a \notin ToSet(Told(reg)),
         \/ /\ Len(Told(reg)) < Len(Undelivered(reg))
            /\ Told(reg') = Append(Told(reg), a)
            /\ Waiters(reg') = Waiters(reg)
         \/ /\ Len(Told(reg)) = Len(Undelivered(reg))
            /\ Waiters(reg') = Append(Waiters(reg), a)
            /\ Told(reg') = Told(reg)
  PROVE  Server!Ask(a)
BY DEF Server!Ask, LedgerEvents, ClaimedCount, Undelivered, Waiters, Told, ClaimedIn,
       ToSet, Server!ToSet

\* ... as a fetch, ...
LEMMA FetchSeen ==
  ASSUME Undelivered(reg) # <<>>,
         Undelivered(reg') = Tail(Undelivered(reg)),
         Told(reg') = IF Told(reg) = <<>> THEN <<>> ELSE Tail(Told(reg)),
         Waiters(reg') = Waiters(reg)
  PROVE  Server!Fetch
BY DEF Server!Fetch, LedgerEvents, ClaimedCount, Undelivered, Waiters, Told, ClaimedIn

\* ... as an arrival and a fetch in one call, ...
LEMMA ArriveAndFetchSeen ==
  ASSUME NEW evs, NEW answered,
         Undelivered(reg) = <<>>, evs # <<>>,
         Undelivered(reg') = Tail(evs),
         answered = Told(reg) \o SubSeq(Waiters(reg), 1, AnswersIn(reg, Len(evs))),
         Told(reg') = IF answered = <<>> THEN <<>> ELSE Tail(answered),
         Waiters(reg') = SubSeq(Waiters(reg), AnswersIn(reg, Len(evs)) + 1,
                                Len(Waiters(reg)))
  PROVE  Server!ArriveAndFetch(evs)
BY DEF Server!ArriveAndFetch, Server!Answered, Server!Answers, AnswersIn,
       LedgerEvents, ClaimedCount, Undelivered, Waiters, Told, ClaimedIn

\* ... as a withdrawal.
LEMMA WithdrawSeen ==
  ASSUME NEW a, a \in ToSet(Waiters(reg)),
         Waiters(reg') = RemoveFirst(Waiters(reg), a),
         Undelivered(reg') = Undelivered(reg),
         Told(reg') = Told(reg)
  PROVE  Server!Withdraw(a)
BY DEF Server!Withdraw, LedgerEvents, ClaimedCount, Undelivered, Waiters, Told,
       ClaimedIn, ToSet, Server!ToSet, RemoveFirst, Server!RemoveFirst,
       RemoveAt, Server!RemoveAt, SelectInSeq, Server!SelectInSeq, Min, Server!Min

\* Every step of the model is a step of the window server or invisible to its
\* clients.
LEMMA ServerStep ==
  ASSUME Mirrored, NoLostWakeup, [Next]_vars
  PROVE  [Server!ServerNext]_Server!serverVars
<1>1. /\ Promised(reg) /\ q \in Seq(Event) /\ Reals(q) = Undelivered(reg)
      /\ reg \in Registry(RealEvent) /\ Ledgered(reg)
      /\ Exhausted(reg)
  BY DEF Mirrored, Promised, NoLostWakeup, Exhausted
<1>2. /\ Undelivered(reg) \in Seq(RealEvent)
      /\ Len(Undelivered(reg)) = Len(reg.eventFifo)
  BY <1>1, UndeliveredType
<1>3. ASSUME NEW b \in Batches, Enqueueable(reg, Reals(b)),
             reg' = OnEventsEnqueued(reg, Reals(b))
      PROVE  Server!ServerNext
  <2> DEFINE evs == Reals(b)
  <2>1. evs \in Seq(RealEvent)
    BY BatchTypes
  <2>2. Server!Arrive(evs)
    <3> HIDE DEF evs
    <3>1. Undelivered(reg') = Undelivered(reg) \o evs
      BY <1>1, <1>3, <2>1, UndeliveredEnqueued DEF evs
    <3>2. /\ Waiters(reg') = SubSeq(Waiters(reg), AnswersIn(reg, Len(evs)) + 1,
                                    Len(Waiters(reg)))
          /\ Told(reg') = Told(reg) \o SubSeq(Waiters(reg), 1, AnswersIn(reg, Len(evs)))
      BY <1>1, <1>3, <2>1, EnqueuedView DEF AnswersIn, evs
    <3> QED
      BY <3>1, <3>2, ArriveSeen
  <2> QED
    BY <2>2 DEF Server!ServerNext
<1>4. ASSUME Undelivered(reg) # <<>>, reg' = OnEventConsumed(reg)
      PROVE  Server!ServerNext
  <2>1. /\ reg.eventFifo # <<>>
        /\ Undelivered(reg') = Tail(Undelivered(reg))
    BY <1>1, <1>4, UndeliveredConsumed
  <2>2. /\ Waiters(reg') = Waiters(reg)
        /\ Told(reg') = IF Told(reg) = <<>> THEN <<>> ELSE Tail(Told(reg))
    BY <1>1, <1>4, <2>1, ConsumedView
  <2>3. Server!Fetch
    BY <1>4, <2>1, <2>2, FetchSeen
  <2> QED
    BY <2>3 DEF Server!ServerNext
<1>5. ASSUME NEW b \in Batches, Enqueueable(reg, Reals(b)), Undelivered(reg) = <<>>,
             Reals(b) # <<>>,
             reg' = OnEventConsumed(OnEventsEnqueued(reg, Reals(b)))
      PROVE  Server!ServerNext
  <2> DEFINE evs == Reals(b)
             r1 == OnEventsEnqueued(reg, evs)
             answered == Told(reg) \o SubSeq(Waiters(reg), 1, AnswersIn(reg, Len(evs)))
  <2>1. evs \in Seq(RealEvent)
    BY BatchTypes
  <2>2. r1 \in Registry(RealEvent) /\ Ledgered(r1)
    <3>1. b \in Seq(Event)
      BY BatchTypes
    <3> QED
      BY <1>1, <1>5, <3>1, EnqueueKeeps DEF Promised
  <2> HIDE DEF evs
  <2>3. Enqueueable(reg, evs)
    BY <1>5 DEF evs
  <2>4. Undelivered(r1) = evs
    <3>1. Undelivered(r1) = Undelivered(reg) \o evs
      BY <1>1, <2>1, <2>3, UndeliveredEnqueued
    <3> QED
      BY <1>5, <2>1, <3>1, ConcatEmptySeq
  <2>5. /\ Waiters(r1) = SubSeq(Waiters(reg), AnswersIn(reg, Len(evs)) + 1,
                                Len(Waiters(reg)))
        /\ Told(r1) = answered
    BY <1>1, <2>1, <2>3, EnqueuedView DEF AnswersIn
  <2> HIDE DEF r1, answered
  <2>6. reg' = OnEventConsumed(r1) /\ evs # <<>>
    BY <1>5 DEF r1, evs
  <2>7. r1.eventFifo # <<>> /\ Undelivered(reg') = Tail(evs)
    BY <2>2, <2>4, <2>6, UndeliveredConsumed
  <2>8. /\ Waiters(reg') = Waiters(r1)
        /\ Told(reg') = IF answered = <<>> THEN <<>> ELSE Tail(answered)
    BY <2>2, <2>5, <2>6, <2>7, ConsumedView
  <2>9. Server!ArriveAndFetch(evs)
    BY <1>5, <2>5, <2>6, <2>7, <2>8, ArriveAndFetchSeen DEF answered
  <2> QED
    BY <2>9 DEF Server!ServerNext, evs
<1>6. ASSUME NEW a \in NotifyAddr, Registrable(reg), Live(reg, a) = {},
             reg' = RegisterRequest(reg, a)
      PROVE  Server!ServerNext
  <2>1. a \in StatusAddr
    BY AsyncAssumption
  <2>2. Undelivered(reg') = Undelivered(reg)
    BY <1>1, <1>6, <2>1, UndeliveredRegistered
  <2>3. \/ /\ ClaimedIn(reg) < Len(reg.eventFifo)
           /\ Told(reg') = Append(Told(reg), a)
           /\ Waiters(reg') = Waiters(reg)
        \/ /\ ClaimedIn(reg) = Len(reg.eventFifo)
           /\ Waiters(reg') = Append(Waiters(reg), a)
           /\ Told(reg') = Told(reg)
    BY <1>1, <1>6, <2>1, RegisteredView
  <2>4. /\ \A p \in 1..ClaimedIn(reg) :
             /\ reg.eventFifo[p].claimedBy \in RequestId
             /\ reg.requests[reg.eventFifo[p].claimedBy].state = "COMPLETED"
        /\ \A n \in 1..Len(reg.pendingOrder) :
             /\ reg.pendingOrder[n] \in RequestId
             /\ reg.requests[reg.pendingOrder[n]].state = "PENDING"
        /\ Len(Told(reg)) = ClaimedIn(reg)
    BY <1>1, ViewFacts
  <2>5. \A i \in RequestId :
          reg.requests[i].state \in {"PENDING", "COMPLETED"} => reg.requests[i].addr # a
    BY <1>6 DEF Live
  <2>6. a \notin ToSet(Waiters(reg))
    <3>1. DOMAIN reg.pendingOrder = 1..Len(reg.pendingOrder)
      BY <1>1, Elements
    <3> QED
      BY <2>4, <2>5, <3>1 DEF ToSet, Waiters
  <2>7. a \notin ToSet(Told(reg))
    BY <2>4, <2>5 DEF ToSet, Told
  <2>8. Server!Ask(a)
    BY <1>2, <2>2, <2>3, <2>4, <2>6, <2>7, AskSeen
  <2> QED
    BY <2>8 DEF Server!ServerNext
<1>7. ASSUME NEW a \in NotifyAddr, NEW i \in InState(reg, "PENDING"),
             reg.requests[i].addr = a, reg' = Cancelled(reg, i)
      PROVE  Server!ServerNext
  <2>1. Undelivered(reg') = Undelivered(reg)
    BY <1>1, <1>7, UndeliveredUntouched DEF InState
  <2>2. /\ \E n \in 1..Len(Waiters(reg)) : Waiters(reg)[n] = a
        /\ Waiters(reg') = RemoveFirst(Waiters(reg), a)
        /\ Told(reg') = Told(reg)
    BY <1>1, <1>7, CancelledView
  <2>3. a \in ToSet(Waiters(reg))
    <3>1. Waiters(reg) \in Seq(StatusAddr)
      BY <1>1, ViewFacts
    <3>2. DOMAIN Waiters(reg) = 1..Len(Waiters(reg))
      BY <3>1
    <3> QED
      BY <2>2, <3>2 DEF ToSet
  <2>4. Server!Withdraw(a)
    BY <2>1, <2>2, <2>3, WithdrawSeen
  <2> QED
    BY <2>4 DEF Server!ServerNext
<1>8. ASSUME Undelivered(reg') = Undelivered(reg), Waiters(reg') = Waiters(reg),
             Told(reg') = Told(reg)
      PROVE  UNCHANGED Server!serverVars
  BY <1>8, ServerSees
<1>9. ASSUME reg'.requests = reg.requests, reg'.pendingOrder = reg.pendingOrder,
             reg'.eventFifo = reg.eventFifo
      PROVE  UNCHANGED Server!serverVars
  <2>1. Undelivered(reg') = Undelivered(reg)
    BY <1>9 DEF Undelivered
  <2>2. Waiters(reg') = Waiters(reg) /\ Told(reg') = Told(reg)
    BY <1>9, UntouchedView
  <2> QED
    BY <1>8, <2>1, <2>2
<1>10. CASE UNCHANGED vars
  BY <1>9, <1>10 DEF vars
<1>11. CASE Next
  <2>1. CASE \E b \in Batches : ProduceTick(b) \/ Peek(b)
    BY <1>3, <2>1 DEF ProduceTick, Peek
  <2>2. CASE \E b \in Batches : GetEventAfterRefill(b)
    <3>1. PICK b \in Batches : /\ q = <<>> /\ b # <<>> /\ Enqueueable(reg, Reals(b))
                               /\ Delivered(b, OnEventsEnqueued(reg, Reals(b)))
      BY <2>2 DEF GetEventAfterRefill
    <3>2. CASE Head(b) = Null
      BY <1>3, <3>1, <3>2 DEF Delivered
    <3>3. CASE Head(b) # Null
      <4>1. b \in Seq(Event)
        BY BatchTypes
      <4>2. Reals(b) # <<>>
        BY <3>1, <3>3, <4>1, RealsTail
      <4>3. Undelivered(reg) = <<>>
        BY <1>1, <3>1, RealsOfFew
      <4> QED
        BY <1>5, <3>1, <3>3, <4>2, <4>3 DEF Delivered
    <3> QED
      BY <3>2, <3>3
  <2>3. CASE \E b \in Batches : GetEventStarved(b)
    BY <1>9, <2>3 DEF GetEventStarved
  <2>4. CASE GetEvent
    <3>1. q # <<>> /\ Delivered(q, reg)
      BY <2>4 DEF GetEvent
    <3>2. CASE Head(q) = Null
      BY <1>9, <3>1, <3>2 DEF Delivered
    <3>3. CASE Head(q) # Null
      <4>1. Undelivered(reg) # <<>>
        BY <1>1, <3>1, <3>3, RealsTail
      <4> QED
        BY <1>4, <3>1, <3>3, <4>1 DEF Delivered
    <3> QED
      BY <3>2, <3>3
  <2>5. ASSUME NEW a \in NotifyAddr, Notify(a)
        PROVE  [Server!ServerNext]_Server!serverVars
    <3>1. CASE Live(reg, a) = {}
      BY <1>6, <2>5, <3>1 DEF Notify
    <3>2. CASE Live(reg, a) # {}
      BY <1>9, <2>5, <3>2 DEF Notify, RegisterRequest
    <3> QED
      BY <3>1, <3>2
  <2>6. ASSUME NEW a \in NotifyAddr, Cancel(a)
        PROVE  Server!ServerNext
    BY <1>7, <2>6 DEF Cancel
  <2>7. ASSUME NEW a \in SelfAddr, NEW c \in Reasons, Complete(a, c)
        PROVE  UNCHANGED Server!serverVars
    <3>1. reg' = OnRequestComplete(reg, a, c)
      BY <2>7 DEF Complete
    <3> QED
      BY <1>1, <1>9, <3>1 DEF OnRequestComplete, Registry
  <2>8. CASE Wait
    <3>1. reg' = WaitForAnyRequest(reg)
      BY <2>8 DEF Wait
    <3> QED
      BY <1>1, <1>9, <3>1 DEF WaitForAnyRequest, Registry
  <2> QED
    BY <1>11, <2>1, <2>2, <2>3, <2>4, <2>5, <2>6, <2>7, <2>8 DEF Next
<1> QED
  BY <1>10, <1>11

\* Nobody waits at the start.
LEMMA ServerStart == Init => Server!ServerInit
<1> SUFFICES ASSUME Init PROVE Server!ServerInit
  OBVIOUS
<1>1. /\ reg = EmptyRegistry
      /\ reg \in Registry(RealEvent) /\ Ledgered(reg)
  BY EmptyPromised DEF Init, Promised
<1>2. Len(reg.eventFifo) = 0 /\ Len(reg.pendingOrder) = 0
  BY <1>1 DEF EmptyRegistry
<1>3. Undelivered(reg) = <<>>
  <2>1. Undelivered(reg) \in Seq(RealEvent) /\ Len(Undelivered(reg)) = 0
    BY <1>1, <1>2, UndeliveredType
  <2> QED
    BY <2>1, EmptySeq
<1>4. Waiters(reg) = <<>> /\ Told(reg) = <<>>
  <2>1. /\ Waiters(reg) \in Seq(StatusAddr) /\ Len(Waiters(reg)) = 0
        /\ Told(reg) \in Seq(StatusAddr) /\ Len(Told(reg)) \in 0..0
    BY <1>1, <1>2, ViewFacts
  <2>2. Len(Told(reg)) = 0
    BY <2>1
  <2> QED
    BY <2>1, <2>2, EmptySeq
<1> QED
  BY <1>3, <1>4 DEF Server!ServerInit, LedgerEvents, ClaimedCount, Undelivered,
     Waiters, Told, ClaimedIn

\* The lifecycle the docstring of async_model.py lists (registered, enqueued,
\* completed, consumed) is a window server's: it loses no event, answers nobody
\* twice and answers in order.
THEOREM ServerImplemented == Spec => ImplementsWindowServer
<1>1. Init => Server!ServerInit
  BY ServerStart
<1>2. Mirrored /\ NoLostWakeup /\ [Next]_vars => [Server!ServerNext]_Server!serverVars
  BY ServerStep
<1> QED
  BY <1>1, <1>2, MirrorInvariant, NoLostWakeupHolds, PTL
  DEF Spec, ImplementsWindowServer, Server!ServerSpec

=============================================================================
