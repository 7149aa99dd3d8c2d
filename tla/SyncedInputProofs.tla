-------------------------- MODULE SyncedInputProofs --------------------------
(***************************************************************************)
(* The injector over the async model, for every sequence of keys, every    *)
(* hold, gap and budget, and whatever the game does: the ledger and the    *)
(* key in flight, the key-up that is never forgotten, the phase boundary,  *)
(* max_keys and the finality of a stall.  One inductive invariant,         *)
(* InStep, relates the fields of the injector to the ledger of the         *)
(* registry; RefillOutcome says what one refill may do.                    *)
(***************************************************************************)
EXTENDS SyncedInput, AsyncModelProofs

-----------------------------------------------------------------------------
(* The batches of the injector.                                            *)

\* A release queues the key-up, ...
LEMMA ReleaseReals ==
  ASSUME NEW s \in Scan
  PROVE  /\ Release(s) \in Seq(Event)
         /\ Reals(Release(s)) = <<KeyUp(s)>>
         /\ Release(s) # <<>> /\ Head(Release(s)) = KeyUp(s)
<1> DEFINE up == KeyUp(s)
           gap == Nulls(GapNulls)
<1>1. up \in RealEvent /\ up \in Event /\ up # Null
  BY DEF KeyUp, RealEvent, Event, Null
<1>2. gap \in Seq(Event) /\ Reals(gap) = <<>>
  BY NullsReals, EventsAssumption
<1> HIDE DEF up, gap
<1>3. <<up>> \in Seq(Event) /\ Reals(<<up>>) = <<up>> /\ <<up>> \in Seq(RealEvent)
      /\ Len(<<up>>) = 1 /\ <<up>>[1] = up
  BY <1>1, RealsOfFew
<1>4. Reals(<<up>> \o gap) = <<up>> \o <<>>
  BY <1>2, <1>3, RealsConcat
<1>5. <<up>> \o <<>> = <<up>>
  BY <1>3, ConcatEmptySeq
<1>6. /\ <<up>> \o gap \in Seq(Event)
      /\ Len(<<up>> \o gap) = 1 + Len(gap)
      /\ Len(gap) \in Nat
      /\ \A k \in 1..(1 + Len(gap)) :
           (<<up>> \o gap)[k] = IF k <= 1 THEN <<up>>[k] ELSE gap[k - 1]
  BY <1>2, <1>3, ConcatProperties, LenProperties
<1>7. (<<up>> \o gap)[1] = up /\ Len(<<up>> \o gap) # 0
  BY <1>3, <1>6
<1>8. <<up>> \o gap # <<>> /\ Head(<<up>> \o gap) = up
  BY <1>6, <1>7, EmptySeq, HeadTailProperties
<1> QED
  BY <1>4, <1>5, <1>6, <1>8 DEF Release, up, gap

\* ... and a burst the key-down and the translated key, and with no hold the
\* key-up.
LEMMA BurstReals ==
  ASSUME NEW s \in Scan, NEW hold \in Nat
  PROVE  /\ KeyBurst(s, hold) \in Seq(Event)
         /\ Reals(KeyBurst(s, hold)) =
              IF hold = 0 THEN <<KeyDown(s), Key(s), KeyUp(s)>>
              ELSE <<KeyDown(s), Key(s)>>
         /\ KeyBurst(s, hold) # <<>> /\ Head(KeyBurst(s, hold)) = Null
<1> DEFINE down == KeyDown(s)
           key == Key(s)
           b1 == <<Null, down>>
           b2 == Nulls(GapNulls)
           b3 == <<key>>
           b4 == Nulls(HoldNulls)
           b5 == IF hold = 0 THEN Release(s) ELSE <<>>
<1>1. /\ down \in Event /\ key \in Event /\ Null \in Event
      /\ down # Null /\ key # Null
  BY DEF KeyDown, Key, RealEvent, Event, Null
<1>2. /\ b2 \in Seq(Event) /\ Reals(b2) = <<>>
      /\ b4 \in Seq(Event) /\ Reals(b4) = <<>>
  BY NullsReals, EventsAssumption
<1>3. b5 \in Seq(Event) /\ Reals(b5) = IF hold = 0 THEN <<KeyUp(s)>> ELSE <<>>
  <2>1. <<>> \in Seq(Event)
    BY EmptySeq
  <2> QED
    BY <2>1, ReleaseReals, RealsOfFew
<1> HIDE DEF down, key, b2, b4, b5
<1>4. b1 \in Seq(Event) /\ Reals(b1) = <<down>> /\ Len(b1) = 2 /\ b1[1] = Null
  <2>1. b1 = Append(<<Null>>, down) /\ <<Null>> \in Seq(Event)
    BY <1>1
  <2>2. Reals(<<Null>>) = <<>>
    BY <1>1, RealsOfFew
  <2>3. Reals(b1) = Append(<<>>, down)
    BY <1>1, <2>1, <2>2, RealsAppend
  <2> QED
    BY <1>1, <2>3
<1>5. b3 \in Seq(Event) /\ Reals(b3) = <<key>>
  BY <1>1, RealsOfFew
<1> HIDE DEF b1, b3
<1> DEFINE c2 == b1 \o b2
           c3 == c2 \o b3
           c4 == c3 \o b4
           c5 == c4 \o b5
<1>6. /\ c2 \in Seq(Event) /\ Reals(c2) = <<down>> \o <<>>
      /\ Len(c2) = 2 + Len(b2) /\ Len(b2) \in Nat /\ c2[1] = Null
  <2>1. /\ c2 \in Seq(Event) /\ Reals(c2) = <<down>> \o <<>>
        /\ Len(c2) = 2 + Len(b2) /\ Len(b2) \in Nat
        /\ \A k \in 1..(2 + Len(b2)) : c2[k] = IF k <= 2 THEN b1[k] ELSE b2[k - 2]
    <3>1. Reals(c2) = <<down>> \o <<>>
      BY <1>2, <1>4, RealsConcat
    <3>2. Len(b2) \in Nat
      BY <1>2, LenProperties
    <3>3. /\ c2 \in Seq(Event)
          /\ Len(c2) = Len(b1) + Len(b2)
          /\ \A k \in 1..(Len(b1) + Len(b2)) :
               c2[k] = IF k <= Len(b1) THEN b1[k] ELSE b2[k - Len(b1)]
      BY <1>2, <1>4, ConcatProperties
    <3> QED
      BY <1>4, <3>1, <3>2, <3>3
  <2> HIDE DEF c2
  <2> QED
    BY <1>4, <2>1
<1> HIDE DEF c2
<1>7. /\ c3 \in Seq(Event) /\ Reals(c3) = (<<down>> \o <<>>) \o <<key>>
      /\ Len(c3) \in Nat \ {0} /\ c3[1] = Null
  <2>1. /\ c3 \in Seq(Event) /\ Reals(c3) = (<<down>> \o <<>>) \o <<key>>
        /\ Len(c3) = Len(c2) + Len(b3) /\ Len(b3) \in Nat
        /\ \A k \in 1..(Len(c2) + Len(b3)) :
             c3[k] = IF k <= Len(c2) THEN c2[k] ELSE b3[k - Len(c2)]
    BY <1>5, <1>6, RealsConcat, ConcatProperties, LenProperties
  <2> HIDE DEF c3
  <2> QED
    BY <1>6, <2>1
<1> HIDE DEF c3
<1>8. /\ c4 \in Seq(Event) /\ Reals(c4) = ((<<down>> \o <<>>) \o <<key>>) \o <<>>
      /\ Len(c4) \in Nat \ {0} /\ c4[1] = Null
  <2>1. /\ c4 \in Seq(Event) /\ Reals(c4) = ((<<down>> \o <<>>) \o <<key>>) \o <<>>
        /\ Len(c4) = Len(c3) + Len(b4) /\ Len(b4) \in Nat
        /\ \A k \in 1..(Len(c3) + Len(b4)) :
             c4[k] = IF k <= Len(c3) THEN c3[k] ELSE b4[k - Len(c3)]
    BY <1>2, <1>7, RealsConcat, ConcatProperties, LenProperties
  <2> HIDE DEF c4
  <2> QED
    BY <1>7, <2>1
<1> HIDE DEF c4
<1>9. /\ c5 \in Seq(Event)
      /\ Reals(c5) = (((<<down>> \o <<>>) \o <<key>>) \o <<>>) \o Reals(b5)
      /\ Len(c5) \in Nat \ {0} /\ c5[1] = Null
  <2>1. /\ c5 \in Seq(Event)
        /\ Reals(c5) = (((<<down>> \o <<>>) \o <<key>>) \o <<>>) \o Reals(b5)
        /\ Len(c5) = Len(c4) + Len(b5) /\ Len(b5) \in Nat
        /\ \A k \in 1..(Len(c4) + Len(b5)) :
             c5[k] = IF k <= Len(c4) THEN c4[k] ELSE b5[k - Len(c4)]
    BY <1>3, <1>8, RealsConcat, ConcatProperties, LenProperties
  <2> HIDE DEF c5
  <2> QED
    BY <1>8, <2>1
<1>10. c5 = KeyBurst(s, hold)
  BY DEF KeyBurst, c5, c4, c3, c2, b1, b2, b3, b4, b5, down, key
<1> HIDE DEF c5
<1>11. c5 # <<>> /\ Head(c5) = Null
  BY <1>9, EmptySeq, HeadTailProperties
<1> DEFINE up == KeyUp(s)
           E == {down, key, up}
<1> HIDE DEF up
<1>12. /\ <<down>> \in Seq(E) /\ <<down, key>> \in Seq(E)
       /\ Append(<<down>>, key) = <<down, key>>
       /\ Append(<<down, key>>, up) = <<down, key, up>>
       /\ key \in E /\ up \in E
  <2>1. /\ <<down>> \in Seq(E) /\ <<down, key>> \in Seq(E) /\ <<down, key, up>> \in Seq(E)
        /\ key \in E /\ up \in E
    OBVIOUS
  <2> HIDE DEF E
  <2>2. Append(<<down>>, key) = <<down, key>>
    <3> DEFINE a == Append(<<down>>, key)
               b == <<down, key>>
    <3>1. /\ a \in Seq(E) /\ Len(a) = 2 /\ a[1] = down /\ a[2] = key
      <4>1. Len(<<down>>) = 1 /\ <<down>>[1] = down
        OBVIOUS
      <4> QED
        BY <2>1, <4>1, AppendProperties
    <3>2. /\ b \in Seq(E) /\ Len(b) = 2 /\ b[1] = down /\ b[2] = key
      BY <2>1
    <3> HIDE DEF a, b
    <3>3. \A k \in 1..Len(a) : a[k] = b[k]
      BY <3>1, <3>2
    <3>4. a = b
      BY <3>1, <3>2, <3>3, SeqEqual
    <3> QED
      BY <3>4 DEF a, b
  <2>3. Append(<<down, key>>, up) = <<down, key, up>>
    <3> DEFINE a == Append(<<down, key>>, up)
               b == <<down, key, up>>
    <3>1. /\ a \in Seq(E) /\ Len(a) = 3 /\ a[1] = down /\ a[2] = key /\ a[3] = up
      <4>1. Len(<<down, key>>) = 2 /\ <<down, key>>[1] = down /\ <<down, key>>[2] = key
        OBVIOUS
      <4> QED
        BY <2>1, <4>1, AppendProperties
    <3>2. /\ b \in Seq(E) /\ Len(b) = 3 /\ b[1] = down /\ b[2] = key /\ b[3] = up
      BY <2>1
    <3> HIDE DEF a, b
    <3>3. \A k \in 1..Len(a) : a[k] = b[k]
      BY <3>1, <3>2
    <3>4. a = b
      BY <3>1, <3>2, <3>3, SeqEqual
    <3> QED
      BY <3>4 DEF a, b
  <2> QED
    BY <2>1, <2>2, <2>3
<1> HIDE DEF E
<1>13. ((<<down>> \o <<>>) \o <<key>>) \o <<>> = <<down, key>>
  <2>1. <<down>> \o <<>> = <<down>> /\ <<down, key>> \o <<>> = <<down, key>>
    BY <1>12, ConcatEmptySeq
  <2>2. <<down>> \o <<key>> = Append(<<down>>, key)
    BY <1>12, AppendIsConcat
  <2> QED
    BY <1>12, <2>1, <2>2
<1>14. Reals(c5) = IF hold = 0 THEN <<down, key, up>> ELSE <<down, key>>
  <2>1. Reals(c5) = <<down, key>> \o Reals(b5)
    BY <1>9, <1>13
  <2>2. <<down, key>> \o <<up>> = Append(<<down, key>>, up)
    BY <1>12, AppendIsConcat
  <2>3. <<down, key>> \o <<>> = <<down, key>>
    BY <1>12, ConcatEmptySeq
  <2> QED
    BY <1>3, <1>12, <2>1, <2>2, <2>3 DEF up
<1> QED
  BY <1>9, <1>10, <1>11, <1>14 DEF down, key, up

-----------------------------------------------------------------------------
(* The fields of the injector.                                             *)

\* The constants the fields are measured in.
LEMMA Measures ==
  /\ StallBudget \in Nat /\ StallBudget > 0
  /\ KeyHold \in Nat /\ FirstKeyHold \in Nat /\ MinGap \in Nat /\ MaxKeys \in Nat
  /\ Long \in Int /\ Long < 0
  /\ Later(KeyHold, FirstKeyHold) \in Nat
  /\ KeyHold <= Later(KeyHold, FirstKeyHold)
  /\ FirstKeyHold <= Later(KeyHold, FirstKeyHold)
  /\ Phase1Keys \in Seq(Scan) /\ Keys \in Seq(Scan) /\ NavKeys \in Seq(Scan)
  /\ Len(Phase1Keys) \in Nat /\ Len(Keys) \in Nat /\ Len(NavKeys) \in Nat
  /\ Len(Phase1Keys) <= Len(Keys)
<1>1. /\ StallBudget \in Nat /\ StallBudget > 0
      /\ KeyHold \in Nat /\ FirstKeyHold \in Nat /\ MinGap \in Nat /\ MaxKeys \in Nat
  BY InjectorAssumption
<1>2. /\ Long \in Int /\ Long < 0
      /\ Later(KeyHold, FirstKeyHold) \in Nat
      /\ KeyHold <= Later(KeyHold, FirstKeyHold)
      /\ FirstKeyHold <= Later(KeyHold, FirstKeyHold)
  BY <1>1 DEF Long, Later
<1>3. Phase1Keys \in Seq(Scan) /\ Phase2Keys \in Seq(Scan) /\ NavKeys \in Seq(Scan)
  BY InjectorAssumption
<1>4. Keys \in Seq(Scan) /\ Len(Keys) = Len(Phase1Keys) + Len(Phase2Keys)
  BY <1>3, ConcatProperties DEF Keys
<1>5. Len(Phase1Keys) \in Nat /\ Len(Phase2Keys) \in Nat /\ Len(NavKeys) \in Nat
  BY <1>3, LenProperties
<1> QED
  BY <1>1, <1>2, <1>3, <1>4, <1>5

\* The fields that are counted or measured.
LEMMA FieldTypes ==
  ASSUME NEW i \in Injector
  PROVE  /\ i.idx \in Nat /\ i.idx <= Len(Keys)
         /\ i.hold \in Nat
         /\ i.nav \in Seq(Scan) /\ Len(i.nav) \in Nat
         /\ i.state \in States
         /\ i.ids \in [Roles -> Nat]
         /\ i.ids["down"] \in Nat /\ i.ids["key"] \in Nat /\ i.ids["up"] \in Nat
         /\ {i.releaseAt, i.sentAt, i.closedAt, i.nextAt} \subseteq Int
<1>1. i.idx \in Nat /\ i.idx <= Len(Keys)
  BY Measures DEF Injector
<1>2. i.hold \in Nat
  BY Measures DEF Injector
<1>3. /\ i.nav \in Seq(Scan) /\ i.state \in States
      /\ i.ids \in [Roles -> Nat]
      /\ i.releaseAt \in Long..Later(KeyHold, FirstKeyHold)
      /\ i.sentAt \in Long..0 /\ i.closedAt \in Long..0
      /\ i.nextAt \in Long..MinGap
  BY DEF Injector
<1>4. Len(i.nav) \in Nat
  BY <1>3, LenProperties
<1>5. i.ids["down"] \in Nat /\ i.ids["key"] \in Nat /\ i.ids["up"] \in Nat
  BY <1>3 DEF Roles
<1>6. i.releaseAt \in Int /\ i.sentAt \in Int /\ i.closedAt \in Int /\ i.nextAt \in Int
  BY <1>3, Measures
<1> QED
  BY <1>1, <1>2, <1>3, <1>4, <1>5, <1>6

\* A new key in flight, field by field.
SentAs(i, origin, s, hold, next, o) ==
  /\ o.inj \in Injector
  /\ o.batch = KeyBurst(s, hold)
  /\ o.inj.state = "AWAITING_CONSUMPTION"
  /\ o.inj.stalled <=> i.stalled
  /\ o.inj.scan = s
  /\ o.inj.hold = hold
  /\ o.inj.ids["down"] = next
  /\ o.inj.ids["key"] = next + 1
  /\ o.inj.ids["up"] = next + 2
  /\ o.inj.consumed = {}
  /\ o.inj.released <=> hold = 0
  /\ o.inj.nav = i.nav
  /\ o.inj.boundary <=> i.boundary
  /\ o.inj.idx = IF origin = "phase" THEN i.idx + 1 ELSE i.idx

\* _send_tracked_key writes just these fields.
LEMMA SentFields ==
  ASSUME NEW i \in Injector, NEW origin \in {"nav", "phase"}, NEW s \in Scan,
         NEW hold \in {KeyHold, FirstKeyHold}, NEW next \in Nat,
         origin = "phase" => i.idx < Len(Keys)
  PROVE  SentAs(i, origin, s, hold, next, Sent(i, origin, s, hold, next))
<1> DEFINE o == Sent(i, origin, s, hold, next)
           ids == [down |-> next, key |-> next + 1, up |-> next + 2]
           idx == IF origin = "phase" THEN i.idx + 1 ELSE i.idx
           releaseAt == IF hold = 0 THEN i.releaseAt ELSE hold
           released == (hold = 0)
           j == [i EXCEPT !.state = "AWAITING_CONSUMPTION",
               !.origin = origin,
               !.scan = s,
               !.ids = ids,
               !.consumed = {},
               !.hold = hold,
               !.released = released,
               !.releaseAt = releaseAt,
               !.sentAt = 0,
               !.idx = idx]
<1>1. o = [inj |-> j, batch |-> KeyBurst(s, hold)]
  BY DEF Sent, InFlight
<1>2. /\ ids \in [Roles -> Nat]
      /\ ids["down"] = next /\ ids["key"] = next + 1 /\ ids["up"] = next + 2
  BY DEF Roles
<1>3. idx \in 0..Len(Keys)
  BY Measures, SMTT(30) DEF Injector
<1>4. releaseAt \in Long..Later(KeyHold, FirstKeyHold)
  BY Measures, SMTT(30) DEF Injector
<1>5. released \in BOOLEAN
  OBVIOUS
<1>6. 0 \in Long..0
  BY Measures
<1> HIDE DEF ids, idx, releaseAt, released
<1>7. j \in Injector
  BY <1>2, <1>3, <1>4, <1>5, <1>6 DEF Injector, States
<1>8. /\ j.state = "AWAITING_CONSUMPTION" /\ j.stalled = i.stalled
      /\ j.scan = s /\ j.hold = hold /\ j.ids = ids /\ j.consumed = {}
      /\ j.released = released /\ j.nav = i.nav /\ j.boundary = i.boundary
      /\ j.idx = idx
  BY DEF Injector
<1> HIDE DEF j
<1>9. o.inj = j /\ o.batch = KeyBurst(s, hold)
  BY <1>1
<1> HIDE DEF o
<1> QED
  BY <1>2, <1>7, <1>8, <1>9 DEF SentAs, o, idx, released

-----------------------------------------------------------------------------
(* What one refill may do.                                                 *)

\* How far the sequence is, whatever the registry holds.  A key-up is held
\* back only while its key is in flight, and then no stall is declared; the
\* boundary flag is set only with the sending of a phase-2 key.
Sequenced(i) ==
  /\ i.state # "READY"
  /\ i.state = "WAIT_PHASE_BOUNDARY" =>
       Len(Phase1Keys) <= i.idx /\ i.idx < Len(Keys) /\ i.idx < MaxKeys
  /\ i.boundary => Len(Phase1Keys) < i.idx
  /\ i.state = "WAIT_MODULE5" => i.ids["down"] = 0
  /\ ~i.released => i.hold > 0 /\ i.state = "AWAITING_CONSUMPTION" /\ ~i.stalled
  /\ i.state = "AWAITING_CONSUMPTION" =>
       /\ i.scan \in Scan
       /\ i.ids["key"] = i.ids["down"] + 1
       /\ i.ids["up"] = i.ids["down"] + 2
  /\ i.idx <= MaxKeys
  /\ Len(i.nav) <= Len(NavKeys)

AnyPending(r) == InState(r, "PENDING") # {}

\* The injector i, called by the queue over the registry r in the module mod.
Called(i, mod, r) == Refill(i, mod, AnyPending(r), r.nextEvent)

\* It supplies nothing real and may change its mind about what to wait for;
Rests(i, o, r) ==
  /\ o.batch \in {<<>>, <<Null>>}
  /\ o.inj.ids = i.ids
  /\ o.inj.consumed = i.consumed
  /\ o.inj.released <=> i.released
  /\ o.inj.scan = i.scan
  /\ o.inj.nav = i.nav
  /\ o.inj.idx = i.idx
  /\ o.inj.state = "AWAITING_CONSUMPTION" <=> i.state = "AWAITING_CONSUMPTION"
  /\ o.inj.state = "NAV_READY" => i.state = "NAV_READY" \/ AnyPending(r)

\* ... or queues the key-up that was held back;
Releases(i, o) ==
  /\ ~i.released
  /\ ~i.stalled
  /\ o.inj = [i EXCEPT !.released = TRUE]
  /\ o.batch = Release(i.scan)

\* ... or sends the next key.
Sends(i, o, mod, r) ==
  /\ i.state # "AWAITING_CONSUMPTION" /\ ~i.stalled
  /\ i.state \in {"WAIT_MODULE5", "NAV_READY"} \/ AnyPending(r)
  /\ o.inj.state = "AWAITING_CONSUMPTION"
  /\ o.inj.scan \in Scan
  /\ o.inj.ids["down"] = r.nextEvent
  /\ o.inj.ids["key"] = r.nextEvent + 1
  /\ o.inj.ids["up"] = r.nextEvent + 2
  /\ o.inj.consumed = {}
  /\ o.inj.released <=> o.inj.hold = 0
  /\ o.batch = KeyBurst(o.inj.scan, o.inj.hold)
  /\ \/ i.nav # <<>> /\ o.inj.nav = Tail(i.nav) /\ o.inj.idx = i.idx
     \/ /\ o.inj.nav = i.nav /\ o.inj.idx = i.idx + 1
        /\ o.inj.scan = Keys[i.idx + 1]
        /\ i.idx < MaxKeys
        /\ i.idx = Len(Phase1Keys) => mod = "module28" /\ AnyPending(r)

\* READY: the sequence is over, or stands before phase 2, or goes on.
LEMMA ReadyKinds ==
  ASSUME NEW j \in Injector, j.idx <= MaxKeys, NEW next \in Nat
  PROVE  LET o == Ready(j, next) IN
         \/ /\ o.batch = <<Null>>
            /\ \E s \in {"SINGLE_KEY_HALT", "DONE", "WAIT_PHASE_BOUNDARY"} :
                 /\ o.inj = [j EXCEPT !.state = s]
                 /\ s = "WAIT_PHASE_BOUNDARY" =>
                      /\ Len(Phase1Keys) <= j.idx
                      /\ j.idx < Len(Keys)
                      /\ j.idx < MaxKeys
                      /\ ~j.boundary
                 /\ j.idx >= MaxKeys \/ j.idx >= Len(Keys) \/ ~j.boundary
         \/ /\ j.idx < MaxKeys
            /\ j.idx < Len(Keys)
            /\ Keys[j.idx + 1] \in Scan
            /\ j.idx >= Len(Phase1Keys) => j.boundary
            /\ \E hold \in {KeyHold, FirstKeyHold} :
                 o = Sent(j, "phase", Keys[j.idx + 1], hold, next)
<1>1. /\ j.idx \in Nat /\ MaxKeys \in Nat
      /\ Len(Keys) \in Nat /\ Len(Phase1Keys) \in Nat /\ Keys \in Seq(Scan)
  BY Measures DEF Injector
<1>2. CASE j.idx >= MaxKeys
  <2>1. Ready(j, next) = Idle([j EXCEPT !.state = "SINGLE_KEY_HALT"])
    BY <1>1, <1>2 DEF Ready
  <2>2. /\ Ready(j, next).batch = <<Null>>
        /\ Ready(j, next).inj = [j EXCEPT !.state = "SINGLE_KEY_HALT"]
    BY <2>1 DEF Idle
  <2>3. "SINGLE_KEY_HALT" # "WAIT_PHASE_BOUNDARY"
    OBVIOUS
  <2> QED
    BY <1>2, <2>2, <2>3
<1>3. CASE j.idx < MaxKeys /\ j.idx >= Len(Keys)
  <2>1. Ready(j, next) = Idle([j EXCEPT !.state = "DONE"])
    BY <1>1, <1>3 DEF Ready
  <2>2. /\ Ready(j, next).batch = <<Null>>
        /\ Ready(j, next).inj = [j EXCEPT !.state = "DONE"]
    BY <2>1 DEF Idle
  <2>3. "DONE" # "WAIT_PHASE_BOUNDARY"
    OBVIOUS
  <2> QED
    BY <1>3, <2>2, <2>3
<1>4. CASE j.idx < MaxKeys /\ j.idx < Len(Keys) /\ j.idx >= Len(Phase1Keys) /\ ~j.boundary
  <2>1. Phase(j.idx + 1) = 2
    BY <1>1, <1>4 DEF Phase
  <2>2. Ready(j, next) = Idle([j EXCEPT !.state = "WAIT_PHASE_BOUNDARY"])
    BY <1>1, <1>4, <2>1 DEF Ready
  <2> QED
    BY <1>4, <2>2 DEF Idle
<1>5. CASE j.idx < MaxKeys /\ j.idx < Len(Keys) /\ (j.idx >= Len(Phase1Keys) => j.boundary)
  <2>1. ~(Phase(j.idx + 1) = 2 /\ ~j.boundary)
    BY <1>1, <1>5 DEF Phase
  <2>2. Ready(j, next) = NextPhaseKey(j, next)
    BY <1>1, <1>5, <2>1 DEF Ready
  <2>3. Keys[j.idx + 1] \in Scan
    BY <1>1, <1>5
  <2> QED
    BY <1>5, <2>2, <2>3 DEF NextPhaseKey
<1> QED
  BY <1>1, <1>2, <1>3, <1>4, <1>5

\* One refill of a sequence that has come this far.
Outcome(i, o, mod, r) ==
  /\ o.inj \in Injector
  /\ Sequenced(o.inj)
  /\ i.stalled => o.batch = <<Null>>
  /\ Rests(i, o, r) \/ Releases(i, o) \/ Sends(i, o, mod, r)

\* READY as the refill gets there: with j for the injector i.
LEMMA ReadyOutcome ==
  ASSUME NEW i \in Injector, Sequenced(i), NEW r, r.nextEvent \in Nat, NEW mod,
         ~i.stalled, i.state # "AWAITING_CONSUMPTION",
         i.state \in {"WAIT_MODULE5", "NAV_READY"} \/ AnyPending(r),
         NEW j \in Injector,
         ~j.stalled, j.ids = i.ids, j.consumed = i.consumed,
         j.released <=> i.released, j.scan = i.scan, j.nav = i.nav,
         j.idx = i.idx, j.hold = i.hold,
         i.boundary => j.boundary,
         j.boundary => \/ i.boundary
                       \/ /\ i.state = "WAIT_PHASE_BOUNDARY"
                          /\ mod = "module28" /\ AnyPending(r)
  PROVE  Outcome(i, Ready(j, r.nextEvent), mod, r)
<1> DEFINE o == Ready(j, r.nextEvent)
<1>0. i.released /\ j.released
  BY DEF Sequenced
<1>1. /\ i.idx \in Nat /\ i.hold \in Nat /\ i.idx <= MaxKeys
      /\ Len(i.nav) <= Len(NavKeys)
      /\ i.boundary => Len(Phase1Keys) < i.idx
      /\ i.state = "WAIT_PHASE_BOUNDARY" =>
           Len(Phase1Keys) <= i.idx /\ i.idx < Len(Keys) /\ i.idx < MaxKeys
      /\ MaxKeys \in Nat /\ Len(Keys) \in Nat /\ Len(Phase1Keys) \in Nat
  <2>1. i.idx \in Nat /\ i.hold \in Nat
    BY FieldTypes
  <2>2. MaxKeys \in Nat /\ Len(Keys) \in Nat /\ Len(Phase1Keys) \in Nat
    BY Measures
  <2> QED
    BY <2>1, <2>2 DEF Sequenced
<1>2. ASSUME o.batch = <<Null>>,
             NEW s \in {"SINGLE_KEY_HALT", "DONE", "WAIT_PHASE_BOUNDARY"},
             o.inj = [j EXCEPT !.state = s],
             s = "WAIT_PHASE_BOUNDARY" =>
                      /\ Len(Phase1Keys) <= j.idx
                      /\ j.idx < Len(Keys)
                      /\ j.idx < MaxKeys
                      /\ ~j.boundary,
             j.idx >= MaxKeys \/ j.idx >= Len(Keys) \/ ~j.boundary
      PROVE  Outcome(i, o, mod, r)
  <2> DEFINE k == [j EXCEPT !.state = s]
  <2>1. /\ k \in Injector
        /\ k.state = s /\ (k.boundary <=> j.boundary)
        /\ ~k.stalled /\ k.ids = i.ids /\ k.consumed = i.consumed
        /\ (k.released <=> i.released) /\ k.scan = i.scan /\ k.nav = i.nav
        /\ k.idx = i.idx /\ k.hold = i.hold
    BY DEF Injector, States
  <2> HIDE DEF k, o
  <2>2. k.boundary => Len(Phase1Keys) < k.idx
    BY <1>1, <1>2, <2>1
  <2>3. Sequenced(k)
    BY <1>1, <1>2, <2>1, <2>2 DEF Sequenced
  <2>4. o.inj = k
    BY <1>2 DEF k
  <2>5. Rests(i, o, r)
    BY <1>2, <2>1, <2>4 DEF Rests
  <2> QED
    BY <1>2, <2>1, <2>3, <2>4, <2>5 DEF Outcome
<1>3. ASSUME j.idx < MaxKeys, j.idx < Len(Keys), Keys[j.idx + 1] \in Scan,
             j.idx >= Len(Phase1Keys) => j.boundary,
             NEW hold \in {KeyHold, FirstKeyHold},
             o = Sent(j, "phase", Keys[j.idx + 1], hold, r.nextEvent)
      PROVE  Outcome(i, o, mod, r)
  <2> DEFINE s == Keys[j.idx + 1]
             origin == "phase"
             next == r.nextEvent
             k == Sent(j, origin, s, hold, next).inj
  <2> HIDE DEF o, s, next
  <2>1. /\ o = Sent(j, origin, s, hold, next) /\ s \in Scan /\ next \in Nat
        /\ origin = "phase" /\ origin \in {"nav", "phase"}
    BY <1>3 DEF s, next
  <2> HIDE DEF origin
  <2>2. /\ k \in Injector
        /\ Sent(j, origin, s, hold, next).batch = KeyBurst(s, hold)
        /\ k.state = "AWAITING_CONSUMPTION"
        /\ k.stalled <=> j.stalled
        /\ k.scan = s
        /\ k.hold = hold
        /\ k.ids["down"] = next /\ k.ids["key"] = next + 1 /\ k.ids["up"] = next + 2
        /\ k.consumed = {}
        /\ k.released <=> hold = 0
        /\ k.nav = j.nav
        /\ k.boundary <=> j.boundary
        /\ k.idx = IF origin = "phase" THEN j.idx + 1 ELSE j.idx
    <3> DEFINE p == Sent(j, origin, s, hold, next)
    <3>1. SentAs(j, origin, s, hold, next, p)
      BY <1>3, <2>1, SentFields
    <3> HIDE DEF p
    <3> QED
      BY <3>1 DEF SentAs, p
  <2> HIDE DEF k
  <2>3. hold \in Nat /\ (~k.released => k.hold > 0)
    <3>1. hold \in Nat
      BY Measures
    <3> QED
      BY <2>2, <3>1
  <2>4. k.boundary => Len(Phase1Keys) < k.idx
    BY <1>1, <2>1, <2>2
  <2>5. Sequenced(k)
    BY <1>1, <1>3, <2>1, <2>2, <2>3, <2>4, SMTT(30) DEF Sequenced
  <2>6. i.idx = Len(Phase1Keys) => mod = "module28" /\ AnyPending(r)
    BY <1>1, <1>3
  <2>7. o.inj = k /\ o.batch = KeyBurst(s, hold)
    BY <2>1, <2>2 DEF k
  <2>8. Sends(i, o, mod, r)
    BY <1>0, <1>1, <1>3, <2>1, <2>2, <2>6, <2>7 DEF Sends, s, next
  <2> QED
    BY <2>2, <2>5, <2>7, <2>8 DEF Outcome
<1>4. j.idx <= MaxKeys
  BY <1>1
<1>5. \/ /\ o.batch = <<Null>>
         /\ \E s \in {"SINGLE_KEY_HALT", "DONE", "WAIT_PHASE_BOUNDARY"} :
              /\ o.inj = [j EXCEPT !.state = s]
              /\ s = "WAIT_PHASE_BOUNDARY" =>
                   /\ Len(Phase1Keys) <= j.idx
                   /\ j.idx < Len(Keys)
                   /\ j.idx < MaxKeys
                   /\ ~j.boundary
              /\ j.idx >= MaxKeys \/ j.idx >= Len(Keys) \/ ~j.boundary
      \/ /\ j.idx < MaxKeys
         /\ j.idx < Len(Keys)
         /\ Keys[j.idx + 1] \in Scan
         /\ j.idx >= Len(Phase1Keys) => j.boundary
         /\ \E hold \in {KeyHold, FirstKeyHold} :
              o = Sent(j, "phase", Keys[j.idx + 1], hold, r.nextEvent)
  BY <1>4, ReadyKinds
<1> HIDE DEF o
<1>6. Outcome(i, o, mod, r)
  BY <1>2, <1>3, <1>5
<1> QED
  BY <1>6 DEF o

\* The other ways of a refill: it does nothing, ...
LEMMA IdleOutcome ==
  ASSUME NEW i \in Injector, Sequenced(i), NEW r, NEW mod
  PROVE  Outcome(i, Idle(i), mod, r)
<1> DEFINE o == Idle(i)
<1>1. o.inj = i /\ o.batch = <<Null>>
  BY DEF Idle
<1> HIDE DEF o
<1>2. Rests(i, o, r)
  BY <1>1 DEF Rests
<1>3. Outcome(i, o, mod, r)
  BY <1>1, <1>2 DEF Outcome
<1> QED
  BY <1>3 DEF o

\* ... it reports a stall, or no stall, with no key-up held back, ...
LEMMA StallOutcome ==
  ASSUME NEW i \in Injector, Sequenced(i), NEW r, NEW mod,
         NEW stalled \in BOOLEAN, i.released \/ ~stalled, ~i.stalled
  PROVE  Outcome(i, Idle([i EXCEPT !.stalled = stalled]), mod, r)
<1> DEFINE j == [i EXCEPT !.stalled = stalled]
           o == Idle(j)
<1>1. o.inj = j /\ o.batch = <<Null>>
  BY DEF Idle
<1>2. /\ j \in Injector
      /\ j.state = i.state /\ (j.boundary <=> i.boundary)
      /\ (j.stalled <=> stalled) /\ j.ids = i.ids /\ j.consumed = i.consumed
      /\ (j.released <=> i.released) /\ j.scan = i.scan /\ j.nav = i.nav
      /\ j.idx = i.idx /\ j.hold = i.hold
  BY DEF Injector
<1> HIDE DEF j, o
<1>3. Sequenced(j)
  BY <1>2 DEF Sequenced
<1>4. Rests(i, o, r)
  BY <1>1, <1>2 DEF Rests
<1>5. Outcome(i, o, mod, r)
  BY <1>1, <1>2, <1>3, <1>4 DEF Outcome
<1> QED
  BY <1>5 DEF o, j

\* ... it releases the key, ...
LEMMA ReleaseOutcome ==
  ASSUME NEW i \in Injector, Sequenced(i), NEW r, NEW mod, ~i.stalled, ~i.released
  PROVE  Outcome(i, [inj |-> [i EXCEPT !.released = TRUE], batch |-> Release(i.scan)],
                 mod, r)
<1> DEFINE j == [i EXCEPT !.released = TRUE]
           o == [inj |-> j, batch |-> Release(i.scan)]
<1>1. o.inj = j /\ o.batch = Release(i.scan)
  OBVIOUS
<1>2. /\ j \in Injector
      /\ j.state = i.state /\ (j.boundary <=> i.boundary)
      /\ (j.stalled <=> i.stalled) /\ j.ids = i.ids /\ j.released
      /\ j.scan = i.scan /\ j.nav = i.nav /\ j.idx = i.idx
  BY DEF Injector
<1>3. Releases(i, o)
  BY <1>1 DEF Releases
<1> HIDE DEF j, o
<1>4. Sequenced(j)
  BY <1>2 DEF Sequenced
<1>5. Outcome(i, o, mod, r)
  BY <1>1, <1>2, <1>3, <1>4 DEF Outcome
<1> QED
  BY <1>5 DEF o, j

\* ... or it comes to the navigation keys.
LEMMA NavOutcome ==
  ASSUME NEW i \in Injector, Sequenced(i), NEW r, r.nextEvent \in Nat, NEW mod,
         ~i.stalled, i.state \in {"WAIT_MODULE5", "NAV_READY"},
         NEW j \in Injector, j = [i EXCEPT !.state = "NAV_READY"]
  PROVE  Outcome(i, NavReady(j, r.nextEvent), mod, r)
<1> DEFINE next == r.nextEvent
           j0 == [j EXCEPT !.nav = Tail(j.nav)]
           j1 == [j EXCEPT !.state = "READY"]
<1>1. /\ (j.boundary <=> i.boundary)
      /\ ~j.stalled /\ j.ids = i.ids /\ j.consumed = i.consumed
      /\ (j.released <=> i.released) /\ j.scan = i.scan /\ j.nav = i.nav
      /\ j.idx = i.idx /\ j.hold = i.hold
  BY DEF Injector
<1>2. CASE j.nav = <<>>
  <2>1. NavReady(j, next) = Ready(j1, next)
    BY <1>2 DEF NavReady
  <2>2. /\ j1 \in Injector /\ (j1.boundary <=> j.boundary)
        /\ ~j1.stalled /\ j1.ids = j.ids /\ j1.consumed = j.consumed
        /\ (j1.released <=> j.released) /\ j1.scan = j.scan /\ j1.nav = j.nav
        /\ j1.idx = j.idx /\ j1.hold = j.hold
    BY <1>1, ZenonT(30) DEF Injector, States
  <2> HIDE DEF j1
  <2>3. Outcome(i, Ready(j1, r.nextEvent), mod, r)
    BY <1>1, <2>2, ReadyOutcome
  <2> QED
    BY <2>1, <2>3
<1>3. CASE j.nav # <<>>
  <2> DEFINE s == Head(j.nav)
             o == Sent(j0, "nav", s, KeyHold, next)
             origin == "nav"
  <2>1. s \in Scan /\ Tail(j.nav) \in Seq(Scan) /\ Len(Tail(j.nav)) = Len(j.nav) - 1
        /\ Len(j.nav) \in Nat
    BY <1>3, FieldTypes, HeadTailProperties
  <2>2. /\ j0 \in Injector /\ (j0.boundary <=> j.boundary)
        /\ ~j0.stalled /\ j0.nav = Tail(j.nav) /\ j0.idx = j.idx
    BY <1>1, <2>1, ZenonT(30) DEF Injector
  <2>3. NavReady(j, next) = o
    BY <1>3 DEF NavReady
  <2> HIDE DEF j0, s, next
  <2>4. SentAs(j0, "nav", s, KeyHold, next, o)
    <3>1. KeyHold \in {KeyHold, FirstKeyHold} /\ next \in Nat
      BY DEF next
    <3>2. origin \in {"nav", "phase"} /\ origin # "phase"
      OBVIOUS
    <3> HIDE DEF origin
    <3>3. SentAs(j0, origin, s, KeyHold, next, Sent(j0, origin, s, KeyHold, next))
      BY <2>1, <2>2, <3>1, <3>2, SentFields
    <3> QED
      BY <3>3 DEF origin
  <2> HIDE DEF o
  <2> DEFINE k == o.inj
  <2>5. /\ k \in Injector
        /\ o.batch = KeyBurst(s, KeyHold)
        /\ k.state = "AWAITING_CONSUMPTION"
        /\ ~k.stalled
        /\ k.scan = s
        /\ k.hold = KeyHold
        /\ k.ids["down"] = next /\ k.ids["key"] = next + 1 /\ k.ids["up"] = next + 2
        /\ k.consumed = {}
        /\ k.released <=> KeyHold = 0
        /\ k.nav = Tail(i.nav)
        /\ k.boundary <=> i.boundary
        /\ k.idx = i.idx
    <3>1. "nav" # "phase"
      OBVIOUS
    <3> QED
      BY <1>1, <2>2, <2>4, <3>1 DEF SentAs
  <2> HIDE DEF k
  <2>6. ~k.released => k.hold > 0
    BY <2>5, Measures
  <2>7. Sequenced(k)
    <3>1. Len(k.nav) <= Len(NavKeys)
      <4>1. Len(i.nav) <= Len(NavKeys) /\ Len(NavKeys) \in Nat
        BY Measures DEF Sequenced
      <4> QED
        BY <1>1, <2>1, <2>5, <4>1
    <3> QED
      BY <2>1, <2>5, <2>6, <3>1 DEF Sequenced
  <2>8. Sends(i, o, mod, r)
    BY <1>1, <1>3, <2>1, <2>5 DEF Sends, k, next
  <2>9. Outcome(i, o, mod, r)
    BY <2>5, <2>7, <2>8 DEF Outcome, k
  <2> QED
    BY <2>3, <2>9 DEF next
<1> QED
  BY <1>2, <1>3

\* AWAITING_CONSUMPTION: while the key-up is held back its deadline lies
\* ahead, however short the budget is against the hold.
LEMMA ConsumptionOutcome ==
  ASSUME NEW i \in Injector, Sequenced(i), NEW r, NEW mod, ~i.stalled
  PROVE  Outcome(i, AwaitConsumption(i), mod, r)
<1>1. CASE ~i.released /\ i.releaseAt <= 0
  <2>1. AwaitConsumption(i) =
          [inj |-> [i EXCEPT !.released = TRUE], batch |-> Release(i.scan)]
    BY <1>1 DEF AwaitConsumption
  <2> QED
    BY <1>1, <2>1, ReleaseOutcome
<1>2. CASE ~(~i.released /\ i.releaseAt <= 0)
  <2> DEFINE stalled == ConsumptionDeadline(i) < 0
  <2>1. AwaitConsumption(i) = Idle([i EXCEPT !.stalled = stalled])
    BY <1>2 DEF AwaitConsumption
  <2>2. stalled \in BOOLEAN
    OBVIOUS
  <2>3. i.released \/ ~stalled
    <3> SUFFICES ASSUME ~i.released PROVE ~stalled
      OBVIOUS
    <3>1. i.hold > 0 /\ i.releaseAt > 0 /\ i.releaseAt \in Int /\ i.sentAt \in Int
      BY <1>2, FieldTypes DEF Sequenced
    <3> QED
      BY <3>1, Measures DEF ConsumptionDeadline, Later
  <2> HIDE DEF stalled
  <2> QED
    BY <2>1, <2>2, <2>3, StallOutcome
<1> QED
  BY <1>1, <1>2

\* AWAITING_NEW_PENDING.
LEMMA NewPendingOutcome ==
  ASSUME NEW i \in Injector, Sequenced(i), NEW r, r.nextEvent \in Nat, NEW mod,
         ~i.stalled, i.state = "AWAITING_NEW_PENDING"
  PROVE  Outcome(i, AwaitNewPending(i, AnyPending(r), r.nextEvent), mod, r)
<1> DEFINE o == AwaitNewPending(i, AnyPending(r), r.nextEvent)
<1>0. i.released
  BY DEF Sequenced
<1>1. CASE ~(AnyPending(r) /\ i.nextAt <= 0 /\ i.scanSeen)
  <2> DEFINE stalled == Later(i.nextAt, i.closedAt + StallBudget) < 0 /\ ~AnyPending(r)
  <2>1. o = Idle([i EXCEPT !.stalled = stalled])
    BY <1>1 DEF AwaitNewPending
  <2>2. stalled \in BOOLEAN
    OBVIOUS
  <2> HIDE DEF stalled, o
  <2> QED
    BY <1>0, <2>1, <2>2, StallOutcome DEF o
<1>2. CASE AnyPending(r) /\ i.nextAt <= 0 /\ i.scanSeen /\ i.origin # "nav"
  <2> DEFINE j == [i EXCEPT !.state = "READY"]
  <2>1. o = Ready(j, r.nextEvent)
    BY <1>2 DEF AwaitNewPending
  <2>2. /\ j \in Injector /\ (j.boundary <=> i.boundary)
        /\ ~j.stalled /\ j.ids = i.ids /\ j.consumed = i.consumed
        /\ (j.released <=> i.released) /\ j.scan = i.scan /\ j.nav = i.nav
        /\ j.idx = i.idx /\ j.hold = i.hold
    BY DEF Injector, States
  <2> HIDE DEF j, o
  <2>3. Outcome(i, Ready(j, r.nextEvent), mod, r)
    BY <1>2, <2>2, ReadyOutcome
  <2> QED
    BY <2>1, <2>3 DEF o
<1>3. CASE AnyPending(r) /\ i.nextAt <= 0 /\ i.scanSeen /\ i.origin = "nav"
  <2> DEFINE j == [i EXCEPT !.state = "NAV_READY"]
  <2>1. o.inj = j /\ o.batch = <<>>
    BY <1>3 DEF AwaitNewPending
  <2>2. /\ j \in Injector /\ (j.boundary <=> i.boundary) /\ j.state = "NAV_READY"
        /\ ~j.stalled /\ j.ids = i.ids /\ j.consumed = i.consumed
        /\ (j.released <=> i.released) /\ j.scan = i.scan /\ j.nav = i.nav
        /\ j.idx = i.idx /\ j.hold = i.hold
    BY DEF Injector, States
  <2> HIDE DEF j, o
  <2>3. Sequenced(j)
    BY <1>0, <2>2 DEF Sequenced
  <2>4. Rests(i, o, r)
    BY <1>3, <2>1, <2>2 DEF Rests
  <2>5. Outcome(i, o, mod, r)
    BY <2>1, <2>2, <2>3, <2>4 DEF Outcome
  <2> QED
    BY <2>5 DEF o
<1> QED
  BY <1>1, <1>2, <1>3

\* Every refill is one of the three, and keeps the sequence.
LEMMA RefillOutcome ==
  ASSUME NEW i \in Injector, Sequenced(i), NEW mod \in Modules, NEW r,
         r.nextEvent \in Nat
  PROVE  Outcome(i, Called(i, mod, r), mod, r)
<1> DEFINE o == Advance(i, mod, AnyPending(r), r.nextEvent)
<1>1. CASE i.stalled
  <2>1. Called(i, mod, r) = Idle(i)
    BY <1>1 DEF Called, Refill
  <2> QED
    BY <2>1, IdleOutcome
<1>2. CASE ~i.stalled
  <2>1. Called(i, mod, r) = o
    BY <1>2 DEF Called, Refill
  <2>2. CASE i.state = "WAIT_MODULE5"
    <3> DEFINE j == [i EXCEPT !.state = "NAV_READY"]
    <3>1. j \in Injector
      BY DEF Injector, States
    <3>2. o = IF mod = "module5" THEN NavReady(j, r.nextEvent) ELSE Idle(i)
      BY <2>2 DEF Advance
    <3>3. Outcome(i, NavReady(j, r.nextEvent), mod, r)
      BY <1>2, <2>2, <3>1, NavOutcome
    <3>4. Outcome(i, Idle(i), mod, r)
      BY IdleOutcome
    <3> HIDE DEF j, o
    <3> QED
      BY <2>1, <3>2, <3>3, <3>4
  <2>3. CASE i.state = "NAV_READY"
    <3>1. i = [i EXCEPT !.state = "NAV_READY"]
      BY <2>3 DEF Injector
    <3>2. o = NavReady(i, r.nextEvent)
      BY <2>3 DEF Advance
    <3>3. Outcome(i, NavReady(i, r.nextEvent), mod, r)
      BY <1>2, <2>3, <3>1, NavOutcome
    <3> QED
      BY <2>1, <3>2, <3>3
  <2>4. CASE i.state = "WAIT_PHASE_BOUNDARY"
    <3> DEFINE j == [i EXCEPT !.state = "READY", !.boundary = TRUE]
    <3>1. CASE mod = "module28" /\ AnyPending(r)
      <4>1. o = Ready(j, r.nextEvent)
        BY <2>4, <3>1 DEF Advance
      <4>2. /\ j \in Injector /\ j.boundary
            /\ ~j.stalled /\ j.ids = i.ids /\ j.consumed = i.consumed
            /\ (j.released <=> i.released) /\ j.scan = i.scan /\ j.nav = i.nav
            /\ j.idx = i.idx /\ j.hold = i.hold
        BY <1>2 DEF Injector, States
      <4> HIDE DEF j, o
      <4>3. Outcome(i, Ready(j, r.nextEvent), mod, r)
        BY <1>2, <2>4, <3>1, <4>2, ReadyOutcome
      <4> QED
        BY <2>1, <4>1, <4>3
    <3>2. CASE ~(mod = "module28" /\ AnyPending(r))
      <4>1. o = Idle(i)
        BY <2>4, <3>2 DEF Advance
      <4> QED
        BY <2>1, <4>1, IdleOutcome
    <3> QED
      BY <3>1, <3>2
  <2>5. CASE i.state = "AWAITING_CONSUMPTION"
    <3>1. o = AwaitConsumption(i)
      BY <2>5 DEF Advance
    <3> QED
      BY <1>2, <2>1, <3>1, ConsumptionOutcome
  <2>6. CASE i.state = "AWAITING_NEW_PENDING"
    <3>1. o = AwaitNewPending(i, AnyPending(r), r.nextEvent)
      BY <2>6 DEF Advance
    <3> QED
      BY <1>2, <2>1, <2>6, <3>1, NewPendingOutcome
  <2>7. CASE i.state \in {"SINGLE_KEY_HALT", "DONE"}
    <3>1. o = Idle(i)
      BY <2>7 DEF Advance
    <3> QED
      BY <2>1, <3>1, IdleOutcome
  <2> QED
    BY <2>2, <2>3, <2>4, <2>5, <2>6, <2>7, FieldTypes DEF States, Sequenced
<1> QED
  BY <1>1, <1>2

-----------------------------------------------------------------------------
(* The key in flight and the ledger.                                       *)

\* The three events of a key, in the order they are sent.
RoleAt == <<"down", "key", "up">>
FirstRoles(k) == {RoleAt[n] : n \in 1..k}

\* How many of them the queue has been given.
Queued(i) == IF i.released THEN 3 ELSE 2

\* The game has fetched the first k events of the key; the ledger holds the
\* others that were queued, each under the id foreseen for it.
InFlightAt(k, i, r) ==
  /\ i.consumed = FirstRoles(k)
  /\ r.nextEvent = i.ids["down"] + Queued(i)
  /\ Len(r.eventFifo) = Queued(i) - k
  /\ \A p \in 1..Len(r.eventFifo) :
       /\ r.eventFifo[p].id = i.ids["down"] + k + p - 1
       /\ r.eventFifo[p].event = EventOf(RoleAt[k + p], i.scan)

\* The ledger is the rest of the key in flight, or empty.
FetchedInOrder(i, r) ==
  IF i.state = "AWAITING_CONSUMPTION"
  THEN \E k \in 0..2 : InFlightAt(k, i, r)
  ELSE Len(r.eventFifo) = 0

\* Three events for every key sent, but for a key-up that is held back.
IdsCounted(i, r) ==
  r.nextEvent - 1 + (IF i.released THEN 0 ELSE 1)
    = 3 * (Len(NavKeys) - Len(i.nav) + i.idx)

\* The request that let the injector on to the next navigation key is still
\* waiting when the key is sent, one refill later.
Waited(i, r) ==
  i.state = "NAV_READY" /\ i.ids["down"] # 0 => AnyPending(r)

\* What joins the injector i to the registry r.
Joined(i, r) == FetchedInOrder(i, r) /\ IdsCounted(i, r) /\ Waited(i, r)

\* The ledger of t is the one of r, claims apart.
SameEntries(r, t) ==
  /\ t.nextEvent = r.nextEvent
  /\ Len(t.eventFifo) = Len(r.eventFifo)
  /\ \A p \in 1..Len(r.eventFifo) :
       /\ t.eventFifo[p].id = r.eventFifo[p].id
       /\ t.eventFifo[p].event = r.eventFifo[p].event

\* Matching stores claims only, and leaves a waiting request alone when the
\* ledger is empty.
LEMMA MatchedEntries ==
  ASSUME NEW r \in Registry(RealEvent), Ledgered(r)
  PROVE  /\ SameEntries(r, TryMatch(r))
         /\ Len(r.eventFifo) = 0 => (AnyPending(r) => AnyPending(TryMatch(r)))
<1> DEFINE t == TryMatch(r)
<1>1. t.nextEvent = r.nextEvent
  BY DEF TryMatch, Registry
<1>2. /\ Len(t.eventFifo) = Len(r.eventFifo)
      /\ \A p \in 1..Len(r.eventFifo) :
           /\ t.eventFifo[p].id = r.eventFifo[p].id
           /\ t.eventFifo[p].event = r.eventFifo[p].event
      /\ \A i \in RequestId :
           (\A p \in Matched(r) : Partner(r, p) # i) => t.requests[i] = r.requests[i]
  BY TryMatchFields DEF Ledgered
<1> HIDE DEF t
<1>3. ASSUME Len(r.eventFifo) = 0, AnyPending(r)
      PROVE  AnyPending(t)
  <2>1. Matched(r) = {}
    BY <1>3 DEF Matched, Unclaimed, Registry
  <2> QED
    BY <1>2, <1>3, <2>1 DEF AnyPending, InState
<1>4. SameEntries(r, t)
  BY <1>1, <1>2 DEF SameEntries
<1> QED
  BY <1>3, <1>4 DEF t

\* The ledger of t is the one of r with the events evs behind it, claims
\* apart; an idle refill leaves the waiting requests alone.
ExtendedBy(r, evs, t) ==
  LET n == Len(r.eventFifo) IN
  /\ t.nextEvent = r.nextEvent + Len(evs)
  /\ Len(t.eventFifo) = n + Len(evs)
  /\ \A p \in 1..n :
       /\ t.eventFifo[p].id = r.eventFifo[p].id
       /\ t.eventFifo[p].event = r.eventFifo[p].event
  /\ \A p \in (n + 1)..(n + Len(evs)) :
       /\ t.eventFifo[p].id = r.nextEvent + (p - n) - 1
       /\ t.eventFifo[p].event = evs[p - n]
  /\ n = 0 /\ Len(evs) = 0 => (AnyPending(r) => AnyPending(t))

\* on_event_enqueued, for every event of a batch, extends the ledger by them.
LEMMA EnqueuedEntries ==
  ASSUME NEW r, Promised(r), NEW evs \in Seq(RealEvent), Enqueueable(r, evs)
  PROVE  ExtendedBy(r, evs, OnEventsEnqueued(r, evs))
<1> DEFINE t == OnEventsEnqueued(r, evs)
           n == Len(r.eventFifo)
           new == Entries(r, evs)
           r1 == [r EXCEPT !.eventFifo = r.eventFifo \o new,
                           !.nextEvent = r.nextEvent + Len(evs)]
<1>1. r \in Registry(RealEvent) /\ Ledgered(r)
  BY DEF Promised
<1>2. r1 \in Registry(RealEvent) /\ Ledgered(r1)
  BY <1>1, AppendedType, AppendedLedgered
<1>3. /\ r1.nextEvent = r.nextEvent + Len(evs)
      /\ r1.eventFifo = r.eventFifo \o new
      /\ r1.requests = r.requests
  BY <1>1 DEF Registry
<1>4. t = TryMatch(r1)
  BY DEF OnEventsEnqueued
<1>5. /\ new \in Seq(Entry(RealEvent)) /\ Len(new) = Len(evs)
      /\ r.eventFifo \in Seq(Entry(RealEvent))
      /\ n \in Nat /\ Len(evs) \in Nat
      /\ \A k \in 1..Len(evs) : new[k].id = r.nextEvent + k - 1 /\ new[k].event = evs[k]
  <2>1. new \in Seq(Entry(RealEvent)) /\ Len(new) = Len(evs)
    BY <1>1, EntriesType
  <2>2. r.eventFifo \in Seq(Entry(RealEvent)) /\ n \in Nat /\ Len(evs) \in Nat
    BY <1>1, LenProperties DEF Registry
  <2>3. \A k \in 1..Len(evs) : new[k].id = r.nextEvent + k - 1 /\ new[k].event = evs[k]
    BY DEF Entries
  <2> QED
    BY <2>1, <2>2, <2>3
<1> HIDE DEF t, r1, new
<1>6. /\ SameEntries(r1, t)
      /\ Len(r1.eventFifo) = 0 => (AnyPending(r1) => AnyPending(t))
  BY <1>2, <1>4, MatchedEntries
<1>7. /\ Len(r1.eventFifo) = n + Len(evs)
      /\ \A p \in 1..(n + Len(evs)) :
           r1.eventFifo[p] = IF p <= n THEN r.eventFifo[p] ELSE new[p - n]
  <2> DEFINE fifo == r.eventFifo
             E == Entry(RealEvent)
  <2>1. fifo \in Seq(E) /\ new \in Seq(E) /\ n = Len(fifo)
    BY <1>5
  <2> HIDE DEF fifo, n, E
  <2>2. /\ Len(fifo \o new) = Len(fifo) + Len(new)
        /\ \A p \in 1..(Len(fifo) + Len(new)) :
             (fifo \o new)[p] = IF p <= Len(fifo) THEN fifo[p] ELSE new[p - Len(fifo)]
    BY <2>1, ConcatProperties
  <2>3. r1.eventFifo = fifo \o new /\ Len(new) = Len(evs)
    BY <1>3, <1>5 DEF fifo
  <2>4. /\ Len(r1.eventFifo) = n + Len(evs)
        /\ \A p \in 1..(n + Len(evs)) :
             r1.eventFifo[p] = IF p <= n THEN fifo[p] ELSE new[p - n]
    BY <2>1, <2>2, <2>3
  <2> QED
    BY <2>4 DEF fifo
<1>8. AnyPending(r1) <=> AnyPending(r)
  BY <1>3 DEF AnyPending, InState
<1>9. t.nextEvent = r.nextEvent + Len(evs) /\ Len(t.eventFifo) = n + Len(evs)
  BY <1>3, <1>6, <1>7 DEF SameEntries
<1>10. \A p \in 1..n :
         /\ t.eventFifo[p].id = r.eventFifo[p].id
         /\ t.eventFifo[p].event = r.eventFifo[p].event
  <2> SUFFICES ASSUME NEW p \in 1..n
               PROVE  /\ t.eventFifo[p].id = r.eventFifo[p].id
                      /\ t.eventFifo[p].event = r.eventFifo[p].event
    OBVIOUS
  <2>1. p \in 1..(n + Len(evs)) /\ p <= n
    BY <1>5
  <2>2. r1.eventFifo[p] = r.eventFifo[p]
    BY <1>7, <2>1
  <2> QED
    BY <1>6, <1>7, <2>1, <2>2 DEF SameEntries
<1>11. \A p \in (n + 1)..(n + Len(evs)) :
         /\ t.eventFifo[p].id = r.nextEvent + (p - n) - 1
         /\ t.eventFifo[p].event = evs[p - n]
  <2> SUFFICES ASSUME NEW p \in (n + 1)..(n + Len(evs))
               PROVE  /\ t.eventFifo[p].id = r.nextEvent + (p - n) - 1
                      /\ t.eventFifo[p].event = evs[p - n]
    OBVIOUS
  <2>1. p \in 1..(n + Len(evs)) /\ ~(p <= n) /\ p - n \in 1..Len(evs)
    BY <1>5
  <2>2. r1.eventFifo[p] = new[p - n]
    BY <1>7, <2>1
  <2>3. new[p - n].id = r.nextEvent + (p - n) - 1 /\ new[p - n].event = evs[p - n]
    BY <1>5, <2>1
  <2> QED
    BY <1>6, <1>7, <2>1, <2>2, <2>3 DEF SameEntries
<1>12. n = 0 /\ Len(evs) = 0 => (AnyPending(r) => AnyPending(t))
  BY <1>6, <1>7, <1>8
<1>13. ExtendedBy(r, evs, t)
  BY <1>9, <1>10, <1>11, <1>12 DEF ExtendedBy
<1> QED
  BY <1>13 DEF t

\* A refill keeps the injector and the ledger joined: it supplies nothing, ...
LEMMA RestsJoined ==
  ASSUME NEW i \in Injector, NEW r, Joined(i, r),
         NEW o, o.inj \in Injector, Rests(i, o, r), NEW t,
         SameEntries(r, t),
         Len(r.eventFifo) = 0 => (AnyPending(r) => AnyPending(t))
  PROVE  Joined(o.inj, t)
<1> DEFINE j == o.inj
           n == Len(r.eventFifo)
<1>4. /\ t.nextEvent = r.nextEvent
      /\ Len(t.eventFifo) = n
      /\ \A p \in 1..n :
           /\ t.eventFifo[p].id = r.eventFifo[p].id
           /\ t.eventFifo[p].event = r.eventFifo[p].event
      /\ n = 0 => (AnyPending(r) => AnyPending(t))
  BY DEF SameEntries
<1>5. /\ j.ids = i.ids /\ j.consumed = i.consumed /\ (j.released <=> i.released)
      /\ j.scan = i.scan /\ j.nav = i.nav /\ j.idx = i.idx
      /\ j.state = "AWAITING_CONSUMPTION" <=> i.state = "AWAITING_CONSUMPTION"
      /\ j.state = "NAV_READY" => i.state = "NAV_READY" \/ AnyPending(r)
  BY DEF Rests
<1> HIDE DEF j, n
<1>6. FetchedInOrder(j, t)
  <2>1. CASE i.state = "AWAITING_CONSUMPTION"
    <3>1. PICK k \in 0..2 : InFlightAt(k, i, r)
      BY <2>1 DEF Joined, FetchedInOrder
    <3>2. Queued(j) = Queued(i)
      BY <1>5 DEF Queued
    <3>3. InFlightAt(k, j, t)
      BY <1>4, <1>5, <3>1, <3>2 DEF InFlightAt, n
    <3> QED
      BY <1>5, <2>1, <3>3 DEF FetchedInOrder
  <2>2. CASE i.state # "AWAITING_CONSUMPTION"
    <3>1. n = 0
      BY <2>2 DEF Joined, FetchedInOrder, n
    <3> QED
      BY <1>4, <1>5, <2>2, <3>1 DEF FetchedInOrder
  <2> QED
    BY <2>1, <2>2
<1>7. IdsCounted(j, t)
  BY <1>4, <1>5 DEF Joined, IdsCounted
<1>8. Waited(j, t)
  <2> SUFFICES ASSUME j.state = "NAV_READY", j.ids["down"] # 0
               PROVE  AnyPending(t)
    BY DEF Waited
  <2>1. AnyPending(r)
    BY <1>5 DEF Joined, Waited
  <2>2. n = 0
    BY <1>5 DEF Joined, FetchedInOrder, n
  <2> QED
    BY <1>4, <2>1, <2>2
<1> QED
  BY <1>6, <1>7, <1>8 DEF Joined, j

\* ... or queues the key-up, which gets the last id of the key, ...
LEMMA ReleasesJoined ==
  ASSUME NEW i \in Injector, Sequenced(i), NEW r, Promised(r), Joined(i, r),
         NEW o, Releases(i, o), NEW t,
         Enqueueable(r, <<KeyUp(i.scan)>>),
         t = OnEventsEnqueued(r, <<KeyUp(i.scan)>>)
  PROVE  Joined(o.inj, t)
<1> DEFINE j == o.inj
           n == Len(r.eventFifo)
           up == KeyUp(i.scan)
           evs == <<up>>
<1>1. n \in Nat /\ r.nextEvent \in Nat
  <2>1. r \in Registry(RealEvent)
    BY DEF Promised
  <2> QED
    BY <2>1, LenProperties DEF Registry
<1>2. /\ i.state = "AWAITING_CONSUMPTION" /\ ~i.released
      /\ i.scan \in Scan
      /\ i.ids["down"] \in Nat
  BY FieldTypes DEF Releases, Sequenced
<1>3. up \in RealEvent
  BY <1>2 DEF KeyUp, RealEvent
<1> HIDE DEF up
<1>4. evs \in Seq(RealEvent) /\ Len(evs) = 1 /\ evs[1] = up
  BY <1>3
<1>5. t = OnEventsEnqueued(r, evs) /\ Enqueueable(r, evs)
  BY DEF up
<1> HIDE DEF evs, n
<1>6. /\ t.nextEvent = r.nextEvent + Len(evs)
      /\ Len(t.eventFifo) = n + Len(evs)
      /\ \A p \in 1..n :
           /\ t.eventFifo[p].id = r.eventFifo[p].id
           /\ t.eventFifo[p].event = r.eventFifo[p].event
      /\ \A p \in (n + 1)..(n + Len(evs)) :
           /\ t.eventFifo[p].id = r.nextEvent + (p - n) - 1
           /\ t.eventFifo[p].event = evs[p - n]
  <2>1. ExtendedBy(r, evs, t)
    BY <1>4, <1>5, EnqueuedEntries
  <2> QED
    BY <2>1 DEF ExtendedBy, n
<1>7. /\ j.ids = i.ids /\ j.consumed = i.consumed /\ j.released
      /\ j.scan = i.scan /\ j.nav = i.nav /\ j.idx = i.idx
      /\ j.state = "AWAITING_CONSUMPTION"
  BY <1>2 DEF Releases, Injector
<1> HIDE DEF j
<1>8. PICK k \in 0..2 : InFlightAt(k, i, r)
  BY <1>2 DEF Joined, FetchedInOrder
<1>9. /\ Queued(i) = 2 /\ Queued(j) = 3
      /\ n = 2 - k /\ r.nextEvent = i.ids["down"] + 2
      /\ i.consumed = FirstRoles(k)
      /\ \A p \in 1..n :
           /\ r.eventFifo[p].id = i.ids["down"] + k + p - 1
           /\ r.eventFifo[p].event = EventOf(RoleAt[k + p], i.scan)
  BY <1>2, <1>7, <1>8 DEF InFlightAt, Queued, n
<1>10. /\ t.nextEvent = j.ids["down"] + 3
       /\ Len(t.eventFifo) = 3 - k
  BY <1>2, <1>4, <1>6, <1>7, <1>9
<1>11. ASSUME NEW p \in 1..(3 - k)
       PROVE  /\ t.eventFifo[p].id = j.ids["down"] + k + p - 1
              /\ t.eventFifo[p].event = EventOf(RoleAt[k + p], j.scan)
  <2>1. CASE p \in 1..n
    BY <1>6, <1>7, <1>9, <2>1
  <2>2. CASE p = n + 1
    <3>1. /\ t.eventFifo[p].id = r.nextEvent + (p - n) - 1
          /\ t.eventFifo[p].event = evs[p - n]
      BY <1>1, <1>4, <1>6, <2>2
    <3>2. p - n = 1 /\ k + p = 3
      BY <1>1, <1>9, <2>2
    <3>3. EventOf(RoleAt[3], i.scan) = up
      BY DEF EventOf, RoleAt, up
    <3> QED
      BY <1>2, <1>4, <1>7, <1>9, <3>1, <3>2, <3>3, SMTT(30)
  <2> QED
    BY <1>1, <1>9, <2>1, <2>2
<1>12. InFlightAt(k, j, t)
  BY <1>7, <1>9, <1>10, <1>11 DEF InFlightAt
<1>13. FetchedInOrder(j, t)
  BY <1>7, <1>12 DEF FetchedInOrder
<1>14. IdsCounted(j, t)
  <2>1. r.nextEvent - 1 + 1 = 3 * (Len(NavKeys) - Len(i.nav) + i.idx)
    BY <1>2 DEF Joined, IdsCounted
  <2> HIDE DEF Joined
  <2> QED
    BY <1>1, <1>4, <1>6, <1>7, <2>1 DEF IdsCounted
<1>15. Waited(j, t)
  BY <1>7 DEF Waited
<1> QED
  BY <1>13, <1>14, <1>15 DEF Joined, j

\* ... or sends a key into an empty ledger.
LEMMA SendsJoined ==
  ASSUME NEW i \in Injector, Sequenced(i), NEW r, Promised(r), Joined(i, r),
         NEW mod, NEW o, o.inj \in Injector, Sends(i, o, mod, r), NEW t,
         Reals(o.batch) \in Seq(RealEvent), Enqueueable(r, Reals(o.batch)),
         t = OnEventsEnqueued(r, Reals(o.batch))
  PROVE  Joined(o.inj, t)
<1> DEFINE j == o.inj
           n == Len(r.eventFifo)
           evs == Reals(o.batch)
           m == Queued(j)
<1>1. n \in Nat /\ r.nextEvent \in Nat
  <2>1. r \in Registry(RealEvent)
    BY DEF Promised
  <2> QED
    BY <2>1, LenProperties DEF Registry
<1>2. /\ i.state # "AWAITING_CONSUMPTION" /\ i.released
      /\ j.state = "AWAITING_CONSUMPTION" /\ j.scan \in Scan
      /\ j.ids["down"] = r.nextEvent /\ j.consumed = {}
      /\ j.released <=> j.hold = 0
      /\ o.batch = KeyBurst(j.scan, j.hold)
      /\ \/ i.nav # <<>> /\ j.nav = Tail(i.nav) /\ j.idx = i.idx
         \/ j.nav = i.nav /\ j.idx = i.idx + 1
  BY DEF Sends, Sequenced
<1>3. /\ j.hold \in Nat
      /\ i.nav \in Seq(Scan) /\ Len(i.nav) \in Nat /\ i.idx \in Nat
  BY FieldTypes
<1>4. evs = IF j.hold = 0 THEN <<KeyDown(j.scan), Key(j.scan), KeyUp(j.scan)>>
            ELSE <<KeyDown(j.scan), Key(j.scan)>>
  BY <1>2, <1>3, BurstReals
<1> HIDE DEF j
<1>5. /\ Len(evs) = m /\ m \in 2..3
      /\ \A p \in 1..m : evs[p] = EventOf(RoleAt[p], j.scan)
  <2>1. CASE j.hold = 0
    BY <1>2, <1>4, <2>1 DEF EventOf, RoleAt, Queued
  <2>2. CASE j.hold # 0
    BY <1>2, <1>4, <2>2 DEF EventOf, RoleAt, Queued
  <2> QED
    BY <2>1, <2>2
<1>6. t = OnEventsEnqueued(r, evs) /\ Enqueueable(r, evs) /\ evs \in Seq(RealEvent)
  OBVIOUS
<1>7. n = 0
  BY <1>2 DEF Joined, FetchedInOrder
<1> HIDE DEF evs, n, m
<1>8. /\ t.nextEvent = r.nextEvent + m
      /\ Len(t.eventFifo) = m
      /\ \A p \in 1..m :
           /\ t.eventFifo[p].id = r.nextEvent + p - 1
           /\ t.eventFifo[p].event = evs[p]
  <2>1. ExtendedBy(r, evs, t)
    BY <1>6, EnqueuedEntries
  <2> QED
    BY <1>1, <1>5, <1>7, <2>1 DEF ExtendedBy, n
<1>9. InFlightAt(0, j, t)
  <2>1. j.consumed = FirstRoles(0)
    BY <1>2 DEF FirstRoles
  <2>2. /\ t.nextEvent = j.ids["down"] + Queued(j)
        /\ Len(t.eventFifo) = Queued(j) - 0
    BY <1>2, <1>5, <1>8 DEF m
  <2>3. ASSUME NEW p \in 1..Len(t.eventFifo)
        PROVE  /\ t.eventFifo[p].id = j.ids["down"] + 0 + p - 1
               /\ t.eventFifo[p].event = EventOf(RoleAt[0 + p], j.scan)
    <3>1. p \in 1..m /\ 0 + p = p
      BY <1>5, <1>8
    <3>2. t.eventFifo[p].id = j.ids["down"] + 0 + p - 1
      BY <1>1, <1>2, <1>8, <3>1
    <3>3. t.eventFifo[p].event = EventOf(RoleAt[p], j.scan)
      BY <1>5, <1>8, <3>1
    <3> QED
      BY <3>1, <3>2, <3>3
  <2> QED
    BY <2>1, <2>2, <2>3 DEF InFlightAt
<1>10. FetchedInOrder(j, t)
  BY <1>2, <1>9 DEF FetchedInOrder
<1>11. IdsCounted(j, t)
  <2>1. r.nextEvent - 1 + 0 = 3 * (Len(NavKeys) - Len(i.nav) + i.idx)
    BY <1>2 DEF Joined, IdsCounted
  <2>2. Len(j.nav) \in Nat /\ j.idx \in Nat
        /\ Len(NavKeys) - Len(j.nav) + j.idx = Len(NavKeys) - Len(i.nav) + i.idx + 1
    <3>0. Len(NavKeys) \in Nat
      BY Measures
    <3>1. CASE i.nav # <<>> /\ j.nav = Tail(i.nav) /\ j.idx = i.idx
      <4>1. Len(Tail(i.nav)) = Len(i.nav) - 1 /\ Len(i.nav) # 0
        BY <1>3, <3>1, HeadTailProperties, EmptySeq
      <4> QED
        BY <1>3, <3>0, <3>1, <4>1
    <3>2. CASE j.nav = i.nav /\ j.idx = i.idx + 1
      <4> DEFINE keys == Len(NavKeys)
                 left == Len(i.nav)
                 idx == i.idx
      <4>1. Len(j.nav) = left /\ j.idx = idx + 1
        BY <3>2
      <4>2. keys \in Nat /\ left \in Nat /\ idx \in Nat
        BY <1>3, <3>0
      <4> HIDE DEF keys, left, idx
      <4>3. keys - left + (idx + 1) = keys - left + idx + 1 /\ idx + 1 \in Nat
        BY <4>2
      <4> QED
        BY <4>1, <4>2, <4>3 DEF keys, left, idx
    <3> QED
      BY <1>2, <3>1, <3>2
  <2>3. t.nextEvent - 1 + (IF j.released THEN 0 ELSE 1) = r.nextEvent - 1 + 3
    BY <1>1, <1>8 DEF m, Queued
  <2> DEFINE sent == Len(NavKeys) - Len(i.nav) + i.idx
  <2>4. sent \in Int
    BY <1>3, Measures
  <2> HIDE DEF sent
  <2>5. t.nextEvent - 1 + (IF j.released THEN 0 ELSE 1) = 3 * (sent + 1)
    BY <1>1, <2>1, <2>3, <2>4 DEF sent
  <2> QED
    BY <2>2, <2>5 DEF IdsCounted, sent
<1>12. Waited(j, t)
  BY <1>2 DEF Waited
<1> QED
  BY <1>10, <1>11, <1>12 DEF Joined, j

\* What a refill supplies.
LEMMA OutcomeBatch ==
  ASSUME NEW i \in Injector, Sequenced(i), NEW r, NEW mod, NEW o,
         Outcome(i, o, mod, r)
  PROVE  /\ o.batch \in Seq(Event) /\ Reals(o.batch) \in Seq(RealEvent)
         /\ Rests(i, o, r) => Reals(o.batch) = <<>>
         /\ Releases(i, o) => /\ Reals(o.batch) = <<KeyUp(i.scan)>>
                              /\ i.scan \in Scan
         /\ i.stalled => Reals(o.batch) = <<>>
<1>1. Null \in Event /\ Reals(<<Null>>) = <<>> /\ Reals(<<>>) = <<>>
      /\ <<>> \in Seq(Event) /\ <<Null>> \in Seq(Event)
  <2>1. Null \in Event
    BY DEF Event
  <2>2. <<>> \in Seq(Event)
    BY EmptySeq
  <2> QED
    BY <2>1, <2>2, RealsOfFew
<1>2. Rests(i, o, r) => o.batch \in Seq(Event) /\ Reals(o.batch) = <<>>
  BY <1>1 DEF Rests
<1>3. Releases(i, o) => /\ o.batch \in Seq(Event)
                        /\ Reals(o.batch) = <<KeyUp(i.scan)>> /\ i.scan \in Scan
  <2>1. Releases(i, o) => i.scan \in Scan /\ o.batch = Release(i.scan)
    BY DEF Releases, Sequenced
  <2> QED
    BY <2>1, ReleaseReals
<1>4. Sends(i, o, mod, r) => o.batch \in Seq(Event)
  <2>1. Sends(i, o, mod, r) => /\ o.inj.scan \in Scan /\ o.inj.hold \in Nat
                               /\ o.batch = KeyBurst(o.inj.scan, o.inj.hold)
    <3>1. o.inj \in Injector
      BY DEF Outcome
    <3> QED
      BY <3>1, FieldTypes DEF Sends
  <2> QED
    BY <2>1, BurstReals
<1>5. o.batch \in Seq(Event)
  BY <1>2, <1>3, <1>4 DEF Outcome
<1>6. Reals(o.batch) \in Seq(RealEvent)
  BY <1>5, RealsType
<1>7. i.stalled => Reals(o.batch) = <<>>
  BY <1>1 DEF Outcome
<1> QED
  BY <1>2, <1>3, <1>5, <1>6, <1>7

\* An idle refill extends the ledger by nothing.
LEMMA IdleExtends ==
  ASSUME NEW r, Promised(r), NEW t, ExtendedBy(r, <<>>, t)
  PROVE  /\ SameEntries(r, t)
         /\ Len(r.eventFifo) = 0 => (AnyPending(r) => AnyPending(t))
<1> DEFINE n == Len(r.eventFifo)
<1>1. n \in Nat /\ r.nextEvent \in Nat
  <2>1. r \in Registry(RealEvent)
    BY DEF Promised
  <2> QED
    BY <2>1, LenProperties DEF Registry
<1>2. Len(<<>>) = 0
  OBVIOUS
<1>3. /\ t.nextEvent = r.nextEvent + 0
      /\ Len(t.eventFifo) = n + 0
      /\ \A p \in 1..n :
           /\ t.eventFifo[p].id = r.eventFifo[p].id
           /\ t.eventFifo[p].event = r.eventFifo[p].event
      /\ n = 0 => (AnyPending(r) => AnyPending(t))
  BY <1>2 DEF ExtendedBy
<1> QED
  BY <1>1, <1>3 DEF SameEntries

\* All three together.
LEMMA RefillJoined ==
  ASSUME NEW i \in Injector, Sequenced(i), NEW r, Promised(r), Joined(i, r),
         NEW mod, NEW o, Outcome(i, o, mod, r),
         Enqueueable(r, Reals(o.batch))
  PROVE  Joined(o.inj, OnEventsEnqueued(r, Reals(o.batch)))
<1> DEFINE t == OnEventsEnqueued(r, Reals(o.batch))
<1>1. o.inj \in Injector /\ Reals(o.batch) \in Seq(RealEvent)
  BY OutcomeBatch DEF Outcome
<1>2. CASE Rests(i, o, r)
  <2>1. Reals(o.batch) = <<>>
    BY <1>2, OutcomeBatch
  <2>2. ExtendedBy(r, <<>>, t)
    BY <1>1, <2>1, EnqueuedEntries
  <2>3. SameEntries(r, t) /\ (Len(r.eventFifo) = 0 => (AnyPending(r) => AnyPending(t)))
    BY <2>2, IdleExtends
  <2> HIDE DEF t
  <2>4. Joined(o.inj, t)
    BY <1>1, <1>2, <2>3, RestsJoined
  <2> QED
    BY <2>4 DEF t
<1>3. CASE Releases(i, o)
  <2>1. Reals(o.batch) = <<KeyUp(i.scan)>>
    BY <1>3, OutcomeBatch
  <2> QED
    BY <1>1, <1>3, <2>1, ReleasesJoined
<1>4. CASE Sends(i, o, mod, r)
  BY <1>1, <1>4, SendsJoined
<1> QED
  BY <1>2, <1>3, <1>4 DEF Outcome

-----------------------------------------------------------------------------
(* The other steps.                                                        *)

\* A fetch moves the key on by one event, and closes it with the last one.
Closed(i) == [i EXCEPT !.consumed = Roles,
                       !.state = "AWAITING_NEW_PENDING",
                       !.closedAt = 0,
                       !.nextAt = MinGap,
                       !.scanSeen = ~RequireScan]

\* The hook keeps the types, the identity of the key and the sequence.
LEMMA ConsumedTypes ==
  ASSUME NEW i \in Injector, Sequenced(i), NEW id
  PROVE  LET j == Consumed(i, id) IN
         /\ j \in Injector
         /\ j.ids = i.ids /\ j.idx = i.idx /\ j.scan = i.scan /\ j.nav = i.nav
         /\ j.stalled <=> i.stalled
         /\ j.released <=> i.released
         /\ (j.state = "AWAITING_NEW_PENDING" => i.released) => Sequenced(j)
<1> DEFINE roles == ConsumedRoles(i, id)
           unseen == ~RequireScan
           j1 == [i EXCEPT !.consumed = roles]
           j2 == [i EXCEPT !.consumed = Roles,
                           !.state = "AWAITING_NEW_PENDING",
                           !.closedAt = 0,
                           !.nextAt = MinGap,
                           !.scanSeen = unseen]
<1>1. roles \in SUBSET Roles
  BY DEF ConsumedRoles, Injector
<1>2. 0 \in Long..0 /\ MinGap \in Long..MinGap
  BY Measures
<1>3. Consumed(i, id) = IF i.state # "AWAITING_CONSUMPTION" THEN i
                        ELSE IF roles # Roles THEN j1 ELSE j2
  BY DEF Consumed
<1>4. unseen \in BOOLEAN
  OBVIOUS
<1> HIDE DEF roles, unseen
<1>5. /\ j1 \in Injector
      /\ j1.ids = i.ids /\ j1.idx = i.idx /\ j1.scan = i.scan /\ j1.nav = i.nav
      /\ j1.stalled <=> i.stalled
      /\ j1.released <=> i.released
      /\ j1.boundary <=> i.boundary
      /\ j1.hold = i.hold /\ j1.state = i.state
  BY <1>1 DEF Injector
<1>6. /\ j2 \in Injector
      /\ j2.ids = i.ids /\ j2.idx = i.idx /\ j2.scan = i.scan /\ j2.nav = i.nav
      /\ j2.stalled <=> i.stalled
      /\ j2.released <=> i.released
      /\ j2.boundary <=> i.boundary
      /\ j2.hold = i.hold /\ j2.state = "AWAITING_NEW_PENDING"
  BY <1>2, <1>4 DEF Injector, States
<1> HIDE DEF j1, j2
<1>7. Sequenced(j1)
  BY <1>5 DEF Sequenced
<1>8. i.released => Sequenced(j2)
  BY <1>6 DEF Sequenced
<1> DEFINE j == Consumed(i, id)
<1>9. j = i \/ j = j1 \/ j = j2
  BY <1>3
<1> HIDE DEF j
<1>10. /\ j \in Injector
       /\ j.ids = i.ids /\ j.idx = i.idx /\ j.scan = i.scan /\ j.nav = i.nav
       /\ j.stalled <=> i.stalled
       /\ j.released <=> i.released
  BY <1>5, <1>6, <1>9
<1>11. (j.state = "AWAITING_NEW_PENDING" => i.released) => Sequenced(j)
  BY <1>6, <1>7, <1>8, <1>9
<1> QED
  BY <1>10, <1>11 DEF j

\* The next event of the key, and no other, has the id at the head.
LEMMA NextRole ==
  ASSUME NEW i \in Injector, Sequenced(i), i.state = "AWAITING_CONSUMPTION",
         NEW k \in 0..2, i.consumed = FirstRoles(k)
  PROVE  ConsumedRoles(i, i.ids["down"] + k) = FirstRoles(k + 1)
<1> DEFINE id == i.ids["down"] + k
<1>1. /\ i.ids["down"] \in Nat
      /\ i.ids["key"] = i.ids["down"] + 1
      /\ i.ids["up"] = i.ids["down"] + 2
  BY FieldTypes DEF Sequenced
<1>2. {r \in Roles : i.ids[r] = id} = {RoleAt[k + 1]}
  <2>1. CASE k = 0
    BY <1>1, <2>1 DEF Roles, RoleAt
  <2>2. CASE k = 1
    BY <1>1, <2>2 DEF Roles, RoleAt
  <2>3. CASE k = 2
    BY <1>1, <2>3 DEF Roles, RoleAt
  <2> QED
    BY <2>1, <2>2, <2>3
<1>3. FirstRoles(k + 1) = FirstRoles(k) \cup {RoleAt[k + 1]}
  <2>1. 1..(k + 1) = (1..k) \cup {k + 1}
    OBVIOUS
  <2> QED
    BY <2>1 DEF FirstRoles
<1> QED
  BY <1>2, <1>3 DEF ConsumedRoles

\* The first k roles are all of them only when k is 3.
LEMMA AllRoles ==
  ASSUME NEW k \in 1..3
  PROVE  FirstRoles(k) = Roles <=> k = 3
<1>1. CASE k = 1
  <2>1. FirstRoles(k) = {"down"}
    BY <1>1 DEF FirstRoles, RoleAt
  <2> QED
    BY <1>1, <2>1 DEF Roles
<1>2. CASE k = 2
  <2>1. 1..k = {1, 2}
    BY <1>2
  <2>2. FirstRoles(k) = {"down", "key"}
    BY <2>1 DEF FirstRoles, RoleAt
  <2>3. "up" \notin {"down", "key"}
    OBVIOUS
  <2> QED
    BY <1>2, <2>2, <2>3 DEF Roles
<1>3. CASE k = 3
  <2>1. 1..k = {1, 2, 3}
    BY <1>3
  <2>2. FirstRoles(k) = {"down", "key", "up"}
    BY <2>1 DEF FirstRoles, RoleAt
  <2> QED
    BY <1>3, <2>2 DEF Roles
<1> QED
  BY <1>1, <1>2, <1>3

\* on_event_consumed and its hook, for the event at the head of the ledger.
LEMMA FetchJoined ==
  ASSUME NEW i \in Injector, Sequenced(i), NEW r, Promised(r), Joined(i, r),
         r.eventFifo # <<>>
  PROVE  LET j == Consumed(i, Head(r.eventFifo).id) IN
         /\ j \in Injector /\ Sequenced(j)
         /\ j.ids = i.ids /\ j.idx = i.idx /\ j.scan = i.scan
         /\ (j.stalled <=> i.stalled)
         /\ Joined(j, OnEventConsumed(r))
<1> DEFINE t == OnEventConsumed(r)
           n == Len(r.eventFifo)
           id == Head(r.eventFifo).id
           j == Consumed(i, id)
<1>1. r \in Registry(RealEvent) /\ Ledgered(r)
  BY DEF Promised
<1>2. /\ n \in Nat \ {0}
      /\ Len(t.eventFifo) = n - 1
      /\ \A p \in 1..(n - 1) : t.eventFifo[p] = r.eventFifo[p + 1]
  BY <1>1, ConsumedFields
<1>3. t.nextEvent = r.nextEvent
  BY <1>1 DEF OnEventConsumed, Registry
<1>4. id = r.eventFifo[1].id
  BY <1>1 DEF Registry
<1> HIDE DEF t, n, id
<1>5. i.state = "AWAITING_CONSUMPTION"
  <2>1. n # 0
    BY <1>2
  <2> QED
    BY <2>1 DEF Joined, FetchedInOrder, n
<1>6. PICK k \in 0..2 : InFlightAt(k, i, r)
  BY <1>5 DEF Joined, FetchedInOrder
<1>7. /\ i.consumed = FirstRoles(k)
      /\ r.nextEvent = i.ids["down"] + Queued(i)
      /\ n = Queued(i) - k
      /\ \A p \in 1..n :
           /\ r.eventFifo[p].id = i.ids["down"] + k + p - 1
           /\ r.eventFifo[p].event = EventOf(RoleAt[k + p], i.scan)
  BY <1>6 DEF InFlightAt, n
<1>8. id = i.ids["down"] + k
  <2>1. 1 \in 1..n
    BY <1>2
  <2>2. i.ids["down"] \in Nat
    BY FieldTypes
  <2>3. id = i.ids["down"] + k + 1 - 1
    BY <1>4, <1>7, <2>1
  <2> QED
    BY <2>2, <2>3
<1>9. ConsumedRoles(i, id) = FirstRoles(k + 1)
  BY <1>5, <1>7, <1>8, NextRole
<1>10. j = IF k # 2 THEN [i EXCEPT !.consumed = FirstRoles(k + 1)] ELSE Closed(i)
  <2>1. k + 1 \in 1..3
    OBVIOUS
  <2>2. FirstRoles(k + 1) = Roles <=> k = 2
    BY <2>1, AllRoles
  <2>3. j = IF FirstRoles(k + 1) # Roles THEN [i EXCEPT !.consumed = FirstRoles(k + 1)]
            ELSE Closed(i)
    BY <1>5, <1>9 DEF Consumed, Closed
  <2> QED
    BY <2>2, <2>3
<1>11. k = 2 => i.released /\ n = 1
  BY <1>2, <1>7 DEF Queued
<1>12. /\ j \in Injector
       /\ j.ids = i.ids /\ j.idx = i.idx /\ j.scan = i.scan /\ j.nav = i.nav
       /\ j.stalled <=> i.stalled
       /\ j.released <=> i.released
       /\ (j.state = "AWAITING_NEW_PENDING" => i.released) => Sequenced(j)
  BY ConsumedTypes
<1>13. /\ k # 2 => j.state = i.state /\ j.consumed = FirstRoles(k + 1)
       /\ k = 2 => j.state = "AWAITING_NEW_PENDING"
  BY <1>10 DEF Closed, Injector
<1> HIDE DEF j
<1>14. Sequenced(j)
  BY <1>5, <1>11, <1>12, <1>13
<1>15. FetchedInOrder(j, t)
  <2>1. CASE k = 2
    BY <1>2, <1>11, <1>13, <2>1 DEF FetchedInOrder
  <2>2. CASE k # 2
    <3>1. k + 1 \in 0..2
      BY <2>2
    <3>2. Queued(j) = Queued(i) /\ Queued(i) \in 2..3
      BY <1>12 DEF Queued
    <3>3. Len(t.eventFifo) = Queued(j) - (k + 1)
      BY <1>2, <1>7, <3>2
    <3>4. ASSUME NEW p \in 1..Len(t.eventFifo)
          PROVE  /\ t.eventFifo[p].id = j.ids["down"] + (k + 1) + p - 1
                 /\ t.eventFifo[p].event = EventOf(RoleAt[(k + 1) + p], j.scan)
      <4>1. p \in 1..(n - 1) /\ p + 1 \in 1..n /\ k + (p + 1) = (k + 1) + p
        BY <1>2
      <4>2. t.eventFifo[p] = r.eventFifo[p + 1]
        BY <1>2, <4>1
      <4>3. /\ r.eventFifo[p + 1].id = i.ids["down"] + k + (p + 1) - 1
            /\ r.eventFifo[p + 1].event = EventOf(RoleAt[k + (p + 1)], i.scan)
        BY <1>7, <4>1
      <4>4. i.ids["down"] \in Nat
        BY FieldTypes
      <4>5. t.eventFifo[p].id = j.ids["down"] + (k + 1) + p - 1
        <5> DEFINE down == i.ids["down"]
        <5>1. down \in Nat /\ p \in Nat /\ k \in Nat
          BY <1>2, <4>1, <4>4
        <5>2. t.eventFifo[p].id = down + k + (p + 1) - 1 /\ j.ids["down"] = down
          BY <1>12, <4>2, <4>3
        <5> HIDE DEF down
        <5>3. down + k + (p + 1) - 1 = down + (k + 1) + p - 1
          BY <5>1
        <5> QED
          BY <5>2, <5>3
      <4>6. t.eventFifo[p].event = EventOf(RoleAt[(k + 1) + p], j.scan)
        BY <1>12, <4>1, <4>2, <4>3
      <4> QED
        BY <4>5, <4>6
    <3>5. t.nextEvent = j.ids["down"] + Queued(j)
      BY <1>3, <1>7, <1>12, <3>2
    <3>6. InFlightAt(k + 1, j, t)
      BY <1>13, <2>2, <3>3, <3>4, <3>5 DEF InFlightAt
    <3> QED
      BY <1>5, <1>13, <2>2, <3>1, <3>6 DEF FetchedInOrder
  <2> QED
    BY <2>1, <2>2
<1>16. IdsCounted(j, t)
  BY <1>3, <1>12 DEF Joined, IdsCounted
<1>17. Waited(j, t)
  BY <1>5, <1>13 DEF Waited
<1> QED
  BY <1>12, <1>14, <1>15, <1>16, <1>17 DEF Joined, j, t, id

\* The ledger and the line of requests as the game's own calls leave them.
LEMMA SameJoined ==
  ASSUME NEW i, NEW r, Joined(i, r), NEW t, SameEntries(r, t),
         i.state = "NAV_READY" /\ AnyPending(r) => AnyPending(t)
  PROVE  Joined(i, t)
<1>1. FetchedInOrder(i, t)
  <2>1. CASE i.state = "AWAITING_CONSUMPTION"
    <3>1. PICK k \in 0..2 : InFlightAt(k, i, r)
      BY <2>1 DEF Joined, FetchedInOrder
    <3>2. InFlightAt(k, i, t)
      BY <3>1 DEF InFlightAt, SameEntries
    <3> QED
      BY <2>1, <3>2 DEF FetchedInOrder
  <2>2. CASE i.state # "AWAITING_CONSUMPTION"
    BY <2>2 DEF Joined, FetchedInOrder, SameEntries
  <2> QED
    BY <2>1, <2>2
<1>2. IdsCounted(i, t)
  BY DEF Joined, IdsCounted, SameEntries
<1>3. Waited(i, t)
  BY DEF Joined, Waited
<1> QED
  BY <1>1, <1>2, <1>3 DEF Joined

\* A registration, with the matching it starts, ...
LEMMA AskJoined ==
  ASSUME NEW i, NEW r, Promised(r), Joined(i, r), NEW a \in StatusAddr, Registrable(r)
  PROVE  Joined(i, RegisterRequest(r, a)) /\ RegisterRequest(r, a).nextEvent = r.nextEvent
<1>1. r \in Registry(RealEvent) /\ Ledgered(r)
  BY DEF Promised
<1>2. CASE Live(r, a) # {}
  BY <1>2 DEF RegisterRequest
<1>3. CASE Live(r, a) = {}
  <2> DEFINE r1 == Recorded(r, a)
             t == TryMatch(r1)
  <2>1. r1 \in Registry(RealEvent) /\ Ledgered(r1)
    BY <1>1, <1>3, RecordedType, RecordedLedgered
  <2>2. /\ r1.eventFifo = r.eventFifo /\ r1.nextEvent = r.nextEvent
        /\ r1.requests = [r.requests EXCEPT
             ![r.nextRequest] = [addr |-> a, state |-> "PENDING", event |-> None]]
    BY <1>1 DEF Recorded, Registry
  <2>3. AnyPending(r1)
    <3>1. /\ r.requests \in [RequestId -> Request]
          /\ r.nextRequest \in RequestId
      BY <1>1, RegistryAssumption DEF Registry, Registrable, RequestId
    <3>2. r1.requests[r.nextRequest].state = "PENDING"
      BY <2>2, <3>1
    <3> HIDE DEF r1
    <3> QED
      BY <3>1, <3>2 DEF AnyPending, InState
  <2>4. RegisterRequest(r, a) = t
    BY <1>3 DEF RegisterRequest
  <2> HIDE DEF r1
  <2>5. SameEntries(r1, t) /\ (Len(r1.eventFifo) = 0 => (AnyPending(r1) => AnyPending(t)))
    BY <2>1, MatchedEntries
  <2> HIDE DEF t
  <2>6. SameEntries(r, t)
    BY <2>2, <2>5 DEF SameEntries
  <2>7. i.state = "NAV_READY" => AnyPending(t)
    <3>1. i.state = "NAV_READY" => Len(r.eventFifo) = 0
      BY DEF Joined, FetchedInOrder
    <3> QED
      BY <2>2, <2>3, <2>5, <3>1
  <2> QED
    BY <2>4, <2>6, <2>7, SameJoined DEF SameEntries
<1> QED
  BY <1>2, <1>3

\* ... a request the game completes, ...
LEMMA CompleteJoined ==
  ASSUME NEW i, NEW r \in Registry(RealEvent), Joined(i, r), NEW a, NEW c
  PROVE  /\ Joined(i, OnRequestComplete(r, a, c))
         /\ OnRequestComplete(r, a, c).nextEvent = r.nextEvent
<1> DEFINE t == OnRequestComplete(r, a, c)
<1>1. t.requests = r.requests /\ t.eventFifo = r.eventFifo /\ t.nextEvent = r.nextEvent
  BY DEF OnRequestComplete, Registry
<1> HIDE DEF t
<1>2. SameEntries(r, t) /\ (AnyPending(r) <=> AnyPending(t))
  BY <1>1 DEF SameEntries, AnyPending, InState
<1> QED
  BY <1>1, <1>2, SameJoined DEF t

\* ... and the game's wait leave the key in flight where it was.
LEMMA WaitJoined ==
  ASSUME NEW i, NEW r \in Registry(RealEvent), Joined(i, r)
  PROVE  /\ Joined(i, WaitForAnyRequest(r))
         /\ WaitForAnyRequest(r).nextEvent = r.nextEvent
<1> DEFINE t == WaitForAnyRequest(r)
<1>1. t.requests = r.requests /\ t.eventFifo = r.eventFifo /\ t.nextEvent = r.nextEvent
  BY DEF WaitForAnyRequest, Registry
<1> HIDE DEF t
<1>2. SameEntries(r, t) /\ (AnyPending(r) <=> AnyPending(t))
  BY <1>1 DEF SameEntries, AnyPending, InState
<1> QED
  BY <1>1, <1>2, SameJoined DEF t

\* Steps of the injector alone: the clock and the game's scan.
SameKey(i, j) ==
  /\ j \in Injector
  /\ j.state = i.state /\ (j.stalled <=> i.stalled)
  /\ (j.released <=> i.released) /\ (j.boundary <=> i.boundary)
  /\ j.ids = i.ids /\ j.consumed = i.consumed /\ j.hold = i.hold
  /\ j.scan = i.scan /\ j.nav = i.nav /\ j.idx = i.idx

\* One unit of time later a stamp is still in its range.
LEMMA BackType ==
  ASSUME NEW n \in Int, n >= Long, NEW t \in Long..n
  PROVE  Back(t) \in Long..n
BY Measures DEF Back, Later

\* The clock moves the stamps and nothing else, ...
LEMMA ElapsedSame ==
  ASSUME NEW i \in Injector
  PROVE  SameKey(i, Elapsed(i))
<1> DEFINE releaseAt == Back(i.releaseAt)
           sentAt == Back(i.sentAt)
           closedAt == Back(i.closedAt)
           nextAt == Back(i.nextAt)
           j == [i EXCEPT !.releaseAt = releaseAt, !.sentAt = sentAt,
                          !.closedAt = closedAt, !.nextAt = nextAt]
<1>1. /\ i.releaseAt \in Long..Later(KeyHold, FirstKeyHold)
      /\ i.sentAt \in Long..0 /\ i.closedAt \in Long..0
      /\ i.nextAt \in Long..MinGap
  BY DEF Injector
<1>2. /\ 0 >= Long /\ MinGap \in Int /\ MinGap >= Long
      /\ Later(KeyHold, FirstKeyHold) \in Int /\ Later(KeyHold, FirstKeyHold) >= Long
  BY Measures
<1>3. /\ releaseAt \in Long..Later(KeyHold, FirstKeyHold)
      /\ sentAt \in Long..0 /\ closedAt \in Long..0
      /\ nextAt \in Long..MinGap
  BY <1>1, <1>2, BackType
<1>4. Elapsed(i) = j
  BY DEF Elapsed
<1> HIDE DEF releaseAt, sentAt, closedAt, nextAt
<1>5. SameKey(i, j)
  BY <1>3 DEF SameKey, Injector
<1> QED
  BY <1>4, <1>5

\* ... a scan of the game brings a release forward or ends the wait for it, ...
LEMMA ScanSame ==
  ASSUME NEW i \in Injector, NEW edge \in BOOLEAN
  PROVE  SameKey(i, GameKeyScan(i, edge))
<1> DEFINE due == Earlier(i.releaseAt, 0)
           j1 == [i EXCEPT !.releaseAt = due]
           j2 == [i EXCEPT !.scanSeen = TRUE]
<1>1. due \in Long..Later(KeyHold, FirstKeyHold)
  <2>1. i.releaseAt \in Long..Later(KeyHold, FirstKeyHold)
    BY DEF Injector
  <2> QED
    BY <2>1, Measures DEF Earlier
<1> HIDE DEF due
<1>2. SameKey(i, i) /\ SameKey(i, j1) /\ SameKey(i, j2)
  <2>1. SameKey(i, i)
    BY DEF SameKey
  <2>2. SameKey(i, j1)
    BY <1>1 DEF SameKey, Injector
  <2>3. SameKey(i, j2)
    BY DEF SameKey, Injector
  <2> QED
    BY <2>1, <2>2, <2>3
<1>3. GameKeyScan(i, edge) \in {i, j1, j2}
  BY DEF GameKeyScan, due
<1> HIDE DEF j1, j2
<1> QED
  BY <1>2, <1>3

\* ... and neither touches what joins the injector to the ledger.
LEMMA SameKeyJoined ==
  ASSUME NEW i, NEW j, SameKey(i, j), Sequenced(i), NEW r, Joined(i, r)
  PROVE  Sequenced(j) /\ Joined(j, r)
<1>1. Sequenced(j)
  BY DEF SameKey, Sequenced
<1>2. Queued(j) = Queued(i)
  BY DEF SameKey, Queued
<1>3. \A k : InFlightAt(k, i, r) => InFlightAt(k, j, r)
  BY <1>2 DEF SameKey, InFlightAt
<1>4. FetchedInOrder(j, r)
  BY <1>3 DEF SameKey, Joined, FetchedInOrder
<1>5. IdsCounted(j, r)
  BY DEF SameKey, Joined, IdsCounted
<1>6. Waited(j, r)
  BY DEF SameKey, Joined, Waited
<1> QED
  BY <1>1, <1>4, <1>5, <1>6 DEF Joined

\* What a refill may do to the sequence, whatever the ledger holds: a new key
\* meets a request, and the next key of the sequence an empty ledger.
Permitted(i, j, mod, r) ==
  /\ j.ids # i.ids /\ i.ids["down"] # 0 => AnyPending(r)
  /\ j.idx # i.idx =>
       /\ j.idx = i.idx + 1 /\ j.scan = Keys[j.idx]
       /\ r.eventFifo = <<>>
       /\ j.idx = Len(Phase1Keys) + 1 => mod = "module28" /\ AnyPending(r)

\* Every outcome of a refill respects it.
LEMMA RefillPermitted ==
  ASSUME NEW i \in Injector, Sequenced(i), NEW r, Promised(r), Joined(i, r),
         NEW mod, NEW o, Outcome(i, o, mod, r)
  PROVE  Permitted(i, o.inj, mod, r)
<1> DEFINE j == o.inj
<1>0. i.idx \in Nat /\ Len(Phase1Keys) \in Nat
  BY FieldTypes, Measures
<1>1. CASE Rests(i, o, r) \/ Releases(i, o)
  <2>1. j.ids = i.ids /\ j.idx = i.idx
    BY <1>1 DEF Rests, Releases, Injector
  <2> HIDE DEF j
  <2>2. Permitted(i, j, mod, r)
    BY <2>1 DEF Permitted
  <2> QED
    BY <2>2 DEF j
<1>2. CASE Sends(i, o, mod, r)
  <2>1. /\ i.state # "AWAITING_CONSUMPTION"
        /\ i.state \in {"WAIT_MODULE5", "NAV_READY"} \/ AnyPending(r)
        /\ j.idx # i.idx => /\ j.idx = i.idx + 1 /\ j.scan = Keys[i.idx + 1]
                            /\ i.idx = Len(Phase1Keys) => mod = "module28" /\ AnyPending(r)
    BY <1>2 DEF Sends
  <2> HIDE DEF j
  <2>2. r.eventFifo = <<>>
    <3>1. Len(r.eventFifo) = 0
      BY <2>1 DEF Joined, FetchedInOrder
    <3>2. r.eventFifo \in Seq(Entry(RealEvent))
      BY DEF Promised, Registry
    <3> QED
      BY <3>1, <3>2, EmptySeq
  <2>3. i.ids["down"] # 0 => AnyPending(r)
    BY <2>1 DEF Sequenced, Joined, Waited
  <2>4. j.idx # i.idx => (j.idx = Len(Phase1Keys) + 1 => mod = "module28" /\ AnyPending(r))
    BY <1>0, <2>1
  <2>5. Permitted(i, j, mod, r)
    BY <2>1, <2>2, <2>3, <2>4 DEF Permitted
  <2> QED
    BY <2>5 DEF j
<1> QED
  BY <1>1, <1>2 DEF Outcome

\* The wrapper of GetEvent tells the injector of a real event, and the
\* registry with it.
LEMMA AckedJoined ==
  ASSUME NEW i \in Injector, Sequenced(i), NEW r, Promised(r), Joined(i, r), NEW e,
         NEW j, j = Acked(i, e, r),
         NEW t, t = IF e = Null THEN r ELSE OnEventConsumed(r)
  PROVE  /\ j \in Injector /\ Sequenced(j)
         /\ j.ids = i.ids /\ j.idx = i.idx /\ j.scan = i.scan
         /\ (j.stalled <=> i.stalled)
         /\ Joined(j, t)
         /\ t.nextEvent = r.nextEvent
<1>1. CASE e = Null \/ r.eventFifo = <<>>
  <2>1. j = i /\ t = r
    BY <1>1 DEF Acked, OnEventConsumed
  <2> QED
    BY <2>1
<1>2. CASE e # Null /\ r.eventFifo # <<>>
  <2>1. j = Consumed(i, Head(r.eventFifo).id) /\ t = OnEventConsumed(r)
    BY <1>2 DEF Acked
  <2>2. t.nextEvent = r.nextEvent
    <3>1. r \in Registry(RealEvent)
      BY DEF Promised
    <3> QED
      BY <2>1, <3>1 DEF OnEventConsumed, Registry
  <2>3. /\ j \in Injector /\ Sequenced(j)
        /\ j.ids = i.ids /\ j.idx = i.idx /\ j.scan = i.scan
        /\ (j.stalled <=> i.stalled)
        /\ Joined(j, t)
    BY <1>2, <2>1, FetchJoined
  <2> QED
    BY <2>2, <2>3
<1> QED
  BY <1>1, <1>2

-----------------------------------------------------------------------------
(* The inductive invariant and the steps.                                  *)

\* The injector, the queue and the registry are in step.
InStep ==
  /\ Mirrored
  /\ inj \in Injector
  /\ module \in Modules
  /\ Sequenced(inj)
  /\ Joined(inj, reg)

\* What every step of the game or the harness respects.
StepAllowed ==
  /\ Permitted(inj, inj', module, reg)
  /\ inj.stalled => reg'.nextEvent = reg.nextEvent

\* Everything but module and Mirrored, which each step settles by itself.
Advanced ==
  /\ inj' \in Injector
  /\ Sequenced(inj')
  /\ Joined(inj', reg')
  /\ StepAllowed

\* A step that sends no key.
LEMMA KeyKept ==
  ASSUME inj' \in Injector, Sequenced(inj'), Joined(inj', reg'),
         inj'.ids = inj.ids, inj'.idx = inj.idx,
         reg'.nextEvent = reg.nextEvent
  PROVE  Advanced
BY DEF Advanced, StepAllowed, Permitted

\* What the injector and the registry have become when the refill returns.
LEMMA RefilledFacts ==
  ASSUME InStep, Enqueueable(reg, Reals(Refilled.batch))
  PROVE  LET o == Refilled
             r1 == OnEventsEnqueued(reg, Reals(o.batch))
         IN
         /\ Outcome(inj, o, module, reg)
         /\ Joined(o.inj, r1)
         /\ Promised(r1)
         /\ inj.stalled => r1.nextEvent = reg.nextEvent
<1> DEFINE o == Refilled
           r1 == OnEventsEnqueued(reg, Reals(o.batch))
<1>1. /\ inj \in Injector /\ module \in Modules /\ Sequenced(inj)
      /\ Joined(inj, reg) /\ Promised(reg)
  BY DEF InStep, Mirrored
<1>2. reg \in Registry(RealEvent) /\ reg.nextEvent \in Nat
  BY <1>1 DEF Promised, Registry
<1>3. o = Called(inj, module, reg)
  BY DEF Refilled, SomePending, Called, AnyPending
<1>4. Outcome(inj, o, module, reg)
  BY <1>1, <1>2, <1>3, RefillOutcome
<1> HIDE DEF o
<1>5. /\ o.batch \in Seq(Event) /\ Reals(o.batch) \in Seq(RealEvent)
      /\ inj.stalled => Reals(o.batch) = <<>>
  BY <1>1, <1>4, OutcomeBatch
<1>6. Enqueueable(reg, Reals(o.batch))
  BY DEF o
<1>7. Joined(o.inj, r1)
  BY <1>1, <1>4, <1>6, RefillJoined
<1>8. Promised(r1)
  BY <1>1, <1>5, <1>6, EnqueueKeeps
<1>9. ASSUME inj.stalled PROVE r1.nextEvent = reg.nextEvent
  <2>1. ExtendedBy(reg, <<>>, r1)
    BY <1>1, <1>5, <1>6, <1>9, EnqueuedEntries
  <2> HIDE DEF r1
  <2> QED
    BY <1>1, <2>1, IdleExtends DEF SameEntries
<1> HIDE DEF r1
<1>10. /\ Outcome(inj, o, module, reg)
       /\ Joined(o.inj, r1)
       /\ Promised(r1)
       /\ inj.stalled => r1.nextEvent = reg.nextEvent
  BY <1>4, <1>7, <1>8, <1>9
<1> QED
  BY <1>10 DEF r1, o

\* The producer tick: refill, trim, tell the registry.
LEMMA TickStep ==
  ASSUME InStep, Tick
  PROVE  InStep' /\ StepAllowed
<1> DEFINE o == Refilled
<1>1. /\ ProduceTick(o.batch) /\ inj' = o.inj /\ module' = module
  BY DEF Tick
<1>2. /\ Enqueueable(reg, Reals(o.batch))
      /\ reg' = OnEventsEnqueued(reg, Reals(o.batch))
  BY <1>1 DEF ProduceTick
<1>3. /\ Outcome(inj, o, module, reg)
      /\ Joined(o.inj, reg')
      /\ inj.stalled => reg'.nextEvent = reg.nextEvent
  BY <1>2, RefilledFacts
<1> HIDE DEF o
<1>4. /\ inj \in Injector /\ module \in Modules /\ Sequenced(inj)
      /\ Joined(inj, reg) /\ Promised(reg) /\ Mirrored
  BY DEF InStep, Mirrored
<1>5. o.batch \in Seq(Event)
  BY <1>3, <1>4, OutcomeBatch
<1>6. Mirrored'
  BY <1>1, <1>4, <1>5, TickMirrors
<1>7. Permitted(inj, inj', module, reg)
  BY <1>1, <1>3, <1>4, RefillPermitted
<1>8. inj' \in Injector /\ Sequenced(inj')
  BY <1>1, <1>3 DEF Outcome
<1>9. Joined(inj', reg')
  BY <1>1, <1>3
<1>10. InStep'
  BY <1>1, <1>4, <1>6, <1>8, <1>9 DEF InStep
<1>11. StepAllowed
  BY <1>3, <1>7 DEF StepAllowed
<1> QED
  BY <1>10, <1>11

\* A fetch that finds events in the queue, ...
LEMMA FetchStep ==
  ASSUME InStep, running, Fetch
  PROVE  InStep' /\ StepAllowed
<1>1. /\ GetEvent /\ inj' = Acked(inj, Head(q), reg) /\ module' = module
      /\ reg' = IF Head(q) = Null THEN reg ELSE OnEventConsumed(reg)
  BY DEF Fetch, GetEvent, Delivered
<1>2. /\ inj \in Injector /\ module \in Modules /\ Sequenced(inj)
      /\ Joined(inj, reg) /\ Promised(reg) /\ Mirrored
  BY DEF InStep, Mirrored
<1>3. Mirrored'
  <2>1. Next
    BY <1>1 DEF Next
  <2> QED
    BY <1>2, <2>1, MirrorStep
<1>4. /\ inj' \in Injector /\ Sequenced(inj')
      /\ inj'.ids = inj.ids /\ inj'.idx = inj.idx
      /\ Joined(inj', reg')
      /\ reg'.nextEvent = reg.nextEvent
  BY <1>1, <1>2, AckedJoined
<1>5. Advanced
  BY <1>4, KeyKept
<1> QED
  BY <1>1, <1>2, <1>3, <1>5 DEF InStep, Advanced

\* ... and one that calls the injector first.
LEMMA FirstFetchStep ==
  ASSUME InStep, running, FetchAfterRefill
  PROVE  InStep' /\ StepAllowed
<1> DEFINE o == Refilled
           r1 == OnEventsEnqueued(reg, Reals(o.batch))
<1>1. /\ inj \in Injector /\ module \in Modules /\ Sequenced(inj)
      /\ Joined(inj, reg) /\ Promised(reg) /\ Mirrored
  BY DEF InStep, Mirrored
<1>2. \/ GetEventAfterRefill(o.batch) /\ inj' = Acked(o.inj, Head(o.batch), r1)
      \/ GetEventStarved(o.batch) /\ inj' = o.inj
  BY DEF FetchAfterRefill
<1>3. module' = module
  BY DEF FetchAfterRefill
<1>4. CASE GetEventAfterRefill(o.batch) /\ inj' = Acked(o.inj, Head(o.batch), r1)
  <2>1. /\ Enqueueable(reg, Reals(o.batch))
        /\ reg' = IF Head(o.batch) = Null THEN r1 ELSE OnEventConsumed(r1)
    BY <1>4 DEF GetEventAfterRefill, Delivered
  <2>2. /\ Outcome(inj, o, module, reg)
        /\ Joined(o.inj, r1)
        /\ Promised(r1)
        /\ inj.stalled => r1.nextEvent = reg.nextEvent
    BY <2>1, RefilledFacts
  <2> HIDE DEF o, r1
  <2>3. o.batch \in Seq(Event)
    BY <1>1, <2>2, OutcomeBatch
  <2>4. Mirrored'
    BY <1>1, <1>4, <2>3, FetchMirrors
  <2>5. o.inj \in Injector /\ Sequenced(o.inj)
    BY <2>2 DEF Outcome
  <2>6. /\ inj' \in Injector /\ Sequenced(inj')
        /\ inj'.ids = o.inj.ids /\ inj'.idx = o.inj.idx /\ inj'.scan = o.inj.scan
        /\ Joined(inj', reg')
        /\ reg'.nextEvent = r1.nextEvent
    BY <1>4, <2>1, <2>2, <2>5, AckedJoined
  <2>7. Permitted(inj, o.inj, module, reg)
    BY <1>1, <2>2, RefillPermitted
  <2>8. Permitted(inj, inj', module, reg)
    BY <2>6, <2>7 DEF Permitted
  <2> QED
    BY <1>1, <1>3, <2>2, <2>4, <2>6, <2>8 DEF InStep, StepAllowed
<1>5. CASE GetEventStarved(o.batch) /\ inj' = o.inj
  <2>1. o.batch = <<>> /\ running' = FALSE /\ q' = q /\ reg' = reg
    BY <1>5 DEF GetEventStarved
  <2>2. Outcome(inj, o, module, reg)
    <3>1. o = Called(inj, module, reg)
      BY DEF Refilled, SomePending, Called, AnyPending
    <3>2. reg.nextEvent \in Nat
      BY <1>1 DEF Promised, Registry
    <3> QED
      BY <1>1, <3>1, <3>2, RefillOutcome
  <2> HIDE DEF o, r1
  <2>3. Rests(inj, o, reg)
    <3>1. CASE Releases(inj, o)
      <4>1. inj.scan \in Scan /\ o.batch = Release(inj.scan)
        BY <1>1, <3>1 DEF Releases, Sequenced
      <4> QED
        BY <2>1, <4>1, ReleaseReals
    <3>2. CASE Sends(inj, o, module, reg)
      <4>1. o.inj.scan \in Scan /\ o.inj.hold \in Nat
            /\ o.batch = KeyBurst(o.inj.scan, o.inj.hold)
        <5>1. o.inj \in Injector
          BY <2>2 DEF Outcome
        <5> QED
          BY <3>2, <5>1, FieldTypes DEF Sends
      <4> QED
        BY <2>1, <4>1, BurstReals
    <3> QED
      BY <2>2, <3>1, <3>2 DEF Outcome
  <2>4. Mirrored'
    BY <1>1, <2>1 DEF Mirrored, Undelivered
  <2>5. inj' \in Injector /\ Sequenced(inj')
    BY <1>5, <2>2 DEF Outcome
  <2>6. Joined(inj', reg')
    <3>1. SameEntries(reg, reg)
      BY DEF SameEntries
    <3>2. o.inj \in Injector
      BY <2>2 DEF Outcome
    <3>3. Joined(o.inj, reg)
      BY <1>1, <2>3, <3>1, <3>2, RestsJoined
    <3> QED
      BY <1>5, <2>1, <3>3
  <2>7. Permitted(inj, inj', module, reg)
    BY <1>1, <1>5, <2>2, RefillPermitted
  <2> QED
    BY <1>1, <1>3, <2>1, <2>4, <2>5, <2>6, <2>7 DEF InStep, StepAllowed
<1> QED
  BY <1>2, <1>4, <1>5

\* The game's own calls.
LEMMA GameStep ==
  ASSUME InStep, running, inj' = inj, module' = module, Next,
         Joined(inj, reg'), reg'.nextEvent = reg.nextEvent
  PROVE  InStep' /\ StepAllowed
<1>1. Mirrored'
  BY MirrorStep DEF InStep
<1> QED
  BY <1>1 DEF InStep, StepAllowed, Permitted

\* A step of the injector that sends and confirms nothing.
LEMMA ClockStep ==
  ASSUME InStep, SameKey(inj, inj'), q' = q, reg' = reg, running' = running,
         module' \in Modules
  PROVE  InStep' /\ StepAllowed
<1>1. Sequenced(inj') /\ Joined(inj', reg')
  BY SameKeyJoined DEF InStep
<1>2. Mirrored'
  BY DEF InStep, Mirrored, Undelivered
<1>3. inj' \in Injector /\ inj'.ids = inj.ids /\ inj'.idx = inj.idx
  BY DEF SameKey
<1> QED
  BY <1>1, <1>2, <1>3 DEF InStep, StepAllowed, Permitted

\* Every step keeps the invariant and respects what the action properties say.
LEMMA SyncedStep ==
  ASSUME InStep, [SyncNext]_syncVars
  PROVE  InStep' /\ StepAllowed
<1>1. /\ inj \in Injector /\ module \in Modules /\ Sequenced(inj)
      /\ Joined(inj, reg) /\ Promised(reg) /\ Mirrored
  BY DEF InStep, Mirrored
<1>2. reg \in Registry(RealEvent)
  BY <1>1 DEF Promised
<1>3. CASE running /\ Tick
  BY <1>3, TickStep
<1>4. CASE running /\ Fetch
  BY <1>4, FetchStep
<1>5. CASE running /\ FetchAfterRefill
  BY <1>5, FirstFetchStep
<1>6. ASSUME running, NEW a \in NotifyAddr, Asks(a)
      PROVE  InStep' /\ StepAllowed
  <2>1. /\ Notify(a) /\ inj' = inj /\ module' = module
        /\ Registrable(reg) /\ reg' = RegisterRequest(reg, a)
    BY <1>6 DEF Asks, Notify
  <2>2. Next
    BY <1>6, <2>1 DEF Next
  <2>3. a \in StatusAddr
    BY AsyncAssumption
  <2>4. Joined(inj, reg') /\ reg'.nextEvent = reg.nextEvent
    BY <1>1, <2>1, <2>3, AskJoined
  <2> QED
    BY <1>6, <2>1, <2>2, <2>4, GameStep
<1>7. ASSUME running, NEW a \in SelfAddr, NEW c \in Reasons, Completes(a, c)
      PROVE  InStep' /\ StepAllowed
  <2>1. /\ Complete(a, c) /\ inj' = inj /\ module' = module
        /\ reg' = OnRequestComplete(reg, a, c)
    BY <1>7 DEF Completes, Complete
  <2>2. Next
    BY <1>7, <2>1 DEF Next
  <2>3. Joined(inj, reg') /\ reg'.nextEvent = reg.nextEvent
    BY <1>1, <1>2, <2>1, CompleteJoined
  <2> QED
    BY <1>7, <2>1, <2>2, <2>3, GameStep
<1>8. CASE running /\ Waits
  <2>1. /\ Wait /\ inj' = inj /\ module' = module
        /\ reg' = WaitForAnyRequest(reg)
    BY <1>8 DEF Waits, Wait
  <2>2. Next
    BY <1>8, <2>1 DEF Next
  <2>3. Joined(inj, reg') /\ reg'.nextEvent = reg.nextEvent
    BY <1>1, <1>2, <2>1, WaitJoined
  <2> QED
    BY <1>8, <2>1, <2>2, <2>3, GameStep
<1>9. ASSUME NEW edge \in BOOLEAN, ScansKeys(edge)
      PROVE  InStep' /\ StepAllowed
  <2>1. inj' = GameKeyScan(inj, edge) /\ q' = q /\ reg' = reg
        /\ running' = running /\ module' = module
    BY <1>9 DEF ScansKeys
  <2> QED
    BY <1>1, <2>1, ScanSame, ClockStep
<1>10. ASSUME NEW m \in Modules, EntersModule(m)
       PROVE  InStep' /\ StepAllowed
  <2>1. inj' = inj /\ q' = q /\ reg' = reg /\ running' = running /\ module' = m
    BY <1>10 DEF EntersModule
  <2>2. SameKey(inj, inj')
    BY <1>1, <2>1 DEF SameKey
  <2> QED
    BY <2>1, <2>2, ClockStep
<1>11. CASE Elapse
  <2>1. inj' = Elapsed(inj) /\ q' = q /\ reg' = reg
        /\ running' = running /\ module' = module
    BY <1>11 DEF Elapse
  <2> QED
    BY <1>1, <2>1, ElapsedSame, ClockStep
<1>12. CASE UNCHANGED syncVars
  <2>1. inj' = inj /\ q' = q /\ reg' = reg /\ running' = running /\ module' = module
    BY <1>12 DEF syncVars
  <2>2. SameKey(inj, inj')
    BY <1>1, <2>1 DEF SameKey
  <2> QED
    BY <1>1, <2>1, <2>2, ClockStep
<1> QED
  BY <1>3, <1>4, <1>5, <1>6, <1>7, <1>8, <1>9, <1>10, <1>11, <1>12 DEF SyncNext

\* At the start nothing is in flight and nothing was sent.
LEMMA SyncedStart == SyncInit => InStep
<1> SUFFICES ASSUME SyncInit PROVE InStep
  OBVIOUS
<1>1. q = <<>> /\ reg = EmptyRegistry /\ inj = Start /\ module = "boot" /\ Init
  BY DEF SyncInit, Init
<1>2. Mirrored
  BY <1>1, MirrorInit
<1>3. /\ Start.state = "WAIT_MODULE5" /\ ~Start.stalled /\ Start.nav = NavKeys
      /\ Start.idx = 0 /\ Start.ids["down"] = 0 /\ Start.released
      /\ ~Start.boundary
  BY DEF Start, Roles
<1>4. Start \in Injector
  <2>1. Long \in Long..Later(KeyHold, FirstKeyHold) /\ Long \in Long..0 /\ Long \in Long..MinGap
    BY Measures
  <2>2. 0 \in 0..Len(Keys) /\ NavKeys \in Seq(Scan)
    BY Measures
  <2> QED
    BY <2>1, <2>2 DEF Start, Injector, States, Roles
<1>5. /\ EmptyRegistry.nextEvent = 1 /\ Len(EmptyRegistry.eventFifo) = 0
  BY DEF EmptyRegistry
<1> DEFINE i == Start
<1> HIDE DEF i
<1>6. Sequenced(i)
  BY <1>3, Measures DEF Sequenced, i
<1>7. FetchedInOrder(i, EmptyRegistry) /\ Waited(i, EmptyRegistry)
  BY <1>3, <1>5 DEF FetchedInOrder, Waited, i
<1>8. IdsCounted(i, EmptyRegistry)
  BY <1>3, <1>5, Measures DEF IdsCounted, i
<1>9. "boot" \in Modules
  BY DEF Modules
<1> QED
  BY <1>1, <1>2, <1>4, <1>6, <1>7, <1>8, <1>9 DEF InStep, Joined, i

\* The invariant holds in every run.
LEMMA SyncedInvariant == SyncSpec => []InStep
<1>1. InStep /\ [SyncNext]_syncVars => InStep'
  BY SyncedStep
<1> QED
  BY <1>1, SyncedStart, PTL DEF SyncSpec

\* Types: the queue, the registry, and every field of the injector, its time
\* stamps among them, stay in the ranges the code keeps them in.
THEOREM SyncTypeCorrect == SyncSpec => []SyncTypeOK
<1>1. InStep => SyncTypeOK
  BY DEF InStep, Mirrored, Promised, SyncTypeOK, TypeOK, RegistryOK
<1> QED
  BY <1>1, SyncedInvariant, PTL

\* The ledger is the key in flight: what the game has not fetched of the
\* current key, each event under the id that _send_tracked_key foresaw, and
\* nothing between two keys (sync_injector.py:233-251, 422-446;
\* async_model.py:306-370).
THEOREM LedgerIsTheKeyInFlightHolds == SyncSpec => []LedgerIsTheKeyInFlight
<1>1. InStep => LedgerIsTheKeyInFlight
  <2> SUFFICES ASSUME InStep PROVE LedgerIsTheKeyInFlight
    OBVIOUS
  <2>1. /\ inj \in Injector /\ Sequenced(inj) /\ FetchedInOrder(inj, reg)
        /\ reg.eventFifo \in Seq(Entry(RealEvent))
    BY DEF InStep, Joined, Mirrored, Promised, Registry
  <2>2. CASE inj.state # "AWAITING_CONSUMPTION"
    <3>1. Len(reg.eventFifo) = 0
      BY <2>1, <2>2 DEF FetchedInOrder
    <3>2. reg.eventFifo = <<>>
      BY <2>1, <3>1, EmptySeq
    <3> QED
      BY <2>2, <3>2 DEF LedgerIsTheKeyInFlight
  <2>3. CASE inj.state = "AWAITING_CONSUMPTION"
    <3>1. PICK k \in 0..2 : InFlightAt(k, inj, reg)
      BY <2>1, <2>3 DEF FetchedInOrder
    <3> DEFINE fifo == reg.eventFifo
               n == Len(fifo)
               down == inj.ids["down"]
    <3>2. /\ inj.consumed = FirstRoles(k)
          /\ n = Queued(inj) - k
          /\ \A p \in 1..n : /\ fifo[p].id = down + k + p - 1
                             /\ fifo[p].event = EventOf(RoleAt[k + p], inj.scan)
      BY <3>1 DEF InFlightAt
    <3>3. /\ down \in Nat /\ inj.ids["key"] = down + 1 /\ inj.ids["up"] = down + 2
      BY <2>1, <2>3, FieldTypes DEF Sequenced
    <3>4. DOMAIN fifo = 1..n
      BY <2>1
    <3> HIDE DEF fifo, n, down
    <3>5. \A p \in 1..n : inj.ids[RoleAt[k + p]] = down + k + p - 1
      <4> SUFFICES ASSUME NEW p \in 1..n
                   PROVE  inj.ids[RoleAt[k + p]] = down + k + p - 1
        OBVIOUS
      <4>1. k + p \in 1..3 /\ p \in Nat
        BY <3>2 DEF Queued
      <4>2. \A m \in 1..3 : inj.ids[RoleAt[m]] = down + m - 1
        BY <3>3 DEF RoleAt, down
      <4>3. inj.ids[RoleAt[k + p]] = down + (k + p) - 1
        BY <4>1, <4>2
      <4> QED
        BY <3>3, <4>1, <4>3
    <3>6. Outstanding = {RoleAt[k + p] : p \in 1..n}
      <4>1. CASE k = 0 /\ inj.released
        <5>1. n = 3 /\ 1..n = {1, 2, 3} /\ 1..k = {}
          BY <3>2, <4>1 DEF Queued
        <5>2. inj.consumed = {}
          BY <3>2, <5>1 DEF FirstRoles
        <5>3. {RoleAt[k + p] : p \in 1..n} = {"down", "key", "up"}
          BY <4>1, <5>1 DEF RoleAt
        <5> QED
          BY <4>1, <5>2, <5>3 DEF Outstanding, Roles
      <4>2. CASE k = 0 /\ ~inj.released
        <5>1. n = 2 /\ 1..n = {1, 2} /\ 1..k = {}
          BY <3>2, <4>2 DEF Queued
        <5>2. inj.consumed = {}
          BY <3>2, <5>1 DEF FirstRoles
        <5>3. {RoleAt[k + p] : p \in 1..n} = {"down", "key"}
          BY <4>2, <5>1 DEF RoleAt
        <5> QED
          BY <4>2, <5>2, <5>3 DEF Outstanding, Roles
      <4>3. CASE k = 1 /\ inj.released
        <5>1. n = 2 /\ 1..n = {1, 2} /\ 1..k = {1}
          BY <3>2, <4>3 DEF Queued
        <5>2. inj.consumed = {"down"}
          BY <3>2, <5>1 DEF FirstRoles, RoleAt
        <5>3. {RoleAt[k + p] : p \in 1..n} = {"key", "up"}
          BY <4>3, <5>1 DEF RoleAt
        <5> QED
          BY <4>3, <5>2, <5>3 DEF Outstanding, Roles
      <4>4. CASE k = 1 /\ ~inj.released
        <5>1. n = 1 /\ 1..n = {1} /\ 1..k = {1}
          BY <3>2, <4>4 DEF Queued
        <5>2. inj.consumed = {"down"}
          BY <3>2, <5>1 DEF FirstRoles, RoleAt
        <5>3. {RoleAt[k + p] : p \in 1..n} = {"key"}
          BY <4>4, <5>1 DEF RoleAt
        <5> QED
          BY <4>4, <5>2, <5>3 DEF Outstanding, Roles
      <4>5. CASE k = 2 /\ inj.released
        <5>1. n = 1 /\ 1..n = {1} /\ 1..k = {1, 2}
          BY <3>2, <4>5 DEF Queued
        <5>2. inj.consumed = {"down", "key"}
          BY <3>2, <5>1 DEF FirstRoles, RoleAt
        <5>3. {RoleAt[k + p] : p \in 1..n} = {"up"}
          BY <4>5, <5>1 DEF RoleAt
        <5> QED
          BY <4>5, <5>2, <5>3 DEF Outstanding, Roles
      <4>6. CASE k = 2 /\ ~inj.released
        <5>1. n = 0 /\ 1..n = {} /\ 1..k = {1, 2}
          BY <3>2, <4>6 DEF Queued
        <5>2. inj.consumed = {"down", "key"}
          BY <3>2, <5>1 DEF FirstRoles, RoleAt
        <5>3. {RoleAt[k + p] : p \in 1..n} = {}
          BY <4>6, <5>1
        <5> QED
          BY <4>6, <5>2, <5>3 DEF Outstanding, Roles
      <4> QED
        BY <4>1, <4>2, <4>3, <4>4, <4>5, <4>6
    <3> DEFINE seen(e) == [id |-> e.id, event |-> e.event]
               owed(r) == [id |-> inj.ids[r], event |-> EventOf(r, inj.scan)]
    <3>7. \A p \in 1..n : seen(fifo[p]) = owed(RoleAt[k + p])
      BY <3>2, <3>5
    <3>8. ToSet(fifo) = {fifo[p] : p \in 1..n}
      BY <3>4 DEF ToSet
    <3> HIDE DEF seen, owed
    <3>9. {seen(e) : e \in ToSet(fifo)} = {owed(r) : r \in Outstanding}
      <4>1. {seen(e) : e \in ToSet(fifo)} = {seen(fifo[p]) : p \in 1..n}
        BY <3>8
      <4>2. {owed(r) : r \in Outstanding} = {owed(RoleAt[k + p]) : p \in 1..n}
        BY <3>6
      <4>3. {seen(fifo[p]) : p \in 1..n} = {owed(RoleAt[k + p]) : p \in 1..n}
        BY <3>7
      <4> QED
        BY <4>1, <4>2, <4>3
    <3> QED
      BY <2>3, <3>9 DEF LedgerIsTheKeyInFlight, seen, owed, fifo
  <2> QED
    BY <2>2, <2>3
<1> QED
  BY <1>1, SyncedInvariant, PTL

\* A key that may have been seen to go down is never left down by a stall or
\* by the next key (sync_injector.py:302-325, 385-410).
THEOREM NoStuckKeyHolds == SyncSpec => []NoStuckKey
<1>1. InStep => NoStuckKey
  BY DEF InStep, Sequenced, NoStuckKey
<1> QED
  BY <1>1, SyncedInvariant, PTL

\* max_keys bounds the real events ever queued (sync_injector.py:344-352, 451-452).
THEOREM AtMostMaxKeysHolds == SyncSpec => []AtMostMaxKeys
<1>1. InStep => AtMostMaxKeys
  <2> SUFFICES ASSUME InStep PROVE AtMostMaxKeys
    OBVIOUS
  <2> DEFINE sent == Len(NavKeys) - Len(inj.nav) + inj.idx
             next == reg.nextEvent
             held == IF inj.released THEN 0 ELSE 1
  <2>1. next - 1 + held = 3 * sent /\ inj.idx <= MaxKeys
    BY DEF InStep, Joined, IdsCounted, Sequenced
  <2>2. /\ next \in Nat /\ Len(inj.nav) \in Nat /\ inj.idx \in Nat
        /\ Len(NavKeys) \in Nat /\ MaxKeys \in Nat
    <3>1. inj \in Injector /\ next \in Nat
      BY DEF InStep, Mirrored, Promised, Registry
    <3> QED
      BY <3>1, FieldTypes, Measures
  <2>3. sent \in Int /\ sent <= Len(NavKeys) + MaxKeys
    BY <2>1, <2>2
  <2>4. held \in Nat
    OBVIOUS
  <2> HIDE DEF sent, next, held
  <2>5. next - 1 <= 3 * (Len(NavKeys) + MaxKeys)
    BY <2>1, <2>2, <2>3, <2>4
  <2> QED
    BY <2>5 DEF AtMostMaxKeys, next
<1> QED
  BY <1>1, SyncedInvariant, PTL

\* Every key but the first is sent while a request of the game waits, although
\* after a navigation key the check is one refill old (sync_injector.py:280-289,
\* 327-342).
THEOREM KeysMeetARequestHolds == SyncSpec => KeysMeetARequest
<1> DEFINE newKey == inj'.ids # inj.ids
           met == newKey /\ inj.ids["down"] # 0 => SomePending
<1>1. InStep /\ [SyncNext]_syncVars => [met]_syncVars
  <2>1. StepAllowed => met
    BY DEF StepAllowed, Permitted, AnyPending, SomePending
  <2> QED
    BY <2>1, SyncedStep
<1> QED
  BY <1>1, SyncedInvariant, PTL DEF SyncSpec, KeysMeetARequest

\* The keys go out in the order of the sequence, each into an empty ledger, and
\* the first of phase 2 in module 28 with a request waiting
\* (sync_injector.py:291-300, 344-375).
THEOREM PhaseBoundaryHoldsAlways == SyncSpec => PhaseBoundaryHolds
<1> DEFINE crossed ==
             inj'.idx # inj.idx =>
               /\ inj'.idx = inj.idx + 1 /\ inj'.scan = Keys[inj'.idx]
               /\ reg.eventFifo = <<>>
               /\ inj'.idx = Len(Phase1Keys) + 1 => module = "module28" /\ SomePending
<1>1. InStep /\ [SyncNext]_syncVars => [crossed]_syncVars
  <2>1. StepAllowed => crossed
    BY DEF StepAllowed, Permitted, AnyPending, SomePending
  <2> QED
    BY <2>1, SyncedStep
<1> QED
  BY <1>1, SyncedInvariant, PTL DEF SyncSpec, PhaseBoundaryHolds

\* After a stall nothing real is queued any more (sync_injector.py:24-26).
THEOREM StallIsFinalHolds == SyncSpec => StallIsFinal
<1>1. InStep /\ [SyncNext]_syncVars
        => [inj.stalled => reg'.nextEvent = reg.nextEvent]_syncVars
  BY SyncedStep DEF StepAllowed
<1> QED
  BY <1>1, SyncedInvariant, PTL DEF SyncSpec, StallIsFinal

=============================================================================
