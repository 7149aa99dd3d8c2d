---------------------------- MODULE HarnessProofs ----------------------------
(***************************************************************************)
(* What the harness does around every instruction of the game, for every   *)
(* period, limit, schedule, script and set of disabled patches: the        *)
(* windows of the WaitTracer, the patches, the key script, the read-       *)
(* watches and the snapshots.                                              *)
(***************************************************************************)
EXTENDS Harness, EventsProofs

-----------------------------------------------------------------------------
(* The windows of the WaitTracer.                                          *)

Results == {"unset", "found", "none"}

Window == [site : {"waitA", "waitB"}, woken : {"none", "event"},
           genuine : BOOLEAN, returned : BOOLEAN, captured : Nat,
           call : BOOLEAN, thunk : BOOLEAN, result : Results,
           reentered : BOOLEAN, exited : BOOLEAN, truncated : BOOLEAN]

Truth == [call : BOOLEAN, thunk : BOOLEAN, result : Results, exited : BOOLEAN]

\* Where the pump is while a window is open: after the first wait it leaves
\* at once, after the second the slots are scanned once.
FirstWaitPath == {"afterA", "exit"}
BeforeResult == {"afterB", "call", "scan", "slot1", "slot2", "slot3", "runl",
                 "event", "found", "none"}
AfterResult == {"final", "top", "ownFlag", "flags", "waitA", "waitB", "exit"}

\* An open window says what happened since the wait returned.
OpenAt(a, w, h) ==
  /\ w \in Window /\ h \in Truth
  /\ w.returned /\ ~w.reentered /\ ~w.exited /\ ~w.truncated /\ ~h.exited
  /\ (w.call <=> h.call) /\ (w.thunk <=> h.thunk) /\ w.result = h.result
  /\ a \notin {"afterA", "afterB"} => w.captured > 0
  /\ IF w.site = "waitA" THEN a \in FirstWaitPath /\ ~w.call /\ ~w.thunk
     ELSE \/ a \in BeforeResult /\ w.result = "unset"
          \/ a \in AfterResult

ClosedWell(c) ==
  LET r == c.rec
      w == c.was
  IN  /\ r.reentered \/ r.exited \/ r.truncated
      /\ ~(r.reentered /\ r.exited) /\ ~(r.truncated /\ (r.reentered \/ r.exited))
      /\ r.exited = (w.exited /\ ~r.truncated)
      /\ r.call => w.call
      /\ r.thunk => w.thunk
      /\ r.result \in {"unset", w.result}
      /\ ~r.truncated => r.call = w.call /\ r.thunk = w.thunk /\ r.result = w.result
      /\ r.site = "waitA" => ~r.call /\ ~r.thunk

PumpInv ==
  /\ ~lost
  /\ tracer = NoRecord \/ OpenAt(at, tracer, truth)
  /\ closed = NoRecord \/ ClosedWell(closed)

\* The steps of the pump, reduced to where they lead.
Onward(a, b) ==
  \/ a = "caller" /\ b = "gate"
  \/ a = "gate" /\ b \in {"exit", "top"}
  \/ a = "top" /\ b \in {"ownFlag", "flags"}
  \/ a = "ownFlag" /\ b \in {"waitA", "exit"}
  \/ a = "afterA" /\ b = "exit"
  \/ a = "flags" /\ b = "waitB"
  \/ a = "afterB" /\ b = "call"
  \/ a = "call" /\ b = "scan"
  \/ a = "scan" /\ b \in {"none", "slot1"}
  \/ a = "slot1" /\ b \in {"slot2", "runl"}
  \/ a = "runl" /\ b = "found"
  \/ a = "slot2" /\ b \in {"event", "slot3"}
  \/ a = "slot3" /\ b \in {"runl", "none"}
  \/ a = "event" /\ b = "found"
  \/ a = "final" /\ b \in {"exit", "top"}
  \/ a = "exit" /\ b = "caller"

\* A plain instruction, one that decides the result, or a wait.
Traced(a, b) ==
  \/ Onward(a, b) /\ Trace(a, "-")
  \/ a = "found" /\ b = "top" /\ Trace(a, "found")
  \/ a = "none" /\ b = "final" /\ Trace(a, "none")
  \/ a = "waitA" /\ b = "afterA" /\ Trace(a, "-")
  \/ a = "waitB" /\ b = "afterB" /\ Trace(a, "-")

\* Every step of the pump is one of these.
LEMMA GameStepTraced ==
  ASSUME GameStep
  PROVE  Traced(at, at')
<1>1. CASE Enter \/ EntryGate \/ LoopTop \/ OwnFlag \/ AfterA \/ Flags
  BY <1>1 DEF Enter, EntryGate, LoopTop, OwnFlag, AfterA, Flags, Go, Traced, Onward
<1>2. CASE WaitA \/ WaitB
  BY <1>2 DEF WaitA, WaitB, Wait, Go, Traced
<1>3. CASE Dispatch \/ ScanSlots \/ RunL \/ Slot2 \/ Slot3 \/ EventSlot
  BY <1>3 DEF Dispatch, ScanSlots, RunL, Slot2, Slot3, EventSlot, Go, Traced, Onward
<1>4. CASE Slot1
  BY <1>4 DEF Slot1, Go, Traced, Onward
<1>5. CASE SlotFound \/ NoneFound
  BY <1>5 DEF SlotFound, NoneFound, Go, Traced
<1>6. CASE Final
  BY <1>6 DEF Final, Traced, Onward
<1>7. CASE Exit
  BY <1>7 DEF Exit, Go, Traced, Onward
<1> QED
  BY <1>1, <1>2, <1>3, <1>4, <1>5, <1>6, <1>7 DEF GameStep, Inside

\* The result is in the register where the scanner has decided.
Decided(a, r0) == (a = "found" => r0 = "found") /\ (a = "none" => r0 = "none")

\* An instruction that closes the window closes it well; any other is captured.
LEMMA ClosingWindow ==
  ASSUME NEW a, NEW r0, NEW w, NEW h, OpenAt(a, w, h), Decided(a, r0), w # NoRecord
  PROVE  LET o == Observed(w, a, r0) IN
         IF o.over THEN ClosedWell([rec |-> o.rec, was |-> Happened(h, a, r0)])
         ELSE /\ o.rec = Captured(w, a, r0)
              /\ a # "exit" /\ a \notin {"waitA", "waitB"}
<1> DEFINE o == Observed(w, a, r0)
           now == Happened(h, a, r0)
<1>1. w \in Window /\ h \in Truth
  BY DEF OpenAt
<1>2. /\ now.call = (h.call \/ a = "call") /\ now.thunk = (h.thunk \/ a = "event")
      /\ now.exited = (h.exited \/ a = "exit")
      /\ now.result = IF a \in {"found", "none"} /\ h.result = "unset" THEN r0 ELSE h.result
  BY DEF Happened
<1>3. CASE a \in {"waitA", "waitB"}
  <2>1. w.captured > 0
    BY <1>3 DEF OpenAt
  <2>2. o = [rec |-> [w EXCEPT !.reentered = TRUE], over |-> TRUE]
    BY <1>3, <2>1 DEF Observed, OpenAt
  <2>3. ClosedWell([rec |-> [w EXCEPT !.reentered = TRUE], was |-> now])
    BY <1>1, <1>2, <1>3 DEF ClosedWell, OpenAt, Window, Truth
  <2> QED
    BY <2>2, <2>3
<1>4. CASE a \notin {"waitA", "waitB"} /\ w.captured >= CaptureLimit
  <2>1. o = [rec |-> [w EXCEPT !.truncated = TRUE], over |-> TRUE]
    BY <1>4 DEF Observed, OpenAt
  <2>2. ClosedWell([rec |-> [w EXCEPT !.truncated = TRUE], was |-> now])
    BY <1>1, <1>2, <1>4 DEF ClosedWell, OpenAt, Window, Truth
  <2> QED
    BY <2>1, <2>2
<1>5. CASE a \notin {"waitA", "waitB"} /\ ~(w.captured >= CaptureLimit)
  <2>1. o = [rec |-> Captured(w, a, r0), over |-> a = "exit"]
    BY <1>5 DEF Observed, OpenAt
  <2>2. ASSUME a = "exit"
        PROVE  ClosedWell([rec |-> Captured(w, a, r0), was |-> now])
    BY <1>1, <1>2, <2>2 DEF ClosedWell, OpenAt, Window, Truth, Captured
  <2>3. o.over = (a = "exit") /\ o.rec = Captured(w, a, r0)
    BY <2>1
  <2> HIDE DEF o, now
  <2> QED
    BY <1>5, <2>2, <2>3 DEF o, now
<1> QED
  BY <1>3, <1>4, <1>5

\* A captured instruction leaves the window open and faithful.
LEMMA CapturedWindow ==
  ASSUME NEW a, NEW b, NEW r0, NEW w, NEW h, OpenAt(a, w, h), Decided(a, r0),
         a \notin {"waitA", "waitB", "exit"},
         \/ Onward(a, b)
         \/ a = "found" /\ b = "top"
         \/ a = "none" /\ b = "final"
  PROVE  OpenAt(b, Captured(w, a, r0), Happened(h, a, r0))
<1> DEFINE v == Captured(w, a, r0)
           now == Happened(h, a, r0)
<1>1. w \in Window /\ h \in Truth
  BY DEF OpenAt
<1>2. a \in FirstWaitPath \cup BeforeResult \cup AfterResult
  BY DEF OpenAt
<1>3. a \in {"found", "none"} => w.result = "unset" /\ w.site = "waitB"
  BY DEF OpenAt, FirstWaitPath, BeforeResult, AfterResult, Window
<1>4. v \in Window /\ now \in Truth
  <2>1. a \in {"found", "none"} => r0 \in Results
    BY DEF Decided, Results
  <2>2. v \in Window
    <3> DEFINE n == w.captured + 1
               call == w.call \/ a = "call"
               thunk == w.thunk \/ a = "event"
               result == IF a \in {"found", "none"} THEN r0 ELSE w.result
               exited == a = "exit"
    <3>1. /\ n \in Nat /\ call \in BOOLEAN /\ thunk \in BOOLEAN
          /\ result \in Results /\ exited \in BOOLEAN
      BY <1>1, <2>1 DEF Window
    <3>2. v = [w EXCEPT !.captured = n, !.call = call, !.thunk = thunk,
                        !.result = result, !.exited = exited]
      BY DEF Captured
    <3> HIDE DEF v, n, call, thunk, result, exited
    <3> QED
      BY <1>1, <3>1, <3>2, ZenonT(30) DEF Window
  <2>3. now \in Truth
    BY <1>1, <2>1 DEF Truth, Happened
  <2> QED
    BY <2>2, <2>3
<1>5. /\ v.site = w.site /\ v.returned = w.returned /\ v.reentered = w.reentered
      /\ v.truncated = w.truncated /\ v.captured = w.captured + 1
      /\ v.exited = (a = "exit")
      /\ v.call = (w.call \/ a = "call") /\ v.thunk = (w.thunk \/ a = "event")
      /\ v.result = IF a \in {"found", "none"} THEN r0 ELSE w.result
  BY <1>1 DEF Captured, Window
<1>6. /\ now.call = (h.call \/ a = "call") /\ now.thunk = (h.thunk \/ a = "event")
      /\ now.exited = (h.exited \/ a = "exit")
      /\ now.result = IF a \in {"found", "none"} /\ h.result = "unset" THEN r0 ELSE h.result
  BY DEF Happened
<1> HIDE DEF v, now
<1>7. v.captured > 0
  BY <1>1, <1>5 DEF Window
<1>8. IF v.site = "waitA" THEN b \in FirstWaitPath /\ ~v.call /\ ~v.thunk
      ELSE \/ b \in BeforeResult /\ v.result = "unset"
           \/ b \in AfterResult
  BY <1>2, <1>3, <1>5 DEF OpenAt, Onward, FirstWaitPath, BeforeResult, AfterResult
<1>9. /\ v.returned /\ ~v.reentered /\ ~v.exited /\ ~v.truncated /\ ~now.exited
      /\ (v.call <=> now.call) /\ (v.thunk <=> now.thunk) /\ v.result = now.result
  BY <1>3, <1>5, <1>6 DEF OpenAt
<1> QED
  BY <1>4, <1>7, <1>8, <1>9 DEF OpenAt, v, now

\* A wait opens a window in which nothing has happened yet.
LEMMA OpenedWindow ==
  ASSUME NEW a \in {"waitA", "waitB"}, NEW b, NEW genuine \in BOOLEAN,
         NEW woken \in {"none", "event"},
         a = "waitA" => b = "afterA", a = "waitB" => b = "afterB"
  PROVE  OpenAt(b, WaitReturn(WaitEnter(a), genuine, woken), Nothing)
BY DEF OpenAt, WaitReturn, WaitEnter, Nothing, Window, Truth, Results,
       FirstWaitPath, BeforeResult

\* An open window is a record.
LEMMA WindowIsRecord ==
  ASSUME NEW a, NEW w, NEW h, OpenAt(a, w, h)
  PROVE  w # NoRecord
<1>1. w.site \in {"waitA", "waitB"}
  BY DEF OpenAt, Window
<1>2. NoRecord.site = "none"
  BY DEF NoRecord
<1> QED
  BY <1>1, <1>2

\* Every instruction of the pump keeps the invariant.
LEMMA PumpStep ==
  ASSUME PumpInv, Traced(at, at')
  PROVE  PumpInv'
<1>1. PICK r0 : Trace(at, r0) /\ Decided(at, r0)
  BY DEF Traced, Onward, Decided
<1> DEFINE o == Observed(tracer, at, r0)
           now == Happened(truth, at, r0)
<1>2. o.over => tracer # NoRecord
  BY DEF Observed
<1>3. CASE tracer = NoRecord
  <2>1. o = [rec |-> NoRecord, over |-> FALSE]
    BY <1>3 DEF Observed
  <2>2. closed' = closed
    BY <1>1, <2>1 DEF Trace
  <2>3. CASE at \in {"waitA", "waitB"}
    <3>1. PICK genuine \in BOOLEAN, woken \in {"none", "event"} :
             tracer' = WaitReturn(WaitEnter(at), genuine, woken)
      BY <1>1, <2>3 DEF Trace
    <3>2. truth' = Nothing /\ lost' = (lost \/ (~o.over /\ o.rec # NoRecord))
      BY <1>1, <2>3 DEF Trace
    <3>3. OpenAt(at', tracer', truth')
      BY <2>3, <3>1, <3>2, OpenedWindow DEF Traced, Onward
    <3>4. o.rec = NoRecord
      BY <2>1
    <3> HIDE DEF o
    <3>5. ~lost'
      BY <3>2, <3>4 DEF PumpInv
    <3> QED
      BY <2>2, <3>3, <3>5 DEF PumpInv
  <2>4. CASE at \notin {"waitA", "waitB"}
    <3>1. tracer' = NoRecord /\ lost' = lost
      BY <1>1, <2>1, <2>4 DEF Trace
    <3> QED
      BY <2>2, <3>1 DEF PumpInv
  <2> QED
    BY <2>3, <2>4
<1>4. CASE OpenAt(at, tracer, truth)
  <2>1. tracer # NoRecord
    BY <1>4, WindowIsRecord
  <2>2. IF o.over THEN ClosedWell([rec |-> o.rec, was |-> now])
        ELSE /\ o.rec = Captured(tracer, at, r0)
             /\ at # "exit" /\ at \notin {"waitA", "waitB"}
    BY <1>1, <1>4, <2>1, ClosingWindow
  <2>3. closed' = IF o.over THEN [rec |-> o.rec, was |-> now] ELSE closed
    BY <1>1 DEF Trace
  <2>4. closed' = NoRecord \/ ClosedWell(closed')
    BY <2>2, <2>3 DEF PumpInv
  <2>5. CASE at \in {"waitA", "waitB"}
    <3>1. PICK genuine \in BOOLEAN, woken \in {"none", "event"} :
             tracer' = WaitReturn(WaitEnter(at), genuine, woken)
      BY <1>1, <2>5 DEF Trace
    <3>2. truth' = Nothing /\ lost' = (lost \/ (~o.over /\ o.rec # NoRecord))
      BY <1>1, <2>5 DEF Trace
    <3>3. OpenAt(at', tracer', truth')
      BY <2>5, <3>1, <3>2, OpenedWindow DEF Traced, Onward
    <3> QED
      BY <2>2, <2>4, <2>5, <3>2, <3>3 DEF PumpInv
  <2>6. CASE at \notin {"waitA", "waitB"}
    <3>1. /\ tracer' = IF o.over THEN NoRecord ELSE o.rec
          /\ truth' = now /\ lost' = lost
      BY <1>1, <2>6 DEF Trace
    <3>2. ASSUME ~o.over PROVE OpenAt(at', o.rec, now)
      <4>1. \/ Onward(at, at')
            \/ at = "found" /\ at' = "top"
            \/ at = "none" /\ at' = "final"
        BY <2>6 DEF Traced
      <4> QED
        BY <1>1, <1>4, <2>2, <3>2, <4>1, CapturedWindow
    <3> QED
      BY <2>4, <3>1, <3>2 DEF PumpInv
  <2> QED
    BY <2>5, <2>6
<1> QED
  BY <1>3, <1>4 DEF PumpInv

-----------------------------------------------------------------------------
(* The patches and the dispatch of calls.                                  *)

Forces == [by : {"none", "module4", "sweep"}, from : Int, to : Int, target : Int,
           skips : {0, 1}]

\* Module 4 counts to 3; its switch and the update of module 19 exclude each
\* other; the loop of module 4 was skipped only if the patch says so.
GamePlaced ==
  /\ game \in [module : {4, 5, 19}, sub : Int]
  /\ done4 \in BOOLEAN /\ steps \in Nat /\ reached \in Int
  /\ forced \in Forces
  /\ game.module = 4 => game.sub <= 3
  /\ place = "switch4" => game.module = 4
  /\ place = "update19" => game.module # 4
  /\ ~done4 => forced.skips = 0
  /\ ForcedForward

\* Calls that lead nowhere are possible only without the patches against them.
CallsAnswered ==
  /\ place = "trap" => "fake_vtable_trap" \notin off
  /\ place = "offpage" => "null_pc_trap" \in off
  /\ NullCallsReturn /\ ImportsAreAnsweredOnce

\* The instruction at the limit ends the run, unless it is a call; then the
\* next one does, for it is none.
InTime ==
  /\ steps \in Nat
  /\ stopped = "no" => steps < MaxInsn \/ (place = "plain" /\ steps <= MaxInsn)
  /\ StopsInTime

RunInv == GamePlaced /\ CallsAnswered /\ InTime

\* A patch is found only where it intervenes.
LEMMA PatchesHere ==
  /\ \A p \in At(place) : p \in PatchNames /\ p \notin off /\ PlaceOf[p] = place
  /\ place = "null" /\ "null_pc_trap" \notin off => "null_pc_trap" \in At(place)
  /\ place = "trap" /\ "fake_vtable_trap" \notin off => "fake_vtable_trap" \in At(place)
  /\ place = "hal33" /\ "hal33_force_success" \notin off => "hal33_force_success" \in At(place)
BY DEF At, PatchNames, PlaceOf

\* Which calls a patch returns from.
LEMMA ReturnsHere ==
  ASSUME NEW table, NEW out
  PROVE  /\ PatchReturns(table, out) =>
              place \in {"null", "trap", "hal33", "close", "anim"}
         /\ place = "null" /\ "null_pc_trap" \notin off => PatchReturns(table, out)
         /\ place = "trap" /\ "fake_vtable_trap" \notin off => PatchReturns(table, out)
         /\ place = "hal33" =>
              (PatchReturns(table, out) <=> "hal33_force_success" \notin off)
<1>1. /\ PlaceOf["null_pc_trap"] = "null" /\ PlaceOf["fake_vtable_trap"] = "trap"
      /\ PlaceOf["hal33_force_success"] = "hal33" /\ PlaceOf["skip_close_handler"] = "close"
      /\ PlaceOf["animframe_bypass"] = "anim"
  BY DEF PlaceOf
<1>2. PatchReturns(table, out) =>
        \/ place \in {"null", "trap", "close", "anim"}
        \/ place = "hal33" /\ "hal33_force_success" \notin off
  BY <1>1, PatchesHere DEF PatchReturns
<1>3. /\ place = "null" /\ "null_pc_trap" \notin off => PatchReturns(table, out)
      /\ place = "trap" /\ "fake_vtable_trap" \notin off => PatchReturns(table, out)
      /\ place = "hal33" /\ "hal33_force_success" \notin off => PatchReturns(table, out)
  BY PatchesHere DEF PatchReturns
<1> QED
  BY <1>2, <1>3

\* The schedule of the sweep is a number.
LEMMA TargetType ==
  ASSUME steps \in Nat, NEW start \in Int
  PROVE  SweepTarget(start) \in Int
<1> DEFINE due == (steps + 1 - start) \div Dwell
<1>1. due \in Int /\ MaxState \in Int
  BY RunAssumption
<1> HIDE DEF due
<1>2. \E x \in {due, MaxState} : \A y \in {due, MaxState} : x <= y
  <2>1. CASE due <= MaxState
    BY <1>1, <2>1
  <2>2. CASE MaxState <= due
    BY <1>1, <2>2
  <2> QED
    BY <1>1, <2>1, <2>2
<1>3. Min({due, MaxState}) \in {due, MaxState}
  BY <1>2 DEF Min
<1>4. SweepTarget(start) = Min({due, MaxState})
  BY DEF SweepTarget, due
<1> QED
  BY <1>1, <1>3, <1>4

\* What the patches do to the sub-state keeps it where the game may be.
LEMMA ForceKeeps ==
  ASSUME GamePlaced, ForceSubstate
  PROVE  /\ game' \in [module : {4, 5, 19}, sub : Int]
         /\ game'.module = game.module
         /\ done4' \in BOOLEAN /\ reached' \in Int /\ forced' \in Forces
         /\ game'.module = 4 => game'.sub <= 3
         /\ ~done4' => forced'.skips = 0
         /\ ForcedForward'
<1>1. CASE UNCHANGED <<game, done4, reached, forced>>
  BY <1>1 DEF GamePlaced, ForcedForward
<1>2. CASE At(place) = {"module4_fastforward"} /\ FastForward /\ ~done4
  <2>1. place = "switch4"
    BY <1>2, PatchesHere DEF PlaceOf
  <2>2. game.module = 4 /\ game.sub <= 3 /\ game.sub \in Int /\ forced.skips = 0
    BY <1>2, <2>1 DEF GamePlaced
  <2>3. /\ done4' = TRUE /\ reached' = reached
        /\ game' = [game EXCEPT !.sub = 3]
        /\ forced' = [by |-> "module4", from |-> game.sub, to |-> 3, target |-> 3, skips |-> 1]
    BY <1>2, <2>2 DEF FastForward
  <2> QED
    BY <2>2, <2>3 DEF GamePlaced, ForcedForward, Forces
<1>3. CASE At(place) = {"module19_sweep"} /\ Sweep /\ ~UNCHANGED <<game, done4, reached, forced>>
  <2>1. place = "update19"
    BY <1>3, PatchesHere DEF PlaceOf
  <2> DEFINE start == IF reached = -1 THEN steps + 1 ELSE reached
             target == SweepTarget(start)
  <2>2. start \in Int /\ target \in Int
    <3>1. start \in Int
      BY DEF GamePlaced
    <3> QED
      BY <3>1, TargetType DEF GamePlaced
  <2>3. /\ reached' = start /\ done4' = done4
        /\ IF target > game.sub
           THEN /\ game' = [game EXCEPT !.sub = target]
                /\ forced' = [forced EXCEPT !.by = "sweep", !.from = game.sub,
                                            !.to = target, !.target = target]
           ELSE game' = game /\ forced' = forced
    BY <1>3 DEF Sweep
  <2> HIDE DEF start, target
  <2>4. CASE target > game.sub
    <3>1. /\ game \in [module : {4, 5, 19}, sub : Int] /\ game.module # 4
          /\ forced \in Forces /\ forced.skips <= 1 /\ done4 \in BOOLEAN
          /\ ~done4 => forced.skips = 0
      BY <2>1 DEF GamePlaced, ForcedForward
    <3>2. game' \in [module : {4, 5, 19}, sub : Int] /\ game'.module = game.module
      BY <2>2, <2>3, <2>4, <3>1
    <3>3. /\ forced'.skips = forced.skips /\ forced'.from = game.sub
          /\ forced'.to = target /\ forced'.target = target
      BY <2>3, <2>4, <3>1 DEF Forces
    <3>4. forced' \in Forces
      BY <2>2, <2>3, <2>4, <3>1 DEF Forces
    <3>5. ForcedForward'
      BY <2>2, <2>4, <3>1, <3>3 DEF ForcedForward
    <3> QED
      BY <2>2, <2>3, <3>1, <3>2, <3>3, <3>4, <3>5
  <2>5. CASE ~(target > game.sub)
    BY <2>2, <2>3, <2>5 DEF GamePlaced, ForcedForward
  <2> QED
    BY <2>4, <2>5
<1> QED
  BY <1>1, <1>2, <1>3 DEF ForceSubstate, FastForward

\* An instruction of the game, a call or a step by itself.
LEMMA RunStep ==
  ASSUME RunInv, RunNext
  PROVE  RunInv'
<1>1. /\ GamePlaced /\ CallsAnswered /\ InTime /\ steps \in Nat
      /\ MaxInsn \in Nat /\ SubStates \subseteq Nat
  BY RunAssumption DEF RunInv, GamePlaced
<1>2. CASE GameMoves
  <2>1. /\ UNCHANGED <<off, place, done4, reached, steps, last, stopped, forced>>
        /\ place = "plain"
    BY <1>2 DEF GameMoves
  <2>2. PICK m \in {4, 5, 19}, s \in SubStates :
          /\ m = 4 => s <= 3
          /\ game' = [module |-> m, sub |-> s]
    BY <1>2 DEF GameMoves
  <2>3. GamePlaced'
    BY <1>1, <2>1, <2>2 DEF GamePlaced, ForcedForward
  <2>4. CallsAnswered'
    BY <1>1, <2>1 DEF CallsAnswered, NullCallsReturn, ImportsAreAnsweredOnce
  <2>5. InTime'
    BY <1>1, <2>1 DEF InTime, StopsInTime
  <2> QED
    BY <2>3, <2>4, <2>5 DEF RunInv
<1>3. CASE Instruction /\ FetchFault
  <2>1. /\ UNCHANGED <<off, place, game, done4, reached, steps, forced>>
        /\ stopped' = "bad fetch" /\ last' = Here("fault", "kept", "none")
        /\ place = "offpage" \/ (place = "null" /\ ~NullPageMapped)
    BY <1>3 DEF FetchFault, Instruction
  <2>2. GamePlaced'
    BY <1>1, <2>1 DEF GamePlaced, ForcedForward
  <2>3. {"nullguard_page", "null_pc_trap"} \cap off # {}
    BY <1>1, <2>1 DEF CallsAnswered, NullPageMapped
  <2>4. last'.at \in {"offpage", "null"}
    BY <2>1 DEF Here
  <2>5. CallsAnswered'
    BY <1>1, <2>1, <2>3, <2>4
    DEF CallsAnswered, NullCallsReturn, ImportsAreAnsweredOnce, Imports
  <2>6. InTime'
    BY <1>1, <2>1 DEF InTime, StopsInTime
  <2> QED
    BY <2>2, <2>5, <2>6 DEF RunInv
<1>4. CASE Instruction /\ ~FetchFault
  <2>1. /\ stopped = "no" /\ off' = off /\ steps' = steps + 1
        /\ place # "offpage" /\ (place = "null" => NullPageMapped)
    BY <1>4 DEF Instruction
  <2>2. PICK table, out, holder :
          \/ Label35(holder) \/ Patched(table, out) \/ Import(table, out)
          \/ Sentinel \/ Plain(table, out, holder)
    BY <1>4 DEF Instruction
  <2>3. last'.at = place
    BY <2>2 DEF Label35, Patched, Import, Sentinel, Plain, Here
  <2>4. \/ ForceSubstate
        \/ UNCHANGED <<game, done4, reached, forced>>
    BY <2>2 DEF Label35, Patched, Import, Sentinel, Plain
  <2>5. /\ game' \in [module : {4, 5, 19}, sub : Int]
        /\ game'.module = game.module
        /\ done4' \in BOOLEAN /\ reached' \in Int /\ forced' \in Forces
        /\ game'.module = 4 => game'.sub <= 3
        /\ ~done4' => forced'.skips = 0
        /\ ForcedForward'
    <3>1. CASE ForceSubstate
      BY <1>1, <3>1, ForceKeeps
    <3>2. CASE UNCHANGED <<game, done4, reached, forced>>
      BY <1>1, <3>2 DEF GamePlaced, ForcedForward
    <3> QED
      BY <2>4, <3>1, <3>2
  <2>6. /\ place' = "switch4" => game.module = 4
        /\ place' = "update19" => game.module # 4
        /\ place' = "trap" => "fake_vtable_trap" \notin off
        /\ place' = "offpage" => "null_pc_trap" \in off
    <3>1. CASE Sentinel
      BY <1>1, <3>1 DEF Sentinel, GamePlaced, CallsAnswered
    <3>2. CASE Plain(table, out, holder)
      <4>1. place' \in NextPlaces /\ ~PatchReturns(table, out)
        BY <3>2 DEF Plain
      <4>2. "offpage" \in NextPlaces => place = "null"
        BY DEF NextPlaces, Places, Imports
      <4>3. "trap" \in NextPlaces => "fake_vtable_trap" \notin off
        BY DEF NextPlaces, Places, Imports
      <4>4. /\ "switch4" \in NextPlaces => game.module = 4
            /\ "update19" \in NextPlaces => game.module # 4
        BY DEF NextPlaces
      <4> QED
        BY <4>1, <4>2, <4>3, <4>4, ReturnsHere
    <3>3. CASE Label35(holder) \/ Patched(table, out) \/ Import(table, out)
      BY <3>3 DEF Label35, Patched, Import, ToCaller
    <3> QED
      BY <2>2, <3>1, <3>2, <3>3
  <2>7. GamePlaced'
    BY <1>1, <2>1, <2>5, <2>6 DEF GamePlaced
  <2>8. CallsAnswered'
    <3>1. stopped' # "bad fetch"
      BY <2>1, <2>2 DEF Label35, Patched, Import, Sentinel, Plain, ToCaller, BadAccesses
    <3>2. ASSUME "null_pc_trap" \notin off, place \in {"null", "trap"}
          PROVE  last'.to = "caller" /\ last'.r0 = "0"
      <4>1. PatchReturns(table, out) /\ At(place) # {}
        BY <1>1, <3>2, ReturnsHere, PatchesHere DEF CallsAnswered
      <4>2. Patched(table, out)
        BY <2>2, <3>2, <4>1 DEF Label35, Import, Sentinel, Plain, Imports
      <4>3. PatchedR0 = "0"
        BY <3>2, <4>1 DEF PatchedR0
      <4> QED
        BY <4>2, <4>3 DEF Patched, Here
    <3>3. ASSUME place \in Imports
          PROVE  /\ last'.to = "caller"
                 /\ (last'.ran = "none") = (place = "hal33" /\ "hal33_force_success" \notin off)
      <4>1. CASE Patched(table, out)
        <5>1. place = "hal33" /\ "hal33_force_success" \notin off
          BY <3>3, <4>1, ReturnsHere DEF Patched, Imports
        <5> QED
          BY <4>1, <5>1 DEF Patched, Here
      <4>2. CASE Import(table, out)
        <5>1. ~(place = "hal33" /\ "hal33_force_success" \notin off)
          BY <4>2, ReturnsHere DEF Import
        <5>2. last'.to = "caller" /\ last'.ran \in {"handler", "stub"}
          BY <4>2 DEF Import, Here
        <5> QED
          BY <5>1, <5>2
      <4> QED
        BY <2>2, <3>3, <4>1, <4>2 DEF Label35, Sentinel, Plain, Imports
    <3>4. NullCallsReturn'
      BY <2>1, <2>3, <3>1, <3>2 DEF NullCallsReturn
    <3>5. ImportsAreAnsweredOnce'
      BY <2>1, <2>3, <3>3 DEF ImportsAreAnsweredOnce
    <3> QED
      BY <2>1, <2>6, <3>4, <3>5 DEF CallsAnswered
  <2>9. InTime'
    <3>1. CASE Plain(table, out, holder)
      <4>1. steps <= MaxInsn
        BY <1>1, <2>1 DEF InTime
      <4>2. IF steps + 1 >= MaxInsn THEN stopped' = "limit" ELSE stopped' # "limit"
        BY <3>1 DEF Plain, BadAccesses
      <4>3. stopped' = "no" => steps + 1 < MaxInsn
        BY <1>1, <4>2
      <4> QED
        BY <1>1, <2>1, <4>1, <4>2, <4>3 DEF InTime, StopsInTime
    <3>2. CASE Sentinel
      <4>1. steps < MaxInsn /\ stopped' = "sentinel"
        BY <1>1, <2>1, <3>2 DEF InTime, Sentinel
      <4> QED
        BY <1>1, <2>1, <4>1 DEF InTime, StopsInTime
    <3>3. CASE Label35(holder) \/ Patched(table, out) \/ Import(table, out)
      <4>1. place' = "plain" /\ stopped' = "no"
        BY <2>1, <3>3 DEF Label35, Patched, Import, ToCaller
      <4>2. place # "plain"
        BY <3>3, ReturnsHere DEF Label35, Patched, Import, Imports
      <4>3. steps < MaxInsn
        BY <1>1, <2>1, <4>2 DEF InTime
      <4> QED
        BY <1>1, <2>1, <4>1, <4>3 DEF InTime, StopsInTime
    <3> QED
      BY <2>2, <3>1, <3>2, <3>3
  <2> QED
    BY <2>7, <2>8, <2>9 DEF RunInv
<1> QED
  BY <1>2, <1>3, <1>4 DEF RunNext

\* The run starts in module 4 with nothing forced.
LEMMA RunStart ==
  ASSUME RunInit
  PROVE  RunInv
<1>1. MaxInsn \in Nat
  BY RunAssumption
<1>2. GamePlaced
  <2>1. NoForce \in Forces /\ NoForce.by = "none" /\ NoForce.skips = 0
    BY DEF NoForce, Forces
  <2>2. /\ game \in [module : {4, 5, 19}, sub : Int] /\ game.module = 4 /\ game.sub = 0
        /\ reached \in Int /\ place = "plain"
    BY DEF RunInit
  <2>3. forced = NoForce /\ ~done4 /\ done4 \in BOOLEAN /\ steps \in Nat
    BY DEF RunInit
  <2>4. ForcedForward
    BY <2>1, <2>3 DEF ForcedForward
  <2> QED
    BY <2>1, <2>2, <2>3, <2>4 DEF GamePlaced
<1>3. CallsAnswered
  BY DEF RunInit, CallsAnswered, NullCallsReturn, ImportsAreAnsweredOnce, Imports
<1>4. InTime
  BY <1>1 DEF RunInit, InTime, StopsInTime
<1> QED
  BY <1>2, <1>3, <1>4 DEF RunInv

-----------------------------------------------------------------------------
(* The key script.                                                         *)

\* A sequence that begins with real events has the same first one, whatever
\* follows, ...
LEMMA ConcatPresses ==
  ASSUME NEW s \in Seq(Event), NEW t \in Seq(Event), Reals(s) # <<>>
  PROVE  /\ s \o t \in Seq(Event)
         /\ Reals(s \o t) # <<>>
         /\ Head(Reals(s \o t)) = Head(Reals(s))
<1> DEFINE a == Reals(s)
           b == Reals(t)
           c == Reals(s \o t)
<1>1. a \in Seq(RealEvent) /\ b \in Seq(RealEvent) /\ c = a \o b /\ a # <<>>
  BY RealsType, RealsConcat
<1>2. s \o t \in Seq(Event)
  BY ConcatProperties
<1> HIDE DEF a, b, c
<1>3. /\ c \in Seq(RealEvent) /\ Len(c) = Len(a) + Len(b)
      /\ Len(a) \in Nat /\ Len(a) # 0 /\ Len(b) \in Nat
      /\ \A k \in 1..(Len(a) + Len(b)) : c[k] = IF k <= Len(a) THEN a[k] ELSE b[k - Len(a)]
  BY <1>1, ConcatProperties, LenProperties, EmptySeq
<1>4. c[1] = a[1] /\ Len(c) # 0
  BY <1>3
<1>5. c # <<>>
  BY <1>4, EmptySeq
<1>6. Head(c) = c[1] /\ Head(a) = a[1]
  BY <1>1, <1>3, <1>5, HeadTailProperties
<1> QED
  BY <1>2, <1>4, <1>5, <1>6 DEF a, c

\* ... so a burst presses its key.
LEMMA BurstPresses ==
  ASSUME NEW s \in Scan
  PROVE  Reals(Burst(s)) # <<>> /\ Head(Reals(Burst(s))) = KeyDown(s)
<1> DEFINE b1 == <<Null, KeyDown(s)>>
           b2 == Nulls(3)
           b3 == <<Key(s)>>
           b4 == Nulls(HoldNulls)
           b5 == <<KeyUp(s)>>
           b6 == Nulls(GapNulls)
           c2 == b1 \o b2
           c3 == c2 \o b3
           c4 == c3 \o b4
           c5 == c4 \o b5
           c6 == c5 \o b6
<1>1. /\ KeyDown(s) \in Event /\ Key(s) \in Event /\ KeyUp(s) \in Event /\ Null \in Event
      /\ KeyDown(s) # Null
  BY DEF KeyDown, Key, KeyUp, RealEvent, Event, Null
<1>2. b2 \in Seq(Event) /\ b4 \in Seq(Event) /\ b6 \in Seq(Event)
  BY NullsReals, EventsAssumption
<1>3. b3 \in Seq(Event) /\ b5 \in Seq(Event)
  BY <1>1
<1>4. b1 \in Seq(Event) /\ Reals(b1) # <<>> /\ Head(Reals(b1)) = KeyDown(s)
  <2>1. b1 = Append(<<Null>>, KeyDown(s)) /\ <<Null>> \in Seq(Event)
    BY <1>1
  <2>2. Reals(<<Null>>) = <<>>
    BY <1>1, RealsOfFew
  <2>3. Reals(b1) = Append(<<>>, KeyDown(s))
    BY <1>1, <2>1, <2>2, RealsAppend
  <2> QED
    BY <1>1, <2>3
<1>5. c6 = Burst(s)
  BY DEF Burst
<1> HIDE DEF b1, b2, b3, b4, b5, b6
<1>6. c2 \in Seq(Event) /\ Reals(c2) # <<>> /\ Head(Reals(c2)) = KeyDown(s)
  BY <1>2, <1>4, ConcatPresses
<1> HIDE DEF c2
<1>7. c3 \in Seq(Event) /\ Reals(c3) # <<>> /\ Head(Reals(c3)) = KeyDown(s)
  BY <1>3, <1>6, ConcatPresses
<1> HIDE DEF c3
<1>8. c4 \in Seq(Event) /\ Reals(c4) # <<>> /\ Head(Reals(c4)) = KeyDown(s)
  BY <1>2, <1>7, ConcatPresses
<1> HIDE DEF c4
<1>9. c5 \in Seq(Event) /\ Reals(c5) # <<>> /\ Head(Reals(c5)) = KeyDown(s)
  BY <1>3, <1>8, ConcatPresses
<1> HIDE DEF c5
<1>10. Reals(c6) # <<>> /\ Head(Reals(c6)) = KeyDown(s)
  BY <1>2, <1>9, ConcatPresses
<1> QED
  BY <1>5, <1>10

Phases == {"pre", "idle_wait", "post"}
Presses == [scan : Scan, insn : Nat]

\* How much of the script was pressed, and what the phase says of it.
Scripted ==
  /\ variant \in {"scripted", "idle"} /\ count \in Nat
  /\ released \in Int /\ released <= count
  /\ rest \in Seq(Scan) /\ Len(rest) <= Len(Script)
  /\ \A i \in 1..Len(rest) : rest[i] = Script[Len(Script) - Len(rest) + i]
  /\ phase \in Phases /\ postSent \in BOOLEAN
  /\ variant = "scripted" => phase = "pre" /\ ~postSent
  /\ phase # "pre" => rest = <<>>
  /\ phase = "post" => count >= IdleUntil
  /\ postSent => phase = "post"
  /\ keys \in Seq(Presses)
  /\ Len(keys) = Len(Script) - Len(rest) + (IF postSent THEN 1 ELSE 0)
  /\ \A i \in 1..Len(keys) : keys[i].insn <= count
  /\ KeysComeFromScript

\* What one refill may do: nothing, the next key of the script, or the key
\* after the wait.
Rested ==
  /\ rest' = rest /\ postSent' = postSent /\ keys' = keys
  /\ phase' \in Phases
  /\ variant = "scripted" => phase' = "pre"
  /\ phase' # "pre" => rest = <<>>
  /\ phase' = "post" => count + 1 >= IdleUntil
  /\ postSent => phase' = "post"

PressesNext ==
  /\ released # -1 /\ rest # <<>> /\ ~postSent /\ phase = "pre"
  /\ rest' = Tail(rest) /\ postSent' = postSent /\ phase' = phase
  /\ keys' = Append(keys, [scan |-> Head(rest), insn |-> count + 1])

PressesLast ==
  /\ released # -1 /\ rest = <<>> /\ ~postSent /\ variant = "idle"
  /\ PostKey \in Scan /\ count + 1 >= IdleUntil
  /\ rest' = rest /\ postSent' = TRUE /\ phase' = "post"
  /\ keys' = Append(keys, [scan |-> PostKey, insn |-> count + 1])

\* A refill is one of the three.
LEMMA ProduceKinds ==
  ASSUME Scripted, Produce
  PROVE  Rested \/ PressesNext \/ PressesLast
<1>1. /\ rest \in Seq(Scan) /\ phase \in Phases /\ postSent \in BOOLEAN
      /\ count \in Nat /\ IdleUntil \in Nat /\ PostKey \in Scan \cup {NoKeyAfter}
      /\ variant \in {"scripted", "idle"}
  BY ResearchAssumption DEF Scripted
<1>2. Reals(<<Null>>) = <<>>
  BY RealsOfFew DEF Event
<1>3. /\ rest' = Refill.rest /\ phase' = Refill.phase /\ postSent' = Refill.postSent
      /\ keys' = IF Reals(Refill.batch) = <<>> THEN keys
                 ELSE Append(keys, [scan |-> Head(Reals(Refill.batch)).scan,
                                    insn |-> count + 1])
  BY DEF Produce
<1>4. ASSUME NEW p \in Phases, Refill = Idle(rest, p, postSent),
             variant = "scripted" => p = "pre",
             p # "pre" => rest = <<>>,
             p = "post" => count + 1 >= IdleUntil,
             postSent => p = "post"
      PROVE  Rested
  <2>1. Refill.batch = <<Null>> /\ Refill.rest = rest /\ Refill.phase = p
        /\ Refill.postSent = postSent
    BY <1>4 DEF Idle
  <2> QED
    BY <1>2, <1>3, <1>4, <2>1 DEF Rested
<1>5. ASSUME NEW s \in Scan, Refill.batch = Burst(s)
      PROVE  keys' = Append(keys, [scan |-> s, insn |-> count + 1])
  <2>1. KeyDown(s).scan = s
    BY DEF KeyDown
  <2> QED
    BY <1>3, <1>5, <2>1, BurstPresses
<1>6. ASSUME Refill = NextKey, rest # <<>>, released # -1, phase = "pre"
      PROVE  PressesNext
  <2>1. Head(rest) \in Scan
    BY <1>1, <1>6, HeadTailProperties
  <2>2. /\ Refill.batch = Burst(Head(rest)) /\ Refill.rest = Tail(rest)
        /\ Refill.phase = phase /\ Refill.postSent = postSent
    BY <1>6 DEF NextKey
  <2>3. ~postSent
    BY <1>6 DEF Scripted
  <2>4. keys' = Append(keys, [scan |-> Head(rest), insn |-> count + 1])
    BY <1>5, <2>1, <2>2
  <2> QED
    BY <1>3, <1>6, <2>2, <2>3, <2>4 DEF PressesNext
<1>7. CASE released = -1
  <2>1. Refill = Idle(rest, phase, postSent)
    BY <1>7 DEF Refill
  <2>2. phase = "post" => count + 1 >= IdleUntil
    BY <1>1 DEF Scripted
  <2> QED
    BY <1>1, <1>4, <2>1, <2>2 DEF Scripted
<1>8. CASE released # -1 /\ variant = "scripted"
  <2>1. phase = "pre" /\ ~postSent
    BY <1>8 DEF Scripted
  <2>2. CASE rest # <<>>
    <3>1. Refill = NextKey
      BY <1>8, <2>2 DEF Refill, ScriptedRefill
    <3> QED
      BY <1>6, <1>8, <2>1, <2>2, <3>1
  <2>3. CASE rest = <<>>
    <3>1. Refill = Idle(rest, phase, postSent)
      BY <1>8, <2>3 DEF Refill, ScriptedRefill
    <3> QED
      BY <1>1, <1>4, <2>1, <3>1
  <2> QED
    BY <2>2, <2>3
<1>9. CASE released # -1 /\ variant = "idle"
  <2>1. Refill = IdleRefill
    BY <1>9 DEF Refill
  <2>2. CASE phase = "pre" /\ rest # <<>>
    BY <1>6, <1>9, <2>1, <2>2 DEF IdleRefill
  <2>3. CASE ~(phase = "pre" /\ rest # <<>>)
    <3>1. rest = <<>>
      BY <2>3 DEF Scripted
    <3>2. CASE phase # "post" /\ count + 1 < IdleUntil
      <4>1. Refill = Idle(rest, "idle_wait", postSent) /\ ~postSent
        BY <2>1, <2>3, <3>2 DEF IdleRefill, Scripted
      <4> QED
        BY <1>4, <1>9, <3>1, <4>1 DEF Phases
    <3>3. CASE ~(phase # "post" /\ count + 1 < IdleUntil)
      <4>1. count + 1 >= IdleUntil
        BY <1>1, <3>3 DEF Scripted
      <4>2. CASE postSent \/ PostKey = NoKeyAfter
        <5>1. Refill = Idle(rest, "post", postSent)
          BY <2>1, <2>3, <3>3, <4>2 DEF IdleRefill
        <5> QED
          BY <1>4, <1>9, <3>1, <4>1, <5>1 DEF Phases
      <4>3. CASE ~(postSent \/ PostKey = NoKeyAfter)
        <5>1. PostKey \in Scan
          BY <1>1, <4>3
        <5>2. Refill = [batch |-> Burst(PostKey), rest |-> rest, phase |-> "post",
                        postSent |-> TRUE]
          BY <2>1, <2>3, <3>3, <4>3 DEF IdleRefill
        <5>3. keys' = Append(keys, [scan |-> PostKey, insn |-> count + 1])
          BY <1>5, <5>1, <5>2
        <5> QED
          BY <1>3, <1>9, <3>1, <4>1, <4>3, <5>1, <5>2, <5>3 DEF PressesLast
      <4> QED
        BY <4>2, <4>3
    <3> QED
      BY <3>2, <3>3
  <2> QED
    BY <2>2, <2>3
<1> QED
  BY <1>1, <1>7, <1>8, <1>9

\* What the script has pressed stays pressed as instructions pass.
LEMMA ScriptStep ==
  ASSUME Scripted, Rested \/ PressesNext \/ PressesLast,
         variant' = variant, count' = count + 1,
         \/ released' = released
         \/ released = -1 /\ released' = count + 1
  PROVE  Scripted'
<1>1. /\ variant \in {"scripted", "idle"} /\ count \in Nat
      /\ released \in Int /\ released <= count /\ PostKey \in Scan \cup {NoKeyAfter}
      /\ rest \in Seq(Scan) /\ Len(rest) \in Nat /\ Len(rest) <= Len(Script)
      /\ Script \in Seq(Scan) /\ Len(Script) \in Nat /\ IdleUntil \in Nat
      /\ phase \in Phases /\ postSent \in BOOLEAN
      /\ keys \in Seq(Presses) /\ Len(keys) \in Nat
  BY ResearchAssumption, LenProperties DEF Scripted
<1>2. count' \in Nat /\ released' \in Int /\ released' <= count'
      /\ variant' \in {"scripted", "idle"}
  BY <1>1
<1>3. \A i \in 1..Len(keys) :
        /\ released' = released /\ released # -1
        /\ keys[i].insn > released /\ keys[i].insn <= count'
        /\ keys[i].insn \in Nat /\ keys[i].insn <= count
        /\ i > 1 => keys[i].insn > keys[i - 1].insn
        /\ i <= Len(Script) => keys[i].scan = Script[i]
        /\ i > Len(Script) => keys[i].scan = PostKey /\ keys[i].insn >= IdleUntil
  <2> SUFFICES ASSUME NEW i \in 1..Len(keys)
               PROVE  /\ released' = released /\ released # -1
                      /\ keys[i].insn > released /\ keys[i].insn <= count'
                      /\ keys[i].insn \in Nat /\ keys[i].insn <= count
                      /\ i > 1 => keys[i].insn > keys[i - 1].insn
                      /\ i <= Len(Script) => keys[i].scan = Script[i]
                      /\ i > Len(Script) => keys[i].scan = PostKey /\ keys[i].insn >= IdleUntil
    OBVIOUS
  <2>1. keys[i] \in Presses
    BY <1>1, ElementOfSeq
  <2>2. keys[i].insn \in Nat
    BY <2>1 DEF Presses
  <2>3. keys[i].insn <= count
    BY DEF Scripted
  <2>4. /\ released # -1 /\ keys[i].insn > released
        /\ i > 1 => keys[i].insn > keys[i - 1].insn
        /\ i <= Len(Script) => keys[i].scan = Script[i]
        /\ i > Len(Script) => keys[i].scan = PostKey /\ keys[i].insn >= IdleUntil
    BY DEF Scripted, KeysComeFromScript
  <2> QED
    BY <1>1, <2>2, <2>3, <2>4
<1>4. CASE Rested
  <2>1. /\ rest' = rest /\ postSent' = postSent /\ keys' = keys /\ phase' \in Phases
    BY <1>4 DEF Rested
  <2>2. KeysComeFromScript'
    BY <1>1, <1>3, <2>1 DEF KeysComeFromScript, Scripted
  <2>3. phase' = "post" => count' >= IdleUntil
    BY <1>4 DEF Rested
  <2> QED
    BY <1>1, <1>2, <1>3, <1>4, <2>1, <2>2, <2>3 DEF Scripted, Rested
<1>5. CASE PressesNext \/ PressesLast
  <2> DEFINE n == Len(keys) + 1
             key == IF PressesNext THEN Head(rest) ELSE PostKey
             press == [scan |-> key, insn |-> count + 1]
  <2>1. key \in Scan /\ ~postSent /\ released # -1 /\ released' = released
    BY <1>1, <1>5, HeadTailProperties DEF PressesNext, PressesLast
  <2>2. press \in Presses /\ keys' = Append(keys, press)
    BY <1>1, <1>5, <2>1 DEF Presses, PressesNext, PressesLast
  <2>3. Len(keys) = Len(Script) - Len(rest)
    BY <1>1, <2>1 DEF Scripted
  <2>4. /\ press.insn = count + 1 /\ press.scan = key
        /\ n <= Len(Script) => key = Script[n]
        /\ n > Len(Script) => key = PostKey /\ press.insn >= IdleUntil
    <3>1. CASE PressesNext
      <4>1. rest # <<>> /\ key = Head(rest)
        BY <3>1 DEF PressesNext
      <4>2. key = rest[1] /\ Len(rest) # 0
        BY <1>1, <4>1, HeadTailProperties, EmptySeq
      <4>3. rest[1] = Script[Len(Script) - Len(rest) + 1]
        BY <1>1, <4>2 DEF Scripted
      <4> HIDE DEF key
      <4> QED
        BY <1>1, <2>3, <4>2, <4>3
    <3>2. CASE ~PressesNext
      <4>1. PressesLast /\ key = PostKey
        BY <1>5, <3>2
      <4>2. Len(rest) = 0 /\ count + 1 >= IdleUntil
        BY <1>1, <4>1, EmptySeq DEF PressesLast
      <4> QED
        BY <1>1, <2>3, <4>1, <4>2
    <3> QED
      BY <3>1, <3>2
  <2> HIDE DEF key, press
  <2>5. /\ keys' \in Seq(Presses) /\ Len(keys') = n
        /\ \A i \in 1..Len(keys) : keys'[i] = keys[i]
        /\ keys'[n] = press
    BY <1>1, <2>2, AppendProperties
  <2>6. /\ rest' \in Seq(Scan) /\ Len(rest') \in Nat /\ Len(rest') <= Len(Script)
        /\ \A i \in 1..Len(rest') : rest'[i] = Script[Len(Script) - Len(rest') + i]
        /\ n = Len(Script) - Len(rest') + (IF postSent' THEN 1 ELSE 0)
    <3>1. CASE PressesNext
      <4>1. rest' = Tail(rest) /\ rest # <<>> /\ ~postSent'
        BY <2>1, <3>1 DEF PressesNext
      <4>2. /\ rest' \in Seq(Scan) /\ Len(rest') = Len(rest) - 1 /\ Len(rest) # 0
            /\ \A i \in 1..Len(rest') : rest'[i] = rest[i + 1]
        BY <1>1, <4>1, HeadTailProperties, EmptySeq
      <4>3. \A i \in 1..Len(rest') : rest[i + 1] = Script[Len(Script) - Len(rest) + (i + 1)]
        BY <1>1, <4>2 DEF Scripted
      <4> QED
        BY <1>1, <2>3, <4>1, <4>2, <4>3
    <3>2. CASE PressesLast
      <4>1. rest' = rest /\ postSent'
        BY <3>2 DEF PressesLast
      <4> QED
        BY <1>1, <2>3, <4>1 DEF Scripted
    <3> QED
      BY <1>5, <3>1, <3>2
  <2>7. \A i \in 1..Len(keys') :
          /\ released' # -1 /\ keys'[i].insn > released' /\ keys'[i].insn <= count'
          /\ i > 1 => keys'[i].insn > keys'[i - 1].insn
          /\ i <= Len(Script) => keys'[i].scan = Script[i]
          /\ i > Len(Script) => keys'[i].scan = PostKey /\ keys'[i].insn >= IdleUntil
    <3> SUFFICES ASSUME NEW i \in 1..Len(keys')
                 PROVE  /\ released' # -1 /\ keys'[i].insn > released'
                        /\ keys'[i].insn <= count'
                        /\ i > 1 => keys'[i].insn > keys'[i - 1].insn
                        /\ i <= Len(Script) => keys'[i].scan = Script[i]
                        /\ i > Len(Script) => /\ keys'[i].scan = PostKey
                                              /\ keys'[i].insn >= IdleUntil
      OBVIOUS
    <3>1. CASE i \in 1..Len(keys)
      <4>1. keys'[i] = keys[i] /\ (i > 1 => keys'[i - 1] = keys[i - 1])
        <5>1. i > 1 => i - 1 \in 1..Len(keys)
          BY <1>1, <3>1
        <5> QED
          BY <2>5, <3>1, <5>1
      <4> QED
        BY <1>1, <1>3, <2>1, <3>1, <4>1
    <3>2. CASE i = n
      <4>1. keys'[i] = press /\ (i > 1 => n - 1 \in 1..Len(keys) /\ keys'[i - 1] = keys[n - 1])
        BY <1>1, <2>5, <3>2
      <4>2. i > 1 => keys[n - 1].insn \in Nat /\ keys[n - 1].insn <= count
        BY <1>3, <4>1
      <4>3. i > 1 => press.insn > keys'[i - 1].insn
        BY <1>1, <2>4, <4>1, <4>2
      <4>4. press.insn > released /\ press.insn = count'
        BY <1>1, <2>4
      <4> QED
        BY <1>1, <2>1, <2>4, <3>2, <4>1, <4>3, <4>4
    <3> QED
      BY <1>1, <2>5, <3>1, <3>2
  <2>8. /\ postSent' \in BOOLEAN /\ phase' \in Phases
        /\ variant' = "scripted" => phase' = "pre" /\ ~postSent'
        /\ phase' # "pre" => rest' = <<>>
        /\ phase' = "post" => count' >= IdleUntil
        /\ postSent' => phase' = "post"
        /\ postSent' => variant' = "idle"
    <3>1. CASE PressesNext
      BY <1>1, <2>1, <3>1 DEF PressesNext, Scripted, Phases
    <3>2. CASE PressesLast
      BY <1>1, <2>1, <3>2 DEF PressesLast, Scripted, Phases
    <3> QED
      BY <1>5, <3>1, <3>2
  <2>9. Len(keys') <= Len(Script) + IF variant' = "idle" THEN 1 ELSE 0
    BY <1>1, <1>2, <2>5, <2>6, <2>8
  <2> QED
    BY <1>1, <1>2, <2>5, <2>6, <2>7, <2>8, <2>9 DEF Scripted, KeysComeFromScript
<1> QED
  BY <1>4, <1>5

\* Before the first instruction nothing is pressed.
LEMMA ScriptStart ==
  ASSUME ResearchInit
  PROVE  Scripted
<1>1. /\ variant \in {"scripted", "idle"} /\ count = 0 /\ released = -1
      /\ rest = Script /\ phase = "pre" /\ ~postSent /\ postSent \in BOOLEAN
      /\ keys = <<>>
  BY DEF ResearchInit
<1>2. /\ Script \in Seq(Scan) /\ Len(Script) \in Nat
      /\ keys \in Seq(Presses) /\ Len(keys) = 0
  BY <1>1, ResearchAssumption, LenProperties, EmptySeq
<1>3. KeysComeFromScript
  BY <1>1, <1>2 DEF KeysComeFromScript
<1> QED
  BY <1>1, <1>2, <1>3 DEF Scripted, Phases

-----------------------------------------------------------------------------
(* The read-watches.                                                       *)

\* A watched object has one hook and an end that has not passed; no count of
\* reads exceeds what was counted.
WatchedAt(w, c, n) ==
  /\ w \in [until : [Objects -> Int], hooks : [Objects -> Int],
            registry : [Objects -> Int]]
  /\ c \in [Objects -> Int]
  /\ \A o \in Objects :
       /\ w.hooks[o] = IF w.until[o] = -1 THEN 0 ELSE 1
       /\ w.until[o] # -1 => w.until[o] >= n
       /\ w.registry[o] <= c[o] /\ c[o] >= 0

\* An instruction expires what has ended; the hook skips an import.
Watched == WatchedAt(watch, counted, IF afterImport THEN count ELSE count + 1)

\* Watching one more object.
LEMMA RegisteredKeeps ==
  ASSUME NEW w, NEW c, NEW n \in Int, NEW p \in Objects, NEW duration \in Nat,
         count \in Nat, WatchedAt(w, c, n), n <= count + 1 + duration
  PROVE  WatchedAt(Registered(w, p, duration), c, n)
<1>1. CASE w.until[p] # -1
  BY <1>1 DEF Registered
<1>2. CASE w.until[p] = -1
  <2> DEFINE until == [w.until EXCEPT ![p] = count + 1 + duration]
             hooks == [w.hooks EXCEPT ![p] = @ + 1]
             stats == [w.registry EXCEPT ![p] = 0]
             v == [until |-> until, hooks |-> hooks, registry |-> stats]
  <2>1. /\ w.until \in [Objects -> Int] /\ w.hooks \in [Objects -> Int]
        /\ w.registry \in [Objects -> Int]
    BY DEF WatchedAt
  <2>2. /\ until \in [Objects -> Int] /\ hooks \in [Objects -> Int]
        /\ stats \in [Objects -> Int]
    BY <2>1
  <2>3. \A o \in Objects :
          /\ until[o] = IF o = p THEN count + 1 + duration ELSE w.until[o]
          /\ hooks[o] = IF o = p THEN w.hooks[o] + 1 ELSE w.hooks[o]
          /\ stats[o] = IF o = p THEN 0 ELSE w.registry[o]
    BY <2>1
  <2>4. Registered(w, p, duration) = v
    BY <1>2 DEF Registered
  <2> HIDE DEF until, hooks, stats
  <2>5. /\ v.until = until /\ v.hooks = hooks /\ v.registry = stats
        /\ v \in [until : [Objects -> Int], hooks : [Objects -> Int],
                  registry : [Objects -> Int]]
    BY <2>2
  <2> HIDE DEF v
  <2>6. \A o \in Objects :
          /\ v.hooks[o] = IF v.until[o] = -1 THEN 0 ELSE 1
          /\ v.until[o] # -1 => v.until[o] >= n
          /\ v.registry[o] <= c[o] /\ c[o] >= 0
    BY <1>2, <2>3, <2>5 DEF WatchedAt
  <2> QED
    BY <2>4, <2>5, <2>6 DEF WatchedAt
<1> QED
  BY <1>1, <1>2

\* What the expiry leaves ends after the instruction.
LEMMA ExpiredKeeps ==
  ASSUME NEW w, NEW c, NEW n \in Int, count \in Nat, WatchedAt(w, c, n)
  PROVE  WatchedAt(Expired(w), c, count + 2)
<1> DEFINE done == {o \in Objects : w.until[o] # -1 /\ count + 1 >= w.until[o]}
           until == [o \in Objects |-> IF o \in done THEN -1 ELSE w.until[o]]
           hooks == [o \in Objects |-> IF o \in done THEN w.hooks[o] - 1 ELSE w.hooks[o]]
           v == [w EXCEPT !.until = until, !.hooks = hooks]
<1>1. /\ w.until \in [Objects -> Int] /\ w.hooks \in [Objects -> Int]
      /\ w.registry \in [Objects -> Int]
      /\ w \in [until : [Objects -> Int], hooks : [Objects -> Int],
                registry : [Objects -> Int]]
  BY DEF WatchedAt
<1>2. until \in [Objects -> Int] /\ hooks \in [Objects -> Int]
  BY <1>1
<1>3. \A o \in Objects :
        IF w.until[o] # -1 /\ count + 1 >= w.until[o]
        THEN until[o] = -1 /\ hooks[o] = w.hooks[o] - 1
        ELSE until[o] = w.until[o] /\ hooks[o] = w.hooks[o]
  OBVIOUS
<1>4. Expired(w) = v
  BY DEF Expired
<1> HIDE DEF until, hooks, done
<1>5. /\ v.until = until /\ v.hooks = hooks /\ v.registry = w.registry
      /\ v \in [until : [Objects -> Int], hooks : [Objects -> Int],
                registry : [Objects -> Int]]
  BY <1>1, <1>2
<1> HIDE DEF v
<1>6. \A o \in Objects :
        /\ v.hooks[o] = IF v.until[o] = -1 THEN 0 ELSE 1
        /\ v.until[o] # -1 => v.until[o] >= count + 2
        /\ v.registry[o] <= c[o] /\ c[o] >= 0
  BY <1>1, <1>3, <1>5 DEF WatchedAt
<1> QED
  BY <1>4, <1>5, <1>6 DEF WatchedAt

\* A read is counted once by the one hook there is.
LEMMA ReadingKeeps ==
  ASSUME NEW w, NEW c, NEW n \in Int, NEW p \in Objects, WatchedAt(w, c, n),
         w.hooks[p] > 0
  PROVE  WatchedAt([w EXCEPT !.registry[p] = @ + w.hooks[p]], [c EXCEPT ![p] = @ + 1], n)
<1> DEFINE stats == [w.registry EXCEPT ![p] = @ + w.hooks[p]]
           v == [w EXCEPT !.registry = stats]
           d == [c EXCEPT ![p] = @ + 1]
<1>1. /\ w.until \in [Objects -> Int] /\ w.hooks \in [Objects -> Int]
      /\ w.registry \in [Objects -> Int] /\ c \in [Objects -> Int]
      /\ w \in [until : [Objects -> Int], hooks : [Objects -> Int],
                registry : [Objects -> Int]]
  BY DEF WatchedAt
<1>2. w.hooks[p] = 1
  BY DEF WatchedAt
<1>3. stats \in [Objects -> Int] /\ d \in [Objects -> Int]
  BY <1>1, <1>2
<1>4. \A o \in Objects :
        IF o = p THEN stats[o] = w.registry[o] + 1 /\ d[o] = c[o] + 1
        ELSE stats[o] = w.registry[o] /\ d[o] = c[o]
  BY <1>1, <1>2
<1>5. [w EXCEPT !.registry[p] = @ + w.hooks[p]] = v
  BY <1>1
<1> HIDE DEF stats, d
<1>6. /\ v.until = w.until /\ v.hooks = w.hooks /\ v.registry = stats
      /\ v \in [until : [Objects -> Int], hooks : [Objects -> Int],
                registry : [Objects -> Int]]
  BY <1>1, <1>3
<1> HIDE DEF v
<1>7. \A o \in Objects :
        /\ v.hooks[o] = IF v.until[o] = -1 THEN 0 ELSE 1
        /\ v.until[o] # -1 => v.until[o] >= n
        /\ v.registry[o] <= d[o] /\ d[o] >= 0
  <2> SUFFICES ASSUME NEW o \in Objects
               PROVE  /\ v.hooks[o] = IF v.until[o] = -1 THEN 0 ELSE 1
                      /\ v.until[o] # -1 => v.until[o] >= n
                      /\ v.registry[o] <= d[o] /\ d[o] >= 0
    OBVIOUS
  <2>1. /\ w.hooks[o] = IF w.until[o] = -1 THEN 0 ELSE 1
        /\ w.until[o] # -1 => w.until[o] >= n
        /\ w.registry[o] <= c[o] /\ c[o] >= 0
        /\ w.registry[o] \in Int /\ c[o] \in Int
    BY <1>1 DEF WatchedAt
  <2> QED
    BY <1>4, <1>6, <2>1
<1> QED
  BY <1>3, <1>5, <1>6, <1>7 DEF WatchedAt, d

-----------------------------------------------------------------------------
(* The snapshots.                                                          *)

\* The instruction count lies between the last snapshot due and the next; a
\* snapshot that fell on an import is taken by the instruction after it.
Snapped ==
  /\ timeline \in Seq(Nat) /\ count \in Nat
  /\ Interval * Len(timeline) <= count
  /\ \/ count < NextAt
     \/ afterImport /\ count <= NextAt
  /\ \A k \in 1..Len(timeline) : timeline[k] \in {k * Interval, k * Interval + 1}

\* Multiples keep the order of their factors.
LEMMA TimesMonotone ==
  ASSUME NEW i \in Nat, NEW a \in Nat, NEW b \in Nat, a <= b
  PROVE  i * a <= i * b
<1>1. PICK d \in Nat : b = a + d
  <2>1. b - a \in Nat /\ b = a + (b - a)
    OBVIOUS
  <2> QED
    BY <2>1
<1>2. i * b = i * a + i * d
  BY <1>1
<1>3. i * d \in Nat /\ i * a \in Nat
  OBVIOUS
<1> QED
  BY <1>2, <1>3

\* The quotient is the number of whole intervals.
LEMMA WholeIntervals ==
  ASSUME NEW i \in Nat \ {0}, NEW c \in Nat
  PROVE  /\ c \div i \in Nat
         /\ i * (c \div i) <= c /\ c < i * (c \div i + 1)
OBVIOUS

\* A snapshot per interval.
LEMMA SnapshotsCount ==
  ASSUME Snapped
  PROVE  SnapshotsKeepPace
<1> DEFINE n == Len(timeline)
           q == count \div Interval
<1>1. Interval \in Nat \ {0} /\ Interval \in Nat /\ n \in Nat /\ count \in Nat
  BY ResearchAssumption, LenProperties DEF Snapped
<1>2. q \in Nat /\ Interval * q <= count /\ count < Interval * (q + 1)
  BY <1>1, WholeIntervals
<1>3. Interval * n <= count
  BY DEF Snapped
<1>4. ~afterImport => count < Interval * (n + 1)
  BY DEF Snapped, NextAt
<1> HIDE DEF n, q
<1>5. /\ Interval * n \in Nat /\ Interval * q \in Nat
      /\ Interval * (n + 1) \in Nat /\ Interval * (q + 1) \in Nat
  BY <1>1, <1>2
<1>6. n <= q
  <2>1. SUFFICES ASSUME q + 1 <= n PROVE FALSE
    BY <1>1, <1>2
  <2>2. Interval * (q + 1) <= Interval * n
    BY <1>1, <1>2, <2>1, TimesMonotone
  <2> QED
    BY <1>1, <1>2, <1>3, <1>5, <2>2
<1>7. ~afterImport => q <= n
  <2>1. SUFFICES ASSUME ~afterImport, n + 1 <= q PROVE FALSE
    BY <1>1, <1>2
  <2>2. Interval * (n + 1) <= Interval * q
    BY <1>1, <1>2, <2>1, TimesMonotone
  <2> QED
    BY <1>1, <1>2, <1>4, <1>5, <2>1, <2>2
<1>8. n <= q /\ (~afterImport => n = q)
  BY <1>1, <1>2, <1>6, <1>7
<1> QED
  BY <1>8 DEF SnapshotsKeepPace, Snapped, n, q

\* An import is not looked at; the instruction after it catches up.
LEMMA SnapshotStep ==
  ASSUME Snapped, count' = count + 1,
         \/ ~afterImport /\ afterImport' = TRUE /\ timeline' = timeline
         \/ afterImport' = FALSE /\ MaybeSnapshot
  PROVE  Snapped'
<1> DEFINE n == Len(timeline)
           due == Interval * n
           next == Interval * (n + 1)
<1>1. /\ Interval \in Nat /\ Interval >= 2 /\ n \in Nat /\ count \in Nat
      /\ timeline \in Seq(Nat)
  BY ResearchAssumption, LenProperties DEF Snapped
<1>2. due <= count /\ next = NextAt
  BY DEF Snapped, NextAt
<1>3. count < next \/ (afterImport /\ count <= next)
  BY DEF Snapped, NextAt
<1>4. due \in Nat /\ next \in Nat /\ Interval * (n + 1 + 1) = next + Interval
  BY <1>1
<1>5. next = (n + 1) * Interval
  BY <1>1
<1>6. CASE timeline' = timeline /\ (count + 1 < next \/ (afterImport' /\ count + 1 <= next))
  <2>1. NextAt' = next /\ Interval * Len(timeline)' = due
    BY <1>6 DEF NextAt
  <2> HIDE DEF due, next
  <2>2. due <= count + 1
    BY <1>1, <1>2, <1>4
  <2> QED
    BY <1>1, <1>6, <2>1, <2>2 DEF Snapped
<1>7. CASE /\ afterImport' = FALSE /\ timeline' = Append(timeline, count + 1)
           /\ count + 1 >= next
  <2>1. /\ timeline' \in Seq(Nat) /\ Len(timeline') = n + 1
        /\ \A k \in 1..n : timeline'[k] = timeline[k]
        /\ timeline'[n + 1] = count + 1
    BY <1>1, <1>7, AppendProperties
  <2>2. NextAt' = next + Interval /\ Interval * Len(timeline') = next
    BY <1>4, <2>1 DEF NextAt
  <2> HIDE DEF due, next
  <2>3. count + 1 \in {next, next + 1}
    BY <1>1, <1>3, <1>4, <1>7
  <2>4. next <= count + 1 /\ count + 1 < next + Interval
    BY <1>1, <1>4, <2>3
  <2>5. \A k \in 1..Len(timeline') : timeline'[k] \in {k * Interval, k * Interval + 1}
    <3> SUFFICES ASSUME NEW k \in 1..Len(timeline')
                 PROVE  timeline'[k] \in {k * Interval, k * Interval + 1}
      OBVIOUS
    <3>1. CASE k \in 1..n
      <4>1. timeline[k] \in {k * Interval, k * Interval + 1}
        BY <3>1 DEF Snapped
      <4> QED
        BY <2>1, <3>1, <4>1
    <3>2. CASE k = n + 1
      <4>1. k * Interval = next
        BY <1>5, <3>2
      <4> QED
        BY <2>1, <2>3, <3>2, <4>1
    <3> QED
      BY <1>1, <2>1, <3>1, <3>2
  <2> QED
    BY <1>1, <2>1, <2>2, <2>4, <2>5 DEF Snapped
<1>8. \/ timeline' = timeline /\ (count + 1 < next \/ (afterImport' /\ count + 1 <= next))
      \/ /\ afterImport' = FALSE /\ timeline' = Append(timeline, count + 1)
         /\ count + 1 >= next
  <2>1. CASE ~afterImport /\ afterImport' = TRUE /\ timeline' = timeline
    <3>1. count < next
      BY <1>3, <2>1
    <3> HIDE DEF next
    <3>2. count + 1 <= next
      BY <1>1, <1>4, <3>1
    <3> QED
      BY <2>1, <3>2
  <2>2. CASE afterImport' = FALSE /\ MaybeSnapshot
    <3>1. timeline' = IF count + 1 < next THEN timeline ELSE Append(timeline, count + 1)
      BY <1>2, <2>2 DEF MaybeSnapshot
    <3> HIDE DEF next
    <3> QED
      BY <1>1, <1>4, <2>2, <3>1
  <2> QED
    BY <2>1, <2>2
<1> QED
  BY <1>6, <1>7, <1>8

-----------------------------------------------------------------------------
(* The research run.                                                       *)

ResearchInv ==
  /\ count \in Nat /\ afterImport \in BOOLEAN
  /\ Scripted /\ Watched /\ Snapped

\* A call to an import.
LEMMA ImportKeeps ==
  ASSUME ResearchInv, ImportCall
  PROVE  ResearchInv'
<1>1. /\ count \in Nat /\ count' = count + 1 /\ count' \in Nat
      /\ ~afterImport /\ afterImport' = TRUE
      /\ released' = released /\ timeline' = timeline
  BY DEF ImportCall, ResearchInv
<1>2. Produce \/ UNCHANGED scriptVars
  BY DEF ImportCall, ProduceAt
<1>3. Scripted'
  <2>1. CASE Produce
    <3>1. Rested \/ PressesNext \/ PressesLast
      BY <2>1, ProduceKinds DEF ResearchInv
    <3> QED
      BY <1>1, <2>1, <3>1, ScriptStep DEF ResearchInv, Produce
  <2>2. CASE UNCHANGED scriptVars
    <3>1. Rested
      BY <1>1, <2>2, ResearchAssumption DEF Rested, ResearchInv, Scripted, scriptVars
    <3> QED
      BY <1>1, <2>2, <3>1, ScriptStep DEF ResearchInv, scriptVars
  <2> QED
    BY <1>2, <2>1, <2>2
<1>4. WatchedAt(watch, counted, count + 1)
  BY <1>1 DEF ResearchInv, Watched
<1>5. WatchedAt(watch', counted', count + 1)
  <2>1. CASE UNCHANGED watchVars
    BY <1>4, <2>1 DEF watchVars
  <2>2. CASE \E o \in Objects : OutParam(o)
    <3>1. PICK o \in Objects : OutParam(o)
      BY <2>2
    <3>2. watch' = Registered(watch, o, 1) /\ counted' = counted
      BY <3>1 DEF OutParam
    <3>3. WatchedAt(Registered(watch, o, 1), counted, count + 1)
      BY <1>1, <1>4, RegisteredKeeps
    <3> QED
      BY <3>2, <3>3
  <2> QED
    BY <2>1, <2>2 DEF ImportCall
<1>6. Watched'
  BY <1>1, <1>5 DEF Watched
<1>7. Snapped'
  BY <1>1, SnapshotStep DEF ResearchInv
<1> QED
  BY <1>1, <1>3, <1>6, <1>7 DEF ResearchInv

\* Any other instruction.
LEMMA OtherKeeps ==
  ASSUME ResearchInv, OtherInstruction
  PROVE  ResearchInv'
<1>1. /\ count \in Nat /\ count' = count + 1 /\ count' \in Nat
      /\ afterImport' = FALSE /\ MaybeSnapshot
      /\ \/ released' = released
         \/ released = -1 /\ released' = count + 1
  <2>1. count \in Nat /\ count' = count + 1 /\ afterImport' = FALSE /\ MaybeSnapshot
    BY DEF OtherInstruction, ResearchInv
  <2>2. PICK module5 \in BOOLEAN :
          released' = IF released = -1 /\ module5 THEN count + 1 ELSE released
    BY DEF OtherInstruction
  <2>3. \/ released' = released
        \/ released = -1 /\ released' = count + 1
    BY <2>2
  <2>4. count' \in Nat
    BY <2>1
  <2> QED
    BY <2>1, <2>3, <2>4
<1>2. Produce \/ UNCHANGED scriptVars
  BY DEF OtherInstruction, ProduceAt
<1>3. Scripted'
  <2>1. CASE Produce
    <3>1. Rested \/ PressesNext \/ PressesLast
      BY <2>1, ProduceKinds DEF ResearchInv
    <3> QED
      BY <1>1, <2>1, <3>1, ScriptStep DEF ResearchInv, Produce
  <2>2. CASE UNCHANGED scriptVars
    <3>1. Rested
      BY <1>1, <2>2, ResearchAssumption DEF Rested, ResearchInv, Scripted, scriptVars
    <3> QED
      BY <1>1, <2>2, <3>1, ScriptStep DEF ResearchInv, scriptVars
  <2> QED
    BY <1>2, <2>1, <2>2
<1>4. WatchedAt(watch, counted, count)
  <2>1. WatchedAt(watch, counted, IF afterImport THEN count ELSE count + 1)
    BY DEF ResearchInv, Watched
  <2>2. CASE afterImport
    BY <2>1, <2>2
  <2>3. CASE ~afterImport
    <3>1. WatchedAt(watch, counted, count + 1)
      BY <2>1, <2>3
    <3>2. \A o \in Objects : watch.until[o] \in Int
      BY <3>1 DEF WatchedAt
    <3> QED
      BY <1>1, <3>1, <3>2 DEF WatchedAt
  <2> QED
    BY <2>2, <2>3
<1>5. /\ WatchDuration \in Nat /\ 2 * WatchDuration \in Nat
      /\ count <= count + 1 + WatchDuration /\ count <= count + 1 + 2 * WatchDuration
      /\ count + 2 \in Int
  BY <1>1, ResearchAssumption
<1>6. \A o \in Objects :
        /\ WatchedAt(Registered(watch, o, WatchDuration), counted, count)
        /\ WatchedAt(Registered(watch, o, 2 * WatchDuration), counted, count)
  BY <1>1, <1>4, <1>5, RegisteredKeeps
<1>7. WatchedAt(watch', counted', count + 2)
  <2>1. CASE NoProbe
    BY <1>1, <1>4, <2>1, ExpiredKeeps DEF NoProbe
  <2>2. ASSUME NEW o \in Objects, Reading(o)
        PROVE  WatchedAt(watch', counted', count + 2)
    <3>1. WatchedAt(Expired(watch), counted, count + 2)
      BY <1>1, <1>4, ExpiredKeeps
    <3>2. Expired(watch).hooks[o] > 0
      BY <2>2 DEF Reading
    <3>3. /\ watch' = [Expired(watch) EXCEPT !.registry[o] = @ + Expired(watch).hooks[o]]
          /\ counted' = [counted EXCEPT ![o] = @ + 1]
      BY <2>2 DEF Reading
    <3> QED
      BY <1>5, <3>1, <3>2, <3>3, ReadingKeeps
  <2>3. ASSUME NEW o \in Objects, AtlasCopy(o)
        PROVE  WatchedAt(watch', counted', count + 2)
    BY <1>1, <1>6, <2>3, ExpiredKeeps DEF AtlasCopy
  <2>4. ASSUME NEW o \in Objects, NEW canRead \in BOOLEAN, DeepDump(o, canRead)
        PROVE  WatchedAt(watch', counted', count + 2)
    <3>1. PICK w : /\ watch' = Expired(w) /\ counted' = counted
                   /\ w = watch \/ w = Registered(watch, o, WatchDuration)
      BY <2>4 DEF DeepDump
    <3> QED
      BY <1>1, <1>4, <1>6, <3>1, ExpiredKeeps
  <2> QED
    BY <2>1, <2>2, <2>3, <2>4 DEF OtherInstruction
<1>8. Watched'
  <2>1. (IF afterImport' THEN count' ELSE count' + 1) = count + 2
    BY <1>1
  <2>2. WatchedAt(watch', counted', IF afterImport' THEN count' ELSE count' + 1)
    BY <1>7, <2>1
  <2> QED
    BY <2>2 DEF Watched
<1>9. Snapped'
  BY <1>1, SnapshotStep DEF ResearchInv
<1> QED
  BY <1>1, <1>3, <1>8, <1>9 DEF ResearchInv

\* The observers start with nothing watched and nothing recorded.
LEMMA ResearchStart ==
  ASSUME ResearchInit
  PROVE  ResearchInv
<1>1. count = 0 /\ ~afterImport /\ afterImport \in BOOLEAN /\ timeline = <<>>
  BY DEF ResearchInit
<1>2. Scripted
  BY ScriptStart
<1>3. Watched
  <2> DEFINE zeros == [o \in Objects |-> 0]
             ends == [o \in Objects |-> -1]
  <2>1. /\ watch = [until |-> ends, hooks |-> zeros, registry |-> zeros]
        /\ counted = zeros
    BY DEF ResearchInit
  <2>2. /\ zeros \in [Objects -> Int] /\ ends \in [Objects -> Int]
        /\ \A o \in Objects : zeros[o] = 0 /\ ends[o] = -1
    OBVIOUS
  <2> HIDE DEF zeros, ends
  <2>3. watch.until = ends /\ watch.hooks = zeros /\ watch.registry = zeros
    BY <2>1
  <2> QED
    BY <1>1, <2>1, <2>2, <2>3 DEF Watched, WatchedAt
<1>4. Snapped
  <2>1. Interval \in Nat /\ Interval >= 2
    BY ResearchAssumption
  <2>2. timeline \in Seq(Nat) /\ Len(timeline) = 0
    BY <1>1
  <2>3. Interval * Len(timeline) = 0 /\ NextAt = Interval
    BY <2>1, <2>2 DEF NextAt
  <2> QED
    BY <1>1, <2>1, <2>2, <2>3 DEF Snapped
<1> QED
  BY <1>1, <1>2, <1>3, <1>4 DEF ResearchInv

\* What the research run promises follows.
LEMMA ResearchPromises ==
  ASSUME ResearchInv
  PROVE  KeysComeFromScript /\ WatchesAreBounded /\ SnapshotsKeepPace
<1>1. KeysComeFromScript
  BY DEF ResearchInv, Scripted
<1>2. WatchesAreBounded
  <2>1. /\ count \in Nat
        /\ WatchedAt(watch, counted, IF afterImport THEN count ELSE count + 1)
    BY DEF ResearchInv, Watched
  <2>2. \A o \in Objects : watch.until[o] \in Int
    BY <2>1 DEF WatchedAt
  <2> QED
    BY <2>1, <2>2 DEF WatchesAreBounded, WatchedAt
<1>3. SnapshotsKeepPace
  BY SnapshotsCount DEF ResearchInv
<1> QED
  BY <1>1, <1>2, <1>3

-----------------------------------------------------------------------------
(* The harness.                                                            *)

HarnessInv == PumpInv /\ RunInv /\ ResearchInv

\* A part that stands still keeps its invariant.
LEMMA PumpRests ==
  ASSUME PumpInv, UNCHANGED <<at, tracerVars>>
  PROVE  PumpInv'
BY DEF PumpInv, tracerVars

\* A step that leaves the run alone keeps its invariant.
LEMMA RunRests ==
  ASSUME RunInv, UNCHANGED runVars
  PROVE  RunInv'
<1>1. UNCHANGED <<off, place, game, done4, reached, forced, steps, stopped, last>>
  BY DEF runVars
<1>2. GamePlaced'
  BY <1>1 DEF RunInv, GamePlaced, ForcedForward
<1>3. CallsAnswered'
  BY <1>1 DEF RunInv, CallsAnswered, NullCallsReturn, ImportsAreAnsweredOnce
<1>4. InTime'
  BY <1>1 DEF RunInv, InTime, StopsInTime
<1> QED
  BY <1>2, <1>3, <1>4 DEF RunInv

\* A step that leaves the observers alone keeps their invariant.
LEMMA ResearchRests ==
  ASSUME ResearchInv, UNCHANGED researchVars
  PROVE  ResearchInv'
<1>1. UNCHANGED <<count, afterImport, released, variant, rest, phase, postSent, keys,
                  watch, counted, timeline>>
  BY DEF researchVars, scriptVars, watchVars
<1>2. Scripted'
  BY <1>1 DEF ResearchInv, Scripted, KeysComeFromScript
<1>3. Watched'
  BY <1>1 DEF ResearchInv, Watched
<1>4. Snapped'
  BY <1>1 DEF ResearchInv, Snapped, NextAt
<1> QED
  BY <1>1, <1>2, <1>3, <1>4 DEF ResearchInv

\* The three parts start as they should, whichever is looked at, and a step of
\* one leaves the others alone.
LEMMA HarnessInductive ==
  ASSUME TRUE
  PROVE  /\ HarnessInit => HarnessInv
         /\ HarnessInv /\ [HarnessNext]_harnessVars => HarnessInv'
<1>1. ASSUME HarnessInit PROVE HarnessInv
  <2>1. PumpInit /\ RunInit /\ ResearchInit
    BY <1>1 DEF HarnessInit, RunAtRest, ResearchAtRest
  <2>2. PumpInv
    BY <2>1 DEF PumpInit, PumpInv
  <2> QED
    BY <2>1, <2>2, RunStart, ResearchStart DEF HarnessInv
<1>2. ASSUME HarnessInv, [HarnessNext]_harnessVars PROVE HarnessInv'
  <2>1. CASE PumpPart /\ PumpNext
    <3>1. UNCHANGED runVars /\ UNCHANGED researchVars
      BY <2>1 DEF PumpPart
    <3>2. PumpInv'
      <4>1. CASE GameStep
        BY <1>2, <4>1, GameStepTraced, PumpStep DEF HarnessInv
      <4>2. CASE EventArrives
        BY <1>2, <4>2, PumpRests DEF HarnessInv, EventArrives
      <4> QED
        BY <2>1, <4>1, <4>2 DEF PumpNext
    <3> QED
      BY <1>2, <3>1, <3>2, RunRests, ResearchRests DEF HarnessInv
  <2>2. CASE part = "patches" /\ RunNext /\ UNCHANGED <<pumpVars, researchVars, part>>
    <3>1. UNCHANGED <<at, tracerVars>> /\ UNCHANGED researchVars
      BY <2>2 DEF pumpVars
    <3> QED
      BY <1>2, <2>2, <3>1, PumpRests, RunStep, ResearchRests DEF HarnessInv
  <2>3. CASE part = "research" /\ ResearchNext /\ UNCHANGED <<pumpVars, runVars, part>>
    <3>1. UNCHANGED <<at, tracerVars>> /\ UNCHANGED runVars
      BY <2>3 DEF pumpVars
    <3>2. ResearchInv'
      BY <1>2, <2>3, ImportKeeps, OtherKeeps DEF HarnessInv, ResearchNext
    <3> QED
      BY <1>2, <3>1, <3>2, PumpRests, RunRests DEF HarnessInv
  <2>4. CASE UNCHANGED harnessVars
    <3>1. UNCHANGED <<at, tracerVars>> /\ UNCHANGED runVars /\ UNCHANGED researchVars
      BY <2>4 DEF harnessVars, pumpVars
    <3> QED
      BY <1>2, <3>1, PumpRests, RunRests, ResearchRests DEF HarnessInv
  <2> QED
    BY <1>2, <2>1, <2>2, <2>3, <2>4 DEF HarnessNext
<1> QED
  BY <1>1, <1>2

\* The invariant of the harness (wait_trace.py:295-354, patches.py:143-397,
\* run.py:862-953, research_v209.py:43-372 and 1675-1717) holds for every
\* period, limit, schedule, script and set of disabled patches.
THEOREM HarnessInvariant == HarnessSpec => []HarnessInv
BY HarnessInductive, PTL DEF HarnessSpec

\* The windows of the WaitTracer (wait_trace.py:295-354): each is closed, by one
\* cause, before the next wait begins, and its record says what happened in it,
\* however the pump is led through its slots.
THEOREM WindowsTellTheTruthHolds == HarnessSpec => []WindowsTellTheTruth
<1>1. HarnessInv => WindowsTellTheTruth
  BY DEF HarnessInv, PumpInv, ClosedWell, WindowsTellTheTruth
<1> QED
  BY HarnessInvariant, <1>1, PTL

\* What the harness does to the game and reports of it (patches.py:143-189 and
\* 340-397, run.py:862-953, research_v209.py:43-83, 276-372 and 1675-1717): no
\* patch moves the game back, a null call returns to its caller, an import is
\* answered once, the run stops at its limit, the keys are those of the script
\* in their order, no watch outlives its window and no snapshot is missed.
THEOREM HarnessSoundHolds == HarnessSpec => []HarnessSound
<1>1. HarnessInv => HarnessSound
  <2>1. HarnessInv => ForcedForward /\ NullCallsReturn /\ ImportsAreAnsweredOnce /\ StopsInTime
    BY DEF HarnessInv, RunInv, GamePlaced, CallsAnswered, InTime
  <2>2. HarnessInv => KeysComeFromScript /\ WatchesAreBounded /\ SnapshotsKeepPace
    BY ResearchPromises DEF HarnessInv
  <2> QED
    BY <2>1, <2>2 DEF HarnessSound
<1> QED
  BY HarnessInvariant, <1>1, PTL
=============================================================================
