-------------------------------- MODULE Pump --------------------------------
(***************************************************************************)
(* The message pump of the game (fcn.00444750 and the slot scanner         *)
(* fcn.00444838 it calls), the three patches of patches.py that open the   *)
(* way to its event slot, and the WaitTracer of runtime/wait_trace.py that *)
(* records what happens between one WaitForAnyRequest and the next.        *)
(*                                                                         *)
(* The pump is the game's code: "at" is the instruction about to execute,  *)
(* reduced to the branches the patches and the tracer look at.  The        *)
(* request registry, a module of its own, is here what its protocol comes  *)
(* to for the one status word the pump tests.                              *)
(***************************************************************************)
EXTENDS Integers

CONSTANTS
  TickPeriod,    \* passes between two escapes of tick_escape, 100 in the code
  AltPeriod,     \* passes between two of event_alt_escape, 15 in the code
  CaptureLimit,  \* POST_WAIT_CAPTURE_LIMIT, 50 in the code
  MaxUnclaimed   \* bound: real events queued that no request has claimed

ASSUME PumpAssumption ==
  /\ TickPeriod \in Nat \ {0, 1} /\ AltPeriod \in Nat \ {0, 1}
  /\ CaptureLimit \in Nat \ {0} /\ MaxUnclaimed \in Nat \ {0}

VARIABLES
  at,         \* the next instruction of the game
  registry,   \* RequestRegistry, reduced to the event request and its counters
  busy,       \* [this+0x74]
  own,        \* [this+0x80], the pump's own request: "idle" or "pending"
  ownActive,  \* [this+0x84]
  passes,     \* counters of tick_escape and event_alt_escape, each mod its period
  tracer,     \* WaitTracer.current, NoRecord when no window is open
  closed,     \* the record closed last, with what happened in its window
  truth,      \* ghost: what happened since the last wait returned
  lost        \* ghost: a wait began while a window was still open

tracerVars == <<tracer, closed, truth, lost>>
pumpVars == <<at, registry, busy, own, ownActive, passes, tracerVars>>

NoRecord == [site |-> "none"]

-----------------------------------------------------------------------------
(* WaitTracer                                                              *)

\* on_wait_enter: a record of this wait, no matter what became of the last.
WaitEnter(site) ==
  [site |-> site, woken |-> "none", genuine |-> FALSE, returned |-> FALSE,
   captured |-> 0, call |-> FALSE, thunk |-> FALSE, result |-> "unset",
   reentered |-> FALSE, exited |-> FALSE, truncated |-> FALSE]

\* on_wait_woken, which names the request of the oldest entry of the wake log,
\* and on_wait_return.
WaitReturn(rec, genuine, woken) ==
  [rec EXCEPT !.woken = woken, !.genuine = genuine, !.returned = TRUE, !.captured = 0]

\* One instruction of an open window.
Captured(rec, a, r0) ==
  [rec EXCEPT !.captured = @ + 1,
              !.call = @ \/ a = "call",
              !.thunk = @ \/ a = "event",
              !.result = IF a \in {"found", "none"} THEN r0 ELSE @,
              !.exited = a = "exit"]

\* A new wait does not close the window of the last.
ObservedAcrossWaits(rec, a, r0) ==
  IF rec = NoRecord \/ ~rec.returned THEN [rec |-> rec, over |-> FALSE]
  ELSE IF rec.captured >= CaptureLimit
       THEN [rec |-> [rec EXCEPT !.truncated = TRUE], over |-> TRUE]
  ELSE [rec |-> Captured(rec, a, r0), over |-> a = "exit"]

\* on_pc before instruction a executes: the record, and whether it is closed.
\* A new wait closes the window, then the limit does, then the exit.
Observed(rec, a, r0) ==
  IF rec = NoRecord \/ ~rec.returned THEN [rec |-> rec, over |-> FALSE]
  ELSE IF a \in {"waitA", "waitB"} /\ rec.captured > 0
       THEN [rec |-> [rec EXCEPT !.reentered = TRUE], over |-> TRUE]
  ELSE IF rec.captured >= CaptureLimit
       THEN [rec |-> [rec EXCEPT !.truncated = TRUE], over |-> TRUE]
  ELSE [rec |-> Captured(rec, a, r0), over |-> a = "exit"]

\* What really happens at instruction a, for the ghost.
Happened(h, a, r0) ==
  [call |-> h.call \/ a = "call", thunk |-> h.thunk \/ a = "event",
   result |-> IF a \in {"found", "none"} /\ h.result = "unset" THEN r0 ELSE h.result,
   exited |-> h.exited \/ a = "exit"]

Nothing == [call |-> FALSE, thunk |-> FALSE, result |-> "unset", exited |-> FALSE]

\* The hook of run.py runs on_pc at every instruction, the handler of the wait
\* import the other two.
Trace(a, r0) ==
  LET o == Observed(tracer, a, r0)
      now == Happened(truth, a, r0)
  IN  /\ closed' = IF o.over THEN [rec |-> o.rec, was |-> now] ELSE closed
      /\ IF a \in {"waitA", "waitB"}
         THEN LET rec == WaitEnter(a)
                  genuine == registry.signals # 0
                  woken == IF genuine /\ registry.wakes # 0 THEN "event" ELSE "none"
              IN  /\ lost' = (lost \/ (~o.over /\ o.rec # NoRecord))
                  /\ tracer' = WaitReturn(rec, genuine, woken)
                  /\ truth' = Nothing
         ELSE /\ tracer' = IF o.over THEN NoRecord ELSE o.rec
              /\ truth' = now
              /\ UNCHANGED lost

-----------------------------------------------------------------------------
(* The patches on the way to the event slot                                *)

\* _make_tick_escape: every TickPeriod-th pass over the scanner's entry
\* returns "nothing found" at once.
TickEscapes == (passes.tick + 1) % TickPeriod = 0

\* _make_event_alt_escape without the force: slot 1 wins whenever it is ready.
AltNeverEscapes == FALSE

\* _make_event_alt_escape: every AltPeriod-th pass over the first readiness
\* check sees a request that is still pending.
AltEscapes == (passes.alt + 1) % AltPeriod = 0

-----------------------------------------------------------------------------
(* RequestRegistry, seen from the pump.  Requests and events of the ledger *)
(* pair off in order, so with one status word a completed request is       *)
(* backed by the oldest real event, ahead of the unclaimed ones.           *)

NewRegistry == [request |-> "none", unclaimed |-> 0, signals |-> 0, wakes |-> 0]

\* [this+0x54] holds KRequestPending.
Pending == registry.request = "pending"

\* _complete: KErrNone into the word, one signal, one entry of the wake log.
Completed(r) ==
  [r EXCEPT !.request = "completed", !.signals = @ + 1, !.wakes = @ + 1]

\* register_request: ignored while the word has a live request; a new one is
\* completed at once by an event that waits for it.
EventReady(r) ==
  IF r.request # "none" THEN r
  ELSE IF r.unclaimed = 0 THEN [r EXCEPT !.request = "pending"]
  ELSE Completed([r EXCEPT !.unclaimed = @ - 1])

\* on_event_enqueued with a real event: only a pending request is completed.
Enqueued(r) ==
  IF r.request = "pending" THEN Completed(r) ELSE [r EXCEPT !.unclaimed = @ + 1]

\* on_event_consumed: the oldest real event, and the request it completed.
Consumed(r) ==
  IF r.request = "completed" THEN [r EXCEPT !.request = "none"]
  ELSE [r EXCEPT !.unclaimed = @ - 1]

RealQueued == registry.request = "completed" \/ registry.unclaimed > 0

\* on_request_complete, called for the pump's own status: a signal, no wake.
OwnCompleted(r) == [r EXCEPT !.signals = @ + 1]

\* wait_for_any_request takes a signal if there is one, and then a wake if
\* there is one, whichever completion sent the signal.
Waited(r) ==
  IF r.signals = 0 THEN r
  ELSE [r EXCEPT !.signals = @ - 1, !.wakes = IF @ = 0 THEN 0 ELSE @ - 1]

-----------------------------------------------------------------------------
(* The game                                                                *)

\* Go from a to b, result r0 being in the register when the game is at a.
Go(a, b, r0) == at = a /\ at' = b /\ Trace(a, r0)

guestVars == <<registry, busy, own, ownActive, passes>>

\* The caller enters the pump with its own fields as the rest of the game left
\* them, and may have asked for the next event; so may a RunL.
GameSets ==
  /\ busy' \in BOOLEAN /\ own' \in {own, "pending"}
  /\ registry' \in {registry, EventReady(registry)}
  /\ UNCHANGED <<ownActive, passes>>

Enter == Go("caller", "gate", "-") /\ GameSets

EntryGate == Go("gate", IF Pending THEN "exit" ELSE "top", "-") /\ UNCHANGED guestVars

LoopTop == Go("top", IF Pending THEN "ownFlag" ELSE "flags", "-") /\ UNCHANGED guestVars

OwnFlag == Go("ownFlag", IF ownActive THEN "waitA" ELSE "exit", "-") /\ UNCHANGED guestVars

\* WaitForAnyRequest takes a signal, and returns when there is none.
Wait(a, b) ==
  /\ Go(a, b, "-")
  /\ registry' = Waited(registry)
  /\ UNCHANGED <<busy, own, ownActive, passes>>

WaitA == Wait("waitA", "afterA")
WaitB == Wait("waitB", "afterB")

AfterA ==
  /\ Go("afterA", "exit", "-")
  /\ ownActive' = (ownActive /\ own = "pending")
  /\ UNCHANGED <<registry, busy, own, passes>>

\* The pump completes its own request when nothing else is going on.
Flags ==
  /\ Go("flags", "waitB", "-")
  /\ IF busy \/ ownActive THEN UNCHANGED <<own, ownActive, registry>>
     ELSE own' = "idle" /\ ownActive' = TRUE /\ registry' = OwnCompleted(registry)
  /\ UNCHANGED <<busy, passes>>

Dispatch == (Go("afterB", "call", "-") \/ Go("call", "scan", "-")) /\ UNCHANGED guestVars

ScanSlots ==
  /\ Go("scan", IF TickEscapes THEN "none" ELSE "slot1", "-")
  /\ passes' = [passes EXCEPT !.tick = (@ + 1) % TickPeriod]
  /\ UNCHANGED <<registry, busy, own, ownActive>>

\* Slot 1 is the game's own object, active and ready as it pleases.
Slot1 ==
  \/ Go("slot1", "slot2", "-") /\ UNCHANGED guestVars
  \/ /\ \/ AltEscapes /\ Go("slot1", "slot2", "-")
        \/ ~AltEscapes /\ \E b \in {"runl", "slot2"} : Go("slot1", b, "-")
     /\ passes' = [passes EXCEPT !.alt = (@ + 1) % AltPeriod]
     /\ UNCHANGED <<registry, busy, own, ownActive>>

RunL == Go("runl", "found", "-") /\ GameSets

\* event_poll_gate shows the slot's flag set; its status [this+0x50], which only
\* the game writes, may still be KRequestPending.
Slot2 == (\E b \in {"event", "slot3"} : Go("slot2", b, "-")) /\ UNCHANGED guestVars

\* Slot 3 is like slot 1, with no patch; where it is not ready, none is.
Slot3 == (\E b \in {"runl", "none"} : Go("slot3", b, "-")) /\ UNCHANGED guestVars

\* The event slot calls GetEvent, which pops a NULL or the oldest real event,
\* and asks for the next event or does not.
EventSlot ==
  /\ Go("event", "found", "-")
  /\ \E r \in {registry} \cup (IF RealQueued THEN {Consumed(registry)} ELSE {}) :
       registry' \in {r, EventReady(r)}
  /\ UNCHANGED <<busy, own, ownActive, passes>>

SlotFound == Go("found", "top", "found") /\ UNCHANGED guestVars
NoneFound == Go("none", "final", "none") /\ UNCHANGED guestVars

\* RunIfReady always returns 0; the last three branches of the loop.
Final ==
  /\ at = "final" /\ Trace("final", "-")
  /\ LET leaves == ownActive /\ own # "pending"
     IN  /\ ownActive' = (ownActive /\ ~leaves)
         /\ at' = IF leaves /\ ~busy THEN "exit" ELSE "top"
  /\ UNCHANGED <<registry, busy, own, passes>>

Exit == Go("exit", "caller", "-") /\ UNCHANGED guestVars

\* Every instruction of the pump once it has been entered.
Inside ==
  \/ EntryGate \/ LoopTop \/ OwnFlag \/ WaitA \/ AfterA \/ Flags \/ WaitB
  \/ Dispatch \/ ScanSlots \/ Slot1 \/ RunL \/ Slot2 \/ Slot3 \/ EventSlot
  \/ SlotFound \/ NoneFound \/ Final \/ Exit

GameStep == Enter \/ Inside

\* A refill or the host enqueues a real event; one that enqueues only NULLs
\* changes nothing here.
EventArrives ==
  /\ Pending \/ registry.unclaimed < MaxUnclaimed
  /\ registry' = Enqueued(registry)
  /\ UNCHANGED <<at, busy, own, ownActive, passes, tracerVars>>

PumpInit ==
  /\ at = "caller" /\ registry = NewRegistry /\ busy = FALSE
  /\ own = "idle" /\ ownActive = FALSE
  /\ passes = [tick |-> 0, alt |-> 0]
  /\ tracer = NoRecord /\ closed = NoRecord /\ truth = Nothing /\ lost = FALSE

PumpNext == GameStep \/ EventArrives

-----------------------------------------------------------------------------
\* WaitTracer (wait_trace.py:295-354): every window is closed, by one cause,
\* before the next wait begins; what a record says of its window is what
\* happened in it, and all of it unless the record says it was truncated.
WindowsTellTheTruth ==
  /\ ~lost
  /\ closed # NoRecord =>
       LET r == closed.rec
           w == closed.was
       IN  /\ r.reentered \/ r.exited \/ r.truncated
           /\ ~(r.reentered /\ r.exited) /\ ~(r.truncated /\ (r.reentered \/ r.exited))
           /\ r.exited = (w.exited /\ ~r.truncated)
           /\ r.call => w.call
           /\ r.thunk => w.thunk
           /\ r.result \in {"unset", w.result}
           /\ ~r.truncated => r.call = w.call /\ r.thunk = w.thunk /\ r.result = w.result
           /\ r.site = "waitA" => ~r.call /\ ~r.thunk
=============================================================================
