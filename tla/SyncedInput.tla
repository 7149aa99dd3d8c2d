---------------------------- MODULE SyncedInput ----------------------------
(***************************************************************************)
(* The async model with the state-synchronized injector as the refill of   *)
(* its queue (run.py under --async-request-model --sync-key-injector).     *)
(* The injector reads the registry when it produces, hears from it what    *)
(* GetEvent delivered, and watches the module the game is in; the game is  *)
(* the environment.  Nobody peeks, cancels or pushes here: no code of this *)
(* configuration does.                                                     *)
(***************************************************************************)
EXTENDS AsyncModel, SyncInjector

VARIABLES
  inj,      \* the fields of SyncKeyInjector
  module    \* the word at MODULE_INDEX_GLOBAL, in guest memory

syncVars == <<q, reg, running, inj, module>>

SyncInit ==
  /\ Init
  /\ inj = Start
  /\ module = "boot"

-----------------------------------------------------------------------------
SomePending == InState(reg, "PENDING") # {}

\* What the injector does if the queue calls it now.
Refilled == Refill(inj, module, SomePending, reg.nextEvent)

\* wrap_get_event reports the event e, popped while the registry was r.
Acked(i, e, r) ==
  IF e = Null \/ r.eventFifo = <<>> THEN i
  ELSE Consumed(i, Head(r.eventFifo).id)

Tick ==
  /\ \E out \in {Refilled} :
       /\ ProduceTick(out.batch)
       /\ inj' = out.inj
  /\ UNCHANGED module

Fetch ==
  /\ GetEvent
  /\ inj' = Acked(inj, Head(q), reg)
  /\ UNCHANGED module

\* On an empty queue the injector is called first, and may append nothing.
FetchAfterRefill ==
  /\ \E out \in {Refilled} :
       \/ /\ GetEventAfterRefill(out.batch)
          /\ inj' = Acked(out.inj, Head(out.batch),
                          OnEventsEnqueued(reg, Reals(out.batch)))
       \/ /\ GetEventStarved(out.batch)
          /\ inj' = out.inj
  /\ UNCHANGED module

\* The game's own calls.
Asks(a) == Notify(a) /\ UNCHANGED <<inj, module>>
Completes(a, reason) == Complete(a, reason) /\ UNCHANGED <<inj, module>>
Waits   == Wait /\ UNCHANGED <<inj, module>>

\* The game's key scan at 0x4305FC, hooked under --sync-release-on-game-scan.
ScansKeys(edge) ==
  /\ RequireScan
  /\ inj' = GameKeyScan(inj, edge)
  /\ UNCHANGED <<q, reg, running, module>>

EntersModule(m) ==
  /\ m # module
  /\ module' = m
  /\ UNCHANGED <<q, reg, running, inj>>

\* Time passes: the instruction counter of the hook goes on.
Elapse ==
  /\ inj' = Elapsed(inj)
  /\ UNCHANGED <<q, reg, running, module>>

SyncNext ==
  /\ running
  /\ \/ Tick \/ Fetch \/ FetchAfterRefill
     \/ \E a \in NotifyAddr : Asks(a)
     \/ \E a \in SelfAddr, reason \in Reasons : Completes(a, reason)
     \/ Waits
     \/ \E edge \in BOOLEAN : ScansKeys(edge)
     \/ \E m \in Modules : EntersModule(m)
     \/ Elapse

SyncSpec == SyncInit /\ [][SyncNext]_syncVars

\* While the emulator runs, its instruction counter grows, and the hook ticks
\* the producer each time it passes a multiple of EVENT_PRODUCE_INTERVAL.  No
\* fairness for the game: it need never ask, fetch, scan or change module.
FairSyncSpec ==
  SyncSpec /\ WF_syncVars(running /\ Tick) /\ WF_syncVars(running /\ Elapse)

-----------------------------------------------------------------------------
SyncTypeOK ==
  /\ TypeOK
  /\ inj \in Injector
  /\ module \in Modules

EventOf(role, s) ==
  CASE role = "down" -> KeyDown(s) [] role = "key" -> Key(s)
    [] role = "up" -> KeyUp(s)

\* Roles of the key in flight that were queued and not yet delivered.
Outstanding ==
  {r \in Roles \ inj.consumed : r = "up" => inj.released}

\* One key in flight, under the ids foreseen for it: the registry's ledger
\* holds exactly what the game has not fetched of the current key, each event
\* under the id that _send_tracked_key predicted before it was enqueued, and
\* between two keys it is empty.  (A wrong prediction, a key sent early or an
\* event of another source would make the injector wait for an id that never
\* comes, or confirm a key by the events of another.)
LedgerIsTheKeyInFlight ==
  IF inj.state = "AWAITING_CONSUMPTION"
  THEN {[id |-> e.id, event |-> e.event] : e \in ToSet(reg.eventFifo)} =
         {[id |-> inj.ids[r], event |-> EventOf(r, inj.scan)] : r \in Outstanding}
  ELSE reg.eventFifo = <<>>

\* A key the game may have seen go down is never left down: a stall is never
\* declared, and the next key never considered, while its key-up is held back,
\* even when the hold is longer than the stall budget (comment at
\* sync_injector.py:312-316).
NoStuckKey ==
  inj.stalled \/ inj.state # "AWAITING_CONSUMPTION" => inj.released

\* A key event enters the queue only for a game that listens: every key but
\* the first is sent while a request waits.  After a navigation key the check
\* is one refill older than the sending; it still holds then because only an
\* event can take the waiting request away.
KeysMeetARequest ==
  [][LET newKey == inj'.ids # inj.ids
     IN  newKey /\ inj.ids["down"] # 0 => SomePending]_syncVars

\* The first phase-2 key is sent in module 28, with a request waiting, and no
\* phase key before the one in front of it was delivered to the last event, and
\* the order of the sequence is kept.
PhaseBoundaryHolds ==
  [][inj'.idx # inj.idx =>
       /\ inj'.idx = inj.idx + 1 /\ inj'.scan = Keys[inj'.idx]
       /\ reg.eventFifo = <<>>
       /\ inj'.idx = Len(Phase1Keys) + 1 => module = "module28" /\ SomePending
    ]_syncVars

\* A stall is final ("stall-and-report, never blind-continue",
\* sync_injector.py:24-26): nothing real is queued after it, even when the late
\* consumption of the key arrives and a new request is waiting.
StallIsFinal == [][inj.stalled => reg'.nextEvent = reg.nextEvent]_syncVars

\* max_keys is a promise about the queue: the real events ever produced are at
\* most three for each navigation key and each permitted phase key, however
\* long the game goes on asking ("no further key will EVER be sent regardless
\* of game state", sync_injector.py:348-349).
AtMostMaxKeys == reg.nextEvent - 1 <= 3 * (Len(NavKeys) + MaxKeys)

\* No silent wait: a key in flight is confirmed, or its stall is reported, or
\* the run has ended, whatever the game does (comment v223 FIX at
\* sync_injector.py:166-175).
KeyInFlightResolves ==
  inj.state = "AWAITING_CONSUMPTION" ~>
    (inj.state # "AWAITING_CONSUMPTION" \/ inj.stalled \/ ~running)

\* The same after the confirmation: the next key is prepared or the stall
\* reported.
NextKeyOrStall ==
  inj.state = "AWAITING_NEW_PENDING" ~>
    (inj.state # "AWAITING_NEW_PENDING" \/ inj.stalled \/ ~running)

\* A refill supplies something whenever the queue has run dry (docstring of
\* EventQueue, input.py:75-78), so that GetEvent always has an event to pop.
GetEventAlwaysAnswers == running
=============================================================================
