---------------------------- MODULE SyncInjector ----------------------------
(***************************************************************************)
(* The state-synchronized key sequencer (class SyncKeyInjector of          *)
(* runtime/sync_injector.py), as functions on its record of fields.  It    *)
(* produces the events of EventQueue's refill, and it hears from the       *)
(* registry which events the game has consumed.                            *)
(*                                                                         *)
(* Every time stamp is kept as its distance from the present, in steps of  *)
(* the instruction clock (Elapsed moves the present on).  A stamp further  *)
(* back than the stall budget is kept at Long: no comparison of the code   *)
(* tells two such stamps apart.                                            *)
(***************************************************************************)
EXTENDS Events

CONSTANTS
  NavKeys,      \* nav_remaining at the start: scan codes
  Phase1Keys,   \* PHASE1_KEYS
  Phase2Keys,   \* PHASE2_KEYS
  MaxKeys,      \* max_keys; any number beyond the keys there are: no limit
  MinGap,       \* min_gap_insn
  KeyHold,      \* key_hold_insn
  FirstKeyHold, \* first_key_hold_insn
  StallBudget,  \* STALL_BUDGET_INSN
  RequireScan   \* require_post_release_scan (--sync-release-on-game-scan)

ASSUME InjectorAssumption ==
  /\ NavKeys \in Seq(Scan)
  /\ Phase1Keys \in Seq(Scan)
  /\ Phase2Keys \in Seq(Scan)
  /\ {MaxKeys, MinGap, KeyHold, FirstKeyHold} \subseteq Nat
  /\ StallBudget \in Nat \ {0}
  /\ RequireScan \in BOOLEAN

Modules == {"boot", "module5", "module28"}  \* MODULE_INDEX_GLOBAL: 5, 28, other
Roles   == {"down", "key", "up"}
States  == {"WAIT_MODULE5", "NAV_READY", "READY", "AWAITING_CONSUMPTION",
            "AWAITING_NEW_PENDING", "WAIT_PHASE_BOUNDARY", "SINGLE_KEY_HALT",
            "DONE"}

Keys     == Phase1Keys \o Phase2Keys        \* build_full_sequence
Phase(n) == IF n <= Len(Phase1Keys) THEN 1 ELSE 2

Long   == -(StallBudget + 1)
Later(m, n)   == IF m >= n THEN m ELSE n
Earlier(m, n) == IF m <= n THEN m ELSE n

Injector ==
  [state     : States,
   stalled   : BOOLEAN,
   nav       : Seq(Scan),                \* nav_remaining
   idx       : 0..Len(Keys),             \* phase keys sent so far
   origin    : {"none", "nav", "phase"}, \* current_origin
   scan      : Scan \cup {"none"},       \* the key of current_item
   ids       : [Roles -> Nat],           \* current_event_ids
   consumed  : SUBSET Roles,             \* consumed_roles
   hold      : {KeyHold, FirstKeyHold},  \* current_hold_insn
   released  : BOOLEAN,                  \* release_appended
   releaseAt : Long..Later(KeyHold, FirstKeyHold), \* release_not_before
   sentAt    : Long..0,                  \* awaiting_consumption_since
   closedAt  : Long..0,                  \* awaiting_new_pending_since
   nextAt    : Long..MinGap,             \* next_key_not_before
   scanSeen  : BOOLEAN,                  \* post_release_scan_seen
   boundary  : BOOLEAN]                  \* phase2_boundary_cleared

Start ==
  [state     |-> "WAIT_MODULE5",
   stalled   |-> FALSE,
   nav       |-> NavKeys,
   idx       |-> 0,
   origin    |-> "none",
   scan      |-> "none",
   ids       |-> [r \in Roles |-> 0],
   consumed  |-> {},
   hold      |-> KeyHold,
   released  |-> TRUE,
   releaseAt |-> Long,
   sentAt    |-> Long,
   closedAt  |-> Long,
   nextAt    |-> Long,
   scanSeen  |-> TRUE,
   boundary  |-> FALSE]

\* Some instructions are executed.
Back(t) == Later(t - 1, Long)
Elapsed(i) ==
  [i EXCEPT !.releaseAt = Back(i.releaseAt), !.sentAt = Back(i.sentAt),
            !.closedAt = Back(i.closedAt),   !.nextAt = Back(i.nextAt)]

-----------------------------------------------------------------------------
\* on_event_consumed_hook: GetEvent has handed the event id to the game.
ConsumedRoles(i, id) == i.consumed \cup {r \in Roles : i.ids[r] = id}

Consumed(i, id) ==
  IF i.state # "AWAITING_CONSUMPTION" THEN i
  ELSE IF ConsumedRoles(i, id) # Roles
  THEN [i EXCEPT !.consumed = ConsumedRoles(i, id)]
  ELSE [i EXCEPT !.consumed = Roles,
                 !.state = "AWAITING_NEW_PENDING",
                 !.closedAt = 0,
                 !.nextAt = MinGap,
                 !.scanSeen = ~RequireScan]

\* on_game_key_scan: the game has scanned its keys, with or without an edge.
GameKeyScan(i, edge) ==
  CASE i.state = "AWAITING_CONSUMPTION" /\ ~i.released /\ edge ->
         [i EXCEPT !.releaseAt = Earlier(i.releaseAt, 0)]
    [] i.state = "AWAITING_NEW_PENDING" -> [i EXCEPT !.scanSeen = TRUE]
    [] OTHER -> i

-----------------------------------------------------------------------------
\* What refill makes of the injector, and what it appends.
Idle(i) == [inj |-> i, batch |-> <<Null>>]

Release(s) == <<KeyUp(s)>> \o Nulls(GapNulls)

\* _append_burst: with a hold the key-up is not queued yet.
KeyBurst(s, hold) ==
  <<Null, KeyDown(s)>> \o Nulls(GapNulls) \o <<Key(s)>> \o Nulls(HoldNulls)
    \o (IF hold = 0 THEN Release(s) ELSE <<>>)

\* The injector with the key s of the given origin in flight: its events have
\* the ids from first on, its key-up is due in releaseIn unless hold is 0.
InFlight(i, origin, s, hold, first, releaseIn) ==
  [inj |->
     [i EXCEPT !.state = "AWAITING_CONSUMPTION",
               !.origin = origin,
               !.scan = s,
               !.ids = [down |-> first, key |-> first + 1, up |-> first + 2],
               !.consumed = {},
               !.hold = hold,
               !.released = (hold = 0),
               !.releaseAt = IF hold = 0 THEN i.releaseAt ELSE releaseIn,
               !.sentAt = 0,
               !.idx = IF origin = "phase" THEN i.idx + 1 ELSE i.idx],
   batch |-> KeyBurst(s, hold)]

\* Variants: ids foreseen one too high; the gap added to the hold.
SentIdsAhead(i, origin, s, hold, next) ==
  InFlight(i, origin, s, hold, next + 1, hold)
SentHoldAndGap(i, origin, s, hold, next) ==
  InFlight(i, origin, s, hold, next, hold + MinGap)

\* _send_tracked_key: next is the id the registry gives to the next event.
Sent(i, origin, s, hold, next) == InFlight(i, origin, s, hold, next, hold)

\* The next key of the sequence; the very first has a hold of its own.
NextPhaseKey(i, next) ==
  Sent(i, "phase", Keys[i.idx + 1],
       IF i.idx = 0 THEN FirstKeyHold ELSE KeyHold, next)

\* READY without the phase boundary check.
ReadyNoBoundary(i, next) ==
  CASE i.idx >= MaxKeys   -> Idle([i EXCEPT !.state = "SINGLE_KEY_HALT"])
    [] i.idx < MaxKeys /\ i.idx >= Len(Keys) ->
         Idle([i EXCEPT !.state = "DONE"])
    [] OTHER -> NextPhaseKey(i, next)

\* READY without max_keys.
ReadyNoCap(i, next) ==
  CASE i.idx >= Len(Keys) -> Idle([i EXCEPT !.state = "DONE"])
    [] i.idx < Len(Keys) /\ Phase(i.idx + 1) = 2 /\ ~i.boundary ->
         Idle([i EXCEPT !.state = "WAIT_PHASE_BOUNDARY"])
    [] OTHER -> NextPhaseKey(i, next)

\* READY: halt, finish, stop at the phase boundary, or send the next key.
Ready(i, next) ==
  CASE i.idx >= MaxKeys   -> Idle([i EXCEPT !.state = "SINGLE_KEY_HALT"])
    [] i.idx < MaxKeys /\ i.idx >= Len(Keys) ->
         Idle([i EXCEPT !.state = "DONE"])
    [] i.idx < MaxKeys /\ i.idx < Len(Keys)
         /\ Phase(i.idx + 1) = 2 /\ ~i.boundary ->
         Idle([i EXCEPT !.state = "WAIT_PHASE_BOUNDARY"])
    [] OTHER -> NextPhaseKey(i, next)

\* NAV_READY: the next navigation key, or on to phase 1 in the same call.
NavReady(i, next) ==
  IF i.nav # <<>>
  THEN Sent([i EXCEPT !.nav = Tail(i.nav)], "nav", Head(i.nav), KeyHold, next)
  ELSE Ready([i EXCEPT !.state = "READY"], next)

\* AWAITING_CONSUMPTION: append the key-up when it is due; a call that did not
\* do so stalls once the budget, counted from the release, is spent.
FixedDeadline(i) == i.sentAt + StallBudget    \* not counted from the release

ConsumptionDeadline(i) ==
  Later(i.sentAt + StallBudget,
        IF i.hold > 0 THEN i.releaseAt + StallBudget ELSE Long)

\* ... without a stall budget (the harness before the v223 fix).
AwaitForever(i) ==
  IF ~i.released /\ i.releaseAt <= 0
  THEN [inj |-> [i EXCEPT !.released = TRUE], batch |-> Release(i.scan)]
  ELSE Idle(i)

AwaitConsumption(i) ==
  IF ~i.released /\ i.releaseAt <= 0
  THEN [inj |-> [i EXCEPT !.released = TRUE], batch |-> Release(i.scan)]
  ELSE Idle([i EXCEPT !.stalled = ConsumptionDeadline(i) < 0])

\* AWAITING_NEW_PENDING without a stall budget ...
AwaitNoStall(i, pending, next) ==
  IF pending /\ i.nextAt <= 0 /\ i.scanSeen
  THEN IF i.origin = "nav"
       THEN [inj |-> [i EXCEPT !.state = "NAV_READY"], batch |-> <<>>]
       ELSE Ready([i EXCEPT !.state = "READY"], next)
  ELSE Idle(i)

\* ... and moving on after the gap alone, as on a blind timer.
AwaitGapOnly(i, pending, next) ==
  IF i.nextAt <= 0
  THEN IF i.origin = "nav"
       THEN [inj |-> [i EXCEPT !.state = "NAV_READY"], batch |-> <<>>]
       ELSE Ready([i EXCEPT !.state = "READY"], next)
  ELSE Idle(i)

\* AWAITING_NEW_PENDING: a waiting request, the gap and the scan open the way
\* to the next key.  After a phase key it is sent in the same call; after a
\* navigation key the call ends with nothing appended.
AwaitNewPending(i, pending, next) ==
  IF pending /\ i.nextAt <= 0 /\ i.scanSeen
  THEN IF i.origin = "nav"
       THEN [inj |-> [i EXCEPT !.state = "NAV_READY"], batch |-> <<>>]
       ELSE Ready([i EXCEPT !.state = "READY"], next)
  ELSE Idle([i EXCEPT !.stalled =
               Later(i.nextAt, i.closedAt + StallBudget) < 0 /\ ~pending])

\* refill while not stalled: one branch per state, some of them passing control
\* on to the next in the same call.
Advance(i, mod, pending, next) ==
  CASE i.state = "WAIT_MODULE5" ->
         IF mod = "module5" THEN NavReady([i EXCEPT !.state = "NAV_READY"], next)
         ELSE Idle(i)
    [] i.state = "NAV_READY" -> NavReady(i, next)
    [] i.state = "WAIT_PHASE_BOUNDARY" ->
         IF mod = "module28" /\ pending
         THEN Ready([i EXCEPT !.state = "READY", !.boundary = TRUE], next)
         ELSE Idle(i)
    [] i.state = "AWAITING_CONSUMPTION" -> AwaitConsumption(i)
    [] i.state = "AWAITING_NEW_PENDING" -> AwaitNewPending(i, pending, next)
    [] i.state = "READY" -> Ready(i, next)
    [] i.state \in {"SINGLE_KEY_HALT", "DONE"} -> Idle(i)

\* refill.  mod is the module the game is in, pending whether some request of
\* the registry is PENDING.
Refill(i, mod, pending, next) ==
  IF i.stalled THEN Idle(i) ELSE Advance(i, mod, pending, next)
=============================================================================
