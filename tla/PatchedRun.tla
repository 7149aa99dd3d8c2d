----------------------------- MODULE PatchedRun -----------------------------
(***************************************************************************)
(* The patches of patches.py that return from a call or force the game's   *)
(* module sub-state, and the body of run.py's code hook that dispatches    *)
(* them before the imports, in the order of the code.  (The three patches  *)
(* of the message pump are in Pump.)                                       *)
(*                                                                         *)
(* The game is an instruction stream: "place" is where the program counter *)
(* is, reduced to the addresses the hook distinguishes; it may jump to any *)
(* place, and an import or patch that returns brings it back to its caller.*)
(***************************************************************************)
EXTENDS Integers, FiniteSets, FiniteSetsExt

CONSTANTS
  DisableLists,  \* the sets of patches --disable-patch may name
  Dwell,         \* dwell of the module-19 sweep, 3_000_000 in the code
  MaxState,      \* its max_state, 12 in the code
  SubStates,     \* bound: sub-states the game itself gets to
  MaxInsn        \* --max-insn

ASSUME RunAssumption ==
  /\ Dwell \in Nat \ {0} /\ MaxState \in Nat
  /\ SubStates \subseteq Nat /\ MaxInsn \in Nat

VARIABLES
  off,        \* patches switched off
  fallback,   \* --text35-fallback
  place,      \* where the program counter is
  game,       \* module index and sub-state, in the game's memory
  done4,      \* "done" of module4_fastforward
  reached,    \* "reached_insn" of module19_sweep, -1 for None
  steps,      \* ctx.insn_count
  ready,      \* ready_flag: module 5 has been seen
  last,       \* what the hook made of the last instruction
  stopped,    \* "no", or why the emulation ended
  forced      \* ghost: the last sub-state a patch wrote, and over which

runVars == <<off, fallback, place, game, done4, reached, steps, ready, last, stopped, forced>>

PatchNames == {"gate1_force", "gate2_force", "animframe_bypass", "module4_fastforward",
               "module19_sweep", "skip_close_handler", "nullguard_page", "null_pc_trap",
               "fake_vtable_trap", "hal33_force_success"}

\* build_registry: where each patch intervenes (nullguard_page only maps memory).
PlaceOf ==
  [gate1_force |-> "gate1", gate2_force |-> "gate2", animframe_bypass |-> "anim",
   module4_fastforward |-> "switch4", module19_sweep |-> "update19",
   skip_close_handler |-> "close", nullguard_page |-> "nowhere", null_pc_trap |-> "null",
   fake_vtable_trap |-> "trap", hal33_force_success |-> "hal33"]

Imports == {"import", "stub", "hal33"}
Places == {"plain", "vcall", "label35", "sentinel", "gate1", "gate2", "anim",
           "switch4", "update19", "close"} \cup Imports

\* PatchManager: the enabled patches found at a place.
At(a) == {p \in PatchNames \ off : PlaceOf[p] = a}

NullPageMapped == "nullguard_page" \notin off

NoForce == [by |-> "none", from |-> 0, to |-> 0, target |-> 0, skips |-> 0]

-----------------------------------------------------------------------------
(* The patches                                                             *)

Here(to, r0, ran) == [at |-> place, to |-> to, r0 |-> r0, ran |-> ran]

\* _make_module4_fastforward: straight to sub-state 3, once.
FastForward ==
  IF done4 THEN UNCHANGED <<game, done4, reached, forced>>
  ELSE /\ done4' = TRUE
       /\ game' = [game EXCEPT !.sub = 3]
       /\ forced' = [by |-> "module4", from |-> game.sub, to |-> 3, target |-> 3,
                     skips |-> forced.skips + 1]
       /\ UNCHANGED reached

SweepTarget(start) == Min({(steps + 1 - start) \div Dwell, MaxState})

\* The sweep writes its target over any other sub-state.
SweepToTarget ==
  IF reached = -1 /\ game.module # 19 THEN UNCHANGED <<game, done4, reached, forced>>
  ELSE LET start == IF reached = -1 THEN steps + 1 ELSE reached
           target == SweepTarget(start)
       IN  /\ reached' = start
           /\ game' = [game EXCEPT !.sub = target]
           /\ forced' = [forced EXCEPT !.by = "sweep", !.from = game.sub,
                                       !.to = target, !.target = target]
           /\ UNCHANGED done4

\* _make_module19_sweep: from the first update in module 19 on, the sub-state
\* keeps at least the pace of the schedule.
Sweep ==
  IF reached = -1 /\ game.module # 19 THEN UNCHANGED <<game, done4, reached, forced>>
  ELSE LET start == IF reached = -1 THEN steps + 1 ELSE reached
           target == SweepTarget(start)
       IN  /\ reached' = start
           /\ IF target > game.sub
              THEN /\ game' = [game EXCEPT !.sub = target]
                   /\ forced' = [forced EXCEPT !.by = "sweep", !.from = game.sub,
                                               !.to = target, !.target = target]
              ELSE UNCHANGED <<game, forced>>
           /\ UNCHANGED done4

\* What the patches at this place do to the sub-state.
ForceSubstate ==
  CASE At(place) = {"module4_fastforward"} -> FastForward
    [] At(place) = {"module19_sweep"} -> Sweep
    [] OTHER -> UNCHANGED <<game, done4, reached, forced>>

\* _animframe_bypass answers for the animation only when its table is null and
\* both results can be stored; otherwise the function runs.
AnimEmpty(table, out) == table = "null" /\ out = "writable"

\* PatchManager.dispatch: TRUE when a patch returned from the call.  The traps
\* answer 0, the HAL query 1, and the close handler leaves r0 alone.
PatchReturns(table, out) ==
  \/ At(place) \cap {"null_pc_trap", "fake_vtable_trap", "hal33_force_success",
                     "skip_close_handler"} # {}
  \/ "animframe_bypass" \in At(place) /\ AnimEmpty(table, out)

PatchedR0 ==
  CASE place \in {"null", "trap", "gate1", "gate2"} /\ At(place) # {} -> "0"
    [] place = "hal33" /\ At(place) # {} -> "1"
    [] OTHER -> "kept"

-----------------------------------------------------------------------------
(* _hook_code_body                                                         *)

ToCaller == place' = "plain" /\ UNCHANGED <<ready, stopped>>

\* The label the game cannot decode is answered from its own text buffer.
Label35(holder) ==
  /\ place = "label35" /\ fallback /\ holder
  /\ last' = Here("caller", "text", "none") /\ ToCaller
  /\ UNCHANGED <<game, done4, reached, forced>>

Patched(table, out) ==
  /\ PatchReturns(table, out)
  /\ last' = Here("caller", PatchedR0, "none") /\ ToCaller
  /\ ForceSubstate

\* An import is answered by its handler, or by the stub that returns 0.
Import(table, out) ==
  /\ place \in Imports /\ ~PatchReturns(table, out)
  /\ last' = Here("caller", IF place = "import" THEN "value" ELSE "0",
                  IF place = "import" THEN "handler" ELSE "stub")
  /\ ToCaller /\ ForceSubstate

Sentinel ==
  /\ place = "sentinel"
  /\ last' = Here("stop", "kept", "none")
  /\ stopped' = "sentinel"
  /\ UNCHANGED <<place, game, done4, reached, forced, ready>>

\* A virtual call through an object never constructed lands in the trap its
\* vtable points to, or in the null page when nothing stamped the object: raw
\* storage never is, and without the trap no object is.  Module 4 has its own
\* update: its switch runs in no other module, and that of module 19 not in it.
NextPlaces ==
  IF place = "vcall"
  THEN {"null"} \cup (IF "fake_vtable_trap" \notin off THEN {"trap"} ELSE {})
  ELSE IF place = "null" THEN {"null", "offpage"}
  ELSE Places \ {IF game.module = 4 THEN "update19" ELSE "switch4"}

\* The accesses of an instruction that are not mapped: a write to the null page
\* never is, a read when the page is off.
BadAccesses ==
  IF place # "plain" THEN {}
  ELSE {"null write"} \cup (IF NullPageMapped THEN {} ELSE {"null read"})

\* Any other instruction executes; only now are the module index and the
\* limit looked at.
Plain(table, out, holder) ==
  /\ place \notin Imports \cup {"sentinel"}
  /\ ~(place = "label35" /\ fallback /\ holder)
  /\ ~PatchReturns(table, out)
  /\ last' = Here("next", PatchedR0, "none")
  /\ ForceSubstate
  /\ ready' = (ready \/ game'.module = 5)
  /\ IF steps + 1 >= MaxInsn THEN stopped' = "limit" ELSE stopped' \in {"no"} \cup BadAccesses
  /\ place' \in NextPlaces

\* hook_mem_invalid lets every fault stop the run, and a fault in fetching an
\* instruction comes before the hook.
FetchFault ==
  /\ place = "offpage" \/ (place = "null" /\ ~NullPageMapped)
  /\ stopped' = "bad fetch" /\ last' = Here("fault", "kept", "none")
  /\ UNCHANGED <<place, game, done4, reached, forced, ready, steps>>

Instruction ==
  /\ stopped = "no" /\ UNCHANGED <<off, fallback>>
  /\ \/ FetchFault
     \/ /\ place # "offpage" /\ (place = "null" => NullPageMapped)
        /\ steps' = steps + 1
        /\ \E table \in IF place = "anim" THEN {"null", "set"} ELSE {"set"},
              out \in IF place = "anim" THEN {"writable", "bad"} ELSE {"bad"},
              holder \in IF place = "label35" THEN BOOLEAN ELSE {FALSE} :
             \/ Label35(holder) \/ Patched(table, out) \/ Import(table, out)
             \/ Sentinel \/ Plain(table, out, holder)

\* Between two calls the game changes module and sub-state by itself.
GameMoves ==
  /\ stopped = "no" /\ place = "plain"
  /\ \E m \in {4, 5, 19}, s \in SubStates :
       /\ m = 4 => s <= 3
       /\ game' = [module |-> m, sub |-> s] /\ game' # game
  /\ UNCHANGED <<off, fallback, place, done4, reached, steps, ready, last, stopped, forced>>

RunInit ==
  /\ off \in DisableLists /\ fallback \in BOOLEAN
  /\ place = "plain" /\ game = [module |-> 4, sub |-> 0]
  /\ done4 = FALSE /\ reached = -1 /\ steps = 0 /\ ready = FALSE
  /\ last = [at |-> "none", to |-> "next", r0 |-> "kept", ran |-> "none"]
  /\ stopped = "no" /\ forced = NoForce

RunNext == Instruction \/ GameMoves

-----------------------------------------------------------------------------
\* patches.py:143-189: a patch never puts the game's sub-state back nor ahead
\* of its schedule, and the wait loop of module 4 is skipped once.
ForcedForward ==
  /\ forced.by # "none" => forced.to >= forced.from /\ forced.to = forced.target
  /\ forced.skips <= 1

\* patches.py:340-397: while the null page and its trap are on, a call through
\* an object never constructed comes back with 0, whatever else is off, and
\* the run never ends because such a call led nowhere.
NullCallsReturn ==
  {"nullguard_page", "null_pc_trap"} \cap off = {} =>
    /\ stopped # "bad fetch"
    /\ last.at \in {"null", "trap"} => last.to = "caller" /\ last.r0 = "0"

\* run.py:876-902: every call of an import comes back, answered once, by the
\* patch that forces it or by the dispatch table.
ImportsAreAnsweredOnce ==
  last.at \in Imports =>
    /\ last.to = "caller"
    /\ (last.ran = "none") = (last.at = "hal33" /\ "hal33_force_success" \notin off)

\* run.py:951: calls do not look at the limit, and yet none of them carries
\* the run further than one instruction past it.
StopsInTime ==
  /\ steps <= MaxInsn + 1
  /\ stopped = "limit" => steps >= MaxInsn
=============================================================================
