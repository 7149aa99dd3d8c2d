------------------------------ MODULE Research ------------------------------
(***************************************************************************)
(* The scripted key producers and the observers of research_v209.py, fed   *)
(* by the code hook of run.py: the refill of the blind key script and of   *)
(* the idle-wait experiment, the read-watches, the snapshot recorder.      *)
(*                                                                         *)
(* An instruction is an import the hook answers (it returns before the     *)
(* observers) or any other.  The event queue a refill appends to is        *)
(* EventQueue; here only whether it is empty matters.                      *)
(***************************************************************************)
EXTENDS Events, FiniteSets

CONSTANTS
  Script,        \* build_key_sequence or build_pre_idle_sequence
  PostKey,       \* --idle-wait-post-key, or NoKeyAfter
  NoKeyAfter,    \* no further key
  IdleUntil,     \* --idle-wait-until-insn
  TickInterval,  \* EVENT_PRODUCE_INTERVAL, 2000 in the code
  Interval,      \* --snapshot-interval
  WatchDuration, \* READ_WATCH_DURATION
  OutParamLimit, \* ws32_outparam_watch_count limit, 8 in the code
  Objects,       \* game objects that may be watched
  MaxSteps,      \* bound: instructions executed
  MaxReads       \* bound: reads counted of one object

ASSUME ResearchAssumption ==
  /\ TickInterval \in Nat \ {0} /\ Interval \in Nat \ {0, 1} /\ WatchDuration \in Nat \ {0}
  /\ Script \in Seq(Scan) /\ PostKey \in Scan \cup {NoKeyAfter} /\ IdleUntil \in Nat

VARIABLES
  variant,    \* the refill built: "scripted" or "idle"
  ticking,    \* an async registry is there, so the producer ticks
  count,      \* ctx.insn_count
  afterImport,\* the last instruction was an import
  released,   \* ready_flag, as the instruction that set it, -1 before
  rest,       \* remaining keys of the script
  phase,      \* of the idle experiment: "pre", "idle_wait", "post"
  postSent,
  keys,       \* ghost: keys produced, and at which instruction
  watch,      \* per object: _active_read_watches (end_insn, -1 for none), read
              \* hooks in the emulator, read_watch_registry (reads counted)
  dumped,     \* _dumped_objects
  atlas,      \* atlas_watches
  outParams,  \* ws32_outparam_watch_count
  counted,    \* ghost: every read any watch of an object has counted
  timeline    \* SnapshotRecorder.timeline

scriptVars == <<variant, ticking, rest, phase, postSent, keys>>
watchVars == <<watch, dumped, atlas, outParams, counted>>
researchVars == <<count, afterImport, released, scriptVars, watchVars, timeline>>

-----------------------------------------------------------------------------
(* Refills: what one call appends, and the state it leaves                 *)

Idle(r, p, s) == [batch |-> <<Null>>, rest |-> r, phase |-> p, postSent |-> s]

NextKey == [batch |-> Burst(Head(rest)), rest |-> Tail(rest), phase |-> phase,
            postSent |-> postSent]

\* make_scripted_refill after the gate.
ScriptedRefill == IF rest # <<>> THEN NextKey ELSE Idle(rest, phase, postSent)

\* make_idle_then_key_refill after the gate: the script, idling until the
\* given instruction, one key, idling.
IdleRefill ==
  IF phase = "pre" /\ rest # <<>> THEN NextKey
  ELSE IF phase # "post" /\ count + 1 < IdleUntil THEN Idle(rest, "idle_wait", postSent)
  ELSE IF postSent \/ PostKey = NoKeyAfter THEN Idle(rest, "post", postSent)
  ELSE [batch |-> Burst(PostKey), rest |-> rest, phase |-> "post", postSent |-> TRUE]

\* Until module 5 has been seen, nothing of the script is spent.
Refill ==
  IF released = -1 THEN Idle(rest, phase, postSent)
  ELSE IF variant = "scripted" THEN ScriptedRefill ELSE IdleRefill

Produce ==
  /\ rest' = Refill.rest /\ phase' = Refill.phase /\ postSent' = Refill.postSent
  /\ LET pressed == Reals(Refill.batch)
     IN  keys' = IF pressed = <<>> THEN keys
                 ELSE Append(keys, [scan |-> Head(pressed).scan, insn |-> count + 1])
  /\ UNCHANGED <<variant, ticking>>

TickDue == ticking /\ (count + 1) % TickInterval = 0

\* GetEvent refills the queue when it is empty, which it is not after a tick.
ProduceAt(getEvent) ==
  IF TickDue \/ getEvent THEN Produce ELSE UNCHANGED scriptVars

-----------------------------------------------------------------------------
(* Read-watches                                                            *)

\* register_read_watch: fresh statistics, which replace those of the last
\* watch of the same object; an object that is watched is left alone.
Registered(w, o, duration) ==
  IF w.until[o] # -1 THEN w
  ELSE [until |-> [w.until EXCEPT ![o] = count + 1 + duration],
        hooks |-> [w.hooks EXCEPT ![o] = @ + 1],
        registry |-> [w.registry EXCEPT ![o] = 0]]

\* expire_read_watches: the hook goes with the watch, the statistics stay.
Expired(w) ==
  LET done == {o \in Objects : w.until[o] # -1 /\ count + 1 >= w.until[o]}
  IN  [w EXCEPT !.until = [o \in Objects |-> IF o \in done THEN -1 ELSE @[o]],
                !.hooks = [o \in Objects |-> IF o \in done THEN @[o] - 1 ELSE @[o]]]

\* The buffer of an import with no handler is watched, the first few times;
\* an import returns before the expiry.
OutParam(o) ==
  /\ outParams < OutParamLimit /\ outParams' = outParams + 1
  /\ watch' = Registered(watch, o, 1)
  /\ UNCHANGED <<dumped, atlas, counted>>

\* slot_text_object_deepdump: the first time an object is met it is dumped and
\* watched, if it can be read; every other time it is watched again.
DeepDump(o, canRead) ==
  /\ dumped' = dumped \cup {o}
  /\ watch' = Expired(IF o \in dumped \/ canRead THEN Registered(watch, o, WatchDuration)
                      ELSE watch)
  /\ UNCHANGED <<atlas, outParams, counted>>

\* text_raster_copy: a range of the glyph atlas is watched once.
AtlasCopy(o) ==
  /\ o \notin atlas /\ atlas' = atlas \cup {o}
  /\ watch' = Expired(Registered(watch, o, 2 * WatchDuration))
  /\ UNCHANGED <<dumped, outParams, counted>>

NoProbe ==
  /\ watch' = Expired(watch)
  /\ UNCHANGED <<dumped, atlas, outParams, counted>>

\* The instruction reads a field of an object; each of its hooks counts it.
Reading(o) ==
  LET w == Expired(watch)
  IN  /\ w.hooks[o] > 0 /\ counted[o] < MaxReads
      /\ watch' = [w EXCEPT !.registry[o] = @ + w.hooks[o]]
      /\ counted' = [counted EXCEPT ![o] = @ + 1]
      /\ UNCHANGED <<dumped, atlas, outParams>>

-----------------------------------------------------------------------------
(* SnapshotRecorder.maybe_snapshot                                         *)

NextAt == Interval * (Len(timeline) + 1)

MaybeSnapshot ==
  timeline' = IF count + 1 < NextAt THEN timeline ELSE Append(timeline, count + 1)

-----------------------------------------------------------------------------
(* hook_code, one instruction at a time                                    *)

\* An import is reached by a branch, so two never follow each other.
ImportCall ==
  /\ ~afterImport /\ count < MaxSteps
  /\ count' = count + 1 /\ afterImport' = TRUE
  /\ \/ \E getEvent \in BOOLEAN :
          (getEvent => ~TickDue) /\ ProduceAt(getEvent) /\ UNCHANGED watchVars
     \/ ProduceAt(FALSE) /\ \E o \in Objects : OutParam(o)
  /\ UNCHANGED <<released, timeline>>

\* Any other instruction: the probes and the expiry, the release of the script
\* once the module index is 5, the snapshot; then what the game reads.
OtherInstruction ==
  /\ count < MaxSteps
  /\ count' = count + 1 /\ afterImport' = FALSE
  /\ ProduceAt(FALSE)
  /\ \/ NoProbe
     \/ \E o \in Objects : \/ Reading(o) \/ AtlasCopy(o)
                           \/ \E canRead \in BOOLEAN : DeepDump(o, canRead)
  /\ \E module5 \in BOOLEAN :
       released' = IF released = -1 /\ module5 THEN count + 1 ELSE released
  /\ MaybeSnapshot

ResearchInit ==
  /\ variant \in {"scripted", "idle"} /\ ticking \in BOOLEAN
  /\ count = 0 /\ afterImport = FALSE /\ released = -1
  /\ rest = Script /\ phase = "pre" /\ postSent = FALSE /\ keys = <<>>
  /\ LET zeros == [o \in Objects |-> 0]
     IN  /\ watch = [until |-> [o \in Objects |-> -1], hooks |-> zeros, registry |-> zeros]
         /\ counted = zeros
  /\ dumped = {} /\ atlas = {} /\ outParams = 0 /\ timeline = <<>>

ResearchNext == ImportCall \/ OtherInstruction

-----------------------------------------------------------------------------
\* research_v209.py:276-372: the script is pressed in order and each key once,
\* never before the game was seen in module 5; the experiment's one further
\* key comes last, and not before its time.
KeysComeFromScript ==
  /\ \A i \in 1..Len(keys) :
       /\ released # -1 /\ keys[i].insn > released
       /\ i > 1 => keys[i].insn > keys[i - 1].insn
       /\ i <= Len(Script) => keys[i].scan = Script[i]
       /\ i > Len(Script) => keys[i].scan = PostKey /\ keys[i].insn >= IdleUntil
  /\ Len(keys) <= Len(Script) + IF variant = "idle" THEN 1 ELSE 0

\* research_v209.py:43-83: an object has one read hook as long as it is
\* watched and none afterwards, and no watch outlives its window by more than
\* the one call the hook does not look at.
WatchesAreBounded ==
  \A o \in Objects :
    /\ watch.hooks[o] = IF watch.until[o] = -1 THEN 0 ELSE 1
    /\ watch.until[o] # -1 => count <= watch.until[o]
    /\ watch.registry[o] <= counted[o]

\* research_v209.py:1675-1717: one snapshot for each interval, none skipped and
\* none late by more than a call.
SnapshotsKeepPace ==
  /\ \A k \in 1..Len(timeline) : timeline[k] \in {k * Interval, k * Interval + 1}
  /\ Len(timeline) <= count \div Interval
  /\ ~afterImport => Len(timeline) = count \div Interval

\* research_v209.py:40: the registry of read-watches is "kept permanently
\* (incl. after removal)": a read that was counted stays counted.
ReadsAreKept == \A o \in Objects : watch.registry[o] = counted[o]
=============================================================================
