----------------------------- MODULE HostInput -----------------------------
(***************************************************************************)
(* The host side of the keyboard: PygameFramePresenter.poll_input, which   *)
(* translates keys, buttons and the hat of a game pad, HostInputBridge,    *)
(* which suppresses repeats and orphan releases, and the clock the game    *)
(* reads (runtime/clock.py).  The event queue the bridge is given is not   *)
(* the one of runtime/input.py, which has no push_host_keydown: whether    *)
(* the queue has that method is part of the state.                         *)
(***************************************************************************)
EXTENDS Integers, Sequences, SequencesExt, FiniteSets

CONSTANTS
  PhysicalKeys,   \* keys and buttons of the host
  KeyName,        \* the name each is mapped to, or NoName
  NoName,
  ScanNames,      \* names KEYNAME_TO_SCANCODE has
  BatchSize,      \* bound: host events per poll
  MaxPushes,      \* bound: events pushed in one run
  InsnPerUs, AfterLimit, Delays, MaxInsn  \* clock: 104, 5 000 000, and bounds

\* clock.py:33: 104 instructions to a microsecond.
ASSUME ClockAssumption == InsnPerUs \in Nat \ {0} /\ Delays \subseteq Int

Directions == {"left", "right", "up", "down"}

\* A position of the hat presses at most one direction of each axis.
HatPositions == {{}} \cup {{d} : d \in Directions}
                \cup {{h, v} : h \in {"left", "right"}, v \in {"up", "down"}}

HostEvents == [type : {"down", "up"}, key : PhysicalKeys]
              \cup [type : {"hat"}, hat : HatPositions]

VARIABLES
  hatKeys,     \* PygameFramePresenter._hat_keys
  pressed,     \* HostInputBridge.pressed
  downs, ups,  \* key_down_events, key_up_events
  hasPush,     \* the queue has push_host_keydown and push_host_keyup
  raised,      \* a push raised AttributeError
  gameDown,    \* ghost: keys whose last event in the queue is a press
  garbled,     \* ghost: a press of a key that is down, or a release of one that is up
  clockMode, insn, afterUs, \* Clock.mode, the instruction counter, Clock.after_us
  told         \* ghost: what the clock answered last

inputVars == <<hatKeys, pressed, downs, ups, hasPush, raised, gameDown, garbled>>
clockVars == <<clockMode, insn, afterUs, told>>

-----------------------------------------------------------------------------
(* poll_input                                                              *)

\* A set of keys in alphabetical order, each with its action.
Edges(action, names) ==
  LET edge(name) == IF name \in names THEN << <<action, name>> >> ELSE <<>>
  IN  edge("down") \o edge("left") \o edge("right") \o edge("up")

\* The hat only ever presses.
HatPressesOnly(hat, event) == Edges("down", event.hat \ hat)

\* A motion of the hat releases what it left, then presses what it reached.
HatEdges(hat, event) == Edges("up", hat \ event.hat) \o Edges("down", event.hat \ hat)

\* What one host event is translated to, given the hat before it.
Translated(hat, event) ==
  IF event.type = "hat" THEN HatEdges(hat, event)
  ELSE IF KeyName[event.key] = NoName THEN <<>>
  ELSE << <<event.type, KeyName[event.key]>> >>

HatAfter(hat, event) == IF event.type = "hat" THEN event.hat ELSE hat

Poll(events) ==
  FoldLeft(LAMBDA acc, e : [hat |-> HatAfter(acc.hat, e), out |-> acc.out \o Translated(acc.hat, e)],
           [hat |-> hatKeys, out |-> <<>>], events)

-----------------------------------------------------------------------------
(* HostInputBridge                                                         *)

\* A press of a key that is not pressed, or a release of one that is.
Heeds(b, action, name) ==
  /\ name \in ScanNames
  /\ IF action = "down" THEN name \notin b.pressed ELSE name \in b.pressed

\* One transition: the set is updated before the queue is called, and the
\* counter after it.
Bridged(b, step) ==
  LET action == step[1]
      name == step[2]
      set == IF action = "down" THEN b.pressed \cup {name} ELSE b.pressed \ {name}
  IN  IF b.raised \/ ~Heeds(b, action, name) THEN b
      ELSE IF ~hasPush THEN [b EXCEPT !.pressed = set, !.raised = TRUE]
      ELSE [b EXCEPT !.pressed = set,
              !.downs = @ + (IF action = "down" THEN 1 ELSE 0),
              !.ups = @ + (IF action = "up" THEN 1 ELSE 0),
              !.garbled = @ \/ ((name \in b.gameDown) = (action = "down")),
              !.gameDown = IF action = "down" THEN @ \cup {name} ELSE @ \ {name}]

Bridge == [pressed |-> pressed, downs |-> downs, ups |-> ups,
           raised |-> raised, gameDown |-> gameDown, garbled |-> garbled]

Become(b) ==
  /\ b.downs + b.ups <= MaxPushes
  /\ pressed' = b.pressed /\ downs' = b.downs /\ ups' = b.ups
  /\ raised' = b.raised /\ gameDown' = b.gameDown /\ garbled' = b.garbled

\* pump: everything the frontend polled, in its order.
Pump(events) ==
  LET polled == Poll(events)
  IN  /\ ~raised
      /\ hatKeys' = polled.hat
      /\ Become(FoldLeft(Bridged, Bridge, polled.out))
      /\ UNCHANGED <<hasPush, clockVars>>

\* release_all: the releases are pushed, and the set is cleared at the end.
ReleaseAll ==
  /\ ~raised
  /\ IF pressed # {} /\ ~hasPush
     THEN raised' = TRUE /\ UNCHANGED <<pressed, downs, ups, gameDown, garbled>>
     ELSE Become([Bridge EXCEPT !.pressed = {}, !.ups = @ + Cardinality(pressed),
                    !.gameDown = @ \ pressed, !.garbled = @ \/ ~(pressed \subseteq gameDown)])
  /\ UNCHANGED <<hatKeys, hasPush, clockVars>>

-----------------------------------------------------------------------------
(* The clock.                                                              *)

\* now_us without the constant base; the wall clock of the mode "real" is
\* the instruction counter here, which like it never goes back.
NowUs == IF clockMode = "frozen" THEN 0 ELSE insn \div InsnPerUs + afterUs

\* note_after: a wait of the game moves the virtual clock, and no other.
NoteAfter(us) ==
  /\ afterUs' = IF clockMode = "virtual" /\ us > 0 /\ us < AfterLimit THEN afterUs + us ELSE afterUs
  /\ UNCHANGED <<clockMode, insn, told, inputVars>>

Instruction ==
  /\ insn < MaxInsn
  /\ insn' = insn + 1
  /\ UNCHANGED <<clockMode, afterUs, told, inputVars>>

HomeTime ==
  /\ told' = NowUs
  /\ UNCHANGED <<clockMode, insn, afterUs, inputVars>>

-----------------------------------------------------------------------------
InputInit ==
  /\ hatKeys = {} /\ pressed = {} /\ downs = 0 /\ ups = 0
  /\ hasPush \in BOOLEAN
  /\ raised = FALSE /\ gameDown = {} /\ garbled = FALSE
  /\ clockMode \in {"frozen", "virtual", "real"} /\ insn = 0 /\ afterUs = 0 /\ told = 0

InputNext ==
  \/ \E n \in 1..BatchSize : \E events \in [1..n -> HostEvents] : Pump(events)
  \/ ReleaseAll

ClockNext ==
  \/ \E us \in Delays : afterUs + us <= MaxInsn /\ NoteAfter(us)
  \/ Instruction
  \/ HomeTime

-----------------------------------------------------------------------------
(* Properties.                                                             *)

\* For every key the queue receives press, release, press, ... in turn, and
\* what the bridge holds pressed is what the game was told is down, although
\* several host keys and the hat share a name, the host repeats keys, and
\* releases arrive without a press; the counters balance.  With the queue of
\* this repository the first transition raises and nothing is told at all.
KeysAlternate ==
  /\ ~garbled
  /\ ~raised => gameDown = pressed /\ downs - ups = Cardinality(pressed)
  /\ ~hasPush => gameDown = {} /\ downs = 0 /\ ups = 0

\* A direction that only the hat can press does not stay pressed once the
\* hat has left it, in whatever jumps the hat moves.
NoDirectionSticks ==
  ~raised => \A d \in pressed \cap Directions :
               d \in hatKeys \/ \E k \in PhysicalKeys : KeyName[k] = d

\* The game is never told an earlier time than before, whatever it waits for
\* (clock.py:44-55).
ClockNeverBack == told <= NowUs

HostSound == KeysAlternate /\ NoDirectionSticks /\ ClockNeverBack
=============================================================================
