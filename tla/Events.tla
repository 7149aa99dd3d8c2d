------------------------------- MODULE Events -------------------------------
(***************************************************************************)
(* The window-server events of runtime/input.py and the pure functions on  *)
(* sequences of them: the burst of one key press and the trimming of idle  *)
(* filler.  An event is the pair (ev_type, ev_scancode) the code queues.   *)
(***************************************************************************)
EXTENDS Integers, Sequences, SequencesExt

CONSTANTS
  Scan,             \* scan codes of the keys the harness can press
  StaleNullKeep,    \* EventQueue._STALE_NULL_KEEP
  StaleNullThreshold, \* EventQueue._STALE_NULL_THRESHOLD
  HoldNulls,        \* idle events between the translated key and its key-up
  GapNulls          \* idle events after the key-up

ASSUME EventsAssumption ==
  /\ StaleNullKeep \in Nat \ {0}
  /\ StaleNullThreshold \in Nat
  /\ HoldNulls \in Nat
  /\ GapNulls \in Nat

Null       == [type |-> "NULL",     scan |-> "none"]
KeyDown(s) == [type |-> "KEY_DOWN", scan |-> s]
Key(s)     == [type |-> "KEY",      scan |-> s]
KeyUp(s)   == [type |-> "KEY_UP",   scan |-> s]

RealEvent == [type : {"KEY", "KEY_DOWN", "KEY_UP"}, scan : Scan]
Event     == RealEvent \cup {Null}

Nulls(n) == [i \in 1..n |-> Null]

\* Idle events reported like the others.
AllEvents(s) == s

\* The events of a queue that a window server would have sent, in order.
Reals(s) ==
  LET upTo[n \in 0..Len(s)] ==
        IF n = 0 THEN <<>>
        ELSE IF s[n] = Null THEN upTo[n - 1] ELSE Append(upTo[n - 1], s[n])
  IN  upTo[Len(s)]

\* One key press as push_down_up_pair and the refill callbacks queue it.
Burst(s) ==
  <<Null, KeyDown(s)>> \o Nulls(3) \o <<Key(s)>> \o Nulls(HoldNulls)
    \o <<KeyUp(s)>> \o Nulls(GapNulls)

\* The idle events of s stand in runs no longer than the trim keeps.
RunsAreShort(s) ==
  \A i \in 1..(Len(s) - StaleNullKeep) :
    \E j \in i..(i + StaleNullKeep) : s[j] # Null

-----------------------------------------------------------------------------
\* A run counter that is not reset at a real event: the idle events after the
\* first few are all dropped.
TrimStepNoReset(acc, e) ==
  IF e = Null
  THEN [out |-> IF acc.run < StaleNullKeep THEN Append(acc.out, e) ELSE acc.out,
        run |-> acc.run + 1]
  ELSE [out |-> Append(acc.out, e), run |-> acc.run]

\* One iteration of the loop of _trim_stale_nulls: acc.out is new_q and
\* acc.run is null_run.
TrimStep(acc, e) ==
  IF e = Null
  THEN [out |-> IF acc.run < StaleNullKeep THEN Append(acc.out, e) ELSE acc.out,
        run |-> acc.run + 1]
  ELSE [out |-> Append(acc.out, e), run |-> 0]

\* The earlier version the docstring of _trim_stale_nulls describes: only the
\* run at the front of the queue is trimmed.
TrimFrontOnly(s) ==
  LET firstReal == CHOOSE i \in 1..(Len(s) + 1) :
                     /\ \A j \in 1..(i - 1) : s[j] = Null
                     /\ i <= Len(s) => s[i] # Null
      drop == IF Len(s) <= StaleNullThreshold \/ firstReal - 1 <= StaleNullKeep
              THEN 0 ELSE firstReal - 1 - StaleNullKeep
  IN  SubSeq(s, drop + 1, Len(s))

\* Keep the newest entries only, whatever they are.
TrimOldest(s) ==
  IF Len(s) <= StaleNullThreshold THEN s
  ELSE SubSeq(s, Len(s) - StaleNullThreshold + 1, Len(s))

\* _trim_stale_nulls: after[n] is the state of its loop after n entries.
TrimStaleNulls(s) ==
  LET after[n \in 0..Len(s)] ==
        IF n = 0 THEN [out |-> <<>>, run |-> 0] ELSE TrimStep(after[n - 1], s[n])
  IN  IF Len(s) <= StaleNullThreshold THEN s ELSE after[Len(s)].out

=============================================================================
