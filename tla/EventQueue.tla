----------------------------- MODULE EventQueue -----------------------------
(***************************************************************************)
(* The queue GetEvent drains (class EventQueue of runtime/input.py).  The  *)
(* refill callback is the environment: it appends any batch of Batches.    *)
(* owed is an observer, not state of the class: the real events handed in  *)
(* and not yet popped, in order.  In the composed model the ledger of the  *)
(* request registry plays its part.                                        *)
(***************************************************************************)
EXTENDS Events

CONSTANTS
  Batches,    \* what one call of the refill callback may append
  MaxQueue    \* bound on the length of the queue

ASSUME QueueAssumption ==
  /\ \A b \in Batches : b \in Seq(Event)
  /\ MaxQueue \in Nat

VARIABLES
  q,          \* EventQueue._q
  owed,       \* real events queued and not yet popped (observer)
  running     \* FALSE once an exception has ended the run

queueVars == <<q, owed, running>>

QueueInit ==
  /\ q = <<>>
  /\ owed = <<>>
  /\ running = TRUE

\* _do_refill: the callback appends b; on_enqueue hears of every new entry.
Fits(b) == Len(q) + Len(b) <= MaxQueue

-----------------------------------------------------------------------------
\* produce_tick: one refill, whatever the queue holds, then the trim.
ProduceTick(b) ==
  /\ running
  /\ Fits(b)
  /\ q' = TrimStaleNulls(q \o b)
  /\ owed' = owed \o Reals(b)
  /\ UNCHANGED running

\* What a pop does to the queue s and the owed events o.
Popped(s, o) ==
  /\ q' = Tail(s)
  /\ owed' = IF Head(s) = Null THEN o ELSE Tail(o)

\* pop on a queue that holds something.
Pop ==
  /\ running
  /\ q # <<>>
  /\ Popped(q, owed)
  /\ UNCHANGED running

\* pop on an empty queue: a lazy refill first.
PopAfterRefill(b) ==
  /\ running
  /\ q = <<>>
  /\ b # <<>>
  /\ Fits(b)
  /\ Popped(b, owed \o Reals(b))
  /\ UNCHANGED running

\* The lazy refill appended nothing: popleft raises IndexError.
PopStarved(b) ==
  /\ running
  /\ q = <<>>
  /\ b = <<>>
  /\ running' = FALSE
  /\ UNCHANGED <<q, owed>>

\* peek: refill if empty, look, take nothing.
Peek(b) ==
  /\ running
  /\ q = <<>>
  /\ Fits(b)
  /\ q' = b
  /\ owed' = owed \o Reals(b)
  /\ UNCHANGED running

\* push_down_up_pair and push_idle append without telling on_enqueue.
Push(b) ==
  /\ running
  /\ Fits(b)
  /\ q' = q \o b
  /\ owed' = owed \o Reals(b)
  /\ UNCHANGED running

PushDownUpPair(s) == Push(Burst(s))
PushIdle          == Push(<<Null>>)

QueueNext ==
  \/ \E b \in Batches :
       ProduceTick(b) \/ PopAfterRefill(b) \/ PopStarved(b) \/ Peek(b)
  \/ Pop
  \/ \E s \in Scan : PushDownUpPair(s)
  \/ PushIdle

QueueSpec == QueueInit /\ [][QueueNext]_queueVars

-----------------------------------------------------------------------------
QueueTypeOK ==
  /\ q \in Seq(Event)
  /\ Len(q) <= MaxQueue
  /\ owed \in Seq(RealEvent)
  /\ running \in BOOLEAN

\* Trimming the stale idle events never loses, duplicates or reorders a real
\* event, however pushes, refills, pops and ticks interleave (the claim of the
\* comment at input.py:111-113).
RealsSurvive == Reals(q) = owed

\* A tick leaves a backlog bounded by the real events in it: a queue longer
\* than the threshold has no run of more than StaleNullKeep idle events, even
\* behind a real event nobody has popped (docstring of _trim_stale_nulls).
TickBoundsBacklog ==
  [][(\E b \in Batches : ProduceTick(b)) =>
       Len(q') <= StaleNullThreshold \/ RunsAreShort(q')]_queueVars

\* Where the n-th real event of t stands (0: the start).
NthReal(t, n) == CHOOSE i \in 0..Len(t) : /\ Len(Reals(SubSeq(t, 1, i))) = n
                                          /\ i = 0 \/ t[i] # Null

\* How many idle events follow the n-th real event of t.
GapAfter(t, n) ==
  (IF n < Len(Reals(t)) THEN NthReal(t, n + 1) - 1 ELSE Len(t)) - NthReal(t, n)

\* A tick removes idle events only down to the allowance: every idle event it
\* drops stood behind StaleNullKeep others of its run, so a gap of idle polls
\* between two real events never disappears (the KeyUp of a press must not
\* arrive in the poll after its KeyDown).
GapsSurvive ==
  [][\A b \in Batches : ProduceTick(b) =>
       \A n \in 0..Len(Reals(q \o b)) :
         GapAfter(q', n) >= (IF GapAfter(q \o b, n) < StaleNullKeep
                             THEN GapAfter(q \o b, n) ELSE StaleNullKeep)]_queueVars
=============================================================================
