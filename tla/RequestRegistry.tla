--------------------------- MODULE RequestRegistry ---------------------------
(***************************************************************************)
(* The request/completion ledger of runtime/async_model.py (class          *)
(* RequestRegistry), as functions from one state of the registry to the    *)
(* next.  A handler of the game's imports runs to its end before the next  *)
(* emulated instruction, so a caller composes these functions inside one   *)
(* action.  The guest's TRequestStatus words are part of the record,       *)
(* because only this class writes them on the harness side.                *)
(*                                                                         *)
(* Left out: the log, the counters of stats that only feed the report, and *)
(* the kind of a registration (EventReady or PriorityKeyReady), which only *)
(* labels them: both kinds share the one FIFO of pending requests.         *)
(***************************************************************************)
EXTENDS Integers, Sequences, FiniteSets, SequencesExt

CONSTANTS
  StatusAddr,   \* addresses of the TRequestStatus words the game owns
  Reasons,      \* completion codes the game passes to RequestComplete
  MaxRequests,  \* bound on the requests ever registered
  MaxEvents     \* bound on the real events ever enqueued

ASSUME RegistryAssumption ==
  /\ MaxRequests \in Nat
  /\ MaxEvents \in Nat
  /\ "KErrNone" \in Reasons
  /\ "KRequestPending" \notin Reasons

RequestId == 1..MaxRequests
EventId   == 1..MaxEvents
None      == 0                        \* Python's None where an id is expected

StatusWord == Reasons \cup {"KRequestPending"}

\* An id that is not (or no longer) a key of _requests.
Absent == [addr |-> "none", state |-> "ABSENT", event |-> None]

Request == [addr  : StatusAddr \cup {"none"},
            state : {"ABSENT", "PENDING", "COMPLETED"},
            event : EventId \cup {None}]

Entry(ev) == [id : EventId, event : ev, claimedBy : RequestId \cup {None}]

Registry(ev) ==
  [requests     : [RequestId -> Request],      \* _requests
   pendingOrder : Seq(RequestId),              \* _pending_order
   eventFifo    : Seq(Entry(ev)),              \* _event_fifo
   wakeLog      : Seq(RequestId),              \* _completion_wake_log
   signalCount  : Nat,
   pending      : SUBSET StatusAddr,           \* keys of the legacy view
   status       : [StatusAddr -> StatusWord],  \* guest memory
   nextRequest  : 1..(MaxRequests + 1),
   nextEvent    : 1..(MaxEvents + 1)]

EmptyRegistry ==
  [requests     |-> [i \in RequestId |-> Absent],
   pendingOrder |-> <<>>,
   eventFifo    |-> <<>>,
   wakeLog      |-> <<>>,
   signalCount  |-> 0,
   pending      |-> {},
   status       |-> [a \in StatusAddr |-> "KErrNone"], \* zeroed by the game
   nextRequest  |-> 1,
   nextEvent    |-> 1]

Live(r, a) ==
  {i \in RequestId : r.requests[i].addr = a
                      /\ r.requests[i].state \in {"PENDING", "COMPLETED"}}
InState(r, s) == {i \in RequestId : r.requests[i].state = s}

-----------------------------------------------------------------------------
\* The unclaimed entries of the ledger, and how many stand up to p.
Unclaimed(r)  == {p \in DOMAIN r.eventFifo : r.eventFifo[p].claimedBy = None}
RankFromEnd(U, p) == Cardinality({i \in U : i >= p})  \* newest event first
RankIn(U, p)  == Cardinality({i \in U : i <= p})
Rank(r, p)    == RankIn(Unclaimed(r), p)

\* What the loop of _try_match amounts to: the n-th unclaimed event completes
\* the n-th pending request, as far as both go.  (The loop itself, with
\* _complete as its body, is LoopMatch; MatchIsLoop compares the two.
\* Its skip of a stale entry of _pending_order needs one to exist, and
\* PendingOrderExact says that none does.)
Matched(r)  == {p \in Unclaimed(r) : Rank(r, p) <= Len(r.pendingOrder)}
Partner(r, p) == r.pendingOrder[Rank(r, p)]

TryMatch(r) ==
  LET n      == Cardinality(Matched(r))
      done   == {Partner(r, p) : p \in Matched(r)}
      backer(i) == r.eventFifo[CHOOSE p \in Matched(r) : Partner(r, p) = i].id
      addrs  == {r.requests[i].addr : i \in done}
  IN  [r EXCEPT
        !.requests = [i \in RequestId |->
           IF i \in done
           THEN [r.requests[i] EXCEPT !.state = "COMPLETED", !.event = backer(i)]
           ELSE r.requests[i]],
        !.pendingOrder = SubSeq(r.pendingOrder, n + 1, Len(r.pendingOrder)),
        !.eventFifo = [p \in DOMAIN r.eventFifo |->
           IF p \in Matched(r)
           THEN [r.eventFifo[p] EXCEPT !.claimedBy = Partner(r, p)]
           ELSE r.eventFifo[p]],
        !.wakeLog = r.wakeLog \o SubSeq(r.pendingOrder, 1, n),
        !.signalCount = r.signalCount + n,
        !.pending = r.pending \ addrs,
        !.status = [a \in StatusAddr |->
           IF a \in addrs THEN "KErrNone" ELSE r.status[a]]]

-----------------------------------------------------------------------------
\* A registration that is recorded: the fresh request at the end of the line.
Recorded(r, a) ==
  [r EXCEPT
    !.requests = [r.requests EXCEPT
       ![r.nextRequest] = [addr |-> a, state |-> "PENDING", event |-> None]],
    !.pendingOrder = Append(r.pendingOrder, r.nextRequest),
    !.pending = r.pending \cup {a},
    !.status = [r.status EXCEPT ![a] = "KRequestPending"],
    !.nextRequest = r.nextRequest + 1]

\* register_request without its duplicate check (the harness before v230).
RegisterAgain(r, a) == TryMatch(Recorded(r, a))

\* ... without the _try_match at its end (no "case B").
RegisterNoMatch(r, a) ==
  IF Live(r, a) # {} THEN r ELSE Recorded(r, a)

\* ... writing KRequestPending last, over the word _try_match may have written.
RegisterWritesLast(r, a) ==
  IF Live(r, a) # {} THEN r
  ELSE LET m == TryMatch(Recorded(r, a))
       IN  [m EXCEPT !.status = [m.status EXCEPT ![a] = "KRequestPending"]]

\* register_request: EventReady or PriorityKeyReady on the status word a.
RegisterRequest(r, a) ==
  IF Live(r, a) # {} THEN r ELSE TryMatch(Recorded(r, a))

Registrable(r) == r.nextRequest <= MaxRequests

-----------------------------------------------------------------------------
\* New ledger entries for the real events evs, oldest first.
Entries(r, evs) ==
  [k \in 1..Len(evs) |->
     [id |-> r.nextEvent + k - 1, event |-> evs[k], claimedBy |-> None]]

\* ... with no _try_match after it (no "case A").
EnqueueNoMatch(r, evs) ==
  [r EXCEPT !.eventFifo = r.eventFifo \o Entries(r, evs),
            !.nextEvent = r.nextEvent + Len(evs)]

\* on_event_enqueued, called once for each event of one refill.  Matching
\* after every event and matching once after the last give the same state
\* (MatchIsLoop).  The code returns early on idle events: evs holds none.
OnEventsEnqueued(r, evs) ==
  TryMatch([r EXCEPT !.eventFifo = r.eventFifo \o Entries(r, evs),
                     !.nextEvent = r.nextEvent + Len(evs)])

Enqueueable(r, evs) == r.nextEvent + Len(evs) <= MaxEvents + 1

-----------------------------------------------------------------------------
\* on_event_consumed closing a request but leaving its event in the ledger.
ConsumedKeepsClaimed(r) ==
  IF r.eventFifo = <<>> THEN r
  ELSE LET i == Head(r.eventFifo).claimedBy
       IN  [r EXCEPT
             !.eventFifo = IF i = None THEN Tail(r.eventFifo) ELSE r.eventFifo,
             !.requests =
               IF i # None /\ r.requests[i].state = "COMPLETED"
               THEN [r.requests EXCEPT ![i] = Absent]
               ELSE r.requests]

\* on_event_consumed for a real event: GetEvent has handed the head of the
\* ledger to the game, which closes the request that claimed it.  An empty
\* ledger (an untracked source) is left alone.
OnEventConsumed(r) ==
  IF r.eventFifo = <<>> THEN r
  ELSE LET i == Head(r.eventFifo).claimedBy
       IN  [r EXCEPT
             !.eventFifo = Tail(r.eventFifo),
             !.requests =
               IF i # None /\ r.requests[i].state = "COMPLETED"
               THEN [r.requests EXCEPT ![i] = Absent]
               ELSE r.requests]

\* on_request_complete: the game completes one of its own status words.
OnRequestComplete(r, a, reason) ==
  [r EXCEPT !.status = [r.status EXCEPT ![a] = reason],
            !.pending = r.pending \ {a},
            !.signalCount = r.signalCount + 1]

-----------------------------------------------------------------------------
\* cancel leaving the request in the line.
CancelledStaysInLine(r, i) ==
  [r EXCEPT
    !.requests = [r.requests EXCEPT ![i] = Absent],
    !.pending = r.pending \ {r.requests[i].addr}]

\* cancel: drop the PENDING request of a, from _requests, from the line and
\* from the legacy view; its status word is not written.
Cancelled(r, i) ==
  [r EXCEPT
    !.requests = [r.requests EXCEPT ![i] = Absent],
    !.pendingOrder = RemoveFirst(r.pendingOrder, i),
    !.pending = r.pending \ {r.requests[i].addr}]

\* wait_for_any_request not striking the request off the wake log.
WaitKeepsLog(r) ==
  IF r.signalCount = 0 THEN r
  ELSE [r EXCEPT !.signalCount = r.signalCount - 1]

\* ... taking a signal that is not there.
WaitTakesAnyway(r) ==
  [r EXCEPT !.signalCount = r.signalCount - 1,
            !.wakeLog = IF r.wakeLog = <<>> THEN <<>> ELSE Tail(r.wakeLog)]

\* wait_for_any_request: takes one signal, if there is one, and attributes the
\* wake to the oldest completion not yet attributed.  It never blocks: with no
\* signal it returns all the same, having changed nothing.
WaitForAnyRequest(r) ==
  IF r.signalCount = 0 THEN r
  ELSE [r EXCEPT !.signalCount = r.signalCount - 1,
                 !.wakeLog = IF r.wakeLog = <<>> THEN <<>> ELSE Tail(r.wakeLog)]

=============================================================================
