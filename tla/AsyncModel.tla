----------------------------- MODULE AsyncModel -----------------------------
(***************************************************************************)
(* The event queue and the request registry wired together, as build() of  *)
(* run.py does under --async-request-model: on_enqueue feeds the registry, *)
(* wrap_get_event taps every pop, produce_tick runs on the instruction     *)
(* clock, and the handlers install() returns answer the game's imports.    *)
(* The game and the refill callback are the environment: any call, any     *)
(* batch, in any order.                                                    *)
(***************************************************************************)
EXTENDS Events, RequestRegistry

CONSTANTS
  NotifyAddr,  \* status words the game passes to EventReady/PriorityKeyReady
  SelfAddr,    \* status words the game passes to RequestComplete
  Batches,     \* what one call of the refill callback may append
  MaxQueue,    \* bound on the length of the queue
  MaxSignals   \* bound on the unconsumed signals the game gives itself

ASSUME AsyncAssumption ==
  /\ NotifyAddr \subseteq StatusAddr
  /\ SelfAddr \subseteq StatusAddr
  /\ \A b \in Batches : b \in Seq(Event)
  /\ MaxQueue \in Nat
  /\ MaxSignals \in Nat

VARIABLES
  q,        \* EventQueue._q
  reg,      \* the RequestRegistry and the status words it writes
  running   \* FALSE once an exception has ended the run

vars == <<q, reg, running>>

Init ==
  /\ q = <<>>
  /\ reg = EmptyRegistry
  /\ running = TRUE

-----------------------------------------------------------------------------
\* What GetEvent does with a queue s that holds something and a registry r:
\* handle_get_event pops the head, the wrapper reports a real one.
Delivered(s, r) ==
  /\ q' = Tail(s)
  /\ reg' = IF Head(s) = Null THEN r ELSE OnEventConsumed(r)

\* The bound on the queue.
Fits(b) == Len(q) + Len(b) <= MaxQueue

\* hook_code every EVENT_PRODUCE_INTERVAL instructions.
ProduceTick(b) ==
  /\ Fits(b)
  /\ Enqueueable(reg, Reals(b))
  /\ q' = TrimStaleNulls(q \o b)
  /\ reg' = OnEventsEnqueued(reg, Reals(b))
  /\ UNCHANGED running

\* The game's GetEvent import on a queue that holds something ...
GetEvent ==
  /\ q # <<>>
  /\ Delivered(q, reg)
  /\ UNCHANGED running

\* ... on an empty one: pop refills it first, and tells the registry so ...
GetEventAfterRefill(b) ==
  /\ q = <<>>
  /\ b # <<>>
  /\ Fits(b)
  /\ Enqueueable(reg, Reals(b))
  /\ Delivered(b, OnEventsEnqueued(reg, Reals(b)))
  /\ UNCHANGED running

\* ... and when the refill appends nothing popleft raises IndexError.
GetEventStarved(b) ==
  /\ q = <<>>
  /\ b = <<>>
  /\ running' = FALSE
  /\ UNCHANGED <<q, reg>>

Peek(b) ==
  /\ q = <<>>
  /\ Fits(b)
  /\ Enqueueable(reg, Reals(b))
  /\ q' = b
  /\ reg' = OnEventsEnqueued(reg, Reals(b))
  /\ UNCHANGED running

\* EventReady and PriorityKeyReady.
Notify(a) ==
  /\ Registrable(reg)
  /\ reg' = RegisterRequest(reg, a)
  /\ UNCHANGED <<q, running>>

\* RequestComplete; the null pointer is no member of SelfAddr: the call
\* returns early on it.
Complete(a, reason) ==
  /\ reg.signalCount < MaxSignals
  /\ reg' = OnRequestComplete(reg, a, reason)
  /\ UNCHANGED <<q, running>>

Cancel(a) ==
  /\ \E i \in InState(reg, "PENDING") :
       /\ reg.requests[i].addr = a
       /\ \A j \in InState(reg, "PENDING") : reg.requests[j].addr = a => i <= j
       /\ reg' = Cancelled(reg, i)
  /\ UNCHANGED <<q, running>>

Wait ==
  /\ reg' = WaitForAnyRequest(reg)
  /\ UNCHANGED <<q, running>>

Next ==
  /\ running
  /\ \/ \E b \in Batches :
          \/ ProduceTick(b)
          \/ GetEventAfterRefill(b)
          \/ GetEventStarved(b)
          \/ Peek(b)
     \/ GetEvent
     \/ \E a \in NotifyAddr : Notify(a) \/ Cancel(a)
     \/ \E a \in SelfAddr, reason \in Reasons : Complete(a, reason)
     \/ Wait

Spec == Init /\ [][Next]_vars

-----------------------------------------------------------------------------
\* The registry is well-formed.
RegistryOK == reg \in Registry(RealEvent)

\* The types of the variables.
TypeOK ==
  /\ q \in Seq(Event)
  /\ Len(q) <= MaxQueue
  /\ RegistryOK
  /\ running \in BOOLEAN

\* No lost wakeup: a request is left waiting only while every real event in
\* the queue backs another request.  Both completion triggers (an event finds
\* a request, a registration finds an event) are needed for it.
NoLostWakeup == reg.pendingOrder # <<>> => Unclaimed(reg) = {}

\* The claimed events are a prefix of the ledger, in the order of the requests
\* that claimed them: GetEvent always hands over the event the oldest
\* completed request was promised, never one that a later request waits for.
ClaimsArePrefix ==
  \A m, n \in DOMAIN reg.eventFifo :
    m < n /\ reg.eventFifo[n].claimedBy # None =>
      /\ reg.eventFifo[m].claimedBy # None
      /\ reg.eventFifo[m].claimedBy < reg.eventFifo[n].claimedBy

\* A request is COMPLETED exactly while the one event that completed it waits
\* in the queue: no completion without a backing event (orphan_completion
\* "should stay 0"), no event promised to a request that is already closed, no
\* request left COMPLETED once its event is gone.
CompletedAreBacked ==
  /\ \A p \in DOMAIN reg.eventFifo :
       LET e == reg.eventFifo[p] IN
       e.claimedBy # None =>
         /\ reg.requests[e.claimedBy].state = "COMPLETED"
         /\ reg.requests[e.claimedBy].event = e.id
  /\ \A i \in InState(reg, "COMPLETED") :
       \E p \in DOMAIN reg.eventFifo : reg.eventFifo[p].claimedBy = i

\* The line of waiting requests is exactly the PENDING ones in the order they
\* registered, and all of them registered after every COMPLETED one: requests
\* are served first come, first served, through any cancellation.
PendingOrderExact ==
  /\ ToSet(reg.pendingOrder) = InState(reg, "PENDING")
  /\ \A m, n \in DOMAIN reg.pendingOrder :
       m < n => reg.pendingOrder[m] < reg.pendingOrder[n]
  /\ \A i \in InState(reg, "COMPLETED"), j \in InState(reg, "PENDING") : i < j

\* A TRequestStatus is the identity of a request: no two live requests share
\* one (v230, async_model.py:270-279).
OneLivePerStatus ==
  \A a \in StatusAddr : Cardinality(Live(reg, a)) <= 1

\* What the game reads in a status word it registered and did not itself
\* complete is the truth about its request: KRequestPending while it waits,
\* KErrNone from its completion until its event has been fetched.
StatusTellsTruth ==
  \A i \in RequestId :
    LET a == reg.requests[i].addr IN
    /\ reg.requests[i].state = "PENDING" /\ a \notin SelfAddr =>
         reg.status[a] = "KRequestPending"
    /\ reg.requests[i].state = "COMPLETED" /\ a \notin SelfAddr =>
         reg.status[a] = "KErrNone"

\* Every completion not yet attributed to a wake still has its signal, so
\* WaitForAnyRequest never finds the semaphore empty with a completion
\* unreported, although RequestComplete signals and wakes are interleaved.
WakesHaveSignals == Len(reg.wakeLog) <= reg.signalCount

\* The legacy view holds the outstanding requests, as the comment at
\* async_model.py:225-228 says of it: those in PENDING or COMPLETED.
\* (_complete drops a request from it already on completion.)
PendingMirrorsOutstanding ==
  reg.pending = {a \in StatusAddr : Live(reg, a) # {}}
=============================================================================
