--------------------------- MODULE AsyncRefinement ---------------------------
(***************************************************************************)
(* The async model implements the window server's promise, and its queue   *)
(* implements EventQueue with the ledger as the observer.                  *)
(***************************************************************************)
EXTENDS AsyncModel

ClaimedCount == Cardinality(DOMAIN reg.eventFifo \ Unclaimed(reg))

LedgerEvents == [p \in DOMAIN reg.eventFifo |-> reg.eventFifo[p].event]

Server == INSTANCE WindowServer WITH
  Clients  <- NotifyAddr,
  Arrivals <- {Reals(b) : b \in Batches},
  unread   <- LedgerEvents,
  waiting  <- [n \in DOMAIN reg.pendingOrder |->
                 reg.requests[reg.pendingOrder[n]].addr],
  notified <- [p \in 1..ClaimedCount |->
                 reg.requests[reg.eventFifo[p].claimedBy].addr]

\* Every step of queue and registry together is a step of the window server or
\* invisible to its clients: the lifecycle the docstring of async_model.py
\* lists (registered, enqueued, completed, consumed) loses no event, answers
\* nobody twice and answers in order.
ImplementsWindowServer == Server!ServerSpec

Queue == INSTANCE EventQueue WITH owed <- LedgerEvents

\* The ledger never disagrees with the queue about which real events are
\* undelivered or in which order, although trimming rebuilds the queue behind
\* the registry's back: GetEvent always pops the event the ledger has first.
ImplementsEventQueue == Queue!QueueSpec

\* ... stated as the invariant it comes down to.
LedgerMirrorsQueue == Queue!RealsSurvive

=============================================================================
