---------------------------- MODULE MatchingLoop ----------------------------
(***************************************************************************)
(* The matching loop of the request registry an iteration at a time, to    *)
(* compare with the closed form the async model uses.                      *)
(***************************************************************************)
EXTENDS AsyncModel

\* _complete, the body of the loop: request i and the ledger entry p.
LoopComplete(r, i, p) ==
  [r EXCEPT
    !.status[r.requests[i].addr] = "KErrNone",
    !.eventFifo[p].claimedBy = i,
    !.requests[i].state = "COMPLETED",
    !.requests[i].event = r.eventFifo[p].id,
    !.signalCount = @ + 1,
    !.wakeLog = Append(@, i),
    !.pending = @ \ {r.requests[i].addr}]

\* _try_match, an iteration at a time, with its skip of a stale entry.
RECURSIVE LoopMatch(_)
LoopMatch(r) ==
  IF r.pendingOrder = <<>> \/ Unclaimed(r) = {} THEN r
  ELSE LET p == CHOOSE m \in Unclaimed(r) : \A n \in Unclaimed(r) : m <= n
           i == Head(r.pendingOrder)
           rest == [r EXCEPT !.pendingOrder = Tail(@)]
       IN  LoopMatch(IF r.requests[i].state # "PENDING" THEN rest
                     ELSE LoopComplete(rest, i, p))

\* on_event_enqueued for each event of evs in turn.
RECURSIVE LoopEnqueue(_, _)
LoopEnqueue(r, evs) ==
  IF evs = <<>> THEN r
  ELSE LoopEnqueue(
         LoopMatch([r EXCEPT
           !.eventFifo = Append(@, [id |-> r.nextEvent, event |-> Head(evs),
                                    claimedBy |-> None]),
           !.nextEvent = @ + 1]),
         Tail(evs))

\* The loops of _try_match and _do_refill compute what the closed forms of
\* RequestRegistry say, in every state the model reaches and for every batch.
MatchIsLoop ==
  /\ \A b \in Batches : Enqueueable(reg, Reals(b)) =>
       LoopEnqueue(reg, Reals(b)) = OnEventsEnqueued(reg, Reals(b))
  /\ \A a \in NotifyAddr : Registrable(reg) /\ Live(reg, a) = {} =>
       LoopMatch(Recorded(reg, a)) = RegisterRequest(reg, a)
=============================================================================
