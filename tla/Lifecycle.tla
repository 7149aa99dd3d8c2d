----------------------------- MODULE Lifecycle -----------------------------
(***************************************************************************)
(* LifecycleTracer (runtime/lifecycle_trace.py) observing SyncedInput: it  *)
(* follows the three events of the first phase key with the tracked scan   *)
(* code through eight stages and counts each on its own evidence.          *)
(*                                                                         *)
(* The hooks on the program counter follow the game through the function   *)
(* that calls GetEvent: the call returns with the event structure filled   *)
(* (RETURN), and a key event may then be passed on (INTERPRETED).  That    *)
(* part of the game is external.  The bitmap records and the samples of    *)
(* the program counter are left out: no stage depends on them.             *)
(***************************************************************************)
EXTENDS SyncedInput

CONSTANTS
  Tracked,      \* TRACKED_SCANCODE
  MaxDelivered  \* bound on the count of "delivered_to_handler"

ASSUME LifecycleAssumption == Tracked \in Scan /\ MaxDelivered \in Nat

\* The first tracked key of the sequence is not followed by another at once
\* (PHASE1_KEYS begins "5", "down", sync_injector.py:65).  InterpretedIsTracked
\* needs it: an ignored "5" right before another one would lend it its role.
ASSUME FirstTrackedAssumption ==
  \A n \in 1..(Len(Keys) - 1) :
    Keys[n] = Tracked /\ Keys[n + 1] = Tracked =>
      \E m \in 1..(n - 1) : Keys[m] = Tracked

VARIABLES
  tracer,   \* the fields of LifecycleTracer
  hand,     \* the TWsEvent the game passes to GetEvent, with the id of the
            \* event it was filled from (an observer; 0 for an idle one)
  at        \* how far the game is with it: "polling", "returned", "key"

traceVars == <<q, reg, running, inj, module, tracer, hand, at>>

Stages == {"generated", "enqueued", "eventready_completed", "wait_woken",
           "dequeued_by_getevent", "delivered_to_handler",
           "interpreted_by_module", "injector_acknowledged"}

TracerStart ==
  [armed   |-> FALSE,
   tracked |-> [r \in Roles |-> 0],       \* tracked_event_ids, by role
   count   |-> [s \in Stages |-> 0],      \* stage_counts
   active  |-> "none"]                    \* _active_dispatch_role

TraceInit ==
  /\ SyncInit
  /\ tracer = TracerStart
  /\ hand = [type |-> "NULL", scan |-> "none", id |-> 0]
  /\ at = "polling"

-----------------------------------------------------------------------------
Counted(t, stage, n) == [t EXCEPT !.count[stage] = t.count[stage] + n]

\* The roles of the tracked key whose events are among ids.
TrackedRoles(t, ids) == {r \in Roles : t.armed /\ t.tracked[r] \in ids}

\* arm without first-call-wins.
ArmedAgain(t, ids, s) ==
  IF s # Tracked THEN t ELSE [t EXCEPT !.armed = TRUE, !.tracked = ids]

\* arm: the first call with the tracked scan code wins.
Armed(t, ids, s) ==
  IF t.armed \/ s # Tracked THEN t
  ELSE [t EXCEPT !.armed = TRUE, !.tracked = ids]

\* on_key_generated for the three roles of a key.
KeyGenerated(t, s) ==
  IF s # Tracked THEN t ELSE Counted(t, "generated", 3)

\* The injector went from i to j in a refill: if it sent a phase key it armed
\* the tracer and announced the key.
Announced(t, i, j) ==
  IF j.idx = i.idx THEN t ELSE KeyGenerated(Armed(t, j.ids, j.scan), j.scan)

\* on_event_enqueued and on_eventready_completed, for all the events the
\* registry heard of and all the requests it completed from r to s.
Enqueued(t, r, s) ==
  LET new    == r.nextEvent..(s.nextEvent - 1)
      backed == {s.requests[i].event :
                   i \in InState(s, "COMPLETED") \ InState(r, "COMPLETED")}
  IN  Counted(Counted(t, "enqueued", Cardinality(TrackedRoles(t, new))),
              "eventready_completed", Cardinality(TrackedRoles(t, backed)))

\* on_wait_woken: the event of the request the wake is attributed to, unless
\* the request is closed by then.
Woken(t, r) ==
  IF r.signalCount = 0 \/ r.wakeLog = <<>> THEN t
  ELSE Counted(t, "wait_woken",
               Cardinality(TrackedRoles(t, {r.requests[Head(r.wakeLog)].event})))

\* on_injector_ack, called by the injector i for an event of its key.
Acknowledged(t, i, id) ==
  IF i.state = "AWAITING_CONSUMPTION" /\ \E r \in Roles : i.ids[r] = id
  THEN Counted(t, "injector_acknowledged", Cardinality(TrackedRoles(t, {id})))
  ELSE t

\* on_event_consumed for the event id.
Dequeued(t, id) ==
  IF TrackedRoles(t, {id}) = {} THEN t
  ELSE [Counted(t, "dequeued_by_getevent", 1) EXCEPT
          !.active = CHOOSE r \in TrackedRoles(t, {id}) : TRUE]

\* GetEvent delivered e while the registry was r and the injector i: the
\* injector hears first, then the tracer.
Delivery(t, e, r, i) ==
  IF e = Null \/ r.eventFifo = <<>> THEN t
  ELSE LET id == Head(r.eventFifo).id
       IN  Dequeued(Acknowledged(t, i, id), id)

\* _on_getevent_return, which clears the active role when the structure holds
\* another scan code, and without that.
\* An idle event leaves the scan code in the structure, so the count goes on
\* with every idle event after the tracked key: it is kept up to MaxDelivered.
ReturnCounted(t) ==
  [t EXCEPT !.count["delivered_to_handler"] = Min({@ + 1, MaxDelivered})]

ReturnKeepsActive(t, scan) == IF scan # Tracked THEN t ELSE ReturnCounted(t)

Returned(t, scan) ==
  IF scan # Tracked THEN [t EXCEPT !.active = "none"] ELSE ReturnCounted(t)

\* _on_interpreted: one-shot per dispatch.
Interpreted(t) ==
  IF t.active = "none" THEN t
  ELSE [Counted(t, "interpreted_by_module", 1) EXCEPT !.active = "none"]

-----------------------------------------------------------------------------
\* handle_get_event fills the structure; an idle event leaves its scan code.
Filled(e, r) ==
  IF e = Null THEN [hand EXCEPT !.type = "NULL", !.id = 0]
  ELSE [type |-> e.type, scan |-> e.scan, id |-> Head(r.eventFifo).id]

TracedTick ==
  /\ Tick
  /\ tracer' = Enqueued(Announced(tracer, inj, inj'), reg, reg')
  /\ UNCHANGED <<hand, at>>

TracedFetch ==
  /\ at = "polling"
  /\ Fetch
  /\ tracer' = Delivery(tracer, Head(q), reg, inj)
  /\ hand' = Filled(Head(q), reg)
  /\ at' = "returned"

TracedFetchAfterRefill ==
  /\ at = "polling"
  /\ FetchAfterRefill
  /\ \E out \in {Refilled} :
       IF out.batch = <<>>
       THEN UNCHANGED <<tracer, hand, at>>
       ELSE LET full == OnEventsEnqueued(reg, Reals(out.batch))
                t    == Enqueued(Announced(tracer, inj, out.inj), reg, full)
            IN  /\ tracer' = Delivery(t, Head(out.batch), full, out.inj)
                /\ hand' = Filled(Head(out.batch), full)
                /\ at' = "returned"

TracedAsks(a) ==
  /\ Asks(a)
  /\ tracer' = Enqueued(tracer, reg, reg')
  /\ UNCHANGED <<hand, at>>

TracedWaits ==
  /\ Waits
  /\ tracer' = Woken(tracer, reg)
  /\ UNCHANGED <<hand, at>>

\* The game is at GETEVENT_RETURN_PC.
GetEventReturns ==
  /\ at = "returned"
  /\ tracer' = Returned(tracer, hand.scan)
  /\ at' = IF hand.type = "NULL" THEN "polling" ELSE "key"
  /\ UNCHANGED <<q, reg, running, inj, module, hand>>

\* It passes the key event on, at EEVENTKEY_VTABLE_CALL_PC or
\* RAWKEY_CONSUMER_CALL_PC, once, more than once or not at all ...
KeyInterpreted ==
  /\ at = "key"
  /\ tracer' = Interpreted(tracer)
  /\ UNCHANGED <<q, reg, running, inj, module, hand, at>>

\* ... and polls again.
KeyHandled ==
  /\ at = "key"
  /\ at' = "polling"
  /\ UNCHANGED <<q, reg, running, inj, module, tracer, hand>>

Untraced ==
  /\ \/ \E m \in Modules : EntersModule(m)
     \/ Elapse
  /\ UNCHANGED <<tracer, hand, at>>

TraceNext ==
  /\ running
  /\ \/ TracedTick \/ TracedFetch \/ TracedFetchAfterRefill
     \/ \E a \in NotifyAddr : TracedAsks(a)
     \/ TracedWaits
     \/ GetEventReturns \/ KeyInterpreted \/ KeyHandled
     \/ Untraced

TraceSpec == TraceInit /\ [][TraceNext]_traceVars

-----------------------------------------------------------------------------
\* Three observers agree about the tracked key: what the tracer saw dequeued
\* is what the injector acknowledged, and what it saw enqueued and not yet
\* dequeued is what the registry's ledger holds of it.
ObserversAgree ==
  LET n      == tracer.count
      queued == {e.id : e \in ToSet(reg.eventFifo)}
  IN  /\ n["injector_acknowledged"] = n["dequeued_by_getevent"]
      /\ n["enqueued"] - n["dequeued_by_getevent"]
           = Cardinality(TrackedRoles(tracer, queued))

\* Evidence for a later stage never outruns the stage before it: the counters
\* are incremented independently, from hooks in four modules.
StagesNest ==
  LET n == tracer.count
  IN  /\ n["enqueued"] <= n["generated"]
      /\ n["enqueued"] <= 3
      /\ n["eventready_completed"] <= n["enqueued"]
      /\ n["wait_woken"] <= n["eventready_completed"]
      /\ n["dequeued_by_getevent"] <= n["enqueued"]
      /\ n["interpreted_by_module"] <= n["dequeued_by_getevent"]

\* An interpretation is attributed to the tracked key only while the game
\* handles that very event: a later GetEvent call is never "mis-attributed to
\* this same tracked event" (comment at lifecycle_trace.py:299-300), even if
\* the game ignored the tracked event and polled idle ones in between.
InterpretedIsTracked ==
  [][tracer'.count["interpreted_by_module"] # tracer.count["interpreted_by_module"]
       => /\ tracer.active # "none"
          /\ tracer.tracked[tracer.active] = hand.id]_traceVars

\* The tracer follows the first tracked key only ("Stage-by-stage tracer for
\* the FIRST occurrence of TRACKED_SCANCODE", lifecycle_trace.py:91): its three
\* events are generated once.
GeneratedOnce == tracer.count["generated"] <= 3
=============================================================================
