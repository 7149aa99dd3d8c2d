# Verification of the ngage-sims-port harness

This directory models the harness that runs the game.  Its core decides *when
the game gets an event and what it may conclude from it*: the event queue, the
request registry of the async model and the state-synchronized key injector.
Around it are the services the game calls (heap, files, C library), what the
harness does to the game's code (patches, key scripts, tracers), and the host
side (frames, keyboard, clock, fast drawing, unpacked assets).  TLC checks the
models on small instances; TLAPS proves, for every value of the constants, all
but two of the safety properties the runs check, and both refinements of the
async model.

All paths below are relative to the repository (`src/`).

## 1. Inventory

The program emulates one N-Gage binary in Unicorn.  Everything runs in one host
thread: the emulated instructions, a hook that runs before each of them
(`run.py`, `hook_code`), and the import handlers that replace the operating
system.  A handler or a hook runs to its end before the next instruction, so
there are no data races.  What makes the system hard is the *order* of three
independent parties that share state: the game (which calls EventReady,
GetEvent, RequestComplete and WaitForAnyRequest when it likes), the producer
tick (on a multiple of the instruction counter, whatever the game does) and the
lazy refill (inside GetEvent, when the queue is empty).

| component | state | operations | what makes it correct |
|---|---|---|---|
| `EventQueue` (`runtime/input.py`) | `_q` | `produce_tick`, `pop`, `peek`, `push_*`, the trim | real events are never lost or reordered by the trim; the backlog is bounded; idle gaps stay |
| `RequestRegistry` (`runtime/async_model.py`) | `_requests`, `_pending_order`, `_event_fifo`, `signal_count`, `_completion_wake_log`, the legacy view, the guest's status words | `register_request`, `on_event_enqueued`, `_try_match`, `_complete`, `on_event_consumed`, `on_request_complete`, `cancel`, `wait_for_any_request` | no lost wakeup, first come first served, one live request for each status word, truthful words, a ledger that agrees with the queue |
| `SyncKeyInjector` (`runtime/sync_injector.py`) | `state`, the key in flight, its foreseen ids, deadlines | `refill`, `_on_event_consumed`, `on_game_key_scan` | one key in flight, no key left down, phase boundary, `max_keys`, a stall is reported and final |
| run loop (`run.py`) | instruction counter, hooks | build, hook dispatch, tick, end of the run | the tick is independent of consumption |
| scripted refills, recorder (`research_v209.py`) | script left, phase, read-watches and their registry, timeline | two refills, register, expire, snapshot | the script is pressed in order, once, and not before module 5; one hook for each watched object; one snapshot for each interval |
| `LifecycleTracer` (`runtime/lifecycle_trace.py`) | tracked ids, eight stage counters, the dispatch latch | `arm`, `on_*`, `on_pc` | its counters agree with injector and registry, stages nest, an interpretation is attributed to the right event |
| `WaitTracer` (`runtime/wait_trace.py`) | the open window, the records | `on_wait_enter`, `on_wait_return`, `on_pc` | each wait gets one window, closed by one cause, that tells what happened in it |
| patches (`patches.py`) | enabled set, counters and latches in closures | set-up, dispatch by address | sub-states only forced forward, calls through unconstructed objects return, the event slot is not starved by the housekeeping slot |
| allocator, graphics buffers (`runtime/memory.py`, `runtime/graphics.py`) | the mark, the address cache, the cursor records | `alloc`, stamping, lookup, `Begin` | disjoint blocks up to and past exhaustion, no vtable in a raw array, a buffer of its own for each bitmap |
| archive files (`runtime/archive.py`, `imports/estlib.py`) | open streams, what each still holds | open, close, read, getc, seek, write; string and memory functions | the archive is never damaged, acknowledged bytes are on disk, copies arrive whole |
| arithmetic imports (`imports/euser.py`) | none | division, modulo | quotient and remainder agree, up to the edge of the word |
| presenter, region view (`runtime/presenter.py`, `runtime/region_view.py`) | frames seen and presented, records, the cached image and its key | `present`, `build`, `close` | records are the newest frames without a hole, the image shown is of the tables of that frame |
| host keys (`runtime/presenter.py`, `runtime/host_input.py`) | the hat, the pressed set | `poll_input`, `pump`, `release_all` | press and release alternate for each key, nothing stays pressed |
| clock (`runtime/clock.py`) | microseconds waited | `now_us`, `note_after` | time never goes back |
| blitter (`runtime/blit4.py`), sprites | the writes expected in verify mode | `compute`, the three hooks | the fast path writes what the original writes |
| asset installer (`runtime/assets.py`) | the cache, the pending chunk | the read hook and its return | a read gets the bytes of its own record |
| loader, context, offline tools | | | not modelled, see section 5 |

How they interact: `run.py` (345-356) sets `EventQueue.on_enqueue` to the
registry's `on_event_enqueued`; `wrap_get_event` taps every pop and calls
`on_event_consumed`; `install` returns the handlers of the game's imports; the
injector replaces the queue's refill callback and hooks itself into
`on_event_consumed`.  The registry identifies events by *position* in its
ledger and the injector by an id it *foresees*: both are right only as long as
nothing slips in between, and that is what most of the properties are about.

The services of the import table share no state with one another, and neither
do the parts of the host side; they meet only in the game, which calls them in
any order.  Patches, tracers and scripts all hang on the one hook before each
instruction, whose order (tick, observers, patches, imports, sentinel, module
gate, snapshot, limit) is itself modelled, since an early return in it skips
what comes after.

The published `run.py` builds no presenter, no host-input bridge and no clock,
and calls neither the blitter's nor the asset installer's `install`; those
modules are modelled as their own interfaces describe their use.

The hazards, each with its line and the properties that would catch it, are in
`PROJECT.json`.

## 2. Modules

| module | models | used by |
|---|---|---|
| `Events` | the event pairs, the burst of a key press, `_trim_stale_nulls` as a recursive function on positions | all |
| `EventQueue` | the class, with an arbitrary refill and the observer `owed` | `MCEventQueue`, and as the abstraction of the composed model |
| `RequestRegistry` | the class, as functions from a registry record to the next | `AsyncModel` |
| `AsyncModel` | queue + registry + import handlers; the game and the refill are arbitrary | `MCAsyncModel` |
| `WindowServer` | the abstract promise: events arrive, clients ask, answers are in order | `AsyncRefinement` |
| `AsyncRefinement` | `AsyncModel` implements `WindowServer` and `EventQueue` | `MCAsyncModel` |
| `MatchingLoop` | the matching loop as written, and that the closed form is the loop | `MCAsyncModel` |
| `SyncInjector` | the class, as functions on its record of fields | `SyncedInput` |
| `SyncedInput` | `AsyncModel` with the injector as refill, time, and the module index | `MCSyncedInput` |
| `Lifecycle` | `LifecycleTracer` observing `SyncedInput`, and the game's function around GetEvent | `MCLifecycle` |
| `EventsProofs` | lemmas: what `Reals` and `TrimStaleNulls` compute, what a fold over a sequence computes | all other modules of proofs |
| `EventQueueProofs` | theorems about `EventQueue` | |
| `AsyncModelProofs` | theorems about `AsyncModel`: requests, claims, wakes, status words; queue and ledger agree; `EventQueue` and `WindowServer` are implemented | `SyncedInputProofs` |
| `SyncedInputProofs` | theorems about `SyncedInput` | `LifecycleProofs` |
| `LifecycleProofs` | theorems about `Lifecycle` | |
| `GuestHeap` | allocator, allocating imports, bitmap buffers, pixel cursors | `Services` |
| `ArchiveFiles` | stdio on two files, several streams, a disk that may be full | `Services` |
| `GuestMemory` | C library functions on partly mapped memory, signed division | `Services` |
| `Services` | the three together | `MCServices` |
| `ServicesProofs` | theorems about `Services` | |
| `Pump` | the game's message pump, the three patches in it, `WaitTracer` | `Harness` |
| `PatchedRun` | the other patches and the code hook's dispatch | `Harness` |
| `Research` | the scripted refills, the read-watches, the snapshot recorder | `Harness` |
| `Harness` | the three together, and the fairness of the pump | `MCHarness` |
| `HarnessProofs` | theorems about `Harness` | |
| `Presenter` | frames, records, the region image and its key | `Frontend` |
| `HostInput` | polling, the bridge, the clock | `Frontend` |
| `Pixels` | blitter and verify mode, sprites, view, entity list, as functions of an arbitrary input | `Frontend` |
| `AssetReads` | record reads answered from a directory | `Frontend` |
| `Frontend` | the four together | `MCFrontend` |
| `FrontendProofs` | theorems about `Frontend` | |

Correspondence with the code.  One handler call is one action, with every
change it makes: `GetEvent` is `handle_get_event` and the tap around it,
`ProduceTick` is the refill, the notifications, the matching and the trim.
The registry's record has one field for each attribute of the class plus
`status`, the guest's TRequestStatus words, which on the harness side only this
class writes.  `_try_match` is a loop; `TryMatch` is its closed form (the n-th
unclaimed event completes the n-th pending request), because the proof system
cannot reason about a RECURSIVE operator.  `LoopMatch` and `LoopEnqueue` in
`MatchingLoop` are the loops as written, and the invariant `MatchIsLoop`
compares the two in every reachable state.

The injector's instruction stamps are kept as distances from the present, and a
stamp older than the stall budget is kept at one value (`Long`): no comparison
in the code distinguishes two such stamps, and the model stays finite without a
bound on time.

`Lifecycle` composes the tracer with every action of `SyncedInput` it hears of:
the queue tells it of enqueued events through the registry, the registry of
completions, wakes and deliveries, the injector of the key it sends and of its
own acknowledgements, and the hook on the program counter of the game's function
around GetEvent.  That function is external: it returns with the structure
filled, may pass a key event on once, often or never, and polls again.  The
tracer's bitmap records and samples are left out; no stage depends on them.

Abstractions: scan codes and status words are model values; the two kinds of
registration (EventReady, PriorityKeyReady) are one, since the code only labels
records with the kind and both share one line; statistics and logs are left out.

`Services`, `Harness` and `Frontend` put side by side parts that share no
variable.  Each behaviour lets one of them act (`part`) and the others stand
still in an initial state.  Since no step of one part reads or writes a
variable of another, every behaviour of the full interleaving projects to these,
and the invariants of each part, and the liveness of the pump, are those of the
whole; the state space is the sum of the parts' and not their product.

In `GuestHeap` an address is a number and memory is the words the harness
itself writes.  In `ArchiveFiles` a stream keeps what Python could not flush,
because the host's disk may refuse bytes at any write, and sends it with its
next flush; the bytes Python reads ahead are not modelled.  In `GuestMemory`
everything past the last mapped byte stands for unmapped memory, which makes a
handler answer with its error value or raise, as the code does.

`Pump` follows the game's function instruction by instruction as far as the
patches and the tracer look at it; it is external code, so all its branches on
the game's own fields are left open.  Of the registry it has what one status
word needs: the request on the word, the real events nobody claimed, the signals
and the length of the wake log.  With one word a completed request is always
backed by the oldest real event, so the ledger is a number; `EventArrives` is a
refill that queues a real event, and a refill of NULLs, which completes nothing,
is no step.  Whether slot 2 is ready is left to the game although the patch sets
its flag, because the slot's status `[this+0x50]` is compared too and nothing in
the repository says who writes it; slot 3 is left open in the same way.  `PatchedRun` reduces the program counter to the places
the hook distinguishes; a plain instruction may lead to any of them.  In
`Research` the instruction after an import is never an import, since imports are
reached by a branch.

In `Presenter` a frame is the instruction it was taken at and a decoded layer
the version of its data.  `ImageMatchesKey` speaks of the key, not of the data:
the code re-decodes only when a map pointer or a width changes, and a layer
rewritten in place is by design shown as it was (`region_view.py:82-91`).

Some definitions in the modules are variants of the one below them, with a
plausible defect (`RegisterNoMatch`, `TrimOldest`, `FixedDeadline`, ...).  They
are not part of any specification.  `PROJECT.json` says which property each of
them breaks; several are defects the repository's comments report as fixed
(front-only trimming, duplicate registrations before v230, no stall budget
before v223).

## 3. Runs

| run | question | answer |
|---|---|---|
| `event_queue` | does the trim, with the code's own constants (keep 2, threshold 8, hold 10, gap 3), keep real events, bound the backlog, keep the gaps? | yes |
| `async_model` | do queue and registry together behave as a window server? | yes, 12 properties |
| `synced_input` | does the injector keep its discipline, whatever the game does and whenever time passes? | yes, 7 properties |
| `synced_live` | is every key resolved or its stall reported? | yes, under the fairness below |
| `lifecycle` | do tracer, injector and registry agree about the tracked key, whatever follows it? | yes, 3 properties |
| `services` | do heap, files and C library keep their promises? | yes, 4 properties |
| `harness` | do patches, tracer, scripts and observers keep their schedules, and is the event slot looked at again and again? | yes, 3 properties |
| `frontend` | does the host side show, press, draw and serve what belongs to the moment? | yes, 4 properties |
| `lifecycle_generated` | is the generation of the tracked key alone counted? | no: every phase key with its scan code is |
| `async_pending_view` | is the legacy view what its comment says? | no: a COMPLETED request is missing from it |
| `synced_starve` | can GetEvent always pop from the injector's queue? | no: see below |
| `research_reads` | does the registry of read-watches keep what was read? | no: a second watch replaces the first one's statistics |

Several properties are conjunctions of named parts, one for each hazard:
`HeapSound` of `BlocksDisjoint`, `StampsOnlyObjects` and `CacheStaysRight`;
`LibrarySound` of `ArchiveIntact`, `AckedIsOnDisk`, `StreamsSound`,
`StrchrFindsFirst` and `DivisionAgrees`; `CallsKeepTheirWord` of `CopiesArrive`
and `AddressIsStable`; `FramesSound`, `HostSound`, `PixelsRight` and
`HarnessSound` likewise.  TLC names the state, and the parts are short.

`DivisionAgrees` and `KeysAlternate` include what the code does at its edges:
dividing the least word by -1 raises in `struct.pack` and ends the run
(`euser.py:95`), and a bridge given the queue of `runtime/input.py` raises at
its first transition, because that queue has no `push_host_keydown`
(`host_input.py:25`); the properties say that these are the only such cases.

The four violations.

* `GeneratedOnce`: `on_key_generated` (`lifecycle_trace.py:199-203`) compares the
  scan code only, although the class follows "the FIRST occurrence" (91) and
  stays on it whatever is sent later (115-117).  `PHASE1_KEYS` begins and ends
  with "5": once `max_keys` permits the fifth key, `generated` is 6 and
  `enqueued` stays 3, as if three events had been lost on the way.

* `PendingMirrorsOutstanding`: the comment at `async_model.py:225-228` says
  that `pending` mirrors the requests in PENDING or COMPLETED.  `_complete`
  (344) removes a request from it as soon as it is COMPLETED.
* `GetEventAlwaysAnswers`: after a navigation key was confirmed, `refill` sets
  `NAV_READY` (330) and reaches its end without appending, because the
  `NAV_READY` branch is above.  Called from the tick this only delays the key
  by one tick; called from GetEvent on an empty queue, `popleft`
  (`input.py:181`) raises IndexError, the hook re-raises and the run ends.  It
  takes a game that polls GetEvent while a request is pending, which the poll
  gate patch brings about.

* `ReadsAreKept`: `research_v209.py:40` says of `read_watch_registry`:
  "this_ptr -> stats dict, kept permanently (incl. after removal)".
  `register_read_watch` (61) stores fresh statistics under the object's address
  without looking at those already there, and `slot_text_object_deepdump`
  (1298-1301) watches a known object again each time it meets it after the last
  watch expired.  The report of `run.py:1639-1641` then shows the last watch
  only.

Two comments are stale in a way the models do not turn into runs:
`input.py:111-113` says that only the run at the front is trimmed (the
docstring at 122-130 and the code say every run), and
`sync_injector.py:57-63` calls the navigation keys blind (since v231 they are
confirmed like the others).

### Bounds and why they are enough

Counters are bounded in the guards, never by a state constraint.

* A refill that would not fit is not taken (`Fits`): Python's queue has no
  limit, and `MaxQueue` is the model's.  The theorems hold for every `MaxQueue`.
* `event_queue`: 32 entries, two keys, three batches.  A burst has 19 entries,
  so two bursts with idle events between, before and after them fit partly, and
  the trim meets runs at the front, in the middle and at the end.
* `async_model`: 4 requests, 3 events, 2 signals of the game's own, 5 queue
  entries, keep 1 and threshold 2 so that the trim acts at this size.  Two
  notification words and one the game completes itself; one word is both, so
  that `request_complete_tracked` is taken.  Claims, cancels, orphan
  consumptions and re-registrations of each word all happen within three events.
* `synced_input`: one navigation key, one phase-1 key, two phase-2 keys with
  `max_keys` = 2, so that the run meets the navigation branch, the boundary
  and the cap.  `MaxRequests`, `MaxEvents` and `MaxQueue` are larger than the
  keys can use and never bind.  The first hold (3) outlasts the stall
  budget (1), the others are 0, so both forms of the burst and the deadline
  counted from the release are exercised.
* `synced_live`: one navigation and one phase key, no cap, so that the end of
  the sequence (DONE) is met; one status word.

* `lifecycle`, `lifecycle_generated`: a phase 1 of three keys whose first and
  last have the tracked scan code, as in `PHASE1_KEYS`.  `MaxRequests` = 4 does
  bind: a game that registers after each key still reaches the end of the third
  key within it.  `MaxDelivered` caps `delivered_to_handler`, which an idle
  event increments too (the scan code stays in the structure) and which no
  property reads.

* `services`: a heap of four smallest blocks and two bitmaps, so that it is
  exhausted in every order of requests, before and after the buffers; two
  streams on files of at most two bytes with one failed write waiting, so that
  both streams may stand on one file and a flush may fail in each call; five
  mapped bytes with caps of 3 to 5, so that strings end before, at and past the
  cap and copies overlap in both directions and cross the mapped end; words of
  three bits, whose least value divided by -1 is the edge of the code's 32.
* `harness`: the patch periods 100 and 15 are 5 and 3; each counter counts the
  passes over its own place only, so what matters is that a pass is forced
  again and again, not after how many;
  `CaptureLimit` is 8, below the longest window and above the shortest, so that
  windows close by the limit, by a new wait and by the exit.  `MaxUnclaimed` = 2
  leaves a request to be pending, completed at once by an event already there,
  or behind an event nobody asked for; the signals need no bound, never more than
  two of them wait.  Seven instructions with a dwell of 2
  carry the sweep to its last state (`max_state` = 2 for 12) and past the end of
  its schedule, with the game's own moves behind, at and ahead of it (sub-states 0,
  1 and 5, above the 3 that module 4 is sent to); five sets of disabled patches.
  Nine steps with a tick every 2 and a snapshot every 3 instructions press
  the whole script of two keys, expire a watch and watch again.
* `frontend`: four calls of `present` with `max_records` = 2 and a limit of 2
  frames; two entries of the region tables with layers of equal and of
  different width, data that changes under one key, and null pointers; two host
  keys that share a name with each other, one with a direction of the hat; words
  of four one-bit pixels, shifts and widths all; two handles, records of 3 and
  2 bytes and reads of up to 2, so that reads end before, at and past the end of
  the record.

Deadlock checking is off: the models stop when a bound is reached or an
exception has ended the run.

### Fairness

`FairSyncSpec` assumes weak fairness of `Elapse` and `Tick` only: while Unicorn
executes instructions its counter grows and the hook calls the producer every
2000 instructions (`run.py`, 442 and 558).  Nothing is assumed of the game.
`synced_live` uses `RequireScan = FALSE`.  With
`--sync-release-on-game-scan` the injector also waits for a key scan, and if a
request is pending and the scan never comes it waits for ever without a report
(`sync_injector.py:328-340`); the same is true of `WAIT_MODULE5` and
`WAIT_PHASE_BOUNDARY`.  The documents promise a report only for a key without a
fresh registration, so this is noted and not counted as a violation.

`HarnessSpec` assumes weak fairness of `Inside` only, the instructions of the
pump once it has been entered: the emulator goes on executing, and a RunL the
pump calls returns.  Nothing makes the game call the pump again, nothing makes a
refill produce a real event, and nothing is assumed of the choices the game
makes.  NULLs complete no request (`async_model.py:310`), and before module 5,
after the script and after a stall the refills produce nothing else; the pump
then leaves at its entry gate for ever, or is not called any more.  These are the
two causes `wait_trace.py:156-163` considers for the freeze that was observed.
`EventsGetThrough` says that there is no third: if neither is the case, slot 2 is
reached again and again.  It needs the forced pass of `event_alt_escape`: a
housekeeping slot that is always ready would otherwise win every scan
(`patches.py:63-107`).

## 4. Proofs

All theorems are proved from the named assumptions on the constants only
(`EventsAssumption`, `QueueAssumption`, `RegistryAssumption`, `AsyncAssumption`,
`InjectorAssumption`, `HeapAssumption`, `FilesAssumption`, `MemoryAssumption`,
`PumpAssumption`, `RunAssumption`, `ResearchAssumption`, `FirstTrackedAssumption`,
`PresenterAssumption`, `ClockAssumption`, `PixelAssumption`, `AssetAssumption`),
which TLC evaluates in the runs.  They give types and ranges, and besides that
only facts of the code: strlen looks farther than strchr and strcpy do (4096
bytes to 512 and 260), addresses of nodes are finitely many and not null, the
tracked key is not pressed twice in a row at the start.

### The queue

`EventsProofs` says what the two loops over a sequence compute.  `Reals` and
`TrimStaleNulls` are recursive functions on positions, so that a loop is known
by its states; `PositionInduction` (a set of positions that holds 0 and every
successor holds them all) is derived from the well-founded order of the
naturals by taking the least missing position, because the induction theorems of
the library are out of reach.  From it: `RealsAre` (a function that starts
and steps as the loop does is the loop), `Reals` of an appended event and of a
concatenation, and for the trim that it keeps the real events in order, that its
output is no longer than its input and that its idle events stand in runs of at
most `StaleNullKeep`.

`EventQueueProofs` needs no strengthening: `QueueTypeOK` and `RealsSurvive` are
inductive together.

* `QueueTypeCorrect`, `RealsSurviveHolds`: the types; no real event is lost,
  duplicated or reordered by the trim.
* `TickBoundsBacklogHolds`: after a tick the queue is at most as long as the
  threshold, or its idle events stand in short runs.
* `GapsSurviveHolds`: the trim shortens a gap between two real events to the
  allowance and no further.  `Places` tabulates where the n-th real event of a
  sequence stands, so `NthReal` is known; `GapOfAppend` says what one more event
  does to the gaps; and each turn of the trim's loop keeps `TrimmedLike`: the
  output has the real events of the prefix, each gap is the prefix's gap cut to
  the allowance, and the counter is the prefix's last gap.

### The registry

`AsyncModelProofs`:

* `RegistryTypeCorrect`: the registry record is well-formed in every reachable
  state.
* `NoLostWakeupHolds`: if a request is pending, no real event is unclaimed.
* `WakesHaveSignalsHolds`: completions not yet attributed never outnumber the
  signals.

The argument.  Each operation of the registry is first shown to keep the record
well-formed (one lemma for each).  The core is `TryMatch`: the matched events
are the unclaimed ones of rank at most the length of the line, so afterwards
either the line is empty or nothing is unclaimed.  This needs facts about
ranks in finite sets of positions (each rank is taken once, the ranks fill an
initial interval), proved as lemmas from the library's theorems on
cardinality.  Operations that do not match preserve the invariant because they
only remove: consumption removes the head of the ledger, cancellation shortens
the line.  All three invariants are inductive given well-formedness, so the
strengthening is the conjunction of each with `RegistryOK`.

The second part of the module, the life of a request:

* `ClaimsArePrefixHolds`, `CompletedAreBackedHolds`, `PendingOrderExactHolds`,
  `OneLivePerStatusHolds` and `StatusTellsTruthHolds`.

None of these is inductive.  That a match claims a prefix, for instance, needs
that every claim belongs to a request older than all that wait, which needs that
the line is in the order of registration, which needs that no unregistered id is
in use.  `LedgerInvariant` establishes all of it at once: `Ledgered` has nine
named parts on ids, words, the line and the claims (ids fresh, words owned
and distinct, the line increasing and exactly the pending requests, served
before waiting, claims increasing and a prefix, claims and completions
backing each other), and `TruthTold` says of each word that only the registry
writes what it must read.  Each operation is shown to keep each part; the match
is again the long case.

### The refinements

The third part of `AsyncModelProofs` adds the queue.  `Mirrored` says that the real events of
the queue are the events of the ledger; it is preserved because the trim
keeps `Reals`, and a delivery removes the head of both.  It gives `TypeCorrect`,
`LedgerMirrorsQueueHolds` and `QueueImplemented`: each action of `AsyncModel`
is an action of `EventQueue` or leaves its variables alone, with the ledger as
the observer `owed`.

The last part of the module proves `ServerImplemented`.  A client of the server sees of
a registry who waits (`Waiters`) and who was told (`Told`); there is a lemma for
what each operation does to this view.  A match moves the first waiters behind
those told, as many as there are unclaimed events; here `NoLostWakeup` is
needed, since the abstract server lets nobody wait beside an unclaimed event.  A
cancellation takes one client out of the line, and the proof has to follow the
positions of the others.

### The injector

`SyncedInputProofs` proves the type invariant and six properties of
`SyncedInput`, for all sequences of keys, holds, gaps, budgets and caps:
`SyncTypeCorrect`, `LedgerIsTheKeyInFlightHolds`, `NoStuckKeyHolds`,
`AtMostMaxKeysHolds`, `KeysMeetARequestHolds`, `PhaseBoundaryHoldsAlways` and
`StallIsFinalHolds`.

The argument.  `RefillOutcome` reduces the state machine of `refill` to three
outcomes: it supplies nothing real (`Rests`), it queues a key-up held back
(`Releases`), or it sends a key (`Sends`).  The invariant `InStep` is

* `Mirrored`, from the refinement;
* the types of the fields (`Injector`), with the ranges of the time stamps;
* `Sequenced`: what the state says of the fields alone, such as the three
  consecutive ids, the key-up held back only while a key is in flight and no
  stall was reported, and the boundary flag only with phase 2;
* `Joined`, which relates injector and registry.  `FetchedInOrder`: while a key is in
  flight the game has fetched its first k events and the ledger holds the others
  that were queued, under the foreseen ids; at all other times the ledger is
  empty.  `IdsCounted`: three events were enqueued for every key sent, less one held
  back.  `Waited`: the request that let the injector on to the next navigation
  key still waits one refill later, when the key is sent.

`LedgerIsTheKeyInFlight` does not speak of ids foreseen for events not yet
queued, so it is not inductive: `FetchedInOrder` and `Sequenced` add them.  `Waited` is
what makes the check of the navigation keys, which the code makes one refill
early, as good as a check at the sending: nothing can complete the request in
between because the ledger is empty, and no code of the repository calls
`cancel`.  The three action properties follow from what `RefilledFacts` and
`StepAllowed` say of one step.

### The tracer

`LifecycleProofs` proves all three properties of `Lifecycle`, for every sequence
of keys and whatever the game does with what it gets:

* `ObserversAgreeHolds`: what the tracer counted as dequeued is what it heard
  acknowledged, and what it counted as enqueued and not dequeued is what the
  ledger holds of the key.
* `StagesNestHolds`: no stage outruns the one before it.
* `InterpretedIsTrackedHolds`: an interpretation is counted for the tracked key
  only while the game handles that very event.

The argument.  The counters follow three marks of the registry: the last id
given, the last one fetched, the last one promised to a request.  Each counter
is the number of tracked ids up to its mark (`Upto`), or at most that where a
stage may be skipped.  `Marked` says of the registry that the marks are in this
order, that promised ids are not promised again, and to which events the wakes
not yet attributed belong; `Traced` ties the counters to the marks, counting the
wakes still in the log and the dispatch in progress in advance.  `Followed`, the
conjunction with `InStep`, is inductive.

The third needs more, because `_active_dispatch_role` is cleared by no return of
the game but only by the next acknowledgement: it survives while the next event,
of another key perhaps, is already in the game's hands.  `Attributed` adds
`ArmedFor` (the tracer is armed with the ids of the first tracked key, all later
ids are above), `Passed` (a dispatch still open when the next key is in flight
belongs to the last event of its key, the next key has another scan code, and
only its first event can have been fetched) and `InHand` (while a dispatch is
open, an event in hand with the tracked scan code is the tracked event).
`Passed` rests on `FirstTrackedAssumption`: the first tracked key of the
sequence is not directly followed by another of the same scan code.  The code's
sequence begins "5", "down" (`sync_injector.py:65`), so it has this property;
for a sequence that begins "5", "5" and a game that ignores the first one, the
tracer would count the second.

### The services

`ServicesProofs` proves everything the run `services` checks: `HeapSoundHolds`,
`CursorsIsolatedHolds`, `LibrarySoundHolds` and `CallsKeepTheirWordHolds`.  Heap,
files and memory have an inductive invariant each (`HeapInv`, `FilesInv`,
`MemInv`); the invariant of the whole is their conjunction, since a step of one
leaves the variables of the others alone.

*The heap.*  `Grows` says all a step may do to mark and blocks, and every
handler's allocation is shown to do no more (`AllocGrows`).  The cached failure
stays right because the mark never goes back; two buffers differ because a
cached one lies below the mark, where the new one begins.  `CursorsIsolated` is
not inductive, because it does not exclude a cursor into a buffer at address 0,
and because `Begin` prefers the bitmap recorded by the constructor to the one
in the guest's object.  The invariant has instead `CursorsPlaced` (a set cursor
is in a real buffer) and `RecordsAgree` (record and object name the same
bitmap); isolation follows from `CursorsPlaced` and the disjointness of blocks.

*The files.*  That acknowledged bytes are on disk is not inductive: a later
flush of another stream, with bytes left over from a failed write, could go over
them.  `LeftOversApart` excludes it (no byte left over anywhere goes to an
acknowledged place, or it goes to the end of the file, where none is), and it
survives an acknowledged write because that write either meets no left-over
bytes on its file or is the clash that `AckedIsOnDisk` excepts.  That the
archive is intact needs `ArchiveReadOnly`: until the game opens it for writing,
every stream on it reads, and so has nothing left over (`StreamsLive`).  A
read, a seek and a close are all shown to do no more than `Settles` says, which
leaves `fopen` and `fwrite` to be looked at by themselves.  What a flush writes
is a fold over the left-over writes, at most one before the stream's own
(`FlushRuns`, `FlushedAppend`).  That a number `fclose` has closed is never a stream
again, so that a FILE* the game kept cannot reach another stream, is a statement
about the past: the ghost `gone` keeps the closed numbers, and `NumbersOnce` says
that streams and closed numbers are disjoint and together all numbers below the
next one.

*The memory.*  A single call from an arbitrary memory shows all that any call
can do.  `strcpy` is a fold of single bytes with a state that says how far it
came (`Copying`); since source and destination are apart, what it has stored is
never what it is to read.  `strchr` and `strlen` stop at the same terminator, so the
first match before it is the first in the string (`StrchrIsFirst`).  Quotient and
remainder, with the signs of C, make the dividend again for every width of a
word, and the quotient leaves the range in one case only, the least word divided
by -1 (`ArithAgrees`).

### The harness

`HarnessProofs` proves `WindowsTellTheTruthHolds` and `HarnessSoundHolds` for
all periods, limits, schedules, scripts and sets of disabled patches.  The parts
share no variable, so the invariant is the conjunction of theirs and each step
has to be looked at in its own part only.

* `PumpInv`: an open window (`OpenAt`) agrees with what happened since the wait
  returned, and stands where the pump can be after that wait: after the first
  wait only on the way out, after the second before the scanner's result is
  known or behind it.  That is why the tracer, which keeps the last result it
  sees, and the ghost, which keeps the first, agree.  `GameStepTraced` reduces
  the nineteen actions of the pump to where they lead.
* `RunInv`: the sub-state of module 4 is at most 3, where its patch leads; its
  switch and the update of module 19 are reached in their own modules; a place
  off the mapped memory is next only without the patch against it; and at the
  limit the run goes on only behind a call that returns at once.
* `Scripted`: which keys are left says which were pressed (`ProduceKinds`: a
  refill rests, presses the next key of the script or the one key after it).
  `Watched`: after an instruction that is no import every watch ends later.
  `Snapped`: the count of instructions lies between the last snapshot due and
  the next, with one instruction more after an import.

`ForcedForward` failed at first for sub-states above 3: the model let the switch
of module 4 be executed while the game was in another module, where its patch
would have moved the sub-state back.  The switch is code of module 4's update
(`patches.py:143-151`), so `NextPlaces` now excludes it elsewhere, and the run
has a sub-state above 3.

### The host side

`FrontendProofs` proves, for every limit, cap, table, record and bound:

* `FramesSoundHolds`.  A record is appended under the number of its frame and
  trimmed from the front (`RecordAdded`, `OldestDropped`); so the records stay in
  order, without a hole (`Newest`), older than the counters (`Before`).  These two
  are what `RecordsAreNewest` lacks to be inductive.  The raw presenter never
  trims, and its files are the frames of its records (`Stored`).  An image changes
  only together with its key (`BuildIsForTheTables`).
* `ReadsAreTheirOwnHolds`.  The property speaks of a finished read; `Noted` says
  what on_read and on_ret remember of the one in progress: the chunk in waiting
  is its own, and when the engine's own bytes are wanted, or no read is in
  progress, there is none.  That an empty chunk is still a chunk is a
  step of the proof (`PieceProperties`).
* `HostSoundHolds`, of which `ClockNeverBackHolds` is the part on the clock.  What
  the bridge does with a batch of transitions is a fold; `BridgeOK`, which every
  transition keeps, is the part on alternation: pressed names are the names the
  game was told are down, and their number is presses less releases.  No direction
  sticks because every poll accounts for each direction no physical key has
  (`Explained`): the hat is there now, or the last the poll says of it is a
  release, or the hat was not there before and the poll does not press it.
* `SpritesAreWholeHolds`, of `PixelsRight`: place and tile determine each other,
  from the left for a plain sprite and from the right for a mirrored one.
* `ViewStaysInsideHolds`, of `PixelsRight`, for regions of at least the least
  view, 32 pixels in the code.  A smaller region `_draw` widens to 32, and nothing
  is claimed of it; the run has no such region.
* `EntitiesCountedOnceHolds`, of `PixelsRight`: each pass of the walk adds one
  to the count and a node to those seen, so the count never exceeds the number of
  nodes, on a list with a cycle as well.

### What is only model-checked

* The liveness properties, `EventsGetThrough` among them: fairness and ENABLED are outside the prover's reach.
* `MatchIsLoop`: the loops in it are RECURSIVE operators, and so is anything that
  would compare them with the closed form for every input.
* `BlitAgrees`, of `PixelsRight`: words are built from bits with powers of two,
  which the provers have no arithmetic for.

## 5. Not modelled, and the plan

`PROJECT.json` lists every component with its status.  Left out, and why:

* The probes of `research_v209.py` that read registers or memory and print, the
  trace blocks of `run.py` of the same kind, and its final reports: they change
  no state that anything else reads.  `Research` keeps everything that registers,
  counts or expires a watch, produces events or takes a snapshot.
* The loader and the thunk table: the binary is parsed once, before the first
  instruction.
* Decoding of tiles, palettes and PNGs, window set-up and drawing through the
  host toolkit: data conversion and pure output.
* `FramebufferWatcher` (`runtime/graphics.py`): an observer that copies guest
  writes for the pictures of the snapshots; nothing else reads it.
* The samples and bitmap records of `LifecycleTracer` and the instruction ring
  of `WaitTracer`: kept for the reports only.
* `r7_zero_experiment` (`patches.py:208-217`): it zeroes one register in the
  game's search for a name, and neither returns nor touches anything else the
  models have.
* `tools/`: scripts run by hand.  Those that wrap a run rely on parts not in
  this repository (`push_host_keydown`, options the published `run.py` does not
  have); the others list and convert archive data in one pass.
* The layout of the TWsEvent in guest memory, apart from the scan code the
  tracer reads.

## 6. How to run

    tlc -config MCAsyncModel.cfg MCAsyncModel
    tlc -config MCSyncedLive.cfg MCSyncedInput
    tlc -config MCServices.cfg MCServices
    tlc -config MCHarness.cfg MCHarness
    tlc -config MCFrontend.cfg MCFrontend
    tlapm EventQueueProofs.tla
    tlapm AsyncModelProofs.tla
    tlapm SyncedInputProofs.tla
    tlapm LifecycleProofs.tla
    tlapm ServicesProofs.tla
    tlapm HarnessProofs.tla
    tlapm FrontendProofs.tla
