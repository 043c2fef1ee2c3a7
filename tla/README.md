# TLA+ models of rv-control

`rv-control` is a daemon that collects telemetry from the devices of a motor
home (RV-C bus, Renogy and Hughes over Bluetooth, OBD, WLED, gpsd, weather),
publishes it to MQTT and to files, and executes semantic commands that
controllers send over MQTT.  This directory holds TLA+ models of it, TLC
configurations that check them and proofs that TLAPS checks.  Paths below are
those of the repository.

## 1. The system

One process, many threads.  The daemon (`cli.py`, `_run_session`) builds

    source threads --> RuntimePublisher --> CoachStatePublisher --> QueuedTarget --> MultiTarget
                          (variables,          (entity state)       (bounded FIFO,     (MQTT, store,
                           events)                                   one worker)        log)

and beside it the command service, which paho's network thread feeds and
which acts on the sources:

    MQTT callback --> CoachCommandService --> CoachRequestPlanner --> writable sources
                            |                 CoachQueries        --> status requests, entity state
                      RequestJournal (SQLite)

| Component | State | Operations | What makes it correct |
|---|---|---|---|
| Command service and journal (`coach_commands.py`) | durable rows, execution slot, admission lock, closing flag, worker | `receive`, `_execute`, `_query`, `close`, journal recovery | at most one dispatch per request, truthful results across crashes, one execution at a time, shutdown |
| Planner and policy (`coach_commands.py`) | policy, refresh cooldowns, write gates | `prepare`, `check_source`, `record_refresh` | every step authorized and bounded before the first one |
| Publication queue (`targets/base.py`) | bounded queue, flags, two locks, worker | `connect`, `publish_source`, `_dispatch`, `close` | order, isolation of targets, drain before close |
| Runtime publisher and variables (`runtime.py`) | lock, bound values with age, history, last snapshot, event states | `publish_source`, `_maintain`, `update`, `evaluate` | one order for variables, events and telemetry; expiry announced |
| Entity state (`coach_state.py`) | states, payloads, field generations, publish lock, thread-local staging | `handle`, `_apply`, `republish_states`, observation waits | no entity goes back, entities follow telemetry |
| Coach queries (`coach_queries.py`) | none of its own | snapshot, republish, refresh | a refresh reports only what was observed in time |
| MQTT target (`targets/mqtt.py`) | connection flag, command queue, worker | callbacks, `publish`, `publish_result`, `close` | subscriptions restored, commands serialized, close joins |
| Store target (`targets/store.py`) | latest values, dirty flag | `publish`, flush, `close` | the last value reaches the file |
| Source supervision (`sources/base.py`) | source list and map, stop event | start, restart, `stop_and_join` | no source survives its session |
| Session and reload (`cli.py`, `config.py`) | generation, candidate, observed contents | run, reload, teardown | teardown in order, only validated stable files |
| RV-C, OBD, WLED, Renogy, Hughes sources, Bluetooth slots | links, pending requests, retries, buffers | `run`, `request_status`, `execute_action` | answers match requests, links released, retries bounded |
| Coach MQTT client (`coach_mqtt_client.py`) | events, acknowledgements, result | `exchange` | subscribed before publishing; ends with a result or a timeout |

The hard behaviours are listed with their lines in `PROJECT.json`: duplicated
requests around crashes and restarts, a wall clock that is corrected, a
callback thread beside the worker beside `close()`, a full queue under two
locks, and cached states that are published by two threads.

## 2. Modules

| Module | Models | Run |
|---|---|---|
| `CommandLedger` | what the command service promises to controllers: abstract, no threads, journal or crashes | (refined in `commands`) |
| `CoachCommands` | `CoachCommandService` and `RequestJournal` | `commands` |
| `PublicationLog` | what the publication queue promises to sources: abstract | (refined in `dispatch`) |
| `TargetDispatch` | `QueuedTarget` and `MultiTarget` | |
| `StoreTarget` | the store target behind them; extends `TargetDispatch` | `dispatch` |
| `TelemetryPipeline` | `RuntimePublisher`, `CoachStatePublisher`, `EntityStateTracker` above the queue | `pipeline` |
| `SourceSession` | the main thread of `run` and `_run_session`, the supervisor and the source threads | `session` |
| `StateRefresh` | the refresh of `CoachQueries` with the tracker, the RV-C status requests and WLED | `refresh` |
| `RuntimeRules` | bindings, a derived window, an event rule, a polling source | `rules` |
| `ObdChannel` | the OBD source and its adapter | `obd`, `obd_header` |
| `BleSources` | Renogy client, Hughes watchdogs, the slots of one Bluetooth adapter | `links`, `ble_slot` |
| `MqttTarget` | the MQTT target: session, subscriptions, command queue, close | |
| `CoachExchange` | the coach MQTT client, composed with `MqttTarget` and the promise of `CommandLedger` | `exchange` |
| `CoachDefinition` | templates, overlays, entities, the frames of an action: pure operators | |
| `SourceGraph` | the check of the sources' dependencies: pure operators | |
| `ActionPlan` | policy, planner and local execution, over `CoachDefinition` and `SourceGraph` | `plan` |
| `...Proofs` | theorems about the module they are named for; `SessionProofs` is about `SourceSession` and `RuntimeRules`, `CoachRequestProofs` about `StateRefresh` and `ActionPlan` (section 4) | |
| `MC...` | instances for TLC | |

Definitions whose comment begins with "Mutant" are not part of a model.  They
are plausible mistakes in the code (a dropped guard, a lock not taken, an error
path that forgets) that the properties were tried against.  Every module has a
`TypeOK`; it says too little to be part of a run, is proved where the module has
proofs, and holds for the others when it is added to the `.cfg`.

### CoachCommands

`receive` runs on paho's network thread, one message at a time: `rpc`, `rmsg`
and `rfound` are its place, message and the journal entry it read.  Each
admitted request has a worker running `_execute`: `wpc[m]`, with its locals
`wdone` (`completed`) and `wres` (`result`).  `busy` is the `_busy` lock; the
`_admission` lock is held in the places of `HoldsAdmission`.  `journal` is the
SQLite table, which survives `Crash`; `Recover` is the constructor of the next
session.  Every call that can fail has its failure as a disjunct: the
publication of the admission (which may or may not have reached the
controller), each journal write, each gate, the hardware call (performed or
not), the thread start, the terminal save and publication.

`Message` is a set of complete envelopes with identity, issue and expiry time
and number of steps; the digest of the code is the message itself, so a
duplicate is the same member and a conflict another member with the same
`IdOf`.  `clock` is the wall clock, which `SetBack` corrects by at most
`MaxSetback` below its largest value.  `writes` counts how often each step
entered the hardware path; `published` is the set of recorded results that
reached a result topic.

Left out: texts, codes and data of results; the journal's SQL and file lock
(a second daemon on the same journal does not start); the branch that replaces
an oversized terminal result, which a command cannot reach; an unexpected
exception inside a gate.  Rejections (`_reject`) are not recorded results:
they change no state and are not in `published`.  Between the close of the
service and that of the publisher the main thread joins the sources, for a time
nothing bounds; `StopLoop` passes over that wait, which is in `SourceSession`.

### TargetDispatch

Any number of producers take `_publish_lock`, number a publication and put it,
blocking while the queue is full with the lock held.  The worker offers it to
each target in order; a target that raises is the same step as one that does
not, because both only move on.  `close()` raises the flag under the lock, puts
the sentinel, joins and closes.  `connect()` may fail at every target and at
the start of the worker.  The start of the worker and `_connected = True` are
one step.  A publication that is refused raises and changes nothing, so it has
no action.  `MaxSequence` bounds the accepted publications.

Joining a worker that never started raises, so `close()` after such a failure
ends in `failed`, with the targets already closed by `connect()`; with a queue
of one place a second `close()` would wait for ever on the sentinel of the
first.  In the program only the main thread closes, once; the run has two
closers and a queue of two places.

### TelemetryPipeline

A source holds the runtime lock from `Enter` (the variables are updated) to
`Leave`.  Under it `Apply` updates entity states under the publish lock and
stages them, `PutRaw` queues the reading, `PutStaged` the entities, then
`Snapshot` and `PutVariables`, `Evaluate` and `PutEvent`.  `Wake` is the
maintenance thread.  `Republish` to `EndRepublish` is `republish_states` on the
coach worker, which takes only the publish lock.  The coach worker may also be
a publisher, because a status request of a polling source publishes in the
caller's thread.  The queue is the `log` of what it accepted and the position
`taken` of the dispatcher; `TargetDispatch` says what happens behind it.

Every datum carries the number of the reading it was built from.  There is one
variable namespace and one event rule, whose predicate and debounce are a free
choice; periodic repetition is a free choice up to `MaxLog`; no reading updates
one entity twice (once by DGN and once by topic would stage two states of it).
The model begins after `connect()` and without `close()`, so `Put` does not
raise.

### SourceSession

`pc` is the place of the main thread: `begin` and `connect` build a session,
`start` to `starting` is `start_enabled` with its `rollback`, `tick` to `wait`
is `run_until_stopped` with its `on_tick` (`accepted`: the candidate is
assigned; `breaking`: the stop event is set), `close_service` to `close_publisher` the finally blocks
of `_run_session`, after which the next generation begins or the program ends.
`threads` holds every source ever built; a source is `launched` when its thread
runs and `alive` when it has an ident and `start()` returns, which matters
because `stop_and_join` passes threads without an ident over.  `sources` stands
for the list and for `source_map`, which are written together.  Constructors,
thread starts, `connect()` and the close of the publisher may fail.

`Interrupt` is KeyboardInterrupt at any place of `InterruptAt`: in the try block
it leads to the teardown, in `start_enabled` to its rollback, in the teardown
it leaves what is not done undone and ends the program.  One in `accepted` or
`breaking` finds the candidate assigned, and the next session begins all the same
(divergence 10).  Every generation
enables the same sections; a candidate configuration is a free choice, since
what `ConfigReloader.poll` accepts is not modelled.  `Build` stands for
everything up to the command service, `Connect` for what can still fail before
the sources start.

### StoreTarget

The first target of `TargetDispatch` is the store.  Its map of topics is the
number of the latest publication in it (`values`), which the dispatch worker
sets with `dirty`.  A flush copies the values and clears the flag under the
lock, then writes; a write that fails sets the flag again.  The flush thread and
`close()` each may be in the middle of one.  `close()` joins the thread for at
most its timeout; when that passes (`late`), an older copy may replace the
newer file, which `StoreIsFaithful` excludes.

### StateRefresh

The coach worker takes a baseline of the generations, asks the sources of the
selection, and waits on the tracker's condition; then it reads the snapshot, from
which the times of the result come, and in a step of its own what was observed.
`InTime` is the comparison of a stamp with the deadline; of the snapshot the model
keeps which fields had a time of this refresh, not the values, which the result
does not contain.  The list of RV-C status requests is filled by the
worker and taken and sent by the CAN loop, which may fail and be restarted with
a new object; a WLED poll and a requested read share the request lock.  Only one
refresh runs at a time, so a generation is "advanced or not", and every
publication holds the runtime lock, so one reading at a time is on its way.

### RuntimeRules

One loop of configuration: a receiver reports a place, a polling source reads
the forecast of that place, the temperature feeds a derived maximum over a
window, and an event has a debounce and a clear condition over that window.
Reports may be rejected by a required mode, incomplete, or not numeric; every
binding expires.  Ages stand for timestamps and stop growing where no comparison
tells them from a larger one, so the model needs no bound on time.  The history
keeps the last `MaxSamples` samples (`MAX_WINDOW_SAMPLES`) until a report that is
rejected or no number ends it, and the maximum is taken over those within the
window, as `Expression.evaluate` filters them.  Where the cap bites,
`docs/RUNTIME-VARIABLES.md` 145 documents the loss of the oldest samples.
An expiry between two evaluations that nobody evaluates does not reset a
debounce; `EventsAreEarned` is about reports.

### ObdChannel

The source sends one command at a time, waits, and times out; the adapter
answers late, never, or after the discard window, and takes an ATSH only when it
says OK.  Initialization with the fallback protocol, the probe, the poll cycle
with a header per PID, the count of failed cycles, the announcement of an
offline source with its cleared snapshot, and the reconnect limit follow
`obd.py`.  Decode expressions are left out: a value is the PID it was an answer
to.  `extract_data` compares mode and PID and not the responder; the model has one
responder.

### BleSources

Three tasks of the Renogy client (main, retry worker, poll) interleave at every
`await`; `timer` is the read timeout, `chain` the sequence of register reads and
to which session it belongs, `dropping` a link whose drop is on its way.  A scan
finds the device, or not, or raises (`ScanRaises`): the exception ends the session
from the main task and the retry worker, and only the task from a poll.  The release
of a stale connection before it does not raise (`bluetooth.py` 27, 70-72).  A
watchdog is the session loop of `hughes.py`.  A slot is taken by a helper thread
that outlives a cancelled task.  After an unknown notification, which cancels
the read timeout, only the answer still owed or the loss of the link moves the
client on, and after a poll that a raising scan has ended nothing does until it is
stopped (divergence 11); the history variables `stray` and `killed` mark the two,
and `AlwaysDriven` allows them and nothing else.

### MqttTarget and CoachExchange

`MqttTarget` is the target's side: a broken connection loses the session
(`clean_session`), `_on_connect` subscribes again, source commands go through a
bounded queue to one worker, `close` disconnects, stops the loop and puts the
sentinel.  `CoachExchange` adds the tool: `exchange` in its main thread, the
callbacks in paho's, the broker as two ordered channels, and the service as
`CommandLedger` promises it.  paho holds an unacknowledged QoS 1 message and
sends it again after a reconnection.  Request identities are unique, which
`docs/COACH-MQTT-COMMANDS.md` 468 asks of controllers.  `HonestReport` survives
the duplicate of a resent request because that arises only after a
reconnection, which the tool reports as a failure, also over a result that has
already arrived.

### CoachDefinition, SourceGraph, ActionPlan

One behaviour chooses a wiring of sources, a coach definition, an overlay, a
policy and a request, and goes through the phases of the program: dependency
check, `Coach.load`, `ControllerPolicy`, then either `CoachRequestPlanner.prepare`
or `Coach.execute`.  Every refusal of the code is a phase that ends or an answer
code.  A frame is the instance it addresses and its wait (one unit).  The
encoders of the protocols are left out, and so are a handler that raises and an
interrupt in the wait between two frames, which end an execution in the middle of an
action.

A wiring has the roots of the sources, of which an empty one is over nothing, the
variables that their settings refer to and those its events watch; a constant is a derived variable that is made of none.  The
recursions of the code (`dependencies`, `visit`, `resolve_template`, `expand`)
are recursive functions of what the code passes down: the name or call, and the
chain of ancestors.  An exception of the first two is the value `Unknown` among
the names they return; a definition or a wiring that is refused is `Bad`.  The
fields a group or an action may lack are keys its record lacks.  The overlay is
validated with the definition it is merged into (`_validate_overlay`): names,
transports, frame waits, schemas of entities and of groups, and the walk through
every action of a group.  Left out are the range of reserved numbers and the state
blocks, so the model accepts more.

## 3. Runs

| Run | Bounds | Shows |
|---|---|---|
| `commands` | `open` (2 steps, valid from 0 to 1) and `lid` (1 step, valid from 1 to 2) under one identity, the query `poll` under another; lifetime and retention 1, journal of 1 row, clock to 4, set back by at most 1; 160 101 states | no second dispatch, honest results across crashes, terminal rows final, the refinement of `CommandLedger`, slot freed, shutdown completes |
| `dispatch` | 3 publishers, 2 closers, a store and 2 other targets, queue of 2, 5 publications, 2 failures; 22 713 states | refinement of `PublicationLog`, nothing lost by backpressure and close, the store writes what it was offered |
| `pipeline` | 1 source, coach worker and maintenance thread, 2 readings, queue of 1; a log of 4 gets no more repetitions and events; 143 647 states | one history for subscribers, alternating events, no blocking among three locks and the queue, expiry announced |
| `session` | 2 sections, 3 generations, 3 failures, 2 interrupts anywhere but in the places named below; 52 507 states | clean handover, every living thread known, replacement, reload and interrupt complete |
| `refresh` | an RV-C lamp with 2 fields, a WLED strip, a tank; 3 selections; 371 201 states | honest observations, no lost wakeup or request, every refresh ends |
| `rules` | place valid for 2, temperature for 4 seconds, window and debounce of 3, 4 samples; 217 829 states | events earned and settled, one place per forecast |
| `obd` | 2 PIDs, one with its own header, 2 failed cycles, 1 retry, 2 late answers; 24 200 states | own answers, cleared snapshot, silence announced |
| `obd_header` | the same without late answers | divergence 1 |
| `links` | a client of 2 register sections, 1 watchdog, 2 retries, 4 interchangeable managers; 114 567 states | one link, always driven |
| `ble_slot` | the same | divergence 2 |
| `exchange` | queue of 1, 2 source commands, 1 loss of the target's session, 2 of the tool's; 275 640 states | honest report, everybody hears, both ends terminate |
| `plan` | all wirings of 3 sources on 3 roots or none, with an event; 2 dimmers, 2 groups with 7 step lists and 3 memberships; 5 overlays, 5 restrictions; 350 555 states | source order, overlays only add, sound policies, authorized plans, whole actions |

Several invariants of a run are conjunctions of named parts, each about one
hazard (`OneHistory`, `HandoverIsClean`, `SourcesAreKnown`, `StoreIsFaithful`,
`OneLink`, `EverybodyHears`, `PolicyIsSound`, `OnlyWholeActions`); each part has
a mutant of its own.

The bounds are the smallest in which the hazards occur.

- `commands`: two messages under one identity give duplicates and conflicts; two
  steps give a partial plan; a clock that passes expiry plus retention and may be
  set back gives cleanup and reuse; a crash is possible in every state and as
  often as the clock allows new work.
- `dispatch`: a queue of two places with three publishers fills, drains and is
  closed while it is full; two failures let a write fail twice or a target fail
  beside the disk.
- `pipeline`: the source and the coach worker both publish readings, so one can
  overtake the other, and every pair of threads that share a lock is present; a
  log of four has room for two events behind a reading and its variables.
- `session`: with two sections a source can fail to start or hang beside one that
  runs; three generations and three failures let a thread meet its replacement
  and the next generation.  An interrupt arrives everywhere but in `starting`,
  `restarting`, `rollback` and `rollback_join`: in each of these four TLC finds a
  source that outlives the publisher.  The first three windows are a few
  statements wide; the last is a wait of any length (divergence 3).  Nor does it
  arrive in `accepted` and `breaking`, where it is lost (divergence 10).
- `refresh`: two fields of one source are observed apart; the strip alone, with
  the lamp, and a source that cannot be asked are the three kinds of selection.
- `rules`: the ages differ so that the place expires before the temperature and
  the temperature before the window is empty; four samples a second apart just span
  the window, and a report that comes before the oldest has left it evicts it.
- `obd`: an override at the end of the list is the shipped example; two late
  answers let one be discarded and another be read by the wrong command.
- `links`: two sections make a chain that can break in the middle; four managers
  are the connections a retry, a poll and two drops can leave behind.
- `exchange`: a broken connection before and after the delivery of the request,
  and one of the target in between; one place makes the command queue full.
- `plan`: groups that contain groups, themselves and nobody; grants that miss one
  call; every answer code of the planner occurs.

`CHECK_DEADLOCK FALSE` is given only where the system really stops: after
`close()` (`dispatch`), when the program has ended (`session`), when a source has
given up or its session has ended (`obd`, `obd_header`, `links`, `ble_slot`), and when a start was refused
or an execution is over (`plan`).

### Fairness

`commands`: weak fairness of the callback, of each worker and of the shutdown of
the main thread.  Every hardware call and every wait of the worker has a
timeout, the callback never waits for the worker, and the teardown in
`_run_session` runs in a `finally`.  No request has to arrive and the process
may always crash, which frees the slot as well.

`dispatch`: weak fairness of the worker, of `connect()`, of a blocked put and of
a begun `close()`; only the holder of the lock appends, so a place that becomes
free stays free; also of the flush thread and of the store's close: a write
returns or fails, and the joins of `close()` have timeouts.

`pipeline`: weak fairness of the dispatcher and the maintenance thread, strong
fairness of the steps of a thread that has begun: they wait for the publish lock
or the queue, which two threads compete for and which operating system locks and
condition variables do hand to a waiter that keeps asking.

`session`: weak fairness of the main thread, of thread starts and of every source
that does not hang: its waits have timeouts, after which it looks at the stop
event.

`refresh`: weak fairness of the worker, of time and of a publication that has
begun; strong fairness of the two users of the WLED request lock.  No source has
to answer.  `rules`: weak fairness of time, of the maintenance thread, of the
polling loop (`Resolve`) and of its request, which returns or fails.  `obd`: weak
fairness of the source thread, whose reads have timeouts; the adapter need not
answer.  `exchange`: weak fairness of the tool, of the target's worker and of its
close; broker and connections owe nothing.

## 4. Proofs

Eight modules hold theorems; each extends the modules it is about.  The theorems
are about `Spec` (`StoreSpec`, `RulesSpec` and `PlanSpec` where a module names it
so), for every value of the constants that the named `ASSUME`s of the module
admit: they say that bounds and retry limits are numbers, that names do not
coincide, and that what is configured is well formed: every entity has fields and
a section, a selection is not empty, the list of PIDs is not empty and names none
twice, the names of a wiring are finitely many (`WiringForm`), the steps of a group
are a list of calls (`GroupForm`).  The few hypotheses beyond that are stated in the
theorems and explained here.

| Module | Proved | Property of run |
|---|---|---|
| `CoachCommandsProofs` | no second dispatch, honest results, honest recovery, terminal rows final | `AtMostOnce`, `PublishedHonest`, `CrashHonest`, `TerminalIsFinal` |
| | the service implements the ledger (`ServiceImplementsLedger`) | `ImplementsLedger` |
| | `SlotOwned`, `AnnouncedBeforeWrite`, `ExecutingIsJournaled`, `CleanedUpIsExpired` | (proved only) |
| `StoreTargetProofs` | the queue, alone and with the store behind it, implements the publication log | `ImplementsLog` |
| | the store is faithful | `StoreIsFaithful` |
| | publications in order (`InOrder`) | (proved only) |
| `TelemetryPipelineProofs` | one history, events alternate | `OneHistory`, `EventsAlternate` |
| `SessionProofs` | sources are known, the handover is clean | `SourcesAreKnown`, `HandoverIsClean` |
| | a reload starts clean, whatever interrupts arrive (`ReloadStartsClean`) | (proved only) |
| | one place per forecast, events earned | `OnePlace`, `EventsAreEarned` |
| | the window is of one run (`WindowOfOneRun`) | (proved only) |
| `CoachRequestProofs` | honest observations, no lost wakeup, requests kept | `ObservedHonest`, `NoLostWakeup`, `RequestsKept` |
| | one request at a time at a WLED device (`OneRequestAtATime`) | (proved only) |
| | overlays only add | `OverlayOnlyAdds` |
| | sound policies, authorized plans, whole actions | `PolicyIsSound`, `PlanIsAuthorized`, `OnlyWholeActions` |
| | sources are accepted exactly when they can be ordered | `SourcesStartInOrder` |
| `ObdChannelProofs` | own answers, cleared snapshot | `OwnAnswer`, `OfflineIsCleared` |
| `CoachExchangeProofs` | honest report, everybody hears | `HonestReport`, `EverybodyHears` |
| `BleSourcesProofs` | one link, always driven | `OneLink`, `AlwaysDriven` |

Every property of a passing run that is not a liveness property is thereby
proved.  Types are proved beside them (`TypeOK`; in `ActionPlan`, whose data are
configurations, the types that matter are parts of its invariant).

The form is the same everywhere.  None of the properties of a behaviour is
inductive.  The
invariant of a module is a conjunction of named parts, each saying what the code
knows at its places; it was checked by TLC on the run's instance before it was
proved.  A proof has a lemma per action or per part; the step of an action first
says what the action leaves alone and what it does, then takes the parts it can
disturb one at a time.  The properties follow from the invariant without
temporal reasoning; refinements from the invariant and one lemma per step.

### The command service

Besides `MessageAssumption` and `BoundAssumption`, the theorems about execution
assume `MaxSetback <= Retention`: the wall clock is never set back by more than
the 60 seconds a row outlives its expiry.  The assumption is needed: if the clock
may fall back further, a row can be cleaned up and its request be valid again,
and is executed a second time.  The code relies on it without saying so.

The invariant adds what the code knows at each place of the two threads: a
request that was never admitted has no writes; the row of an executing request
is its own and not terminal; what `wdone` counts is what was written; the intent
is recorded before `recheck`; a request that is past admission and no longer in
the journal is more than `Retention` past its expiry against the latest clock,
so that it is expired against any clock the assumption allows and no later
`Admit` accepts it; and the callback between `admit` and `start` works on a
request without a live row.

`ServiceImplementsLedger` maps each request to a phase (new, running, settled) by
`admitted` and `MayWrite`.  The mapping is a `CASE` whose arms must not overlap:
whoever may write was admitted, which is part of the invariant.  `Crash` and
`Recover` are steps of the ledger that settle what was running, and all that the
journal does is a stutter.

### The publication queue and the store

The queue holds the publications between the last one taken and the last one
put, in order, and nothing but sentinels behind them; a sentinel comes only when
no producer can accept any more.  So the worker that takes a sentinel has offered
everything accepted, which is what `PublicationLog` asks of a log that is shut.
The proof for several targets needs the log to be shut from the moment a
`close()` has nothing more to wait for (`Shut`), not from the assignment of
`_closed`: when closing a target raises, `_closed` stays false and
nothing is accepted all the same.

For the store, a write that is not overtaken by new values holds the latest, as
long as `close()` has not given up joining the flush thread.

### The telemetry pipeline

The runtime lock makes the reading under way the newest one, so every older
reading is queued and what is derived from it comes behind it.  The cached
payload of an entity bounds every state of it in the queue, and the copy of the
coach worker is that payload, because both are taken under the publish lock.
The snapshot a thread is about to publish lies between the published ones and
the variables.  The last event in the queue is the state of the rule, or its
opposite while a thread is between changing the rule and telling it.  The
properties compare positions of the queue (`Positions`), not filtered copies.

### The session

At each place the main thread knows every source that lives: while it starts
them, by their order; while it supervises, by `source_map`; in the teardown, by
the set it joins.  At four places (`Forgetting`: in `Thread.start` before the
source is recorded, twice, and in the rollback of a failed start, twice) an
interrupt makes it forget one (divergence 3).  Hence three theorems:
`ReloadStartsClean` needs nothing about interrupts, because a session that forgot a
source has no candidate and is not replaced, and where an interrupt finds a candidate
every source is known; `UninterruptedHandoverIsClean` speaks of behaviours in
which none has come; and `HandoverIsAlwaysClean` admits any number of them at
every other place, which is the configuration of the run.

### Variables and events

`EventsAreEarned` compares what the code keeps with what was reported, which the
history variables `held`, `calm`, `run` and `report` record.  Two parts of the
invariant carry it.  `DebounceIsHeld`: while the debounce runs, the high reports
began no later than it did, unless a report under way, which holds the lock, has
just ended them.  `CalmIsKnown`: a high report that is still within the window is
in the history, so that the maximum sees it.  The second needs `WindowFits`,
`MaxSamples * PollInterval > Window`: `SamplesAreSpaced` says that two samples are
a polling interval apart, so a sample that is evicted from a full history has left
the window.  Without the hypothesis the event may clear within the window of a
high temperature; that is the documented loss of samples.  `OnePlace` and
`WindowOfOneRun` need no hypothesis.

### Refresh, OBD, exchange and Bluetooth

`CoachRequestProofs`, on `StateRefresh`: what the tracker has advanced in time is always covered by
what was seen, so the difference at the moment of the check is the honest
answer; the worker goes to sleep and is woken under the same predicate over the
same variables; a status id moves from the list to the loop that sends it
without ever being in neither.

`ObdChannelProofs`: outside a session nothing is scheduled, and inside one the
command that is awaited is the head of a script of a known shape, so whatever
answer is accepted for it is recorded under the PID the command names; `online`
is "yes" exactly while a poll cycle runs, or when a stop has ended one.

`CoachExchangeProofs`: nothing leaves the tool before its publish, so a request
reported as unsent is nowhere.  As long as no failure is noted there is one copy
of the request, so a rejection that comes without a row in the journal has used
it up; a delivered request is never sent again, so what was true when the report
was made stays true.

`BleSourcesProofs`: an attempt is under way exactly while `connecting`, and the
retry worker is at its own places only when there is none.  Until its first
request an attempt owns the manager and leaves nothing of an older generation
that could read or poll.  An answer, a pause, a poll and a disconnection hand
over to one another (`HandoverOK`), a nonpersistent client that keeps its link
reads over it (`ReadingOK`), and a reason to reconnect is in somebody's hands until
the session ends (`ReasonOK`).  A poll that a raising scan has ended is the exception
the property names: `killed` is true from then to the next attempt.

### Definitions, policies, plans and the order of sources

`ActionPlan` is about data of any shape: groups that contain groups, derived
variables made of derived variables.  Its recursive functions mean nothing to the
prover until a function that satisfies their equation is known to exist, and that
is an induction over what the arguments leave to do.  There is no induction rule
with an operator parameter here, so the inductions are over sets of numbers
(`NaturalsByStep`: a set that has 0 and every successor has all numbers) and over
functions (`MeasuredInduction`).  Each recursion has its measure: the levels left
below `MaxChain` for `expand` (`ExpandingExists`), the derived variables not yet in
the chain for `dependencies` (`ResolvingExists`), the sources outside the path, then
those still to do, for `visit` (`VisitingExists`).

`PlanIsAuthorized` compares two recursions.  `ExpandedCalls`: a plan has covered its
call, and with a group every call of its steps, so it covers everything `Reached`
(`ReachedIsCovered`), and each of those was granted, validated and confirmed.

`PolicyIsSound` compares the expansion of a request with the one that was accepted
at startup, which had no parameters.  Parameters decide nothing about an expansion
but the parameters of its steps (`ParametersDecideNothing`, an induction over two
expansions at once), so a granted request cannot fail later for what startup
checked.  Narrowing is a case for each bound of a rule.

`SourcesStartInOrder` is an equivalence.  One direction takes an order and shows by
induction along it that no name resolves to `Unknown` and that the walk meets no edge
back (`OrderedAreResolved`, `OrderedIsVisited`).  The other needs an order to exist
when the code refuses nothing: `OrderExists` says that a finite set can be numbered
so that each element needs earlier ones only, if no subset but the whole contains
every element whose needs it contains.  For the variables, an element outside such a
subset would start a chain without end, which is resolved to `Unknown`
(`ResolvedAreOrdered`); for the sources, everything the walk is done with stays
inside such a subset, and it is done with all of them (`VisitedIsClosed`,
`VisitedIsOrdered`).

`OverlayOnlyAdds` follows from what `Coach.load` compares; the frames of an entity
keep their instances and waits because the actions it had are equal.  `OnlyWholeActions`
needs the inductive invariant `Session`: the coach that serves is proper (its actions
are lists of frames, its groups lists of calls), the policy was accepted for it, an
answer is the outcome of its request, and what was sent with what is still to send
is a sequence of whole actions with admissible instances.

### Only model-checked

- Liveness (`SlotFreed`, `ShutdownCompletes`, `EverythingIsOffered`,
  `CloseReturns`, `PublishReturns`, `ExpiryAnnounced`, `FailedSourceIsReplaced`,
  `SessionsEnd`, `RefreshEnds`, `SilenceAnnounced`, `EventSettles`,
  `ExchangeEnds`, `TargetCloses`) and enabledness: outside the prover's reach.
- What `resolve_template` returns for a given chain of templates: `OverlayOnlyAdds`
  compares two results of it and does not depend on what they are.

The proved-only properties were checked by TLC the same way before they were
proved; so were the invariants.

## 5. Divergences from the documentation

The first two are runs of the project:

1. `README.md` 667: a PID may override the header of its section
   (`obd_header`).  `read_cycle` begins every cycle with the section's header as
   `current_header`, but the adapter keeps the last ATSH.  With an override at
   the end of the list, as in `config-example.ini`, the first PIDs of every later
   cycle are asked on that header.
2. `docs/BLE-DESIGN.md` 63: locks are released after setup (`ble_slot`).  A task
   that is cancelled while its helper thread waits for the adapter's lock leaves
   the thread waiting; the thread takes the lock and nobody releases it.

The others are stated in the modules and have a counterexample when the named
property is added to a `.cfg` (under the given change of constants):

3. `docs/CONCURRENCY.md` 48: the publisher is closed after the sources have
   stopped.  While a failed `start_enabled` waits for the sources it started,
   `_run_session` does not know them yet; an interrupt then closes the publisher
   under them (`HandoverIsClean` in `MCSourceSession.cfg` with
   `InterruptAt <- FailedStart`).
4. `README.md` 66: a reload aborts when a source is still alive after its 30
   seconds.  `stop_and_join` has one grace period for all sources, then waits
   without a limit and lets the reload go on (`ReloadAborts` in
   `MCSourceSession.cfg` with `Hanging = {2}`).
5. `docs/COACH-MQTT-COMMANDS.md` 454: an identical duplicate gets the last
   result.  `receive` checks `_closing` first, so while `close()` waits for the
   worker a duplicate is rejected on the topic of the request it repeats
   (`DuplicateAnsweredWhileClosing` in `MCCoachCommands.cfg`).
6. The same line: a duplicate is answered with the result its lookup read; the
   worker may have saved and published the terminal result by then, and the
   controller hears `accepted` last (`DuplicateGetsLastResult`).
7. `docs/COACH-MQTT-COMMANDS.md` 255: wait no longer than `timeout_s`.  The
   status request of WLED is a blocking read with its own timeout, whatever is
   left of the deadline; an RV-C source asked behind it is asked too late and
   reported as timed out (`WaitsNoLonger` in `MCStateRefresh.cfg`).
8. `docs/CONCURRENCY.md` 32: entity messages are queued after their triggering
   telemetry.  `_apply` caches the payload before the reading is queued, and
   `republish_states` on the coach worker can queue it first
   (`EntityFollowsTelemetry` in `MCTelemetryPipeline.cfg`).
9. `docs/COACH-MQTT-COMMANDS.md` 274: `republish_states` returns the published
   entities.  With `publish_state = false` nothing is sent and all are reported
   (`ReportedIsQueued` in `MCTelemetryPipeline.cfg` with `PublishState = FALSE`).

10. `src/rv_control/cli.py` 171: collectors run until interrupted
    (`InterruptEnds` in `MCSourceSession.cfg` with `InterruptAt <- Accepting`).
    `check_reload` assigns the candidate before the stop event
    is set and the supervisor has returned; an interrupt in between is caught, the
    session is torn down, and `_run_session` returns the candidate: `run` starts the
    next session.
11. `src/rv_control/sources/renogybt/BaseClient.py` 114: a client retries to connect
    according to its policy (`ScanFailureIsHandled` in `MCBleSources.cfg`).  A scan that raises leaves `connect()` without
    a reason to retry; in the poll task, which has forgotten its timer, nobody takes the
    exception, and the client neither retries nor ends.
12. `src/rv_control/coach_queries.py` 122: a refresh summarizes fresh observations
    (`TimesAreFresh` in `MCStateRefresh.cfg`).  The times come from a snapshot that is read before the observed
    fields; a field observed in between is reported as observed with the time it was
    observed before the refresh, or with none.

Seen while modelling, without a line of the documentation against it:

- A factory definition without an overlay is not checked for cycles of groups;
  executing a cyclic group from the command line repeats frames until Python's
  recursion limit (`MaxDepth` in `ActionPlan`).
- A granted group may be unusable: at startup the parameters of steps are
  validated against the outer group's schema only, so a group whose inner group
  has a stricter schema answers every request with `invalid_params`.
- An overlay may add keys a factory entity lacks, `target` or `config_section`
  among them, and so reroute it to another section of the same transport.
  `OverlayOnlyAdds` compares the instances and waits of its frames.
- A configuration that is edited again within the timestamp granularity of the
  file system after it was read is not noticed.

## 6. Not modelled

- `ConfigReloader.poll` (`config.py`): a candidate is a free choice in
  `SourceSession`.
- `RuntimePublisher.close` and `connect` beside running threads; parsing of
  configuration, expressions and YAML.
- Encoding and decoding: RV-C frames (`rvc_util.py`), register tables of the
  Renogy clients, the legs of Hughes, WLED JSON, OBD expressions.  They are pure
  and have unit tests; nothing here depends on a rounding.
- The log target and the debug tap keep no state; the tools under `tools/` run
  outside the daemon.

## 7. Plan

1. `ConfigReload`: file changes between the steps of `poll`.
2. Action properties beside the invariants: the entity generations of
   `StateRefresh` and the rows of the journal are only ever advanced.
