-------------------------- MODULE TelemetryPipeline --------------------------
(***************************************************************************)
(* The path of a reading from a source thread into the target queue:       *)
(* RuntimePublisher (runtime.py) around CoachStatePublisher and            *)
(* EntityStateTracker (coach_state.py) around the queue of TargetDispatch. *)
(*                                                                         *)
(* Every publishing thread holds the runtime lock from the update of the   *)
(* runtime variables to the last publication derived from the reading.     *)
(* The coach worker republishes cached entity states beside it, under the  *)
(* tracker's publish lock only.  The queue is the log of what it accepted  *)
(* and the number of publications the dispatcher has taken from it.        *)
(*                                                                         *)
(* Readings are numbered in the order in which they enter; a cached or a   *)
(* published entity state and a variable carry the number of the reading   *)
(* they were built from.  The model has one variable namespace and one     *)
(* event rule, and no reading updates one entity twice.                    *)
(***************************************************************************)
EXTENDS Integers, Sequences

CONSTANTS
  Source,       (* source threads                                              *)
  Coach,        (* the coach-command worker: refreshes sources and republishes *)
  Maintenance,  (* the runtime-variables thread                                *)
  Entity,       (* coach entities with a state block                           *)
  Reading,      (* kinds of readings a source publishes                        *)
  Maps,         (* the entities a reading updates                              *)
  Bound,        (* the readings whose topic is bound to runtime variables      *)
  PublishState, (* [coach] publish_state                                       *)
  Depth,        (* publish_queue_depth                                         *)
  MaxReadings,  (* bound of the model: how many readings are published         *)
  MaxLog,       (* bound of the model: a longer log gets no more repetitions   *)
                (* and no more events                                          *)
  Free          (* nobody holds the lock                                       *)

ASSUME PipelineAssumption ==
  /\ Maps \in [Reading -> SUBSET Entity]
  /\ Bound \subseteq Reading
  /\ PublishState \in BOOLEAN
  /\ Depth \in Nat \ {0}
  /\ MaxReadings \in Nat
  /\ MaxLog \in Nat
  /\ Coach # Maintenance
  /\ {Coach, Maintenance} \cap Source = {}
  /\ Free \notin Source \cup {Coach, Maintenance}

VARIABLES
  lock,         (* RuntimePublisher._lock                                    *)
  publishlock,  (* EntityStateTracker._publish_lock                          *)
  pc,           (* where each thread is                                      *)
  cur,          (* the reading a thread publishes                            *)
  todo,         (* the entities it has yet to update                         *)
  staged,       (* its thread-local entity_publications                      *)
  shot,         (* the snapshot of the variables it publishes                *)
  copy,         (* republish_states: the payloads the worker has yet to send *)
  readings,     (* how many readings have entered                            *)
  payload,      (* _payloads: reading of the cached payload, 0 for none      *)
  known,        (* the variables: their reading and availability             *)
  told,         (* _published: the last published signature                  *)
  active,       (* the event rule: active or cleared                         *)
  log,          (* what the queue accepted, in order                         *)
  taken,        (* how much of it the dispatcher has taken                   *)
  reported      (* history: entities republish_states reported as published  *)

threadVars  == <<pc, cur, todo, staged, shot>>
trackerVars == <<publishlock, payload, copy, reported>>
contextVars == <<known, told, active>>
logVars     == <<log, taken>>
vars == <<lock, publishlock, pc, cur, todo, staged, shot, copy, readings, payload,
          known, told, active, log, taken, reported>>

Publisher == Source \cup {Coach}
Thread == Publisher \cup {Maintenance}

(* A publication: a raw reading, an entity state sent with a reading or     *)
(* republished, a variable snapshot, or an event.                           *)
Publication(kind, of, about) == [kind |-> kind, of |-> of, about |-> about]

Kinds == {"raw", "entity", "republished", "variables", "event"}
Availability == {"missing", "invalid", "fresh", "stale"}

(* No variable has a value yet. *)
Nothing == [of |-> 0, status |-> "missing"]

Goto(t, place) == pc' = [pc EXCEPT ![t] = place]

(* queue.put: the caller waits while the queue is full. *)
Put(publication) ==
  /\ Len(log) - taken < Depth
  /\ log' = Append(log, publication)
  /\ UNCHANGED taken

-----------------------------------------------------------------------------
(* RuntimePublisher.publish_source and CoachStatePublisher._publish. *)

(* Mutant of update: a rejected report is a status of its own. *)
updateRejected(r, n) ==
  known' \in {[of |-> n, status |-> "fresh"], [of |-> 0, status |-> "rejected"]}

(* RuntimeContext.update: a complete report replaces the group and its *)
(* history, an incomplete or rejected one invalidates it.              *)
update(r, n) ==
  IF r \in Bound
  THEN known' \in {[of |-> n, status |-> "fresh"], [of |-> 0, status |-> "invalid"]}
  ELSE UNCHANGED known

(* Mutant of Enter: a reading enters beside another thread. *)
EnterUnlocked(t) ==
  /\ pc[t] = "idle"
  /\ readings < MaxReadings
  /\ readings' = readings + 1
  /\ cur' = [cur EXCEPT ![t] = readings + 1]
  /\ \E r \in Reading :
       /\ update(r, readings + 1)
       /\ todo' = [todo EXCEPT ![t] = Maps[r]]
  /\ Goto(t, "apply")
  /\ UNCHANGED <<lock, trackerVars, told, active, logVars, staged, shot>>

Enter(t) ==
  /\ pc[t] = "idle"
  /\ lock = Free
  /\ readings < MaxReadings
  /\ lock' = t
  /\ readings' = readings + 1
  /\ cur' = [cur EXCEPT ![t] = readings + 1]
  /\ \E r \in Reading :
       /\ update(r, readings + 1)
       /\ todo' = [todo EXCEPT ![t] = Maps[r]]
  /\ Goto(t, "apply")
  /\ UNCHANGED <<trackerVars, told, active, logVars, staged, shot>>

(* Mutant of Apply: the entity state is queued at once. *)
ApplyUnstaged(t) ==
  /\ pc[t] = "apply"
  /\ publishlock = Free
  /\ \E e \in todo[t] :
       /\ todo' = [todo EXCEPT ![t] = todo[t] \ {e}]
       /\ payload' = [payload EXCEPT ![e] = cur[t]]
       /\ Put(Publication("entity", cur[t], e))
  /\ UNCHANGED <<lock, publishlock, pc, cur, staged, shot, copy, readings, reported, contextVars>>

(* EntityStateTracker._apply under the publish lock: a changed or due state *)
(* is cached and staged behind its telemetry; the first one is always due.  *)
Apply(t) ==
  /\ pc[t] = "apply"
  /\ publishlock = Free
  /\ \E e \in todo[t] :
       /\ todo' = [todo EXCEPT ![t] = todo[t] \ {e}]
       /\ \/ /\ payload' = [payload EXCEPT ![e] = cur[t]]
             /\ IF PublishState
                THEN staged' = [staged EXCEPT ![t] = Append(staged[t], Publication("entity", cur[t], e))]
                ELSE UNCHANGED staged
          \/ payload[e] # 0 /\ UNCHANGED <<payload, staged>>
  /\ UNCHANGED <<lock, publishlock, pc, cur, shot, copy, readings, reported, contextVars, logVars>>

(* A block that raises is logged; the updates that remain are skipped. *)
ApplyFails(t) ==
  /\ pc[t] = "apply"
  /\ todo[t] # {}
  /\ todo' = [todo EXCEPT ![t] = {}]
  /\ UNCHANGED <<lock, pc, cur, staged, shot, readings, trackerVars, contextVars, logVars>>

PutRaw(t) ==
  /\ pc[t] = "apply"
  /\ todo[t] = {}
  /\ Put(Publication("raw", cur[t], "reading"))
  /\ Goto(t, "derived")
  /\ UNCHANGED <<lock, cur, todo, staged, shot, readings, trackerVars, contextVars>>

PutStaged(t) ==
  /\ pc[t] = "derived"
  /\ staged[t] # <<>>
  /\ Put(Head(staged[t]))
  /\ staged' = [staged EXCEPT ![t] = Tail(staged[t])]
  /\ UNCHANGED <<lock, pc, cur, todo, shot, readings, trackerVars, contextVars>>

-----------------------------------------------------------------------------
(* Under the same lock: variables, then events. *)

(* Mutant of Wake: the maintenance thread does not take the runtime lock. *)
WakeUnlocked ==
  /\ pc[Maintenance] = "idle"
  /\ Goto(Maintenance, "derived")
  /\ UNCHANGED <<lock, cur, todo, staged, shot, readings, trackerVars, contextVars, logVars>>

(* _maintain, every half second. *)
Wake ==
  /\ pc[Maintenance] = "idle"
  /\ lock = Free
  /\ lock' = Maintenance
  /\ Goto(Maintenance, "derived")
  /\ UNCHANGED <<cur, todo, staged, shot, readings, trackerVars, contextVars, logVars>>

(* Mutant of Snapshot: the signature leaves the availability out. *)
SnapshotOfValues(t) ==
  /\ pc[t] = "derived"
  /\ staged[t] = <<>>
  /\ IF known.of # told.of
     THEN shot' = [shot EXCEPT ![t] = known] /\ Goto(t, "tell")
     ELSE UNCHANGED shot /\ Goto(t, "evaluate")
  /\ UNCHANGED <<lock, cur, todo, staged, readings, trackerVars, contextVars, logVars>>

(* _publish_variables takes a snapshot and publishes a changed group, or an *)
(* unchanged one that is due.                                               *)
Snapshot(t) ==
  /\ pc[t] = "derived"
  /\ staged[t] = <<>>
  /\ \/ /\ known # told \/ Len(log) < MaxLog
        /\ shot' = [shot EXCEPT ![t] = known]
        /\ Goto(t, "tell")
     \/ known = told /\ Goto(t, "evaluate") /\ UNCHANGED shot
  /\ UNCHANGED <<lock, cur, todo, staged, readings, trackerVars, contextVars, logVars>>

PutVariables(t) ==
  /\ pc[t] = "tell"
  /\ Put(Publication("variables", shot[t].of, shot[t].status))
  /\ told' = shot[t]
  /\ Goto(t, "evaluate")
  /\ shot' = [shot EXCEPT ![t] = Nothing]
  /\ UNCHANGED <<lock, cur, todo, staged, readings, trackerVars, known, active>>

(* The thread leaves the runtime lock. *)
Leave(t) ==
  /\ lock' = Free
  /\ cur' = [cur EXCEPT ![t] = 0]
  /\ shot' = [shot EXCEPT ![t] = Nothing]
  /\ Goto(t, "idle")

(* RuntimeEvent.evaluate: a rule over available variables may change state. *)
Evaluate(t) ==
  /\ pc[t] = "evaluate"
  /\ \/ /\ known.status = "fresh"
        /\ Len(log) < MaxLog
        /\ active' = IF active = "cleared" THEN "active" ELSE "cleared"
        /\ shot' = [shot EXCEPT ![t] = known]
        /\ Goto(t, "event")
        /\ UNCHANGED <<lock, cur>>
     \/ Leave(t) /\ UNCHANGED active
  /\ UNCHANGED <<todo, staged, readings, trackerVars, known, told, logVars>>

PutEvent(t) ==
  /\ pc[t] = "event"
  /\ Put(Publication("event", shot[t].of, active))
  /\ Leave(t)
  /\ UNCHANGED <<todo, staged, readings, trackerVars, contextVars>>

Finish(t) == Snapshot(t) \/ PutVariables(t) \/ Evaluate(t) \/ PutEvent(t)

-----------------------------------------------------------------------------
(* EntityStateTracker.republish_states, on the coach worker. *)

(* Mutant of Republish: the payloads are copied and the lock is left. *)
RepublishUnlocked ==
  /\ pc[Coach] = "idle"
  /\ publishlock = Free
  /\ Len(log) < MaxLog
  /\ \E selection \in SUBSET Entity :
       copy' = [e \in Entity |-> IF e \in selection THEN payload[e] ELSE 0]
  /\ Goto(Coach, "republish")
  /\ UNCHANGED <<publishlock, lock, cur, todo, staged, shot, readings, payload, reported, contextVars, logVars>>

(* The cached payloads of the selection are copied under the publish lock, *)
(* which is held until the last of them is queued.                         *)
Republish ==
  /\ pc[Coach] = "idle"
  /\ publishlock = Free
  /\ Len(log) < MaxLog
  /\ publishlock' = Coach
  /\ \E selection \in SUBSET Entity :
       copy' = [e \in Entity |-> IF e \in selection THEN payload[e] ELSE 0]
  /\ Goto(Coach, "republish")
  /\ UNCHANGED <<lock, cur, todo, staged, shot, readings, payload, reported, contextVars, logVars>>

PutRepublished ==
  /\ pc[Coach] = "republish"
  /\ \E e \in Entity :
       /\ copy[e] # 0
       /\ IF PublishState THEN Put(Publication("republished", copy[e], e)) ELSE UNCHANGED logVars
       /\ copy' = [copy EXCEPT ![e] = 0]
       /\ reported' = reported \cup {e}
  /\ UNCHANGED <<lock, threadVars, readings, publishlock, payload, contextVars>>

(* Mutant of EndRepublish: nothing was cached and the lock is not released. *)
EndRepublishHolding ==
  /\ pc[Coach] = "republish"
  /\ \A e \in Entity : copy[e] = 0
  /\ Goto(Coach, "idle")
  /\ UNCHANGED <<publishlock, lock, cur, todo, staged, shot, readings, payload, copy, reported, contextVars, logVars>>

EndRepublish ==
  /\ pc[Coach] = "republish"
  /\ \A e \in Entity : copy[e] = 0
  /\ publishlock' = Free
  /\ Goto(Coach, "idle")
  /\ UNCHANGED <<lock, cur, todo, staged, shot, readings, payload, copy, reported, contextVars, logVars>>

-----------------------------------------------------------------------------
(* The dispatcher takes the next publication. *)
Take ==
  /\ taken < Len(log)
  /\ taken' = taken + 1
  /\ UNCHANGED <<lock, threadVars, readings, trackerVars, contextVars, log>>

(* The measurements grow older than max_age. *)
Expire ==
  /\ known.status = "fresh"
  /\ known' = [of |-> known.of, status |-> "stale"]
  /\ UNCHANGED <<lock, threadVars, readings, trackerVars, told, active, logVars>>

-----------------------------------------------------------------------------
(* After connect(), which publishes the variables once: the dispatcher has *)
(* taken that snapshot.                                                    *)
Init ==
  /\ lock = Free
  /\ publishlock = Free
  /\ pc = [t \in Thread |-> "idle"]
  /\ cur = [t \in Thread |-> 0]
  /\ todo = [t \in Thread |-> {}]
  /\ known = Nothing
  /\ shot = [t \in Thread |-> Nothing]
  /\ staged = [t \in Thread |-> <<>>]
  /\ copy = [e \in Entity |-> 0]
  /\ readings = 0
  /\ payload = [e \in Entity |-> 0]
  /\ told = known
  /\ active = "cleared"
  /\ log = <<>>
  /\ taken = 0
  /\ reported = {}

Publish(t) == Apply(t) \/ PutRaw(t) \/ PutStaged(t)

Next ==
  \/ \E t \in Publisher : Enter(t) \/ ApplyFails(t) \/ Publish(t)
  \/ Wake
  \/ \E t \in Thread : Finish(t)
  \/ Republish \/ PutRepublished \/ EndRepublish
  \/ Take
  \/ Expire

Spec == Init /\ [][Next]_vars

(* What a thread does next when it has begun: one of these at each place.   *)
Step(t) ==
  \/ t \in Publisher /\ Publish(t)
  \/ t = Coach /\ (PutRepublished \/ EndRepublish)
  \/ Finish(t)

(* The dispatcher and the maintenance thread keep running.  A thread that    *)
(* waits for the publish lock or for a place in the queue gets it when it is *)
(* offered again and again; that is strong fairness.  Nobody has to publish. *)
Fairness ==
  /\ WF_vars(Take)
  /\ WF_vars(Wake)
  /\ \A t \in Thread : SF_vars(Step(t))

FairSpec == Spec /\ Fairness
-----------------------------------------------------------------------------
(* Properties. *)

Snapshots == [of : Nat, status : Availability]

EntityStates == [kind : {"entity", "republished"}, of : Nat, about : Entity]

Publications ==
  EntityStates
    \cup [kind : {"raw"}, of : Nat, about : {"reading"}]
    \cup [kind : {"variables"}, of : Nat, about : Availability]
    \cup [kind : {"event"}, of : Nat, about : {"active", "cleared"}]

(* Every variable has its type. *)
TypeOK ==
  /\ lock \in Thread \cup {Free}
  /\ publishlock \in {Coach, Free}
  /\ pc \in [Thread -> {"idle", "apply", "derived", "tell", "evaluate", "event", "republish"}]
  /\ cur \in [Thread -> Nat]
  /\ todo \in [Thread -> SUBSET Entity]
  /\ staged \in [Thread -> Seq(EntityStates)]
  /\ copy \in [Entity -> Nat]
  /\ readings \in Nat
  /\ payload \in [Entity -> Nat]
  /\ known \in Snapshots
  /\ told \in Snapshots
  /\ shot \in [Thread -> Snapshots]
  /\ active \in {"active", "cleared"}
  /\ log \in Seq(Publications)
  /\ taken \in 0 .. Len(log)
  /\ reported \subseteq Entity

Positions(kinds) == {i \in 1 .. Len(log) : log[i].kind \in kinds}

(* The raw readings are queued in the order in which they updated the       *)
(* variables and the entity states, each once and none left out: no thread  *)
(* overtakes another between its update and its publication                 *)
(* (RuntimePublisher._lock).                                                *)
TelemetryInOrder ==
  \A j \in Positions({"raw"}) :
    /\ \A i \in Positions({"raw"}) : i < j => log[i].of < log[j].of
    /\ \A n \in 1 .. log[j].of - 1 : \E i \in Positions({"raw"}) : i < j /\ log[i].of = n

(* A subscriber never sees an entity go back to an older reading, although  *)
(* the coach worker republishes cached states beside the sources: the copy  *)
(* and its publication are one step of the tracker's publish lock.          *)
EntitiesNeverRegress ==
  \A i, j \in Positions({"entity", "republished"}) :
    i < j /\ log[i].about = log[j].about => log[i].of <= log[j].of

(* The variables never go back to an older reading either, nor from stale   *)
(* to fresh for the same reading: a snapshot the maintenance thread took    *)
(* does not overtake the update of a source.                                *)
VariablesNeverRegress ==
  \A i, j \in Positions({"variables"}) :
    i < j /\ log[i].of > 0 /\ log[j].of > 0 =>
      \/ log[i].of < log[j].of
      \/ log[i].of = log[j].of /\ (log[i].about = "stale" => log[j].about = "stale")

(* What is derived from a reading is queued behind it: entity states sent   *)
(* with telemetry, variable snapshots and events.                           *)
Follows(kinds) ==
  \A j \in Positions(kinds) :
    log[j].of > 0 => \E i \in Positions({"raw"}) : i < j /\ log[i].of = log[j].of

DerivedFollowsTelemetry == Follows({"entity", "variables", "event"})

(* However sources, coach worker and maintenance thread interleave, a        *)
(* subscriber sees one history: nothing goes back, and nothing precedes the  *)
(* reading it was derived from.                                              *)
OneHistory ==
  /\ TelemetryInOrder
  /\ EntitiesNeverRegress
  /\ VariablesNeverRegress
  /\ DerivedFollowsTelemetry

(* The events of a rule alternate: an alarm is never announced twice nor    *)
(* cleared before it was announced, whichever thread noticed.               *)
EventsAlternate ==
  \A j \in Positions({"event"}) :
    LET before == {i \in Positions({"event"}) : i < j}
    IN /\ before = {} => log[j].about = "active"
       /\ \A i \in before : (\A k \in before : k <= i) => log[i].about # log[j].about

(* docs/CONCURRENCY.md: "Generated coach-entity messages are queued after   *)
(* their triggering raw telemetry", republished ones included.              *)
EntityFollowsTelemetry == Follows({"entity", "republished"})

(* docs/COACH-MQTT-COMMANDS.md: republish_states "returns the selected      *)
(* published/missing entity IDs": an entity it reports as published was     *)
(* queued on its entity topic.                                              *)
ReportedIsQueued ==
  \A e \in reported : \E i \in 1 .. Len(log) : log[i].kind = "republished" /\ log[i].about = e

(* Backpressure, the worker's republication and the maintenance thread      *)
(* never block a source for ever: no cycle among the three locks and the    *)
(* full queue.                                                              *)
PublishReturns ==
  \A t \in Publisher : pc[t] = "apply" ~> pc[t] = "idle"

(* A change of the variables reaches the subscribers, expiry included, when *)
(* no source publishes any more: the maintenance thread announces it.       *)
ExpiryAnnounced == known # told ~> known = told
=============================================================================
