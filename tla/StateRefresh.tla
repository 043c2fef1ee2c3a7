---------------------------- MODULE StateRefresh ----------------------------
(***************************************************************************)
(* A refresh of coach entities: the coach worker (coach_queries.py) asks   *)
(* the sources of the selected entities for their status and waits for the *)
(* tracker (coach_state.py) to observe every field, while the CAN loop of  *)
(* the RV-C source, the poll of a WLED source and other sources go on.     *)
(*                                                                         *)
(* One refresh runs at a time (CoachCommands), so a generation number      *)
(* matters only as "advanced since the baseline", and a monotonic stamp    *)
(* only as "after the deadline".  A status id of RV-C stands for the field *)
(* it reports.  Every publication holds the lock of the runtime publisher  *)
(* (TelemetryPipeline): one reading at a time is on its way.               *)
(***************************************************************************)
EXTENDS Naturals, FiniteSets

CONSTANTS
  Section,    (* configuration sections of sources                    *)
  rvc, wled,  (* the two that answer status requests                  *)
  Entity,     (* monitored entities                                   *)
  FieldsOf,   (* entity -> its mapped fields                          *)
  SectionOf,  (* entity -> its section                                *)
  Selections, (* bound: the selections a controller sends             *)
  NoReader    (* nobody publishes                                     *)

Field == UNION {FieldsOf[e] : e \in Entity}
FieldsIn(s) == UNION {FieldsOf[e] : e \in {e \in Entity : SectionOf[e] = s}}
Client == {"poll", "worker"} (* threads that read the WLED controller *)

ASSUME RefreshAssumption ==
  /\ {rvc, wled} \subseteq Section /\ rvc # wled
  /\ SectionOf \in [Entity -> Section]
  /\ \A e \in Entity : IsFiniteSet(FieldsOf[e]) /\ FieldsOf[e] # {}
  /\ Selections \subseteq SUBSET Entity \ {{}}

VARIABLES
  worker,   (* the refresh: idle, request, lock, http, publish, wait, asleep, snapshot, check, done *)
  selected, (* the selected entities                                           *)
  todo,     (* sections not asked yet                                          *)
  outcome,  (* section_status                                                  *)
  over,     (* the deadline has passed                                         *)
  advanced, (* fields whose generation is past the baseline                    *)
  late,     (* fields whose latest observation is stamped after the deadline   *)
  snapped,  (* the snapshot: selected fields that had advanced when it was read *)
  reported, (* observed_fields of the result                                   *)
  verdict,  (* status per entity of the result, and its code                   *)
  alive,    (* sections whose source thread runs                               *)
  pending,  (* _pending_requests of the RV-C source                            *)
  sending,  (* requests taken and not yet put on the bus                       *)
  loop,     (* the CAN loop: send, recv, publish, dead                         *)
  poll,     (* the WLED poll: idle, lock, http, publish                        *)
  lock,     (* who holds the request lock of the WLED source: at most one      *)
  reader,   (* who publishes a reading, or NoReader                            *)
  carried,  (* its fields                                                      *)
  stamped,  (* its time was read after the deadline                            *)
  seen,     (* history: fields applied since the baseline and stamped in time  *)
  owed      (* history: status ids asked of this RV-C source and not yet sent  *)

refreshVars == <<selected, outcome, snapped, reported, verdict>>
trackerVars == <<advanced, late, seen>>
canVars == <<alive, pending, sending, loop, owed>>
wledVars == <<poll, lock>>
readingVars == <<reader, carried, stamped>>
vars == <<worker, todo, over, refreshVars, trackerVars, canVars, wledVars, readingVars>>

NotAsked == [s \in Section |-> "none"]
NoVerdict == [entity |-> [e \in Entity |-> "none"], code |-> "none"]

Init ==
  /\ worker = "idle" /\ selected = {} /\ todo = {} /\ over = FALSE
  /\ outcome = NotAsked
  /\ advanced = {} /\ late = {} /\ seen = {}
  /\ snapped = {} /\ reported = {} /\ verdict = NoVerdict
  /\ alive = Section
  /\ pending = FieldsIn(rvc) /\ owed = pending (* request_initial_status *)
  /\ sending = {} /\ loop = "send"
  /\ poll = "idle" /\ lock = {}
  /\ reader = NoReader /\ carried = {} /\ stamped = FALSE

-----------------------------------------------------------------------------
(* The result of a refresh. *)

Status(e, observed, asked) ==
  IF FieldsOf[e] \subseteq observed THEN "observed"
  ELSE IF FieldsOf[e] \cap observed # {} THEN "partial"
  ELSE IF asked[SectionOf[e]] \in {"unsupported", "source_unavailable"} THEN asked[SectionOf[e]]
  ELSE "timed_out"

Code(statuses, observed) ==
  IF statuses = {"observed"} THEN "observed"
  ELSE IF observed # {} THEN "partial"
  ELSE IF statuses \in {{"unsupported"}, {"source_unavailable"}} THEN CHOOSE s \in statuses : TRUE
  ELSE "refresh_timeout"

(* The baseline covers the fields of the selected entities only. *)
Selected == UNION {FieldsOf[e] : e \in selected}

(* Fields the wait is for: those of entities one of whose sections was asked. *)
Required == UNION {FieldsOf[e] : e \in {e \in selected : outcome[SectionOf[e]] = "requested"}}

-----------------------------------------------------------------------------
(* The coach worker. *)

(* The deadline is set and the baseline captured. *)
Begin(sel) ==
  /\ worker = "idle"
  /\ worker' = "request" /\ selected' = sel /\ todo' = {SectionOf[e] : e \in sel}
  /\ UNCHANGED <<over, outcome, snapped, reported, verdict, trackerVars, canVars, wledVars, readingVars>>

Asked(s, answer) == outcome' = [outcome EXCEPT ![s] = answer] /\ todo' = todo \ {s}

(* request_status of the RV-C source only queues the ids it does not hold yet. *)
RequestStatus ==
  LET ids == UNION {FieldsOf[e] : e \in {e \in selected : SectionOf[e] = rvc}}
  IN pending' = pending \cup ids /\ owed' = owed \cup ids

AskSection(s) ==
  /\ worker = "request" /\ s \in todo
  /\ \/ /\ s = rvc /\ s \in alive
        /\ RequestStatus /\ Asked(s, "requested")
        /\ UNCHANGED worker
     \/ /\ s = wled /\ s \in alive (* a blocking read *)
        /\ worker' = "lock"
        /\ UNCHANGED <<outcome, todo, pending, owed>>
     \/ /\ s \notin alive \/ s \notin {rvc, wled}
        /\ Asked(s, IF s \in {rvc, wled} THEN "source_unavailable" ELSE "unsupported")
        /\ UNCHANGED <<worker, pending, owed>>
  /\ UNCHANGED <<over, selected, snapped, reported, verdict, trackerVars, alive, sending, loop, wledVars, readingVars>>

AllAsked ==
  /\ worker = "request" /\ todo = {}
  /\ worker' = IF Required = {} THEN "snapshot" ELSE "wait"
  /\ UNCHANGED <<todo, over, refreshVars, trackerVars, canVars, wledVars, readingVars>>

(* Condition.wait_for: the predicate is tested before the first wait. *)
Wait ==
  /\ worker = "wait"
  /\ worker' = IF Required \subseteq advanced THEN "snapshot" ELSE "asleep"
  /\ UNCHANGED <<todo, over, refreshVars, trackerVars, canVars, wledVars, readingVars>>

MutTimedOut ==
  /\ worker = "asleep" /\ over
  /\ worker' = "wait"
  /\ UNCHANGED <<todo, over, refreshVars, trackerVars, canVars, wledVars, readingVars>>
TimedOut ==
  /\ worker = "asleep" /\ over
  /\ worker' = "snapshot"
  /\ UNCHANGED <<todo, over, refreshVars, trackerVars, canVars, wledVars, readingVars>>

(* snapshots: the time of a field it returns is of this refresh when the field  *)
(* has advanced; what is observed from here on is not in it.                    *)
Snapshot ==
  /\ worker = "snapshot"
  /\ worker' = "check" /\ snapped' = advanced
  /\ UNCHANGED <<todo, over, selected, outcome, reported, verdict, trackerVars, canVars, wledVars, readingVars>>

(* observed_fields_since, and the result. *)
MutInTime == advanced
InTime == advanced \ late

Check ==
  /\ worker = "check"
  /\ worker' = "done"
  /\ reported' = InTime
  /\ verdict' = LET status == [e \in Entity |-> IF e \in selected THEN Status(e, InTime, outcome) ELSE "none"]
                IN [entity |-> status, code |-> Code({status[e] : e \in selected}, reported')]
  /\ UNCHANGED <<todo, over, selected, outcome, snapped, trackerVars, canVars, wledVars, readingVars>>

(* The service publishes the result; what the next refresh starts from anew is forgotten. *)
Return ==
  /\ worker = "done"
  /\ worker' = "idle" /\ selected' = {} /\ over' = FALSE /\ stamped' = FALSE
  /\ advanced' = {} /\ late' = {} /\ seen' = {} /\ snapped' = {} /\ reported' = {}
  /\ outcome' = NotAsked /\ verdict' = NoVerdict
  /\ UNCHANGED <<todo, canVars, wledVars, reader, carried>>

(* The monotonic clock reaches the deadline. *)
Expire ==
  /\ worker \notin {"idle", "done"} /\ ~over
  /\ over' = TRUE
  /\ UNCHANGED <<worker, todo, refreshVars, trackerVars, canVars, wledVars, readingVars>>

-----------------------------------------------------------------------------
(* The tracker. *)

(* A publication begins: the lock of the publisher is taken and the clocks are read. *)
Enter(t, fields) ==
  /\ reader = NoReader
  /\ reader' = t /\ carried' = fields /\ stamped' = (worker # "idle" /\ over)

(* The worker wakes when the fields it waits for have advanced. *)
MutAwake(fields) == worker
Awake(fields) == IF worker = "asleep" /\ Required \subseteq fields THEN "snapshot" ELSE worker

(* _apply under its locks; every observation counts and notifies, changed or not. *)
Commit ==
  /\ reader # NoReader
  /\ reader' = NoReader /\ carried' = {}
  /\ IF worker \in {"idle", "done"} THEN UNCHANGED trackerVars
     ELSE LET fields == carried \cap Selected
          IN /\ advanced' = advanced \cup fields
             /\ late' = IF stamped THEN late \cup fields ELSE late \ fields
             /\ seen' = IF stamped THEN seen ELSE seen \cup fields
  /\ poll' = IF reader = "poll" THEN "idle" ELSE poll
  /\ loop' = IF reader = "rvc" THEN "send" ELSE loop
  /\ IF reader = "worker"
     THEN worker' = "request" /\ Asked(wled, "requested")
     ELSE worker' = Awake(advanced \cup carried) /\ UNCHANGED <<outcome, todo>>
  /\ UNCHANGED <<over, selected, snapped, reported, verdict, alive, pending, sending, owed, lock, stamped>>

-----------------------------------------------------------------------------
(* The CAN loop of the RV-C source. *)

(* _send_pending_requests: the list is taken under its lock, then sent one by one. *)
TakeRequests ==
  /\ loop = "send" /\ sending = {}
  /\ loop' = IF pending = {} THEN "recv" ELSE loop
  /\ sending' = pending /\ pending' = {}
  /\ UNCHANGED <<worker, todo, over, refreshVars, trackerVars, alive, owed, wledVars, readingVars>>

(* A request is broadcast; one that fails is only logged. *)
MutSend(d) ==
  /\ d \in sending
  /\ sending' = sending \ {d} /\ owed' = owed \ {d} /\ pending' = {}
  /\ loop' = IF sending = {d} THEN "recv" ELSE loop
  /\ UNCHANGED <<worker, todo, over, refreshVars, trackerVars, alive, wledVars, readingVars>>
Send(d) ==
  /\ d \in sending
  /\ sending' = sending \ {d} /\ owed' = owed \ {d}
  /\ loop' = IF sending = {d} THEN "recv" ELSE loop
  /\ UNCHANGED <<worker, todo, over, refreshVars, trackerVars, alive, pending, wledVars, readingVars>>

(* A frame, asked for or not, or the end of the receive timeout. *)
Receive ==
  /\ loop = "recv"
  /\ \/ loop' = "send" /\ UNCHANGED readingVars
     \/ loop' = "publish" /\ \E d \in FieldsIn(rvc) : Enter("rvc", {d})
  /\ UNCHANGED <<worker, todo, over, refreshVars, trackerVars, alive, pending, sending, owed, wledVars>>

(* The bus fails; the supervisor starts a new source, whose list is empty. *)
BusFails ==
  /\ loop = "recv"
  /\ loop' = "dead" /\ alive' = alive \ {rvc}
  /\ pending' = {} /\ owed' = {}
  /\ UNCHANGED <<worker, todo, over, refreshVars, trackerVars, sending, wledVars, readingVars>>

Restart ==
  /\ loop = "dead"
  /\ loop' = "send" /\ alive' = alive \cup {rvc}
  /\ UNCHANGED <<worker, todo, over, refreshVars, trackerVars, pending, sending, owed, wledVars, readingVars>>

-----------------------------------------------------------------------------
(* The WLED source: the poll and the worker read through one request lock. *)

Place(t) == IF t = "poll" THEN poll ELSE worker
Move(t, to) == IF t = "poll" THEN poll' = to /\ UNCHANGED worker ELSE worker' = to /\ UNCHANGED poll

PollDue ==
  /\ poll = "idle" /\ wled \in alive
  /\ poll' = "lock"
  /\ UNCHANGED <<worker, todo, over, refreshVars, trackerVars, canVars, lock, readingVars>>

MutAcquire(t) ==
  /\ Place(t) = "lock"
  /\ lock' = lock \cup {t} /\ Move(t, "http")
  /\ UNCHANGED <<todo, over, refreshVars, trackerVars, canVars, readingVars>>
Acquire(t) ==
  /\ Place(t) = "lock" /\ lock = {}
  /\ lock' = {t} /\ Move(t, "http")
  /\ UNCHANGED <<todo, over, refreshVars, trackerVars, canVars, readingVars>>

(* The lock was not free in time, or the request failed: poll logs it, the worker *)
(* counts the source as unavailable.                                             *)
GiveUp(t) ==
  IF t = "poll" THEN poll' = "idle" /\ UNCHANGED <<worker, outcome, todo>>
  ELSE worker' = "request" /\ Asked(wled, "source_unavailable") /\ UNCHANGED poll

LockTimeout(t) ==
  /\ Place(t) = "lock" /\ lock # {}
  /\ GiveUp(t)
  /\ UNCHANGED <<over, selected, snapped, reported, verdict, trackerVars, canVars, lock, readingVars>>

Respond(t) ==
  /\ Place(t) = "http"
  /\ lock' = {}
  /\ \/ Move(t, "publish") /\ UNCHANGED <<outcome, todo>>
     \/ GiveUp(t)
  /\ UNCHANGED <<over, selected, snapped, reported, verdict, trackerVars, canVars, readingVars>>

PublishState(t) ==
  /\ Place(t) = "publish" /\ reader # t
  /\ Enter(t, FieldsIn(wled))
  /\ UNCHANGED <<worker, todo, over, refreshVars, trackerVars, canVars, wledVars>>

(* Sources without status requests publish on their own schedule. *)
OtherReading(s) ==
  /\ s \in alive \ {rvc, wled} /\ FieldsIn(s) # {}
  /\ Enter("other", FieldsIn(s))
  /\ UNCHANGED <<worker, todo, over, refreshVars, trackerVars, canVars, wledVars>>

-----------------------------------------------------------------------------
WorkerStep == (\E s \in Section : AskSection(s)) \/ AllAsked \/ Wait \/ TimedOut \/ Snapshot \/ Check \/ Return
CanStep == TakeRequests \/ (\E d \in Field : Send(d)) \/ Receive
WledStep(t) == Acquire(t) \/ LockTimeout(t) \/ Respond(t) \/ PublishState(t)

Next ==
  \/ WorkerStep \/ Expire \/ Commit \/ CanStep \/ BusFails \/ Restart \/ PollDue
  \/ \E sel \in Selections : Begin(sel)
  \/ \E t \in Client : WledStep(t)
  \/ \E s \in Section : OtherReading(s)

Spec == Init /\ [][Next]_vars

(* Running threads go on, requests end by their timeout, and time passes; the *)
(* lock of the publisher is given to whoever keeps asking for it.             *)
Fairness ==
  /\ WF_vars(WorkerStep) /\ WF_vars(Expire) /\ WF_vars(Commit)
  /\ \A t \in Client : SF_vars(WledStep(t))

FairSpec == Spec /\ Fairness

-----------------------------------------------------------------------------
TypeOK ==
  /\ selected \subseteq Entity /\ todo \subseteq Section
  /\ outcome \in [Section -> {"none", "requested", "unsupported", "source_unavailable"}]
  /\ advanced \cup late \cup snapped \cup reported \cup carried \subseteq Field
  /\ pending \cup sending \subseteq FieldsIn(rvc)
  /\ Cardinality(lock) <= 1
  /\ verdict.code \in {"none", "observed", "partial", "unsupported", "source_unavailable", "refresh_timeout"}

(* observed_fields_since: a result reports only fields that were observed after *)
(* the baseline and by the deadline, and leaves such a field out only when a    *)
(* later observation has overwritten its time; "observed" covers every field.   *)
ObservedHonest ==
  worker = "done" =>
    /\ reported \subseteq seen
    /\ \A e \in selected : (FieldsOf[e] \cap seen) \ reported \subseteq late
    /\ verdict.code = "observed" => Selected \subseteq seen

(* wait_for_observations: the worker never sleeps on when every field it waits *)
(* for has been observed, whichever threads observed them.                     *)
NoLostWakeup == worker = "asleep" => ~(Required \subseteq advanced)

(* request_status and _send_pending_requests: a status id queued while the loop *)
(* sends others is kept until the loop has tried to send it.                    *)
RequestsKept == owed \subseteq pending \cup sending

(* A refresh ends, whatever its sources do. *)
RefreshEnds == worker # "idle" ~> worker = "idle"

(* A refresh summarizes fresh observations: the observed_at of an entity that   *)
(* was observed, in part or whole, is the time of an observation of the refresh. *)
TimesAreFresh ==
  worker = "done" =>
    \A e \in selected : FieldsOf[e] \cap reported # {} => FieldsOf[e] \cap reported \cap snapped # {}

(* Wait no longer than timeout_s: the worker does not wait for a device after the deadline. *)
WaitsNoLonger == over => worker \notin {"lock", "http"}
=============================================================================
