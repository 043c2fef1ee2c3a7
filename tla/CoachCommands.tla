---------------------------- MODULE CoachCommands ----------------------------
(***************************************************************************)
(* The semantic command service of coach_commands.py: CoachCommandService, *)
(* its durable RequestJournal and the admission gates of the planner.      *)
(*                                                                         *)
(* Two threads share the service.  paho's network thread runs `receive`    *)
(* for every message of coach/command and coach/query, one at a time; one  *)
(* "coach-command" worker per admitted request runs `_execute`.  The main  *)
(* thread closes the service, the process may crash between any two        *)
(* steps, and the wall clock may be set back.  A request that is sent or   *)
(* delivered twice is the same member of Message twice: the digest of the  *)
(* code is the message itself.                                             *)
(***************************************************************************)
EXTENDS Integers, FiniteSets

CONSTANTS
  Message,      (* complete request envelopes, told apart by their digest  *)
  Ident,        (* request identities: pairs (client_id, request_id)       *)
  IdOf,         (* the identity of a message                               *)
  Issued,       (* issued_at, in clock units                               *)
  Expires,      (* expires_at, in clock units                              *)
  Steps,        (* number of transport operations of the expanded plan     *)
  Queries,      (* the messages sent to coach/query                        *)
  MaxLifetime,  (* longest accepted lifetime (15 s in the code)            *)
  MaxSkew,      (* furthest accepted issue time ahead of now (2 s)         *)
  Retention,    (* how long a row outlives its expiry (60 s)               *)
  JournalLimit, (* journal_max_entries                                     *)
  MaxClock,     (* bound of the model: the latest time the clock reads     *)
  MaxSetback,   (* how far the wall clock may ever be set back             *)
  NoMessage     (* the network thread is between two callbacks             *)

ASSUME MessageAssumption ==
  /\ IdOf \in [Message -> Ident]
  /\ Issued \in [Message -> Int]
  /\ Expires \in [Message -> Int]
  /\ Steps \in [Message -> Nat]
  /\ Queries \subseteq Message
  /\ \A m \in Message \ Queries : Steps[m] > 0
  /\ NoMessage \notin Message

ASSUME BoundAssumption ==
  /\ MaxLifetime \in Nat
  /\ MaxSkew \in Nat
  /\ Retention \in Nat
  /\ JournalLimit \in Nat \ {0}
  /\ MaxClock \in Nat
  /\ MaxSetback \in Nat

VARIABLES
  clock,        (* utc_now(), the protocol clock                           *)
  latest,       (* history: the largest value the clock has had            *)
  service,      (* life of the service and of the MQTT loop that feeds it  *)
  journal,      (* the durable rows: identity -> Row                       *)
  busy,         (* the _busy lock                                          *)
  rpc,          (* where the network thread is in receive                  *)
  rmsg,         (* the request it is handling                              *)
  rfound,       (* the recorded result it read from the journal            *)
  wpc,          (* where the worker of a message is in _execute            *)
  wdone,        (* its local `completed`                                   *)
  wres,         (* its local `result`                                      *)
  admitted,     (* history: messages ever reserved in the journal          *)
  writes,       (* history: how often each step entered the hardware path  *)
  published     (* history: recorded results that reached the result topic *)

clockVars  == <<clock, latest>>
rxVars     == <<rpc, rmsg, rfound>>
workerVars == <<wpc, wdone, wres>>
vars == <<clock, latest, service, journal, busy, rpc, rmsg, rfound,
          wpc, wdone, wres, admitted, writes, published>>

-----------------------------------------------------------------------------
(* The result envelope, reduced to the fields a controller acts on. *)

Statuses == {"accepted", "completed", "rejected", "failed"}
Outcomes == {"not_started", "dispatched", "partial", "unknown"}
Result   == [status : Statuses, outcome : Outcomes, done : Nat]
Row      == [msg : Message, res : Result, intent : BOOLEAN]

result(status, outcome, done) ==
  [status |-> status, outcome |-> outcome, done |-> done]

accepted == result("accepted", "not_started", 0)
refused  == result("rejected", "not_started", 0)

-----------------------------------------------------------------------------
(* validate_envelope: the checks on time, with and without expiry. *)

ValidEnvelope(m) ==
  /\ 0 < Expires[m] - Issued[m]
  /\ Expires[m] - Issued[m] <= MaxLifetime
  /\ Issued[m] <= clock + MaxSkew

Expired(m) == clock >= Expires[m]

(* RequestJournal: rows past their retention, lookup, reserve and save. *)

(* Mutant: rows are forgotten as soon as they expire. *)
StaleAtExpiry(row) == Expired(row.msg)

Stale(row) == Expires[row.msg] + Retention < clock

Retained == {i \in DOMAIN journal : ~ Stale(journal[i])}

Known(m) == IdOf[m] \in DOMAIN journal

(* The journal holds the recorded result of exactly this request. *)
Recorded(m) == Known(m) /\ journal[IdOf[m]].msg = m

reserve(m) ==
  journal' = [i \in Retained \cup {IdOf[m]} |->
                IF i = IdOf[m]
                THEN [msg |-> m, res |-> accepted, intent |-> FALSE]
                ELSE journal[i]]

save(m, res, intent) ==
  journal' = [i \in DOMAIN journal |->
                IF i = IdOf[m]
                THEN [msg    |-> journal[i].msg,
                      res    |-> res,
                      intent |-> journal[i].intent \/ intent]
                ELSE journal[i]]

(* Mutants: a status controllers do not know; terminal rows rewritten too. *)
interruptedAsStatus(row) ==
  IF row.res.status = "accepted"
  THEN [row EXCEPT !.res = result("interrupted", "unknown", row.res.done)]
  ELSE row

interruptedAlways(row) ==
  [row EXCEPT !.res = result("failed", IF row.intent THEN "unknown" ELSE "not_started", row.res.done)]

(* What a row becomes when a new process opens the journal. *)
interrupted(row) ==
  IF row.res.status = "accepted"
  THEN [msg    |-> row.msg,
        res    |-> result("failed",
                     IF row.intent /\ row.msg \notin Queries THEN "unknown" ELSE "not_started",
                     row.res.done),
        intent |-> row.intent]
  ELSE row

-----------------------------------------------------------------------------
(* receive, on the network thread. *)

(* The callback runs as long as paho's loop does; parse_json, the retained *)
(* flag and the envelope are checked before the admission lock is taken.   *)
Receive(m) ==
  /\ service \in {"open", "closing", "closed"}
  /\ rpc = "idle"
  /\ rmsg' = m
  /\ \E retained \in BOOLEAN :
       rpc' = IF retained \/ ~ ValidEnvelope(m) THEN "reject" ELSE "lookup"
  /\ UNCHANGED <<clockVars, service, journal, busy, rfound, workerVars, admitted, writes, published>>

(* Under _admission: the closing check, then the identity lookup. *)
Lookup ==
  /\ rpc = "lookup"
  /\ \/ /\ service # "open"
        /\ rpc' = "reject"
        /\ UNCHANGED rfound
     \/ /\ service = "open"
        /\ Known(rmsg)
        /\ IF Recorded(rmsg)
           THEN rpc' = "replay" /\ rfound' = journal[IdOf[rmsg]].res
           ELSE rpc' = "reject" /\ UNCHANGED rfound
     \/ /\ service = "open"
        /\ ~ Known(rmsg)
        /\ rpc' = "admit"
        /\ UNCHANGED rfound
     \/ /\ service = "open"       \* sqlite3.Error: service_error
        /\ rpc' = "reject"
        /\ UNCHANGED rfound
  /\ UNCHANGED <<clockVars, service, journal, busy, rmsg, workerVars, admitted, writes, published>>

(* receive returns to paho's loop. *)
Return == rpc' = "idle" /\ rmsg' = NoMessage /\ rfound' = accepted

(* An identical duplicate is answered with the result read by the lookup; *)
(* a publish that fails falls into the service_error rejection.           *)
Replay ==
  /\ rpc = "replay"
  /\ \/ Return /\ published' = published \cup {[msg |-> rmsg, res |-> rfound]}
     \/ rpc' = "reject" /\ UNCHANGED <<rmsg, rfound, published>>
  /\ UNCHANGED <<clockVars, service, journal, busy, workerVars, admitted, writes>>

(* Mutant: the slot is claimed without looking whether it is free. *)
AdmitUnslotted ==
  /\ rpc = "admit"
  /\ IF ValidEnvelope(rmsg) /\ ~ Expired(rmsg)
     THEN rpc' = "prepare" /\ busy' = TRUE
     ELSE rpc' = "reject" /\ UNCHANGED busy
  /\ UNCHANGED <<clockVars, service, journal, rmsg, rfound, workerVars, admitted, writes, published>>

(* Expiry is checked again, then the single execution slot is claimed. *)
Admit ==
  /\ rpc = "admit"
  /\ IF ValidEnvelope(rmsg) /\ ~ Expired(rmsg) /\ ~ busy
     THEN rpc' = "prepare" /\ busy' = TRUE
     ELSE rpc' = "reject" /\ UNCHANGED busy
  /\ UNCHANGED <<clockVars, service, journal, rmsg, rfound, workerVars, admitted, writes, published>>

(* Mutant: a refused plan keeps the slot. *)
PrepareLeaking ==
  /\ rpc = "prepare"
  /\ rpc' \in {"reserve", "reject"}
  /\ UNCHANGED <<clockVars, service, journal, busy, rmsg, rfound, workerVars, admitted, writes, published>>

(* planner.prepare: authorization, parameters, gates and readiness, or a *)
(* CommandError that gives the slot back.                                *)
Prepare ==
  /\ rpc = "prepare"
  /\ \/ rpc' = "reserve" /\ UNCHANGED busy
     \/ rpc' = "reject" /\ busy' = FALSE
  /\ UNCHANGED <<clockVars, service, journal, rmsg, rfound, workerVars, admitted, writes, published>>

(* journal.reserve is one transaction: a full journal or a database error *)
(* rolls back the cleanup too.                                            *)
Reserve ==
  /\ rpc = "reserve"
  /\ \/ /\ Cardinality(Retained) < JournalLimit
        /\ reserve(rmsg)
        /\ admitted' = admitted \cup {rmsg}
        /\ rpc' = "start"
        /\ UNCHANGED busy
     \/ /\ rpc' = "reject"
        /\ busy' = FALSE
        /\ UNCHANGED <<journal, admitted>>
  /\ UNCHANGED <<clockVars, service, rmsg, rfound, workerVars, writes, published>>

StartWorker ==
  /\ rpc = "start"
  /\ \/ /\ Return
        /\ wpc' = [wpc EXCEPT ![rmsg] = "announce"]
        /\ UNCHANGED <<journal, busy>>
     \/ /\ rpc' = "reject"        \* Thread.start raised
        /\ busy' = FALSE
        /\ save(rmsg, refused, FALSE) \/ UNCHANGED journal
        /\ UNCHANGED <<rmsg, rfound, wpc>>
  /\ UNCHANGED <<clockVars, service, wdone, wres, admitted, writes, published>>

(* _reject runs after the admission lock is released and publishes a        *)
(* "rejected" that no row records; it may fail, and changes nothing else.   *)
Reject ==
  /\ rpc = "reject"
  /\ Return
  /\ UNCHANGED <<clockVars, service, journal, busy, workerVars, admitted, writes, published>>

HoldsAdmission == rpc \in {"replay", "admit", "prepare", "reserve", "start"}

-----------------------------------------------------------------------------
(* _execute, on the worker of message m. *)

(* Leave the try block with a result. *)
Conclude(m, status, outcome) ==
  /\ wpc' = [wpc EXCEPT ![m] = "settle"]
  /\ wres' = [wres EXCEPT ![m] = result(status, outcome, wdone[m])]

Goto(m, place) == wpc' = [wpc EXCEPT ![m] = place]

(* Mutant: every CommandError is a rejection before any write. *)
RefuseForgetting(m) == Conclude(m, "rejected", "not_started")

(* A CommandError: a rejection unless a step was already attempted, which *)
(* by then has also completed.                                            *)
Refuse(m) ==
  Conclude(m, IF wdone[m] > 0 THEN "failed" ELSE "rejected",
              IF wdone[m] > 0 THEN "partial" ELSE "not_started")

(* Mutant: a failed announcement is ignored. *)
AnnounceUnchecked(m) ==
  /\ wpc[m] = "announce"
  /\ Goto(m, "check")
  /\ published' = published \cup {[msg |-> m, res |-> accepted]} \/ UNCHANGED published
  /\ UNCHANGED <<clockVars, service, journal, busy, rxVars, wdone, wres, admitted, writes>>

(* Admission is published with broker acknowledgment.  A failed wait may  *)
(* still have reached the controller; either way nothing is dispatched.   *)
Announce(m) ==
  /\ wpc[m] = "announce"
  /\ \/ /\ Goto(m, "check")
        /\ published' = published \cup {[msg |-> m, res |-> accepted]}
        /\ UNCHANGED wres
     \/ /\ Conclude(m, IF m \in Queries THEN "failed" ELSE "rejected", "not_started")
        /\ \/ published' = published \cup {[msg |-> m, res |-> accepted]}
           \/ UNCHANGED published
  /\ UNCHANGED <<clockVars, service, journal, busy, rxVars, wdone, admitted, writes>>

CheckExpiry(m) ==
  /\ wpc[m] = "check"
  /\ IF Expired(m)
     THEN Refuse(m)
     ELSE Goto(m, IF m \in Queries THEN "query" ELSE "gate") /\ UNCHANGED wres
  /\ UNCHANGED <<clockVars, service, journal, busy, rxVars, wdone, admitted, writes, published>>

(* The wait of a step, then the write gates; before the first write also *)
(* expiry.  `attempted` is wdone[m] > 0 here: a failed step never loops. *)
Gate(m) ==
  /\ wpc[m] = "gate"
  /\ \/ Refuse(m)
     \/ /\ wdone[m] = 0
        /\ IF Expired(m) THEN Refuse(m) ELSE Goto(m, "intent") /\ UNCHANGED wres
     \/ /\ wdone[m] > 0
        /\ Goto(m, "dispatch")
        /\ UNCHANGED wres
  /\ UNCHANGED <<clockVars, service, journal, busy, rxVars, wdone, admitted, writes, published>>

(* Mutant: the hardware path is entered before the intent is durable. *)
RecordIntentUnsaved(m) ==
  /\ wpc[m] = "intent"
  /\ Goto(m, "recheck")
  /\ UNCHANGED <<clockVars, service, journal, busy, rxVars, wdone, wres, admitted, writes, published>>

(* journal.save(intent=True), durable before the hardware path is entered. *)
RecordIntent(m) ==
  /\ wpc[m] = "intent"
  /\ \/ save(m, accepted, TRUE) /\ Goto(m, "recheck") /\ UNCHANGED wres
     \/ Conclude(m, "rejected", "not_started") /\ UNCHANGED journal
  /\ UNCHANGED <<clockVars, service, busy, rxVars, wdone, admitted, writes, published>>

(* The gates and expiry once more, after the journal write. *)
Recheck(m) ==
  /\ wpc[m] = "recheck"
  /\ \/ Refuse(m)
     \/ ~ Expired(m) /\ Goto(m, "dispatch") /\ UNCHANGED wres
  /\ UNCHANGED <<clockVars, service, journal, busy, rxVars, wdone, admitted, writes, published>>

(* The hardware path is entered once more for this step. *)
Enter(m, step) ==
  writes' = [writes EXCEPT ![m] =
               [i \in 1 .. Steps[m] |-> IF i = step THEN writes[m][i] + 1 ELSE writes[m][i]]]

(* Mutants: a step that raised is dispatched again, or counted as done. *)
DispatchRetried(m) ==
  /\ wpc[m] = "dispatch"
  /\ LET step == wdone[m] + 1
     IN \/ /\ Enter(m, step)
           /\ wdone' = [wdone EXCEPT ![m] = step]
           /\ IF step = Steps[m]
              THEN /\ Goto(m, "settle")
                   /\ wres' = [wres EXCEPT ![m] = result("completed", "dispatched", step)]
              ELSE Goto(m, "gate") /\ UNCHANGED wres
        \/ Enter(m, step) /\ UNCHANGED workerVars
  /\ UNCHANGED <<clockVars, service, journal, busy, rxVars, admitted, published>>

DispatchContinuing(m) ==
  /\ wpc[m] = "dispatch"
  /\ LET step == wdone[m] + 1
     IN /\ Enter(m, step) \/ UNCHANGED writes
        /\ wdone' = [wdone EXCEPT ![m] = step]
        /\ IF step = Steps[m]
           THEN /\ Goto(m, "settle")
                /\ wres' = [wres EXCEPT ![m] = result("completed", "dispatched", step)]
           ELSE Goto(m, "gate") /\ UNCHANGED wres
  /\ UNCHANGED <<clockVars, service, journal, busy, rxVars, admitted, published>>

(* source.execute_action: it returns, or raises with the step either not *)
(* performed or performed.                                               *)
Dispatch(m) ==
  /\ wpc[m] = "dispatch"
  /\ LET step == wdone[m] + 1
     IN \/ /\ Enter(m, step)
           /\ wdone' = [wdone EXCEPT ![m] = step]
           /\ IF step = Steps[m]
              THEN /\ Goto(m, "settle")
                   /\ wres' = [wres EXCEPT ![m] = result("completed", "dispatched", step)]
              ELSE Goto(m, "gate") /\ UNCHANGED wres
        \/ /\ Enter(m, step) \/ UNCHANGED writes
           /\ Conclude(m, "failed", "unknown")
           /\ UNCHANGED wdone
  /\ UNCHANGED <<clockVars, service, journal, busy, rxVars, admitted, published>>

(* _query: a refresh first journals its intent, the others run at once.   *)
(* CommandError, an oversized answer and a failing query are not written. *)
RunQuery(m) ==
  /\ wpc[m] = "query"
  /\ \/ save(m, accepted, TRUE) /\ Goto(m, "observe") /\ UNCHANGED wres
     \/ /\ \E status \in {"completed", "rejected", "failed"} : Conclude(m, status, "not_started")
        /\ UNCHANGED journal
  /\ UNCHANGED <<clockVars, service, busy, rxVars, wdone, admitted, writes, published>>

Observe(m) ==
  /\ wpc[m] = "observe"
  /\ \E status \in {"completed", "rejected", "failed"} : Conclude(m, status, "not_started")
  /\ UNCHANGED <<clockVars, service, journal, busy, rxVars, wdone, admitted, writes, published>>

(* finally: the terminal result is saved before it is published; a failed *)
(* save skips the publication.                                            *)
Settle(m) ==
  /\ wpc[m] = "settle"
  /\ \/ save(m, wres[m], FALSE) /\ Goto(m, "publish")
     \/ UNCHANGED journal /\ Goto(m, "release")
  /\ UNCHANGED <<clockVars, service, busy, rxVars, wdone, wres, admitted, writes, published>>

PublishResult(m) ==
  /\ wpc[m] = "publish"
  /\ Goto(m, "release")
  /\ \/ published' = published \cup {[msg |-> m, res |-> wres[m]]}
     \/ UNCHANGED published
  /\ UNCHANGED <<clockVars, service, journal, busy, rxVars, wdone, wres, admitted, writes>>

(* Mutant: the worker ends without giving the slot back. *)
ReleaseForgetting(m) ==
  /\ wpc[m] = "release"
  /\ Goto(m, "none")
  /\ wdone' = [wdone EXCEPT ![m] = 0]
  /\ wres' = [wres EXCEPT ![m] = accepted]
  /\ UNCHANGED <<clockVars, service, journal, busy, rxVars, admitted, writes, published>>

Release(m) ==
  /\ wpc[m] = "release"
  /\ Goto(m, "none")
  /\ wdone' = [wdone EXCEPT ![m] = 0]
  /\ wres' = [wres EXCEPT ![m] = accepted]
  /\ busy' = FALSE
  /\ UNCHANGED <<clockVars, service, journal, rxVars, admitted, writes, published>>

Execute(m) ==
  \/ Announce(m) \/ CheckExpiry(m) \/ Gate(m) \/ RecordIntent(m) \/ Recheck(m)
  \/ Dispatch(m) \/ RunQuery(m) \/ Observe(m)
  \/ Settle(m) \/ PublishResult(m) \/ Release(m)

-----------------------------------------------------------------------------
(* The life of the service. *)

NoWorker == \A m \in Message : wpc[m] = "none"

(* close(): stop admission under the lock ... *)
BeginClose ==
  /\ service = "open"
  /\ ~ HoldsAdmission
  /\ service' = "closing"
  /\ UNCHANGED <<clockVars, journal, busy, rxVars, workerVars, admitted, writes, published>>

(* ... then join the worker and close the journal. *)
JoinWorker ==
  /\ service = "closing"
  /\ NoWorker
  /\ service' = "closed"
  /\ UNCHANGED <<clockVars, journal, busy, rxVars, workerVars, admitted, writes, published>>

(* Mutant: the loop is stopped only between two callbacks. *)
StopLoopWhenIdle ==
  /\ service = "closed"
  /\ rpc = "idle"
  /\ service' = "stopping"
  /\ UNCHANGED <<clockVars, journal, busy, rxVars, workerVars, admitted, writes, published>>

(* publisher.close() stops the MQTT loop and joins its thread.  The sources *)
(* are stopped and joined before it, in a time nothing bounds               *)
(* (cli.py:275-278): that wait is a step of SourceSession.                  *)
StopLoop ==
  /\ service = "closed"
  /\ service' = "stopping"
  /\ UNCHANGED <<clockVars, journal, busy, rxVars, workerVars, admitted, writes, published>>

LoopStopped ==
  /\ service = "stopping"
  /\ rpc = "idle"
  /\ service' = "down"
  /\ UNCHANGED <<clockVars, journal, busy, rxVars, workerVars, admitted, writes, published>>

(* The process dies: only the committed rows survive. *)
Crash ==
  /\ service # "down"
  /\ service' = "down"
  /\ Return
  /\ busy' = FALSE
  /\ wpc' = [m \in Message |-> "none"]
  /\ wdone' = [m \in Message |-> 0]
  /\ wres' = [m \in Message |-> accepted]
  /\ UNCHANGED <<clockVars, journal, admitted, writes, published>>

(* RequestJournal.__init__ of the next session, one transaction. *)
Recover ==
  /\ service = "down"
  /\ service' = "open"
  /\ journal' = [i \in Retained |-> interrupted(journal[i])]
  /\ UNCHANGED <<clockVars, busy, rxVars, workerVars, admitted, writes, published>>

Tick ==
  /\ clock < MaxClock
  /\ clock' = clock + 1
  /\ latest' = IF clock + 1 > latest THEN clock + 1 ELSE latest
  /\ UNCHANGED <<service, journal, busy, rxVars, workerVars, admitted, writes, published>>

(* The wall clock is corrected backwards. *)
SetBack ==
  /\ \E t \in 0 .. clock : t < clock /\ t + MaxSetback >= latest /\ clock' = t
  /\ UNCHANGED <<latest, service, journal, busy, rxVars, workerVars, admitted, writes, published>>

-----------------------------------------------------------------------------
(* A first start on an empty journal. *)
Init ==
  /\ clock = 0
  /\ latest = 0
  /\ service = "open"
  /\ journal = [i \in {} |-> accepted]
  /\ busy = FALSE
  /\ rpc = "idle"
  /\ rmsg = NoMessage
  /\ rfound = accepted
  /\ wpc = [m \in Message |-> "none"]
  /\ wdone = [m \in Message |-> 0]
  /\ wres = [m \in Message |-> accepted]
  /\ admitted = {}
  /\ writes = [m \in Message |-> [i \in 1 .. Steps[m] |-> 0]]
  /\ published = {}

NetworkThread == Lookup \/ Replay \/ Admit \/ Prepare \/ Reserve \/ StartWorker \/ Reject

Shutdown == JoinWorker \/ StopLoop \/ LoopStopped

Next ==
  \/ \E m \in Message : Receive(m)
  \/ NetworkThread
  \/ \E m \in Message : Execute(m)
  \/ BeginClose
  \/ Shutdown
  \/ Crash
  \/ Recover
  \/ Tick
  \/ SetBack

Spec == Init /\ [][Next]_vars

(* Threads that can take a step take it: every call of the worker is bounded *)
(* by a timeout, the callback never blocks on the worker, and the main thread *)
(* runs its shutdown sequence to the end.                                     *)
Fairness ==
  /\ WF_vars(NetworkThread)
  /\ \A m \in Message : WF_vars(Execute(m))
  /\ WF_vars(Shutdown)

FairSpec == Spec /\ Fairness
-----------------------------------------------------------------------------
(* Properties. *)

ReceivePlaces == {"idle", "lookup", "replay", "admit", "prepare", "reserve", "start", "reject"}

ExecutePlaces == {"none", "announce", "check", "gate", "intent", "recheck", "dispatch",
                  "query", "observe", "settle", "publish", "release"}

(* Every variable has its type. *)
TypeOK ==
  /\ clock \in 0 .. MaxClock
  /\ latest \in 0 .. MaxClock
  /\ service \in {"open", "closing", "closed", "stopping", "down"}
  /\ journal \in [DOMAIN journal -> Row]
  /\ DOMAIN journal \subseteq Ident
  /\ busy \in BOOLEAN
  /\ rpc \in ReceivePlaces
  /\ rmsg \in Message \cup {NoMessage}
  /\ rfound \in Result
  /\ wpc \in [Message -> ExecutePlaces]
  /\ wdone \in [Message -> Nat]
  /\ wres \in [Message -> Result]
  /\ admitted \subseteq Message
  /\ writes = [m \in Message |-> writes[m]]
  /\ \A m \in Message : writes[m] \in [1 .. Steps[m] -> Nat]
  /\ published \subseteq [msg : Message, res : Result]

(* The first k steps of m were entered once each, the others never. *)
WroteFirst(m, k) ==
  \A i \in 1 .. Steps[m] : writes[m][i] = IF i <= k THEN 1 ELSE 0

(* No step of a request enters the hardware path twice or out of order,     *)
(* however often the request is delivered, across worker failures, crashes, *)
(* restarts and the cleanup of the journal (CoachCommandService._execute).  *)
AtMostOnce ==
  \A m \in Message : \E k \in 0 .. Steps[m] : WroteFirst(m, k)

(* What a result tells a controller about the hardware is true: not_started *)
(* means no step, dispatched every step, partial exactly the steps counted, *)
(* and unknown at least the steps counted.                                  *)
Honest(m, res) ==
  \/ /\ res.outcome = "not_started"
     /\ WroteFirst(m, 0)
  \/ /\ res.outcome = "dispatched"
     /\ WroteFirst(m, Steps[m])
  \/ /\ res.outcome = "partial"
     /\ res.done \in 1 .. Steps[m] - 1
     /\ WroteFirst(m, res.done)
  \/ /\ res.outcome = "unknown"
     /\ \E k \in res.done .. Steps[m] : WroteFirst(m, k)

Terminal(res) == res.status # "accepted"

(* Every terminal result that reached the result topic from the journal or  *)
(* the worker is honest, and stays so: nothing is written after it.         *)
PublishedHonest ==
  \A p \in published : Terminal(p.res) => Honest(p.msg, p.res)

(* If the process died now, the results RequestJournal.__init__ would leave *)
(* in the journal are honest: intent is durable before the first write, and *)
(* a terminal row already tells the truth.                                  *)
CrashHonest ==
  \A i \in DOMAIN journal : Honest(journal[i].msg, interrupted(journal[i]).res)

(* A controller is told `accepted` before anything is written, so a request *)
(* whose admission could not be published never moves hardware.             *)
AnnouncedBeforeWrite ==
  \A m \in Message :
    ~ WroteFirst(m, 0) => [msg |-> m, res |-> accepted] \in published

(* The single execution slot is claimed exactly while somebody owns it: a   *)
(* second plan never runs beside the first, and no error path leaks the     *)
(* slot, which would answer `busy` for ever.                                *)
SlotOwned ==
  LET claimed   == rpc \in {"prepare", "reserve", "start"}
      active(m) == wpc[m] # "none"
  IN /\ \A m, n \in Message : active(m) /\ active(n) => m = n
     /\ ~ (claimed /\ \E m \in Message : active(m))
     /\ busy <=> (claimed \/ \E m \in Message : active(m))

(* The row of an executing request stays in the journal as its own, so the  *)
(* UPDATE of save never misses: cleanup and other requests cannot take it.  *)
ExecutingIsJournaled ==
  \A m \in Message : wpc[m] # "none" => Recorded(m)

(* An admitted request whose row was cleaned up has expired for good, as    *)
(* long as the clock is not set back by more than the retention.            *)
CleanedUpIsExpired ==
  \A m \in admitted :
    ~ Recorded(m) => Expired(m)

(* A terminal result in the journal is final until its row is cleaned up:   *)
(* no late save of the worker and no recovery rewrites it.                  *)
TerminalIsFinal ==
  [][\A i \in DOMAIN journal \cap DOMAIN journal' :
        Terminal(journal[i].res) => journal'[i] = journal[i]]_vars

(* Whoever claims the slot gives it back: every path through receive and    *)
(* _execute, failures included, ends in a release.                          *)
SlotFreed == busy ~> ~ busy

(* close() and the teardown that follows it complete although controllers   *)
(* keep sending requests.                                                   *)
ShutdownCompletes == service = "closing" ~> service = "down"

(* docs/COACH-MQTT-COMMANDS.md: "An identical duplicate gets the last result *)
(* without executing again", and only new work is refused during shutdown:   *)
(* while close() waits for the worker, a duplicate is not rejected.          *)
DuplicateAnsweredWhileClosing ==
  [][rpc = "lookup" /\ service = "closing" /\ Recorded(rmsg) => rpc' # "reject"]_vars

(* docs/COACH-MQTT-COMMANDS.md: "An identical duplicate gets the last       *)
(* result": once the terminal result of a request was told, a duplicate is  *)
(* not answered with an older one.                                          *)
DuplicateGetsLastResult ==
  [][/\ rpc = "replay" /\ rpc' = "idle" /\ service' = service
     /\ \E p \in published : p.msg = rmsg /\ Terminal(p.res)
     => Terminal(rfound)]_vars
-----------------------------------------------------------------------------
(* The service implements the ledger a controller may rely on. *)

MayWrite(m) ==
  \/ rpc = "start" /\ rmsg = m
  \/ wpc[m] \in {"announce", "check", "gate", "intent", "recheck", "dispatch"}

Ledger == INSTANCE CommandLedger WITH
  phase <- [m \in Message |->
              CASE m \notin admitted -> "new"
                [] MayWrite(m)       -> "running"
                [] OTHER             -> "settled"]

(* Threads, crashes, redelivery and clock corrections included, every       *)
(* behaviour of the service is one of the ledger's.                         *)
ImplementsLedger == Ledger!Spec
=============================================================================
