----------------------------- MODULE BleSources -----------------------------
(***************************************************************************)
(* The Bluetooth sources of one adapter: a Renogy client (BaseClient.py    *)
(* and BLEManager.py under sources/renogybt), whose tasks interleave at    *)
(* every await of its event loop, Hughes watchdogs (hughes.py), and the    *)
(* scan and connect slots they share (bluetooth.py).                       *)
(*                                                                         *)
(* A connection attempt is made by the main task, the retry worker or the  *)
(* poll task.  Outside are the device and BlueZ: a device answers or not,  *)
(* a link drops at any time, a scan may raise (release_stale_connection    *)
(* never does), and releasing a link always succeeds although the call may *)
(* raise.  Only register reads are modelled, so a session is a chain of    *)
(* Sections requests; what the registers hold is left out.                 *)
(***************************************************************************)
EXTENDS Integers, FiniteSets

CONSTANTS
  Watchdogs, (* the Hughes sources of the adapter                              *)
  Sections,  (* register sections of one reading                               *)
  MaxRetry,  (* max_retry of the client                                        *)
  Managers,  (* names of BLEManager objects; bound: alive at the same time     *)
  NoManager  (* ble_manager is None                                            *)

ASSUME BleAssumption ==
  /\ Sections \in Nat \ {0} /\ MaxRetry \in Nat
  /\ NoManager \notin Managers
  /\ Watchdogs \cap {"main", "retry", "poll"} = {}

Task == {"main", "retry", "poll"}
Lock == {"scan", "connect"}

VARIABLES
  holder,     (* per slot who holds it: a set of at most one task, watchdog or thread *)
  blocked,    (* per slot the tasks and watchdogs whose helper thread waits for it    *)
  orphans,    (* per slot the waiting threads whose task was cancelled                *)
  persistent, (* persistent_connection                                                *)
  stop,       (* the stop event of the session                                        *)
  life,       (* of the client: running, closing, joining (its threads), ended        *)
  resolved,   (* _run_session waits no longer: its future is done, or connect() raised *)
  at,         (* where a task is, by the await it is in; idle: not started or done    *)
  mine,       (* the manager of a task's attempt                                      *)
  manager,    (* ble_manager                                                          *)
  link,       (* the manager whose client holds the link of the device, or NoManager  *)
  connecting, (* _connecting                                                          *)
  reason,     (* _retry_reason is not None                                            *)
  retries,    (* _retry_count                                                         *)
  timer,      (* read_timeout is armed                                                *)
  section,    (* section_index                                                        *)
  stray,      (* history: an unknown notification has cancelled the read timeout      *)
  killed,     (* history: a raising scan has ended the poll task, and no attempt since *)
  asked,      (* external: the device has a request to answer                         *)
  chain,      (* the read chain between sections: none, fresh or old (by generation)  *)
  waiting,    (* the poll timer: none, fresh or old (by generation)                   *)
  dropping,   (* the manager check_polling disconnects, or NoManager                  *)
  hughes      (* per watchdog: slot, connecting, live, backoff, ended                 *)

slotVars == <<holder, blocked, orphans>>
attemptVars == <<at, mine, manager, connecting, killed>>
readVars == <<timer, section, stray, asked, chain, waiting, dropping>>
clientVars == <<life, resolved, attemptVars, link, reason, retries, readVars>>
vars == <<slotVars, persistent, stop, clientVars, hughes>>

Running == life = "running"
Reconnecting == at["retry"] # "idle"
Attempting(t) == at[t] \in {"scan", "scanning", "connect", "connecting", "setup", "failed", "write"}
Old(x) == IF x = "fresh" THEN "old" ELSE x

-----------------------------------------------------------------------------
(* Requests and retries of the client, within the steps below. *)

Init ==
  /\ holder = [l \in Lock |-> {}] /\ orphans = [l \in Lock |-> {}]
  /\ blocked = [l \in Lock |-> IF l = "connect" THEN Watchdogs ELSE {"main"}]
  /\ persistent \in BOOLEAN /\ stop = FALSE
  /\ life = "running" /\ resolved = FALSE
  /\ at = [t \in Task |-> IF t = "main" THEN "scan" ELSE "idle"]
  /\ \E m \in Managers : mine = [t \in Task |-> m] /\ manager = m
  /\ connecting = TRUE /\ killed = FALSE /\ link = NoManager /\ reason = FALSE /\ retries = 0
  /\ timer = FALSE /\ section = 1 /\ stray = FALSE /\ asked = FALSE
  /\ chain = "none" /\ waiting = "none" /\ dropping = NoManager
  /\ hughes = [w \in Watchdogs |-> "slot"]

(* __schedule_retry while the client runs: `busy` is _connecting at that moment. *)
MutTrigger(places, busy) ==
  /\ reason' = TRUE
  /\ at' = IF ~Reconnecting THEN [places EXCEPT !["retry"] = "start"] ELSE places
Trigger(places, busy) ==
  /\ reason' = TRUE
  /\ at' = IF ~busy /\ ~Reconnecting THEN [places EXCEPT !["retry"] = "start"] ELSE places

(* The start of connect() by task t: a new generation, and a manager if there is none. *)
Attempt(t, poll) ==
  /\ connecting' = TRUE /\ killed' = FALSE /\ section' = 1
  /\ chain' = Old(chain) /\ waiting' = poll
  /\ \E m \in Managers \ {manager, link, dropping} :
       manager' = IF manager = NoManager THEN m ELSE manager
  /\ mine' = [mine EXCEPT ![t] = manager']
  /\ link' = NoManager /\ asked' = FALSE      (* release_stale_connection *)
  /\ at' = [at EXCEPT ![t] = "scan"]
  /\ blocked' = [blocked EXCEPT !["scan"] = @ \cup {t}]

(* The finally of connect(): a retained reason starts the retry worker, or another *)
(* round of it.                                                                    *)
MutEndAttempt(t, failing) == connecting' = FALSE /\ reason' = failing /\ at' = [at EXCEPT ![t] = "idle"]
EndAttempt(t, failing) ==
  /\ connecting' = FALSE
  /\ reason' = failing
  /\ LET places == [at EXCEPT ![t] = "idle"]
     IN at' = IF failing /\ (t = "retry" \/ ~Reconnecting) THEN [places EXCEPT !["retry"] = "start"] ELSE places

(* read_section: the request is written and the read timeout armed. *)
ReadSection(m) ==
  IF m = NoManager THEN UNCHANGED <<timer, stray, asked>>
  ELSE timer' = TRUE /\ stray' = FALSE /\ asked' = (link = m)

(* The context of a slot is left. *)
Release(l, t) == holder' = [holder EXCEPT ![l] = @ \ {t}]

-----------------------------------------------------------------------------
(* The slots: threading.Lock objects acquired by helper threads. *)

(* A thread gets the lock.  When its task was cancelled nobody will release it. *)
Grant(l) ==
  /\ holder[l] = {}
  /\ \/ \E t \in blocked[l] :
          /\ holder' = [holder EXCEPT ![l] = {t}]
          /\ blocked' = [blocked EXCEPT ![l] = @ \ {t}]
          /\ IF t \in Task
             THEN at' = [at EXCEPT ![t] = IF l = "scan" THEN "scanning" ELSE "connecting"] /\ UNCHANGED hughes
             ELSE hughes' = [hughes EXCEPT ![t] = "connecting"] /\ UNCHANGED at
          /\ UNCHANGED orphans
     \/ \E t \in orphans[l] :
          /\ holder' = [holder EXCEPT ![l] = {t}]
          /\ orphans' = [orphans EXCEPT ![l] = @ \ {t}]
          /\ UNCHANGED <<blocked, at, hughes>>
  /\ UNCHANGED <<persistent, stop, life, resolved, mine, manager, connecting, link, reason, retries, readVars, killed>>

-----------------------------------------------------------------------------
(* _connect_once *)

Scanned(t) ==
  /\ Running /\ at[t] = "scanning"
  /\ Release("scan", t)
  /\ \/ /\ manager = mine[t] (* the device is found *)
        /\ at' = [at EXCEPT ![t] = "connect"]
        /\ blocked' = [blocked EXCEPT !["connect"] = @ \cup {t}]
        /\ UNCHANGED <<connecting, reason>>
     \/ /\ EndAttempt(t, reason \/ manager = mine[t])
        /\ UNCHANGED blocked
  /\ UNCHANGED <<orphans, persistent, stop, life, resolved, mine, manager, link, retries, readVars, hughes, killed>>

(* Mutant: an exception of the retry worker does not stop the client. *)
MutEndsSession(t) == t = "main"
(* Whose exception stops the client. *)
EndsSession(t) == t # "poll"

(* BleakScanner.discover raises, and with it connect(): the main task leaves  *)
(* _run_session, the retry worker resolves the future; the poll task only ends. *)
ScanRaises(t) ==
  /\ Running /\ at[t] = "scanning"
  /\ Release("scan", t)
  /\ IF t = "retry"
     THEN connecting' = FALSE /\ at' = [at EXCEPT !["retry"] = "idle"] /\ UNCHANGED reason
     ELSE EndAttempt(t, reason)
  /\ resolved' = (resolved \/ EndsSession(t))
  /\ timer' = (timer /\ ~EndsSession(t))
  /\ killed' = (t = "poll")
  /\ UNCHANGED <<blocked, orphans, persistent, stop, life, mine, manager, link, retries, section, stray, asked,
                 chain, waiting, dropping, hughes>>

Connected(t) ==
  /\ Running /\ at[t] = "connecting"
  /\ Release("connect", t)
  /\ \E ok \in BOOLEAN :
       /\ link' = IF ok THEN mine[t] ELSE NoManager
       /\ at' = [at EXCEPT ![t] = IF ok THEN "setup" ELSE "failed"]
  /\ UNCHANGED <<blocked, orphans, persistent, stop, life, resolved, mine, manager, connecting, reason,
                 retries, readVars, hughes, killed>>

(* The characteristics are subscribed; the first section is requested. *)
SetUp(t) ==
  /\ Running /\ at[t] = "setup"
  /\ IF link # mine[t]
     THEN at' = [at EXCEPT ![t] = "failed"] /\ UNCHANGED <<connecting, reason, retries, timer, stray, asked>>
     ELSE IF manager # mine[t] \/ reason
     THEN EndAttempt(t, reason) /\ UNCHANGED <<retries, timer, stray, asked>>
     ELSE /\ retries' = 0 /\ ReadSection(manager)
          /\ at' = [at EXCEPT ![t] = "write"]
          /\ UNCHANGED <<connecting, reason>>
  /\ UNCHANGED <<slotVars, persistent, stop, life, resolved, mine, manager, link, section, chain, waiting,
                 dropping, hughes, killed>>

(* _release_client, then the connect_fail callback. *)
Failed(t) ==
  /\ Running /\ at[t] = "failed"
  /\ link' = NoManager /\ asked' = FALSE
  /\ EndAttempt(t, TRUE)
  /\ UNCHANGED <<slotVars, persistent, stop, life, resolved, mine, manager, retries, timer, section, chain,
                 waiting, dropping, hughes, stray, killed>>

(* The settle time of the write is over. *)
Written(t) ==
  /\ Running /\ at[t] = "write"
  /\ EndAttempt(t, reason)
  /\ UNCHANGED <<slotVars, persistent, stop, life, resolved, mine, manager, link, retries, readVars, hughes, killed>>

-----------------------------------------------------------------------------
(* The retry worker. *)

MutExhausted == retries > MaxRetry
Exhausted == retries >= MaxRetry

Round ==
  /\ Running /\ at["retry"] = "start"
  /\ reason' = FALSE /\ timer' = FALSE
  /\ IF Exhausted
     THEN /\ resolved' = TRUE
          /\ at' = [at EXCEPT !["retry"] = "idle"]
          /\ UNCHANGED <<retries, chain, waiting>>
     ELSE /\ retries' = retries + 1
          /\ chain' = Old(chain) /\ waiting' = "none"
          /\ at' = [at EXCEPT !["retry"] = IF manager = NoManager THEN "delay" ELSE "release"]
          /\ UNCHANGED resolved
  /\ UNCHANGED <<slotVars, persistent, stop, life, mine, manager, connecting, link, section, asked, dropping, hughes, stray, killed>>

(* The old manager is disconnected; if that raises the manager stays. *)
Released ==
  /\ Running /\ at["retry"] = "release"
  /\ link' = NoManager /\ asked' = FALSE
  /\ manager' \in {manager, NoManager}
  /\ at' = [at EXCEPT !["retry"] = "delay"]
  /\ UNCHANGED <<slotVars, persistent, stop, life, resolved, mine, connecting, reason, retries, timer,
                 section, chain, waiting, dropping, hughes, stray, killed>>

Reconnect ==
  /\ Running /\ at["retry"] = "delay"
  /\ reason' = FALSE
  /\ Attempt("retry", Old(waiting))
  /\ UNCHANGED <<holder, orphans, persistent, stop, life, resolved, retries, timer, dropping, hughes, stray>>

-----------------------------------------------------------------------------
(* Callbacks of the event loop. *)

(* on_read_timeout *)
ReadTimeout ==
  /\ Running /\ timer
  /\ timer' = FALSE
  /\ Trigger(at, connecting)
  /\ UNCHANGED <<slotVars, persistent, stop, life, resolved, mine, manager, connecting, link, retries,
                 section, asked, chain, waiting, dropping, hughes, stray, killed>>

(* External: the link drops.  _on_disconnected is silent during setup, for an *)
(* intentional disconnect and when the failure was reported before.           *)
Silent == \/ \E t \in Task : at[t] \in {"setup", "failed"} /\ mine[t] = link
          \/ dropping = link \/ at["retry"] = "release" \/ ~Running

Drop ==
  /\ link # NoManager
  /\ link' = NoManager /\ asked' = FALSE
  /\ IF Silent THEN UNCHANGED <<at, reason>> ELSE Trigger(at, connecting)
  /\ UNCHANGED <<slotVars, persistent, stop, life, resolved, mine, manager, connecting, retries, timer,
                 section, chain, waiting, dropping, hughes, stray, killed>>

(* on_data_received with an answer: the next section after a pause, or the end *)
(* of the reading and check_polling.                                           *)
MutAnswer ==
  /\ Running /\ asked /\ link # NoManager
  /\ timer' = FALSE /\ asked' = FALSE
  /\ section' = IF section < Sections THEN section + 1 ELSE 1
  /\ IF section < Sections THEN chain' = "fresh" /\ UNCHANGED waiting
     ELSE waiting' = "fresh" /\ UNCHANGED chain
  /\ UNCHANGED <<slotVars, persistent, stop, life, resolved, attemptVars, link, reason, retries, dropping, hughes, stray>>
Answer ==
  /\ Running /\ asked /\ link # NoManager
  /\ timer' = FALSE /\ asked' = FALSE
  /\ IF section < Sections
     THEN /\ section' = section + 1 /\ chain' = "fresh"
          /\ UNCHANGED <<manager, waiting, dropping>>
     ELSE /\ section' = 1
          /\ IF persistent \/ manager = NoManager
             THEN waiting' = "fresh" /\ UNCHANGED <<manager, dropping>>
             ELSE /\ waiting' = "none" /\ manager' = NoManager /\ dropping' = manager
          /\ UNCHANGED chain
  /\ UNCHANGED <<slotVars, persistent, stop, life, resolved, at, mine, connecting, link, reason, retries, hughes, stray, killed>>

(* on_data_received with anything else only cancels the read timeout. *)
Unknown ==
  /\ Running /\ link # NoManager
  /\ timer' = FALSE /\ stray' = (timer \/ stray)
  /\ UNCHANGED <<slotVars, persistent, stop, life, resolved, attemptVars, link, reason, retries, section,
                 asked, chain, waiting, dropping, hughes>>

(* The pause between two sections; a chain of an older generation ends. *)
NextSection ==
  /\ Running /\ chain # "none"
  /\ chain' = "none"
  /\ IF chain = "fresh" THEN ReadSection(manager) ELSE UNCHANGED <<timer, stray, asked>>
  /\ UNCHANGED <<slotVars, persistent, stop, life, resolved, attemptVars, link, reason, retries, section,
                 waiting, dropping, hughes>>

(* The disconnection between polls is over: the next poll is scheduled with the *)
(* generation of this moment.                                                   *)
Dropped ==
  /\ Running /\ dropping # NoManager
  /\ link' = IF link = dropping THEN NoManager ELSE link
  /\ asked' = (asked /\ link # dropping)
  /\ dropping' = NoManager /\ waiting' = "fresh"
  /\ UNCHANGED <<slotVars, persistent, stop, life, resolved, attemptVars, reason, retries, timer, section,
                 chain, hughes, stray>>

(* _poll_after_interval: the interval outlasts the settle time of a write. *)
PollDue ==
  /\ Running /\ waiting # "none" /\ \A t \in Task : at[t] # "write"
  /\ IF waiting = "old" \/ Reconnecting
     THEN waiting' = "none" /\ UNCHANGED <<blocked, attemptVars, link, section, asked, chain, timer, stray>>
     ELSE IF persistent /\ manager # NoManager
     THEN /\ waiting' = "none" /\ ReadSection(manager)
          /\ UNCHANGED <<blocked, attemptVars, link, section, chain>>
     ELSE Attempt("poll", "none") /\ UNCHANGED <<timer, stray>>
  /\ UNCHANGED <<holder, orphans, persistent, stop, life, resolved, reason, retries, dropping, hughes>>

-----------------------------------------------------------------------------
(* The end of _run_session. *)

StopSeen ==
  /\ Running /\ stop /\ ~resolved
  /\ resolved' = TRUE /\ timer' = FALSE
  /\ UNCHANGED <<slotVars, persistent, stop, life, attemptVars, link, reason, retries, section, asked, chain,
                 waiting, dropping, hughes, stray>>

(* Every task is cancelled: a held slot is released, but a thread that waits for *)
(* a slot cannot be cancelled.                                                   *)
Teardown ==
  /\ Running /\ resolved /\ at["main"] = "idle"
  /\ life' = "closing"
  /\ at' = [t \in Task |-> "idle"] /\ connecting' = FALSE
  /\ timer' = FALSE /\ chain' = "none" /\ waiting' = "none"
  /\ link' = IF link = dropping THEN NoManager ELSE link
  /\ dropping' = NoManager
  /\ asked' = FALSE
  /\ holder' = [l \in Lock |-> holder[l] \ Task]
  /\ blocked' = [l \in Lock |-> blocked[l] \ Task]
  /\ orphans' = [l \in Lock |-> blocked[l] \cap Task]
  /\ UNCHANGED <<persistent, stop, resolved, mine, manager, reason, retries, section, hughes, stray, killed>>

Close ==
  /\ life = "closing"
  /\ life' = "joining" /\ manager' = NoManager
  /\ link' = IF manager = NoManager THEN link ELSE NoManager
  /\ UNCHANGED <<slotVars, persistent, stop, resolved, at, mine, connecting, reason, retries, readVars, hughes, killed>>

(* asyncio.run waits for the helper threads. *)
Exit ==
  /\ life = "joining" /\ \A l \in Lock : orphans[l] = {}
  /\ life' = "ended"
  /\ UNCHANGED <<slotVars, persistent, stop, resolved, attemptVars, link, reason, retries, readVars, hughes>>

-----------------------------------------------------------------------------
(* A Hughes watchdog: reconnects with backoff, sees the stop event only there *)
(* and while its session lives.                                               *)

HughesStep(w) ==
  /\ \/ /\ hughes[w] = "connecting" /\ Release("connect", w)
        /\ \E next \in {"live", "backoff"} : hughes' = [hughes EXCEPT ![w] = next]
        /\ UNCHANGED blocked
     \/ /\ hughes[w] = "live"
        /\ hughes' = [hughes EXCEPT ![w] = IF stop THEN "ended" ELSE "backoff"]
        /\ UNCHANGED <<holder, blocked>>
     \/ /\ hughes[w] = "backoff" /\ stop
        /\ hughes' = [hughes EXCEPT ![w] = "ended"]
        /\ UNCHANGED <<holder, blocked>>
     \/ /\ hughes[w] = "backoff" /\ ~stop
        /\ hughes' = [hughes EXCEPT ![w] = "slot"]
        /\ blocked' = [blocked EXCEPT !["connect"] = @ \cup {w}]
        /\ UNCHANGED holder
  /\ UNCHANGED <<orphans, persistent, stop, clientVars>>

Stop == ~stop /\ stop' = TRUE /\ UNCHANGED <<slotVars, persistent, clientVars, hughes>>

ClientStep ==
  \/ \E t \in Task : Scanned(t) \/ ScanRaises(t) \/ Connected(t) \/ SetUp(t) \/ Failed(t) \/ Written(t)
  \/ Round \/ Released \/ Reconnect
  \/ ReadTimeout \/ NextSection \/ Dropped \/ PollDue
  \/ StopSeen \/ Teardown \/ Close \/ Exit
SlotStep == \E l \in Lock : Grant(l)

Next == ClientStep \/ SlotStep \/ Stop \/ Drop \/ Answer \/ Unknown \/ \E w \in Watchdogs : HughesStep(w)

Spec == Init /\ [][Next]_vars

-----------------------------------------------------------------------------
TypeOK ==
  /\ \A l \in Lock : Cardinality(holder[l]) <= 1 /\ holder[l] \cup blocked[l] \subseteq Task \cup Watchdogs
  /\ at \in [Task -> {"idle", "start", "release", "delay", "scan", "scanning", "connect", "connecting",
                      "setup", "failed", "write"}]
  /\ manager \in Managers \cup {NoManager} /\ link \in Managers \cup {NoManager}
  /\ retries \in 0 .. MaxRetry /\ section \in 1 .. Sections
  /\ chain \in {"none", "fresh", "old"} /\ waiting \in {"none", "fresh", "old"}

(* Failures that arrive during a setup, read timeouts, dropped links and polls *)
(* that fall due never start a second attempt beside the one under way.        *)
OneAttempt == Cardinality({t \in Task : Attempting(t)}) <= 1

(* What moves a client on: a task at work, a retry, a read timeout, a chain, *)
(* a poll or a disconnection of this session, or its end.                    *)
Driven ==
  \/ resolved \/ timer \/ chain = "fresh" \/ waiting = "fresh" \/ dropping # NoManager
  \/ \E t \in Task : at[t] # "idle"

(* A client that runs is never left without anything that will move it on.   *)
(* After an unknown notification, which has cancelled the read timeout, only *)
(* the answer still owed, or the loss of the link, moves the client on; and  *)
(* a scan that raised may have ended the poll task.                          *)
AlwaysDriven == Running => Driven \/ stray \/ killed

(* BaseClient.py:114: connect() discovers and connects, retrying according to *)
(* client policy.  Whatever discovery comes to, the client goes on or ends.   *)
ScanFailureIsHandled == Running => Driven \/ stray

(* A client that has ended holds no link, and a nonpersistent one none while it *)
(* only waits for its next poll.                                                *)
LinkReleased ==
  \/ life \in {"joining", "ended"}
  \/ ~persistent /\ ~resolved /\ waiting = "fresh" /\ ~timer /\ ~stray /\ chain = "none" /\ \A t \in Task : at[t] = "idle"
  => link = NoManager

(* A client has one connection at most, and none it does not use.             *)
OneLink == OneAttempt /\ LinkReleased

(* A slot is held by a task or a watchdog that is using it. *)
SlotIsReleased ==
  \A l \in Lock : \A t \in holder[l] :
    t \in Task => at[t] = (IF l = "scan" THEN "scanning" ELSE "connecting")
=============================================================================
