----------------------------- MODULE MqttTarget -----------------------------
(***************************************************************************)
(* The MQTT target of targets/mqtt.py: its session with the broker, the    *)
(* topics restored after every connection, the bounded queue of source     *)
(* commands with its one worker, and close.                                *)
(*                                                                         *)
(* paho's network thread runs the callbacks one at a time while its loop   *)
(* runs and reconnects by itself with a clean session: the broker keeps    *)
(* nothing of a broken one.  Payloads and topics other than those of       *)
(* source commands and coach requests are left out.                        *)
(***************************************************************************)
EXTENDS Naturals, Sequences

CONSTANTS
  MaxQueue,     (* COMMAND_QUEUE_SIZE (64 in the code)                     *)
  MaxCommands,  (* bound of the model: source commands ever received       *)
  MaxLosses     (* bound of the model: connections of the target ever lost *)

ASSUME TargetAssumption == MaxQueue \in Nat \ {0} /\ MaxCommands \in Nat /\ MaxLosses \in Nat

VARIABLES
  life,      (* running, then the places of close, then closed              *)
  link,      (* the session: down, up, lost until the callback has run      *)
  ready,     (* the Event `connected`                                       *)
  topics,    (* at the broker: none, asked (SUBSCRIBE under way), active    *)
  queue,     (* _command_queue: commands and the None that stops the worker *)
  worker,    (* _command_worker: idle, busy in the handler, gone            *)
  commands,  (* source commands received so far                             *)
  losses     (* connections lost so far                                     *)

sessionVars == <<link, ready, topics, losses>>
workerVars  == <<queue, worker, commands>>
targetVars  == <<life, sessionVars, workerVars>>

TargetInit ==
  /\ life = "running"
  /\ link = "down"
  /\ ready = FALSE
  /\ topics = "none"
  /\ queue = <<>>
  /\ worker = "idle"
  /\ commands = 0
  /\ losses = 0

(* The network thread runs callbacks until loop_stop. *)
Looping == life = "running"

-----------------------------------------------------------------------------
(* The session with the broker. *)

(* Mutant: topics are subscribed by the first connection only. *)
MutOnConnect ==
  /\ Looping
  /\ link = "down"
  /\ link' = "up"
  /\ ready' = TRUE
  /\ topics' = IF losses = 0 THEN "asked" ELSE "none"
  /\ UNCHANGED <<life, losses, workerVars>>

(* Every accepted connection asks for all enabled topics again. *)
OnConnect ==
  /\ Looping
  /\ link = "down"
  /\ link' = "up"
  /\ ready' = TRUE
  /\ topics' = "asked"
  /\ UNCHANGED <<life, losses, workerVars>>

OnRefused ==
  /\ Looping
  /\ link = "down"
  /\ ready' = FALSE
  /\ UNCHANGED <<life, link, topics, losses, workerVars>>

BrokerSubscribes ==
  /\ topics = "asked"
  /\ topics' = "active"
  /\ UNCHANGED <<life, link, ready, losses, workerVars>>

LoseLink ==
  /\ link = "up"
  /\ losses < MaxLosses
  /\ losses' = losses + 1
  /\ link' = "lost"
  /\ topics' = "none"
  /\ UNCHANGED <<life, ready, workerVars>>

OnDisconnect ==
  /\ Looping
  /\ link = "lost"
  /\ link' = "down"
  /\ ready' = FALSE
  /\ UNCHANGED <<life, topics, losses, workerVars>>

(* publish_result gives up at once when not ready; a ready target may have *)
(* lost its session already, and nothing is acknowledged once the loop has *)
(* stopped.                                                                *)
Reaches == ready /\ link = "up"
Acknowledged == Reaches /\ Looping

-----------------------------------------------------------------------------
(* Source commands: _on_message and _process_commands. *)

(* Mutant: the queue has no limit. *)
MutOnCommand ==
  /\ Looping
  /\ topics = "active"
  /\ commands < MaxCommands
  /\ commands' = commands + 1
  /\ queue' = Append(queue, "command")
  /\ UNCHANGED <<life, sessionVars, worker>>

(* A command that finds the queue full is dropped. *)
OnCommand ==
  /\ Looping
  /\ topics = "active"
  /\ commands < MaxCommands
  /\ commands' = commands + 1
  /\ queue' = IF Len(queue) < MaxQueue THEN Append(queue, "command") ELSE queue
  /\ UNCHANGED <<life, sessionVars, worker>>

TakeCommand ==
  /\ worker = "idle"
  /\ queue # <<>>
  /\ worker' = IF Head(queue) = "stop" THEN "gone" ELSE "busy"
  /\ queue' = Tail(queue)
  /\ UNCHANGED <<life, sessionVars, commands>>

(* Mutant: a handler that raises takes the worker with it. *)
MutFinishCommand ==
  /\ worker = "busy"
  /\ worker' \in {"idle", "gone"}
  /\ UNCHANGED <<life, sessionVars, queue, commands>>

(* The handler returns or raises: the worker goes on. *)
FinishCommand ==
  /\ worker = "busy"
  /\ worker' = "idle"
  /\ UNCHANGED <<life, sessionVars, queue, commands>>

-----------------------------------------------------------------------------
(* close: the loop, the session, then the worker. *)

LoopStop ==
  /\ Looping
  /\ life' = "disconnect"
  /\ UNCHANGED <<sessionVars, workerVars>>

(* No callback runs any more: `connected` stays as it was. *)
Disconnect ==
  /\ life = "disconnect"
  /\ life' = "sentinel"
  /\ link' = "down"
  /\ topics' = "none"
  /\ UNCHANGED <<ready, losses, workerVars>>

(* queue.put(None) waits for room. *)
PutSentinel ==
  /\ life = "sentinel"
  /\ Len(queue) < MaxQueue
  /\ life' = "join"
  /\ queue' = Append(queue, "stop")
  /\ UNCHANGED <<sessionVars, worker, commands>>

JoinWorker ==
  /\ life = "join"
  /\ worker = "gone"
  /\ life' = "closed"
  /\ UNCHANGED <<sessionVars, workerVars>>

Close == Disconnect \/ PutSentinel \/ JoinWorker

TargetNext ==
  \/ OnConnect \/ OnRefused \/ BrokerSubscribes \/ LoseLink \/ OnDisconnect
  \/ OnCommand \/ TakeCommand \/ FinishCommand \/ LoopStop \/ Close

TargetTypeOK ==
  /\ life \in {"running", "disconnect", "sentinel", "join", "closed"}
  /\ link \in {"down", "up", "lost"}
  /\ ready \in BOOLEAN
  /\ topics \in {"none", "asked", "active"}
  /\ queue \in Seq({"command", "stop"}) /\ Len(queue) <= MaxQueue
  /\ worker \in {"idle", "busy", "gone"}
  /\ commands \in 0 .. MaxCommands
  /\ losses \in 0 .. MaxLosses

(* Whatever was lost before, a target that calls itself connected to a     *)
(* live session has its request topics there or is asking for them         *)
(* (_on_connect; no restart is needed after a broken connection).          *)
SubscriptionsRecover == ready /\ link = "up" => topics # "none"

(* close returns, even with a full queue and handlers that raise, and every *)
(* command queued before it was handed to its source: the loop is stopped   *)
(* before the sentinel is queued, and the worker outlives its handlers.     *)
TargetCloses == life = "disconnect" ~> life = "closed" /\ queue = <<>>
=============================================================================
