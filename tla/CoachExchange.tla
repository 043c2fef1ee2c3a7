--------------------------- MODULE CoachExchange ---------------------------
(***************************************************************************)
(* One request of the MQTT client of coach_mqtt_client.py, from connect to *)
(* its report, against the broker, the MQTT target and the command service *)
(* as CommandLedger promises it.                                           *)
(*                                                                         *)
(* exchange runs in the main thread of the tool; the callbacks run in      *)
(* paho's network thread, which reconnects by itself with a clean session  *)
(* and sends a request again that the broker has not acknowledged.  The    *)
(* tool derives its result topic from a request identity no other request  *)
(* uses, so only the results of this request arrive there.                 *)
(***************************************************************************)
EXTENDS MqttTarget

CONSTANT MaxDrops  (* bound of the model: connections of the client ever lost *)

ASSUME ExchangeAssumption == MaxDrops \in Nat

VARIABLES
  pc,          (* where exchange is                                         *)
  conn,        (* the client's session: none, down, up, lost                *)
  connected,   (* the Events of the client                                  *)
  subscribed,
  received,
  failure,     (* _failure is set                                           *)
  mid,         (* _subscribe_mid has been stored                            *)
  suback,      (* _suback_results of that mid: none, granted, refused       *)
  answer,      (* status of _result, or none                                *)
  report,      (* what the tool tells its user                              *)
  held,        (* paho holds the request until the broker acknowledges it   *)
  delivered,   (* is_published                                              *)
  drops,       (* connections of the client lost so far                     *)
  route,       (* at the broker: none, asked, active (the result topic)     *)
  toBroker,    (* copies of the request under way to the broker             *)
  toService,   (* copies under way from the broker to the target            *)
  toClient,    (* statuses under way to the client, in order                *)
  told,        (* history: terminal statuses that reached the broker        *)
  record,      (* the journal's row of the request: a status, or none       *)
  work,        (* the worker: none, announce, dispatch, settle              *)
  executed     (* history: the hardware path was entered                    *)

clientVars  == <<pc, connected, subscribed, received, failure, mid, suback, answer, report>>
linkVars    == <<conn, held, delivered, drops>>
brokerVars  == <<route, toBroker, toService, toClient, told>>
serviceVars == <<record, work, executed>>
vars == <<targetVars, clientVars, linkVars, brokerVars, serviceVars>>

Terminal == {"completed", "rejected", "failed"}
Status   == Terminal \cup {"accepted"}

Init ==
  /\ TargetInit
  /\ pc = "connect" /\ conn = "none"
  /\ connected = FALSE /\ subscribed = FALSE /\ received = FALSE /\ failure = FALSE
  /\ mid = FALSE /\ suback = "none"
  /\ answer = "none" /\ report = "none"
  /\ held = FALSE /\ delivered = FALSE /\ drops = 0
  /\ route = "none" /\ toBroker = 0 /\ toService = 0 /\ toClient = <<>> /\ told = {}
  /\ record = "none" /\ work = "none" /\ executed = FALSE

-----------------------------------------------------------------------------
(* exchange, the main thread of the tool. *)

(* An exception leaves for the finally clause.  Before publish was called *)
(* the user may trust that nothing was sent; later the outcome is open.   *)
Fail(kind) ==
  /\ pc' = "stop"
  /\ report' = kind

Connect ==
  /\ pc = "connect"
  /\ \/ pc' = "awaitConnected" /\ conn' = "down" /\ UNCHANGED report
     \/ Fail("unsent") /\ UNCHANGED conn
  /\ UNCHANGED <<targetVars, connected, subscribed, received, failure, mid, suback, answer,
                 held, delivered, drops, brokerVars, serviceVars>>

AwaitConnected ==
  /\ pc = "awaitConnected"
  /\ connected
  /\ IF failure
     THEN Fail("unsent")
     ELSE pc' = "subscribe" /\ UNCHANGED report
  /\ UNCHANGED <<targetVars, connected, subscribed, received, failure, mid, suback, answer,
                 linkVars, brokerVars, serviceVars>>

(* subscribe fails when the session is gone already. *)
Subscribe ==
  /\ pc = "subscribe"
  /\ IF conn = "up"
     THEN pc' = "storeMid" /\ route' = "asked" /\ UNCHANGED report
     ELSE Fail("unsent") /\ UNCHANGED route
  /\ UNCHANGED <<targetVars, connected, subscribed, received, failure, mid, suback, answer,
                 linkVars, toBroker, toService, toClient, told, serviceVars>>

(* Mutant: an acknowledgement that came before its number was stored is missed. *)
MutStoreMid ==
  /\ pc = "storeMid"
  /\ pc' = "awaitSubscribed"
  /\ mid' = TRUE
  /\ UNCHANGED <<targetVars, connected, subscribed, failure, received, suback, answer, report,
                 linkVars, brokerVars, serviceVars>>

(* The acknowledgement may be there before its number is known. *)
StoreMid ==
  /\ pc = "storeMid"
  /\ pc' = "awaitSubscribed"
  /\ mid' = TRUE
  /\ subscribed' = (subscribed \/ suback # "none")
  /\ failure' = (failure \/ suback = "refused")
  /\ UNCHANGED <<targetVars, connected, received, suback, answer, report,
                 linkVars, brokerVars, serviceVars>>

(* Mutant: the request is published without waiting for the SUBACK. *)
MutAwaitSubscribed ==
  /\ pc = "awaitSubscribed"
  /\ IF failure
     THEN Fail("unsent")
     ELSE pc' = "publish" /\ UNCHANGED report
  /\ UNCHANGED <<targetVars, connected, subscribed, received, failure, mid, suback, answer,
                 linkVars, brokerVars, serviceVars>>

AwaitSubscribed ==
  /\ pc = "awaitSubscribed"
  /\ subscribed
  /\ IF failure
     THEN Fail("unsent")
     ELSE pc' = "publish" /\ UNCHANGED report
  /\ UNCHANGED <<targetVars, connected, subscribed, received, failure, mid, suback, answer,
                 linkVars, brokerVars, serviceVars>>

(* An envelope that is too large is never handed over; one handed over    *)
(* without a session is held by paho, and exchange raises.                *)
Publish ==
  /\ pc = "publish"
  /\ \/ /\ conn = "up"
        /\ pc' = "awaitDelivered"
        /\ held' = TRUE
        /\ toBroker' = toBroker + 1
        /\ UNCHANGED report
     \/ /\ conn # "up"
        /\ Fail("unknown")
        /\ held' = TRUE
        /\ UNCHANGED toBroker
     \/ /\ Fail("unsent")
        /\ UNCHANGED <<held, toBroker>>
  /\ UNCHANGED <<targetVars, connected, subscribed, received, failure, mid, suback, answer,
                 conn, delivered, drops, route, toService, toClient, told, serviceVars>>

AwaitDelivered ==
  /\ pc = "awaitDelivered"
  /\ delivered
  /\ pc' = "awaitResult"
  /\ UNCHANGED <<targetVars, connected, subscribed, received, failure, mid, suback, answer, report,
                 linkVars, brokerVars, serviceVars>>

(* A failure wins over a result that has arrived. *)
AwaitResult ==
  /\ pc = "awaitResult"
  /\ received
  /\ Fail(IF failure \/ answer = "none" THEN "unknown" ELSE answer)
  /\ UNCHANGED <<targetVars, connected, subscribed, received, failure, mid, suback, answer,
                 linkVars, brokerVars, serviceVars>>

(* Mutant: wait_for_publish has no timeout. *)
MutTimeout ==
  /\ pc \in {"awaitConnected", "awaitSubscribed", "awaitResult"}
  /\ Fail(IF pc \in {"awaitConnected", "awaitSubscribed"} THEN "unsent" ELSE "unknown")
  /\ UNCHANGED <<targetVars, connected, subscribed, received, failure, mid, suback, answer,
                 linkVars, brokerVars, serviceVars>>

(* _remaining: the one deadline of all waits has passed. *)
Timeout ==
  /\ pc \in {"awaitConnected", "awaitSubscribed", "awaitDelivered", "awaitResult"}
  /\ Fail(IF pc \in {"awaitConnected", "awaitSubscribed"} THEN "unsent" ELSE "unknown")
  /\ UNCHANGED <<targetVars, connected, subscribed, received, failure, mid, suback, answer,
                 linkVars, brokerVars, serviceVars>>

(* finally: the loop is joined, then the session ends. *)
Stop ==
  /\ pc = "stop"
  /\ pc' = "ended"
  /\ received' = TRUE
  /\ conn' = "none"
  /\ route' = "none"
  /\ toClient' = <<>>
  /\ UNCHANGED <<targetVars, connected, subscribed, failure, mid, suback, answer, report,
                 held, delivered, drops, toBroker, toService, told, serviceVars>>

Exchange ==
  \/ Connect \/ AwaitConnected \/ Subscribe \/ StoreMid \/ AwaitSubscribed
  \/ Publish \/ AwaitDelivered \/ AwaitResult \/ Timeout \/ Stop

-----------------------------------------------------------------------------
(* The callbacks of the client, and its session with the broker. *)

(* _set_failure releases every wait. *)
SetFailure ==
  /\ failure' = TRUE
  /\ connected' = TRUE
  /\ subscribed' = TRUE
  /\ received' = TRUE

ClientOnConnect ==
  /\ conn = "down"
  /\ \/ /\ conn' = "up"
        /\ connected' = TRUE
        /\ toBroker' = toBroker + IF held THEN 1 ELSE 0
        /\ UNCHANGED <<subscribed, received, failure>>
     \/ /\ SetFailure
        /\ UNCHANGED <<conn, toBroker>>
  /\ UNCHANGED <<targetVars, pc, mid, suback, answer, report, held, delivered, drops,
                 route, toService, toClient, told, serviceVars>>

(* _on_subscribe, with the verdict of the broker. *)
OnSubscribe ==
  /\ route = "asked"
  /\ conn = "up"
  /\ suback' \in {"granted", "refused"}
  /\ route' = IF suback' = "granted" THEN "active" ELSE "none"
  /\ subscribed' = (subscribed \/ mid)
  /\ failure' = (failure \/ (mid /\ suback' = "refused"))
  /\ UNCHANGED <<targetVars, pc, connected, received, mid, answer, report, linkVars,
                 toBroker, toService, toClient, told, serviceVars>>

OnMessage ==
  /\ conn = "up"
  /\ toClient # <<>>
  /\ toClient' = Tail(toClient)
  /\ IF Head(toClient) \in Terminal
     THEN answer' = Head(toClient) /\ received' = TRUE
     ELSE UNCHANGED <<answer, received>>
  /\ UNCHANGED <<targetVars, pc, connected, subscribed, failure, mid, suback, report, linkVars,
                 route, toBroker, toService, told, serviceVars>>

OnPublish ==
  /\ conn = "up"
  /\ held
  /\ toBroker = 0
  /\ held' = FALSE
  /\ delivered' = TRUE
  /\ UNCHANGED <<targetVars, clientVars, conn, drops, brokerVars, serviceVars>>

(* What was under way on a broken connection is lost or, towards the *)
(* broker, may have got through.                                     *)
Drop ==
  /\ conn = "up"
  /\ drops < MaxDrops
  /\ drops' = drops + 1
  /\ conn' = "lost"
  /\ route' = "none"
  /\ toClient' = <<>>
  /\ toBroker' \in 0 .. toBroker
  /\ UNCHANGED <<targetVars, clientVars, held, delivered, toService, told, serviceVars>>

(* Mutant: a lost connection is only noted. *)
MutClientOnDisconnect ==
  /\ conn = "lost"
  /\ conn' = "down"
  /\ UNCHANGED <<targetVars, connected, subscribed, received, failure, pc, mid, suback, answer, report,
                 held, delivered, drops, brokerVars, serviceVars>>

ClientOnDisconnect ==
  /\ conn = "lost"
  /\ conn' = "down"
  /\ SetFailure
  /\ UNCHANGED <<targetVars, pc, mid, suback, answer, report, held, delivered, drops,
                 brokerVars, serviceVars>>

Callbacks == ClientOnConnect \/ OnSubscribe \/ OnMessage \/ OnPublish \/ ClientOnDisconnect

-----------------------------------------------------------------------------
(* The broker and the command service. *)

(* A request nobody is subscribed to is acknowledged and forgotten. *)
Forward ==
  /\ toBroker > 0
  /\ toBroker' = toBroker - 1
  /\ toService' = toService + IF topics = "active" THEN 1 ELSE 0
  /\ UNCHANGED <<targetVars, clientVars, linkVars, route, toClient, told, serviceVars>>

Relay(status) ==
  /\ told' = told \cup ({status} \cap Terminal)
  /\ toClient' = IF route = "active" THEN Append(toClient, status) ELSE toClient

(* A reply without waiting: it arrives or it is lost. *)
Reply(status) ==
  \/ Reaches /\ Relay(status)
  \/ UNCHANGED <<told, toClient>>

(* receive: the recorded result again, a rejection, or admission.  A copy *)
(* is rejected, too, while the service closes or cannot read its journal. *)
Receive ==
  /\ Looping
  /\ toService > 0
  /\ topics = "active"
  /\ toService' = toService - 1
  /\ \/ record # "none" /\ Reply(record) /\ UNCHANGED <<record, work>>
     \/ Reply("rejected") /\ UNCHANGED <<record, work>>
     \/ /\ record = "none"
        /\ record' = "accepted"
        /\ work' = "announce"
        /\ UNCHANGED <<told, toClient>>
  /\ UNCHANGED <<targetVars, clientVars, linkVars, route, toBroker, executed>>

Announce ==
  /\ work = "announce"
  /\ \/ work' = "dispatch" /\ Acknowledged /\ Relay("accepted") /\ UNCHANGED record
     \/ work' = "settle" /\ record' = "rejected" /\ Reply("accepted")
  /\ UNCHANGED <<targetVars, clientVars, linkVars, route, toBroker, toService, executed>>

Dispatch ==
  /\ work = "dispatch"
  /\ work' = "settle"
  /\ \/ record' = "rejected" /\ UNCHANGED executed
     \/ record' \in {"completed", "failed"} /\ executed' = TRUE
  /\ UNCHANGED <<targetVars, clientVars, linkVars, brokerVars>>

(* The terminal result is recorded, then published; either may fail. *)
Settle ==
  /\ work = "settle"
  /\ work' = "none"
  /\ Reply(record)
  /\ UNCHANGED <<targetVars, clientVars, linkVars, route, toBroker, toService, record, executed>>

Service == Receive \/ Announce \/ Dispatch \/ Settle

(* The target's own steps; a session that ends takes its messages with it. *)
TargetStep ==
  /\ TargetNext
  /\ toService' = IF topics' = "active" THEN toService ELSE 0
  /\ UNCHANGED <<clientVars, linkVars, route, toBroker, toClient, told, serviceVars>>

(* The tool is gone; the target stays. *)
Done == pc = "ended" /\ UNCHANGED vars

Next == Exchange \/ Callbacks \/ Drop \/ Forward \/ Service \/ TargetStep \/ Done

Spec == Init /\ [][Next]_vars

-----------------------------------------------------------------------------
(* Fairness: the tool's main thread is scheduled and its deadline passes,  *)
(* the target's worker and the thread that closes it are scheduled.        *)
Fairness ==
  /\ WF_vars(Exchange)
  /\ WF_vars((TakeCommand \/ FinishCommand) /\ TargetStep)
  /\ WF_vars(Close /\ TargetStep)

FairSpec == Spec /\ Fairness

(* Every variable keeps its range; at most two copies of a request are under way. *)
TypeOK ==
  /\ TargetTypeOK
  /\ pc \in {"connect", "awaitConnected", "subscribe", "storeMid", "awaitSubscribed", "publish",
             "awaitDelivered", "awaitResult", "stop", "ended"}
  /\ conn \in {"none", "down", "up", "lost"}
  /\ {connected, subscribed, received, failure, mid, held, delivered, executed} \subseteq BOOLEAN
  /\ suback \in {"none", "granted", "refused"}
  /\ answer \in Terminal \cup {"none"}
  /\ report \in Terminal \cup {"none", "unsent", "unknown"}
  /\ drops \in 0 .. MaxDrops
  /\ route \in {"none", "asked", "active"}
  /\ toBroker \in 0 .. MaxDrops + 1
  /\ toService \in 0 .. MaxDrops + 1
  /\ toClient \in Seq(Status)
  /\ told \subseteq Terminal
  /\ record \in Status \cup {"none"}
  /\ work \in {"none", "announce", "dispatch", "settle"}

(* What the tool tells its user about the request is true and stays true:  *)
(* it was executed if reported completed, and never was nor will be if     *)
(* reported rejected or not sent (exchange; a duplicate of the request may *)
(* be rejected while the first copy is being executed, but only after a    *)
(* broken connection, which the tool reports instead).                     *)
HonestReport ==
  /\ report = "completed" => executed
  /\ report \in {"rejected", "unsent"} => ~ executed

(* While the connection holds, a terminal result that reached the broker   *)
(* is under way to the waiting tool or has arrived: the subscription was   *)
(* there before the request was sent (exchange, _on_subscribe).            *)
NothingMissed ==
  pc \in {"awaitDelivered", "awaitResult"} /\ drops = 0 /\ told # {} =>
    received \/ \E i \in DOMAIN toClient : toClient[i] \in Terminal

(* The acknowledgement of the subscription is noticed, whether it comes    *)
(* before or after exchange has stored the number it waits for.            *)
SubackNoticed == pc = "awaitSubscribed" /\ suback # "none" => subscribed

(* Whoever waits is told: the tool of its subscription and of the result,    *)
(* the target, whatever connections broke before, of later requests.         *)
EverybodyHears == SubackNoticed /\ NothingMissed /\ SubscriptionsRecover

(* Whatever is lost, refused or never answered, the tool ends with a report. *)
ExchangeEnds == pc = "connect" ~> pc = "ended" /\ report # "none"
=============================================================================
