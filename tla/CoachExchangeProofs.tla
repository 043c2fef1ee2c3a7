------------------------ MODULE CoachExchangeProofs ------------------------
(***************************************************************************)
(* Proofs about CoachExchange for every queue size and every number of     *)
(* lost connections.  The argument for the report: nothing leaves the tool *)
(* before its publish, so a request that is reported as not sent is        *)
(* nowhere; as long as no failure is noted there is one copy of the        *)
(* request, so a rejection of it that comes without a row in the journal   *)
(* has used it up; and a delivered request is never sent again, so what    *)
(* was true when the report was made stays true.                           *)
(***************************************************************************)
EXTENDS CoachExchange, TLAPS

-----------------------------------------------------------------------------
(* The inductive invariant. *)

FlagsOK ==
  /\ connected \in BOOLEAN /\ subscribed \in BOOLEAN /\ received \in BOOLEAN /\ failure \in BOOLEAN
  /\ mid \in BOOLEAN /\ held \in BOOLEAN /\ delivered \in BOOLEAN /\ executed \in BOOLEAN

PlacesOK ==
  /\ pc \in {"connect", "awaitConnected", "subscribe", "storeMid", "awaitSubscribed", "publish",
             "awaitDelivered", "awaitResult", "stop", "ended"}
  /\ conn \in {"none", "down", "up", "lost"}
  /\ suback \in {"none", "granted", "refused"}
  /\ answer \in Terminal \cup {"none"}
  /\ report \in Terminal \cup {"none", "unsent", "unknown"}
  /\ route \in {"none", "asked", "active"}
  /\ told \subseteq Terminal
  /\ record \in Status \cup {"none"}
  /\ work \in {"none", "announce", "dispatch", "settle"}
  /\ toClient \in Seq(Status)

(* The request is sent again only after a connection was lost. *)
CopiesOK ==
  /\ drops \in 0 .. MaxDrops /\ toBroker \in Nat /\ toService \in Nat
  /\ conn \in {"up", "none"} => toBroker + toService <= drops + 1
  /\ conn \in {"down", "lost"} => toBroker + toService <= drops

TopicsOK == link = "up" => topics # "none"

(* One row and one worker; the hardware path is entered on the way to *)
(* "completed" or "failed" only.                                      *)
ServiceOK ==
  /\ work \in {"announce", "dispatch"} => record = "accepted"
  /\ work = "settle" => record \in Terminal
  /\ executed => record \in {"completed", "failed"}
  /\ record = "completed" => executed

(* Nothing of the request has left the tool. *)
Clean ==
  /\ ~held /\ ~delivered /\ toBroker = 0 /\ toService = 0
  /\ record = "none" /\ told = {} /\ toClient = <<>> /\ answer = "none"

Subscribing == {"connect", "awaitConnected", "subscribe", "storeMid", "awaitSubscribed", "publish"}

PhaseOK ==
  /\ pc \in Subscribing \/ report = "unsent" => Clean
  /\ pc \notin {"stop", "ended"} => report = "none"
  /\ pc = "awaitResult" \/ report \in Terminal => delivered

(* The session of the client as exchange and the callbacks see it. *)
LinkOK ==
  /\ delivered => ~held /\ toBroker = 0
  /\ ~connected => pc \in {"connect", "awaitConnected"} \/ report = "unsent"
  /\ conn = "down" /\ ~failure => ~connected
  /\ pc = "connect" => conn = "none" /\ ~connected
  /\ pc \notin {"connect", "stop", "ended"} => conn # "none"
  /\ conn = "lost" => drops > 0
  /\ pc \notin {"connect", "awaitConnected", "stop", "ended"} /\ drops = 0 => conn = "up"

(* The acknowledgement of the subscription, and the number it is known by. *)
SubackOK ==
  /\ pc \in {"connect", "awaitConnected", "subscribe"} =>
       suback = "none" /\ route = "none" /\ ~mid /\ (subscribed => failure)
  /\ pc = "storeMid" => ~mid /\ (subscribed => failure)
  /\ pc = "awaitSubscribed" => mid
  /\ route = "asked" => suback = "none"
  /\ subscribed /\ ~failure => suback = "granted"
  /\ mid /\ suback = "refused" => failure
  /\ mid /\ suback # "none" => subscribed
  /\ pc \in {"publish", "awaitDelivered", "awaitResult"} => suback = "granted"
  /\ pc # "ended" /\ drops = 0 /\ suback = "granted" => route = "active"

UnderWay(status) == \E i \in DOMAIN toClient : toClient[i] = status

(* The request is settled without an execution, or used up. *)
NeverRuns == record = "rejected" \/ (record = "none" /\ toBroker = 0 /\ toService = 0)

(* Without a failure there is one copy of the request, or one row for it. *)
OneCopy == ~failure => /\ toBroker + toService <= 1
                       /\ record # "none" => toBroker = 0 /\ toService = 0

RejectOK ==
  /\ OneCopy
  /\ ~failure /\ (answer = "rejected" \/ UnderWay("rejected")) => NeverRuns
  /\ report = "rejected" => NeverRuns

CompleteOK == answer = "completed" \/ UnderWay("completed") \/ report = "completed" => executed

ExchangeInv ==
  /\ TargetTypeOK /\ FlagsOK /\ PlacesOK /\ CopiesOK /\ TopicsOK /\ ServiceOK
  /\ PhaseOK /\ LinkOK /\ SubackOK /\ RejectOK /\ CompleteOK /\ NothingMissed
-----------------------------------------------------------------------------
LEMMA Constants ==
  MaxQueue \in Nat \ {0} /\ MaxCommands \in Nat /\ MaxLosses \in Nat /\ MaxDrops \in Nat
BY TargetAssumption, ExchangeAssumption

LEMMA Fewer ==
  \A m, n, k, bound \in Nat :
    /\ n <= m /\ m + k <= bound => n + k <= bound
    /\ n <= m /\ m + k <= bound + 1 => n + k <= bound + 1
    /\ n <= m /\ m = 0 => n = 0
OBVIOUS

(* The service tells the client one status, or nothing. *)
Told == UNCHANGED <<told, toClient>> \/ \E status \in Status : Relay(status)

LEMMA ReplyTells == \A status \in Status : Reply(status) \/ Relay(status) => Told
BY DEF Reply, Told

(* A status that is told reaches a client that waits on its first connection. *)
LEMMA ToldStep ==
  ASSUME ExchangeInv, Told, UNCHANGED <<pc, drops, received>>
  PROVE  toClient' \in Seq(Status) /\ told' \subseteq Terminal /\ NothingMissed'
<1> USE DEF ExchangeInv
<1>1. CASE UNCHANGED <<told, toClient>>
  BY <1>1 DEF PlacesOK, NothingMissed
<1>2. CASE ~UNCHANGED <<told, toClient>>
  <2>1. PICK status \in Status : Relay(status)
    BY <1>2 DEF Told
  <2>2. toClient \in Seq(Status) /\ told \subseteq Terminal
    BY DEF PlacesOK
  <2>3. toClient' \in Seq(Status) /\ told' \subseteq Terminal
    BY <2>1, <2>2 DEF Relay
  <2>4. \A i \in DOMAIN toClient : i \in DOMAIN toClient' /\ toClient'[i] = toClient[i]
    BY <2>1, <2>2 DEF Relay
  <2>5. SUFFICES ASSUME pc \in {"awaitDelivered", "awaitResult"}, drops = 0, told' # {}, ~received
                 PROVE  \E i \in DOMAIN toClient' : toClient'[i] \in Terminal
    BY <2>3 DEF NothingMissed
  <2>6. CASE told # {}
    BY <2>4, <2>5, <2>6 DEF NothingMissed
  <2>7. CASE told = {}
    <3>1. status \in Terminal
      BY <2>1, <2>5, <2>7 DEF Relay
    <3>2. route = "active"
      BY <2>5 DEF SubackOK
    <3>3. Len(toClient) + 1 \in DOMAIN toClient' /\ toClient'[Len(toClient) + 1] = status
      BY <2>1, <2>2, <3>2 DEF Relay
    <3> QED BY <3>1, <3>3
  <2> QED BY <2>6, <2>7
<1> QED BY <1>1, <1>2

-----------------------------------------------------------------------------
(* The steps of the tool, of its callbacks, of the broker and of the service. *)

LEMMA ConnectStep == ExchangeInv /\ Connect => ExchangeInv'
<1> SUFFICES ASSUME ExchangeInv, Connect PROVE ExchangeInv'
  OBVIOUS
<1> USE DEF ExchangeInv
<1>1. TargetTypeOK' /\ TopicsOK' /\ FlagsOK' /\ ServiceOK'
  BY DEF Connect, serviceVars, targetVars, sessionVars, workerVars, TargetTypeOK, TopicsOK,
         FlagsOK, ServiceOK
<1>2. PlacesOK'
  BY DEF Connect, Fail, brokerVars, serviceVars, PlacesOK
<1>3. CopiesOK'
  BY Constants DEF Connect, brokerVars, CopiesOK, PhaseOK, Clean, Subscribing
<1>4. PhaseOK'
  BY DEF Connect, Fail, brokerVars, serviceVars, PhaseOK, Clean, Subscribing, Terminal
<1>5. LinkOK'
  BY DEF Connect, Fail, LinkOK, PhaseOK, Clean, Subscribing
<1>6. SubackOK'
  BY DEF Connect, Fail, brokerVars, SubackOK
<1>7. RejectOK'
  BY DEF Connect, brokerVars, serviceVars, RejectOK, OneCopy, NeverRuns, UnderWay, PhaseOK,
         Clean, Subscribing
<1>8. CompleteOK'
  BY DEF Connect, Fail, brokerVars, serviceVars, CompleteOK, UnderWay
<1>9. NothingMissed'
  BY DEF Connect, brokerVars, NothingMissed, PhaseOK, Clean, Subscribing
<1> QED BY <1>1, <1>2, <1>3, <1>4, <1>5, <1>6, <1>7, <1>8, <1>9

LEMMA AwaitConnectedStep == ExchangeInv /\ AwaitConnected => ExchangeInv'
<1> SUFFICES ASSUME ExchangeInv, AwaitConnected PROVE ExchangeInv'
  OBVIOUS
<1> USE DEF ExchangeInv
<1>1. TargetTypeOK' /\ TopicsOK' /\ FlagsOK' /\ CopiesOK' /\ ServiceOK'
  BY DEF AwaitConnected, linkVars, brokerVars, serviceVars, targetVars, sessionVars,
         workerVars, TargetTypeOK, TopicsOK, FlagsOK, CopiesOK, ServiceOK
<1>2. PlacesOK'
  BY DEF AwaitConnected, Fail, linkVars, brokerVars, serviceVars, PlacesOK
<1>3. PhaseOK'
  BY DEF AwaitConnected, Fail, linkVars, brokerVars, serviceVars, PhaseOK, Clean, Subscribing,
         Terminal
<1>4. LinkOK'
  BY DEF AwaitConnected, Fail, linkVars, LinkOK, PhaseOK, Clean, Subscribing, PlacesOK
<1>5. SubackOK'
  BY DEF AwaitConnected, Fail, brokerVars, SubackOK
<1>6. RejectOK'
  BY DEF AwaitConnected, brokerVars, serviceVars, RejectOK, OneCopy, NeverRuns, UnderWay,
         PhaseOK, Clean, Subscribing
<1>7. CompleteOK'
  BY DEF AwaitConnected, Fail, brokerVars, serviceVars, CompleteOK, UnderWay
<1>8. NothingMissed'
  BY DEF AwaitConnected, brokerVars, NothingMissed, PhaseOK, Clean, Subscribing
<1> QED BY <1>1, <1>2, <1>3, <1>4, <1>5, <1>6, <1>7, <1>8

LEMMA SubscribeStep == ExchangeInv /\ Subscribe => ExchangeInv'
<1> SUFFICES ASSUME ExchangeInv, Subscribe PROVE ExchangeInv'
  OBVIOUS
<1> USE DEF ExchangeInv
<1>1. TargetTypeOK' /\ TopicsOK' /\ FlagsOK' /\ CopiesOK' /\ ServiceOK'
  BY DEF Subscribe, linkVars, serviceVars, targetVars, sessionVars, workerVars, TargetTypeOK,
         TopicsOK, FlagsOK, CopiesOK, ServiceOK
<1>2. PlacesOK'
  BY DEF Subscribe, Fail, linkVars, serviceVars, PlacesOK
<1>3. PhaseOK'
  BY DEF Subscribe, Fail, linkVars, serviceVars, PhaseOK, Clean, Subscribing, Terminal
<1>4. LinkOK'
  BY DEF Subscribe, Fail, linkVars, LinkOK
<1>5. SubackOK'
  BY DEF Subscribe, Fail, SubackOK
<1>6. RejectOK'
  BY DEF Subscribe, serviceVars, RejectOK, OneCopy, NeverRuns, UnderWay, PhaseOK, Clean,
         Subscribing
<1>7. CompleteOK'
  BY DEF Subscribe, Fail, serviceVars, CompleteOK, UnderWay
<1>8. NothingMissed'
  BY DEF Subscribe, NothingMissed, PhaseOK, Clean, Subscribing
<1> QED BY <1>1, <1>2, <1>3, <1>4, <1>5, <1>6, <1>7, <1>8

LEMMA StoreMidStep == ExchangeInv /\ StoreMid => ExchangeInv'
<1> SUFFICES ASSUME ExchangeInv, StoreMid PROVE ExchangeInv'
  OBVIOUS
<1> USE DEF ExchangeInv
<1>1. TargetTypeOK' /\ TopicsOK' /\ CopiesOK' /\ ServiceOK' /\ CompleteOK'
  BY DEF StoreMid, linkVars, brokerVars, serviceVars, targetVars, sessionVars, workerVars,
         TargetTypeOK, TopicsOK, CopiesOK, ServiceOK, CompleteOK, UnderWay
<1>2. FlagsOK'
  BY DEF StoreMid, linkVars, serviceVars, FlagsOK
<1>3. PlacesOK'
  BY DEF StoreMid, linkVars, brokerVars, serviceVars, PlacesOK
<1>4. PhaseOK'
  BY DEF StoreMid, linkVars, brokerVars, serviceVars, PhaseOK, Clean, Subscribing
<1>5. LinkOK'
  BY DEF StoreMid, linkVars, LinkOK, PhaseOK, Clean, Subscribing
<1>6. SubackOK'
  BY DEF StoreMid, linkVars, brokerVars, SubackOK, PlacesOK
<1>7. RejectOK'
  BY DEF StoreMid, brokerVars, RejectOK, OneCopy, NeverRuns, UnderWay, PhaseOK, Clean,
         Subscribing
<1>8. NothingMissed'
  BY DEF StoreMid, NothingMissed
<1> QED BY <1>1, <1>2, <1>3, <1>4, <1>5, <1>6, <1>7, <1>8

LEMMA AwaitSubscribedStep == ExchangeInv /\ AwaitSubscribed => ExchangeInv'
<1> SUFFICES ASSUME ExchangeInv, AwaitSubscribed PROVE ExchangeInv'
  OBVIOUS
<1> USE DEF ExchangeInv
<1>1. TargetTypeOK' /\ TopicsOK' /\ FlagsOK' /\ CopiesOK' /\ ServiceOK'
  BY DEF AwaitSubscribed, linkVars, brokerVars, serviceVars, targetVars, sessionVars,
         workerVars, TargetTypeOK, TopicsOK, FlagsOK, CopiesOK, ServiceOK
<1>2. PlacesOK'
  BY DEF AwaitSubscribed, Fail, linkVars, brokerVars, serviceVars, PlacesOK
<1>3. PhaseOK'
  BY DEF AwaitSubscribed, Fail, linkVars, brokerVars, serviceVars, PhaseOK, Clean, Subscribing,
         Terminal
<1>4. LinkOK'
  BY DEF AwaitSubscribed, Fail, linkVars, LinkOK, PhaseOK, Clean, Subscribing
<1>5. SubackOK'
  BY DEF AwaitSubscribed, Fail, linkVars, brokerVars, SubackOK
<1>6. RejectOK'
  BY DEF AwaitSubscribed, brokerVars, serviceVars, RejectOK, OneCopy, NeverRuns, UnderWay,
         PhaseOK, Clean, Subscribing
<1>7. CompleteOK'
  BY DEF AwaitSubscribed, Fail, brokerVars, serviceVars, CompleteOK, UnderWay
<1>8. NothingMissed'
  BY DEF AwaitSubscribed, brokerVars, NothingMissed, PhaseOK, Clean, Subscribing
<1> QED BY <1>1, <1>2, <1>3, <1>4, <1>5, <1>6, <1>7, <1>8

LEMMA PublishStep == ExchangeInv /\ Publish => ExchangeInv'
<1> SUFFICES ASSUME ExchangeInv, Publish PROVE ExchangeInv'
  OBVIOUS
<1> USE DEF ExchangeInv, serviceVars
<1>1. TargetTypeOK' /\ TopicsOK' /\ ServiceOK'
  BY DEF Publish, targetVars, sessionVars, workerVars, TargetTypeOK, TopicsOK, ServiceOK
<1>a. held' \in BOOLEAN
  BY DEF Publish, FlagsOK
<1>2. FlagsOK'
  BY <1>a DEF Publish, FlagsOK
<1>3. PlacesOK'
  BY DEF Publish, Fail, PlacesOK
<1>4. CopiesOK'
  BY DEF Publish, CopiesOK, PhaseOK, Clean, Subscribing
<1>5. PhaseOK'
  BY DEF Publish, Fail, PhaseOK, Clean, Subscribing, Terminal
<1>6. LinkOK'
  BY DEF Publish, Fail, LinkOK, PhaseOK, Clean, Subscribing
<1>7. SubackOK'
  BY DEF Publish, Fail, SubackOK
<1>8. RejectOK'
  BY DEF Publish, RejectOK, OneCopy, NeverRuns, UnderWay, PhaseOK, Clean, Subscribing
<1>9. CompleteOK'
  BY DEF Publish, Fail, CompleteOK, UnderWay
<1>10. NothingMissed'
  BY DEF Publish, NothingMissed, PhaseOK, Clean, Subscribing
<1> QED BY <1>1, <1>2, <1>3, <1>4, <1>5, <1>6, <1>7, <1>8, <1>9, <1>10

LEMMA AwaitDeliveredStep == ExchangeInv /\ AwaitDelivered => ExchangeInv'
<1> SUFFICES ASSUME ExchangeInv, AwaitDelivered PROVE ExchangeInv'
  OBVIOUS
<1> USE DEF ExchangeInv
<1>1. TargetTypeOK' /\ TopicsOK' /\ FlagsOK' /\ CopiesOK' /\ ServiceOK' /\ RejectOK'
      /\ CompleteOK'
  BY DEF AwaitDelivered, linkVars, brokerVars, serviceVars, targetVars, sessionVars,
         workerVars, TargetTypeOK, TopicsOK, FlagsOK, CopiesOK, ServiceOK, RejectOK, OneCopy,
         NeverRuns, UnderWay, CompleteOK
<1>2. PlacesOK'
  BY DEF AwaitDelivered, linkVars, brokerVars, serviceVars, PlacesOK
<1>3. PhaseOK'
  BY DEF AwaitDelivered, linkVars, PhaseOK, Clean, Subscribing
<1>4. LinkOK'
  BY DEF AwaitDelivered, linkVars, brokerVars, LinkOK
<1>5. SubackOK'
  BY DEF AwaitDelivered, linkVars, brokerVars, SubackOK
<1>6. NothingMissed'
  BY DEF AwaitDelivered, linkVars, brokerVars, NothingMissed
<1> QED BY <1>1, <1>2, <1>3, <1>4, <1>5, <1>6

LEMMA AwaitResultStep == ExchangeInv /\ AwaitResult => ExchangeInv'
<1> SUFFICES ASSUME ExchangeInv, AwaitResult PROVE ExchangeInv'
  OBVIOUS
<1> USE DEF ExchangeInv
<1>1. TargetTypeOK' /\ TopicsOK' /\ FlagsOK' /\ CopiesOK' /\ ServiceOK'
  BY DEF AwaitResult, linkVars, brokerVars, serviceVars, targetVars, sessionVars, workerVars,
         TargetTypeOK, TopicsOK, FlagsOK, CopiesOK, ServiceOK
<1>2. PlacesOK'
  BY DEF AwaitResult, Fail, linkVars, brokerVars, serviceVars, PlacesOK
<1>3. PhaseOK'
  BY DEF AwaitResult, Fail, linkVars, PhaseOK, Clean, Subscribing, PlacesOK, Terminal
<1>4. LinkOK'
  BY DEF AwaitResult, Fail, linkVars, brokerVars, LinkOK, PhaseOK
<1>5. SubackOK'
  BY DEF AwaitResult, Fail, linkVars, brokerVars, SubackOK
<1>6. RejectOK'
  BY DEF AwaitResult, Fail, brokerVars, serviceVars, RejectOK, OneCopy, NeverRuns, UnderWay
<1>7. CompleteOK'
  BY DEF AwaitResult, Fail, brokerVars, serviceVars, CompleteOK, UnderWay
<1>8. NothingMissed'
  BY DEF AwaitResult, NothingMissed
<1> QED BY <1>1, <1>2, <1>3, <1>4, <1>5, <1>6, <1>7, <1>8

LEMMA TimeoutStep == ExchangeInv /\ Timeout => ExchangeInv'
<1> SUFFICES ASSUME ExchangeInv, Timeout PROVE ExchangeInv'
  OBVIOUS
<1> USE DEF ExchangeInv
<1>1. TargetTypeOK' /\ TopicsOK' /\ FlagsOK' /\ CopiesOK' /\ ServiceOK'
  BY DEF Timeout, linkVars, brokerVars, serviceVars, targetVars, sessionVars, workerVars,
         TargetTypeOK, TopicsOK, FlagsOK, CopiesOK, ServiceOK
<1>2. PlacesOK'
  BY DEF Timeout, Fail, linkVars, brokerVars, serviceVars, PlacesOK
<1>3. PhaseOK'
  BY DEF Timeout, Fail, linkVars, brokerVars, serviceVars, PhaseOK, Clean, Subscribing,
         Terminal
<1>4. LinkOK'
  BY DEF Timeout, Fail, linkVars, brokerVars, LinkOK, PhaseOK
<1>5. SubackOK'
  BY DEF Timeout, Fail, linkVars, brokerVars, SubackOK
<1>6. RejectOK'
  BY DEF Timeout, Fail, brokerVars, serviceVars, RejectOK, OneCopy, NeverRuns, UnderWay
<1>7. CompleteOK'
  BY DEF Timeout, Fail, brokerVars, serviceVars, CompleteOK, UnderWay
<1>8. NothingMissed'
  BY DEF Timeout, linkVars, brokerVars, NothingMissed, PhaseOK, Clean, Subscribing
<1> QED BY <1>1, <1>2, <1>3, <1>4, <1>5, <1>6, <1>7, <1>8

LEMMA StopStep == ExchangeInv /\ Stop => ExchangeInv'
<1> SUFFICES ASSUME ExchangeInv, Stop PROVE ExchangeInv'
  OBVIOUS
<1> USE DEF ExchangeInv
<1>1. TargetTypeOK' /\ TopicsOK' /\ ServiceOK'
  BY DEF Stop, serviceVars, targetVars, sessionVars, workerVars, TargetTypeOK, TopicsOK,
         ServiceOK
<1>2. FlagsOK'
  BY DEF Stop, serviceVars, FlagsOK
<1>3. PlacesOK'
  BY DEF Stop, serviceVars, PlacesOK
<1>4. CopiesOK'
  BY DEF Stop, CopiesOK, PlacesOK
<1>5. PhaseOK'
  BY DEF Stop, serviceVars, PhaseOK, Clean, Subscribing
<1>6. LinkOK'
  BY DEF Stop, LinkOK
<1>7. SubackOK'
  BY DEF Stop, SubackOK
<1>8. RejectOK'
  BY DEF Stop, serviceVars, RejectOK, OneCopy, NeverRuns, UnderWay
<1>9. CompleteOK'
  BY DEF Stop, serviceVars, CompleteOK, UnderWay
<1>10. NothingMissed'
  BY DEF Stop, NothingMissed
<1> QED BY <1>1, <1>2, <1>3, <1>4, <1>5, <1>6, <1>7, <1>8, <1>9, <1>10

LEMMA ClientOnConnectStep == ExchangeInv /\ ClientOnConnect => ExchangeInv'
<1> SUFFICES ASSUME ExchangeInv, ClientOnConnect PROVE ExchangeInv'
  OBVIOUS
<1> USE DEF ExchangeInv, serviceVars
<1>1. TargetTypeOK' /\ TopicsOK' /\ ServiceOK' /\ CompleteOK'
  BY DEF ClientOnConnect, targetVars, sessionVars, workerVars, TargetTypeOK, TopicsOK,
         ServiceOK, CompleteOK, UnderWay
<1>a. connected' \in BOOLEAN /\ subscribed' \in BOOLEAN /\ received' \in BOOLEAN /\ failure' \in BOOLEAN
  BY DEF ClientOnConnect, SetFailure, FlagsOK
<1>2. FlagsOK'
  BY <1>a DEF ClientOnConnect, FlagsOK
<1>3. PlacesOK'
  BY DEF ClientOnConnect, PlacesOK
<1>4. CopiesOK'
  BY DEF ClientOnConnect, CopiesOK
<1>5. PhaseOK'
  BY DEF ClientOnConnect, PhaseOK, Clean, Subscribing
<1>6. LinkOK'
  BY DEF ClientOnConnect, SetFailure, LinkOK
<1>7. SubackOK'
  BY DEF ClientOnConnect, SetFailure, SubackOK
<1>8. RejectOK'
  BY DEF ClientOnConnect, SetFailure, RejectOK, OneCopy, NeverRuns, UnderWay, PhaseOK, Clean,
         Subscribing, LinkOK, Terminal
<1>9. NothingMissed'
  BY DEF ClientOnConnect, NothingMissed, LinkOK
<1> QED BY <1>1, <1>2, <1>3, <1>4, <1>5, <1>6, <1>7, <1>8, <1>9

LEMMA OnSubscribeStep == ExchangeInv /\ OnSubscribe => ExchangeInv'
<1> SUFFICES ASSUME ExchangeInv, OnSubscribe PROVE ExchangeInv'
  OBVIOUS
<1> USE DEF ExchangeInv
<1>1. TargetTypeOK' /\ TopicsOK' /\ CopiesOK' /\ ServiceOK' /\ PhaseOK' /\ CompleteOK'
      /\ NothingMissed'
  BY DEF OnSubscribe, linkVars, serviceVars, targetVars, sessionVars, workerVars, TargetTypeOK,
         TopicsOK, CopiesOK, ServiceOK, PhaseOK, Clean, Subscribing, CompleteOK, UnderWay,
         NothingMissed
<1>2. FlagsOK'
  BY DEF OnSubscribe, linkVars, serviceVars, FlagsOK
<1>3. PlacesOK'
  BY DEF OnSubscribe, linkVars, serviceVars, PlacesOK
<1>4. LinkOK'
  BY DEF OnSubscribe, linkVars, LinkOK
<1>5. SubackOK'
  BY DEF OnSubscribe, SubackOK
<1>6. RejectOK'
  BY DEF OnSubscribe, serviceVars, RejectOK, OneCopy, NeverRuns, UnderWay
<1> QED BY <1>1, <1>2, <1>3, <1>4, <1>5, <1>6

LEMMA OnMessageStep == ExchangeInv /\ OnMessage => ExchangeInv'
<1> SUFFICES ASSUME ExchangeInv, OnMessage PROVE ExchangeInv'
  OBVIOUS
<1> USE DEF ExchangeInv, linkVars, serviceVars
<1>1. TargetTypeOK' /\ TopicsOK' /\ CopiesOK' /\ ServiceOK' /\ LinkOK' /\ SubackOK'
  BY DEF OnMessage, targetVars, sessionVars, workerVars, TargetTypeOK, TopicsOK, CopiesOK,
         ServiceOK, LinkOK, SubackOK
<1>a. received' \in BOOLEAN
  BY DEF OnMessage, FlagsOK
<1>2. FlagsOK'
  BY <1>a DEF OnMessage, FlagsOK
<1>3. PlacesOK'
  BY DEF OnMessage, PlacesOK
<1>4. PhaseOK'
  BY DEF OnMessage, PhaseOK, Clean, Subscribing
<1>5. RejectOK'
  BY DEF OnMessage, RejectOK, OneCopy, NeverRuns, UnderWay
<1>6. CompleteOK'
  BY DEF OnMessage, CompleteOK, UnderWay
<1>7. NothingMissed'
  <2> SUFFICES ASSUME pc \in {"awaitDelivered", "awaitResult"}, drops = 0, told # {}, ~received'
               PROVE  \E i \in DOMAIN toClient' : toClient'[i] \in Terminal
    BY DEF OnMessage, NothingMissed
  <2>1. ~received /\ Head(toClient) \notin Terminal
    BY DEF OnMessage
  <2>2. PICK i \in DOMAIN toClient : toClient[i] \in Terminal
    BY <2>1 DEF NothingMissed
  <2>3. toClient \in Seq(Status) /\ toClient # <<>> /\ toClient' = Tail(toClient)
    BY DEF OnMessage, PlacesOK
  <2>4. i # 1
    BY <2>1, <2>2, <2>3
  <2>5. i - 1 \in DOMAIN Tail(toClient) /\ Tail(toClient)[i - 1] = toClient[i]
    BY <2>3, <2>4
  <2> QED BY <2>2, <2>3, <2>5
<1> QED BY <1>1, <1>2, <1>3, <1>4, <1>5, <1>6, <1>7

LEMMA OnPublishStep == ExchangeInv /\ OnPublish => ExchangeInv'
<1> SUFFICES ASSUME ExchangeInv, OnPublish PROVE ExchangeInv'
  OBVIOUS
<1> USE DEF ExchangeInv, clientVars, brokerVars, serviceVars
<1>1. TargetTypeOK' /\ TopicsOK' /\ PlacesOK' /\ CopiesOK' /\ ServiceOK' /\ SubackOK'
      /\ RejectOK' /\ CompleteOK' /\ NothingMissed'
  BY DEF OnPublish, targetVars, sessionVars, workerVars, TargetTypeOK, TopicsOK, PlacesOK,
         CopiesOK, ServiceOK, SubackOK, RejectOK, OneCopy, NeverRuns, UnderWay, CompleteOK,
         NothingMissed
<1>a. held' \in BOOLEAN /\ delivered' \in BOOLEAN
  BY DEF OnPublish
<1>2. FlagsOK'
  BY <1>a DEF OnPublish, FlagsOK
<1>3. PhaseOK'
  BY DEF OnPublish, PhaseOK, Clean, Subscribing
<1>4. LinkOK'
  BY DEF OnPublish, LinkOK
<1> QED BY <1>1, <1>2, <1>3, <1>4

LEMMA DropStep == ExchangeInv /\ Drop => ExchangeInv'
<1> SUFFICES ASSUME ExchangeInv, Drop PROVE ExchangeInv'
  OBVIOUS
<1> USE DEF ExchangeInv, clientVars, serviceVars
<1>0. toBroker' \in Nat /\ toBroker' <= toBroker
  BY DEF Drop, CopiesOK
<1>a. drops' = drops + 1 /\ drops' \in 0 .. MaxDrops /\ drops' > 0
  BY Constants DEF Drop, CopiesOK
<1>b. conn = "up" /\ conn' = "lost" /\ route' = "none" /\ toClient' = <<>>
      /\ UNCHANGED <<targetVars, clientVars, held, delivered, toService, told, serviceVars>>
  BY DEF Drop
<1>1. TargetTypeOK' /\ TopicsOK' /\ FlagsOK' /\ ServiceOK'
  BY <1>b DEF targetVars, sessionVars, workerVars, TargetTypeOK, TopicsOK, FlagsOK, ServiceOK
<1>2. PlacesOK'
  BY <1>0, <1>a, <1>b DEF PlacesOK
<1>3. CopiesOK'
  <2>1. toBroker + toService <= drops + 1 /\ toService \in Nat /\ toBroker \in Nat /\ drops \in Nat
    BY <1>b DEF CopiesOK
  <2>2. toBroker' + toService <= drops + 1
    BY <1>0, <2>1, Fewer
  <2> QED BY <1>0, <1>a, <1>b, <2>1, <2>2 DEF CopiesOK
<1>4. PhaseOK'
  BY <1>0, <1>a, <1>b DEF PhaseOK, Clean, Subscribing
<1>5. LinkOK'
  BY <1>0, <1>a, <1>b DEF LinkOK
<1>6. SubackOK'
  BY <1>0, <1>a, <1>b DEF SubackOK
<1>7. RejectOK'
  <2>1. toBroker \in Nat /\ toService \in Nat /\ toService' = toService
    BY <1>b DEF CopiesOK
  <2>2. OneCopy'
    <3> SUFFICES ASSUME ~failure
                 PROVE  toBroker' + toService <= 1 /\ (record # "none" => toBroker' = 0 /\ toService = 0)
      BY <1>b DEF OneCopy
    <3>1. toBroker + toService <= 1 /\ (record # "none" => toBroker = 0 /\ toService = 0)
      BY DEF RejectOK, OneCopy
    <3>2. toBroker' + toService <= 1
      BY <1>0, <2>1, <3>1, Fewer
    <3>3. toBroker = 0 => toBroker' = 0
      BY <1>0, <2>1, Fewer
    <3> QED BY <3>1, <3>2, <3>3
  <2>3. NeverRuns => NeverRuns'
    BY <1>0, <1>b, <2>1 DEF NeverRuns
  <2>4. ~UnderWay("rejected")'
    BY <1>b DEF UnderWay
  <2> QED BY <1>b, <2>2, <2>3, <2>4 DEF RejectOK
<1>8. CompleteOK'
  BY <1>0, <1>a, <1>b DEF CompleteOK, UnderWay
<1>9. NothingMissed'
  BY <1>0, <1>a, <1>b DEF NothingMissed
<1> QED BY <1>1, <1>2, <1>3, <1>4, <1>5, <1>6, <1>7, <1>8, <1>9

LEMMA ClientOnDisconnectStep == ExchangeInv /\ ClientOnDisconnect => ExchangeInv'
<1> SUFFICES ASSUME ExchangeInv, ClientOnDisconnect PROVE ExchangeInv'
  OBVIOUS
<1> USE DEF ExchangeInv
<1>1. TargetTypeOK' /\ TopicsOK' /\ ServiceOK' /\ PhaseOK' /\ CompleteOK'
  BY DEF ClientOnDisconnect, brokerVars, serviceVars, targetVars, sessionVars, workerVars,
         TargetTypeOK, TopicsOK, ServiceOK, PhaseOK, Clean, Subscribing, CompleteOK, UnderWay
<1>2. FlagsOK'
  BY DEF ClientOnDisconnect, SetFailure, serviceVars, FlagsOK
<1>3. PlacesOK'
  BY DEF ClientOnDisconnect, brokerVars, serviceVars, PlacesOK
<1>4. CopiesOK'
  BY DEF ClientOnDisconnect, brokerVars, CopiesOK
<1>5. LinkOK'
  BY DEF ClientOnDisconnect, SetFailure, brokerVars, LinkOK
<1>6. SubackOK'
  BY DEF ClientOnDisconnect, SetFailure, brokerVars, SubackOK
<1>7. RejectOK'
  BY DEF ClientOnDisconnect, SetFailure, brokerVars, serviceVars, RejectOK, OneCopy, NeverRuns,
         UnderWay
<1>8. NothingMissed'
  BY DEF ClientOnDisconnect, NothingMissed, LinkOK
<1> QED BY <1>1, <1>2, <1>3, <1>4, <1>5, <1>6, <1>7, <1>8

LEMMA ForwardStep == ExchangeInv /\ Forward => ExchangeInv'
<1> SUFFICES ASSUME ExchangeInv, Forward PROVE ExchangeInv'
  OBVIOUS
<1> USE DEF ExchangeInv
<1>1. TargetTypeOK' /\ TopicsOK' /\ FlagsOK' /\ PlacesOK' /\ ServiceOK' /\ SubackOK'
      /\ CompleteOK' /\ NothingMissed'
  BY DEF Forward, clientVars, linkVars, serviceVars, targetVars, sessionVars, workerVars,
         TargetTypeOK, TopicsOK, FlagsOK, PlacesOK, ServiceOK, SubackOK, CompleteOK, UnderWay,
         NothingMissed
<1>2. CopiesOK'
  BY DEF Forward, linkVars, CopiesOK
<1>3. PhaseOK'
  BY DEF Forward, clientVars, PhaseOK, Clean, Subscribing, LinkOK
<1>4. LinkOK'
  BY DEF Forward, clientVars, linkVars, LinkOK
<1>5. RejectOK'
  BY DEF Forward, clientVars, serviceVars, RejectOK, OneCopy, NeverRuns, UnderWay, CopiesOK
<1> QED BY <1>1, <1>2, <1>3, <1>4, <1>5

LEMMA ReceiveStep == ExchangeInv /\ Receive => ExchangeInv'
<1> SUFFICES ASSUME ExchangeInv, Receive PROVE ExchangeInv'
  OBVIOUS
<1> USE DEF ExchangeInv, clientVars, linkVars
<1>0. Told
  <2>1. CASE record # "none" /\ Reply(record)
    BY <2>1, ReplyTells DEF PlacesOK
  <2>2. CASE Reply("rejected")
    BY <2>2, ReplyTells DEF Status, Terminal
  <2>3. CASE UNCHANGED <<told, toClient>>
    BY <2>3 DEF Told
  <2> QED BY <2>1, <2>2, <2>3 DEF Receive
<1>a. toClient' \in Seq(Status) /\ told' \subseteq Terminal /\ NothingMissed'
  BY <1>0, ToldStep DEF Receive
<1>1. TargetTypeOK' /\ TopicsOK' /\ FlagsOK' /\ LinkOK' /\ SubackOK'
  BY DEF Receive, targetVars, sessionVars, workerVars, TargetTypeOK, TopicsOK, FlagsOK, LinkOK,
         SubackOK
<1>2. PlacesOK'
  BY <1>a DEF Receive, PlacesOK, Status
<1>3. CopiesOK'
  BY DEF Receive, CopiesOK
<1>4. ServiceOK'
  BY DEF Receive, ServiceOK
<1>5. PhaseOK'
  BY DEF Receive, PhaseOK, Clean, Subscribing
<1>6. RejectOK'
  BY DEF Receive, RejectOK, OneCopy, NeverRuns, UnderWay, CopiesOK
<1>7. CompleteOK'
  BY DEF Receive, Reply, Relay, CompleteOK, UnderWay, ServiceOK
<1>8. NothingMissed'
  BY <1>a
<1> QED BY <1>1, <1>2, <1>3, <1>4, <1>5, <1>6, <1>7, <1>8

LEMMA AnnounceStep == ExchangeInv /\ Announce => ExchangeInv'
<1> SUFFICES ASSUME ExchangeInv, Announce PROVE ExchangeInv'
  OBVIOUS
<1> USE DEF ExchangeInv, clientVars, linkVars
<1>0. Told
  BY ReplyTells DEF Announce, ServiceOK, PlacesOK, Status, Terminal
<1>a. toClient' \in Seq(Status) /\ told' \subseteq Terminal /\ NothingMissed'
  BY <1>0, ToldStep DEF Announce
<1>1. TargetTypeOK' /\ TopicsOK' /\ FlagsOK' /\ CopiesOK' /\ LinkOK' /\ SubackOK'
  BY DEF Announce, targetVars, sessionVars, workerVars, TargetTypeOK, TopicsOK, FlagsOK,
         CopiesOK, LinkOK, SubackOK
<1>2. PlacesOK'
  BY <1>a DEF Announce, PlacesOK, Terminal, Status
<1>3. ServiceOK'
  BY DEF Announce, ServiceOK, Terminal
<1>4. PhaseOK'
  BY DEF Announce, PhaseOK, Clean, Subscribing, ServiceOK
<1>5. RejectOK'
  BY DEF Announce, Relay, RejectOK, OneCopy, NeverRuns, UnderWay, ServiceOK
<1>6. CompleteOK'
  BY DEF Announce, Reply, Relay, CompleteOK, UnderWay
<1>7. NothingMissed'
  BY <1>a
<1> QED BY <1>1, <1>2, <1>3, <1>4, <1>5, <1>6, <1>7

LEMMA DispatchStep == ExchangeInv /\ Dispatch => ExchangeInv'
<1> SUFFICES ASSUME ExchangeInv, Dispatch PROVE ExchangeInv'
  OBVIOUS
<1> USE DEF ExchangeInv, clientVars, linkVars, brokerVars
<1>1. TargetTypeOK' /\ TopicsOK' /\ CopiesOK' /\ LinkOK' /\ SubackOK' /\ NothingMissed'
  BY DEF Dispatch, targetVars, sessionVars, workerVars, TargetTypeOK, TopicsOK, CopiesOK,
         LinkOK, SubackOK, NothingMissed
<1>a. executed' \in BOOLEAN
  BY DEF Dispatch, FlagsOK
<1>2. FlagsOK'
  BY <1>a DEF Dispatch, FlagsOK
<1>3. PlacesOK'
  BY DEF Dispatch, PlacesOK, Terminal, Status
<1>4. ServiceOK'
  BY DEF Dispatch, ServiceOK, Terminal
<1>5. PhaseOK'
  BY DEF Dispatch, PhaseOK, Clean, Subscribing, ServiceOK
<1>6. RejectOK'
  BY DEF Dispatch, RejectOK, OneCopy, NeverRuns, UnderWay, ServiceOK
<1>7. CompleteOK'
  BY DEF Dispatch, CompleteOK, UnderWay
<1> QED BY <1>1, <1>2, <1>3, <1>4, <1>5, <1>6, <1>7

LEMMA SettleStep == ExchangeInv /\ Settle => ExchangeInv'
<1> SUFFICES ASSUME ExchangeInv, Settle PROVE ExchangeInv'
  OBVIOUS
<1> USE DEF ExchangeInv, clientVars, linkVars
<1>0. Told
  BY ReplyTells DEF Settle, ServiceOK, PlacesOK, Status, Terminal
<1>a. toClient' \in Seq(Status) /\ told' \subseteq Terminal /\ NothingMissed'
  BY <1>0, ToldStep DEF Settle
<1>1. TargetTypeOK' /\ TopicsOK' /\ FlagsOK' /\ CopiesOK' /\ LinkOK' /\ SubackOK'
  BY DEF Settle, targetVars, sessionVars, workerVars, TargetTypeOK, TopicsOK, FlagsOK,
         CopiesOK, LinkOK, SubackOK
<1>2. PlacesOK'
  BY <1>a DEF Settle, PlacesOK
<1>3. ServiceOK'
  BY DEF Settle, ServiceOK
<1>4. PhaseOK'
  BY DEF Settle, PhaseOK, Clean, Subscribing, ServiceOK, Terminal
<1>5. RejectOK'
  BY DEF Settle, Reply, Relay, RejectOK, OneCopy, NeverRuns, UnderWay
<1>6. CompleteOK'
  BY DEF Settle, Reply, Relay, CompleteOK, UnderWay, ServiceOK
<1>7. NothingMissed'
  BY <1>a
<1> QED BY <1>1, <1>2, <1>3, <1>4, <1>5, <1>6, <1>7
-----------------------------------------------------------------------------
(* The steps of the target, and the theorems. *)

LEMMA TargetNextStep == TargetTypeOK /\ TopicsOK /\ TargetNext => TargetTypeOK' /\ TopicsOK'
<1> SUFFICES ASSUME TargetTypeOK, TopicsOK, TargetNext PROVE TargetTypeOK' /\ TopicsOK'
  OBVIOUS
<1> USE Constants DEF TargetTypeOK, TopicsOK, sessionVars, workerVars
<1>1. CASE OnConnect \/ OnRefused \/ OnDisconnect
  BY <1>1 DEF OnConnect, OnRefused, OnDisconnect
<1>2. CASE BrokerSubscribes \/ LoseLink
  BY <1>2 DEF BrokerSubscribes, LoseLink
<1>3. CASE OnCommand
  <2>1. queue' \in Seq({"command", "stop"}) /\ Len(queue') <= MaxQueue
    BY <1>3 DEF OnCommand
  <2> QED BY <1>3, <2>1 DEF OnCommand
<1>4. CASE TakeCommand
  <2>1. queue' \in Seq({"command", "stop"}) /\ Len(queue') <= MaxQueue
    BY <1>4 DEF TakeCommand
  <2>2. worker' \in {"idle", "busy", "gone"}
    BY <1>4 DEF TakeCommand
  <2> QED BY <1>4, <2>1, <2>2 DEF TakeCommand
<1>5. CASE FinishCommand \/ LoopStop \/ Disconnect \/ JoinWorker
  BY <1>5 DEF FinishCommand, LoopStop, Disconnect, JoinWorker
<1>6. CASE PutSentinel
  <2>1. queue' \in Seq({"command", "stop"}) /\ Len(queue') <= MaxQueue
    BY <1>6 DEF PutSentinel
  <2> QED BY <1>6, <2>1 DEF PutSentinel
<1> QED BY <1>1, <1>2, <1>3, <1>4, <1>5, <1>6 DEF TargetNext, Close

(* A session of the target that ends only takes copies of the request away. *)
LEMMA TargetStepStep == ExchangeInv /\ TargetStep => ExchangeInv'
<1> SUFFICES ASSUME ExchangeInv, TargetStep PROVE ExchangeInv'
  OBVIOUS
<1> USE DEF ExchangeInv
<1>1. TargetTypeOK' /\ TopicsOK'
  BY TargetNextStep DEF TargetStep
<1>2. UNCHANGED <<clientVars, linkVars, route, toBroker, toClient, told, serviceVars>>
  BY DEF TargetStep
<1>3. toService' = toService \/ toService' = 0
  BY DEF TargetStep
<1>4. FlagsOK' /\ PlacesOK' /\ ServiceOK' /\ LinkOK' /\ SubackOK' /\ CompleteOK' /\ NothingMissed'
  BY <1>2 DEF FlagsOK, PlacesOK, ServiceOK, LinkOK, SubackOK, CompleteOK, UnderWay, NothingMissed,
              clientVars, linkVars, serviceVars
<1>5. CopiesOK' /\ PhaseOK'
  BY <1>2, <1>3 DEF CopiesOK, PhaseOK, Clean, clientVars, linkVars, serviceVars
<1>6. RejectOK'
  BY <1>2, <1>3 DEF RejectOK, OneCopy, NeverRuns, UnderWay, CopiesOK, clientVars, linkVars, serviceVars
<1> QED BY <1>1, <1>4, <1>5, <1>6

LEMMA InitInv == Init => ExchangeInv
<1> SUFFICES ASSUME Init PROVE ExchangeInv
  OBVIOUS
<1> USE Constants DEF Init
<1>a. ready \in BOOLEAN
  BY DEF TargetInit
<1>b. queue \in Seq({"command", "stop"}) /\ Len(queue) = 0
  BY DEF TargetInit
<1>1. TargetTypeOK /\ TopicsOK
  BY <1>a, <1>b DEF TargetInit, TargetTypeOK, TopicsOK
<1>2. FlagsOK
  BY DEF FlagsOK
<1>3. PlacesOK /\ CopiesOK /\ ServiceOK
  BY DEF PlacesOK, CopiesOK, ServiceOK, Terminal, Status
<1>4. PhaseOK /\ LinkOK /\ SubackOK
  BY DEF PhaseOK, Clean, LinkOK, SubackOK, Terminal
<1>5. RejectOK /\ CompleteOK /\ NothingMissed
  BY DEF RejectOK, OneCopy, CompleteOK, UnderWay, NothingMissed
<1> QED BY <1>1, <1>2, <1>3, <1>4, <1>5 DEF ExchangeInv

LEMMA Invariant == Spec => []ExchangeInv
<1>1. ExchangeInv /\ UNCHANGED vars => ExchangeInv'
  BY DEF vars, targetVars, sessionVars, workerVars, clientVars, linkVars, brokerVars, serviceVars,
         ExchangeInv, TargetTypeOK, TopicsOK, FlagsOK, PlacesOK, CopiesOK, ServiceOK, PhaseOK, Clean,
         LinkOK, SubackOK, RejectOK, OneCopy, NeverRuns, CompleteOK, UnderWay, NothingMissed
<1>2. ExchangeInv /\ Next => ExchangeInv'
  <2>1. Done => UNCHANGED vars
    BY DEF Done
  <2> QED BY <1>1, <2>1, ConnectStep, AwaitConnectedStep, SubscribeStep, StoreMidStep, AwaitSubscribedStep,
             PublishStep, AwaitDeliveredStep, AwaitResultStep, TimeoutStep, StopStep,
             ClientOnConnectStep, OnSubscribeStep, OnMessageStep, OnPublishStep, ClientOnDisconnectStep,
             DropStep, ForwardStep, ReceiveStep, AnnounceStep, DispatchStep, SettleStep, TargetStepStep
          DEF Next, Exchange, Callbacks, Service
<1> QED BY InitInv, <1>1, <1>2, PTL DEF Spec

(* The type invariant: in particular no more copies of the request are under *)
(* way to the broker or to the target than connections broke, and one, and   *)
(* the queue of source commands keeps within its limit.                      *)
THEOREM ExchangeTypeCorrect == Spec => []TypeOK
<1>1. ExchangeInv => TypeOK
  <2> SUFFICES ASSUME ExchangeInv PROVE TypeOK
    OBVIOUS
  <2>1. toBroker \in 0 .. MaxDrops + 1 /\ toService \in 0 .. MaxDrops + 1
    BY Constants DEF ExchangeInv, CopiesOK, PlacesOK
  <2>2. {connected, subscribed, received, failure, mid, held, delivered, executed} \subseteq BOOLEAN
    BY DEF ExchangeInv, FlagsOK
  <2> QED BY <2>1, <2>2 DEF ExchangeInv, PlacesOK, CopiesOK, TypeOK
<1> QED BY Invariant, <1>1, PTL

(* exchange: whatever is lost, repeated or delayed on the way, a request that *)
(* the tool reports as completed was executed, and one it reports as rejected *)
(* or as not sent never was and never will be.                                *)
THEOREM ReportsAreHonest == Spec => []HonestReport
<1>1. ExchangeInv => HonestReport
  BY DEF ExchangeInv, HonestReport, PhaseOK, Clean, RejectOK, NeverRuns, ServiceOK, CompleteOK
<1> QED BY Invariant, <1>1, PTL

(* _on_subscribe, exchange and the target's _on_connect: the acknowledgement  *)
(* of the subscription, the terminal result and later requests find whoever   *)
(* waits for them.                                                            *)
THEOREM EverybodyIsTold == Spec => []EverybodyHears
<1>1. ExchangeInv => EverybodyHears
  BY DEF ExchangeInv, EverybodyHears, SubackNoticed, SubackOK, SubscriptionsRecover, TopicsOK
<1> QED BY Invariant, <1>1, PTL
=============================================================================
