------------------------- MODULE StoreTargetProofs -------------------------
(***************************************************************************)
(* Proofs about TargetDispatch and StoreTarget, for any number of threads  *)
(* that publish or close, any number of targets and any queue depth.       *)
(*                                                                         *)
(* The dispatcher: the queue holds the publications between the last one   *)
(* taken and the last one put, in order, and nothing but sentinels after   *)
(* them; a sentinel comes only when no producer can accept any more.       *)
(*                                                                         *)
(* The store: a write in progress that is not stale holds the latest       *)
(* values, as long as close() has not given up joining the flush thread.   *)
(***************************************************************************)
EXTENDS StoreTarget, TLAPS

(* What was taken from the queue, and what was put into it. *)
Taken   == IF worker = "deliver" THEN current ELSE Len(attempted[1])
Pending == IF lock \in Producer THEN sequence - 1 ELSE sequence

(* connect(): the worker is there once it has returned without an error. *)
ConnectInv ==
  /\ connected <=> start = "up"
  /\ start \in {"targets", "dispatcher"} => worker = "none"
  /\ start = "up" => worker \in {"get", "deliver", "done"}
  /\ start = "failed" => worker \in {"none", "unstarted"}
  /\ start # "up" => sequence = 0 /\ lock \notin Producer
  /\ start \notin {"up", "failed"} => closed = FALSE /\ \A c \in Closer : cpc[c] = "idle"

(* close(): whoever accepts is before the flag, and the targets are closed *)
(* when the worker has ended or never ran.                                 *)
CloseInv ==
  /\ lock \in Producer => ~ closing /\ sequence > 0
  /\ lock \in Closer => cpc[lock] = "sentinel"
  /\ \A c \in Closer : cpc[c] = "sentinel" => lock = c
  /\ \A c \in Closer : cpc[c] \in {"sentinel", "join", "targets", "failed"} => closing
  /\ closed => closing
  /\ Shut => worker \in {"none", "unstarted", "done"}

(* Every target was offered the same publications, but for the one at hand. *)
OfferInv ==
  /\ \A t \in Target :
       Len(attempted[t]) = IF worker = "deliver" /\ t >= next THEN Taken - 1 ELSE Taken
  /\ worker = "deliver" => current > 0

(* The queue: the publications not taken yet, then sentinels. *)
QueueInv ==
  /\ Taken <= Pending
  /\ Pending - Taken <= Len(queue)
  /\ Len(queue) > Pending - Taken => closing
  /\ \A k \in 1 .. Len(queue) : queue[k] = IF k <= Pending - Taken THEN Taken + k ELSE Stop
  /\ worker = "done" => closing /\ Taken = sequence

DispatchInv ==
  /\ TypeOK
  /\ ConnectInv
  /\ CloseInv
  /\ OfferInv
  /\ QueueInv
  /\ InOrder

(* The store. *)

StoreTyped ==
  /\ values \in Nat /\ file \in Nat /\ failures \in Nat
  /\ dirty \in BOOLEAN /\ late \in BOOLEAN
  /\ flusher \in {"none", "waiting", "writing", "gone"}
  /\ closer \in {"no", "join", "flush", "writing", "done"}
  /\ snapshot \in [Flushing -> Nat]

(* Nothing was recorded before connect() has returned, nor after close() *)
(* has begun.                                                            *)
PhaseInv ==
  /\ start # "up" => values = 0 /\ file = 0 /\ ~ dirty /\ flusher # "writing"
                     /\ closer \in {"no", "join", "flush", "done"}
  /\ start \notin {"up", "failed"} => closer = "no"
  /\ closer # "no" => worker \in {"none", "unstarted", "done"}

(* Without a join that timed out there is one writer, and a write that is *)
(* not overtaken by new values holds the latest.                          *)
WriterInv ==
  /\ late => closer \in {"flush", "writing", "done"}
  /\ ~ late =>
       /\ closer \in {"flush", "writing", "done"} => flusher = "gone"
       /\ \A f \in Flushing : Writing(f) /\ ~ dirty => snapshot[f] = values
       /\ closer = "writing" => ~ dirty

StoreInv ==
  /\ DispatchInv
  /\ StoreTyped
  /\ PhaseInv
  /\ WriterInv
  /\ NothingForgotten
  /\ ClosedIsWritten
-----------------------------------------------------------------------------
(* The dispatcher: each conjunct, action by action. *)

LEMMA Parameters ==
  /\ Targets \in Nat /\ Targets > 0 /\ 1 \in Target
  /\ Depth \in Nat /\ Depth > 0
  /\ Producer \cap Closer = {} /\ Free \notin Producer /\ Free \notin Closer
BY DispatchAssumption DEF Target

(* The places of the threads, without the data. *)
PlacesOK ==
  /\ start \in {"targets", "dispatcher", "up", "failed"}
  /\ connected \in BOOLEAN
  /\ closing \in BOOLEAN
  /\ closed \in BOOLEAN
  /\ lock \in Producer \cup Closer \cup {Free}
  /\ closelock \in Closer \cup {Free}
  /\ worker \in {"none", "unstarted", "get", "deliver", "done"}
  /\ cpc \in [Closer -> ClosePlaces]

DataOK ==
  /\ open \subseteq Target
  /\ queue \in Seq(Nat)
  /\ sequence \in Nat
  /\ current \in Nat
  /\ next \in Target
  /\ attempted \in [Target -> Seq(Nat)]

LEMMA TypeParts ==
  /\ TypeOK <=> PlacesOK /\ DataOK
  /\ TypeOK' <=> PlacesOK' /\ DataOK'
BY DEF TypeOK, PlacesOK, DataOK

LEMMA PlacesStep == PlacesOK /\ Next => PlacesOK'
<1> SUFFICES ASSUME PlacesOK, Next PROVE PlacesOK'
  OBVIOUS
<1> USE DEF PlacesOK, ClosePlaces, connectVars, closeVars, workerVars
<1>1. CASE OpenTarget \/ StartDispatcher
  BY <1>1 DEF OpenTarget, StartDispatcher
<1>2. ASSUME NEW p \in Producer, Publish(p)
      PROVE  PlacesOK'
  BY <1>2 DEF Publish, Accept, Put
<1>3. CASE Dispatch
  BY <1>3 DEF Dispatch, Get, Deliver
<1>4. ASSUME NEW c \in Closer, Close(c)
      PROVE  PlacesOK'
  <2>1. CASE EnterClose(c) \/ RaiseFlag(c) \/ PutSentinel(c)
    BY <2>1 DEF EnterClose, RaiseFlag, PutSentinel, Put
  <2>2. CASE JoinDispatcher(c) \/ CloseTargets(c)
    BY <2>2 DEF JoinDispatcher, CloseTargets
  <2> QED BY <1>4, <2>1, <2>2 DEF Close
<1> QED BY <1>1, <1>2, <1>3, <1>4 DEF Next

LEMMA DataStep == DataOK /\ Next => DataOK'
<1> SUFFICES ASSUME DataOK, Next PROVE DataOK'
  OBVIOUS
<1> USE Parameters DEF DataOK, connectVars, closeVars, workerVars
<1>1. CASE OpenTarget \/ StartDispatcher
  BY <1>1 DEF OpenTarget, StartDispatcher
<1>2. ASSUME NEW p \in Producer, Accept(p)
      PROVE  DataOK'
  BY <1>2 DEF Accept
<1>3. ASSUME NEW p \in Producer, Put(p)
      PROVE  DataOK'
  BY <1>3 DEF Put
<1>4. CASE Get
  BY <1>4 DEF Get
<1>5. CASE Deliver
  BY <1>5 DEF Deliver, Target, Stop
<1>6. ASSUME NEW c \in Closer, Close(c)
      PROVE  DataOK'
  <2>1. CASE PutSentinel(c)
    BY <2>1 DEF PutSentinel, Stop
  <2>2. CASE EnterClose(c) \/ RaiseFlag(c) \/ JoinDispatcher(c) \/ CloseTargets(c)
    BY <2>2 DEF EnterClose, RaiseFlag, JoinDispatcher, CloseTargets
  <2> QED BY <1>6, <2>1, <2>2 DEF Close
<1> QED BY <1>1, <1>2, <1>3, <1>4, <1>5, <1>6 DEF Next, Dispatch, Publish

LEMMA ConnectKept == PlacesOK /\ DataOK /\ ConnectInv /\ Next => ConnectInv'
<1> SUFFICES ASSUME PlacesOK, DataOK, ConnectInv, Next PROVE ConnectInv'
  OBVIOUS
<1> USE Parameters DEF PlacesOK, ConnectInv, connectVars, closeVars, workerVars
<1>1. CASE OpenTarget \/ StartDispatcher
  BY <1>1 DEF OpenTarget, StartDispatcher
<1>2. ASSUME NEW p \in Producer, Publish(p)
      PROVE  ConnectInv'
  BY <1>2 DEF Publish, Accept, Put, Accepting, DataOK
<1>3. CASE Dispatch
  BY <1>3 DEF Dispatch, Get, Deliver
<1>4. ASSUME NEW c \in Closer, Close(c)
      PROVE  ConnectInv'
  BY <1>4 DEF Close, EnterClose, RaiseFlag, PutSentinel, JoinDispatcher, CloseTargets
<1> QED BY <1>1, <1>2, <1>3, <1>4 DEF Next

LEMMA CloseKept == PlacesOK /\ DataOK /\ ConnectInv /\ CloseInv /\ Next => CloseInv'
<1> SUFFICES ASSUME PlacesOK, DataOK, ConnectInv, CloseInv, Next PROVE CloseInv'
  OBVIOUS
<1> USE Parameters DEF PlacesOK, CloseInv, Shut, connectVars, closeVars, workerVars
<1>1. CASE OpenTarget \/ StartDispatcher
  BY <1>1 DEF OpenTarget, StartDispatcher, ConnectInv
<1>2. ASSUME NEW p \in Producer, Publish(p)
      PROVE  CloseInv'
  BY <1>2 DEF Publish, Accept, Put, Accepting, DataOK
<1>3. CASE Dispatch
  BY <1>3 DEF Dispatch, Get, Deliver
<1>4. ASSUME NEW c \in Closer, EnterClose(c)
      PROVE  CloseInv'
  BY <1>4 DEF EnterClose
<1>5. ASSUME NEW c \in Closer, RaiseFlag(c)
      PROVE  CloseInv'
  BY <1>5 DEF RaiseFlag
<1>6. ASSUME NEW c \in Closer, PutSentinel(c)
      PROVE  CloseInv'
  BY <1>6 DEF PutSentinel
<1>7. ASSUME NEW c \in Closer, JoinDispatcher(c)
      PROVE  CloseInv'
  BY <1>7 DEF JoinDispatcher
<1>8. ASSUME NEW c \in Closer, CloseTargets(c)
      PROVE  CloseInv'
  BY <1>8 DEF CloseTargets
<1> QED BY <1>1, <1>2, <1>3, <1>4, <1>5, <1>6, <1>7, <1>8 DEF Next, Close
LEMMA OfferKept ==
  DataOK /\ PlacesOK /\ ConnectInv /\ OfferInv /\ QueueInv /\ Next => OfferInv'
<1> SUFFICES ASSUME DataOK, PlacesOK, ConnectInv, OfferInv, QueueInv, Next PROVE OfferInv'
  OBVIOUS
<1> USE Parameters DEF connectVars, closeVars, workerVars
<1>1. CASE OpenTarget \/ StartDispatcher
  BY <1>1 DEF OpenTarget, StartDispatcher, ConnectInv, OfferInv, Taken
<1>2. ASSUME NEW p \in Producer, Publish(p)
      PROVE  OfferInv'
  BY <1>2 DEF Publish, Accept, Put, OfferInv, Taken
<1>3. CASE Get
  <2>1. CASE Head(queue) = Stop
    BY <1>3, <2>1 DEF Get, OfferInv, Taken
  <2>2. CASE Head(queue) # Stop
    <3>1. queue # <<>> /\ Head(queue) = queue[1] /\ 1 \in 1 .. Len(queue)
      BY <1>3 DEF Get, DataOK
    <3>2. Head(queue) = Taken + 1
      BY <2>2, <3>1 DEF QueueInv
    <3>3. worker' = "deliver" /\ current' = Taken + 1 /\ next' = 1 /\ worker = "get"
          /\ attempted' = attempted
      BY <1>3, <2>2, <3>2 DEF Get
    <3>4. Taken = Len(attempted[1]) /\ Taken \in Nat
      BY <3>3 DEF Taken, DataOK
    <3> QED BY <3>3, <3>4 DEF OfferInv, Taken, Target
  <2> QED BY <2>1, <2>2
<1>4. CASE Deliver
  <2>1. /\ worker = "deliver" /\ current > 0 /\ current \in Nat /\ next \in Target
        /\ attempted' = [attempted EXCEPT ![next] = Append(attempted[next], current)]
    BY <1>4 DEF Deliver, OfferInv, DataOK
  <2>2. \A t \in Target : Len(attempted[t]) = IF t >= next THEN current - 1 ELSE current
    BY <2>1 DEF OfferInv, Taken
  <2>3. \A t \in Target : Len(attempted'[t]) = IF t > next THEN current - 1 ELSE current
    BY <2>1, <2>2 DEF DataOK, Target
  <2>4. CASE next = Targets
    BY <1>4, <2>1, <2>3, <2>4 DEF Deliver, OfferInv, Taken, Target
  <2>5. CASE next # Targets
    BY <1>4, <2>1, <2>3, <2>5 DEF Deliver, OfferInv, Taken, Target
  <2> QED BY <2>4, <2>5
<1>5. ASSUME NEW c \in Closer, Close(c)
      PROVE  OfferInv'
  BY <1>5 DEF Close, EnterClose, RaiseFlag, PutSentinel, JoinDispatcher, CloseTargets, OfferInv, Taken
<1> QED BY <1>1, <1>2, <1>3, <1>4, <1>5 DEF Next, Dispatch

LEMMA InOrderKept ==
  DataOK /\ OfferInv /\ InOrder /\ Next => InOrder'
<1> SUFFICES ASSUME DataOK, OfferInv, InOrder, Next PROVE InOrder'
  OBVIOUS
<1>1. CASE Deliver
  <2>1. /\ next \in Target /\ attempted \in [Target -> Seq(Nat)]
        /\ attempted' = [attempted EXCEPT ![next] = Append(attempted[next], current)]
        /\ current = Len(attempted[next]) + 1
    BY <1>1 DEF Deliver, OfferInv, DataOK, Taken, Target
  <2> QED BY <2>1 DEF InOrder
<1>2. CASE attempted' = attempted
  BY <1>2 DEF InOrder
<1>3. Deliver \/ attempted' = attempted
  BY DEF Next, OpenTarget, StartDispatcher, Publish, Accept, Put, Dispatch, Get, Close, EnterClose,
     RaiseFlag, PutSentinel, JoinDispatcher, CloseTargets, workerVars
<1> QED BY <1>1, <1>2, <1>3

LEMMA QueueKept ==
  DataOK /\ PlacesOK /\ ConnectInv /\ CloseInv /\ OfferInv /\ QueueInv /\ Next => QueueInv'
<1> SUFFICES ASSUME DataOK, PlacesOK, ConnectInv, CloseInv, OfferInv, QueueInv, Next
             PROVE  QueueInv'
  OBVIOUS
<1> USE Parameters DEF connectVars, closeVars, workerVars
<1>1. Taken \in Nat /\ Pending \in Nat /\ sequence \in Nat /\ queue \in Seq(Nat)
  BY DEF Taken, Pending, DataOK, CloseInv
<1>2. CASE OpenTarget \/ StartDispatcher
  <2>1. Taken' = Taken /\ Pending' = Pending /\ UNCHANGED <<queue, sequence, closing>>
        /\ worker' # "done"
    BY <1>2 DEF OpenTarget, StartDispatcher, ConnectInv, Taken, Pending
  <2> QED BY <2>1 DEF QueueInv
<1>3. ASSUME NEW p \in Producer, Accept(p)
      PROVE  QueueInv'
  <2>1. lock = Free /\ lock' = p /\ sequence' = sequence + 1 /\ ~ closing
        /\ UNCHANGED <<queue, closing, worker>> /\ Taken' = Taken
    BY <1>3 DEF Accept, Accepting, Taken
  <2>2. Pending' = Pending
    BY <1>1, <2>1 DEF Pending
  <2> QED BY <1>1, <2>1, <2>2 DEF QueueInv
<1>4. ASSUME NEW p \in Producer, Put(p)
      PROVE  QueueInv'
  <2>1. /\ lock = p /\ lock' = Free /\ sequence' = sequence /\ ~ closing
        /\ queue' = Append(queue, sequence) /\ UNCHANGED <<closing, worker>> /\ Taken' = Taken
    BY <1>4 DEF Put, Taken, CloseInv
  <2>2. Pending = sequence - 1 /\ Pending' = sequence
    BY <1>1, <2>1 DEF Pending
  <2>3. Len(queue) = Pending - Taken
    BY <1>1, <2>1 DEF QueueInv
  <2>4. /\ Len(queue') = Len(queue) + 1
        /\ queue'[Len(queue) + 1] = sequence
        /\ \A k \in 1 .. Len(queue) : queue'[k] = queue[k]
    BY <1>1, <2>1
  <2>5. \A k \in 1 .. Len(queue) : queue[k] = Taken + k
    BY <1>1, <2>3 DEF QueueInv
  <2>6. \A k \in 1 .. Len(queue') : queue'[k] = Taken + k /\ k <= Pending' - Taken
    BY <1>1, <2>2, <2>3, <2>4, <2>5
  <2> QED BY <1>1, <2>1, <2>2, <2>3, <2>4, <2>6 DEF QueueInv
<1>5. CASE Get
  <2>1. /\ worker = "get" /\ queue # <<>> /\ queue' = Tail(queue)
        /\ UNCHANGED <<closing, sequence, lock, attempted>> /\ Pending' = Pending
    BY <1>5 DEF Get, Pending
  <2>2. /\ Len(queue) > 0 /\ Len(queue') = Len(queue) - 1 /\ Head(queue) = queue[1]
        /\ 1 \in 1 .. Len(queue)
        /\ \A k \in 1 .. Len(queue') : queue'[k] = queue[k + 1] /\ k + 1 \in 1 .. Len(queue)
    BY <1>1, <2>1
  <2>3. Taken = Len(attempted[1])
    BY <2>1 DEF Taken
  <2>4. CASE Head(queue) = Stop
    <3>1. Pending = Taken /\ closing
      BY <1>1, <2>2, <2>4 DEF QueueInv, Stop
    <3>2. lock \notin Producer /\ sequence = Taken
      BY <3>1 DEF CloseInv, Pending
    <3>3. worker' = "done" /\ Taken' = Taken
      BY <1>5, <2>1, <2>3, <2>4 DEF Get, Taken
    <3> QED BY <1>1, <2>1, <2>2, <3>1, <3>2, <3>3 DEF QueueInv
  <2>5. CASE Head(queue) # Stop
    <3>1. Head(queue) = Taken + 1 /\ Pending > Taken
      BY <1>1, <2>2, <2>5 DEF QueueInv
    <3>2. worker' = "deliver" /\ Taken' = Taken + 1
      BY <1>5, <2>1, <2>5, <3>1 DEF Get, Taken
    <3> QED BY <1>1, <2>1, <2>2, <3>1, <3>2 DEF QueueInv
  <2> QED BY <2>4, <2>5
<1>6. CASE Deliver
  <2>1. /\ UNCHANGED <<queue, closing, sequence, lock>> /\ Pending' = Pending
        /\ worker = "deliver" /\ worker' \in {"get", "deliver"}
    BY <1>6 DEF Deliver, Pending
  <2>2. Taken' = Taken
    <3>1. CASE next = Targets
      <4>1. /\ 1 \in Target /\ Len(attempted[1]) = IF 1 >= next THEN current - 1 ELSE current
            /\ worker' = "get" /\ next \in Target
            /\ attempted' = [attempted EXCEPT ![next] = Append(attempted[next], current)]
        BY <1>6, <3>1 DEF Deliver, OfferInv, Taken, DataOK
      <4>2. Len(attempted'[1]) = current
        BY <4>1 DEF DataOK, Target
      <4> QED BY <2>1, <4>1, <4>2 DEF Taken
    <3>2. CASE next # Targets
      BY <1>6, <3>2 DEF Deliver, Taken
    <3> QED BY <3>1, <3>2
  <2> QED BY <2>1, <2>2 DEF QueueInv
<1>7. ASSUME NEW c \in Closer, PutSentinel(c)
      PROVE  QueueInv'
  <2>1. /\ lock = c /\ lock' = Free /\ closing /\ queue' = Append(queue, Stop)
        /\ UNCHANGED <<closing, sequence, worker>> /\ Taken' = Taken
    BY <1>7 DEF PutSentinel, Taken, CloseInv
  <2>2. Pending' = Pending
    BY <2>1 DEF Pending
  <2>3. /\ Len(queue') = Len(queue) + 1
        /\ queue'[Len(queue) + 1] = Stop
        /\ \A k \in 1 .. Len(queue) : queue'[k] = queue[k]
    BY <1>1, <2>1 DEF Stop
  <2> QED BY <1>1, <2>1, <2>2, <2>3 DEF QueueInv
<1>8. ASSUME NEW c \in Closer, EnterClose(c) \/ RaiseFlag(c) \/ JoinDispatcher(c) \/ CloseTargets(c)
      PROVE  QueueInv'
  <2>1. /\ UNCHANGED <<queue, sequence, worker>> /\ Taken' = Taken
        /\ closing => closing'
        /\ lock' \in Producer <=> lock \in Producer
    BY <1>8 DEF EnterClose, RaiseFlag, JoinDispatcher, CloseTargets, Taken
  <2>2. Pending' = Pending
    BY <2>1 DEF Pending
  <2> QED BY <2>1, <2>2 DEF QueueInv
<1> QED BY <1>2, <1>3, <1>4, <1>5, <1>6, <1>7, <1>8 DEF Next, Publish, Dispatch, Close
LEMMA DispatchInit == Init => DispatchInv
<1> SUFFICES ASSUME Init PROVE DispatchInv
  OBVIOUS
<1> USE Parameters DEF Init
<1>1. PlacesOK
  BY DEF PlacesOK, ClosePlaces
<1>2. DataOK
  BY DEF DataOK, Target, Stop
<1>3. ConnectInv /\ CloseInv
  BY DEF ConnectInv, CloseInv, Shut
<1>4. Taken = 0 /\ Pending = 0 /\ Len(queue) = 0
  BY DEF Taken, Pending
<1>5. OfferInv /\ InOrder
  BY <1>4 DEF OfferInv, InOrder
<1>6. QueueInv
  BY <1>4 DEF QueueInv
<1> QED BY <1>1, <1>2, <1>3, <1>5, <1>6, TypeParts DEF DispatchInv

LEMMA DispatchKept == DispatchInv /\ [Next]_vars => DispatchInv'
<1>1. DispatchInv /\ Next => DispatchInv'
  BY TypeParts, PlacesStep, DataStep, ConnectKept, CloseKept, OfferKept, InOrderKept, QueueKept
     DEF DispatchInv
<1>2. ASSUME DispatchInv, UNCHANGED vars
      PROVE  DispatchInv'
  <2> USE <1>2 DEF DispatchInv, vars
  <2>1. TypeOK'
    BY DEF TypeOK
  <2>2. ConnectInv' /\ CloseInv'
    BY DEF ConnectInv, CloseInv, Shut
  <2>3. Taken' = Taken /\ Pending' = Pending
    BY DEF Taken, Pending
  <2>4. OfferInv' /\ QueueInv' /\ InOrder'
    BY <2>3 DEF OfferInv, QueueInv, InOrder
  <2> QED BY <2>1, <2>2, <2>4
<1> QED BY <1>1, <1>2
-----------------------------------------------------------------------------
(* The dispatcher implements the log, step by step: a publication is        *)
(* accepted where its number is taken, attempted where it is delivered, and *)
(* the log is shut where a closer has nothing more to wait for.             *)

LEMMA LogInit == Init => Log!Init
BY DEF Init, Log!Init, Shut

LEMMA ShutIsFinal ==
  DispatchInv /\ Next => \/ Shut' <=> Shut
                        \/ /\ ~ Shut /\ Shut' /\ UNCHANGED <<sequence, attempted>>
                           /\ \A t \in Target : Len(attempted[t]) = sequence
<1> SUFFICES ASSUME DispatchInv, Next
             PROVE  \/ Shut' <=> Shut
                    \/ /\ ~ Shut /\ Shut' /\ UNCHANGED <<sequence, attempted>>
                       /\ \A t \in Target : Len(attempted[t]) = sequence
  OBVIOUS
<1> USE DEF connectVars, closeVars, workerVars
<1>1. PlacesOK /\ DataOK
  BY TypeParts DEF DispatchInv
<1>2. CASE UNCHANGED <<closed, cpc>>
  BY <1>2 DEF Shut
<1>3. ASSUME NEW c \in Closer, Close(c)
      PROVE  \/ Shut' <=> Shut
             \/ /\ ~ Shut /\ Shut' /\ UNCHANGED <<sequence, attempted>>
                /\ \A t \in Target : Len(attempted[t]) = sequence
  <2>1. CASE EnterClose(c) \/ PutSentinel(c) \/ CloseTargets(c)
    BY <1>1, <2>1 DEF EnterClose, PutSentinel, CloseTargets, Shut, PlacesOK
  <2>2. CASE RaiseFlag(c) \/ JoinDispatcher(c)
    <3>1. worker # "none" /\ RaiseFlag(c) => (Shut' <=> Shut)
      BY <1>1 DEF RaiseFlag, Shut, PlacesOK
    <3>2. UNCHANGED <<sequence, attempted, closed>> /\ (Shut => Shut')
      BY <1>1, <2>2 DEF RaiseFlag, JoinDispatcher, Shut, PlacesOK
    <3>3. ASSUME worker \in {"none", "unstarted", "done"}
          PROVE  \A t \in Target : Len(attempted[t]) = sequence
      <4>1. Taken = sequence
        BY <1>1, <3>3 DEF DispatchInv, QueueInv, ConnectInv, Taken, Pending, DataOK
      <4> QED BY <3>3, <4>1 DEF DispatchInv, OfferInv
    <3>4. JoinDispatcher(c) => worker \in {"unstarted", "done"}
      BY DEF JoinDispatcher
    <3> QED BY <2>2, <3>1, <3>2, <3>3, <3>4
  <2> QED BY <1>3, <2>1, <2>2 DEF Close
<1>4. ASSUME NEW p \in Producer, Publish(p)
      PROVE  UNCHANGED <<closed, cpc>>
  BY <1>4 DEF Publish, Accept, Put
<1>5. OpenTarget \/ StartDispatcher \/ Dispatch => UNCHANGED <<closed, cpc>>
  BY DEF OpenTarget, StartDispatcher, Dispatch, Get, Deliver
<1> QED BY <1>2, <1>3, <1>4, <1>5 DEF Next

LEMMA LogStep == DispatchInv /\ [Next]_vars => [Log!Next]_(Log!vars)
<1> SUFFICES ASSUME DispatchInv, Next PROVE [Log!Next]_(Log!vars)
  BY DEF vars, Log!vars, Shut
<1> USE DEF connectVars, closeVars, workerVars
<1>1. PlacesOK /\ DataOK
  BY TypeParts DEF DispatchInv
<1>2. ASSUME NEW p \in Producer, Accept(p)
      PROVE  Log!Next
  <2>1. ~ Shut
    BY <1>2 DEF Accept, Accepting, Shut, DispatchInv, CloseInv
  <2>2. Shut' <=> Shut
    BY <1>2 DEF Accept, Shut
  <2> QED BY <1>2, <2>1, <2>2 DEF Accept, Log!Next, Log!Accept
<1>3. CASE Deliver
  <2>1. next \in Target /\ current = Len(attempted[next]) + 1 /\ Len(attempted[next]) < sequence
    BY <1>1, <1>3, Parameters
       DEF Deliver, DataOK, DispatchInv, OfferInv, QueueInv, CloseInv, Taken, Pending, Target
  <2>2. ~ Shut
    BY <1>3 DEF Deliver, DispatchInv, CloseInv
  <2>3. Shut' <=> Shut
    BY <1>3 DEF Deliver, Shut
  <2> QED BY <1>3, <2>1, <2>2, <2>3 DEF Deliver, Log!Next, Log!Attempt
<1>4. CASE UNCHANGED <<sequence, attempted>>
  <2>1. CASE Shut' <=> Shut
    <3>1. Shut' = Shut
      BY <2>1, Zenon DEF Shut
    <3> QED BY <1>4, <3>1 DEF Log!vars
  <2>2. CASE Shut' /\ \A t \in Target : Len(attempted[t]) = sequence
    <3>1. Shut' = TRUE
      BY <2>2, Zenon DEF Shut
    <3> QED BY <1>4, <2>2, <3>1 DEF Log!Next, Log!Close
  <2> QED BY <2>1, <2>2, ShutIsFinal
<1>5. UNCHANGED <<sequence, attempted>> \/ Deliver \/ \E p \in Producer : Accept(p)
  BY DEF Next, OpenTarget, StartDispatcher, Publish, Put, Dispatch, Get, Close, EnterClose,
     RaiseFlag, PutSentinel, JoinDispatcher, CloseTargets
<1> QED BY <1>2, <1>3, <1>4, <1>5
LEMMA DispatchInvariant == Spec => []DispatchInv
BY DispatchInit, DispatchKept, PTL DEF Spec

(* Type correctness of the dispatcher.                                       *)
THEOREM DispatchTypeCorrect == Spec => []TypeOK
<1>1. DispatchInv => TypeOK
  BY DEF DispatchInv
<1> QED BY <1>1, DispatchInvariant, PTL

(* Every target is offered the accepted publications in order, none twice    *)
(* and none left out (QueuedTarget._dispatch, MultiTarget).                  *)
THEOREM PublicationsInOrder == Spec => []InOrder
<1>1. DispatchInv => InOrder
  BY DEF DispatchInv
<1> QED BY <1>1, DispatchInvariant, PTL

(* The dispatcher's threads, queue, locks and sentinel implement the log of  *)
(* publications: what close() waits for is that everything was offered.      *)
THEOREM DispatchImplementsLog == Spec => ImplementsLog
BY LogInit, LogStep, DispatchInvariant, PTL DEF Spec, ImplementsLog, Log!Spec
-----------------------------------------------------------------------------
(* The store. *)

LEMMA StoreStepDispatches == StoreNext => [Next]_vars
BY DEF StoreNext, ConnectStep, DeliverStep, OtherStep, Flush, Write, Wake, CloseStore, BeginClose,
   CloseJoin, CloseFlush, CloseWrite, Next, Dispatch, Close

LEMMA StoreTypedKept ==
  StoreTyped /\ DataOK /\ StoreNext => StoreTyped'
<1> SUFFICES ASSUME StoreTyped, DataOK, StoreNext PROVE StoreTyped'
  OBVIOUS
<1> USE DEF StoreTyped, Flushing, storeVars
<1>1. CASE ConnectStep
  BY <1>1 DEF ConnectStep
<1>2. CASE DeliverStep
  BY <1>2 DEF DeliverStep, DataOK
<1>3. CASE OtherStep
  BY <1>3 DEF OtherStep
<1>4. CASE Flush \/ Wake
  BY <1>4 DEF Flush, Wake, TakeSnapshot
<1>5. ASSUME NEW f \in Flushing, WriteSnapshot(f)
      PROVE  file' \in Nat /\ failures' \in Nat /\ dirty' \in BOOLEAN
  <2>1. snapshot[f] \in Nat
    OBVIOUS
  <2>2. failures + 1 \in Nat
    OBVIOUS
  <2> QED BY <1>5, <2>1, <2>2 DEF WriteSnapshot
<1>6. CASE BeginClose \/ CloseJoin
  BY <1>6 DEF BeginClose, CloseJoin
<1>7. CASE CloseFlush
  BY <1>7 DEF CloseFlush, TakeSnapshot
<1>8. CASE Write
  BY <1>5, <1>8 DEF Write
<1>9. CASE CloseWrite
  BY <1>5, <1>9 DEF CloseWrite
<1> QED BY <1>1, <1>2, <1>3, <1>4, <1>6, <1>7, <1>8, <1>9 DEF StoreNext, CloseStore

(* Which steps move the dispatcher's phase. *)
LEMMA PhaseKept ==
  DispatchInv /\ StoreTyped /\ PhaseInv /\ StoreNext => PhaseInv'
<1> SUFFICES ASSUME DispatchInv, StoreTyped, PhaseInv, StoreNext PROVE PhaseInv'
  OBVIOUS
<1> USE DEF DispatchInv, ConnectInv, PhaseInv, storeVars, connectVars, closeVars, workerVars
<1>1. CASE ConnectStep
  BY <1>1 DEF ConnectStep, OpenTarget, StartDispatcher
<1>2. CASE DeliverStep
  <2>1. start = "up" /\ closer = "no"
    BY <1>2, TypeParts DEF DeliverStep, Deliver, PlacesOK
  <2>2. UNCHANGED <<start, closer>>
    BY <1>2 DEF DeliverStep, Deliver
  <2> QED BY <2>1, <2>2
<1>3. CASE OtherStep
  <2>1. UNCHANGED <<start, storeVars>>
        /\ (worker \in {"none", "unstarted", "done"} => worker' = worker)
    BY <1>3 DEF OtherStep, Publish, Accept, Put, Get, EnterClose, RaiseFlag, PutSentinel,
       JoinDispatcher, CloseTargets
  <2> QED BY <2>1
<1>4. CASE BeginClose
  <2>1. Shut
    BY <1>4 DEF BeginClose, Shut
  <2> QED BY <1>4, <2>1 DEF BeginClose, CloseInv, vars
<1>5. CASE Flush \/ Write \/ Wake
  BY <1>5 DEF Flush, Write, Wake, TakeSnapshot, WriteSnapshot, vars
<1>6. CASE CloseJoin \/ CloseFlush \/ CloseWrite
  BY <1>6 DEF CloseJoin, CloseFlush, CloseWrite, TakeSnapshot, WriteSnapshot, vars
<1> QED BY <1>1, <1>2, <1>3, <1>4, <1>5, <1>6 DEF StoreNext, CloseStore

Faithful == WriterInv /\ NothingForgotten /\ ClosedIsWritten

LEMMA FaithfulKept ==
  DispatchInv /\ StoreTyped /\ PhaseInv /\ Faithful /\ StoreNext => Faithful'
<1> SUFFICES ASSUME DispatchInv, StoreTyped, PhaseInv, Faithful, StoreNext PROVE Faithful'
  OBVIOUS
<1> USE DEF Faithful, WriterInv, NothingForgotten, ClosedIsWritten, Writing, Flushing, StoreTyped,
        storeVars
<1>1. CASE ConnectStep
  BY <1>1 DEF ConnectStep, OpenTarget, StartDispatcher, DispatchInv, ConnectInv, PhaseInv
<1>2. CASE DeliverStep
  BY <1>2 DEF DeliverStep, Deliver, PhaseInv
<1>3. CASE OtherStep
  BY <1>3 DEF OtherStep
<1>4. CASE Flush
  BY <1>4 DEF Flush, TakeSnapshot
<1>5. CASE Write
  BY <1>5 DEF Write, WriteSnapshot
<1>6. CASE Wake
  BY <1>6 DEF Wake
<1>7. CASE BeginClose
  BY <1>7 DEF BeginClose
<1>8. CASE CloseJoin
  <2>1. late' <=> flusher = "writing"
    BY <1>8 DEF CloseJoin
  <2>2. /\ flusher \in {"writing", "gone"} /\ closer = "join" /\ closer' = "flush"
        /\ UNCHANGED <<values, dirty, file, flusher, snapshot, failures>>
    BY <1>8 DEF CloseJoin
  <2>3. CASE flusher = "writing"
    BY <2>1, <2>2, <2>3
  <2>4. CASE flusher = "gone"
    BY <2>1, <2>2, <2>4
  <2> QED BY <2>2, <2>3, <2>4
<1>9. CASE CloseFlush
  BY <1>9 DEF CloseFlush, TakeSnapshot
<1>10. CASE CloseWrite
  BY <1>10 DEF CloseWrite, WriteSnapshot
<1> QED BY <1>1, <1>2, <1>3, <1>4, <1>5, <1>6, <1>7, <1>8, <1>9, <1>10 DEF StoreNext, CloseStore
LEMMA StoreInvariant == StoreSpec => []StoreInv
<1>1. StoreInit => StoreInv
  <2> SUFFICES ASSUME StoreInit PROVE StoreInv
    OBVIOUS
  <2>1. DispatchInv
    BY DispatchInit DEF StoreInit
  <2>2. StoreTyped /\ PhaseInv
    BY DEF StoreInit, Init, StoreTyped, PhaseInv, Flushing
  <2>3. WriterInv /\ NothingForgotten /\ ClosedIsWritten
    BY DEF StoreInit, WriterInv, NothingForgotten, ClosedIsWritten, Writing, Flushing
  <2> QED BY <2>1, <2>2, <2>3 DEF StoreInv
<1>2. StoreInv /\ [StoreNext]_<<vars, storeVars>> => StoreInv'
  <2>1. StoreInv /\ StoreNext => StoreInv'
    BY StoreStepDispatches, DispatchKept, StoreTypedKept, PhaseKept, FaithfulKept, TypeParts
       DEF StoreInv, Faithful, DispatchInv
  <2>2. ASSUME StoreInv, UNCHANGED <<vars, storeVars>>
        PROVE  StoreInv'
    <3>1. DispatchInv'
      BY <2>2, DispatchKept DEF StoreInv
    <3>2. StoreTyped' /\ PhaseInv'
      BY <2>2 DEF StoreInv, StoreTyped, PhaseInv, storeVars, vars
    <3>3. WriterInv' /\ NothingForgotten' /\ ClosedIsWritten'
      BY <2>2 DEF StoreInv, WriterInv, NothingForgotten, ClosedIsWritten, Writing, storeVars
    <3> QED BY <3>1, <3>2, <3>3 DEF StoreInv
  <2> QED BY <2>1, <2>2
<1> QED BY <1>1, <1>2, PTL DEF StoreSpec

(* A clean store is on the disk or being written, also when values change or *)
(* a write fails meanwhile, and a store that was closed has written what it  *)
(* was offered: unless close() gave up joining the flush thread (_flush).    *)
THEOREM StoreAlwaysFaithful == StoreSpec => []StoreIsFaithful
<1>1. StoreInv => StoreIsFaithful
  BY DEF StoreInv, StoreIsFaithful
<1> QED BY <1>1, StoreInvariant, PTL

(* The store is one of the dispatcher's targets: with it, its flush thread   *)
(* and its own close(), a source still sees the log of publications.         *)
THEOREM StoreImplementsLog == StoreSpec => ImplementsLog
<1>1. StoreInit => Log!Init
  BY LogInit DEF StoreInit
<1>2. StoreInv /\ [StoreNext]_<<vars, storeVars>> => [Log!Next]_(Log!vars)
  <2>1. [StoreNext]_<<vars, storeVars>> => [Next]_vars
    BY StoreStepDispatches
  <2> QED BY <2>1, LogStep DEF StoreInv
<1> QED BY <1>1, <1>2, StoreInvariant, PTL DEF StoreSpec, ImplementsLog, Log!Spec
=============================================================================
