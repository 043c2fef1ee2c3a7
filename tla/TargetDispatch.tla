--------------------------- MODULE TargetDispatch ---------------------------
(***************************************************************************)
(* QueuedTarget and MultiTarget of targets/base.py: any number of threads  *)
(* publish into one bounded FIFO queue, one worker offers each publication *)
(* to every target in turn, and close() drains the queue behind a sentinel *)
(* before it closes the targets.                                           *)
(*                                                                         *)
(* A publication is its sequence number; the deep copy taken by            *)
(* publish_source makes it independent of what the caller does later.      *)
(***************************************************************************)
EXTENDS Integers, Sequences

CONSTANTS
  Producer,     (* threads that publish: sources, maintenance, the coach worker *)
  Closer,       (* threads that call close()                                    *)
  Targets,      (* how many targets are configured                              *)
  Depth,        (* publish_queue_depth                                          *)
  MaxSequence,  (* bound of the model: how many publications are accepted       *)
  Free          (* nobody holds the lock                                        *)

ASSUME DispatchAssumption ==
  /\ Targets \in Nat \ {0}
  /\ Depth \in Nat \ {0}
  /\ MaxSequence \in Nat
  /\ Producer \cap Closer = {}
  /\ Free \notin Producer \cup Closer

VARIABLES
  start,      (* where connect() is: targets, dispatcher, up or failed       *)
  connected,  (* _connected                                                  *)
  closing,    (* _closing                                                    *)
  closed,     (* _closed                                                     *)
  open,       (* the targets that are connected                              *)
  queue,      (* _queue: sequence numbers, and 0 for the sentinel None       *)
  sequence,   (* _sequence                                                   *)
  lock,       (* who holds _publish_lock                                     *)
  closelock,  (* who holds _close_lock                                       *)
  worker,     (* the dispatch thread: none, unstarted, get, deliver or done  *)
  current,    (* the publication it delivers                                 *)
  next,       (* the target it is offered to next                            *)
  cpc,        (* where each closer is in close()                             *)
  attempted   (* history: for each target, the publications it was offered   *)

connectVars  == <<start, connected>>
closeVars    == <<closing, closed, closelock, cpc>>
workerVars   == <<worker, current, next, attempted>>
vars == <<start, connected, closing, closed, open, queue, sequence, lock, closelock,
          worker, current, next, cpc, attempted>>

Target == 1 .. Targets
Stop == 0

-----------------------------------------------------------------------------
(* connect(), on the main thread. *)

(* MultiTarget.connect opens the targets in order; when one fails, those *)
(* already opened are closed again and the error goes up.                *)
OpenTarget ==
  /\ start = "targets"
  /\ \E t \in Target \ open :
       /\ \A u \in Target : u < t => u \in open
       /\ \/ /\ open' = open \cup {t}
             /\ start' = IF t = Targets THEN "dispatcher" ELSE "targets"
          \/ /\ open' = {}
             /\ start' = "failed"
  /\ UNCHANGED <<connected, closeVars, queue, sequence, lock, workerVars>>

(* The worker is created and started; a thread that does not start leaves *)
(* _worker set and closes the targets.                                    *)
StartDispatcher ==
  /\ start = "dispatcher"
  /\ \/ /\ start' = "up"
        /\ worker' = "get"
        /\ connected' = TRUE
        /\ UNCHANGED open
     \/ /\ start' = "failed"
        /\ worker' = "unstarted"
        /\ open' = {}
        /\ UNCHANGED connected
  /\ UNCHANGED <<closeVars, queue, sequence, lock, current, next, attempted>>

-----------------------------------------------------------------------------
(* publish_source(), on any thread. *)

Accepting == connected /\ ~ closing /\ ~ closed

(* The lock is taken and the publication numbered.  A dispatcher that is not *)
(* accepting raises RuntimeError and changes nothing.                        *)
Accept(p) ==
  /\ lock = Free
  /\ Accepting
  /\ sequence < MaxSequence
  /\ sequence' = sequence + 1
  /\ lock' = p
  /\ UNCHANGED <<connectVars, closeVars, open, queue, workerVars>>

(* queue.put blocks with the lock held while the queue is full. *)
Put(p) ==
  /\ lock = p
  /\ Len(queue) < Depth
  /\ queue' = Append(queue, sequence)
  /\ lock' = Free
  /\ UNCHANGED <<connectVars, closeVars, open, sequence, workerVars>>

Publish(p) == Accept(p) \/ Put(p)

-----------------------------------------------------------------------------
(* _dispatch(), on the worker. *)

Get ==
  /\ worker = "get"
  /\ queue # <<>>
  /\ queue' = Tail(queue)
  /\ IF Head(queue) = Stop
     THEN worker' = "done" /\ UNCHANGED <<current, next>>
     ELSE worker' = "deliver" /\ current' = Head(queue) /\ next' = 1
  /\ UNCHANGED <<connectVars, closeVars, open, sequence, lock, attempted>>

(* Mutants: a target that raises hides the publication from the targets *)
(* after it, or ends the worker; the index is not reset.                *)
DeliverAborting ==
  /\ worker = "deliver"
  /\ attempted' = [attempted EXCEPT ![next] = Append(attempted[next], current)]
  /\ \/ worker' = "get" /\ current' = Stop /\ next' = 1
     \/ next < Targets /\ next' = next + 1 /\ UNCHANGED <<worker, current>>
  /\ UNCHANGED <<connectVars, closeVars, open, queue, sequence, lock>>

DeliverDying ==
  /\ worker = "deliver"
  /\ attempted' = [attempted EXCEPT ![next] = Append(attempted[next], current)]
  /\ \/ /\ worker' = IF next = Targets THEN "get" ELSE "deliver"
        /\ current' = IF next = Targets THEN Stop ELSE current
        /\ next' = IF next = Targets THEN 1 ELSE next + 1
     \/ worker' = "done" /\ UNCHANGED <<current, next>>
  /\ UNCHANGED <<connectVars, closeVars, open, queue, sequence, lock>>

DeliverForgetting ==
  /\ worker = "deliver"
  /\ attempted' = [attempted EXCEPT ![next] = Append(attempted[next], current)]
  /\ next' = next + 1
  /\ IF next = Targets THEN worker' = "get" ELSE UNCHANGED worker
  /\ UNCHANGED <<connectVars, closeVars, open, queue, sequence, lock, current>>

(* One target after the other; a target that raises is logged and skipped. *)
Deliver ==
  /\ worker = "deliver"
  /\ attempted' = [attempted EXCEPT ![next] = Append(attempted[next], current)]
  /\ IF next = Targets
     THEN worker' = "get" /\ current' = Stop /\ next' = 1
     ELSE next' = next + 1 /\ UNCHANGED <<worker, current>>
  /\ UNCHANGED <<connectVars, closeVars, open, queue, sequence, lock>>

Dispatch == Get \/ Deliver

-----------------------------------------------------------------------------
(* close(), after connect() has returned or raised. *)

EnterClose(c) ==
  /\ start \in {"up", "failed"}
  /\ cpc[c] = "idle"
  /\ closelock = Free
  /\ IF closed
     THEN cpc' = [cpc EXCEPT ![c] = "done"] /\ UNCHANGED closelock
     ELSE cpc' = [cpc EXCEPT ![c] = "flag"] /\ closelock' = c
  /\ UNCHANGED <<connectVars, closing, closed, open, queue, sequence, lock, workerVars>>

(* No producer is inside the lock when the flag is raised. *)
RaiseFlag(c) ==
  /\ cpc[c] = "flag"
  /\ lock = Free
  /\ closing' = TRUE
  /\ IF worker = "none"
     THEN cpc' = [cpc EXCEPT ![c] = "targets"] /\ UNCHANGED lock
     ELSE cpc' = [cpc EXCEPT ![c] = "sentinel"] /\ lock' = c
  /\ UNCHANGED <<connectVars, closed, closelock, open, queue, sequence, workerVars>>

(* Mutant: put_nowait, its queue.Full ignored. *)
PutSentinelNowait(c) ==
  /\ cpc[c] = "sentinel"
  /\ queue' = IF Len(queue) < Depth THEN Append(queue, Stop) ELSE queue
  /\ lock' = Free
  /\ cpc' = [cpc EXCEPT ![c] = "join"]
  /\ UNCHANGED <<connectVars, closing, closed, closelock, open, sequence, workerVars>>

PutSentinel(c) ==
  /\ cpc[c] = "sentinel"
  /\ Len(queue) < Depth
  /\ queue' = Append(queue, Stop)
  /\ lock' = Free
  /\ cpc' = [cpc EXCEPT ![c] = "join"]
  /\ UNCHANGED <<connectVars, closing, closed, closelock, open, sequence, workerVars>>

(* Mutant: the join times out. *)
JoinTimedOut(c) ==
  /\ cpc[c] = "join"
  /\ cpc' = [cpc EXCEPT ![c] = "targets"]
  /\ UNCHANGED <<connectVars, closing, closed, closelock, open, queue, sequence, lock, workerVars>>

(* Joining a thread that was never started raises RuntimeError. *)
JoinDispatcher(c) ==
  /\ cpc[c] = "join"
  /\ \/ /\ worker = "done"
        /\ cpc' = [cpc EXCEPT ![c] = "targets"]
        /\ UNCHANGED closelock
     \/ /\ worker = "unstarted"
        /\ cpc' = [cpc EXCEPT ![c] = "failed"]
        /\ closelock' = Free
  /\ UNCHANGED <<connectVars, closing, closed, open, queue, sequence, lock, workerVars>>

(* Every target is closed.  MultiTarget logs a close that fails; a single *)
(* target is not wrapped and its error leaves _closed false.              *)
CloseTargets(c) ==
  /\ cpc[c] = "targets"
  /\ open' = {}
  /\ closelock' = Free
  /\ \/ closed' = TRUE /\ cpc' = [cpc EXCEPT ![c] = "done"]
     \/ Targets = 1 /\ cpc' = [cpc EXCEPT ![c] = "failed"] /\ UNCHANGED closed
  /\ UNCHANGED <<connectVars, closing, queue, sequence, lock, workerVars>>

Close(c) ==
  EnterClose(c) \/ RaiseFlag(c) \/ PutSentinel(c) \/ JoinDispatcher(c) \/ CloseTargets(c)

-----------------------------------------------------------------------------
Init ==
  /\ start = "targets"
  /\ connected = FALSE
  /\ closing = FALSE
  /\ closed = FALSE
  /\ open = {}
  /\ queue = <<>>
  /\ sequence = 0
  /\ lock = Free
  /\ closelock = Free
  /\ worker = "none"
  /\ current = Stop
  /\ next = 1
  /\ cpc = [c \in Closer |-> "idle"]
  /\ attempted = [t \in Target |-> <<>>]

Next ==
  \/ OpenTarget
  \/ StartDispatcher
  \/ \E p \in Producer : Publish(p)
  \/ Dispatch
  \/ \E c \in Closer : Close(c)

Spec == Init /\ [][Next]_vars

(* The worker and the main thread keep running, and a blocked put goes on as *)
(* soon as there is room: only its own thread appends while it holds the     *)
(* lock.  Nobody has to publish or to call close().                          *)
Fairness ==
  /\ WF_vars(OpenTarget \/ StartDispatcher)
  /\ WF_vars(Dispatch)
  /\ \A p \in Producer : WF_vars(Put(p))
  /\ \A c \in Closer :
       WF_vars(RaiseFlag(c) \/ PutSentinel(c) \/ JoinDispatcher(c) \/ CloseTargets(c))

FairSpec == Spec /\ Fairness
-----------------------------------------------------------------------------
(* Properties. *)

ClosePlaces == {"idle", "flag", "sentinel", "join", "targets", "done", "failed"}

(* Every variable has its type. *)
TypeOK ==
  /\ start \in {"targets", "dispatcher", "up", "failed"}
  /\ connected \in BOOLEAN
  /\ closing \in BOOLEAN
  /\ closed \in BOOLEAN
  /\ open \subseteq Target
  /\ queue \in Seq(Nat)
  /\ sequence \in Nat
  /\ lock \in Producer \cup Closer \cup {Free}
  /\ closelock \in Closer \cup {Free}
  /\ worker \in {"none", "unstarted", "get", "deliver", "done"}
  /\ current \in Nat
  /\ next \in Target
  /\ cpc \in [Closer -> ClosePlaces]
  /\ attempted \in [Target -> Seq(Nat)]

(* Every target is offered the accepted publications in the order of their  *)
(* acceptance, none twice and none left out, whatever another target does   *)
(* with them (QueuedTarget._dispatch, MultiTarget.publish_publication).     *)
InOrder ==
  \A t \in Target : \A i \in 1 .. Len(attempted[t]) : attempted[t][i] = i

(* Backpressure and shutdown lose nothing: every accepted publication is    *)
(* offered to every target in the end.                                      *)
EverythingIsOffered ==
  \A n \in 1 .. MaxSequence :
    sequence >= n ~> \A t \in Target : Len(attempted[t]) >= n

(* A close() that has begun returns, also when the queue is full.           *)
CloseReturns ==
  \A c \in Closer : cpc[c] = "flag" ~> cpc[c] \in {"done", "failed"}
-----------------------------------------------------------------------------
(* The dispatcher implements the log of publications: it is shut from the *)
(* moment a close() has nothing more to wait for, and stays so also when  *)
(* that close() raises and leaves _closed false.                          *)

Shut == closed \/ \E c \in Closer : cpc[c] \in {"targets", "failed"}

Log == INSTANCE PublicationLog WITH
  accepted <- sequence,
  shut <- Shut

(* Whatever the threads do, a source sees one ordered log and a shutdown *)
(* that comes after everything it published.                             *)
ImplementsLog == Log!Spec
=============================================================================
