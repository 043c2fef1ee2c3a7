----------------------------- MODULE StoreTarget -----------------------------
(***************************************************************************)
(* The JSON file target of targets/store.py behind the dispatcher of       *)
(* TargetDispatch: the dispatch worker records the latest publication, the *)
(* flush thread writes what changed every interval, and close() joins that *)
(* thread for a while and writes what is left.                             *)
(*                                                                         *)
(* The store is the first target.  Its map of topics is the number of the  *)
(* latest publication in it: a snapshot of the map holds them all.         *)
(***************************************************************************)
EXTENDS TargetDispatch

CONSTANT MaxFailures  (* bound of the model: writes that ever fail *)

ASSUME StoreAssumption == MaxFailures \in Nat

VARIABLES
  values,    (* _values: the latest publication recorded                     *)
  dirty,     (* _dirty                                                       *)
  file,      (* the latest publication in the file                           *)
  flusher,   (* the flush thread: none, waiting, writing, gone               *)
  closer,    (* close(): no, join, flush, writing, done                      *)
  snapshot,  (* what each of the two is writing                              *)
  late,      (* history: the join timed out, both may be writing             *)
  failures   (* writes that failed so far                                    *)

storeVars == <<values, dirty, file, flusher, closer, snapshot, late, failures>>

Store == 1
Flushing == {"flusher", "closer"}

Writing(f) == IF f = "flusher" THEN flusher = "writing" ELSE closer = "writing"

StoreInit ==
  /\ Init
  /\ values = 0 /\ dirty = FALSE /\ file = 0
  /\ flusher = "none" /\ closer = "no"
  /\ snapshot = [f \in Flushing |-> 0]
  /\ late = FALSE
  /\ failures = 0

-----------------------------------------------------------------------------
(* _flush, in two steps: under the lock, then on the disk. *)

(* Mutant: the flag is cleared only when the file has been replaced. *)
MutWriteSnapshot(f) ==
  \/ /\ file' = snapshot[f]
     /\ dirty' = FALSE
     /\ UNCHANGED failures
  \/ /\ failures < MaxFailures
     /\ failures' = failures + 1
     /\ dirty' = TRUE
     /\ UNCHANGED file

(* The file is replaced as a whole, or the values stay to be written. *)
WriteSnapshot(f) ==
  \/ /\ file' = snapshot[f]
     /\ UNCHANGED <<dirty, failures>>
  \/ /\ failures < MaxFailures
     /\ failures' = failures + 1
     /\ dirty' = TRUE
     /\ UNCHANGED file

TakeSnapshot(f) ==
  /\ dirty
  /\ snapshot' = [snapshot EXCEPT ![f] = values]
  /\ dirty' = FALSE

Flush ==
  /\ flusher = "waiting"
  /\ TakeSnapshot("flusher")
  /\ flusher' = "writing"
  /\ UNCHANGED <<vars, values, file, closer, late, failures>>

(* After a write the thread waits again, or ends when close() has begun. *)
Write ==
  /\ flusher = "writing"
  /\ WriteSnapshot("flusher")
  /\ flusher' = IF closer = "no" THEN "waiting" ELSE "gone"
  /\ UNCHANGED <<vars, values, closer, snapshot, late>>

Wake ==
  /\ flusher = "waiting"
  /\ closer # "no"
  /\ flusher' = "gone"
  /\ UNCHANGED <<vars, values, dirty, file, closer, snapshot, late, failures>>

-----------------------------------------------------------------------------
(* close(). *)

(* Mutant: close() leaves the last values to the flush thread. *)
MutCloseFlush ==
  /\ closer = "flush"
  /\ closer' = "done"
  /\ UNCHANGED <<vars, values, dirty, file, flusher, snapshot, late, failures>>

CloseFlush ==
  /\ closer = "flush"
  /\ \/ TakeSnapshot("closer") /\ closer' = "writing"
     \/ ~ dirty /\ closer' = "done" /\ UNCHANGED <<dirty, snapshot>>
  /\ UNCHANGED <<vars, values, file, flusher, late, failures>>

CloseWrite ==
  /\ closer = "writing"
  /\ WriteSnapshot("closer")
  /\ closer' = "done"
  /\ UNCHANGED <<vars, values, flusher, snapshot, late>>

(* join(timeout=5): the thread may be in the middle of a slow write. *)
CloseJoin ==
  /\ closer = "join"
  /\ closer' = "flush"
  /\ late' = (flusher = "writing")
  /\ flusher \in {"writing", "gone"}
  /\ UNCHANGED <<vars, values, dirty, file, flusher, snapshot, failures>>

BeginClose ==
  /\ closer = "no"
  /\ flusher # "none"
  /\ \E c \in Closer : cpc[c] = "targets"
  /\ closer' = "join"
  /\ UNCHANGED <<vars, values, dirty, file, flusher, snapshot, late, failures>>

CloseStore == BeginClose \/ CloseJoin \/ CloseFlush \/ CloseWrite

-----------------------------------------------------------------------------
(* The dispatcher, with what its steps do to the store. *)

(* The store is connected first, and closed again when a later target or *)
(* the dispatcher does not start: nothing has been published then.       *)
ConnectStep ==
  /\ OpenTarget \/ StartDispatcher
  /\ flusher' = IF Store \in open' THEN "waiting" ELSE IF Store \in open THEN "gone" ELSE flusher
  /\ closer' = IF Store \in open \ open' THEN "done" ELSE closer
  /\ UNCHANGED <<values, dirty, file, snapshot, late, failures>>

DeliverStep ==
  /\ Deliver
  /\ IF next = Store
     THEN values' = current /\ dirty' = TRUE
     ELSE UNCHANGED <<values, dirty>>
  /\ UNCHANGED <<file, flusher, closer, snapshot, late, failures>>

OtherStep ==
  /\ \/ \E p \in Producer : Publish(p)
     \/ Get
     \/ \E c \in Closer : EnterClose(c) \/ RaiseFlag(c) \/ PutSentinel(c) \/ JoinDispatcher(c)
     \/ \E c \in Closer : closer = "done" /\ CloseTargets(c)
     \/ \E c \in Closer : flusher = "none" /\ CloseTargets(c)
  /\ UNCHANGED storeVars

StoreNext ==
  \/ ConnectStep \/ DeliverStep \/ OtherStep
  \/ Flush \/ Write \/ Wake \/ CloseStore

StoreSpec == StoreInit /\ [][StoreNext]_<<vars, storeVars>>

-----------------------------------------------------------------------------
(* The threads of TargetDispatch, the flush thread and the closing thread run. *)
StoreFairness ==
  /\ WF_<<vars, storeVars>>(ConnectStep)
  /\ WF_<<vars, storeVars>>(DeliverStep)
  /\ WF_<<vars, storeVars>>(Get /\ UNCHANGED storeVars)
  /\ \A p \in Producer : WF_<<vars, storeVars>>(Put(p) /\ UNCHANGED storeVars)
  /\ \A c \in Closer :
       WF_<<vars, storeVars>>(OtherStep /\ (RaiseFlag(c) \/ PutSentinel(c) \/ JoinDispatcher(c) \/ CloseTargets(c)))
  /\ WF_<<vars, storeVars>>(Flush \/ Write \/ Wake)
  /\ WF_<<vars, storeVars>>(CloseStore)

FairStoreSpec == StoreSpec /\ StoreFairness

(* A clean store is on the disk: values that are neither in the file nor    *)
(* being written are marked to be written, also when they change or a write *)
(* fails meanwhile (_flush clears the flag with the copy, not after the     *)
(* write).  Only when close() has given up joining may an older copy        *)
(* replace its newer one.                                                   *)
NothingForgotten ==
  \/ late \/ dirty \/ file = values
  \/ \E f \in Flushing : Writing(f) /\ snapshot[f] = values

(* A store that was closed has written everything it was offered, unless    *)
(* the disk failed or was too slow (close joins, then flushes).             *)
ClosedIsWritten ==
  closer = "done" /\ failures = 0 /\ ~ late => file = values

(* From its first publication to its last the store loses nothing by the     *)
(* races of publishers, flush thread and close.                              *)
StoreIsFaithful == NothingForgotten /\ ClosedIsWritten
=============================================================================
