---------------------- MODULE TelemetryPipelineProofs ----------------------
(***************************************************************************)
(* Proofs about TelemetryPipeline for every set of sources, entities and   *)
(* readings and every depth of the queue.  The argument: the runtime lock  *)
(* makes the reading under way the newest one, so all older readings are   *)
(* queued and what is derived from it comes behind it; the publish lock    *)
(* makes the copy of the coach worker the current payload, which bounds    *)
(* every state of that entity in the queue; and the variables and events   *)
(* in the queue are bounded by what the thread in the lock is about to     *)
(* say.                                                                    *)
(***************************************************************************)
EXTENDS TelemetryPipeline, SequenceTheorems, TLAPS

Places == {"idle", "apply", "derived", "tell", "evaluate", "event", "republish"}
Inside == {"apply", "derived", "tell", "evaluate", "event"}

-----------------------------------------------------------------------------
(* The inductive invariant. *)

(* Who is between the update of the variables and the last publication holds *)
(* the runtime lock; the coach worker holds the publish lock while it        *)
(* republishes.                                                              *)
LockInv ==
  /\ \A t \in Thread : pc[t] \in Inside => lock = t
  /\ \A t \in Thread : pc[t] = "republish" => t = Coach
  /\ pc[Coach] = "republish" => publishlock = Coach

(* A thread that applies a reading applies the newest one, and the states it *)
(* has staged are the cached ones.                                           *)
StagedInv ==
  /\ \A t \in Thread : pc[t] = "apply" => cur[t] = readings /\ readings > 0
  /\ \A t \in Thread : staged[t] # <<>> => pc[t] \in {"apply", "derived"}
  /\ \A t \in Thread : \A i \in 1 .. Len(staged[t]) :
       /\ staged[t][i].kind = "entity"
       /\ staged[t][i].of = readings
       /\ payload[staged[t][i].about] = readings

Applying == \E t \in Thread : pc[t] = "apply"

Sent(n) == \E i \in Positions({"raw"}) : log[i].of = n

(* Every reading is queued, except one that is still being applied. *)
RawInv ==
  /\ \A i \in Positions({"raw"}) : log[i].of \in 1 .. readings
  /\ \A i \in Positions({"raw"}) : Applying => log[i].of < readings
  /\ \A n \in 1 .. readings : n < readings \/ ~ Applying => Sent(n)

(* The cached payload of an entity is the newest state that was queued, and *)
(* what the coach worker has yet to send is that payload.                   *)
States == {"entity", "republished"}

PayloadInv ==
  /\ \A e \in Entity : payload[e] <= readings
  /\ \A i \in Positions(States) : log[i].of <= payload[log[i].about]
  /\ \A e \in Entity : copy[e] # 0 => copy[e] = payload[e] /\ pc[Coach] = "republish"

(* A published snapshot is not newer than the variables, nor fresher. *)
Older(p, s) ==
  p.of > 0 /\ s.of > 0 =>
    \/ p.of < s.of
    \/ p.of = s.of /\ (p.about = "stale" => s.status = "stale")

(* The snapshot a thread is about to publish lies between those already *)
(* queued and the variables.                                            *)
VariablesInv ==
  /\ known.of <= readings
  /\ \A i \in Positions({"variables"}) : log[i].of <= readings /\ Older(log[i], known)
  /\ \A t \in Thread : shot[t].of <= readings
  /\ \A t \in Thread : pc[t] = "tell" =>
       Older(Publication("variables", shot[t].of, shot[t].status), known)
  /\ \A t \in Thread : pc[t] = "tell" =>
       \A i \in Positions({"variables"}) : Older(log[i], shot[t])

(* The state of the rule that the queue tells: a thread at "event" has *)
(* changed it and not told yet.                                        *)
Flip(state) == IF state = "active" THEN "cleared" ELSE "active"

Announced == IF \E t \in Thread : pc[t] = "event" THEN Flip(active) ELSE active

Events == Positions({"event"})

AnnouncedInv ==
  /\ Events = {} => Announced = "cleared"
  /\ \A j \in Events : (\A k \in Events : k <= j) => log[j].about = Announced

PipelineInv ==
  /\ LockInv
  /\ StagedInv
  /\ RawInv
  /\ PayloadInv
  /\ VariablesInv
  /\ AnnouncedInv
  /\ OneHistory
  /\ EventsAlternate
-----------------------------------------------------------------------------
(* Type correctness. *)

PlacesOK ==
  /\ lock \in Thread \cup {Free}
  /\ publishlock \in {Coach, Free}
  /\ pc \in [Thread -> Places]
  /\ active \in {"active", "cleared"}
  /\ reported \subseteq Entity

NumbersOK ==
  /\ cur \in [Thread -> Nat]
  /\ copy \in [Entity -> Nat]
  /\ readings \in Nat
  /\ payload \in [Entity -> Nat]

TodoOK == todo \in [Thread -> SUBSET Entity]

SnapshotsOK ==
  /\ known \in Snapshots
  /\ told \in Snapshots
  /\ shot \in [Thread -> Snapshots]

StagedOK == staged \in [Thread -> Seq(EntityStates)]

LogOK ==
  /\ log \in Seq(Publications)
  /\ taken \in 0 .. Len(log)

TypeInv == PlacesOK /\ NumbersOK /\ TodoOK /\ SnapshotsOK /\ StagedOK /\ LogOK

LEMMA TypeParts == (TypeInv <=> TypeOK) /\ (TypeInv' <=> TypeOK')
BY DEF TypeInv, TypeOK, PlacesOK, NumbersOK, TodoOK, SnapshotsOK, StagedOK, LogOK, Places

LEMMA Threads ==
  /\ Coach \in Thread /\ Coach \in Publisher /\ Maintenance \in Thread
  /\ Publisher \subseteq Thread
  /\ Free \notin Thread
BY PipelineAssumption DEF Thread, Publisher

(* Publications are well-formed. *)
LEMMA PublicationTyped ==
  /\ \A n \in Nat : Publication("raw", n, "reading") \in Publications
  /\ \A n \in Nat, e \in Entity : Publication("entity", n, e) \in EntityStates
  /\ \A n \in Nat, e \in Entity : Publication("republished", n, e) \in Publications
  /\ \A n \in Nat, s \in Availability : Publication("variables", n, s) \in Publications
  /\ \A n \in Nat, s \in {"active", "cleared"} : Publication("event", n, s) \in Publications
  /\ EntityStates \subseteq Publications
BY DEF Publication, Publications, EntityStates

(* A put keeps what the queue holds and adds one publication behind it. *)
LEMMA PutEffect ==
  ASSUME LogOK, NEW p \in Publications, Put(p)
  PROVE  /\ LogOK'
         /\ Len(log') = Len(log) + 1
         /\ log'[Len(log) + 1] = p
         /\ \A i \in 1 .. Len(log) : log'[i] = log[i]
BY DEF LogOK, Put

LEMMA StagedEffect ==
  ASSUME NEW s \in Seq(EntityStates), s # <<>>
  PROVE  /\ Head(s) \in EntityStates
         /\ Head(s) = s[1]
         /\ 1 \in 1 .. Len(s)
         /\ Tail(s) \in Seq(EntityStates)
         /\ Len(Tail(s)) = Len(s) - 1
         /\ \A i \in 1 .. Len(Tail(s)) : i + 1 \in 1 .. Len(s) /\ Tail(s)[i] = s[i + 1]
BY HeadTailProperties, EmptySeq

LEMMA PlacesStep == PlacesOK /\ NumbersOK /\ [Next]_vars => PlacesOK'
<1> SUFFICES ASSUME PlacesOK, NumbersOK, [Next]_vars PROVE PlacesOK'
  OBVIOUS
<1> USE Threads DEF PlacesOK, Places, Goto, Leave, threadVars, trackerVars, contextVars, logVars
<1>1. ASSUME NEW t \in Publisher, Enter(t) PROVE PlacesOK'
  BY <1>1 DEF Enter
<1>2. ASSUME NEW t \in Publisher, ApplyFails(t) \/ Apply(t) \/ PutRaw(t) \/ PutStaged(t) PROVE PlacesOK'
  BY <1>2 DEF ApplyFails, Apply, PutRaw, PutStaged
<1>3. CASE Wake
  BY <1>3 DEF Wake
<1>4. ASSUME NEW t \in Thread, Finish(t) PROVE PlacesOK'
  BY <1>4 DEF Finish, Snapshot, PutVariables, Evaluate, PutEvent
<1>5. CASE Republish
  BY <1>5 DEF Republish
<1>6. CASE PutRepublished
  BY <1>6 DEF PutRepublished
<1>7. CASE EndRepublish
  BY <1>7 DEF EndRepublish
<1>8. CASE Take \/ Expire \/ UNCHANGED vars
  BY <1>8 DEF Take, Expire, vars
<1> QED BY <1>1, <1>2, <1>3, <1>4, <1>5, <1>6, <1>7, <1>8 DEF Next, Publish

LEMMA NumbersStep == NumbersOK /\ TodoOK /\ [Next]_vars => NumbersOK' /\ TodoOK'
<1> SUFFICES ASSUME NumbersOK, TodoOK, [Next]_vars PROVE NumbersOK' /\ TodoOK'
  OBVIOUS
<1> USE Threads DEF NumbersOK, TodoOK, Leave, threadVars, trackerVars, contextVars, logVars
<1>1. ASSUME NEW t \in Publisher, Enter(t) PROVE NumbersOK' /\ TodoOK'
  <2>1. PICK r \in Reading : todo' = [todo EXCEPT ![t] = Maps[r]]
    BY <1>1 DEF Enter
  <2>2. Maps[r] \subseteq Entity
    BY PipelineAssumption
  <2>3. TodoOK'
    BY <2>1, <2>2
  <2>4. NumbersOK'
    BY <1>1 DEF Enter
  <2> QED BY <2>3, <2>4
<1>2. ASSUME NEW t \in Publisher, Apply(t) PROVE NumbersOK' /\ TodoOK'
  <2>1. TodoOK'
    BY <1>2 DEF Apply
  <2>2. cur[t] \in Nat
    OBVIOUS
  <2>3. NumbersOK'
    BY <1>2, <2>2 DEF Apply
  <2> QED BY <2>1, <2>3
<1>3. ASSUME NEW t \in Publisher, ApplyFails(t) \/ PutRaw(t) \/ PutStaged(t) PROVE NumbersOK' /\ TodoOK'
  BY <1>3 DEF ApplyFails, PutRaw, PutStaged
<1>4. CASE Wake
  BY <1>4 DEF Wake
<1>5. ASSUME NEW t \in Thread, Finish(t) PROVE NumbersOK' /\ TodoOK'
  BY <1>5 DEF Finish, Snapshot, PutVariables, Evaluate, PutEvent
<1>6. CASE Republish
  <2>1. PICK selection \in SUBSET Entity :
          copy' = [e \in Entity |-> IF e \in selection THEN payload[e] ELSE 0]
    BY <1>6 DEF Republish
  <2>2. copy' \in [Entity -> Nat]
    BY <2>1
  <2> QED BY <1>6, <2>2 DEF Republish
<1>7. CASE PutRepublished \/ EndRepublish
  BY <1>7 DEF PutRepublished, EndRepublish
<1>8. CASE Take \/ Expire \/ UNCHANGED vars
  BY <1>8 DEF Take, Expire, vars
<1> QED BY <1>1, <1>2, <1>3, <1>4, <1>5, <1>6, <1>7, <1>8 DEF Next, Publish

LEMMA SnapshotsStep == NumbersOK /\ SnapshotsOK /\ [Next]_vars => SnapshotsOK'
<1> SUFFICES ASSUME NumbersOK, SnapshotsOK, [Next]_vars PROVE SnapshotsOK'
  OBVIOUS
<1> USE Threads DEF SnapshotsOK, Leave, threadVars, trackerVars, contextVars, logVars
<1>1. \A n \in Nat : \A s \in Availability : [of |-> n, status |-> s] \in Snapshots
  BY DEF Snapshots
<1>2. Nothing \in Snapshots
  BY <1>1 DEF Nothing, Availability
<1>3. ASSUME NEW t \in Publisher, Enter(t) PROVE SnapshotsOK'
  <2>1. readings + 1 \in Nat
    BY DEF NumbersOK
  <2>2. \A r \in Reading : update(r, readings + 1) => known' \in Snapshots
    BY <1>1, <2>1 DEF update, Availability
  <2> QED BY <1>3, <2>2 DEF Enter
<1>4. ASSUME NEW t \in Publisher, ApplyFails(t) \/ Apply(t) \/ PutRaw(t) \/ PutStaged(t) PROVE SnapshotsOK'
  BY <1>4 DEF ApplyFails, Apply, PutRaw, PutStaged
<1>5. ASSUME NEW t \in Thread, Finish(t) PROVE SnapshotsOK'
  BY <1>2, <1>5 DEF Finish, Snapshot, PutVariables, Evaluate, PutEvent
<1>6. CASE Expire
  <2>1. known.of \in Nat
    BY DEF Snapshots
  <2> QED BY <1>1, <1>6, <2>1 DEF Expire, Availability
<1>7. CASE Wake \/ Republish \/ PutRepublished \/ EndRepublish \/ Take \/ UNCHANGED vars
  BY <1>7 DEF Wake, Republish, PutRepublished, EndRepublish, Take, vars
<1> QED BY <1>3, <1>4, <1>5, <1>6, <1>7 DEF Next, Publish

LEMMA StagedStep == NumbersOK /\ TodoOK /\ StagedOK /\ [Next]_vars => StagedOK'
<1> SUFFICES ASSUME NumbersOK, TodoOK, StagedOK, [Next]_vars PROVE StagedOK'
  OBVIOUS
<1> USE Threads DEF StagedOK, threadVars, trackerVars, contextVars, logVars
<1>1. ASSUME NEW t \in Publisher, Apply(t) PROVE StagedOK'
  <2>1. PICK e \in todo[t] :
          \/ staged' = [staged EXCEPT ![t] = Append(staged[t], Publication("entity", cur[t], e))]
          \/ staged' = staged
    BY <1>1 DEF Apply
  <2>2. e \in Entity /\ cur[t] \in Nat
    BY DEF NumbersOK, TodoOK
  <2>3. Append(staged[t], Publication("entity", cur[t], e)) \in Seq(EntityStates)
    <3>1. Publication("entity", cur[t], e) \in EntityStates /\ staged[t] \in Seq(EntityStates)
      BY <2>2, PublicationTyped
    <3> QED BY <3>1
  <2> QED BY <2>1, <2>3
<1>2. ASSUME NEW t \in Publisher, PutStaged(t) PROVE StagedOK'
  <2>1. Tail(staged[t]) \in Seq(EntityStates)
    BY <1>2, StagedEffect DEF PutStaged
  <2> QED BY <1>2, <2>1 DEF PutStaged
<1>3. ASSUME NEW t \in Publisher, Enter(t) \/ ApplyFails(t) \/ PutRaw(t) PROVE StagedOK'
  BY <1>3 DEF Enter, ApplyFails, PutRaw
<1>4. ASSUME NEW t \in Thread, Finish(t) PROVE StagedOK'
  BY <1>4 DEF Finish, Snapshot, PutVariables, Evaluate, PutEvent
<1>5. CASE Wake \/ Republish \/ PutRepublished \/ EndRepublish \/ Take \/ Expire \/ UNCHANGED vars
  BY <1>5 DEF Wake, Republish, PutRepublished, EndRepublish, Take, Expire, vars
<1> QED BY <1>1, <1>2, <1>3, <1>4, <1>5 DEF Next, Publish
-----------------------------------------------------------------------------
(* What a step adds to the queue. *)

Puts(p) ==
  \/ \E t \in Publisher : PutRaw(t) /\ p = Publication("raw", cur[t], "reading")
  \/ \E t \in Publisher : PutStaged(t) /\ p = Head(staged[t])
  \/ \E t \in Thread : PutVariables(t) /\ p = Publication("variables", shot[t].of, shot[t].status)
  \/ \E t \in Thread : PutEvent(t) /\ p = Publication("event", shot[t].of, active)
  \/ \E e \in Entity : /\ PutRepublished
                       /\ copy[e] # 0
                       /\ p = Publication("republished", copy[e], e)

LEMMA LogStep ==
  ASSUME TypeInv, [Next]_vars
  PROVE  \/ log' = log /\ taken' \in 0 .. Len(log)
         \/ \E p \in Publications : Put(p) /\ Puts(p)
<1> USE Threads, PublicationTyped DEF TypeInv, threadVars, trackerVars, contextVars, logVars
<1>0. taken \in 0 .. Len(log) /\ Len(log) \in Nat
  BY DEF LogOK
<1>1. ASSUME NEW t \in Publisher, Enter(t) \/ ApplyFails(t) \/ Apply(t)
      PROVE  log' = log /\ taken' = taken
  BY <1>1 DEF Enter, ApplyFails, Apply
<1>2. ASSUME NEW t \in Publisher, PutRaw(t)
      PROVE  \E p \in Publications : Put(p) /\ Puts(p)
  <2>1. Publication("raw", cur[t], "reading") \in Publications
    BY DEF NumbersOK
  <2> QED BY <1>2, <2>1 DEF PutRaw, Puts
<1>3. ASSUME NEW t \in Publisher, PutStaged(t)
      PROVE  \E p \in Publications : Put(p) /\ Puts(p)
  <2>1. Head(staged[t]) \in Publications
    BY <1>3, StagedEffect DEF PutStaged, StagedOK
  <2> QED BY <1>3, <2>1 DEF PutStaged, Puts
<1>4. ASSUME NEW t \in Thread, PutVariables(t)
      PROVE  \E p \in Publications : Put(p) /\ Puts(p)
  <2>1. shot[t].of \in Nat /\ shot[t].status \in Availability
    BY DEF SnapshotsOK, Snapshots
  <2>2. Publication("variables", shot[t].of, shot[t].status) \in Publications
    BY <2>1
  <2> QED BY <1>4, <2>2 DEF PutVariables, Puts
<1>5. ASSUME NEW t \in Thread, PutEvent(t)
      PROVE  \E p \in Publications : Put(p) /\ Puts(p)
  <2>1. shot[t].of \in Nat /\ active \in {"active", "cleared"}
    BY DEF SnapshotsOK, Snapshots, PlacesOK
  <2>2. Publication("event", shot[t].of, active) \in Publications
    BY <2>1
  <2> QED BY <1>5, <2>2 DEF PutEvent, Puts
<1>6. ASSUME NEW t \in Thread, Snapshot(t) \/ Evaluate(t)
      PROVE  log' = log /\ taken' = taken
  BY <1>6 DEF Snapshot, Evaluate
<1>7. CASE PutRepublished
  <2>1. PICK e \in Entity :
          /\ copy[e] # 0
          /\ IF PublishState THEN Put(Publication("republished", copy[e], e)) ELSE UNCHANGED logVars
    BY <1>7 DEF PutRepublished
  <2>2. Publication("republished", copy[e], e) \in Publications
    BY DEF NumbersOK
  <2> QED BY <1>0, <1>7, <2>1, <2>2 DEF Puts
<1>8. CASE Take
  BY <1>0, <1>8 DEF Take
<1>9. ASSUME Wake \/ Republish \/ EndRepublish \/ Expire \/ UNCHANGED vars
      PROVE  log' = log /\ taken' = taken
  BY <1>9 DEF Wake, Republish, EndRepublish, Expire, vars
<1> QED
  BY <1>0, <1>1, <1>2, <1>3, <1>4, <1>5, <1>6, <1>7, <1>8, <1>9 DEF Next, Publish, Finish

LEMMA LogTyped == TypeInv /\ [Next]_vars => LogOK'
<1> SUFFICES ASSUME TypeInv, [Next]_vars PROVE LogOK'
  OBVIOUS
<1>1. CASE log' = log /\ taken' \in 0 .. Len(log)
  BY <1>1 DEF TypeInv, LogOK
<1>2. ASSUME NEW p \in Publications, Put(p) PROVE LogOK'
  BY <1>2, PutEffect DEF TypeInv
<1> QED BY <1>1, <1>2, LogStep

LEMMA TypeStep == TypeInv /\ [Next]_vars => TypeInv'
BY PlacesStep, NumbersStep, SnapshotsStep, StagedStep, LogTyped DEF TypeInv

LEMMA TypeInit == Init => TypeInv
<1> SUFFICES ASSUME Init PROVE TypeInv
  OBVIOUS
<1>1. Nothing \in Snapshots
  BY DEF Nothing, Snapshots, Availability
<1>2. PlacesOK /\ NumbersOK /\ TodoOK
  BY DEF Init, PlacesOK, Places, NumbersOK, TodoOK
<1>3. SnapshotsOK
  BY <1>1 DEF Init, SnapshotsOK
<1>4. StagedOK /\ LogOK
  <2>1. <<>> \in Seq(EntityStates) /\ <<>> \in Seq(Publications)
    BY EmptySeq
  <2>2. log = <<>> /\ taken = 0 /\ Len(log) = 0
    BY DEF Init
  <2> QED BY <2>1, <2>2 DEF Init, StagedOK, LogOK
<1> QED BY <1>2, <1>3, <1>4 DEF TypeInv

(* Every variable keeps its type in every reachable state. *)
THEOREM PipelineTypeCorrect == Spec => []TypeOK
BY TypeInit, TypeStep, TypeParts, PTL DEF Spec

(* The positions of some kinds of publications, before and after a put. *)
LEMMA PositionsStep ==
  ASSUME LogOK, NEW p \in Publications, Put(p), NEW K
  PROVE  /\ p.kind \in K => Positions(K)' = Positions(K) \cup {Len(log) + 1}
         /\ p.kind \notin K => Positions(K)' = Positions(K)
         /\ \A i \in Positions(K) : i \in Nat /\ i < Len(log) + 1
         /\ \A i \in Positions(K) : log'[i] = log[i]
         /\ log'[Len(log) + 1] = p
<1>1. /\ Len(log) \in Nat
      /\ Len(log') = Len(log) + 1
      /\ log'[Len(log) + 1] = p
      /\ \A i \in 1 .. Len(log) : log'[i] = log[i]
  BY PutEffect DEF LogOK
<1>2. Positions(K)' = {i \in 1 .. Len(log) + 1 : log'[i].kind \in K}
  BY <1>1 DEF Positions
<1>3. \A i : i \in Positions(K) <=> i \in 1 .. Len(log) /\ log[i].kind \in K
  BY DEF Positions
<1>4. \A i : i \in Positions(K)' <=> i \in 1 .. Len(log) + 1 /\ log'[i].kind \in K
  BY <1>2
<1>5. \A i : i \in 1 .. Len(log) + 1 <=> i \in 1 .. Len(log) \/ i = Len(log) + 1
  BY <1>1
<1>6. p.kind \in K => Positions(K)' = Positions(K) \cup {Len(log) + 1}
  BY <1>1, <1>3, <1>4, <1>5
<1>7. p.kind \notin K => Positions(K)' = Positions(K)
  BY <1>1, <1>3, <1>4, <1>5
<1> QED BY <1>1, <1>3, <1>6, <1>7
-----------------------------------------------------------------------------
(* The locks. *)

LEMMA LockStep ==
  ASSUME TypeInv, LockInv, [Next]_vars
  PROVE  LockInv'
<1> USE Threads DEF TypeInv, PlacesOK, Places, Inside, LockInv, Goto, Leave,
        threadVars, trackerVars, contextVars, logVars
<1>1. ASSUME NEW t \in Publisher, Enter(t) PROVE LockInv'
  BY <1>1 DEF Enter
<1>2. ASSUME NEW t \in Publisher, ApplyFails(t) \/ Apply(t) \/ PutRaw(t) \/ PutStaged(t) PROVE LockInv'
  BY <1>2 DEF ApplyFails, Apply, PutRaw, PutStaged
<1>3. CASE Wake
  BY <1>3 DEF Wake
<1>4. ASSUME NEW t \in Thread, Snapshot(t) PROVE LockInv'
  BY <1>4 DEF Snapshot
<1>5. ASSUME NEW t \in Thread, PutVariables(t) PROVE LockInv'
  BY <1>5 DEF PutVariables
<1>6. ASSUME NEW t \in Thread, Evaluate(t) PROVE LockInv'
  BY <1>6 DEF Evaluate
<1>7. ASSUME NEW t \in Thread, PutEvent(t) PROVE LockInv'
  BY <1>7 DEF PutEvent
<1>8. CASE Republish
  BY <1>8 DEF Republish
<1>9. CASE PutRepublished
  BY <1>9 DEF PutRepublished
<1>10. CASE EndRepublish
  BY <1>10 DEF EndRepublish
<1>11. CASE Take \/ Expire \/ UNCHANGED vars
  BY <1>11 DEF Take, Expire, vars
<1> QED
  BY <1>1, <1>2, <1>3, <1>4, <1>5, <1>6, <1>7, <1>8, <1>9, <1>10, <1>11 DEF Next, Publish, Finish

LEMMA StagedInvStep ==
  ASSUME TypeInv, LockInv, StagedInv, [Next]_vars
  PROVE  StagedInv'
<1> USE Threads DEF threadVars, trackerVars, contextVars, logVars
<1>1. /\ pc \in [Thread -> Places]
      /\ cur \in [Thread -> Nat]
      /\ staged \in [Thread -> Seq(EntityStates)]
      /\ payload \in [Entity -> Nat]
      /\ readings \in Nat
  BY DEF TypeInv, PlacesOK, NumbersOK, StagedOK
<1>2. \A t, u \in Thread : pc[t] \in Inside /\ pc[u] \in Inside => t = u
  BY DEF LockInv
<1>3. ASSUME UNCHANGED <<cur, staged, readings, payload>>,
             \A t \in Thread : pc'[t] = "apply" => pc[t] = "apply",
             \A t \in Thread : pc[t] \in {"apply", "derived"} =>
                pc'[t] \in {"apply", "derived"} \/ staged[t] = <<>>
      PROVE  StagedInv'
  BY <1>3 DEF StagedInv
<1>4. ASSUME NEW t \in Publisher, Enter(t) PROVE StagedInv'
  <2>1. /\ \A u \in Thread : pc[u] \notin Inside
        /\ \A u \in Thread : staged'[u] = <<>>
    BY <1>4 DEF Enter, LockInv, StagedInv, Inside
  <2>2. \A u \in Thread : pc'[u] = "apply" => u = t
    BY <1>1, <1>4, <2>1 DEF Enter, Goto, Inside
  <2>3. cur'[t] = readings' /\ readings' > 0
    BY <1>1, <1>4 DEF Enter
  <2> QED BY <2>1, <2>2, <2>3 DEF StagedInv
<1>5. ASSUME NEW t \in Publisher, ApplyFails(t) PROVE StagedInv'
  BY <1>3, <1>5 DEF ApplyFails
<1>6. ASSUME NEW t \in Publisher, Apply(t) PROVE StagedInv'
  <2>0. PICK e \in todo[t] :
          \/ /\ payload' = [payload EXCEPT ![e] = cur[t]]
             /\ IF PublishState
                THEN staged' = [staged EXCEPT ![t] = Append(staged[t], Publication("entity", cur[t], e))]
                ELSE UNCHANGED staged
          \/ UNCHANGED <<payload, staged>>
    BY <1>6 DEF Apply
  <2>1. /\ e \in Entity
        /\ UNCHANGED <<pc, cur, readings>>
        /\ pc[t] = "apply" /\ cur[t] = readings /\ readings > 0
    BY <1>6 DEF Apply, StagedInv, TypeInv, TodoOK
  <2>2. CASE UNCHANGED <<payload, staged>>
    BY <1>3, <2>1, <2>2
  <2>3. ASSUME payload' = [payload EXCEPT ![e] = cur[t]],
               staged' = staged \/
                 staged' = [staged EXCEPT ![t] = Append(staged[t], Publication("entity", cur[t], e))]
        PROVE  StagedInv'
    <3>1. \A u \in Thread : u # t => staged[u] = <<>> /\ staged'[u] = <<>>
      BY <1>1, <1>2, <2>1, <2>3 DEF StagedInv, Inside
    <3>2. \A d \in Entity : payload'[d] = IF d = e THEN readings ELSE payload[d]
      BY <1>1, <2>1, <2>3
    <3>3. \A i \in 1 .. Len(staged[t]) : /\ staged[t][i].kind = "entity"
                                         /\ staged[t][i].of = readings
                                         /\ payload'[staged[t][i].about] = readings
      <4>1. ASSUME NEW i \in 1 .. Len(staged[t]) PROVE staged[t][i].about \in Entity
        <5>1. staged[t][i] \in EntityStates
          BY <1>1
        <5> QED BY <5>1 DEF EntityStates
      <4> QED BY <3>2, <4>1 DEF StagedInv
    <3>4. ASSUME NEW i \in 1 .. Len(staged'[t])
          PROVE  /\ staged'[t][i].kind = "entity"
                 /\ staged'[t][i].of = readings
                 /\ payload'[staged'[t][i].about] = readings
      <4>1. CASE staged' = staged
        BY <3>3, <3>4, <4>1
      <4>2. CASE staged' = [staged EXCEPT ![t] = Append(staged[t], Publication("entity", cur[t], e))]
        <5> DEFINE p == Publication("entity", cur[t], e)
        <5>1. staged'[t] = Append(staged[t], p)
          BY <1>1, <4>2
        <5>2. p.kind = "entity" /\ p.of = readings /\ p.about = e
          BY <2>1 DEF Publication
        <5>3. payload'[e] = readings
          BY <2>1, <3>2
        <5>4. i \in 1 .. Len(staged[t]) \/ i = Len(staged[t]) + 1
          BY <1>1, <5>1
        <5> HIDE DEF p
        <5>5. staged'[t][i] = IF i = Len(staged[t]) + 1 THEN p ELSE staged[t][i]
          BY <1>1, <5>1, <5>4
        <5> QED BY <3>3, <5>2, <5>3, <5>4, <5>5
      <4> QED BY <2>3, <4>1, <4>2
    <3> QED BY <2>1, <3>1, <3>4 DEF StagedInv
  <2> QED BY <2>0, <2>2, <2>3
<1>7. ASSUME NEW t \in Publisher, PutRaw(t) PROVE StagedInv'
  BY <1>1, <1>3, <1>7 DEF PutRaw, Goto
<1>8. ASSUME NEW t \in Publisher, PutStaged(t) PROVE StagedInv'
  <2>1. /\ UNCHANGED <<pc, cur, readings, payload>>
        /\ pc[t] = "derived" /\ staged[t] # <<>>
        /\ staged' = [staged EXCEPT ![t] = Tail(staged[t])]
    BY <1>8 DEF PutStaged
  <2>2. \A i \in 1 .. Len(Tail(staged[t])) :
          i + 1 \in 1 .. Len(staged[t]) /\ Tail(staged[t])[i] = staged[t][i + 1]
    BY <1>1, <2>1, StagedEffect
  <2>3. \A u \in Thread : u # t => staged'[u] = staged[u]
    BY <1>1, <2>1
  <2>4. staged'[t] = Tail(staged[t])
    BY <1>1, <2>1
  <2>5. ASSUME NEW i \in 1 .. Len(staged'[t])
        PROVE  /\ staged'[t][i].kind = "entity"
               /\ staged'[t][i].of = readings
               /\ payload[staged'[t][i].about] = readings
    BY <2>2, <2>4, <2>5 DEF StagedInv
  <2> QED BY <2>1, <2>3, <2>5 DEF StagedInv
<1>9. CASE Wake
  BY <1>1, <1>3, <1>9 DEF Wake, Goto
<1>10. ASSUME NEW t \in Thread, Snapshot(t) PROVE StagedInv'
  BY <1>1, <1>3, <1>10 DEF Snapshot, Goto
<1>11. ASSUME NEW t \in Thread, PutVariables(t) PROVE StagedInv'
  BY <1>1, <1>3, <1>11 DEF PutVariables, Goto
<1>12. ASSUME NEW t \in Thread, Evaluate(t) \/ PutEvent(t) PROVE StagedInv'
  <2>1. /\ UNCHANGED <<staged, readings, payload>>
        /\ pc[t] \in {"evaluate", "event"} /\ pc'[t] \in {"idle", "event"}
        /\ \A u \in Thread : u # t => pc'[u] = pc[u] /\ cur'[u] = cur[u]
    BY <1>1, <1>12 DEF Evaluate, PutEvent, Leave, Goto
  <2> QED BY <2>1 DEF StagedInv
<1>13. CASE Republish \/ EndRepublish
  BY <1>1, <1>3, <1>13 DEF Republish, EndRepublish, Goto
<1>14. CASE PutRepublished \/ Take \/ Expire \/ UNCHANGED vars
  BY <1>3, <1>14 DEF PutRepublished, Take, Expire, vars
<1> QED
  BY <1>4, <1>5, <1>6, <1>7, <1>8, <1>9, <1>10, <1>11, <1>12, <1>13, <1>14 DEF Next, Publish, Finish
-----------------------------------------------------------------------------
(* The raw readings. *)

(* A reading begins to be applied when a thread enters and is queued when it *)
(* puts; no other step has to do with either.                                *)
LEMMA ReadingsStep ==
  ASSUME TypeInv, [Next]_vars
  PROVE  \/ \E t \in Publisher : Enter(t)
         \/ \E t \in Publisher : PutRaw(t)
         \/ readings' = readings /\ (Applying' <=> Applying)
<1> USE Threads DEF TypeInv, PlacesOK, Places, Goto, Leave, threadVars, trackerVars, contextVars, logVars
<1>1. ASSUME readings' = readings, \A t \in Thread : pc'[t] = "apply" <=> pc[t] = "apply"
      PROVE  readings' = readings /\ (Applying' <=> Applying)
  BY <1>1 DEF Applying
<1>2. ASSUME NEW t \in Publisher, ApplyFails(t) \/ Apply(t) \/ PutStaged(t)
      PROVE  readings' = readings /\ (Applying' <=> Applying)
  BY <1>1, <1>2 DEF ApplyFails, Apply, PutStaged
<1>3. ASSUME NEW t \in Thread, Finish(t)
      PROVE  readings' = readings /\ (Applying' <=> Applying)
  BY <1>1, <1>3 DEF Finish, Snapshot, PutVariables, Evaluate, PutEvent
<1>4. ASSUME Wake \/ Republish \/ EndRepublish
      PROVE  readings' = readings /\ (Applying' <=> Applying)
  BY <1>1, <1>4 DEF Wake, Republish, EndRepublish
<1>5. ASSUME PutRepublished \/ Take \/ Expire \/ UNCHANGED vars
      PROVE  readings' = readings /\ (Applying' <=> Applying)
  BY <1>1, <1>5 DEF PutRepublished, Take, Expire, vars
<1> QED BY <1>2, <1>3, <1>4, <1>5 DEF Next, Publish

(* What is put by whom. *)
LEMMA PutKinds ==
  ASSUME TypeInv, StagedInv, NEW p, Puts(p)
  PROVE  /\ p.kind = "raw" => \E t \in Publisher : PutRaw(t) /\ p.of = cur[t]
         /\ p.kind = "entity" =>
              \E t \in Publisher : /\ PutStaged(t)
                                   /\ p.of = readings
                                   /\ payload[p.about] = readings
         /\ p.kind = "variables" =>
              \E t \in Thread : PutVariables(t) /\ p.of = shot[t].of /\ p.about = shot[t].status
         /\ p.kind = "event" =>
              \E t \in Thread : PutEvent(t) /\ p.of = shot[t].of /\ p.about = active
         /\ p.kind = "republished" =>
              \E e \in Entity : PutRepublished /\ copy[e] # 0 /\ p.of = copy[e] /\ p.about = e
<1> USE DEF Publication
<1>1. ASSUME NEW t \in Publisher, PutStaged(t), p = Head(staged[t])
      PROVE  p.kind = "entity" /\ p.of = readings /\ payload[p.about] = readings
  <2>1. p = staged[t][1] /\ 1 \in 1 .. Len(staged[t]) /\ t \in Thread
    BY <1>1, StagedEffect, Threads DEF TypeInv, StagedOK, PutStaged
  <2> QED BY <2>1 DEF StagedInv
<1>2. ASSUME NEW t \in Publisher, PutRaw(t), p = Publication("raw", cur[t], "reading")
      PROVE  p.kind = "raw" /\ p.of = cur[t]
  BY <1>2
<1>3. ASSUME NEW t \in Thread, PutVariables(t), p = Publication("variables", shot[t].of, shot[t].status)
      PROVE  p.kind = "variables" /\ p.of = shot[t].of /\ p.about = shot[t].status
  BY <1>3
<1>4. ASSUME NEW t \in Thread, PutEvent(t), p = Publication("event", shot[t].of, active)
      PROVE  p.kind = "event" /\ p.of = shot[t].of /\ p.about = active
  BY <1>4
<1>5. ASSUME NEW e \in Entity, p = Publication("republished", copy[e], e)
      PROVE  p.kind = "republished" /\ p.of = copy[e] /\ p.about = e
  BY <1>5
<1> HIDE DEF Publication
<1> QED BY <1>1, <1>2, <1>3, <1>4, <1>5 DEF Puts

(* Nobody else is inside while a thread puts its reading. *)
LEMMA PutRawEnds ==
  ASSUME TypeInv, LockInv, StagedInv, NEW t \in Publisher, PutRaw(t)
  PROVE  Applying /\ ~ Applying' /\ cur[t] = readings /\ readings > 0 /\ readings' = readings
<1>1. \A u \in Thread : u # t => pc[u] # "apply"
  BY Threads DEF LockInv, Inside, PutRaw
<1>2. pc[t] = "apply" /\ pc' = [pc EXCEPT ![t] = "derived"] /\ t \in Thread
  BY Threads DEF PutRaw, Goto
<1> QED BY <1>1, <1>2 DEF Applying, StagedInv, TypeInv, PlacesOK, PutRaw

LEMMA RawStep ==
  ASSUME TypeInv, LockInv, StagedInv, RawInv, TelemetryInOrder, [Next]_vars
  PROVE  RawInv' /\ TelemetryInOrder'
<1> DEFINE Raw == Positions({"raw"})
<1>0. readings \in Nat /\ LogOK /\ Len(log) \in Nat
  BY DEF TypeInv, NumbersOK, LogOK
<1>1. ASSUME Raw' = Raw, \A i \in Raw : log'[i] = log[i] PROVE TelemetryInOrder'
  BY <1>1 DEF TelemetryInOrder
<1>2. ASSUME Raw' = Raw, \A i \in Raw : log'[i] = log[i], readings' = readings, Applying' <=> Applying
      PROVE  RawInv'
  <2>1. \A n : Sent(n)' <=> Sent(n)
    BY <1>2 DEF Sent
  <2> QED BY <1>2, <2>1 DEF RawInv
<1>3. ASSUME NEW t \in Publisher, Enter(t) PROVE RawInv' /\ TelemetryInOrder'
  <2>1. /\ log' = log
        /\ readings' = readings + 1
        /\ ~ Applying
        /\ Applying'
    BY <1>3, Threads
    DEF Enter, Applying, LockInv, Inside, TypeInv, PlacesOK, Goto, trackerVars, logVars
  <2>2. Raw' = Raw /\ \A i \in Raw : log'[i] = log[i]
    BY <2>1 DEF Positions
  <2>3. \A n : Sent(n)' <=> Sent(n)
    BY <2>2 DEF Sent
  <2>4. RawInv'
    BY <1>0, <2>1, <2>2, <2>3 DEF RawInv
  <2> QED BY <1>1, <2>2, <2>4
<1>4. ASSUME NEW p \in Publications, Put(p), Puts(p) PROVE RawInv' /\ TelemetryInOrder'
  <2>1. CASE p.kind # "raw"
    <3>1. Raw' = Raw /\ \A i \in Raw : log'[i] = log[i]
      BY <1>0, <1>4, <2>1, PositionsStep
    <3>2. \A t \in Publisher : ~ PutRaw(t) /\ ~ Enter(t)
      <4>1. ASSUME NEW t \in Publisher, PutRaw(t) PROVE p.kind = "raw"
        <5>1. Len(log') = Len(log) + 1 /\ log'[Len(log) + 1] = p
          BY <1>0, <1>4, PutEffect
        <5>2. Put(Publication("raw", cur[t], "reading"))
          BY <4>1 DEF PutRaw
        <5>3. log'[Len(log) + 1] = Publication("raw", cur[t], "reading")
          <6>1. Publication("raw", cur[t], "reading") \in Publications
            BY Threads, PublicationTyped DEF TypeInv, NumbersOK
          <6> QED BY <1>0, <5>2, <6>1, PutEffect
        <5> QED BY <5>1, <5>3 DEF Publication
      <4>2. ASSUME NEW t \in Publisher, Enter(t) PROVE FALSE
        <5>1. log' = log
          BY <4>2 DEF Enter, logVars
        <5> QED BY <1>0, <1>4, <5>1, PutEffect
      <4> QED BY <2>1, <4>1, <4>2
    <3>3. readings' = readings /\ (Applying' <=> Applying)
      BY <3>2, ReadingsStep
    <3> QED BY <1>1, <1>2, <3>1, <3>3
  <2>2. CASE p.kind = "raw"
    <3>1. PICK t \in Publisher : PutRaw(t) /\ p.of = cur[t]
      BY <1>4, <2>2, PutKinds
    <3>2. Applying /\ ~ Applying' /\ p.of = readings /\ readings > 0 /\ readings' = readings
      BY <3>1, PutRawEnds
    <3>3. /\ Raw' = Raw \cup {Len(log) + 1}
          /\ \A i \in Raw : i \in Nat /\ i < Len(log) + 1 /\ log'[i] = log[i]
          /\ log'[Len(log) + 1].of = readings
      BY <1>0, <1>4, <2>2, <3>2, PositionsStep
    <3>4. \A i \in Raw : log[i].of \in 1 .. readings - 1
      BY <1>0, <3>2 DEF RawInv
    <3>5. \A n \in 1 .. readings - 1 : \E i \in Raw : log[i].of = n
      BY <1>0 DEF RawInv, Sent
    <3>6. TelemetryInOrder'
      <4> SUFFICES ASSUME NEW j \in Raw'
                   PROVE  /\ \A i \in Raw' : i < j => log'[i].of < log'[j].of
                          /\ \A n \in 1 .. log'[j].of - 1 : \E i \in Raw' : i < j /\ log'[i].of = n
        BY DEF TelemetryInOrder
      <4>1. CASE j = Len(log) + 1
        <5>1. log'[j].of = readings
          BY <3>3, <4>1
        <5>2. ASSUME NEW i \in Raw', i < j PROVE log'[i].of < readings
          <6>1. i \in Raw
            BY <1>0, <3>3, <4>1, <5>2
          <6>2. log'[i] = log[i] /\ log[i].of < readings
            BY <1>0, <3>3, <3>4, <6>1
          <6> QED BY <6>2
        <5>3. ASSUME NEW n \in 1 .. readings - 1 PROVE \E i \in Raw' : i < j /\ log'[i].of = n
          <6>1. PICK i \in Raw : log[i].of = n
            BY <3>5
          <6> QED BY <3>3, <4>1, <6>1
        <5> QED BY <5>1, <5>2, <5>3
      <4>2. CASE j \in Raw
        <5>1. \A i \in Raw' : i < j => i \in Raw
          BY <1>0, <3>3, <4>2
        <5>2. /\ \A i \in Raw : i < j => log[i].of < log[j].of
              /\ \A n \in 1 .. log[j].of - 1 : \E i \in Raw : i < j /\ log[i].of = n
          BY <4>2 DEF TelemetryInOrder
        <5> QED BY <3>3, <4>2, <5>1, <5>2
      <4> QED BY <3>3, <4>1, <4>2
    <3>7. RawInv'
      <4>1. \A i \in Raw' : log'[i].of \in 1 .. readings'
        BY <1>0, <3>2, <3>3, <3>4
      <4>2. ASSUME NEW n \in 1 .. readings PROVE Sent(n)'
        <5>1. CASE n = readings
          BY <3>3, <5>1 DEF Sent
        <5>2. CASE n # readings
          <6>1. PICK i \in Raw : log[i].of = n
            BY <1>0, <3>5, <5>2
          <6> QED BY <3>3, <6>1 DEF Sent
        <5> QED BY <5>1, <5>2
      <4> QED BY <3>2, <4>1, <4>2 DEF RawInv
    <3> QED BY <3>6, <3>7
  <2> QED BY <2>1, <2>2
<1>5. CASE log' = log /\ \A t \in Publisher : ~ Enter(t)
  <2>1. Raw' = Raw /\ \A i \in Raw : log'[i] = log[i]
    BY <1>5 DEF Positions
  <2>2. \A t \in Publisher : ~ PutRaw(t)
    <3>1. ASSUME NEW t \in Publisher, PutRaw(t) PROVE Len(log') = Len(log) + 1
      <4>1. Publication("raw", cur[t], "reading") \in Publications
        BY Threads, PublicationTyped DEF TypeInv, NumbersOK
      <4> QED BY <1>0, <3>1, <4>1, PutEffect DEF PutRaw
    <3> QED BY <1>0, <1>5, <3>1
  <2> QED BY <1>1, <1>2, <1>5, <2>1, <2>2, ReadingsStep
<1> QED BY <1>3, <1>4, <1>5, LogStep
-----------------------------------------------------------------------------
(* The entity states. *)

LEMMA StatesStep ==
  ASSUME TypeInv, LockInv, StagedInv, PayloadInv, EntitiesNeverRegress, [Next]_vars
  PROVE  /\ EntitiesNeverRegress'
         /\ \A i \in Positions(States)' : log'[i].of <= payload[log'[i].about]
<1> DEFINE All == Positions(States)
<1>0. LogOK /\ Len(log) \in Nat
  BY DEF TypeInv, LogOK
<1>1. CASE log' = log
  <2>1. All' = All
    BY <1>1 DEF Positions
  <2> QED BY <1>1, <2>1 DEF EntitiesNeverRegress, PayloadInv, States
<1>2. ASSUME NEW p \in Publications, Put(p), Puts(p)
      PROVE  /\ EntitiesNeverRegress'
             /\ \A i \in All' : log'[i].of <= payload[log'[i].about]
  <2>1. CASE p.kind \notin States
    <3>1. All' = All /\ \A i \in All : log'[i] = log[i]
      BY <1>0, <1>2, <2>1, PositionsStep
    <3> QED BY <3>1 DEF EntitiesNeverRegress, PayloadInv, States
  <2>2. CASE p.kind \in States
    <3>1. p.of = payload[p.about]
      BY <1>2, <2>2, PutKinds DEF PayloadInv, States
    <3>2. p.about \in Entity /\ p.of \in Nat
      BY <2>2 DEF Publications, EntityStates, States
    <3>3. /\ All' = All \cup {Len(log) + 1}
          /\ \A i \in All : i \in Nat /\ i < Len(log) + 1 /\ log'[i] = log[i]
          /\ log'[Len(log) + 1] = p
      BY <1>0, <1>2, <2>2, PositionsStep
    <3>4. \A i \in All : log[i].of <= payload[log[i].about]
      BY DEF PayloadInv
    <3>5. \A i \in All' : log'[i].of <= payload[log'[i].about]
      BY <3>1, <3>2, <3>3, <3>4
    <3>6. ASSUME NEW i \in All', NEW j \in All', i < j, log'[i].about = log'[j].about
          PROVE  log'[i].of <= log'[j].of
      <4>1. i \in All
        BY <1>0, <3>3, <3>6
      <4>2. CASE j \in All
        BY <3>3, <3>6, <4>1, <4>2 DEF EntitiesNeverRegress, States
      <4>3. CASE j = Len(log) + 1
        BY <3>1, <3>3, <3>4, <3>6, <4>1, <4>3
      <4> QED BY <3>3, <4>2, <4>3
    <3> QED BY <3>5, <3>6 DEF EntitiesNeverRegress, States
  <2> QED BY <2>1, <2>2
<1> QED BY <1>1, <1>2, LogStep

LEMMA PayloadStep ==
  ASSUME TypeInv, LockInv, StagedInv, PayloadInv, [Next]_vars,
         \A i \in Positions(States)' : log'[i].of <= payload[log'[i].about]
  PROVE  PayloadInv'
<1> USE Threads DEF Goto, Leave, threadVars, trackerVars, contextVars, logVars
<1>0. /\ readings \in Nat
      /\ payload \in [Entity -> Nat] /\ copy \in [Entity -> Nat]
      /\ pc \in [Thread -> Places]
      /\ cur \in [Thread -> Nat]
  BY DEF TypeInv, PlacesOK, NumbersOK
<1>1. ASSUME UNCHANGED <<payload, copy>>, readings <= readings',
             pc[Coach] = "republish" => pc'[Coach] = "republish" \/ \A e \in Entity : copy[e] = 0
      PROVE  PayloadInv'
  <2>1. readings' \in Nat
    BY TypeStep DEF TypeInv, NumbersOK
  <2> QED BY <1>0, <1>1, <2>1 DEF PayloadInv
<1>2. ASSUME NEW t \in Publisher, Enter(t) PROVE PayloadInv'
  BY <1>0, <1>1, <1>2 DEF Enter
<1>3. ASSUME NEW t \in Publisher, Apply(t) PROVE PayloadInv'
  <2>1. pc[Coach] # "republish" /\ readings' = readings /\ copy' = copy /\ pc' = pc /\ log' = log
    BY <1>3 DEF Apply, LockInv
  <2>2. PICK e \in todo[t] : payload' = [payload EXCEPT ![e] = cur[t]] \/ payload' = payload
    BY <1>3 DEF Apply
  <2>3. e \in Entity /\ cur[t] = readings
    BY <1>3 DEF Apply, StagedInv, TypeInv, TodoOK
  <2>4. \A d \in Entity : payload[d] <= payload'[d] /\ payload'[d] <= readings
    BY <1>0, <2>2, <2>3 DEF PayloadInv
  <2>5. ASSUME NEW i \in Positions(States)' PROVE log'[i].of <= payload'[log'[i].about]
    <3>1. log'[i] \in EntityStates
      <4>1. i \in 1 .. Len(log') /\ log'[i].kind \in States
        BY <2>5 DEF Positions
      <4>2. log'[i] \in Publications
        BY <2>1, <4>1 DEF TypeInv, LogOK
      <4> QED BY <4>1, <4>2 DEF Publications, EntityStates, States
    <3>2. log'[i].about \in Entity /\ log'[i].of \in Nat
      BY <3>1 DEF EntityStates
    <3>3. log'[i].of <= payload[log'[i].about]
      BY <2>5
    <3>4. payload'[log'[i].about] \in Nat /\ payload[log'[i].about] \in Nat
      BY <1>0, <2>2, <2>3, <3>2
    <3> QED BY <2>4, <3>2, <3>3, <3>4
  <2>6. \A d \in Entity : copy'[d] = 0
    BY <2>1 DEF PayloadInv
  <2> QED BY <2>1, <2>4, <2>5, <2>6 DEF PayloadInv
<1>4. ASSUME NEW t \in Publisher, ApplyFails(t) \/ PutRaw(t) \/ PutStaged(t) PROVE PayloadInv'
  BY <1>0, <1>1, <1>4 DEF ApplyFails, PutRaw, PutStaged
<1>5. CASE Wake
  BY <1>0, <1>1, <1>5 DEF Wake
<1>6. ASSUME NEW t \in Thread, Finish(t) PROVE PayloadInv'
  BY <1>0, <1>1, <1>6 DEF Finish, Snapshot, PutVariables, Evaluate, PutEvent
<1>7. CASE Republish
  <2>1. PICK selection \in SUBSET Entity :
          copy' = [e \in Entity |-> IF e \in selection THEN payload[e] ELSE 0]
    BY <1>7 DEF Republish
  <2>2. pc'[Coach] = "republish" /\ UNCHANGED <<readings, payload>>
    BY <1>0, <1>7 DEF Republish
  <2> QED BY <2>1, <2>2 DEF PayloadInv
<1>8. CASE PutRepublished
  <2>1. PICK e \in Entity : copy' = [copy EXCEPT ![e] = 0]
    BY <1>8 DEF PutRepublished
  <2>2. UNCHANGED <<readings, payload, pc>>
    BY <1>8 DEF PutRepublished
  <2> QED BY <1>0, <2>1, <2>2 DEF PayloadInv
<1>9. CASE EndRepublish
  BY <1>0, <1>1, <1>9 DEF EndRepublish
<1>10. CASE Take \/ Expire \/ UNCHANGED vars
  BY <1>0, <1>1, <1>10 DEF Take, Expire, vars
<1> QED
  BY <1>2, <1>3, <1>4, <1>5, <1>6, <1>7, <1>8, <1>9, <1>10 DEF Next, Publish
-----------------------------------------------------------------------------
(* The variables. *)

LEMMA OfTyped ==
  ASSUME LogOK, NEW K, NEW i \in Positions(K)
  PROVE  log[i].of \in Nat
<1>1. log[i] \in Publications
  BY DEF LogOK, Positions
<1> QED BY <1>1 DEF Publications, EntityStates

(* Younger and fresher is transitive, and what waits to be put is between. *)
LEMMA OlderPublication ==
  ASSUME NEW s \in Snapshots
  PROVE  /\ Publication("variables", s.of, s.status).kind = "variables"
         /\ Publication("variables", s.of, s.status).of = s.of
         /\ Publication("variables", s.of, s.status).about = s.status
         /\ s.of \in Nat
BY DEF Publication, Snapshots

(* The queue, when a thread publishes its snapshot. *)
LEMMA ShotsStep ==
  ASSUME TypeInv, LockInv, StagedInv, VariablesInv, VariablesNeverRegress, [Next]_vars
  PROVE  /\ VariablesNeverRegress'
         /\ \A i \in Positions({"variables"})' : log'[i].of <= readings /\ Older(log'[i], known)
<1> DEFINE Shots == Positions({"variables"})
<1>0. LogOK /\ Len(log) \in Nat
  BY DEF TypeInv, LogOK
<1>1. CASE log' = log
  <2>1. Shots' = Shots
    BY <1>1 DEF Positions
  <2> QED BY <1>1, <2>1 DEF VariablesNeverRegress, VariablesInv
<1>2. ASSUME NEW p \in Publications, Put(p), Puts(p)
      PROVE  /\ VariablesNeverRegress'
             /\ \A i \in Shots' : log'[i].of <= readings /\ Older(log'[i], known)
  <2>1. CASE p.kind # "variables"
    <3>1. Shots' = Shots /\ \A i \in Shots : log'[i] = log[i]
      BY <1>0, <1>2, <2>1, PositionsStep
    <3> QED BY <3>1 DEF VariablesNeverRegress, VariablesInv
  <2>2. CASE p.kind = "variables"
    <3>1. PICK t \in Thread : PutVariables(t) /\ p.of = shot[t].of /\ p.about = shot[t].status
      BY <1>2, <2>2, PutKinds
    <3>2. shot[t] \in Snapshots /\ pc[t] = "tell"
      BY <3>1 DEF TypeInv, SnapshotsOK, PutVariables
    <3>3. Older(p, known) /\ p.of <= readings
      BY <3>1, <3>2, OlderPublication DEF VariablesInv, Older
    <3>4. \A i \in Shots : Older(log[i], shot[t])
      BY <3>2 DEF VariablesInv
    <3>5. /\ Shots' = Shots \cup {Len(log) + 1}
          /\ \A i \in Shots : i \in Nat /\ i < Len(log) + 1 /\ log'[i] = log[i]
          /\ log'[Len(log) + 1] = p
      BY <1>0, <1>2, <2>2, PositionsStep
    <3>6. \A i \in Shots' : log'[i].of <= readings /\ Older(log'[i], known)
      <4> SUFFICES ASSUME NEW i \in Shots' PROVE log'[i].of <= readings /\ Older(log'[i], known)
        OBVIOUS
      <4>1. CASE i \in Shots
        BY <3>5, <4>1 DEF VariablesInv
      <4>2. CASE i = Len(log) + 1
        BY <3>3, <3>5, <4>2
      <4> QED BY <3>5, <4>1, <4>2
    <3>7. ASSUME NEW i \in Shots', NEW j \in Shots', i < j, log'[i].of > 0, log'[j].of > 0
          PROVE  \/ log'[i].of < log'[j].of
                 \/ log'[i].of = log'[j].of /\ (log'[i].about = "stale" => log'[j].about = "stale")
      <4>1. i \in Shots /\ log'[i] = log[i]
        BY <1>0, <3>5, <3>7
      <4>2. CASE j \in Shots
        BY <3>5, <3>7, <4>1, <4>2 DEF VariablesNeverRegress
      <4>3. CASE j = Len(log) + 1
        <5>1. log'[j] = p /\ Older(log[i], shot[t])
          BY <3>4, <3>5, <4>1, <4>3
        <5> QED BY <3>1, <3>7, <4>1, <5>1 DEF Older
      <4> QED BY <3>5, <4>2, <4>3
    <3> QED BY <3>6, <3>7 DEF VariablesNeverRegress
  <2> QED BY <2>1, <2>2
<1> QED BY <1>1, <1>2, LogStep

LEMMA VariablesStep ==
  ASSUME TypeInv, LockInv, StagedInv, VariablesInv, [Next]_vars,
         \A i \in Positions({"variables"})' : log'[i].of <= readings /\ Older(log'[i], known)
  PROVE  VariablesInv'
<1> DEFINE Shots == Positions({"variables"})
<1> USE Threads DEF Goto, Leave, threadVars, trackerVars, contextVars, logVars
<1>0. /\ readings \in Nat
      /\ known \in Snapshots /\ shot \in [Thread -> Snapshots]
      /\ pc \in [Thread -> Places]
      /\ LogOK
  BY DEF TypeInv, PlacesOK, NumbersOK, SnapshotsOK
<1>2. \A t, u \in Thread : pc[t] \in Inside /\ pc[u] \in Inside => t = u
  BY DEF LockInv
<1>3. ASSUME UNCHANGED <<known, readings>>,
             \A t \in Thread : shot'[t] = shot[t] \/ shot'[t] = Nothing \/ shot'[t] = known,
             \A t \in Thread : pc'[t] = "tell" =>
               \/ shot'[t] = known
               \/ pc[t] = "tell" /\ shot'[t] = shot[t] /\ log' = log
      PROVE  VariablesInv'
  <2>1. \A t \in Thread : shot'[t].of <= readings
    BY <1>0, <1>3 DEF VariablesInv, Nothing, Snapshots
  <2>2. ASSUME NEW t \in Thread, pc'[t] = "tell"
        PROVE  Older(Publication("variables", shot'[t].of, shot'[t].status), known)
    <3>1. CASE shot'[t] = known
      BY <1>0, <3>1, OlderPublication DEF Older
    <3>2. CASE pc[t] = "tell" /\ shot'[t] = shot[t]
      BY <3>2 DEF VariablesInv
    <3> QED BY <1>3, <2>2, <3>1, <3>2
  <2>3. ASSUME NEW t \in Thread, pc'[t] = "tell", NEW i \in Shots'
        PROVE  Older(log'[i], shot'[t])
    <3>1. CASE shot'[t] = known
      BY <2>3, <3>1
    <3>2. CASE pc[t] = "tell" /\ shot'[t] = shot[t] /\ log' = log
      <4>1. Shots' = Shots
        BY <3>2 DEF Positions
      <4> QED BY <2>3, <3>2, <4>1 DEF VariablesInv
    <3> QED BY <1>3, <2>3, <3>1, <3>2
  <2> QED BY <1>3, <2>1, <2>2, <2>3 DEF VariablesInv
<1>4. ASSUME UNCHANGED <<known, readings, shot>>,
             \A t \in Thread : pc'[t] = "tell" => pc[t] = "tell" /\ log' = log
      PROVE  VariablesInv'
  BY <1>3, <1>4
<1>5. ASSUME NEW t \in Publisher, Enter(t) PROVE VariablesInv'
  <2>1. /\ UNCHANGED <<log, shot>>
        /\ readings' = readings + 1
        /\ \/ known' = known
           \/ known' \in {[of |-> readings + 1, status |-> "fresh"], [of |-> 0, status |-> "invalid"]}
    BY <1>5 DEF Enter, update
  <2>2. \A u \in Thread : pc'[u] # "tell"
    BY <1>0, <1>5 DEF Enter, LockInv, Inside
  <2>3. Shots' = Shots
    BY <2>1 DEF Positions
  <2>4. \A i \in Shots : log[i].of <= readings /\ Older(log[i], known)
    BY DEF VariablesInv
  <2>5. \A i \in Shots : log[i].of \in Nat
    BY <1>0, OfTyped
  <2>6. \A i \in Shots : Older(log[i], known')
    <3>1. CASE known' = known
      BY <2>4, <3>1
    <3>2. CASE known'.of = readings + 1
      BY <1>0, <2>4, <2>5, <3>2 DEF Older
    <3>3. CASE known'.of = 0
      BY <3>3 DEF Older
    <3> QED BY <2>1, <3>1, <3>2, <3>3
  <2>7. known'.of <= readings + 1
    BY <1>0, <2>1 DEF VariablesInv, Snapshots
  <2>8. \A u \in Thread : shot[u].of <= readings + 1
    BY <1>0 DEF VariablesInv, Snapshots
  <2>9. \A i \in Shots : log[i].of <= readings + 1
    BY <1>0, <2>4, <2>5
  <2> QED BY <2>1, <2>2, <2>3, <2>6, <2>7, <2>8, <2>9 DEF VariablesInv
<1>6. ASSUME NEW t \in Publisher, ApplyFails(t) \/ Apply(t) PROVE VariablesInv'
  BY <1>4, <1>6 DEF ApplyFails, Apply
<1>7. ASSUME NEW t \in Publisher, PutRaw(t) \/ PutStaged(t) PROVE VariablesInv'
  <2>1. \A u \in Thread : pc'[u] # "tell"
    BY <1>0, <1>2, <1>7 DEF PutRaw, PutStaged, Inside
  <2> QED BY <1>4, <1>7, <2>1 DEF PutRaw, PutStaged
<1>8. CASE Wake
  BY <1>0, <1>4, <1>8 DEF Wake
<1>9. ASSUME NEW t \in Thread, Snapshot(t) PROVE VariablesInv'
  <2>1. /\ UNCHANGED <<known, readings, log>>
        /\ \A u \in Thread : u # t => shot'[u] = shot[u] /\ pc'[u] = pc[u]
        /\ shot'[t] = known \/ (shot'[t] = shot[t] /\ pc'[t] = "evaluate")
    BY <1>0, <1>9 DEF Snapshot
  <2> QED BY <1>3, <2>1
<1>10. ASSUME NEW t \in Thread, PutVariables(t) \/ PutEvent(t) PROVE VariablesInv'
  <2>1. \A u \in Thread : pc'[u] # "tell"
    BY <1>0, <1>2, <1>10 DEF PutVariables, PutEvent, Inside
  <2>2. \A u \in Thread : shot'[u] = shot[u] \/ shot'[u] = Nothing
    BY <1>0, <1>10 DEF PutVariables, PutEvent
  <2> QED BY <1>3, <1>10, <2>1, <2>2 DEF PutVariables, PutEvent
<1>11. ASSUME NEW t \in Thread, Evaluate(t) PROVE VariablesInv'
  <2>1. /\ UNCHANGED <<known, readings, log>>
        /\ \A u \in Thread : u # t => shot'[u] = shot[u] /\ pc'[u] = pc[u]
        /\ shot'[t] \in {known, Nothing} /\ pc'[t] # "tell"
    BY <1>0, <1>11 DEF Evaluate
  <2> QED BY <1>3, <2>1
<1>12. CASE Republish \/ EndRepublish
  BY <1>0, <1>4, <1>12 DEF Republish, EndRepublish
<1>13. CASE PutRepublished
  <2>1. UNCHANGED <<known, readings, shot, pc>>
    BY <1>13 DEF PutRepublished
  <2>2. Shots' = Shots /\ \A i \in Shots : log'[i] = log[i]
    <3>1. CASE log' = log
      BY <3>1 DEF Positions
    <3>2. ASSUME NEW e \in Entity, Put(Publication("republished", copy[e], e))
          PROVE  Shots' = Shots /\ \A i \in Shots : log'[i] = log[i]
      <4>1. Publication("republished", copy[e], e) \in Publications
        BY PublicationTyped DEF TypeInv, NumbersOK
      <4>2. Publication("republished", copy[e], e).kind \notin {"variables"}
        BY DEF Publication
      <4> QED BY <1>0, <3>2, <4>1, <4>2, PositionsStep
    <3> QED BY <1>13, <3>1, <3>2 DEF PutRepublished
  <2> QED BY <2>1, <2>2 DEF VariablesInv
<1>14. CASE Take
  BY <1>4, <1>14 DEF Take
<1>15. CASE Expire
  <2>1. /\ UNCHANGED <<log, shot, readings, pc>>
        /\ known' = [of |-> known.of, status |-> "stale"]
    BY <1>15 DEF Expire
  <2>2. known'.of = known.of /\ known'.status = "stale"
    BY <2>1
  <2>3. \A p : Older(p, known) => Older(p, known')
    BY <2>2 DEF Older
  <2>4. Shots' = Shots
    BY <2>1 DEF Positions
  <2> QED BY <2>1, <2>2, <2>3, <2>4 DEF VariablesInv
<1>16. CASE UNCHANGED vars
  BY <1>4, <1>16 DEF vars
<1> QED
  BY <1>5, <1>6, <1>7, <1>8, <1>9, <1>10, <1>11, <1>12, <1>13, <1>14, <1>15, <1>16
  DEF Next, Publish, Finish
-----------------------------------------------------------------------------
(* The readings behind what is derived from them. *)

(* Outside the application of a reading every reading is queued, so whatever *)
(* is put then follows the reading it was derived from.                      *)
LEMMA FollowsStep ==
  ASSUME TypeInv, LockInv, StagedInv, RawInv, VariablesInv, DerivedFollowsTelemetry, [Next]_vars
  PROVE  DerivedFollowsTelemetry'
<1> DEFINE Derived == {"entity", "variables", "event"}
           Raw == Positions({"raw"})
<1>0. LogOK /\ Len(log) \in Nat /\ readings \in Nat
  BY DEF TypeInv, LogOK, NumbersOK
<1>1. CASE log' = log
  <2>1. Positions(Derived)' = Positions(Derived) /\ Raw' = Raw
    BY <1>1 DEF Positions
  <2> QED BY <1>1, <2>1 DEF DerivedFollowsTelemetry, Follows
<1>2. ASSUME NEW p \in Publications, Put(p), Puts(p) PROVE DerivedFollowsTelemetry'
  <2>1. /\ \A i \in Raw : i \in Raw' /\ log'[i] = log[i] /\ i < Len(log) + 1
        /\ \A j \in Positions(Derived) : log'[j] = log[j]
        /\ log'[Len(log) + 1] = p
    BY <1>0, <1>2, PositionsStep
  <2>2. p.kind \notin Derived => Positions(Derived)' = Positions(Derived)
    BY <1>0, <1>2, PositionsStep
  <2>3. p.kind \in Derived => Positions(Derived)' = Positions(Derived) \cup {Len(log) + 1}
    BY <1>0, <1>2, PositionsStep
  <2>4. ASSUME NEW j \in Positions(Derived), log'[j].of > 0
        PROVE  \E i \in Raw' : i < j /\ log'[i].of = log'[j].of
    <3>1. PICK i \in Raw : i < j /\ log[i].of = log[j].of
      BY <2>1, <2>4 DEF DerivedFollowsTelemetry, Follows
    <3> QED BY <2>1, <3>1
  <2>5. ASSUME p.kind \in Derived, p.of > 0
        PROVE  \E i \in Raw' : i < Len(log) + 1 /\ log'[i].of = p.of
    <3>1. PICK t \in Thread : pc[t] \in Inside \ {"apply"} /\ p.of <= readings
      <4>1. CASE p.kind = "entity"
        BY <1>0, <1>2, <4>1, PutKinds, Threads DEF PutStaged, Inside
      <4>2. CASE p.kind = "variables"
        BY <1>2, <4>2, PutKinds DEF PutVariables, Inside, VariablesInv
      <4>3. CASE p.kind = "event"
        BY <1>2, <4>3, PutKinds DEF PutEvent, Inside, VariablesInv
      <4> QED BY <2>5, <4>1, <4>2, <4>3
    <3>2. ~ Applying
      BY <3>1 DEF Applying, LockInv, Inside
    <3>3. p.of \in 1 .. readings
      <4>1. p.of \in Nat
        BY DEF Publications, EntityStates
      <4> QED BY <1>0, <2>5, <3>1, <4>1
    <3>4. PICK i \in Raw : log[i].of = p.of
      BY <3>2, <3>3 DEF RawInv, Sent
    <3> QED BY <2>1, <3>4
  <2>6. ASSUME NEW j \in Positions(Derived)', log'[j].of > 0
        PROVE  \E i \in Raw' : i < j /\ log'[i].of = log'[j].of
    <3>1. CASE j \in Positions(Derived)
      BY <2>4, <2>6, <3>1
    <3>2. CASE p.kind \in Derived /\ j = Len(log) + 1
      BY <2>1, <2>5, <2>6, <3>2
    <3> QED BY <2>2, <2>3, <2>6, <3>1, <3>2
  <2> QED BY <2>6 DEF DerivedFollowsTelemetry, Follows
<1> QED BY <1>1, <1>2, LogStep
-----------------------------------------------------------------------------
(* The events. *)

(* A thread changes the rule when it leaves "evaluate" for "event", and tells *)
(* it when it leaves "event"; nobody else does either.                        *)
LEMMA RuleStep ==
  ASSUME TypeInv, LockInv, StagedInv, [Next]_vars
  PROVE  \/ \E t \in Thread : PutEvent(t) /\ Announced' = active /\ Announced = Flip(active)
         \/ Announced' = Announced /\ \A t \in Thread : ~ PutEvent(t)
<1> USE Threads DEF Goto, Leave, threadVars, trackerVars, contextVars, logVars
<1>0. pc \in [Thread -> Places] /\ active \in {"active", "cleared"}
  BY DEF TypeInv, PlacesOK
<1>1. \A t, u \in Thread : pc[t] \in Inside /\ pc[u] \in Inside => t = u
  BY DEF LockInv
<1>2. ASSUME active' = active, \A t \in Thread : pc'[t] = "event" <=> pc[t] = "event",
             \A t \in Thread : ~ PutEvent(t)
      PROVE  Announced' = Announced /\ \A t \in Thread : ~ PutEvent(t)
  BY <1>2 DEF Announced, Flip
<1>3. ASSUME NEW t \in Thread, PutEvent(t)
      PROVE  Announced' = active /\ Announced = Flip(active)
  <2>1. pc[t] = "event" /\ active' = active /\ pc' = [pc EXCEPT ![t] = "idle"]
    BY <1>3 DEF PutEvent
  <2>2. \A u \in Thread : pc'[u] # "event"
    BY <1>0, <1>1, <2>1 DEF Inside
  <2> QED BY <2>1, <2>2 DEF Announced
<1>4. ASSUME NEW t \in Thread, Evaluate(t)
      PROVE  Announced' = Announced /\ \A u \in Thread : ~ PutEvent(u)
  <2>1. pc[t] = "evaluate" /\ \A u \in Thread : pc[u] # "event"
    BY <1>1, <1>4 DEF Evaluate, Inside
  <2>2. Announced = active
    BY <2>1 DEF Announced
  <2>3. \A u \in Thread : ~ PutEvent(u)
    BY <2>1 DEF PutEvent
  <2>4. CASE active' = active /\ pc' = [pc EXCEPT ![t] = "idle"]
    <3>1. \A u \in Thread : pc'[u] # "event"
      BY <1>0, <2>1, <2>4
    <3> QED BY <2>2, <2>3, <2>4, <3>1 DEF Announced
  <2>5. CASE active' = (IF active = "cleared" THEN "active" ELSE "cleared") /\ pc' = [pc EXCEPT ![t] = "event"]
    <3>1. pc'[t] = "event"
      BY <1>0, <2>5
    <3> QED BY <1>0, <2>2, <2>3, <2>5, <3>1 DEF Announced, Flip
  <2> QED BY <1>4, <2>4, <2>5 DEF Evaluate
<1>5. ASSUME UNCHANGED active, \A t \in Thread : pc'[t] = "event" <=> pc[t] = "event"
      PROVE  \/ \E t \in Thread : PutEvent(t) /\ Announced' = active /\ Announced = Flip(active)
             \/ Announced' = Announced /\ \A t \in Thread : ~ PutEvent(t)
  BY <1>2, <1>3, <1>5
<1>6. ASSUME NEW t \in Publisher, Enter(t)
      PROVE  UNCHANGED active /\ \A u \in Thread : pc'[u] = "event" <=> pc[u] = "event"
  BY <1>0, <1>6 DEF Enter
<1>7. ASSUME NEW t \in Publisher, ApplyFails(t) \/ Apply(t) \/ PutRaw(t) \/ PutStaged(t)
      PROVE  UNCHANGED active /\ \A u \in Thread : pc'[u] = "event" <=> pc[u] = "event"
  BY <1>0, <1>7 DEF ApplyFails, Apply, PutRaw, PutStaged
<1>8. ASSUME NEW t \in Thread, Snapshot(t) \/ PutVariables(t)
      PROVE  UNCHANGED active /\ \A u \in Thread : pc'[u] = "event" <=> pc[u] = "event"
  BY <1>0, <1>8 DEF Snapshot, PutVariables
<1>9. ASSUME Wake \/ Republish \/ PutRepublished \/ EndRepublish \/ Take \/ Expire \/ UNCHANGED vars
      PROVE  UNCHANGED active /\ \A u \in Thread : pc'[u] = "event" <=> pc[u] = "event"
  BY <1>0, <1>9 DEF Wake, Republish, PutRepublished, EndRepublish, Take, Expire, vars
<1> QED
  BY <1>3, <1>4, <1>5, <1>6, <1>7, <1>8, <1>9 DEF Next, Publish, Finish

LEMMA EventsStep ==
  ASSUME TypeInv, LockInv, StagedInv, AnnouncedInv, EventsAlternate, [Next]_vars
  PROVE  AnnouncedInv' /\ EventsAlternate'
<1>0. LogOK /\ Len(log) \in Nat /\ active \in {"active", "cleared"}
  BY DEF TypeInv, LogOK, PlacesOK
<1>1. ASSUME Events' = Events, \A i \in Events : log'[i] = log[i], Announced' = Announced
      PROVE  AnnouncedInv' /\ EventsAlternate'
  BY <1>1 DEF AnnouncedInv, EventsAlternate, Events
<1>2. ASSUME NEW t \in Thread, PutEvent(t)
      PROVE  Put(Publication("event", shot[t].of, active)) /\ Publication("event", shot[t].of, active) \in Publications
  <2>1. shot[t].of \in Nat
    BY DEF TypeInv, SnapshotsOK, Snapshots
  <2> QED BY <1>0, <1>2, <2>1, PublicationTyped DEF PutEvent
<1>3. CASE log' = log
  <2>1. Events' = Events
    BY <1>3 DEF Events, Positions
  <2>2. \A t \in Thread : ~ PutEvent(t)
    BY <1>0, <1>2, <1>3, PutEffect
  <2> QED BY <1>1, <1>3, <2>1, <2>2, RuleStep
<1>4. ASSUME NEW p \in Publications, Put(p), Puts(p) PROVE AnnouncedInv' /\ EventsAlternate'
  <2>1. CASE p.kind # "event"
    <3>1. Events' = Events /\ \A i \in Events : log'[i] = log[i]
      BY <1>0, <1>4, <2>1, PositionsStep DEF Events
    <3>2. ASSUME NEW t \in Thread, PutEvent(t) PROVE FALSE
      <4>1. log'[Len(log) + 1] = p
        BY <1>0, <1>4, PutEffect
      <4>2. log'[Len(log) + 1] = Publication("event", shot[t].of, active)
        BY <1>0, <1>2, <3>2, PutEffect
      <4> QED BY <2>1, <4>1, <4>2 DEF Publication
    <3> QED BY <1>1, <3>1, <3>2, RuleStep
  <2>2. CASE p.kind = "event"
    <3>1. PICK t \in Thread : PutEvent(t) /\ p.about = active
      BY <1>4, <2>2, PutKinds
    <3>2. Announced' = active /\ Announced = Flip(active)
      BY <3>1, RuleStep
    <3>3. /\ Events' = Events \cup {Len(log) + 1}
          /\ \A i \in Events : i \in Nat /\ i < Len(log) + 1 /\ log'[i] = log[i]
          /\ log'[Len(log) + 1].about = active
      BY <1>0, <1>4, <2>2, <3>1, PositionsStep DEF Events
    <3>4. AnnouncedInv'
      <4>1. ASSUME NEW j \in Events', \A k \in Events' : k <= j PROVE log'[j].about = Announced'
        <5>1. j = Len(log) + 1
          BY <1>0, <3>3, <4>1
        <5> QED BY <3>2, <3>3, <5>1
      <4> QED BY <3>3, <4>1 DEF AnnouncedInv
    <3>5. EventsAlternate'
      <4> DEFINE before(j) == {i \in Events : i < j}
      <4> SUFFICES ASSUME NEW j \in Events'
                   PROVE  /\ {i \in Events' : i < j} = {} => log'[j].about = "active"
                          /\ \A i \in {i \in Events' : i < j} :
                               (\A k \in {k \in Events' : k < j} : k <= i) => log'[i].about # log'[j].about
        BY DEF EventsAlternate, Events
      <4>1. {i \in Events' : i < j} = before(j)
        BY <1>0, <3>3
      <4>2. CASE j \in Events
        <5>1. /\ before(j) = {} => log[j].about = "active"
              /\ \A i \in before(j) : (\A k \in before(j) : k <= i) => log[i].about # log[j].about
          BY <4>2 DEF EventsAlternate, Events
        <5>2. log'[j] = log[j] /\ \A i \in before(j) : log'[i] = log[i]
          BY <3>3, <4>2
        <5> QED BY <4>1, <5>1, <5>2
      <4>3. CASE j = Len(log) + 1
        <5>1. before(j) = Events
          BY <3>3, <4>3
        <5>2. log'[j].about = active
          BY <3>3, <4>3
        <5>3. CASE Events = {}
          BY <1>0, <3>2, <4>1, <5>1, <5>2, <5>3 DEF AnnouncedInv, Flip
        <5>4. ASSUME NEW i \in Events, \A k \in Events : k <= i PROVE log'[i].about # active
          <6>1. log[i].about = Flip(active)
            BY <3>2, <5>4 DEF AnnouncedInv
          <6> QED BY <1>0, <3>3, <6>1 DEF Flip
        <5> QED BY <4>1, <5>1, <5>2, <5>3, <5>4
      <4> QED BY <3>3, <4>2, <4>3
    <3> QED BY <3>4, <3>5
  <2> QED BY <2>1, <2>2
<1> QED BY <1>3, <1>4, LogStep
-----------------------------------------------------------------------------
(* The theorems. *)

LEMMA Inductive == Spec => [](TypeInv /\ PipelineInv)
<1>1. Init => TypeInv /\ PipelineInv
  <2> SUFFICES ASSUME Init PROVE PipelineInv
    BY TypeInit
  <2>1. LockInv /\ StagedInv
    BY Threads DEF Init, LockInv, StagedInv, Inside
  <2>2. \A K : Positions(K) = {}
    BY DEF Init, Positions
  <2>3. RawInv /\ PayloadInv /\ AnnouncedInv
    BY <2>2 DEF Init, RawInv, PayloadInv, AnnouncedInv, Events, Announced
  <2>4. VariablesInv
    BY <2>2 DEF Init, VariablesInv, Nothing
  <2>5. OneHistory /\ EventsAlternate
    BY <2>2 DEF OneHistory, TelemetryInOrder, EntitiesNeverRegress, VariablesNeverRegress,
       DerivedFollowsTelemetry, Follows, EventsAlternate
  <2> QED BY <2>1, <2>3, <2>4, <2>5 DEF PipelineInv
<1>2. TypeInv /\ PipelineInv /\ [Next]_vars => (TypeInv /\ PipelineInv)'
  <2> SUFFICES ASSUME TypeInv, PipelineInv, [Next]_vars PROVE (TypeInv /\ PipelineInv)'
    OBVIOUS
  <2>1. TypeInv' /\ LockInv' /\ StagedInv'
    BY TypeStep, LockStep, StagedInvStep DEF PipelineInv
  <2>2. RawInv' /\ TelemetryInOrder'
    BY RawStep DEF PipelineInv, OneHistory
  <2>3. /\ EntitiesNeverRegress'
        /\ \A i \in Positions(States)' : log'[i].of <= payload[log'[i].about]
    BY StatesStep DEF PipelineInv, OneHistory
  <2>4. PayloadInv'
    BY <2>3, PayloadStep DEF PipelineInv
  <2>5. /\ VariablesNeverRegress'
        /\ \A i \in Positions({"variables"})' : log'[i].of <= readings /\ Older(log'[i], known)
    BY ShotsStep DEF PipelineInv, OneHistory
  <2>6. VariablesInv'
    BY <2>5, VariablesStep DEF PipelineInv
  <2>7. DerivedFollowsTelemetry'
    BY FollowsStep DEF PipelineInv, OneHistory
  <2>8. AnnouncedInv' /\ EventsAlternate'
    BY EventsStep DEF PipelineInv
  <2> QED BY <2>1, <2>2, <2>3, <2>4, <2>5, <2>6, <2>7, <2>8 DEF PipelineInv, OneHistory
<1> QED BY <1>1, <1>2, PTL DEF Spec

(* However many sources, the coach worker and the maintenance thread publish, *)
(* a subscriber sees one history: no entity and no variable goes back to an   *)
(* older reading, and nothing precedes the reading it was derived from.       *)
THEOREM HistoryIsOne == Spec => []OneHistory
<1>1. PipelineInv => OneHistory BY DEF PipelineInv
<1> QED BY <1>1, Inductive, PTL

(* The events of a rule alternate, beginning with "active", whichever thread *)
(* evaluates it.                                                             *)
THEOREM EventsTakeTurns == Spec => []EventsAlternate
<1>1. PipelineInv => EventsAlternate BY DEF PipelineInv
<1> QED BY <1>1, Inductive, PTL
=============================================================================
