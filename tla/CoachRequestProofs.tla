------------------------- MODULE CoachRequestProofs -------------------------
(***************************************************************************)
(* Proofs about the requests of a coach, for every set of constants: of    *)
(* the refresh of telemetry (StateRefresh), and of the way from a          *)
(* configuration to the plan and the execution of a request (ActionPlan).  *)
(*                                                                         *)
(* StateRefresh: what the tracker has advanced in time is always covered   *)
(* by what was seen, and what was seen has advanced, so the difference at  *)
(* the moment of the check is the honest answer; the worker goes to sleep  *)
(* and is woken under the same predicate over the same variables; and a    *)
(* status id moves from the list to the bus without being in neither.      *)
(*                                                                         *)
(* ActionPlan: the recursions of the model (dependencies, visit, expand,   *)
(* and the folds over steps) are given their meaning first, each as a      *)
(* function that satisfies its equation, by induction on what its          *)
(* arguments leave to do; every property of a plan then follows by         *)
(* induction over the same measure.  The inductive invariant, Session,     *)
(* says that the coach is proper, the policy was accepted for it, an       *)
(* answer is the outcome of its request, and what was sent and what is     *)
(* still to send are whole actions.                                        *)
(***************************************************************************)
EXTENDS StateRefresh, ActionPlan, FiniteSetTheorems, WellFoundedInduction, TLAPS

(* observed_fields_since between two observations: a field that advanced  *)
(* and is not late was seen in time, and nothing was seen that has not    *)
(* advanced.                                                              *)
TrackerInv ==
  /\ advanced \ late \subseteq seen
  /\ seen \subseteq advanced

(* A result in the hands of the worker is the tracker's answer, frozen. *)
ResultInv ==
  worker = "done" =>
    /\ reported = advanced \ late
    /\ verdict.code = "observed" => Selected \subseteq reported

RefreshInv == TrackerInv /\ ResultInv
-----------------------------------------------------------------------------
(* The result of a refresh. *)

(* The code of a result is one of six, and "observed" says that every entity *)
(* was.                                                                      *)
LEMMA CodeValues ==
  ASSUME NEW statuses, NEW observed
  PROVE  /\ Code(statuses, observed) \in
              {"observed", "partial", "unsupported", "source_unavailable", "refresh_timeout"}
         /\ Code(statuses, observed) = "observed" => statuses = {"observed"}
<1>1. CASE statuses = {"unsupported"}
  <2>1. (CHOOSE s \in statuses : TRUE) = "unsupported"
    BY <1>1
  <2> QED BY <1>1, <2>1 DEF Code
<1>2. CASE statuses = {"source_unavailable"}
  <2>1. (CHOOSE s \in statuses : TRUE) = "source_unavailable"
    BY <1>2
  <2> QED BY <1>2, <2>1 DEF Code
<1>3. CASE statuses \notin {{"unsupported"}, {"source_unavailable"}}
  BY <1>3 DEF Code
<1> QED BY <1>1, <1>2, <1>3

(* An entity is "observed" only with all of its fields. *)
LEMMA StatusObserved ==
  ASSUME NEW e \in Entity, NEW observed, NEW asked, Status(e, observed, asked) = "observed"
  PROVE  FieldsOf[e] \subseteq observed
BY DEF Status

(* What the worker computes from the tracker's answer satisfies ResultInv. *)
LEMMA CheckedResult ==
  ASSUME selected \subseteq Entity, Check
  PROVE  /\ reported' = advanced \ late
         /\ verdict'.code \in
              {"observed", "partial", "unsupported", "source_unavailable", "refresh_timeout"}
         /\ verdict'.code = "observed" => Selected \subseteq reported'
<1> DEFINE status == [e \in Entity |-> IF e \in selected THEN Status(e, InTime, outcome) ELSE "none"]
           statuses == {status[e] : e \in selected}
<1>1. reported' = InTime /\ InTime = advanced \ late
  BY DEF Check, InTime
<1>2. verdict'.code = Code(statuses, reported')
  BY DEF Check
<1>3. ASSUME statuses = {"observed"} PROVE Selected \subseteq reported'
  <2> SUFFICES ASSUME NEW e \in selected PROVE FieldsOf[e] \subseteq reported'
    BY DEF Selected
  <2>1. status[e] = "observed"
    BY <1>3
  <2>2. status[e] = Status(e, InTime, outcome)
    OBVIOUS
  <2> HIDE DEF status
  <2> QED BY <1>1, <2>1, <2>2, StatusObserved
<1> HIDE DEF statuses
<1> QED BY <1>1, <1>2, <1>3, CodeValues
-----------------------------------------------------------------------------
(* Type correctness. *)

(* The lock of the WLED source has at most one holder. *)
LockInv == lock \in {{}, {"poll"}, {"worker"}}

FieldsTyped ==
  /\ advanced \cup late \cup snapped \cup reported \cup carried \subseteq Field
  /\ pending \cup sending \subseteq FieldsIn(rvc)

ChoicesTyped ==
  /\ selected \subseteq Entity /\ todo \subseteq Section
  /\ outcome \in [Section -> {"none", "requested", "unsupported", "source_unavailable"}]

CodeTyped ==
  verdict.code \in {"none", "observed", "partial", "unsupported", "source_unavailable", "refresh_timeout"}

LEMMA TypeParts == FieldsTyped /\ ChoicesTyped /\ CodeTyped /\ LockInv => TypeOK
<1> SUFFICES ASSUME LockInv PROVE Cardinality(lock) <= 1
  BY DEF FieldsTyped, ChoicesTyped, CodeTyped, TypeOK
<1>1. Cardinality({"poll"}) = 1 /\ Cardinality({"worker"}) = 1 /\ Cardinality({}) = 0
  BY FS_Singleton, FS_EmptySet
<1> QED BY <1>1 DEF LockInv

LEMMA FieldsIncluded == \A s : FieldsIn(s) \subseteq Field
BY DEF FieldsIn, Field

LEMMA ParametersTyped ==
  /\ rvc \in Section /\ wled \in Section
  /\ \A e \in Entity : SectionOf[e] \in Section
  /\ \A sel \in Selections : sel \subseteq Entity
BY RefreshAssumption

LEMMA FieldsStep == FieldsTyped /\ ChoicesTyped /\ [Next]_vars => FieldsTyped'
<1> SUFFICES ASSUME FieldsTyped, ChoicesTyped, [Next]_vars PROVE FieldsTyped'
  OBVIOUS
<1> USE FieldsIncluded DEF FieldsTyped, refreshVars, trackerVars, canVars, wledVars, readingVars
<1>1. ASSUME NEW s \in Section, AskSection(s) PROVE FieldsTyped'
  <2>1. UNION {FieldsOf[e] : e \in {e \in selected : SectionOf[e] = rvc}} \subseteq FieldsIn(rvc)
    BY DEF FieldsIn, ChoicesTyped
  <2>2. \/ pending' = pending
        \/ pending' = pending \cup UNION {FieldsOf[e] : e \in {e \in selected : SectionOf[e] = rvc}}
    BY <1>1 DEF AskSection, RequestStatus
  <2> QED BY <1>1, <2>1, <2>2 DEF AskSection
<1>2. CASE AllAsked \/ Wait \/ TimedOut \/ Snapshot \/ Expire
  BY <1>2 DEF AllAsked, Wait, TimedOut, Snapshot, Expire
<1>3. CASE Check \/ Return
  BY <1>3 DEF Check, InTime, Return
<1>4. CASE Commit
  BY <1>4 DEF Commit
<1>5. CASE TakeRequests \/ BusFails \/ Restart
  BY <1>5 DEF TakeRequests, BusFails, Restart
<1>6. ASSUME NEW d \in Field, Send(d) PROVE FieldsTyped'
  BY <1>6 DEF Send
<1>7. CASE Receive
  BY <1>7 DEF Receive, Enter
<1>8. CASE PollDue
  BY <1>8 DEF PollDue
<1>9. ASSUME NEW sel \in Selections, Begin(sel) PROVE FieldsTyped'
  BY <1>9 DEF Begin
<1>10. ASSUME NEW t \in Client, WledStep(t) PROVE FieldsTyped'
  BY <1>10 DEF WledStep, Acquire, LockTimeout, Respond, PublishState, Enter
<1>11. ASSUME NEW s \in Section, OtherReading(s) PROVE FieldsTyped'
  BY <1>11 DEF OtherReading, Enter
<1>12. CASE UNCHANGED vars
  BY <1>12 DEF vars
<1> QED
  BY <1>1, <1>2, <1>3, <1>4, <1>5, <1>6, <1>7, <1>8, <1>9, <1>10, <1>11, <1>12
  DEF Next, WorkerStep, CanStep

LEMMA ChoicesStep == ChoicesTyped /\ [Next]_vars => ChoicesTyped'
<1> SUFFICES ASSUME ChoicesTyped, [Next]_vars PROVE ChoicesTyped'
  OBVIOUS
<1> USE ParametersTyped DEF ChoicesTyped, refreshVars, trackerVars, canVars, wledVars, readingVars
<1>1. ASSUME NEW s \in Section, NEW reply \in {"requested", "unsupported", "source_unavailable"},
             Asked(s, reply), UNCHANGED selected
      PROVE  ChoicesTyped'
  BY <1>1 DEF Asked
<1>2. ASSUME UNCHANGED <<selected, todo, outcome>> PROVE ChoicesTyped'
  BY <1>2
<1>3. ASSUME NEW s \in Section, AskSection(s) PROVE ChoicesTyped'
  BY <1>1, <1>2, <1>3 DEF AskSection
<1>4. CASE AllAsked \/ Wait \/ TimedOut \/ Snapshot \/ Expire \/ Check
  BY <1>2, <1>4 DEF AllAsked, Wait, TimedOut, Snapshot, Expire, Check
<1>5. CASE Return
  BY <1>5 DEF Return, NotAsked
<1>6. CASE Commit
  BY <1>1, <1>2, <1>6 DEF Commit
<1>7. CASE TakeRequests \/ BusFails \/ Restart \/ Receive \/ PollDue
  BY <1>2, <1>7 DEF TakeRequests, BusFails, Restart, Receive, PollDue
<1>8. ASSUME NEW d \in Field, Send(d) PROVE ChoicesTyped'
  BY <1>2, <1>8 DEF Send
<1>9. ASSUME NEW sel \in Selections, Begin(sel) PROVE ChoicesTyped'
  <2>1. {SectionOf[e] : e \in sel} \subseteq Section /\ sel \subseteq Entity
    OBVIOUS
  <2> QED BY <1>9, <2>1 DEF Begin
<1>10. ASSUME NEW t \in Client, WledStep(t) PROVE ChoicesTyped'
  <2>1. GiveUp(t) /\ UNCHANGED selected => ChoicesTyped'
    BY <1>1, <1>2 DEF GiveUp
  <2> QED BY <1>2, <1>10, <2>1 DEF WledStep, Acquire, LockTimeout, Respond, PublishState
<1>11. ASSUME NEW s \in Section, OtherReading(s) PROVE ChoicesTyped'
  BY <1>2, <1>11 DEF OtherReading
<1>12. CASE UNCHANGED vars
  BY <1>2, <1>12 DEF vars
<1> QED
  BY <1>3, <1>4, <1>5, <1>6, <1>7, <1>8, <1>9, <1>10, <1>11, <1>12 DEF Next, WorkerStep, CanStep

LEMMA CodeStep == ChoicesTyped /\ CodeTyped /\ [Next]_vars => CodeTyped'
<1> SUFFICES ASSUME ChoicesTyped, CodeTyped, [Next]_vars PROVE CodeTyped'
  OBVIOUS
<1> USE DEF refreshVars, trackerVars, canVars, wledVars, readingVars
<1>1. CASE Check
  BY <1>1, CheckedResult DEF ChoicesTyped, CodeTyped
<1>2. CASE Return
  BY <1>2 DEF Return, NoVerdict, CodeTyped
<1>3. CASE verdict' = verdict
  BY <1>3 DEF CodeTyped
<1>4. ASSUME NEW s \in Section, AskSection(s) \/ OtherReading(s) PROVE verdict' = verdict
  BY <1>4 DEF AskSection, OtherReading
<1>5. ASSUME \/ AllAsked \/ Wait \/ TimedOut \/ Snapshot \/ Expire \/ Commit \/ TakeRequests
             \/ BusFails \/ Restart \/ Receive \/ PollDue \/ UNCHANGED vars
      PROVE  verdict' = verdict
  BY <1>5 DEF AllAsked, Wait, TimedOut, Snapshot, Expire, Commit, TakeRequests, BusFails, Restart,
     Receive, PollDue, vars
<1>6. ASSUME NEW d \in Field, Send(d) PROVE verdict' = verdict
  BY <1>6 DEF Send
<1>7. ASSUME NEW sel \in Selections, Begin(sel) PROVE verdict' = verdict
  BY <1>7 DEF Begin
<1>8. ASSUME NEW t \in Client, WledStep(t) PROVE verdict' = verdict
  BY <1>8 DEF WledStep, Acquire, LockTimeout, Respond, PublishState
<1> QED
  BY <1>1, <1>2, <1>3, <1>4, <1>5, <1>6, <1>7, <1>8 DEF Next, WorkerStep, CanStep

LEMMA LockStep == LockInv /\ [Next]_vars => LockInv'
<1> SUFFICES ASSUME LockInv, [Next]_vars PROVE LockInv'
  OBVIOUS
<1> USE DEF LockInv, refreshVars, trackerVars, canVars, wledVars, readingVars
<1>1. ASSUME NEW t \in Client, WledStep(t) PROVE LockInv'
  BY <1>1 DEF WledStep, Acquire, LockTimeout, Respond, PublishState, Client
<1>2. CASE lock' = lock
  BY <1>2
<1>3. ASSUME NEW s \in Section, AskSection(s) \/ OtherReading(s) PROVE lock' = lock
  BY <1>3 DEF AskSection, OtherReading
<1>4. ASSUME \/ AllAsked \/ Wait \/ TimedOut \/ Snapshot \/ Check \/ Return \/ Expire \/ Commit
             \/ TakeRequests \/ BusFails \/ Restart \/ Receive \/ PollDue \/ UNCHANGED vars
      PROVE  lock' = lock
  BY <1>4 DEF AllAsked, Wait, TimedOut, Snapshot, Check, Return, Expire, Commit, TakeRequests,
     BusFails, Restart, Receive, PollDue, vars
<1>5. ASSUME NEW d \in Field, Send(d) PROVE lock' = lock
  BY <1>5 DEF Send
<1>6. ASSUME NEW sel \in Selections, Begin(sel) PROVE lock' = lock
  BY <1>6 DEF Begin
<1> QED BY <1>1, <1>2, <1>3, <1>4, <1>5, <1>6 DEF Next, WorkerStep, CanStep

LEMMA TypedThroughout == Spec => [](FieldsTyped /\ ChoicesTyped /\ CodeTyped /\ LockInv)
<1>1. Init => FieldsTyped /\ ChoicesTyped /\ CodeTyped /\ LockInv
  BY FieldsIncluded DEF Init, FieldsTyped, ChoicesTyped, CodeTyped, LockInv, NotAsked, NoVerdict
<1> QED BY <1>1, FieldsStep, ChoicesStep, CodeStep, LockStep, PTL DEF Spec

(* Every variable keeps its type, and the two threads that read the WLED *)
(* controller never hold its lock together.                              *)
THEOREM RefreshTypeCorrect == Spec => []TypeOK
BY TypedThroughout, TypeParts, PTL
-----------------------------------------------------------------------------
(* What a result says. *)

LEMMA TrackerStep ==
  ASSUME ChoicesTyped, RefreshInv, [Next]_vars
  PROVE  RefreshInv'
<1> USE DEF RefreshInv, TrackerInv, ResultInv, refreshVars, trackerVars, canVars, wledVars, readingVars
<1>1. ASSUME UNCHANGED trackerVars, worker' # "done" PROVE RefreshInv'
  BY <1>1
<1>2. ASSUME UNCHANGED <<trackerVars, selected, reported, verdict>>, worker' = "done" => worker = "done"
      PROVE  RefreshInv'
  BY <1>2 DEF Selected
<1>3. ASSUME NEW s \in Section, AskSection(s) PROVE RefreshInv'
  BY <1>1, <1>3 DEF AskSection
<1>4. CASE AllAsked \/ Wait \/ TimedOut \/ Snapshot
  BY <1>1, <1>4 DEF AllAsked, Wait, TimedOut, Snapshot
<1>5. CASE Check
  <2>1. UNCHANGED <<advanced, late, seen, selected>>
    BY <1>5 DEF Check
  <2> QED BY <1>5, <2>1, CheckedResult DEF ChoicesTyped, Selected
<1>6. CASE Return
  BY <1>6 DEF Return
<1>7. CASE Expire
  BY <1>2, <1>7 DEF Expire
<1>8. CASE Commit
  <2>1. TrackerInv'
    BY <1>8 DEF Commit
  <2>2. worker' = "done" => worker = "done" /\ UNCHANGED trackerVars
    BY <1>8 DEF Commit, Awake
  <2>3. UNCHANGED <<selected, reported, verdict>>
    BY <1>8 DEF Commit
  <2> QED BY <2>1, <2>2, <2>3 DEF Selected
<1>9. CASE TakeRequests \/ BusFails \/ Restart \/ PollDue
  BY <1>2, <1>9 DEF TakeRequests, BusFails, Restart, PollDue
<1>10. ASSUME NEW d \in Field, Send(d) PROVE RefreshInv'
  BY <1>2, <1>10 DEF Send
<1>11. CASE Receive
  BY <1>2, <1>11 DEF Receive
<1>12. ASSUME NEW sel \in Selections, Begin(sel) PROVE RefreshInv'
  BY <1>1, <1>12 DEF Begin
<1>13. ASSUME NEW t \in Client, WledStep(t) PROVE RefreshInv'
  <2>1. UNCHANGED <<trackerVars, selected, reported, verdict>>
    BY <1>13 DEF WledStep, Acquire, LockTimeout, Respond, PublishState
  <2>2. worker' = "done" => worker = "done"
    BY <1>13 DEF WledStep, Acquire, LockTimeout, Respond, PublishState, Move, GiveUp
  <2> QED BY <1>2, <2>1, <2>2
<1>14. ASSUME NEW s \in Section, OtherReading(s) PROVE RefreshInv'
  BY <1>2, <1>14 DEF OtherReading
<1>15. CASE UNCHANGED vars
  BY <1>2, <1>15 DEF vars
<1> QED
  BY <1>3, <1>4, <1>5, <1>6, <1>7, <1>8, <1>9, <1>10, <1>11, <1>12, <1>13, <1>14, <1>15
  DEF Next, WorkerStep, CanStep

(* A result reports what was observed after the baseline and by the deadline, *)
(* leaves out only what was observed again too late, and "observed" means     *)
(* every field: whichever threads publish while the worker computes it.       *)
THEOREM ResultsReportWhatWasSeen == Spec => []ObservedHonest
<1>1. Init => RefreshInv
  BY DEF Init, RefreshInv, TrackerInv, ResultInv
<1>2. RefreshInv => ObservedHonest
  BY DEF RefreshInv, TrackerInv, ResultInv, ObservedHonest
<1> QED BY <1>1, <1>2, TypedThroughout, TrackerStep, PTL DEF Spec
-----------------------------------------------------------------------------
(* The wake-up of the worker. *)

LEMMA WakeupStep ==
  ASSUME NoLostWakeup, [Next]_vars
  PROVE  NoLostWakeup'
<1> USE DEF NoLostWakeup, refreshVars, trackerVars, canVars, wledVars, readingVars
<1>1. ASSUME worker' # "asleep" PROVE NoLostWakeup'
  BY <1>1
<1>2. ASSUME UNCHANGED <<worker, outcome, selected, advanced>> PROVE NoLostWakeup'
  BY <1>2 DEF Required
<1>3. ASSUME NEW s \in Section, AskSection(s) PROVE NoLostWakeup'
  BY <1>1, <1>3 DEF AskSection
<1>4. CASE Wait
  <2>1. Required' = Required /\ advanced' = advanced
    BY <1>4 DEF Wait, Required
  <2> QED BY <1>4, <2>1 DEF Wait
<1>5. CASE AllAsked \/ TimedOut \/ Snapshot \/ Check \/ Return
  BY <1>1, <1>5 DEF AllAsked, TimedOut, Snapshot, Check, Return
<1>6. CASE Expire \/ TakeRequests \/ Receive \/ BusFails \/ Restart \/ PollDue \/ UNCHANGED vars
  BY <1>2, <1>6 DEF Expire, TakeRequests, Receive, BusFails, Restart, PollDue, vars
<1>7. CASE Commit
  <2> SUFFICES ASSUME worker' = "asleep" PROVE ~ (Required \subseteq advanced)'
    OBVIOUS
  <2>1. worker = "asleep" /\ ~ (Required \subseteq advanced \cup carried) /\ UNCHANGED <<outcome, selected>>
    BY <1>7 DEF Commit, Awake
  <2>2. advanced' \subseteq advanced \cup carried
    BY <1>7, <2>1 DEF Commit
  <2>3. Required' = Required
    BY <2>1 DEF Required
  <2> QED BY <2>1, <2>2, <2>3
<1>8. ASSUME NEW d \in Field, Send(d) PROVE NoLostWakeup'
  BY <1>2, <1>8 DEF Send
<1>9. ASSUME NEW sel \in Selections, Begin(sel) PROVE NoLostWakeup'
  BY <1>1, <1>9 DEF Begin
<1>10. ASSUME NEW t \in Client, WledStep(t) PROVE NoLostWakeup'
  <2>1. worker' # "asleep" \/ UNCHANGED <<worker, outcome>>
    BY <1>10 DEF WledStep, Acquire, LockTimeout, Respond, PublishState, Move, GiveUp
  <2>2. UNCHANGED <<selected, advanced>>
    BY <1>10 DEF WledStep, Acquire, LockTimeout, Respond, PublishState
  <2> QED BY <1>1, <1>2, <2>1, <2>2
<1>11. ASSUME NEW s \in Section, OtherReading(s) PROVE NoLostWakeup'
  BY <1>2, <1>11 DEF OtherReading
<1> QED
  BY <1>3, <1>4, <1>5, <1>6, <1>7, <1>8, <1>9, <1>10, <1>11 DEF Next, WorkerStep, CanStep

(* The worker never sleeps on when every field it waits for was observed: the *)
(* condition is notified under the lock its predicate is tested under.        *)
THEOREM WakeupsAreNotLost == Spec => []NoLostWakeup
<1>1. Init => NoLostWakeup
  BY DEF Init, NoLostWakeup
<1> QED BY <1>1, WakeupStep, PTL DEF Spec
-----------------------------------------------------------------------------
(* The requests of the RV-C source. *)

LEMMA RequestsStep ==
  ASSUME RequestsKept, [Next]_vars
  PROVE  RequestsKept'
<1> USE DEF RequestsKept, refreshVars, trackerVars, canVars, wledVars, readingVars
<1>1. ASSUME NEW s \in Section, AskSection(s) PROVE RequestsKept'
  BY <1>1 DEF AskSection, RequestStatus
<1>2. CASE \/ AllAsked \/ Wait \/ TimedOut \/ Snapshot \/ Check \/ Return \/ Expire
           \/ Commit \/ Receive \/ Restart \/ PollDue \/ UNCHANGED vars
  BY <1>2 DEF AllAsked, Wait, TimedOut, Snapshot, Check, Return, Expire, Commit, Receive, Restart,
     PollDue, vars
<1>3. CASE TakeRequests
  BY <1>3 DEF TakeRequests
<1>4. ASSUME NEW d \in Field, Send(d) PROVE RequestsKept'
  BY <1>4 DEF Send
<1>5. CASE BusFails
  BY <1>5 DEF BusFails
<1>6. ASSUME NEW sel \in Selections, Begin(sel) PROVE RequestsKept'
  BY <1>6 DEF Begin
<1>7. ASSUME NEW t \in Client, WledStep(t) PROVE RequestsKept'
  BY <1>7 DEF WledStep, Acquire, LockTimeout, Respond, PublishState
<1>8. ASSUME NEW s \in Section, OtherReading(s) PROVE RequestsKept'
  BY <1>8 DEF OtherReading
<1> QED BY <1>1, <1>2, <1>3, <1>4, <1>5, <1>6, <1>7, <1>8 DEF Next, WorkerStep, CanStep

(* A status id that a refresh asked for is on the list or on its way until it *)
(* was sent, however the loop and the workers interleave.                     *)
THEOREM RequestsAreKept == Spec => []RequestsKept
<1>1. Init => RequestsKept
  BY DEF Init, RequestsKept
<1> QED BY <1>1, RequestsStep, PTL DEF Spec
-----------------------------------------------------------------------------
(* The request lock of the WLED source. *)

(* Who is in a request holds the lock, and nobody else does. *)
HttpInv ==
  /\ poll = "http" => lock = {"poll"}
  /\ worker = "http" => lock = {"worker"}

LEMMA HttpStep ==
  ASSUME HttpInv, [Next]_vars
  PROVE  HttpInv'
<1> USE DEF HttpInv, refreshVars, trackerVars, canVars, wledVars, readingVars
<1>1. ASSUME worker' # "http" \/ worker' = worker, UNCHANGED wledVars PROVE HttpInv'
  BY <1>1
<1>2. ASSUME NEW s \in Section, AskSection(s) \/ OtherReading(s) PROVE HttpInv'
  BY <1>1, <1>2 DEF AskSection, OtherReading
<1>3. CASE \/ AllAsked \/ Wait \/ TimedOut \/ Snapshot \/ Check \/ Return \/ Expire \/ UNCHANGED vars
           \/ TakeRequests \/ Receive \/ BusFails \/ Restart
  BY <1>1, <1>3 DEF AllAsked, Wait, TimedOut, Snapshot, Check, Return, Expire, vars, TakeRequests,
     Receive, BusFails, Restart
<1>4. CASE Commit
  BY <1>4 DEF Commit, Awake
<1>5. CASE PollDue
  BY <1>5 DEF PollDue
<1>6. ASSUME NEW d \in Field, Send(d) PROVE HttpInv'
  BY <1>1, <1>6 DEF Send
<1>7. ASSUME NEW sel \in Selections, Begin(sel) PROVE HttpInv'
  BY <1>1, <1>7 DEF Begin
<1>8. ASSUME NEW t \in Client, WledStep(t) PROVE HttpInv'
  <2> USE DEF Client, Place, Move, GiveUp
  <2>1. CASE Acquire(t)
    BY <2>1 DEF Acquire
  <2>2. CASE LockTimeout(t)
    BY <2>2 DEF LockTimeout
  <2>3. CASE Respond(t)
    BY <2>3 DEF Respond
  <2>4. CASE PublishState(t)
    BY <2>4 DEF PublishState
  <2> QED BY <1>8, <2>1, <2>2, <2>3, <2>4 DEF WledStep
<1> QED BY <1>2, <1>3, <1>4, <1>5, <1>6, <1>7, <1>8 DEF Next, WorkerStep, CanStep

(* The poll and a refresh never have a request to the WLED controller open at *)
(* the same time, whichever of their timeouts ends first.                     *)
THEOREM OneRequestAtATime == Spec => [](~ (poll = "http" /\ worker = "http"))
<1>1. Init => HttpInv
  BY DEF Init, HttpInv
<1>2. HttpInv => ~ (poll = "http" /\ worker = "http")
  BY DEF HttpInv
<1> QED BY <1>1, <1>2, HttpStep, PTL DEF Spec

-----------------------------------------------------------------------------
(* Induction. *)

(* Induction over the naturals, about sets: a set with 0 that is closed     *)
(* under successor has every natural.                                       *)
LEMMA NaturalsByStep ==
  ASSUME NEW T, 0 \in T, \A n \in Nat : n \in T => n + 1 \in T
  PROVE  Nat \subseteq T
<1> DEFINE LT == {pair \in Nat \X Nat : pair[1] < pair[2]}
<1>1. IsWellFoundedOn(LT, Nat)
  BY NatLessThanWellFounded DEF OpToRel
<1>2. SUFFICES ASSUME NEW k \in Nat \ T PROVE FALSE
  OBVIOUS
<1>3. PICK least \in Nat \ T : \A m \in Nat \ T : ~(<<m, least>> \in LT)
  BY <1>1, WFMin
<1>4. least # 0 /\ least - 1 \in Nat
  OBVIOUS
<1>5. <<least - 1, least>> \in LT
  BY <1>4
<1>6. least - 1 \in T
  BY <1>3, <1>4, <1>5
<1> QED BY <1>4, <1>6

-----------------------------------------------------------------------------
(* The overlay. *)

(* What Coach.load accepted: the effective coach of the factory document,   *)
(* or of the document merged with the overlay.                              *)
LEMMA LoadedCoach ==
  ASSUME NEW f, NEW o, LoadCoach(f, o) # Bad
  PROVE  LET merged == merge_coach_overlay(f, o)
         IN  \/ LoadCoach(f, o) = Effective(f)
             \/ /\ merged # Bad
                /\ LoadCoach(f, o) = Effective(merged)
                /\ Effective(merged) # Bad
                /\ \A e \in DOMAIN Effective(f).entities :
                     _require_preserved(Effective(f).entities[e], Effective(merged).entities[e])
  BY DEF LoadCoach

(* The actions of the groups a document has are those of its coach. *)
LEMMA EffectiveGroups ==
  ASSUME NEW d, Effective(d) # Bad
  PROVE  /\ Effective(d).groups = d.groups
         /\ Effective(d).reserved = d.reserved
         /\ DOMAIN Effective(d).entities = DOMAIN d.entities
         /\ \A e \in DOMAIN d.entities :
              /\ "actions" \in DOMAIN Effective(d).entities[e]
              /\ "schemas" \in DOMAIN Effective(d).entities[e]
<1> DEFINE entities == [e \in DOMAIN d.entities |-> _resolve_entity(d, d.entities[e])]
<1>1. /\ Effective(d) = [entities |-> entities, groups |-> d.groups, reserved |-> d.reserved]
      /\ \A e \in DOMAIN entities : entities[e] # Bad
  BY DEF Effective
<1>2. ASSUME NEW e \in DOMAIN d.entities
      PROVE  {"actions", "schemas"} \subseteq DOMAIN entities[e]
  <2>1. entities[e] = _resolve_entity(d, d.entities[e]) /\ entities[e] # Bad
    BY <1>1
  <2> QED BY <2>1 DEF _resolve_entity, Updated
<1> HIDE DEF entities
<1>3. Effective(d).entities = entities /\ DOMAIN entities = DOMAIN d.entities
  BY <1>1 DEF entities
<1> QED BY <1>1, <1>2, <1>3

(* A merged group keeps the actions it had and their steps. *)
LEMMA MergedGroups ==
  ASSUME NEW base, NEW addition, ~Collides(base, addition),
         NEW g \in DOMAIN base, GroupForm(base[g]), NEW a \in GroupActions(base[g])
  PROVE  LET merged == MergeNamed(base, addition)
         IN  /\ g \in DOMAIN merged
             /\ a \in GroupActions(merged[g])
             /\ GroupSteps(merged[g], a) = GroupSteps(base[g], a)
<1> DEFINE merged == MergeNamed(base, addition)
           group  == merge_definitions(base[g], addition[g])
<1>1. CASE g \notin DOMAIN addition
  BY <1>1 DEF MergeNamed
<1>2. CASE g \in DOMAIN addition
  <2>1. g \in DOMAIN merged /\ merged[g] = group
    BY <1>2 DEF MergeNamed
  <2>2. \A key \in DOMAIN base[g] \cap DOMAIN addition[g] :
          key \in Combined /\ DOMAIN base[g][key] \cap DOMAIN addition[g][key] = {}
    BY <1>2 DEF Collides
  <2>3. /\ ~("listed" \in DOMAIN base[g] /\ "actions" \in DOMAIN addition[g])
        /\ ~("actions" \in DOMAIN base[g] /\ "listed" \in DOMAIN addition[g])
    BY <1>2 DEF Collides
  <2>4. DOMAIN group = DOMAIN base[g] \cup DOMAIN addition[g]
    BY DEF merge_definitions
  <2>5. \A key \in DOMAIN base[g] \ Combined : group[key] = base[g][key]
    BY <2>2 DEF merge_definitions
  <2>6. CASE "listed" \in DOMAIN base[g]
    <3>1. "members" \in DOMAIN base[g]
      BY <2>6 DEF GroupForm
    <3>2. group["listed"] = base[g]["listed"] /\ group["members"] = base[g]["members"]
      BY <2>5, <2>6, <3>1 DEF Combined
    <3> HIDE DEF group
    <3> QED BY <2>1, <2>4, <2>6, <3>1, <3>2 DEF GroupActions, GroupSteps, Get
  <2>7. CASE "listed" \notin DOMAIN base[g]
    <3>1. "actions" \in DOMAIN base[g] /\ a \in DOMAIN base[g]["actions"]
      BY <2>7 DEF GroupActions, Get
    <3>2. "listed" \notin DOMAIN group /\ "actions" \in DOMAIN group
      BY <2>3, <2>4, <2>7, <3>1
    <3>3. a \in DOMAIN group["actions"] /\ group["actions"][a] = base[g]["actions"][a]
      <4>1. CASE "actions" \notin DOMAIN addition[g]
        BY <3>1, <4>1 DEF merge_definitions
      <4>2. CASE "actions" \in DOMAIN addition[g]
        <5>1. group["actions"] = Updated(base[g]["actions"], addition[g]["actions"])
          BY <3>1, <4>2 DEF merge_definitions, Combined
        <5>2. a \notin DOMAIN addition[g]["actions"]
          BY <2>2, <3>1, <4>2
        <5> QED BY <3>1, <5>1, <5>2 DEF Updated
      <4> QED BY <4>1, <4>2
    <3> HIDE DEF group
    <3> QED BY <2>1, <2>7, <3>1, <3>2, <3>3 DEF GroupActions, GroupSteps, Get
  <2> QED BY <2>6, <2>7
<1> QED BY <1>1, <1>2

(* Entities whose actions are the same prepare the same frames, if both can. *)
LEMMA SameFrames ==
  ASSUME NEW before, NEW after, NEW e, NEW a, NEW params,
         after.entities[e].actions[a] = before.entities[e].actions[a],
         prepare_source_actions(before, e, a, params) # Bad,
         prepare_source_actions(after, e, a, params) # Bad
  PROVE  LET old == prepare_source_actions(before, e, a, params)
             new == prepare_source_actions(after, e, a, params)
         IN  [i \in DOMAIN old |-> <<old[i].instance, old[i].wait>>]
               = [i \in DOMAIN new |-> <<new[i].instance, new[i].wait>>]
<1> DEFINE old == prepare_source_actions(before, e, a, params)
           new == prepare_source_actions(after, e, a, params)
           filled == SubstituteFrames(before.entities[e].actions[a], params)
<1>1. /\ DOMAIN old = DOMAIN filled
      /\ \A i \in DOMAIN filled : old[i].instance = filled[i].instance.lit /\ old[i].wait = filled[i].wait
  BY DEF prepare_source_actions
<1>2. /\ DOMAIN new = DOMAIN filled
      /\ \A i \in DOMAIN filled : new[i].instance = filled[i].instance.lit /\ new[i].wait = filled[i].wait
  BY DEF prepare_source_actions
<1>3. [i \in DOMAIN old |-> <<old[i].instance, old[i].wait>>]
        = [i \in DOMAIN new |-> <<new[i].instance, new[i].wait>>]
  <2> HIDE DEF old, new, filled
  <2> QED BY <1>1, <1>2
<1> QED BY <1>3

(* An overlay changes nothing the factory definition does (Coach.load).     *)
LEMMA LoadOnlyAdds ==
  ASSUME NEW f \in Factories, NEW o, LoadCoach(f, o) # Bad, Effective(f) # Bad
  PROVE  LET before == Effective(f)
             after  == LoadCoach(f, o)
         IN  /\ \A g \in DOMAIN f.groups : \A a \in GroupActions(f.groups[g]) :
                  /\ a \in GroupActions(after.groups[g])
                  /\ GroupSteps(after.groups[g], a) = GroupSteps(f.groups[g], a)
             /\ \A e \in DOMAIN before.entities : \A a \in DOMAIN before.entities[e].actions :
                  after.entities[e].actions[a] = before.entities[e].actions[a]
<1> DEFINE before == Effective(f)
           after  == LoadCoach(f, o)
           merged == merge_coach_overlay(f, o)
<1>1. CASE after = before
  BY <1>1, EffectiveGroups
<1>2. CASE /\ merged # Bad /\ after = Effective(merged) /\ Effective(merged) # Bad
           /\ \A e \in DOMAIN before.entities :
                _require_preserved(before.entities[e], Effective(merged).entities[e])
  <2>1. /\ ~Collides(f.groups, o.groups)
        /\ merged.groups = MergeNamed(f.groups, o.groups)
    BY <1>2 DEF merge_coach_overlay
  <2>2. after.groups = MergeNamed(f.groups, o.groups)
    BY <1>2, <2>1, EffectiveGroups
  <2>3. \A g \in DOMAIN f.groups : GroupForm(f.groups[g])
    BY PlanAssumption
  <2>4. ASSUME NEW g \in DOMAIN f.groups, NEW a \in GroupActions(f.groups[g])
        PROVE  /\ a \in GroupActions(after.groups[g])
               /\ GroupSteps(after.groups[g], a) = GroupSteps(f.groups[g], a)
    BY <2>1, <2>2, <2>3, MergedGroups
  <2>5. ASSUME NEW e \in DOMAIN before.entities, NEW a \in DOMAIN before.entities[e].actions
        PROVE  after.entities[e].actions[a] = before.entities[e].actions[a]
    <3>1. "actions" \in DOMAIN before.entities[e]
      BY EffectiveGroups
    <3>2. _require_preserved(before.entities[e], after.entities[e])
      BY <1>2
    <3> QED BY <3>1, <3>2 DEF _require_preserved, Combined
  <2> QED BY <2>4, <2>5
<1>3. (after = before) \/ <1>2!1
  BY LoadedCoach
<1> QED BY <1>1, <1>2, <1>3

(* OverlayOnlyAdds for every factory document, overlay and parameter.        *)
THEOREM OverlaysOnlyAdd == PlanSpec => []OverlayOnlyAdds
<1> DEFINE J == phase = "loaded" => /\ factory \in Factories
                                    /\ coach # Bad
                                    /\ \E o \in Overlays : coach = LoadCoach(factory, o)
<1>1. PlanInit => J
  BY DEF PlanInit
<1>2. J /\ [PlanNext]_planVars => J'
  <2> SUFFICES ASSUME J, [PlanNext]_planVars PROVE J'
    OBVIOUS
  <2>1. CASE Load
    BY <2>1 DEF Load
  <2>2. CASE UNCHANGED planVars
    BY <2>2 DEF planVars
  <2>3. CASE CheckSources
    BY <2>3 DEF CheckSources
  <2>4. CASE PlanNext /\ ~Load /\ ~CheckSources
    <3>1. phase' # "loaded"
      BY <2>4 DEF PlanNext, StartPolicy, RefusePolicy, Ask, Type, execute_group, execute_entity,
           ExecuteUnknown, Abort, SendFrame, Executed, Again
    <3> QED BY <3>1
  <2> QED BY <2>1, <2>2, <2>3, <2>4
<1>3. J => OverlayOnlyAdds
  <2> SUFFICES ASSUME J, phase = "loaded", Effective(factory) # Bad PROVE OverlayOnlyAdds
    BY DEF OverlayOnlyAdds
  <2>1. PICK o \in Overlays : coach = LoadCoach(factory, o) /\ LoadCoach(factory, o) # Bad
    OBVIOUS
  <2>2. \A e \in DOMAIN Effective(factory).entities :
          \A a \in DOMAIN Effective(factory).entities[e].actions :
            coach.entities[e].actions[a] = Effective(factory).entities[e].actions[a]
    BY <2>1, LoadOnlyAdds
  <2>3. \A g \in DOMAIN factory.groups : \A a \in GroupActions(factory.groups[g]) :
          /\ a \in GroupActions(coach.groups[g])
          /\ GroupSteps(coach.groups[g], a) = GroupSteps(factory.groups[g], a)
    BY <2>1, LoadOnlyAdds
  <2> QED BY <2>2, <2>3, SameFrames DEF OverlayOnlyAdds
<1> QED BY <1>1, <1>2, <1>3, PTL DEF PlanSpec

-----------------------------------------------------------------------------
(* The shapes of calls and frames. *)

(* A coach whose groups are well formed and whose actions are frames. *)
Proper(c) ==
  /\ \A g \in DOMAIN c.groups : GroupForm(c.groups[g])
  /\ \A e \in DOMAIN c.entities : \A a \in DOMAIN c.entities[e].actions :
       c.entities[e].actions[a] \in Seq(Frame)

(* The parameters of a call, overriding those of a step, are parameters.    *)
LEMMA UpdatedParams ==
  ASSUME NEW p \in Params, NEW q \in Params
  PROVE  Updated(p, q) \in Params
<1>1. /\ DOMAIN p \subseteq {"level"} /\ \A n \in DOMAIN p : p[n] \in Levels
      /\ DOMAIN q \subseteq {"level"} /\ \A n \in DOMAIN q : q[n] \in Levels
  BY DEF Params
<1> DEFINE r == Updated(p, q)
<1>2. /\ DOMAIN r = DOMAIN p \cup DOMAIN q
      /\ \A n \in DOMAIN r : r[n] = IF n \in DOMAIN q THEN q[n] ELSE p[n]
      /\ r = [n \in DOMAIN r |-> r[n]]
  BY DEF Updated
<1> HIDE DEF r
<1>3. r \in [DOMAIN r -> Levels] /\ DOMAIN r \in SUBSET {"level"}
  BY <1>1, <1>2
<1>4. r \in Params
  BY <1>3 DEF Params
<1> QED BY <1>4 DEF r

(* No parameters are parameters.                                            *)
LEMMA NoParams == << >> \in Params
<1>1. << >> \in [{} -> Levels]
  OBVIOUS
<1> QED BY <1>1 DEF Params

(* A step under the parameters of its caller is a call.                     *)
LEMMA StepCalls ==
  ASSUME NEW step \in Step, NEW params \in Params
  PROVE  StepCall(step, params) \in Step
  BY UpdatedParams DEF Step, StepCall, Call

(* The steps of an action of a group are calls. *)
LEMMA StepsAreCalls ==
  ASSUME NEW group, GroupForm(group), NEW action \in GroupActions(group), action \in STRING
  PROVE  GroupSteps(group, action) \in Seq(Step)
<1>1. CASE "listed" \in DOMAIN group
  <2>1. group.members \in Seq(STRING) /\ Get(group, "members", << >>) = group.members
    BY <1>1 DEF GroupForm, Get
  <2>2. \A m \in STRING : [entity |-> m, action |-> action, params |-> << >>] \in Step
    BY NoParams DEF Step
  <2> DEFINE members == group.members
             steps == [i \in DOMAIN members |->
                         [entity |-> members[i], action |-> action, params |-> << >>]]
  <2>3. GroupSteps(group, action) = steps
    BY <1>1, <2>1 DEF GroupSteps
  <2>4. \A i \in DOMAIN members : members[i] \in STRING
    BY <2>1
  <2>5. DOMAIN members = 1..Len(members) /\ Len(members) \in Nat
    BY <2>1
  <2>6. \A i \in 1..Len(members) : steps[i] \in Step
    BY <2>2, <2>4, <2>5
  <2>7. steps \in Seq(Step)
    <3>1. steps \in [1..Len(members) -> Step]
      BY <2>5, <2>6
    <3> HIDE DEF steps
    <3> QED BY <2>5, <3>1
  <2> QED BY <2>3, <2>7
<1>2. CASE "listed" \notin DOMAIN group
  BY <1>2 DEF GroupForm, GroupActions, GroupSteps, Get
<1> QED BY <1>1, <1>2

(* The effective coach of a document with well-formed groups is proper.     *)
LEMMA EffectiveIsProper ==
  ASSUME NEW d, Effective(d) # Bad, \A g \in DOMAIN d.groups : GroupForm(d.groups[g])
  PROVE  Proper(Effective(d))
<1> DEFINE entities == [e \in DOMAIN d.entities |-> _resolve_entity(d, d.entities[e])]
<1>1. /\ Effective(d) = [entities |-> entities, groups |-> d.groups, reserved |-> d.reserved]
      /\ \A e \in DOMAIN entities : entities[e] # Bad
  BY DEF Effective
<1>2. ASSUME NEW e \in DOMAIN d.entities, NEW a \in DOMAIN entities[e].actions
      PROVE  entities[e].actions[a] \in Seq(Frame)
  <2>1. entities[e] = _resolve_entity(d, d.entities[e]) /\ entities[e] # Bad
    BY <1>1
  <2> QED BY <2>1 DEF _resolve_entity, Updated
<1> HIDE DEF entities
<1>3. Effective(d).entities = entities /\ DOMAIN entities = DOMAIN d.entities
  BY <1>1 DEF entities
<1>4. Effective(d).groups = d.groups
  BY <1>1
<1> QED BY <1>2, <1>3, <1>4 DEF Proper

(* What Coach.load accepts is proper, with or without an overlay.           *)
LEMMA LoadedIsProper ==
  ASSUME NEW f \in Factories, NEW o \in Overlays, LoadCoach(f, o) # Bad
  PROVE  Proper(LoadCoach(f, o))
<1> DEFINE merged == merge_coach_overlay(f, o)
<1>1. \A g \in DOMAIN f.groups : GroupForm(f.groups[g])
  BY PlanAssumption
<1>2. CASE LoadCoach(f, o) = Effective(f)
  BY <1>1, <1>2, EffectiveIsProper
<1>3. CASE LoadCoach(f, o) # Effective(f)
  <2>1. o # Bad
    BY <1>3 DEF LoadCoach
  <2>2. \A g \in DOMAIN o.groups : GroupForm(o.groups[g])
    BY <2>1, PlanAssumption
  <2>3. merged # Bad /\ LoadCoach(f, o) = Effective(merged)
    BY <1>3, LoadedCoach
  <2>4. merged.groups = MergeNamed(f.groups, o.groups)
    BY <2>3 DEF merge_coach_overlay
  <2>5. ASSUME NEW base, NEW addition, GroupForm(base), GroupForm(addition)
        PROVE  GroupForm(merge_definitions(base, addition))
    <3> DEFINE group == merge_definitions(base, addition)
    <3>1. DOMAIN group = DOMAIN base \cup DOMAIN addition
      BY DEF merge_definitions
    <3>2. "listed" \in DOMAIN group => "members" \in DOMAIN group
      BY <2>5, <3>1 DEF GroupForm
    <3>3. "members" \in DOMAIN group => group["members"] \in Seq(STRING)
      BY <2>5 DEF GroupForm, merge_definitions, Combined
    <3>4. ASSUME "actions" \in DOMAIN group, NEW a \in DOMAIN group["actions"]
          PROVE  group["actions"][a] \in Seq(Step)
      <4>1. CASE "actions" \in DOMAIN base /\ "actions" \in DOMAIN addition
        <5>1. group["actions"] = Updated(base["actions"], addition["actions"])
          BY <4>1 DEF merge_definitions, Combined
        <5> HIDE DEF group
        <5> QED BY <2>5, <3>4, <4>1, <5>1 DEF GroupForm, Updated
      <4>2. CASE "actions" \notin DOMAIN base \/ "actions" \notin DOMAIN addition
        <5>1. \/ "actions" \in DOMAIN base /\ group["actions"] = base["actions"]
              \/ "actions" \in DOMAIN addition /\ group["actions"] = addition["actions"]
          BY <3>1, <3>4, <4>2 DEF merge_definitions
        <5> HIDE DEF group
        <5> QED BY <2>5, <3>4, <5>1 DEF GroupForm
      <4> QED BY <4>1, <4>2
    <3> HIDE DEF group
    <3>5. GroupForm(group)
      BY <3>2, <3>3, <3>4 DEF GroupForm
    <3> QED BY <3>5 DEF group
  <2>6. \A g \in DOMAIN merged.groups : GroupForm(merged.groups[g])
    BY <1>1, <2>2, <2>4, <2>5 DEF MergeNamed
  <2> HIDE DEF merged
  <2> QED BY <2>3, <2>6, EffectiveIsProper
<1> QED BY <1>2, <1>3

-----------------------------------------------------------------------------
(* Execution. *)

Prepared == [entity : STRING, action : STRING, part : Nat, section : DOMAIN SourceType,
             instance : Nat, wait : Nat]

(* What prepare_source_actions returns for an action: its frames, all of    *)
(* them and in order, and none of them reserved.                            *)
LEMMA PreparedFrames ==
  ASSUME NEW c, Proper(c), NEW e \in DOMAIN c.entities, e \in STRING,
         NEW a \in DOMAIN c.entities[e].actions, a \in STRING, NEW params,
         prepare_source_actions(c, e, a, params) # Bad
  PROVE  LET plan == prepare_source_actions(c, e, a, params)
         IN  /\ plan \in Seq(Prepared)
             /\ DOMAIN plan = DOMAIN c.entities[e].actions[a]
             /\ \A i \in DOMAIN plan : /\ plan[i].entity = e /\ plan[i].action = a
                                       /\ plan[i].part = i
                                       /\ plan[i].section = plan[1].section
                                       /\ plan[i].instance \notin c.reserved
<1> DEFINE raw == c.entities[e].actions[a]
           filled == SubstituteFrames(raw, params)
           section == resolve_config_section(c.entities[e])
           plan == [i \in DOMAIN filled |->
                      [entity |-> e, action |-> a, part |-> i, section |-> section,
                       instance |-> filled[i].instance.lit, wait |-> filled[i].wait]]
<1>1. raw \in Seq(Frame)
  BY DEF Proper
<1>2. DOMAIN filled = DOMAIN raw /\ DOMAIN raw = 1..Len(raw) /\ Len(raw) \in Nat
  BY <1>1 DEF SubstituteFrames
<1>3. /\ prepare_source_actions(c, e, a, params) = plan
      /\ section \in DOMAIN SourceType
      /\ \A i \in DOMAIN filled : /\ filled[i].wait \in 0..MaxFrameWait
                                  /\ _encode_action(filled[i].instance, c.reserved)
  BY DEF prepare_source_actions
<1> HIDE DEF filled, section, raw
<1>4. \A i \in DOMAIN filled : /\ filled[i].instance.lit \in Nat
                               /\ filled[i].instance.lit \notin c.reserved
                               /\ filled[i].wait \in Nat
  <2>1. MaxInstance \in Nat /\ MaxFrameWait \in Nat
    BY DefinitionAssumption
  <2>2. \A n \in 0..MaxInstance : n \in Nat
    BY <2>1
  <2>3. \A n \in 0..MaxFrameWait : n \in Nat
    BY <2>1
  <2> QED BY <1>3, <2>2, <2>3 DEF _encode_action
<1>5. \A i \in 1..Len(raw) : plan[i] \in Prepared
  BY <1>2, <1>3, <1>4 DEF Prepared
<1>6. plan \in [1..Len(raw) -> Prepared]
  BY <1>2, <1>5
<1>7. DOMAIN plan = DOMAIN raw
  BY <1>2
<1>8. \A i \in DOMAIN plan : /\ plan[i].entity = e /\ plan[i].action = a
                             /\ plan[i].part = i
                             /\ plan[i].section = section
                             /\ plan[i].instance \notin c.reserved
  BY <1>4
<1>9. plan \in Seq(Prepared)
  <2> HIDE DEF plan
  <2> QED BY <1>2, <1>6
<1>10. \A i \in DOMAIN plan : 1 \in DOMAIN plan
  BY <1>2
<1> HIDE DEF plan
<1> QED BY <1>3, <1>7, <1>8, <1>9, <1>10 DEF raw

(* Frames of actions the coach has, none of which is reserved. *)
Known(plan) ==
  \A i \in DOMAIN plan :
    /\ plan[i].entity \in DOMAIN coach.entities
    /\ plan[i].action \in DOMAIN coach.entities[plan[i].entity].actions
    /\ plan[i].instance \notin coach.reserved

(* Whole actions after whole actions are whole actions.                     *)
LEMMA WholeAfterWhole ==
  ASSUME Proper(coach), NEW s \in Seq(Prepared), NEW t \in Seq(Prepared),
         Known(s), Known(t), Whole(s), Whole(t)
  PROVE  s \o t \in Seq(Prepared) /\ Known(s \o t) /\ Whole(s \o t)
<1> DEFINE u == s \o t
<1>1. /\ u \in Seq(Prepared)
      /\ Len(s) \in Nat /\ Len(t) \in Nat /\ Len(u) = Len(s) + Len(t)
      /\ DOMAIN s = 1..Len(s) /\ DOMAIN t = 1..Len(t) /\ DOMAIN u = 1..Len(u)
      /\ \A i \in DOMAIN s : u[i] = s[i]
      /\ \A i \in DOMAIN t : u[Len(s) + i] = t[i]
  OBVIOUS
<1>2. \A i \in DOMAIN u : i \in DOMAIN s \/ \E k \in DOMAIN t : i = Len(s) + k
  <2> SUFFICES ASSUME NEW i \in DOMAIN u, i \notin DOMAIN s PROVE i - Len(s) \in DOMAIN t
    BY <1>1
  <2> QED BY <1>1
<1> HIDE DEF u
<1>3. Known(u)
  BY <1>1, <1>2 DEF Known
<1>4. ASSUME NEW i \in DOMAIN u,
             NEW j \in DOMAIN coach.entities[u[i].entity].actions[u[i].action]
      PROVE  LET k == i - u[i].part + j
             IN  /\ k \in DOMAIN u
                 /\ u[k].entity = u[i].entity /\ u[k].action = u[i].action /\ u[k].part = j
  <2>1. j \in Nat
    <3>1. coach.entities[u[i].entity].actions[u[i].action] \in Seq(Frame)
      BY <1>3 DEF Known, Proper
    <3> DEFINE raw == coach.entities[u[i].entity].actions[u[i].action]
    <3>2. raw \in Seq(Frame) /\ j \in DOMAIN raw
      BY <1>4, <3>1
    <3> HIDE DEF raw
    <3> QED BY <3>2
  <2>2. u[i].part \in Nat
    <3>1. u[i] \in Prepared
      BY <1>1
    <3> QED BY <3>1 DEF Prepared
  <2>3. CASE i \in DOMAIN s
    <3>1. u[i] = s[i]
      BY <1>1, <2>3
    <3>2. LET k == i - s[i].part + j
          IN  /\ k \in DOMAIN s
              /\ s[k].entity = s[i].entity /\ s[k].action = s[i].action /\ s[k].part = j
      BY <1>4, <2>3, <3>1 DEF Whole
    <3>3. \A k \in DOMAIN s : k \in DOMAIN u /\ u[k] = s[k]
      BY <1>1
    <3> QED BY <3>1, <3>2, <3>3
  <2>4. CASE i \notin DOMAIN s
    <3>1. PICK m \in DOMAIN t : i = Len(s) + m
      BY <1>2, <2>4
    <3>2. u[i] = t[m]
      BY <1>1, <3>1
    <3> DEFINE k == m - t[m].part + j
    <3>3. /\ k \in DOMAIN t
          /\ t[k].entity = t[m].entity /\ t[k].action = t[m].action /\ t[k].part = j
      BY <1>4, <3>2 DEF Whole
    <3>4. i - u[i].part + j = Len(s) + k
      BY <1>1, <2>1, <2>2, <3>1, <3>2
    <3>5. Len(s) + k \in DOMAIN u /\ u[Len(s) + k] = t[k]
      BY <1>1, <3>3
    <3> HIDE DEF k
    <3> QED BY <3>2, <3>3, <3>4, <3>5
  <2> QED BY <2>3, <2>4
<1>5. Whole(u)
  BY <1>4 DEF Whole
<1> QED BY <1>1, <1>3, <1>5 DEF u

(* One action, prepared, is whole. *)
LEMMA PreparedIsWhole ==
  ASSUME Proper(coach), NEW e \in DOMAIN coach.entities, e \in STRING,
         NEW a \in DOMAIN coach.entities[e].actions, a \in STRING, NEW params,
         prepare_source_actions(coach, e, a, params) # Bad
  PROVE  LET plan == prepare_source_actions(coach, e, a, params)
         IN  plan \in Seq(Prepared) /\ Known(plan) /\ Whole(plan)
<1> DEFINE plan == prepare_source_actions(coach, e, a, params)
<1>1. /\ plan \in Seq(Prepared)
      /\ DOMAIN plan = DOMAIN coach.entities[e].actions[a]
      /\ \A i \in DOMAIN plan : /\ plan[i].entity = e /\ plan[i].action = a
                                /\ plan[i].part = i
                                /\ plan[i].instance \notin coach.reserved
  BY PreparedFrames
<1> HIDE DEF plan
<1>2. Known(plan)
  BY <1>1 DEF Known
<1>3. Whole(plan)
  <2> SUFFICES ASSUME NEW i \in DOMAIN plan, NEW j \in DOMAIN coach.entities[e].actions[a]
               PROVE  i - plan[i].part + j = j
    BY <1>1 DEF Whole
  <2>1. i \in Nat /\ j \in Nat
    BY <1>1
  <2> QED BY <1>1, <2>1
<1> QED BY <1>1, <1>2, <1>3 DEF plan

-----------------------------------------------------------------------------
(* Expansion: what the recursion of expand computes. *)

Codes == {"plan", "invalid_request", "unknown_action", "unknown_target"}
Result == [code : Codes, steps : Seq(Step), groups : Seq(Step)]

(* A function is iterated n times from a first value: the recursive         *)
(* definitions over 0..n have a meaning.                                    *)
Iterates(f, S, first, n, F) ==
  f \in [0..n -> S] /\ f[0] = first /\ \A i \in 1..n : f[i] = F[i][f[i - 1]]

(* Such a function exists.                                                  *)
LEMMA IterationExists ==
  ASSUME NEW S, NEW first \in S, NEW n \in Nat, NEW F,
         \A i \in 1..n, x \in S : F[i][x] \in S
  PROVE  \E f : Iterates(f, S, first, n, F)
<1> DEFINE Upto(m) == \E f \in [0..m -> S] :
                        /\ f[0] = first
                        /\ \A i \in 1..m : f[i] = F[i][f[i - 1]]
           T == {m \in Nat : m <= n => Upto(m)}
<1>1. 0 \in T
  <2> DEFINE f == [i \in 0..0 |-> first]
  <2>1. f \in [0..0 -> S] /\ f[0] = first /\ \A i \in 1..0 : FALSE
    OBVIOUS
  <2> HIDE DEF f
  <2>2. Upto(0)
    BY <2>1
  <2> QED BY <2>2
<1>2. ASSUME NEW m \in Nat, m \in T PROVE m + 1 \in T
  <2> SUFFICES ASSUME m + 1 <= n PROVE Upto(m + 1)
    OBVIOUS
  <2>1. PICK f \in [0..m -> S] : f[0] = first /\ \A i \in 1..m : f[i] = F[i][f[i - 1]]
    BY <1>2
  <2>2. F[m + 1][f[m]] \in S
    <3>1. m + 1 \in 1..n /\ f[m] \in S
      OBVIOUS
    <3> QED BY <3>1
  <2> DEFINE g == [i \in 0..(m + 1) |-> IF i <= m THEN f[i] ELSE F[m + 1][f[m]]]
  <2>3. (\A i \in 0..m : g[i] = f[i]) /\ g[m + 1] = F[m + 1][f[m]]
    OBVIOUS
  <2>4. g \in [0..(m + 1) -> S]
    BY <2>2
  <2> HIDE DEF g
  <2>5. ASSUME NEW i \in 1..(m + 1) PROVE g[i] = F[i][g[i - 1]]
    <3>1. CASE i = m + 1
      <4>1. i - 1 = m /\ g[m] = f[m]
        BY <3>1, <2>3
      <4> QED BY <3>1, <4>1, <2>3
    <3>2. CASE i \in 1..m
      <4>1. i - 1 \in 0..m /\ i \in 0..m
        BY <3>2
      <4> QED BY <3>2, <4>1, <2>1, <2>3
    <3> QED BY <3>1, <3>2
  <2>6. g[0] = first
    BY <2>1, <2>3
  <2> QED BY <2>4, <2>5, <2>6
<1>3. Upto(n)
  <2> HIDE DEF Upto
  <2>1. Nat \subseteq T
    BY <1>1, <1>2, NaturalsByStep
  <2> QED BY <2>1
<1> QED BY <1>3 DEF Iterates

(* Induction up to a bound. *)
LEMMA BoundedByStep ==
  ASSUME NEW T, NEW n \in Nat, 0 \in T, \A i \in 1..n : i - 1 \in T => i \in T
  PROVE  0..n \subseteq T
<1> DEFINE U == {i \in Nat : i <= n => i \in T}
<1>1. 0 \in U
  OBVIOUS
<1>2. ASSUME NEW i \in Nat, i \in U PROVE i + 1 \in U
  <2> SUFFICES ASSUME i + 1 <= n PROVE i + 1 \in T
    OBVIOUS
  <2>1. i + 1 \in 1..n /\ (i + 1) - 1 = i /\ i \in T
    BY <1>2
  <2> QED BY <2>1
<1>3. Nat \subseteq U
  <2> HIDE DEF U
  <2> QED BY <1>1, <1>2, NaturalsByStep
<1> QED BY <1>3

(* The elements of two sequences one after the other. *)
LEMMA ElementsOfBoth ==
  ASSUME NEW S, NEW s \in Seq(S), NEW t \in Seq(S)
  PROVE  ToSet(s \o t) = ToSet(s) \cup ToSet(t)
<1> DEFINE u == s \o t
<1>1. /\ Len(s) \in Nat /\ Len(t) \in Nat
      /\ DOMAIN s = 1..Len(s) /\ DOMAIN t = 1..Len(t) /\ DOMAIN u = 1..(Len(s) + Len(t))
      /\ \A i \in DOMAIN s : u[i] = s[i]
      /\ \A i \in DOMAIN t : u[Len(s) + i] = t[i]
  OBVIOUS
<1>2. \A i \in DOMAIN u : i \in DOMAIN s \/ \E k \in DOMAIN t : i = Len(s) + k
  <2> SUFFICES ASSUME NEW i \in DOMAIN u, i \notin DOMAIN s PROVE i - Len(s) \in DOMAIN t
    BY <1>1
  <2> QED BY <1>1
<1>3. (\A i \in DOMAIN s : i \in DOMAIN u) /\ (\A i \in DOMAIN t : Len(s) + i \in DOMAIN u)
  BY <1>1
<1> HIDE DEF u
<1>4. ToSet(u) \subseteq ToSet(s) \cup ToSet(t)
  BY <1>1, <1>2 DEF ToSet
<1>5. ToSet(s) \cup ToSet(t) \subseteq ToSet(u)
  BY <1>1, <1>3 DEF ToSet
<1> QED BY <1>4, <1>5 DEF u

(* Extended adds one result after another. *)
LEMMA ExtendedResult ==
  ASSUME NEW done \in Result, NEW more \in Result
  PROVE  LET r == Extended(done, more)
         IN  /\ r \in Result
             /\ r.code = "plan" =>
                  /\ done.code = "plan" /\ more.code = "plan"
                  /\ ToSet(r.steps) = ToSet(done.steps) \cup ToSet(more.steps)
                  /\ ToSet(r.groups) = ToSet(done.groups) \cup ToSet(more.groups)
<1>1. CASE /\ done.code = "plan" /\ more.code = "plan"
           /\ ~(Len(done.steps \o more.steps) > MaxSteps)
  <2> DEFINE steps  == done.steps \o more.steps
             groups == done.groups \o more.groups
             r      == [code |-> "plan", steps |-> steps, groups |-> groups]
  <2>1. Extended(done, more) = r
    BY <1>1 DEF Extended
  <2>2. /\ done.steps \in Seq(Step) /\ more.steps \in Seq(Step)
        /\ done.groups \in Seq(Step) /\ more.groups \in Seq(Step)
    BY DEF Result
  <2>3. steps \in Seq(Step) /\ groups \in Seq(Step)
    BY <2>2
  <2>4. /\ ToSet(steps) = ToSet(done.steps) \cup ToSet(more.steps)
        /\ ToSet(groups) = ToSet(done.groups) \cup ToSet(more.groups)
    BY <2>2, ElementsOfBoth
  <2> HIDE DEF steps, groups
  <2>5. r \in Result
    BY <2>3 DEF Result, Codes
  <2> QED BY <1>1, <2>1, <2>4, <2>5
<1>2. CASE done.code # "plan"
  BY <1>2 DEF Extended
<1>3. CASE done.code = "plan" /\ more.code # "plan"
  BY <1>3 DEF Extended
<1>4. CASE /\ done.code = "plan" /\ more.code = "plan"
           /\ Len(done.steps \o more.steps) > MaxSteps
  BY <1>4 DEF Extended, Failure, Result, Codes
<1> QED BY <1>1, <1>2, <1>3, <1>4

(* Joined is computed result after result. *)
LEMMA JoiningExists ==
  ASSUME NEW first \in Result, NEW results \in Seq(Result)
  PROVE  \E done \in [0..Len(results) -> Result] :
           /\ done = [i \in 0..Len(results) |->
                        IF i = 0 THEN first ELSE Extended(done[i - 1], results[i])]
           /\ Joined(first, results) = done[Len(results)]
<1> DEFINE n == Len(results)
           F == [i \in 1..n |-> [x \in Result |-> Extended(x, results[i])]]
           Joining(done) == done = [i \in 0..n |->
                              IF i = 0 THEN first ELSE Extended(done[i - 1], results[i])]
<1>1. n \in Nat /\ \A i \in 1..n : results[i] \in Result
  OBVIOUS
<1>2. \A i \in 1..n, x \in Result : F[i][x] = Extended(x, results[i])
  OBVIOUS
<1>3. \A i \in 1..n, x \in Result : F[i][x] \in Result
  BY <1>1, <1>2, ExtendedResult
<1> HIDE DEF F, n, Joining
<1>4. PICK f : Iterates(f, Result, first, n, F)
  BY <1>1, <1>3, IterationExists
<1>5. f \in [0..n -> Result] /\ f[0] = first /\ \A i \in 1..n : f[i] = F[i][f[i - 1]]
  BY <1>4 DEF Iterates
<1> USE DEF n, Joining
<1>6. \A i \in 0..n : f[i] = IF i = 0 THEN first ELSE Extended(f[i - 1], results[i])
  <2> SUFFICES ASSUME NEW i \in 0..n, i # 0 PROVE f[i] = Extended(f[i - 1], results[i])
    BY <1>5
  <2>1. i \in 1..n /\ i - 1 \in 0..n
    BY <1>1
  <2> QED BY <1>2, <1>5, <2>1
<1>7. Joining(f)
  <2>1. f = [i \in 0..n |-> f[i]]
    BY <1>5
  <2> QED BY <1>6, <2>1
<1> DEFINE done == CHOOSE g : Joining(g)
<1>8. Joining(done)
  <2> HIDE DEF Joining
  <2> QED BY <1>7, Zenon
<1>9. Joined(first, results) = done[n]
  BY Zenon DEF Joined
<1> HIDE DEF done
<1>10. \A i \in 0..n : done[i] \in Result
  <2>1. done[0] = first /\ \A i \in 1..n : done[i] = Extended(done[i - 1], results[i])
    BY <1>1, <1>8
  <2> DEFINE T == {i \in 0..n : done[i] \in Result}
  <2>2. 0 \in T
    BY <1>1, <2>1
  <2>3. ASSUME NEW i \in 1..n, i - 1 \in T PROVE i \in T
    BY <1>1, <2>1, <2>3, ExtendedResult
  <2>4. 0..n \subseteq T
    <3> HIDE DEF T
    <3> QED BY <1>1, <2>2, <2>3, BoundedByStep
  <2> QED BY <2>4
<1>11. done \in [0..n -> Result]
  BY <1>8, <1>10
<1> QED BY <1>8, <1>9, <1>11

(* A joined plan has the calls of every part. *)
LEMMA JoinedResult ==
  ASSUME NEW first \in Result, first.code = "plan", NEW results \in Seq(Result)
  PROVE  LET r == Joined(first, results)
         IN  /\ r \in Result
             /\ r.code = "plan" =>
                  /\ \A k \in DOMAIN results : results[k].code = "plan"
                  /\ ToSet(r.steps) = ToSet(first.steps)
                                      \cup UNION {ToSet(results[k].steps) : k \in DOMAIN results}
                  /\ ToSet(r.groups) = ToSet(first.groups)
                                       \cup UNION {ToSet(results[k].groups) : k \in DOMAIN results}
<1> DEFINE n == Len(results)
<1>1. n \in Nat /\ DOMAIN results = 1..n /\ \A k \in 1..n : results[k] \in Result
  OBVIOUS
<1>2. PICK done \in [0..n -> Result] :
        /\ done = [i \in 0..n |-> IF i = 0 THEN first ELSE Extended(done[i - 1], results[i])]
        /\ Joined(first, results) = done[n]
  BY JoiningExists
<1>3. done[0] = first /\ \A m \in 1..n : done[m] = Extended(done[m - 1], results[m])
  BY <1>1, <1>2
<1> DEFINE Good(m) ==
      /\ done[m] \in Result
      /\ done[m].code = "plan" =>
           /\ \A k \in 1..m : results[k].code = "plan"
           /\ ToSet(done[m].steps) = ToSet(first.steps) \cup UNION {ToSet(results[k].steps) : k \in 1..m}
           /\ ToSet(done[m].groups) = ToSet(first.groups) \cup UNION {ToSet(results[k].groups) : k \in 1..m}
<1> DEFINE T == {m \in Nat : m <= n => Good(m)}
<1>4. 0 \in T
  <2>1. \A k \in 1..0 : FALSE
    OBVIOUS
  <2>2. Good(0)
    BY <1>3, <2>1
  <2> QED BY <2>2
<1>5. ASSUME NEW m \in Nat, m \in T PROVE m + 1 \in T
  <2> SUFFICES ASSUME m + 1 <= n PROVE Good(m + 1)
    OBVIOUS
  <2>1. Good(m)
    BY <1>1, <1>5
  <2>2. m + 1 \in 1..n /\ done[m + 1] = Extended(done[m], results[m + 1])
    BY <1>1, <1>3
  <2>3. results[m + 1] \in Result
    BY <1>1, <2>2
  <2> DEFINE more == Extended(done[m], results[m + 1])
  <2>9. done[m] \in Result
    BY <2>1
  <2>10. /\ more \in Result
         /\ more.code = "plan" =>
              /\ done[m].code = "plan" /\ results[m + 1].code = "plan"
              /\ ToSet(more.steps) = ToSet(done[m].steps) \cup ToSet(results[m + 1].steps)
              /\ ToSet(more.groups) = ToSet(done[m].groups) \cup ToSet(results[m + 1].groups)
    BY <2>9, <2>3, ExtendedResult, Zenon
  <2>4. /\ done[m + 1] \in Result
        /\ done[m + 1].code = "plan" =>
             /\ done[m].code = "plan" /\ results[m + 1].code = "plan"
             /\ ToSet(done[m + 1].steps) = ToSet(done[m].steps) \cup ToSet(results[m + 1].steps)
             /\ ToSet(done[m + 1].groups) = ToSet(done[m].groups) \cup ToSet(results[m + 1].groups)
    BY <2>2, <2>10, Zenon
  <2>5. 1..(m + 1) = 1..m \cup {m + 1}
    OBVIOUS
  <2> SUFFICES ASSUME done[m + 1].code = "plan"
               PROVE  /\ \A k \in 1..(m + 1) : results[k].code = "plan"
                      /\ ToSet(done[m + 1].steps) = ToSet(first.steps)
                           \cup UNION {ToSet(results[k].steps) : k \in 1..(m + 1)}
                      /\ ToSet(done[m + 1].groups) = ToSet(first.groups)
                           \cup UNION {ToSet(results[k].groups) : k \in 1..(m + 1)}
    BY <2>4
  <2>6. /\ UNION {ToSet(results[k].steps) : k \in 1..(m + 1)}
             = ToSet(results[m + 1].steps) \cup UNION {ToSet(results[k].steps) : k \in 1..m}
        /\ UNION {ToSet(results[k].groups) : k \in 1..(m + 1)}
             = ToSet(results[m + 1].groups) \cup UNION {ToSet(results[k].groups) : k \in 1..m}
    BY ONLY <2>5, Zenon
  <2>7. \A k \in 1..(m + 1) : results[k].code = "plan"
    BY <2>1, <2>4, <2>5, Zenon
  <2>8. /\ ToSet(done[m].steps) = ToSet(first.steps) \cup UNION {ToSet(results[k].steps) : k \in 1..m}
        /\ ToSet(done[m].groups) = ToSet(first.groups) \cup UNION {ToSet(results[k].groups) : k \in 1..m}
    BY <2>1, <2>4
  <2> QED BY <2>4, <2>6, <2>7, <2>8, Zenon
<1>6. Good(n)
  <2> HIDE DEF Good
  <2>1. Nat \subseteq T
    BY <1>4, <1>5, NaturalsByStep
  <2> QED BY <1>1, <2>1
<1> QED BY <1>1, <1>2, <1>6

(* The calls an expansion looks at, with the groups on the way to each. *)
Nodes == [call : Step, chain : Seq(STRING)]

Child(node, i) ==
  Node(StepCall(GroupSteps(coach.groups[node.call.entity], node.call.action)[i], node.call.params),
       Append(node.chain, node.call.entity))

(* The steps of a group are one level deeper than the group. *)
LEMMA Children ==
  ASSUME Proper(coach), NEW node \in Nodes, node.call.entity \in DOMAIN coach.groups,
         node.call.action \in GroupActions(coach.groups[node.call.entity])
  PROVE  LET steps == GroupSteps(coach.groups[node.call.entity], node.call.action)
         IN  /\ steps \in Seq(Step)
             /\ \A i \in DOMAIN steps : /\ Child(node, i) \in Nodes
                                        /\ Len(Child(node, i).chain) = Len(node.chain) + 1
<1> DEFINE group == coach.groups[node.call.entity]
           steps == GroupSteps(group, node.call.action)
<1>1. /\ node.call.entity \in STRING /\ node.call.action \in STRING
      /\ node.call.params \in Params /\ node.chain \in Seq(STRING)
  BY DEF Nodes, Step
<1>2. GroupForm(group)
  BY DEF Proper
<1>3. steps \in Seq(Step)
  BY <1>1, <1>2, StepsAreCalls
<1> DEFINE longer == Append(node.chain, node.call.entity)
<1>4. longer \in Seq(STRING) /\ Len(longer) = Len(node.chain) + 1
  BY <1>1
<1>5. \A i \in DOMAIN steps : steps[i] \in Step
  BY <1>3
<1>6. \A i \in DOMAIN steps : StepCall(steps[i], node.call.params) \in Step
  BY <1>1, <1>5, StepCalls
<1>7. \A i \in DOMAIN steps : Child(node, i) = Node(StepCall(steps[i], node.call.params), longer)
  BY DEF Child
<1> HIDE DEF steps, longer
<1>8. ASSUME NEW i \in DOMAIN steps
      PROVE  Child(node, i) \in Nodes /\ Len(Child(node, i).chain) = Len(node.chain) + 1
  BY <1>4, <1>6, <1>7 DEF Node, Nodes
<1> QED BY <1>3, <1>8 DEF steps

(* An expansion depends on those one level deeper. *)
LEMMA SameExpansion ==
  ASSUME Proper(coach), NEW node \in Nodes, NEW f, NEW g,
         \A c \in Nodes : Len(c.chain) = Len(node.chain) + 1 => f[c] = g[c]
  PROVE  Expansion(f, node) = Expansion(g, node)
<1> DEFINE group == coach.groups[node.call.entity]
           steps == GroupSteps(group, node.call.action)
           inner(h) == [i \in DOMAIN steps |->
                          h[Node(StepCall(steps[i], node.call.params),
                                 Append(node.chain, node.call.entity))]]
<1>1. CASE node.call.entity \in DOMAIN coach.groups /\ node.call.action \in GroupActions(group)
  <2>1. \A i \in DOMAIN steps : f[Child(node, i)] = g[Child(node, i)]
    BY <1>1, Children
  <2>2. inner(f) = inner(g)
    BY <2>1 DEF Child
  <2> QED BY <2>2, Zenon DEF Expansion
<1>2. CASE ~(node.call.entity \in DOMAIN coach.groups /\ node.call.action \in GroupActions(group))
  BY <1>2, Zenon DEF Expansion
<1> QED BY <1>1, <1>2

Expanding(f) == f = [node \in Nodes |-> Expansion(f, node)]

(* A chain is refused when it is MaxChain long, so the recursion of expand *)
(* ends.                                                                   *)
LEMMA ExpandingExists ==
  ASSUME Proper(coach)
  PROVE  \E f : Expanding(f) /\ \A call : expand(call) = f[Node(call, << >>)]
<1> DEFINE Upto(n) == \E f : \A node \in Nodes :
                        Len(node.chain) + n >= MaxChain => f[node] = Expansion(f, node)
           T == {n \in Nat : Upto(n)}
<1>1. MaxChain \in Nat
  BY PlanAssumption
<1>2. \A node \in Nodes : Len(node.chain) \in Nat
  BY DEF Nodes
<1>3. 0 \in T
  <2> DEFINE f == [node \in Nodes |-> Failure("invalid_request")]
  <2>1. ASSUME NEW node \in Nodes, Len(node.chain) >= MaxChain
        PROVE  f[node] = Expansion(f, node)
    BY <2>1 DEF Expansion
  <2> HIDE DEF f
  <2>2. Upto(0)
    BY <1>2, <2>1
  <2> QED BY <2>2
<1>4. ASSUME NEW n \in Nat, n \in T PROVE n + 1 \in T
  <2>1. PICK f : \A node \in Nodes :
                   Len(node.chain) + n >= MaxChain => f[node] = Expansion(f, node)
    BY <1>4
  <2> DEFINE g == [node \in Nodes |-> Expansion(f, node)]
  <2>2. \A node \in Nodes : g[node] = Expansion(f, node)
    OBVIOUS
  <2> HIDE DEF g
  <2>3. ASSUME NEW node \in Nodes, Len(node.chain) + (n + 1) >= MaxChain
        PROVE  g[node] = Expansion(g, node)
    <3>1. \A c \in Nodes : Len(c.chain) = Len(node.chain) + 1 => f[c] = g[c]
      <4> SUFFICES ASSUME NEW c \in Nodes, Len(c.chain) = Len(node.chain) + 1 PROVE f[c] = g[c]
        OBVIOUS
      <4>1. Len(c.chain) \in Nat /\ Len(node.chain) \in Nat
        BY <1>2
      <4>2. Len(node.chain) + (n + 1) >= MaxChain
        BY <2>3
      <4>3. Len(c.chain) + n >= MaxChain
        <5>1. \A k, l, m \in Nat : m = l + 1 /\ l + (n + 1) >= k => m + n >= k
          OBVIOUS
        <5>2. Len(c.chain) = Len(node.chain) + 1
          OBVIOUS
        <5> QED BY <1>1, <4>1, <4>2, <5>1, <5>2
      <4> QED BY <2>1, <2>2, <4>3
    <3>2. Expansion(f, node) = Expansion(g, node)
      BY <3>1, SameExpansion
    <3> QED BY <2>2, <3>2
  <2>4. Upto(n + 1)
    BY <2>3
  <2> HIDE DEF Upto
  <2> QED BY <2>4
<1>5. Upto(MaxChain)
  <2> HIDE DEF Upto
  <2>1. Nat \subseteq T
    BY <1>3, <1>4, NaturalsByStep
  <2> QED BY <1>1, <2>1
<1>6. PICK f : \A node \in Nodes : Len(node.chain) + MaxChain >= MaxChain => f[node] = Expansion(f, node)
  BY <1>5
<1>7. \A node \in Nodes : f[node] = Expansion(f, node)
  BY <1>1, <1>2, <1>6
<1> DEFINE g == [node \in Nodes |-> f[node]]
<1>8. \A node \in Nodes : g[node] = f[node]
  OBVIOUS
<1>9. g = [node \in Nodes |-> g[node]]
  OBVIOUS
<1> HIDE DEF g
<1>10. ASSUME NEW node \in Nodes PROVE g[node] = Expansion(g, node)
  <2>1. Expansion(f, node) = Expansion(g, node)
    BY <1>8, SameExpansion
  <2> QED BY <1>7, <1>8, <2>1
<1>11. Expanding(g)
  <2>1. [node \in Nodes |-> g[node]] = [node \in Nodes |-> Expansion(g, node)]
    BY <1>10
  <2> QED BY <1>9, <2>1 DEF Expanding
<1> DEFINE expanded == CHOOSE h : Expanding(h)
<1>12. Expanding(expanded)
  BY <1>11, Zenon
<1>13. \A call : expand(call) = expanded[Node(call, << >>)]
  BY Zenon DEF expand, Expanding, Nodes
<1> HIDE DEF expanded
<1> QED BY <1>12, <1>13

(* What calls address. *)
Pairs(s) == {<<c.entity, c.action>> : c \in ToSet(s)}
Covered(r) == Pairs(r.steps) \cup Pairs(r.groups)

(* A plan covers the call, its steps are actions of entities, and what the *)
(* groups on the way are made of is covered too.                           *)
Expanded(call, r) ==
  /\ r \in Result
  /\ r.code = "plan" =>
       /\ <<call.entity, call.action>> \in Covered(r)
       /\ \A c \in ToSet(r.steps) :
            c.entity \in DOMAIN coach.entities /\ c.action \in DOMAIN coach.entities[c.entity].actions
       /\ \A c \in ToSet(r.groups) : /\ c.entity \in DOMAIN coach.groups
                                     /\ StepsOf(<<c.entity, c.action>>) \subseteq Covered(r)

(* The elements of a sequence of one, and of none.                          *)
LEMMA OneElement ==
  ASSUME NEW x
  PROVE  ToSet(<<x>>) = {x} /\ ToSet(<< >>) = {}
BY DEF ToSet

(* A failure of an expansion is a result that is no plan.                   *)
LEMMA Failures ==
  ASSUME NEW code \in Codes \ {"plan"}
  PROVE  Failure(code) \in Result /\ Failure(code).code # "plan"
BY DEF Failure, Result, Codes

(* What an expansion starts from: an action of an entity, or a group.       *)
LEMMA Leaves ==
  ASSUME NEW call \in Step
  PROVE  /\ Leaf(call) = [code |-> "plan", steps |-> <<call>>, groups |-> << >>]
         /\ [Nothing EXCEPT !.groups = <<call>>] = [code |-> "plan", steps |-> << >>, groups |-> <<call>>]
         /\ Leaf(call) \in Result /\ [Nothing EXCEPT !.groups = <<call>>] \in Result
<1>1. /\ Leaf(call) = [code |-> "plan", steps |-> <<call>>, groups |-> << >>]
      /\ [Nothing EXCEPT !.groups = <<call>>] = [code |-> "plan", steps |-> << >>, groups |-> <<call>>]
  BY DEF Leaf, Nothing
<1>2. <<call>> \in Seq(Step) /\ << >> \in Seq(Step)
  OBVIOUS
<1>3. /\ [code |-> "plan", steps |-> <<call>>, groups |-> << >>] \in Result
      /\ [code |-> "plan", steps |-> << >>, groups |-> <<call>>] \in Result
  BY <1>2 DEF Result, Codes
<1> QED BY <1>1, <1>3, Zenon

(* What an expansion is, case by case. *)
LEMMA ExpansionCases ==
  ASSUME Proper(coach), NEW f, NEW node \in Nodes
  PROVE  LET call  == node.call
             steps == GroupSteps(coach.groups[call.entity], call.action)
             inner == [i \in DOMAIN steps |-> f[Child(node, i)]]
             r     == Expansion(f, node)
         IN  \/ \E code \in Codes \ {"plan"} : r = Failure(code)
             \/ /\ call.entity \in DOMAIN coach.entities
                /\ call.action \in DOMAIN coach.entities[call.entity].actions
                /\ r = Leaf(call)
             \/ /\ call.entity \in DOMAIN coach.groups
                /\ call.action \in GroupActions(coach.groups[call.entity])
                /\ r = Joined([Nothing EXCEPT !.groups = <<call>>], inner)
<1> DEFINE call  == node.call
           steps == GroupSteps(coach.groups[call.entity], call.action)
           inner == [i \in DOMAIN steps |-> f[Child(node, i)]]
<1>1. inner = [i \in DOMAIN steps |->
                 f[Node(StepCall(steps[i], call.params), Append(node.chain, call.entity))]]
  BY DEF Child
<1>2. {"invalid_request", "unknown_action", "unknown_target"} \subseteq Codes \ {"plan"}
  BY DEF Codes
<1>3. \/ Expansion(f, node) \in {Failure("invalid_request"), Failure("unknown_action"),
                                 Failure("unknown_target")}
      \/ /\ call.entity \in DOMAIN coach.entities
         /\ call.action \in DOMAIN coach.entities[call.entity].actions
         /\ Expansion(f, node) = Leaf(call)
      \/ /\ call.entity \in DOMAIN coach.groups
         /\ call.action \in GroupActions(coach.groups[call.entity])
         /\ Expansion(f, node) = Joined([Nothing EXCEPT !.groups = <<call>>], inner)
  BY <1>1, Zenon DEF Expansion
<1> HIDE DEF inner
<1>4. CASE Expansion(f, node) \in {Failure("invalid_request"), Failure("unknown_action"),
                                   Failure("unknown_target")}
  BY <1>2, <1>4
<1> QED BY <1>3, <1>4 DEF inner

(* The calls of a group: joined, what its steps expand to is what the group *)
(* expands to.                                                              *)
LEMMA GroupExpansion ==
  ASSUME Proper(coach), NEW f, NEW node \in Nodes, node.call.entity \in DOMAIN coach.groups,
         node.call.action \in GroupActions(coach.groups[node.call.entity]),
         \A i \in DOMAIN GroupSteps(coach.groups[node.call.entity], node.call.action) :
           Expanded(Child(node, i).call, f[Child(node, i)])
  PROVE  Expanded(node.call,
                  Joined([Nothing EXCEPT !.groups = <<node.call>>],
                         [i \in DOMAIN GroupSteps(coach.groups[node.call.entity], node.call.action)
                            |-> f[Child(node, i)]]))
<1> DEFINE call  == node.call
           pair  == <<call.entity, call.action>>
           steps == GroupSteps(coach.groups[call.entity], call.action)
           inner == [i \in DOMAIN steps |-> f[Child(node, i)]]
           first == [Nothing EXCEPT !.groups = <<call>>]
           r     == Joined(first, inner)
<1>1. call \in Step
  BY DEF Nodes
<1>2. first \in Result /\ first.code = "plan" /\ first.steps = << >> /\ first.groups = <<call>>
  BY <1>1, Leaves
<1>3. steps \in Seq(Step)
  BY Children
<1>4. \A i \in DOMAIN steps : inner[i] = f[Child(node, i)] /\ inner[i] \in Result
  BY DEF Expanded
<1>5. inner \in Seq(Result) /\ DOMAIN inner = DOMAIN steps
  <2>1. inner \in [1..Len(steps) -> Result] /\ Len(steps) \in Nat /\ DOMAIN steps = 1..Len(steps)
    BY <1>3, <1>4
  <2> HIDE DEF inner
  <2> QED BY <2>1
<1>6. StepsOf(pair) = {<<s.entity, s.action>> : s \in ToSet(steps)}
  BY DEF StepsOf
<1>7. \A i \in DOMAIN steps : /\ Child(node, i).call.entity = steps[i].entity
                              /\ Child(node, i).call.action = steps[i].action
  BY DEF Child, Node, StepCall, Call
<1>8. \A i \in DOMAIN steps : Expanded(Child(node, i).call, inner[i])
  BY <1>4
<1> HIDE DEF inner, first, steps, pair
<1>9. /\ r \in Result
      /\ r.code = "plan" =>
           /\ \A k \in DOMAIN inner : inner[k].code = "plan"
           /\ ToSet(r.steps) = ToSet(first.steps) \cup UNION {ToSet(inner[k].steps) : k \in DOMAIN inner}
           /\ ToSet(r.groups) = ToSet(first.groups) \cup UNION {ToSet(inner[k].groups) : k \in DOMAIN inner}
  BY <1>2, <1>5, JoinedResult, Zenon
<1> HIDE DEF r
<1>10. ASSUME r.code = "plan"
       PROVE  /\ pair \in Covered(r)
              /\ \A c \in ToSet(r.steps) : /\ c.entity \in DOMAIN coach.entities
                                           /\ c.action \in DOMAIN coach.entities[c.entity].actions
              /\ \A c \in ToSet(r.groups) : /\ c.entity \in DOMAIN coach.groups
                                            /\ StepsOf(<<c.entity, c.action>>) \subseteq Covered(r)
  <2>1. /\ ToSet(r.steps) = UNION {ToSet(inner[k].steps) : k \in DOMAIN steps}
        /\ ToSet(r.groups) = {call} \cup UNION {ToSet(inner[k].groups) : k \in DOMAIN steps}
    BY <1>2, <1>5, <1>9, <1>10, OneElement
  <2>2. \A k \in DOMAIN steps : Covered(inner[k]) \subseteq Covered(r)
    BY <2>1 DEF Covered, Pairs
  <2>3. pair \in Covered(r)
    BY <2>1 DEF Covered, Pairs, pair
  <2>4. \A k \in DOMAIN steps : inner[k].code = "plan"
    BY <1>5, <1>9, <1>10
  <2>5. ASSUME NEW c \in ToSet(r.steps)
        PROVE  /\ c.entity \in DOMAIN coach.entities
               /\ c.action \in DOMAIN coach.entities[c.entity].actions
    <3>1. PICK k \in DOMAIN steps : c \in ToSet(inner[k].steps)
      BY <2>1
    <3> QED BY <1>8, <2>4, <3>1 DEF Expanded
  <2>6. StepsOf(pair) \subseteq Covered(r)
    <3> SUFFICES ASSUME NEW i \in DOMAIN steps
                 PROVE  <<steps[i].entity, steps[i].action>> \in Covered(r)
      BY <1>6 DEF ToSet
    <3>1. <<steps[i].entity, steps[i].action>> \in Covered(inner[i])
      BY <1>7, <1>8, <2>4 DEF Expanded
    <3> QED BY <2>2, <3>1
  <2>7. ASSUME NEW c \in ToSet(r.groups)
        PROVE  c.entity \in DOMAIN coach.groups /\ StepsOf(<<c.entity, c.action>>) \subseteq Covered(r)
    <3>1. CASE c = call
      BY <2>6, <3>1 DEF pair
    <3>2. CASE c # call
      <4>1. PICK k \in DOMAIN steps : c \in ToSet(inner[k].groups)
        BY <2>1, <3>2
      <4>2. c.entity \in DOMAIN coach.groups /\ StepsOf(<<c.entity, c.action>>) \subseteq Covered(inner[k])
        BY <1>8, <2>4, <4>1 DEF Expanded
      <4> QED BY <2>2, <4>2
    <3> QED BY <3>1, <3>2
  <2> QED BY <2>3, <2>5, <2>7
<1>11. Expanded(call, r)
  BY <1>9, <1>10 DEF Expanded, pair
<1> QED BY <1>11 DEF r, first, inner, steps

(* Every expansion of a proper coach is one. *)
LEMMA ExpandedCalls ==
  ASSUME Proper(coach), NEW f, Expanding(f)
  PROVE  \A node \in Nodes : Expanded(node.call, f[node])
<1> DEFINE T == {n \in Nat : \A node \in Nodes :
                   Len(node.chain) + n >= MaxChain => Expanded(node.call, f[node])}
<1>1. MaxChain \in Nat /\ \A node \in Nodes : Len(node.chain) \in Nat
  BY PlanAssumption DEF Nodes
<1>2. \A node \in Nodes : f[node] = Expansion(f, node)
  BY Zenon DEF Expanding
<1>3. \A code \in Codes \ {"plan"}, call \in Step : Expanded(call, Failure(code))
  BY Failures DEF Expanded
<1>4. ASSUME NEW call \in Step, call.entity \in DOMAIN coach.entities,
             call.action \in DOMAIN coach.entities[call.entity].actions
      PROVE  Expanded(call, Leaf(call))
  <2> DEFINE r == [code |-> "plan", steps |-> <<call>>, groups |-> << >>]
  <2>1. Leaf(call) = r /\ r \in Result
    BY Leaves, Zenon
  <2>2. ToSet(r.steps) = {call} /\ ToSet(r.groups) = {}
    BY OneElement
  <2> HIDE DEF r
  <2>3. <<call.entity, call.action>> \in Covered(r)
    BY <2>2 DEF Covered, Pairs
  <2> QED BY <1>4, <2>1, <2>2, <2>3 DEF Expanded
<1>5. 0 \in T
  <2> SUFFICES ASSUME NEW node \in Nodes, Len(node.chain) >= MaxChain
               PROVE  Expanded(node.call, f[node])
    BY <1>1
  <2>1. f[node] = Failure("invalid_request")
    BY <1>2 DEF Expansion
  <2> QED BY <1>3, <2>1 DEF Nodes, Codes
<1>6. ASSUME NEW n \in Nat, n \in T PROVE n + 1 \in T
  <2> SUFFICES ASSUME NEW node \in Nodes, Len(node.chain) + (n + 1) >= MaxChain
               PROVE  Expanded(node.call, f[node])
    <3>1. n + 1 \in Nat
      OBVIOUS
    <3> QED BY <3>1, Zenon
  <2> DEFINE steps == GroupSteps(coach.groups[node.call.entity], node.call.action)
  <2>1. node.call \in Step
    BY DEF Nodes
  <2>2. CASE \E code \in Codes \ {"plan"} : f[node] = Failure(code)
    BY <1>3, <2>1, <2>2
  <2>3. CASE /\ node.call.entity \in DOMAIN coach.entities
             /\ node.call.action \in DOMAIN coach.entities[node.call.entity].actions
             /\ f[node] = Leaf(node.call)
    BY <1>4, <2>1, <2>3
  <2>4. CASE /\ node.call.entity \in DOMAIN coach.groups
             /\ node.call.action \in GroupActions(coach.groups[node.call.entity])
             /\ f[node] = Joined([Nothing EXCEPT !.groups = <<node.call>>],
                                 [i \in DOMAIN steps |-> f[Child(node, i)]])
    <3>1. ASSUME NEW i \in DOMAIN steps
          PROVE  Expanded(Child(node, i).call, f[Child(node, i)])
      <4>1. Child(node, i) \in Nodes /\ Len(Child(node, i).chain) = Len(node.chain) + 1
        BY <2>4, Children
      <4>2. \A k, l, m \in Nat : m = l + 1 /\ l + (n + 1) >= k => m + n >= k
        OBVIOUS
      <4>3. Len(Child(node, i).chain) + n >= MaxChain
        BY <1>1, <4>1, <4>2
      <4> QED BY <1>6, <4>1, <4>3
    <3> QED BY <2>4, <3>1, GroupExpansion, Zenon
  <2> QED BY <1>2, <2>2, <2>3, <2>4, ExpansionCases, Zenon
<1>7. Nat \subseteq T
  <2> HIDE DEF T
  <2> QED BY <1>5, <1>6, NaturalsByStep
<1> SUFFICES ASSUME NEW node \in Nodes PROVE Expanded(node.call, f[node])
  OBVIOUS
<1>8. MaxChain \in T /\ Len(node.chain) + MaxChain >= MaxChain
  <2> HIDE DEF T
  <2> QED BY <1>1, <1>7
<1> QED BY <1>8

(* What a call reaches stays within any set of calls closed under steps. *)
LEMMA ReachedWithin ==
  ASSUME NEW P, NEW pair \in P, \A p \in P : StepsOf(p) \subseteq P
  PROVE  Reached(pair) \subseteq P
<1> DEFINE S == SUBSET P
           F == [i \in 1..MaxChain |-> [x \in S |-> x \cup UNION {StepsOf(p) : p \in x}]]
           Reaching(f) == f = [n \in 0..MaxChain |->
                           IF n = 0 THEN {pair} ELSE f[n - 1] \cup UNION {StepsOf(p) : p \in f[n - 1]}]
<1>1. MaxChain \in Nat /\ {pair} \in S
  BY PlanAssumption
<1>2. \A i \in 1..MaxChain, x \in S : F[i][x] = x \cup UNION {StepsOf(p) : p \in x}
  OBVIOUS
<1>3. \A i \in 1..MaxChain, x \in S : F[i][x] \in S
  BY <1>2
<1> HIDE DEF F, S
<1>4. PICK f : Iterates(f, S, {pair}, MaxChain, F)
  BY <1>1, <1>3, IterationExists
<1>5. f \in [0..MaxChain -> S] /\ f[0] = {pair} /\ \A i \in 1..MaxChain : f[i] = F[i][f[i - 1]]
  BY <1>4 DEF Iterates
<1>6. \A i \in 1..MaxChain : f[i] = f[i - 1] \cup UNION {StepsOf(p) : p \in f[i - 1]}
  <2> SUFFICES ASSUME NEW i \in 1..MaxChain PROVE f[i] = f[i - 1] \cup UNION {StepsOf(p) : p \in f[i - 1]}
    OBVIOUS
  <2>1. i - 1 \in 0..MaxChain
    BY <1>1
  <2>2. f[i - 1] \in S
    BY <1>5, <2>1
  <2> QED BY <1>2, <1>5, <2>2
<1>7. Reaching(f)
  <2>1. \A i \in 0..MaxChain : f[i] = IF i = 0 THEN {pair} ELSE f[i - 1] \cup UNION {StepsOf(p) : p \in f[i - 1]}
    <3>1. \A i \in 0..MaxChain : i = 0 \/ i \in 1..MaxChain
      BY <1>1
    <3> QED BY <1>5, <1>6, <3>1
  <2>2. f = [i \in 0..MaxChain |-> f[i]]
    BY <1>5
  <2> QED BY <2>1, <2>2
<1> DEFINE within == CHOOSE g : Reaching(g)
<1>8. Reaching(within)
  <2> HIDE DEF Reaching
  <2> QED BY <1>7, Zenon
<1>9. Reached(pair) = within[MaxChain]
  BY Zenon DEF Reached
<1> HIDE DEF within
<1> DEFINE T == {i \in 0..MaxChain : within[i] \in S}
<1>10. 0 \in T
  <2>1. 0 \in 0..MaxChain /\ within[0] = {pair}
    BY <1>1, <1>8
  <2> QED BY <1>1, <2>1
<1>11. ASSUME NEW i \in 1..MaxChain, i - 1 \in T PROVE i \in T
  <2>1. i \in 0..MaxChain /\ within[i] = within[i - 1] \cup UNION {StepsOf(p) : p \in within[i - 1]}
    BY <1>1, <1>8
  <2>2. within[i - 1] \in S
    BY <1>11
  <2> QED BY <2>1, <2>2 DEF S
<1>12. 0..MaxChain \subseteq T
  <2> HIDE DEF T
  <2> QED BY <1>1, <1>10, <1>11, BoundedByStep
<1>13. within[MaxChain] \in S
  BY <1>1, <1>12
<1> QED BY <1>9, <1>13 DEF S

(* What a call reaches is covered by its plan. *)
LEMMA ReachedIsCovered ==
  ASSUME Proper(coach), DOMAIN coach.entities \cap DOMAIN coach.groups = {},
         NEW call \in Step, expand(call).code = "plan"
  PROVE  /\ Expanded(call, expand(call))
         /\ Reached(<<call.entity, call.action>>) \subseteq Covered(expand(call))
<1> DEFINE r == expand(call)
           node == Node(call, << >>)
<1>1. node \in Nodes /\ node.call = call
  <2>1. << >> \in Seq(STRING)
    OBVIOUS
  <2> QED BY <2>1 DEF Node, Nodes
<1>2. PICK f : Expanding(f) /\ r = f[node]
  BY ExpandingExists
<1>3. Expanded(call, r)
  BY <1>1, <1>2, ExpandedCalls
<1> HIDE DEF r, node
<1>4. r.code = "plan"
  BY DEF r
<1>5. ASSUME NEW p \in Covered(r) PROVE StepsOf(p) \subseteq Covered(r)
  <2>1. CASE p \in Pairs(r.steps)
    <3>1. PICK c \in ToSet(r.steps) : p = <<c.entity, c.action>>
      BY <2>1 DEF Pairs
    <3>2. p[1] \notin DOMAIN coach.groups
      BY <1>3, <1>4, <3>1 DEF Expanded
    <3> QED BY <3>2 DEF StepsOf
  <2>2. CASE p \in Pairs(r.groups)
    BY <1>3, <1>4, <2>2 DEF Expanded, Pairs
  <2> QED BY <2>1, <2>2 DEF Covered
<1>6. <<call.entity, call.action>> \in Covered(r)
  BY <1>3, <1>4 DEF Expanded
<1>7. Reached(<<call.entity, call.action>>) \subseteq Covered(r)
  BY <1>5, <1>6, ReachedWithin
<1> QED BY <1>3, <1>7 DEF r

-----------------------------------------------------------------------------
(* Planning. *)

(* Frames whose source is ready and that are not reserved. *)
Ready(ready) == {p \in Prepared : p.section \in ready /\ p.instance \notin coach.reserved}
PlanCodes == {"plan", "forbidden", "invalid_params", "confirmation_required", "no_operations",
              "source_unavailable", "excessive_plan"}
Plannable(ready) == [code : PlanCodes, steps : Seq(Ready(ready)), groups : {<< >>}]
Unsettled == {"forbidden", "unknown_target", "unknown_action", "invalid_request"}

(* A call the policy grants, confirmed where the grant or the entity asks. *)
Authorized(call, confirmed) ==
  /\ Granted(call)
  /\ Grant(call).confirm => confirmed
  /\ Get(coach.entities[call.entity], "confirm", FALSE) => confirmed

KnownCall(call) ==
  call.entity \in DOMAIN coach.entities /\ call.action \in DOMAIN coach.entities[call.entity].actions

(* A failure is an answer to a request.                                     *)
LEMMA FailureIsPlannable ==
  ASSUME NEW ready, NEW code \in PlanCodes
  PROVE  Failure(code) \in Plannable(ready) /\ Failure(code).code = code
<1>1. << >> \in Seq(Ready(ready))
  OBVIOUS
<1> QED BY <1>1 DEF Failure, Plannable

(* One more call of a plan. *)
LEMMA PlanCallResult ==
  ASSUME Proper(coach), NEW ready, NEW confirmed, NEW done \in Plannable(ready),
         NEW call \in Step, KnownCall(call)
  PROVE  LET r == PlanCall(done, call, confirmed, ready)
         IN  /\ r \in Plannable(ready)
             /\ r.code = "plan" => done.code = "plan" /\ Authorized(call, confirmed)
             /\ r.code \in Unsettled => r = done \/ ~Granted(call)
<1> DEFINE built == prepare_source_actions(coach, call.entity, call.action, call.params)
           r == PlanCall(done, call, confirmed, ready)
           longer == [code |-> "plan", steps |-> done.steps \o built, groups |-> << >>]
           few == {Failure("invalid_params"), Failure("confirmation_required"),
                   Failure("no_operations"), Failure("source_unavailable"), Failure("excessive_plan")}
<1>1. \/ r = done /\ done.code # "plan"
      \/ r = Failure("forbidden") /\ ~Granted(call)
      \/ r \in few
      \/ /\ done.code = "plan" /\ r = longer
         /\ Granted(call)
         /\ ~((Get(coach.entities[call.entity], "confirm", FALSE) \/ Grant(call).confirm) /\ ~confirmed)
         /\ built # Bad /\ built # << >> /\ built[1].section \in ready
  BY Zenon DEF PlanCall
<1>2. \A x \in few : x \in Plannable(ready) /\ x.code # "plan" /\ x.code \notin Unsettled
  <2>1. \A code \in {"invalid_params", "confirmation_required", "no_operations",
                     "source_unavailable", "excessive_plan"} :
          code \in PlanCodes /\ code # "plan" /\ code \notin Unsettled
    BY DEF Unsettled, PlanCodes
  <2> QED BY <2>1, FailureIsPlannable
<1> HIDE DEF r, few
<1>3. /\ r \in Plannable(ready)
      /\ r.code = "plan" => done.code = "plan" /\ Authorized(call, confirmed)
      /\ r.code \in Unsettled => r = done \/ ~Granted(call)
  <2>1. CASE r = done /\ done.code # "plan"
    BY <2>1
  <2>2. CASE r = Failure("forbidden") /\ ~Granted(call)
    <3>1. "forbidden" \in PlanCodes /\ "forbidden" # "plan"
      BY DEF PlanCodes
    <3>2. r \in Plannable(ready) /\ r.code = "forbidden"
      BY <2>2, <3>1, FailureIsPlannable
    <3> QED BY <2>2, <3>1, <3>2
  <2>3. CASE r \in few
    BY <1>2, <2>3
  <2>4. CASE /\ done.code = "plan" /\ r = longer
             /\ Granted(call)
             /\ ~((Get(coach.entities[call.entity], "confirm", FALSE) \/ Grant(call).confirm) /\ ~confirmed)
             /\ built # Bad /\ built # << >> /\ built[1].section \in ready
    <3>1. /\ call.entity \in STRING /\ call.action \in STRING
          /\ call.entity \in DOMAIN coach.entities
          /\ call.action \in DOMAIN coach.entities[call.entity].actions
      BY DEF Step, KnownCall
    <3>2. /\ built \in Seq(Prepared)
          /\ \A i \in DOMAIN built : /\ built[i].section = built[1].section
                                     /\ built[i].instance \notin coach.reserved
      BY <2>4, <3>1, PreparedFrames
    <3> HIDE DEF built
    <3>3. built \in Seq(Ready(ready))
      <4>1. Len(built) \in Nat /\ DOMAIN built = 1..Len(built) /\ \A i \in 1..Len(built) : built[i] \in Prepared
        BY <3>2
      <4>2. \A i \in 1..Len(built) : built[i] \in Ready(ready)
        BY <2>4, <3>2, <4>1 DEF Ready
      <4>3. built = [i \in 1..Len(built) |-> built[i]]
        BY <3>2, <4>1
      <4>4. built \in [1..Len(built) -> Ready(ready)]
        BY <4>2, <4>3
      <4> QED BY <4>1, <4>4
    <3> DEFINE steps == done.steps \o built
    <3>4. steps \in Seq(Ready(ready))
      <4>1. done.steps \in Seq(Ready(ready))
        BY DEF Plannable
      <4> QED BY <3>3, <4>1
    <3> HIDE DEF steps
    <3>5. "plan" \in PlanCodes /\ "plan" \notin Unsettled
      BY DEF Unsettled, PlanCodes
    <3>6. [code |-> "plan", steps |-> steps, groups |-> << >>] \in Plannable(ready)
      BY <3>4, <3>5 DEF Plannable
    <3>7. r \in Plannable(ready) /\ r.code = "plan"
      BY <2>4, <3>6 DEF steps
    <3>8. Authorized(call, confirmed)
      BY <2>4, Zenon DEF Authorized
    <3> QED BY <2>4, <3>5, <3>7, <3>8
  <2> QED BY <1>1, <2>1, <2>2, <2>3, <2>4
<1> QED BY <1>3 DEF r

(* The plan of several calls: every one is authorized; it is refused as     *)
(* forbidden only when one is not granted.                                  *)
LEMMA PlannedCalls ==
  ASSUME Proper(coach), NEW ready, NEW confirmed, NEW expanded \in Seq(Step),
         \A i \in DOMAIN expanded : KnownCall(expanded[i])
  PROVE  LET r == PlanCalls(expanded, confirmed, ready)
         IN  /\ r \in Plannable(ready)
             /\ r.code = "plan" => \A i \in DOMAIN expanded : Authorized(expanded[i], confirmed)
             /\ r.code \in Unsettled => \E i \in DOMAIN expanded : ~Granted(expanded[i])
<1> DEFINE n == Len(expanded)
           S == Plannable(ready)
           F == [i \in 1..n |-> [x \in S |-> PlanCall(x, expanded[i], confirmed, ready)]]
           Planning(f) == f = [i \in 0..n |->
                             IF i = 0 THEN Nothing
                             ELSE PlanCall(f[i - 1], expanded[i], confirmed, ready)]
<1>1. n \in Nat /\ DOMAIN expanded = 1..n /\ \A i \in 1..n : expanded[i] \in Step /\ KnownCall(expanded[i])
  OBVIOUS
<1>2. Nothing \in S /\ Nothing.code = "plan"
  <2>1. << >> \in Seq(Ready(ready)) /\ "plan" \in PlanCodes
    BY DEF PlanCodes
  <2> QED BY <2>1 DEF Nothing, Plannable
<1>3. \A i \in 1..n, x \in S : F[i][x] = PlanCall(x, expanded[i], confirmed, ready)
  OBVIOUS
<1>4. \A i \in 1..n, x \in S : F[i][x] \in S
  BY <1>1, <1>3, PlanCallResult
<1> HIDE DEF F, S, n, Planning
<1>5. PICK f : Iterates(f, S, Nothing, n, F)
  BY <1>1, <1>2, <1>4, IterationExists
<1>6. f \in [0..n -> S] /\ f[0] = Nothing /\ \A i \in 1..n : f[i] = F[i][f[i - 1]]
  BY <1>5 DEF Iterates
<1>7. \A i \in 0..n : f[i] = IF i = 0 THEN Nothing
                             ELSE PlanCall(f[i - 1], expanded[i], confirmed, ready)
  <2> SUFFICES ASSUME NEW i \in 0..n, i # 0
               PROVE  f[i] = PlanCall(f[i - 1], expanded[i], confirmed, ready)
    BY <1>6
  <2>1. i \in 1..n /\ i - 1 \in 0..n
    BY <1>1
  <2>2. f[i - 1] \in S
    BY <1>6, <2>1
  <2> QED BY <1>3, <1>6, <2>1, <2>2
<1>8. Planning(f)
  <2>1. f = [i \in 0..n |-> f[i]]
    BY <1>6
  <2> QED BY <1>7, <2>1 DEF Planning
<1> DEFINE planned == CHOOSE g : Planning(g)
<1>9. Planning(planned)
  BY <1>8, Zenon
<1>10. PlanCalls(expanded, confirmed, ready) = planned[n]
  BY Zenon DEF PlanCalls, Planning, n
<1> HIDE DEF planned
<1>11. planned[0] = Nothing /\ \A i \in 1..n : planned[i] = PlanCall(planned[i - 1], expanded[i], confirmed, ready)
  BY <1>1, <1>9 DEF Planning
<1> DEFINE Good(i) == /\ planned[i] \in S
                      /\ planned[i].code = "plan" => \A k \in 1..i : Authorized(expanded[k], confirmed)
                      /\ planned[i].code \in Unsettled => \E k \in 1..i : ~Granted(expanded[k])
           T == {i \in 0..n : Good(i)}
<1>12. 0 \in T
  <2>1. \A k \in 1..0 : FALSE
    OBVIOUS
  <2>2. Good(0)
    BY <1>2, <1>11, <2>1 DEF Unsettled
  <2> HIDE DEF Good
  <2> QED BY <1>1, <2>2
<1>13. ASSUME NEW i \in 1..n, i - 1 \in T PROVE i \in T
  <2> DEFINE done == planned[i - 1]
             r == PlanCall(done, expanded[i], confirmed, ready)
  <2>1. Good(i - 1) /\ planned[i] = r /\ 1..i = 1..(i - 1) \cup {i} /\ i \in 0..n
    BY <1>1, <1>11, <1>13
  <2>2. /\ r \in S
        /\ r.code = "plan" => done.code = "plan" /\ Authorized(expanded[i], confirmed)
        /\ r.code \in Unsettled => r = done \/ ~Granted(expanded[i])
    BY <1>1, <2>1, PlanCallResult DEF S
  <2> HIDE DEF r
  <2>3. Good(i)
    BY <2>1, <2>2
  <2> HIDE DEF Good
  <2> QED BY <2>1, <2>3
<1>14. Good(n)
  <2> HIDE DEF Good
  <2>1. 0..n \subseteq T
    <3> HIDE DEF T
    <3> QED BY <1>1, <1>12, <1>13, BoundedByStep
  <2> QED BY <1>1, <2>1
<1> QED BY <1>1, <1>10, <1>14 DEF S

(* Two results that differ in nothing but parameters. *)
Alike(r, q) ==
  /\ r.code = q.code
  /\ Len(r.steps) = Len(q.steps)
  /\ Pairs(r.steps) = Pairs(q.steps)
  /\ Pairs(r.groups) = Pairs(q.groups)

(* The calls of two expansions one after the other.                         *)
LEMMA PairsOfBoth ==
  ASSUME NEW s \in Seq(Step), NEW t \in Seq(Step)
  PROVE  Pairs(s \o t) = Pairs(s) \cup Pairs(t) /\ Len(s \o t) = Len(s) + Len(t)
<1>1. ToSet(s \o t) = ToSet(s) \cup ToSet(t)
  BY ElementsOfBoth
<1>2. Pairs(s \o t) = Pairs(s) \cup Pairs(t)
  BY <1>1 DEF Pairs
<1>3. Len(s \o t) = Len(s) + Len(t)
  OBVIOUS
<1> QED BY <1>2, <1>3

(* Expansions that name the same calls still do when more is added to both. *)
LEMMA ExtendedAlike ==
  ASSUME NEW r \in Result, NEW q \in Result, NEW x \in Result, NEW y \in Result,
         Alike(r, q), Alike(x, y)
  PROVE  Alike(Extended(r, x), Extended(q, y))
<1>1. /\ r.steps \in Seq(Step) /\ q.steps \in Seq(Step) /\ x.steps \in Seq(Step) /\ y.steps \in Seq(Step)
      /\ r.groups \in Seq(Step) /\ q.groups \in Seq(Step) /\ x.groups \in Seq(Step) /\ y.groups \in Seq(Step)
  BY DEF Result
<1>2. /\ Len(r.steps \o x.steps) = Len(q.steps \o y.steps)
      /\ Pairs(r.steps \o x.steps) = Pairs(q.steps \o y.steps)
      /\ Pairs(r.groups \o x.groups) = Pairs(q.groups \o y.groups)
  <2>1. /\ Len(r.steps) = Len(q.steps) /\ Pairs(r.steps) = Pairs(q.steps)
        /\ Pairs(r.groups) = Pairs(q.groups)
        /\ Len(x.steps) = Len(y.steps) /\ Pairs(x.steps) = Pairs(y.steps)
        /\ Pairs(x.groups) = Pairs(y.groups)
    BY DEF Alike
  <2>2. /\ Len(r.steps \o x.steps) = Len(r.steps) + Len(x.steps)
        /\ Len(q.steps \o y.steps) = Len(q.steps) + Len(y.steps)
    BY <1>1
  <2>3. /\ Pairs(r.steps \o x.steps) = Pairs(r.steps) \cup Pairs(x.steps)
        /\ Pairs(q.steps \o y.steps) = Pairs(q.steps) \cup Pairs(y.steps)
    BY <1>1, PairsOfBoth
  <2>4. /\ Pairs(r.groups \o x.groups) = Pairs(r.groups) \cup Pairs(x.groups)
        /\ Pairs(q.groups \o y.groups) = Pairs(q.groups) \cup Pairs(y.groups)
    BY <1>1, PairsOfBoth
  <2> QED BY <2>1, <2>2, <2>3, <2>4
<1>3. CASE r.code # "plan"
  BY <1>3 DEF Extended, Alike
<1>4. CASE r.code = "plan" /\ x.code # "plan"
  BY <1>4 DEF Extended, Alike
<1>5. CASE r.code = "plan" /\ x.code = "plan"
  <2>1. q.code = "plan" /\ y.code = "plan"
    BY <1>5 DEF Alike
  <2>2. CASE Len(r.steps \o x.steps) > MaxSteps
    <3>1. Extended(r, x) = Failure("invalid_request") /\ Extended(q, y) = Failure("invalid_request")
      BY <1>2, <1>5, <2>1, <2>2 DEF Extended
    <3> QED BY <3>1 DEF Alike
  <2>3. CASE ~(Len(r.steps \o x.steps) > MaxSteps)
    <3>1. /\ Extended(r, x) = [code |-> "plan", steps |-> r.steps \o x.steps,
                               groups |-> r.groups \o x.groups]
          /\ Extended(q, y) = [code |-> "plan", steps |-> q.steps \o y.steps,
                               groups |-> q.groups \o y.groups]
      BY <1>2, <1>5, <2>1, <2>3 DEF Extended
    <3> DEFINE u == r.steps \o x.steps
               v == q.steps \o y.steps
               w == r.groups \o x.groups
               z == q.groups \o y.groups
    <3>2. Len(u) = Len(v) /\ Pairs(u) = Pairs(v) /\ Pairs(w) = Pairs(z)
      BY <1>2
    <3> HIDE DEF u, v, w, z
    <3>3. Alike([code |-> "plan", steps |-> u, groups |-> w], [code |-> "plan", steps |-> v, groups |-> z])
      BY <3>2 DEF Alike
    <3> QED BY <3>1, <3>3 DEF u, v, w, z
  <2> QED BY <2>2, <2>3
<1> QED BY <1>3, <1>4, <1>5

(* The same for all the steps of a group.                                   *)
LEMMA JoinedAlike ==
  ASSUME NEW r \in Result, NEW q \in Result, Alike(r, q),
         NEW s \in Seq(Result), NEW t \in Seq(Result), Len(s) = Len(t),
         \A k \in DOMAIN s : Alike(s[k], t[k])
  PROVE  Alike(Joined(r, s), Joined(q, t))
<1> DEFINE n == Len(s)
<1>1. /\ n \in Nat /\ Len(t) = n /\ DOMAIN s = 1..n
      /\ \A k \in 1..n : s[k] \in Result /\ t[k] \in Result
  OBVIOUS
<1>2. PICK f \in [0..n -> Result] :
        /\ f = [i \in 0..n |-> IF i = 0 THEN r ELSE Extended(f[i - 1], s[i])]
        /\ Joined(r, s) = f[n]
  BY JoiningExists
<1>3. PICK g \in [0..Len(t) -> Result] :
        /\ g = [i \in 0..Len(t) |-> IF i = 0 THEN q ELSE Extended(g[i - 1], t[i])]
        /\ Joined(q, t) = g[Len(t)]
  BY JoiningExists
<1>4. /\ f[0] = r /\ \A i \in 1..n : f[i] = Extended(f[i - 1], s[i])
      /\ g[0] = q /\ \A i \in 1..n : g[i] = Extended(g[i - 1], t[i])
  <2>1. 0 \in 0..n /\ \A i \in 1..n : i \in 0..n /\ i # 0
    BY <1>1
  <2>2. f[0] = r /\ \A i \in 1..n : f[i] = Extended(f[i - 1], s[i])
    BY <1>2, <2>1
  <2>3. g[0] = q /\ \A i \in 1..n : g[i] = Extended(g[i - 1], t[i])
    BY <1>1, <1>3, <2>1
  <2> QED BY <2>2, <2>3
<1>5. \A i \in 0..n : f[i] \in Result /\ g[i] \in Result
  BY <1>1
<1> HIDE DEF n
<1> DEFINE T == {i \in 0..n : Alike(f[i], g[i])}
<1>6. 0 \in T
  BY <1>1, <1>4
<1>7. ASSUME NEW i \in 1..n, i - 1 \in T PROVE i \in T
  <2>1. i \in 0..n /\ i - 1 \in 0..n
    BY <1>1
  <2>2. Alike(s[i], t[i]) /\ s[i] \in Result /\ t[i] \in Result
    BY <1>1
  <2>3. Alike(Extended(f[i - 1], s[i]), Extended(g[i - 1], t[i]))
    BY <1>5, <1>7, <2>1, <2>2, ExtendedAlike
  <2> QED BY <1>4, <2>1, <2>3
<1>8. 0..n \subseteq T
  <2> HIDE DEF T
  <2> QED BY <1>1, <1>6, <1>7, BoundedByStep
<1>9. n \in 0..n
  BY <1>1
<1> QED BY <1>1, <1>2, <1>3, <1>8, <1>9 DEF n

(* Parameters decide nothing about what an expansion addresses. *)
SameCall(node, other) ==
  /\ node.chain = other.chain
  /\ node.call.entity = other.call.entity
  /\ node.call.action = other.call.action

(* A call expands to the same calls whatever its parameters are (expand     *)
(* hands them on and never looks at them).                                  *)
LEMMA ExpansionsAlike ==
  ASSUME Proper(coach), NEW f, Expanding(f)
  PROVE  \A node, other \in Nodes : SameCall(node, other) => Alike(f[node], f[other])
<1> DEFINE T == {n \in Nat : \A node, other \in Nodes :
                   SameCall(node, other) /\ Len(node.chain) + n >= MaxChain => Alike(f[node], f[other])}
<1>1. MaxChain \in Nat /\ \A node \in Nodes : Len(node.chain) \in Nat
  BY PlanAssumption DEF Nodes
<1>2. \A node \in Nodes : f[node] = Expansion(f, node)
  BY Zenon DEF Expanding
<1>3. 0 \in T
  <2> SUFFICES ASSUME NEW node \in Nodes, NEW other \in Nodes, SameCall(node, other),
                      Len(node.chain) >= MaxChain
               PROVE  Alike(f[node], f[other])
    BY <1>1
  <2>1. f[node] = Failure("invalid_request") /\ f[other] = Failure("invalid_request")
    BY <1>2 DEF Expansion, SameCall
  <2> QED BY <2>1 DEF Alike
<1>4. ASSUME NEW n \in Nat, n \in T PROVE n + 1 \in T
  <2> SUFFICES ASSUME NEW node \in Nodes, NEW other \in Nodes, SameCall(node, other),
                      Len(node.chain) + (n + 1) >= MaxChain
               PROVE  Alike(f[node], f[other])
    <3>1. n + 1 \in Nat
      OBVIOUS
    <3> QED BY <3>1, Zenon
  <2> DEFINE target == node.call.entity
             action == node.call.action
             group == coach.groups[target]
             steps == GroupSteps(group, action)
             first(call) == [Nothing EXCEPT !.groups = <<call>>]
             inner(at) == [i \in DOMAIN steps |-> f[Child(at, i)]]
  <2>1. other.call.entity = target /\ other.call.action = action /\ other.chain = node.chain
    BY DEF SameCall
  <2>2. node.call \in Step /\ other.call \in Step
    BY DEF Nodes
  <2>3. CASE target \in DOMAIN coach.groups /\ action \in GroupActions(group)
             /\ f[node] = Joined(first(node.call), inner(node))
             /\ f[other] = Joined(first(other.call), inner(other))
    <3>1. /\ steps \in Seq(Step)
          /\ \A i \in DOMAIN steps : /\ Child(node, i) \in Nodes
                                     /\ Len(Child(node, i).chain) = Len(node.chain) + 1
      BY <2>3, Children
    <3>2. \A i \in DOMAIN steps : Child(other, i) \in Nodes
      BY <2>1, <2>3, Children
    <3>3. \A i \in DOMAIN steps : SameCall(Child(node, i), Child(other, i))
      BY <2>1 DEF Child, SameCall, Node, StepCall, Call
    <3>4. ASSUME NEW i \in DOMAIN steps
          PROVE  Alike(f[Child(node, i)], f[Child(other, i)])
      <4>1. \A k, l, m \in Nat : m = l + 1 /\ l + (n + 1) >= k => m + n >= k
        OBVIOUS
      <4>2. Len(Child(node, i).chain) + n >= MaxChain
        BY <1>1, <3>1, <4>1
      <4> QED BY <1>4, <3>1, <3>2, <3>3, <4>2
    <3>5. \A at \in Nodes : f[at] \in Result
      BY ExpandedCalls DEF Expanded
    <3>6. /\ inner(node) \in Seq(Result) /\ inner(other) \in Seq(Result)
          /\ Len(inner(node)) = Len(inner(other))
          /\ DOMAIN inner(node) = DOMAIN steps
      <4>1. Len(steps) \in Nat /\ DOMAIN steps = 1..Len(steps)
        BY <3>1
      <4>2. inner(node) \in [1..Len(steps) -> Result] /\ inner(other) \in [1..Len(steps) -> Result]
        BY <3>1, <3>2, <3>5, <4>1
      <4>3. DOMAIN inner(node) = DOMAIN steps /\ DOMAIN inner(other) = DOMAIN steps
        OBVIOUS
      <4> HIDE DEF inner, steps
      <4> QED BY <4>1, <4>2, <4>3
    <3>7. \A i \in DOMAIN inner(node) : Alike(inner(node)[i], inner(other)[i])
      BY <3>4
    <3>8. first(node.call) \in Result /\ first(other.call) \in Result
      BY <2>2, Leaves
    <3>9. Alike(first(node.call), first(other.call))
      <4>1. /\ first(node.call) = [code |-> "plan", steps |-> << >>, groups |-> <<node.call>>]
            /\ first(other.call) = [code |-> "plan", steps |-> << >>, groups |-> <<other.call>>]
        BY <2>2, Leaves
      <4>2. Pairs(<<node.call>>) = Pairs(<<other.call>>)
        BY <2>1, OneElement DEF Pairs
      <4> HIDE DEF first
      <4> QED BY <4>1, <4>2 DEF Alike
    <3> HIDE DEF inner, first, steps
    <3>10. Alike(Joined(first(node.call), inner(node)), Joined(first(other.call), inner(other)))
      BY <3>6, <3>7, <3>8, <3>9, JoinedAlike
    <3> QED BY <2>3, <3>10
  <2>4. CASE f[node] = Leaf(node.call) /\ f[other] = Leaf(other.call)
    <3>1. /\ Leaf(node.call) = [code |-> "plan", steps |-> <<node.call>>, groups |-> << >>]
          /\ Leaf(other.call) = [code |-> "plan", steps |-> <<other.call>>, groups |-> << >>]
      BY <2>2, Leaves
    <3>2. Pairs(<<node.call>>) = Pairs(<<other.call>>) /\ Len(<<node.call>>) = Len(<<other.call>>)
      BY <2>1, OneElement DEF Pairs
    <3> QED BY <2>4, <3>1, <3>2 DEF Alike
  <2>5. CASE f[node] = f[other]
    BY <2>5 DEF Alike
  <2>6. \/ target \in DOMAIN coach.groups /\ action \in GroupActions(group)
           /\ f[node] = Joined(first(node.call), inner(node))
           /\ f[other] = Joined(first(other.call), inner(other))
        \/ f[node] = Leaf(node.call) /\ f[other] = Leaf(other.call)
        \/ f[node] = f[other]
    <3>1. f[node] = Expansion(f, node) /\ f[other] = Expansion(f, other)
      BY <1>2
    <3>2. /\ inner(node) = [i \in DOMAIN steps |->
                 f[Node(StepCall(steps[i], node.call.params), Append(node.chain, target))]]
          /\ inner(other) = [i \in DOMAIN steps |->
                 f[Node(StepCall(steps[i], other.call.params), Append(node.chain, target))]]
      BY <2>1 DEF Child
    <3> DEFINE guard == Len(node.chain) >= MaxChain \/ target \in ToSet(node.chain)
               ending(call, joined) ==
                 IF guard THEN Failure("invalid_request")
                 ELSE IF target \in DOMAIN coach.entities
                 THEN IF action \in DOMAIN coach.entities[target].actions THEN Leaf(call)
                      ELSE Failure("unknown_action")
                 ELSE IF target \notin DOMAIN coach.groups THEN Failure("unknown_target")
                 ELSE IF action \notin GroupActions(group) THEN Failure("unknown_action")
                 ELSE IF Len(steps) \notin 1..MaxSteps THEN Failure("invalid_request")
                 ELSE Joined(first(call), joined)
    <3>3. Expansion(f, node) = ending(node.call, inner(node))
      BY <3>2, Zenon DEF Expansion
    <3>4. Expansion(f, other) = ending(other.call, inner(other))
      BY <2>1, <3>2, Zenon DEF Expansion
    <3> HIDE DEF inner, first, guard, steps, group
    <3> QED BY <3>1, <3>3, <3>4, Zenon
  <2> QED BY <2>3, <2>4, <2>5, <2>6
<1>5. Nat \subseteq T
  <2> HIDE DEF T
  <2> QED BY <1>3, <1>4, NaturalsByStep
<1> SUFFICES ASSUME NEW node \in Nodes, NEW other \in Nodes, SameCall(node, other)
             PROVE  Alike(f[node], f[other])
  OBVIOUS
<1>6. MaxChain \in T /\ Len(node.chain) + MaxChain >= MaxChain
  <2> HIDE DEF T
  <2> QED BY <1>1, <1>5
<1> QED BY <1>6

(* A call expands as the same call without parameters does. *)
LEMMA ParametersDecideNothing ==
  ASSUME Proper(coach), NEW call \in Step
  PROVE  Alike(expand(call), expand(Call(call.entity, call.action, << >>)))
<1> DEFINE bare == Call(call.entity, call.action, << >>)
<1>1. bare \in Step
  BY NoParams DEF Step, Call
<1>2. /\ Node(call, << >>) \in Nodes /\ Node(bare, << >>) \in Nodes
      /\ SameCall(Node(call, << >>), Node(bare, << >>))
  <2>1. << >> \in Seq(STRING)
    OBVIOUS
  <2>2. bare.entity = call.entity /\ bare.action = call.action
    BY DEF Call
  <2> HIDE DEF bare
  <2> QED BY <1>1, <2>1, <2>2 DEF Node, Nodes, SameCall
<1>3. PICK f : Expanding(f) /\ \A c : expand(c) = f[Node(c, << >>)]
  BY ExpandingExists
<1>4. Alike(f[Node(call, << >>)], f[Node(bare, << >>)])
  BY <1>2, <1>3, ExpansionsAlike
<1> QED BY <1>3, <1>4

(* A set of numbers has a least one. *)
LEMMA LeastOf ==
  ASSUME NEW R \in SUBSET Nat, R # {}
  PROVE  \E i \in R : \A j \in R : i <= j
<1> SUFFICES ASSUME \A i \in R : \E j \in R : ~(i <= j) PROVE FALSE
  OBVIOUS
<1> DEFINE T == {n \in Nat : \A j \in R : n <= j}
<1>1. 0 \in T
  OBVIOUS
<1>2. ASSUME NEW n \in Nat, n \in T PROVE n + 1 \in T
  <2>1. n \notin R
    BY <1>2
  <2> SUFFICES ASSUME NEW j \in R PROVE n + 1 <= j
    OBVIOUS
  <2>2. n <= j /\ n # j /\ j \in Nat
    BY <1>2, <2>1
  <2> QED BY <2>2
<1>3. Nat \subseteq T
  <2> HIDE DEF T
  <2> QED BY <1>1, <1>2, NaturalsByStep
<1>4. PICK j \in R : TRUE
  OBVIOUS
<1>5. j + 1 \in T
  BY <1>3
<1> QED BY <1>5

(* The groups on the way: none refuses when each is granted and confirmed   *)
(* where its grant asks.                                                    *)
LEMMA GroupsAllow ==
  ASSUME NEW groups \in Seq(Step), NEW confirmed
  PROVE  LET problem == GroupProblem(groups, confirmed)
         IN  /\ problem \in {"none", "forbidden", "invalid_params", "confirmation_required"}
             /\ problem = "none" =>
                  \A c \in ToSet(groups) : Granted(c) /\ (Grant(c).confirm => confirmed)
             /\ problem = "forbidden" => \E c \in ToSet(groups) : ~Granted(c)
<1> DEFINE problem(group) ==
             IF ~Granted(group) THEN "forbidden"
             ELSE IF ~validate_params(group.params, GrantSchema(group)) THEN "invalid_params"
             ELSE IF Grant(group).confirm /\ ~confirmed THEN "confirmation_required" ELSE "none"
           refused == {i \in DOMAIN groups : problem(groups[i]) # "none"}
           least == CHOOSE i \in refused : \A j \in refused : i <= j
<1>1. GroupProblem(groups, confirmed) = IF refused = {} THEN "none" ELSE problem(groups[least])
  BY Zenon DEF GroupProblem
<1>2. refused \in SUBSET Nat /\ refused \subseteq DOMAIN groups
  <2>1. DOMAIN groups \subseteq Nat
    OBVIOUS
  <2> QED BY <2>1
<1>3. \A group : /\ problem(group) \in {"none", "forbidden", "invalid_params", "confirmation_required"}
                 /\ problem(group) = "none" => Granted(group) /\ (Grant(group).confirm => confirmed)
                 /\ problem(group) = "forbidden" => ~Granted(group)
  BY Zenon
<1>4. \A i \in DOMAIN groups : i \notin refused => problem(groups[i]) = "none"
  OBVIOUS
<1>5. \A i \in refused : problem(groups[i]) # "none"
  OBVIOUS
<1> HIDE DEF problem, refused
<1>6. refused # {} => least \in refused
  <2>1. refused # {} => \E i \in refused : \A j \in refused : i <= j
    BY <1>2, LeastOf
  <2> QED BY <2>1, Zenon
<1> HIDE DEF least
<1>7. CASE refused = {}
  <2>1. \A c \in ToSet(groups) : Granted(c) /\ (Grant(c).confirm => confirmed)
    BY <1>3, <1>4, <1>7 DEF ToSet
  <2>2. GroupProblem(groups, confirmed) = "none"
    BY <1>1, <1>7
  <2> QED BY <2>1, <2>2
<1>8. CASE refused # {}
  <2>1. /\ GroupProblem(groups, confirmed) = problem(groups[least])
        /\ problem(groups[least]) # "none" /\ groups[least] \in ToSet(groups)
    BY <1>1, <1>2, <1>5, <1>6, <1>8 DEF ToSet
  <2> QED BY <1>3, <2>1
<1> QED BY <1>7, <1>8

(* What the expansion of a call under an accepted policy covers. *)
LEMMA GrantedExpansion ==
  ASSUME Proper(coach), NEW call \in Step, AcceptsPolicy(policy), Granted(call)
  PROVE  /\ expand(call).code = "plan"
         /\ \A pair \in Covered(expand(call)) : pair \in DOMAIN policy
<1> DEFINE pair == <<call.entity, call.action>>
           bare == Call(call.entity, call.action, << >>)
           r == expand(call)
           q == expand(bare)
<1>1. pair \in DOMAIN policy /\ Call(pair[1], pair[2], << >>) = bare
  BY DEF Granted
<1>2. _validate_expansion(policy, bare)
  BY <1>1 DEF AcceptsPolicy
<1>3. /\ q.code = "plan"
      /\ \A i \in DOMAIN q.groups : <<q.groups[i].entity, q.groups[i].action>> \in DOMAIN policy
      /\ \A i \in DOMAIN q.steps : <<q.steps[i].entity, q.steps[i].action>> \in DOMAIN policy
  BY <1>2 DEF _validate_expansion
<1>4. Alike(r, q)
  BY ParametersDecideNothing
<1> HIDE DEF r, q
<1>5. Covered(q) \subseteq DOMAIN policy
  BY <1>3 DEF Covered, Pairs, ToSet
<1>6. r.code = "plan" /\ Covered(r) = Covered(q)
  BY <1>3, <1>4 DEF Alike, Covered
<1> QED BY <1>5, <1>6 DEF r

(* What an answer is under an accepted policy. *)
Outcome(r, a) ==
  /\ \A i \in DOMAIN a.steps : /\ a.steps[i].section \in r.ready
                               /\ a.steps[i].instance \notin coach.reserved
  /\ a.code = "plan" =>
       \A pair \in Reached(<<r.target, r.action>>) :
         /\ pair \in DOMAIN policy
         /\ policy[pair].confirm => r.confirmed
         /\ pair[1] \in DOMAIN coach.entities /\ Get(coach.entities[pair[1]], "confirm", FALSE)
            => r.confirmed
  /\ <<r.target, r.action>> \in DOMAIN policy => a.code \notin Unsettled

(* The answer to a request. *)
LEMMA PlanOfRequest ==
  ASSUME Proper(coach), NEW r \in Requests, AcceptsPolicy(policy)
  PROVE  Outcome(r, PlanOf(r))
<1> DEFINE call == Call(r.target, r.action, r.params)
           expanded == expand(call)
           problem == GroupProblem(expanded.groups, r.confirmed)
           planned == PlanCalls(expanded.steps, r.confirmed, r.ready)
           a == PlanOf(r)
<1>1. /\ call \in Step /\ call.entity = r.target /\ call.action = r.action
  BY PlanAssumption DEF Call, Step
<1>2. DOMAIN coach.entities \cap DOMAIN coach.groups = {}
  BY DEF AcceptsPolicy
<1>3. \/ a = Failure("unknown_target") /\ r.target \notin DOMAIN coach.entities \cup DOMAIN coach.groups
      \/ /\ a = Failure("unknown_action")
         /\ r.action \notin IF r.target \in DOMAIN coach.entities
                            THEN DOMAIN coach.entities[r.target].actions
                            ELSE GroupActions(coach.groups[r.target])
      \/ a = Failure("forbidden") /\ ~Granted(call)
      \/ a = Failure("invalid_params")
      \/ a = expanded /\ expanded.code # "plan" /\ Granted(call)
      \/ a = Failure("confirmation_required")
      \/ a = Failure(problem) /\ problem # "none" /\ Granted(call) /\ expanded.code = "plan"
      \/ /\ a = planned /\ Granted(call) /\ expanded.code = "plan" /\ problem = "none"
         /\ ~(Grant(call).confirm /\ ~r.confirmed)
  BY Zenon DEF PlanOf
<1>4. \A code : /\ Failure(code).code = code /\ Failure(code).steps = << >>
                /\ DOMAIN Failure(code).steps = {}
  BY DEF Failure
<1>5. /\ expanded.code = "plan" => /\ Expanded(call, expanded)
                                   /\ Reached(<<r.target, r.action>>) \subseteq Covered(expanded)
      /\ Granted(call) => /\ expanded.code = "plan"
                          /\ \A pair \in Covered(expanded) : pair \in DOMAIN policy
  BY <1>1, <1>2, ReachedIsCovered, GrantedExpansion
<1>6. <<r.target, r.action>> \in DOMAIN policy =>
        /\ Granted(call)
        /\ r.target \in DOMAIN coach.entities \cup DOMAIN coach.groups
        /\ r.action \in IF r.target \in DOMAIN coach.entities
                        THEN DOMAIN coach.entities[r.target].actions
                        ELSE GroupActions(coach.groups[r.target])
  <2> SUFFICES ASSUME <<r.target, r.action>> \in DOMAIN policy
               PROVE  /\ Granted(call)
                      /\ r.target \in DOMAIN coach.entities \cup DOMAIN coach.groups
                      /\ r.action \in IF r.target \in DOMAIN coach.entities
                                      THEN DOMAIN coach.entities[r.target].actions
                                      ELSE GroupActions(coach.groups[r.target])
    OBVIOUS
  <2> DEFINE pair == <<r.target, r.action>>
             actions == IF pair[1] \in DOMAIN coach.entities
                        THEN DOMAIN coach.entities[pair[1]].actions
                        ELSE IF pair[1] \in DOMAIN coach.groups
                        THEN GroupActions(coach.groups[pair[1]]) ELSE {}
  <2>1. pair[2] \in actions
    BY DEF AcceptsPolicy
  <2>2. pair[1] = r.target /\ pair[2] = r.action
    OBVIOUS
  <2> HIDE DEF pair
  <2>3. r.action \in IF r.target \in DOMAIN coach.entities
                     THEN DOMAIN coach.entities[r.target].actions
                     ELSE IF r.target \in DOMAIN coach.groups
                     THEN GroupActions(coach.groups[r.target]) ELSE {}
    BY <2>1, <2>2
  <2>4. Granted(call)
    BY <1>1 DEF Granted
  <2> QED BY <2>3, <2>4
<1>7. expanded.code = "plan" =>
        /\ expanded.steps \in Seq(Step) /\ expanded.groups \in Seq(Step)
        /\ \A i \in DOMAIN expanded.steps : KnownCall(expanded.steps[i])
  BY <1>5 DEF Expanded, Result, KnownCall, ToSet
<1>8. {"invalid_params", "confirmation_required", "none"} \cap Unsettled = {}
      /\ "plan" \notin Unsettled
  BY DEF Unsettled
<1> HIDE DEF a, expanded, problem, planned, call
<1>9. ASSUME NEW code, a = Failure(code), code # "plan",
             <<r.target, r.action>> \in DOMAIN policy => code \notin Unsettled
      PROVE  Outcome(r, a)
  BY <1>4, <1>9 DEF Outcome
<1>10. ASSUME \/ a = Failure("unknown_target") /\ r.target \notin DOMAIN coach.entities \cup DOMAIN coach.groups
              \/ /\ a = Failure("unknown_action")
                 /\ r.action \notin IF r.target \in DOMAIN coach.entities
                                    THEN DOMAIN coach.entities[r.target].actions
                                    ELSE GroupActions(coach.groups[r.target])
              \/ a = Failure("forbidden") /\ ~Granted(call)
              \/ a = Failure("invalid_params")
              \/ a = Failure("confirmation_required")
       PROVE  Outcome(r, a)
  <2>1. "unknown_target" # "plan" /\ "unknown_action" # "plan" /\ "forbidden" # "plan"
        /\ "invalid_params" # "plan" /\ "confirmation_required" # "plan"
        /\ "invalid_params" \notin Unsettled /\ "confirmation_required" \notin Unsettled
    BY DEF Unsettled
  <2> QED BY <1>6, <1>9, <1>10, <2>1
<1>11. ASSUME a = Failure(problem) /\ problem # "none" /\ Granted(call) /\ expanded.code = "plan"
       PROVE  Outcome(r, a)
  <2>1. /\ problem \in {"none", "forbidden", "invalid_params", "confirmation_required"}
        /\ problem = "forbidden" => \E c \in ToSet(expanded.groups) : ~Granted(c)
    BY <1>7, <1>11, GroupsAllow DEF problem
  <2>2. \A c \in ToSet(expanded.groups) : Granted(c)
    BY <1>5, <1>11 DEF Covered, Pairs, Granted
  <2>3. problem \in {"invalid_params", "confirmation_required"}
    BY <1>11, <2>1, <2>2
  <2>4. problem # "plan" /\ problem \notin Unsettled
    BY <2>3 DEF Unsettled
  <2> QED BY <1>9, <1>11, <2>4
<1>12. ASSUME /\ a = planned /\ Granted(call) /\ expanded.code = "plan" /\ problem = "none"
              /\ ~(Grant(call).confirm /\ ~r.confirmed)
       PROVE  Outcome(r, a)
  <2>1. /\ planned \in Plannable(r.ready)
        /\ planned.code = "plan" =>
             \A i \in DOMAIN expanded.steps : Authorized(expanded.steps[i], r.confirmed)
        /\ planned.code \in Unsettled => \E i \in DOMAIN expanded.steps : ~Granted(expanded.steps[i])
    BY <1>7, <1>12, PlannedCalls DEF planned
  <2>2. \A i \in DOMAIN expanded.steps : Granted(expanded.steps[i])
    BY <1>5, <1>12 DEF Covered, Pairs, Granted, ToSet
  <2>3. a.code \notin Unsettled
    BY <1>12, <2>1, <2>2
  <2>4. \A i \in DOMAIN a.steps : /\ a.steps[i].section \in r.ready
                                  /\ a.steps[i].instance \notin coach.reserved
    <3>1. a.steps \in Seq(Ready(r.ready))
      BY <1>12, <2>1 DEF Plannable
    <3>2. \A i \in DOMAIN a.steps : a.steps[i] \in Ready(r.ready)
      BY <3>1
    <3> QED BY <3>2 DEF Ready
  <2>5. ASSUME a.code = "plan", NEW pair \in Reached(<<r.target, r.action>>)
        PROVE  /\ pair \in DOMAIN policy
               /\ policy[pair].confirm => r.confirmed
               /\ pair[1] \in DOMAIN coach.entities /\ Get(coach.entities[pair[1]], "confirm", FALSE)
                  => r.confirmed
    <3>1. pair \in Covered(expanded) /\ pair \in DOMAIN policy
      BY <1>5, <1>12
    <3>2. CASE pair \in Pairs(expanded.steps)
      <4>1. PICK i \in DOMAIN expanded.steps :
                   pair = <<expanded.steps[i].entity, expanded.steps[i].action>>
        BY <3>2 DEF Pairs, ToSet
      <4>2. Authorized(expanded.steps[i], r.confirmed)
        BY <1>12, <2>1, <2>5
      <4>3. pair[1] = expanded.steps[i].entity
        BY <4>1
      <4> QED BY <3>1, <4>1, <4>2, <4>3, Zenon DEF Authorized, Grant
    <3>3. CASE pair \in Pairs(expanded.groups)
      <4>1. PICK c \in ToSet(expanded.groups) : pair = <<c.entity, c.action>>
        BY <3>3 DEF Pairs
      <4>2. Granted(c) /\ (Grant(c).confirm => r.confirmed)
        BY <1>7, <1>12, <4>1, GroupsAllow DEF problem
      <4>3. c.entity \in DOMAIN coach.groups => pair[1] \notin DOMAIN coach.entities
        BY <1>2, <4>1
      <4>4. c.entity \in DOMAIN coach.groups
        BY <1>5, <1>12, <4>1 DEF Expanded
      <4> QED BY <3>1, <4>1, <4>2, <4>3, <4>4, Zenon DEF Grant
    <3> QED BY <3>1, <3>2, <3>3 DEF Covered
  <2> QED BY <2>3, <2>4, <2>5 DEF Outcome
<1>13. ASSUME a = expanded /\ expanded.code # "plan" /\ Granted(call)
       PROVE  Outcome(r, a)
  BY <1>5, <1>13 DEF Outcome
<1>14. Outcome(r, a)
  BY <1>3, <1>10, <1>11, <1>12, <1>13
<1> QED BY <1>14 DEF a

-----------------------------------------------------------------------------
(* The invariant of a session. *)

Serving == {"serving", "answered", "executing", "executed", "aborted"}

CoachIsProper == phase \in Serving \cup {"loaded"} => Proper(coach)
PolicyIsAccepted ==
  /\ phase \in Serving => AcceptsPolicy(policy)
  /\ phase \notin Serving => policy = Bad
AnswerIsPlan == phase = "answered" => Outcome(request, answer)
FramesAreTyped ==
  /\ calls \in Seq([call : Step, depth : Nat])
  /\ frames \in Seq(Prepared) /\ sent \in Seq(Prepared)
  /\ phase # "executing" => frames = << >>
  /\ phase \notin Serving => sent = << >>
FramesAreWhole == phase \in Serving => Known(sent \o frames) /\ Whole(sent \o frames)

Session == CoachIsProper /\ PolicyIsAccepted /\ AnswerIsPlan /\ FramesAreTyped /\ FramesAreWhole

(* What depends on the coach alone changes with the coach alone. *)
LEMMA ExpansionsKept ==
  ASSUME NEW call, coach' = coach
  PROVE  expand(call)' = expand(call)
BY DEF expand, Expansion

(* While the coach stays, so does the schema of an action.                  *)
LEMMA SchemasKept ==
  ASSUME NEW target, NEW action, NEW restrictions, coach' = coach
  PROVE  schema(target, action, restrictions)' = schema(target, action, restrictions)
BY DEF schema

(* While the coach stays, so does the verdict on a grant,                   *)
LEMMA ValidationKept ==
  ASSUME NEW grants, NEW call, coach' = coach
  PROVE  _validate_expansion(grants, call)' <=> _validate_expansion(grants, call)
<1>1. expand(call)' = expand(call)
  BY ExpansionsKept
<1>2. \A t, a, g : schema(t, a, g)' = schema(t, a, g)
  BY SchemasKept
<1> QED BY <1>1, <1>2 DEF _validate_expansion

(* on a policy,                                                             *)
LEMMA AcceptanceKept ==
  ASSUME NEW grants, coach' = coach
  PROVE  AcceptsPolicy(grants)' <=> AcceptsPolicy(grants)
<1>1. \A call : _validate_expansion(grants, call)' <=> _validate_expansion(grants, call)
  BY ValidationKept
<1>2. \A t, a, g : schema(t, a, g)' = schema(t, a, g)
  BY SchemasKept
<1> QED BY <1>1, <1>2 DEF AcceptsPolicy

(* and on what a call reaches.                                              *)
LEMMA ReachedKept ==
  ASSUME NEW pair, coach' = coach
  PROVE  Reached(pair)' = Reached(pair)
BY SMT DEF Reached, StepsOf

(* A session starts with nothing loaded.                                    *)
LEMMA SessionStarts == PlanInit => Session
<1> SUFFICES ASSUME PlanInit PROVE Session
  OBVIOUS
<1>1. phase \notin Serving \cup {"loaded"} /\ phase # "executing" /\ phase # "answered"
  BY DEF PlanInit, Serving
<1>2. CoachIsProper /\ AnswerIsPlan /\ FramesAreWhole
  BY <1>1 DEF CoachIsProper, AnswerIsPlan, FramesAreWhole
<1>3. PolicyIsAccepted
  BY <1>1 DEF PolicyIsAccepted, PlanInit
<1>4. << >> \in Seq([call : Step, depth : Nat]) /\ << >> \in Seq(Prepared)
  OBVIOUS
<1>5. FramesAreTyped
  BY <1>4 DEF FramesAreTyped, PlanInit
<1> QED BY <1>2, <1>3, <1>5 DEF Session

(* Only Load changes the coach.                                             *)
LEMMA CoachStaysProper == Session /\ [PlanNext]_planVars => CoachIsProper'
<1> SUFFICES ASSUME Session, [PlanNext]_planVars PROVE CoachIsProper'
  OBVIOUS
<1>1. CASE Load
  <2>1. PICK f \in Factories, o \in Overlays : coach' = LoadCoach(f, o)
    BY <1>1 DEF Load
  <2>2. CASE coach' = Bad
    BY <1>1, <2>2 DEF Load, CoachIsProper, Serving
  <2>3. CASE coach' # Bad
    <3>1. Proper(LoadCoach(f, o))
      BY <2>1, <2>3, LoadedIsProper
    <3>2. Proper(coach)'
      BY <2>1, <3>1 DEF Proper
    <3> QED BY <3>2 DEF CoachIsProper
  <2> QED BY <2>2, <2>3
<1>2. CASE ~Load
  <2>1. coach' = coach
    BY <1>2 DEF PlanNext, planVars, local, CheckSources, StartPolicy, RefusePolicy, Ask, Type,
                execute_group, execute_entity, ExecuteUnknown, SendFrame, Executed, Again
  <2>2. phase' \in Serving \cup {"loaded"} => phase \in Serving \cup {"loaded"}
    BY <1>2 DEF PlanNext, planVars, local, CheckSources, StartPolicy, RefusePolicy, Ask, Type, Abort,
                execute_group, execute_entity, ExecuteUnknown, SendFrame, Executed, Again, Serving
  <2> QED BY <2>1, <2>2 DEF Session, CoachIsProper, Proper
<1> QED BY <1>1, <1>2

(* Once it serves, a session keeps its coach and its policy. *)
LEMMA ServingKeeps ==
  Session /\ [PlanNext]_planVars =>
    /\ phase \in Serving => phase' \in Serving /\ coach' = coach /\ policy' = policy
    /\ phase \notin Serving /\ phase' \in Serving => /\ phase = "loaded" /\ coach' = coach
                                                     /\ AcceptsPolicy(policy')
                                                     /\ calls' = calls /\ frames' = frames /\ sent' = sent
                                                     /\ phase' = "serving"
    /\ phase \notin Serving /\ phase' \notin Serving => /\ policy' = policy
                                                        /\ calls' = calls /\ frames' = frames /\ sent' = sent
<1> SUFFICES ASSUME Session, [PlanNext]_planVars
             PROVE  /\ phase \in Serving => phase' \in Serving /\ coach' = coach /\ policy' = policy
                    /\ phase \notin Serving /\ phase' \in Serving =>
                         /\ phase = "loaded" /\ coach' = coach /\ AcceptsPolicy(policy')
                         /\ calls' = calls /\ frames' = frames /\ sent' = sent
                         /\ phase' = "serving"
                    /\ phase \notin Serving /\ phase' \notin Serving =>
                         policy' = policy /\ calls' = calls /\ frames' = frames /\ sent' = sent
  OBVIOUS
<1>1. CASE CheckSources \/ Load \/ RefusePolicy
  BY <1>1 DEF CheckSources, Load, RefusePolicy, local, Serving
<1>2. CASE StartPolicy
  BY <1>2 DEF StartPolicy, local, Serving
<1>3. CASE Ask \/ Type \/ SendFrame \/ Executed \/ Again
  BY <1>3 DEF Ask, Type, SendFrame, Executed, Again, local, Serving
<1>4. CASE execute_group \/ execute_entity \/ ExecuteUnknown
  BY <1>4 DEF execute_group, execute_entity, ExecuteUnknown, Abort, Serving
<1>5. CASE UNCHANGED planVars
  BY <1>5 DEF planVars, local
<1> QED BY <1>1, <1>2, <1>3, <1>4, <1>5 DEF PlanNext

(* Only StartPolicy changes the policy, and the coach stays as it was accepted*)
(* for.                                                                     *)
LEMMA PolicyStaysAccepted == Session /\ [PlanNext]_planVars => PolicyIsAccepted'
<1> SUFFICES ASSUME Session, [PlanNext]_planVars PROVE PolicyIsAccepted'
  OBVIOUS
<1>1. CASE phase \in Serving
  <2>1. phase' \in Serving /\ coach' = coach /\ policy' = policy /\ AcceptsPolicy(policy)
    BY <1>1, ServingKeeps DEF Session, PolicyIsAccepted
  <2>2. AcceptsPolicy(policy)'
    BY <2>1, AcceptanceKept, Zenon
  <2> QED BY <2>1, <2>2 DEF PolicyIsAccepted
<1>2. CASE phase \notin Serving /\ phase' \in Serving
  <2>1. coach' = coach /\ AcceptsPolicy(policy')
    BY <1>2, ServingKeeps
  <2>2. AcceptsPolicy(policy)'
    BY <2>1, AcceptanceKept, Zenon
  <2> QED BY <1>2, <2>2 DEF PolicyIsAccepted
<1>3. CASE phase \notin Serving /\ phase' \notin Serving
  BY <1>3, ServingKeeps DEF Session, PolicyIsAccepted
<1> QED BY <1>1, <1>2, <1>3

(* Only Ask answers.                                                        *)
LEMMA AnswerStaysPlan == Session /\ [PlanNext]_planVars => AnswerIsPlan'
<1> SUFFICES ASSUME Session, [PlanNext]_planVars, phase' = "answered" PROVE Outcome(request, answer)'
  BY DEF AnswerIsPlan
<1>1. \/ Ask
      \/ phase = "answered" /\ UNCHANGED <<coach, policy, request, answer>>
  BY DEF PlanNext, planVars, local, CheckSources, Load, StartPolicy, RefusePolicy, Ask, Type, Abort,
         execute_group, execute_entity, ExecuteUnknown, SendFrame, Executed, Again
<1>2. coach' = coach /\ policy' = policy
  BY <1>1 DEF Ask
<1>3. Outcome(request', answer')
  <2>1. CASE Ask
    <3>1. PICK r \in Requests : request' = r /\ answer' = PlanOf(r)
      BY <2>1 DEF Ask
    <3>2. phase \in Serving
      BY <2>1 DEF Ask, Serving
    <3>3. Proper(coach) /\ AcceptsPolicy(policy)
      BY <3>2 DEF Session, CoachIsProper, PolicyIsAccepted
    <3>4. Outcome(r, PlanOf(r))
      BY <3>3, PlanOfRequest
    <3> QED BY <3>1, <3>4
  <2>2. CASE phase = "answered" /\ UNCHANGED <<coach, policy, request, answer>>
    BY <2>2 DEF Session, AnswerIsPlan
  <2> QED BY <1>1, <2>1, <2>2
<1>4. \A pair : Reached(pair)' = Reached(pair)
  BY <1>2, ReachedKept
<1> QED BY <1>2, <1>3, <1>4 DEF Outcome

(* The calls a group gives way to. *)
LEMMA GroupCalls ==
  ASSUME Proper(coach), calls \in Seq([call : Step, depth : Nat]), calls # << >>,
         calls[1].call.entity \in DOMAIN coach.groups,
         calls[1].call.action \in GroupActions(coach.groups[calls[1].call.entity])
  PROVE  LET call == calls[1].call
             steps == GroupSteps(coach.groups[call.entity], call.action)
         IN  [i \in DOMAIN steps |-> [call |-> StepCall(steps[i], call.params),
                                      depth |-> calls[1].depth + 1]] \o Tail(calls)
               \in Seq([call : Step, depth : Nat])
<1> DEFINE call == calls[1].call
           depth == calls[1].depth
           steps == GroupSteps(coach.groups[call.entity], call.action)
           next == [i \in DOMAIN steps |-> [call |-> StepCall(steps[i], call.params), depth |-> depth + 1]]
           Calls == [call : Step, depth : Nat]
<1>1. calls[1] \in Calls /\ Tail(calls) \in Seq(Calls)
  <2>1. calls \in Seq(Calls)
    OBVIOUS
  <2> HIDE DEF Calls
  <2> QED BY <2>1
<1>2. call \in Step /\ depth \in Nat
  BY <1>1
<1>3. call.action \in STRING /\ call.params \in Params
  BY <1>2 DEF Step
<1>4. GroupForm(coach.groups[call.entity])
  BY DEF Proper
<1>5. steps \in Seq(Step)
  BY <1>3, <1>4, StepsAreCalls
<1> HIDE DEF steps, call, depth
<1>6. \A i \in DOMAIN steps : StepCall(steps[i], call.params) \in Step
  <2>1. \A i \in DOMAIN steps : steps[i] \in Step
    BY <1>5
  <2> QED BY <1>3, <2>1, StepCalls
<1>7. depth + 1 \in Nat
  BY <1>2
<1>8. next \in Seq(Calls)
  <2>1. DOMAIN steps = 1..Len(steps) /\ Len(steps) \in Nat
    BY <1>5
  <2>2. next \in [1..Len(steps) -> Calls]
    BY <1>6, <1>7, <2>1
  <2> HIDE DEF next
  <2> QED BY <2>1, <2>2
<1> HIDE DEF next
<1>9. next \o Tail(calls) \in Seq(Calls)
  BY <1>1, <1>8
<1> QED BY <1>9 DEF next, steps, call, depth

(* Calls and frames are made of requests, steps and prepared actions.       *)
LEMMA FramesStayTyped == Session /\ [PlanNext]_planVars => FramesAreTyped'
<1> SUFFICES ASSUME Session, [PlanNext]_planVars PROVE FramesAreTyped'
  OBVIOUS
<1> DEFINE Calls == [call : Step, depth : Nat]
<1>1. /\ calls \in Seq(Calls) /\ frames \in Seq(Prepared) /\ sent \in Seq(Prepared)
      /\ phase # "executing" => frames = << >>
      /\ phase \notin Serving => sent = << >>
      /\ phase \in Serving => Proper(coach)
  BY DEF Session, FramesAreTyped, CoachIsProper
<1>2. << >> \in Seq(Calls) /\ << >> \in Seq(Prepared)
  OBVIOUS
<1> HIDE DEF Calls
<1>3. CASE CheckSources \/ Load \/ StartPolicy \/ RefusePolicy \/ Ask \/ Executed
  <2>1. /\ UNCHANGED <<calls, frames, sent>> /\ phase' # "executing"
        /\ frames = << >> /\ (phase' \notin Serving => phase \notin Serving)
    BY <1>1, <1>3 DEF CheckSources, Load, StartPolicy, RefusePolicy, Ask, Executed, local, Serving
  <2> QED BY <1>1, <2>1 DEF FramesAreTyped, Calls
<1>4. CASE Type
  <2>1. PICK r \in Requests : calls' = <<[call |-> Call(r.target, r.action, r.params), depth |-> 1]>>
    BY <1>4 DEF Type
  <2>2. Call(r.target, r.action, r.params) \in Step
    BY PlanAssumption DEF Call, Step
  <2>3. calls' \in Seq(Calls)
    BY <2>1, <2>2 DEF Calls
  <2>4. frames' = frames /\ sent' = sent /\ phase' = "executing" /\ phase' \in Serving
    BY <1>4 DEF Type, Serving
  <2> QED BY <1>1, <2>3, <2>4 DEF FramesAreTyped, Calls
<1>5. CASE Abort /\ phase = "executing" /\ frames = << >>
  <2>1. /\ phase' = "aborted" /\ calls' = << >> /\ frames' = << >> /\ sent' = sent
        /\ phase' \in Serving
    BY <1>5 DEF Abort, Serving
  <2> QED BY <1>1, <1>2, <2>1 DEF FramesAreTyped, Calls
<1>6. CASE execute_group /\ ~Abort
  <2> DEFINE call == calls[1].call
             steps == GroupSteps(coach.groups[call.entity], call.action)
             next == [i \in DOMAIN steps |-> [call |-> StepCall(steps[i], call.params),
                                              depth |-> calls[1].depth + 1]] \o Tail(calls)
  <2>1. /\ phase = "executing" /\ phase' = "executing" /\ frames' = frames /\ sent' = sent
        /\ calls # << >> /\ call.entity \in DOMAIN coach.groups
        /\ call.action \in GroupActions(coach.groups[call.entity])
        /\ calls' = next
    BY <1>6, Zenon DEF execute_group
  <2>2. next \in Seq(Calls)
    BY <1>1, <2>1, GroupCalls DEF Calls, Serving
  <2> HIDE DEF next
  <2> QED BY <1>1, <2>1, <2>2 DEF FramesAreTyped, Calls, Serving
<1>7. CASE execute_entity /\ ~Abort
  <2> DEFINE call == calls[1].call
             built == prepare_source_actions(coach, call.entity, call.action, call.params)
  <2>1. /\ phase = "executing" /\ phase' = "executing" /\ sent' = sent
        /\ calls # << >> /\ call.entity \in DOMAIN coach.entities
        /\ call.action \in DOMAIN coach.entities[call.entity].actions
        /\ built # Bad /\ frames' = built /\ calls' = Tail(calls)
    BY <1>7, Zenon DEF execute_entity
  <2>2. calls[1] \in Calls /\ Tail(calls) \in Seq(Calls)
    BY <1>1, <2>1
  <2>3. call.entity \in STRING /\ call.action \in STRING
    BY <2>2 DEF Calls, Step
  <2>4. built \in Seq(Prepared)
    BY <1>1, <2>1, <2>3, PreparedFrames DEF Serving
  <2> HIDE DEF built
  <2> QED BY <1>1, <2>1, <2>2, <2>4 DEF FramesAreTyped, Calls, Serving
<1>8. CASE SendFrame
  <2>1. /\ phase = "executing" /\ phase' = "executing" /\ frames # << >> /\ calls' = calls
        /\ frames' = Tail(frames) /\ sent' = Append(sent, frames[1])
    BY <1>8 DEF SendFrame
  <2>2. frames' \in Seq(Prepared) /\ frames[1] \in Prepared
    BY <1>1, <2>1
  <2>3. sent' \in Seq(Prepared)
    BY <1>1, <2>1, <2>2
  <2> QED BY <1>1, <2>1, <2>2, <2>3 DEF FramesAreTyped, Calls, Serving
<1>9. CASE Again
  <2>1. /\ calls' = calls /\ frames' = frames /\ sent' = << >> /\ phase # "executing"
        /\ phase' = "serving"
    BY <1>9 DEF Again
  <2> QED BY <1>1, <1>2, <2>1 DEF FramesAreTyped, Calls
<1>10. CASE UNCHANGED planVars
  BY <1>1, <1>10 DEF planVars, local, FramesAreTyped, Calls
<1>11. CASE ExecuteUnknown \/ execute_group \/ execute_entity
  <2>1. phase = "executing" /\ frames = << >>
    BY <1>11 DEF ExecuteUnknown, execute_group, execute_entity
  <2>2. ExecuteUnknown => Abort
    BY DEF ExecuteUnknown
  <2> QED BY <1>5, <1>6, <1>7, <1>11, <2>1, <2>2
<1> QED BY <1>3, <1>4, <1>8, <1>9, <1>10, <1>11 DEF PlanNext

(* What is sent and what is still to send are whole actions: execute_entity *)
(* prepares all frames of an action, SendFrame moves one.                   *)
LEMMA FramesStayWhole == Session /\ [PlanNext]_planVars => FramesAreWhole'
<1> SUFFICES ASSUME Session, [PlanNext]_planVars, phase' \in Serving
             PROVE  Known(sent \o frames)' /\ Whole(sent \o frames)'
  BY DEF FramesAreWhole
<1>1. coach' = coach
  BY ServingKeeps
<1>2. frames \in Seq(Prepared) /\ sent \in Seq(Prepared)
  BY DEF Session, FramesAreTyped
<1>3. SUFFICES Known(sent' \o frames') /\ Whole(sent' \o frames')
  BY <1>1 DEF Known, Whole
<1>4. Known(<< >> \o << >>) /\ Whole(<< >> \o << >>)
  <2>1. << >> \o << >> = << >>
    OBVIOUS
  <2>2. Known(<< >>) /\ Whole(<< >>)
    BY DEF Known, Whole
  <2> QED BY <2>1, <2>2
<1>5. CASE phase \notin Serving
  <2>1. sent = << >> /\ frames = << >>
    BY <1>5 DEF Session, FramesAreTyped, Serving
  <2>2. sent' = << >> /\ frames' = << >>
    BY <1>5, <2>1, ServingKeeps
  <2> QED BY <1>4, <2>2
<1>6. CASE phase \in Serving /\ sent' \o frames' = sent \o frames
  BY <1>6 DEF Session, FramesAreWhole
<1>7. CASE sent' = << >> /\ frames' = << >>
  BY <1>4, <1>7
<1>8. CASE execute_entity /\ ~Abort
  <2> DEFINE call == calls[1].call
             built == prepare_source_actions(coach, call.entity, call.action, call.params)
             Calls == [call : Step, depth : Nat]
  <2>1. /\ phase \in Serving /\ sent' = sent /\ frames = << >>
        /\ calls # << >> /\ call.entity \in DOMAIN coach.entities
        /\ call.action \in DOMAIN coach.entities[call.entity].actions
        /\ built # Bad /\ frames' = built
    BY <1>8, Zenon DEF execute_entity, Serving
  <2>2. calls[1] \in Calls
    <3>1. calls \in Seq(Calls)
      BY DEF Session, FramesAreTyped
    <3> HIDE DEF Calls
    <3> QED BY <2>1, <3>1
  <2>3. call.entity \in STRING /\ call.action \in STRING
    BY <2>2 DEF Step
  <2>4. Proper(coach) /\ Known(sent \o frames) /\ Whole(sent \o frames)
    BY <2>1 DEF Session, CoachIsProper, FramesAreWhole
  <2>5. sent \o frames = sent
    BY <1>2, <2>1
  <2>6. built \in Seq(Prepared) /\ Known(built) /\ Whole(built)
    BY <2>1, <2>3, <2>4, PreparedIsWhole
  <2> HIDE DEF built
  <2>7. Known(sent \o built) /\ Whole(sent \o built)
    BY <1>2, <2>4, <2>5, <2>6, WholeAfterWhole
  <2> QED BY <2>1, <2>7
<1>9. CASE SendFrame
  <2>1. /\ phase \in Serving /\ frames # << >>
        /\ frames' = Tail(frames) /\ sent' = Append(sent, frames[1])
    BY <1>9 DEF SendFrame, Serving
  <2>2. Append(sent, frames[1]) \o Tail(frames) = sent \o frames
    BY <1>2, <2>1
  <2> QED BY <1>6, <2>1, <2>2
<1>10. CASE phase \in Serving /\ sent' = sent /\ frames' = frames
  BY <1>6, <1>10
<1>11. CASE Again
  <2>1. sent' = << >> /\ frames' = frames /\ phase # "executing"
    BY <1>11 DEF Again
  <2>2. frames = << >>
    BY <2>1 DEF Session, FramesAreTyped
  <2> QED BY <1>7, <2>1, <2>2
<1>12. CASE execute_group \/ ExecuteUnknown \/ (execute_entity /\ Abort)
  <2>1. sent' = sent /\ frames' = frames /\ phase \in Serving
    BY <1>12 DEF execute_group, ExecuteUnknown, execute_entity, Abort, Serving
  <2> QED BY <1>10, <2>1
<1>13. CASE CheckSources \/ Load \/ StartPolicy \/ RefusePolicy \/ Ask \/ Type \/ Executed
            \/ UNCHANGED planVars
  <2>1. sent' = sent /\ frames' = frames
    BY <1>13 DEF CheckSources, Load, StartPolicy, RefusePolicy, Ask, Type, Executed, planVars, local
  <2> QED BY <1>5, <1>10, <2>1
<1> QED BY <1>8, <1>9, <1>11, <1>12, <1>13 DEF PlanNext

(* The session invariant (inductive).                                       *)
THEOREM SessionInvariant == PlanSpec => []Session
<1>1. Session /\ [PlanNext]_planVars => Session'
  BY CoachStaysProper, PolicyStaysAccepted, AnswerStaysPlan, FramesStayTyped, FramesStayWhole DEF Session
<1> QED BY SessionStarts, <1>1, PTL DEF PlanSpec

(* The frames of a prepared plan. *)
THEOREM WholeActionsOnly == PlanSpec => []OnlyWholeActions
<1>1. Session => OnlyWholeActions
  <2> SUFFICES ASSUME Session PROVE OnlyWholeActions
    OBVIOUS
  <2>1. frames \in Seq(Prepared) /\ sent \in Seq(Prepared)
    BY DEF Session, FramesAreTyped
  <2>2. ActionsAreWhole
    <3> SUFFICES ASSUME phase \in {"executed", "aborted"} PROVE Whole(sent)
      BY DEF ActionsAreWhole
    <3>1. phase \in Serving /\ phase # "executing"
      BY DEF Serving
    <3>2. frames = << >> /\ Whole(sent \o frames)
      BY <3>1 DEF Session, FramesAreTyped, FramesAreWhole
    <3>3. sent \o frames = sent
      BY <2>1, <3>2
    <3> QED BY <3>2, <3>3
  <2>3. ASSUME NEW i \in DOMAIN sent PROVE sent[i].instance \notin coach.reserved
    <3>1. CASE phase \in Serving
      <4>1. Known(sent \o frames)
        BY <3>1 DEF Session, FramesAreWhole
      <4>2. i \in DOMAIN (sent \o frames) /\ (sent \o frames)[i] = sent[i]
        BY <2>1
      <4> QED BY <4>1, <4>2 DEF Known
    <3>2. CASE phase \notin Serving
      <4>1. sent = << >>
        BY <3>2 DEF Session, FramesAreTyped
      <4> QED BY <4>1
    <3> QED BY <3>1, <3>2
  <2>4. NothingReserved
    BY <2>3 DEF NothingReserved, Session, AnswerIsPlan, Outcome
  <2> QED BY <2>2, <2>4 DEF OnlyWholeActions
<1> QED BY SessionInvariant, <1>1, PTL

(* PlanIsAuthorized for every configuration: CoachRequestPlanner.plan answers*)
(* "plan" only when every call on the way was granted, confirmed and ready. *)
THEOREM PlansAreAuthorized == PlanSpec => []PlanIsAuthorized
<1>1. Session => PlanIsAuthorized
  <2> SUFFICES ASSUME Session, phase = "answered", answer.code = "plan" PROVE PlanIsAuthorized
    BY DEF PlanIsAuthorized
  <2>1. Outcome(request, answer)
    BY DEF Session, AnswerIsPlan
  <2> QED BY <2>1 DEF Outcome, PlanIsAuthorized
<1> QED BY SessionInvariant, <1>1, PTL

(* A restriction keeps every value it allows within what the action takes. *)
LEMMA NarrowedValues ==
  ASSUME NEW target, NEW action, NEW restrictions,
         schema(target, action, << >>) # Bad, schema(target, action, restrictions) # Bad,
         NEW v \in Int
  PROVE  LET declared == schema(target, action, << >>)
             narrowed == schema(target, action, restrictions)
         IN  \A name \in DOMAIN narrowed :
               AcceptsValue(narrowed[name], v) => AcceptsValue(declared[name], v)
<1> DEFINE isGroup == target \in DOMAIN coach.groups
           types == IF isGroup THEN Get(coach.groups[target], "schemas", << >>)
                    ELSE coach.entities[target].schemas
           original == Get(types, action, << >>)
           merged(r) == [name \in DOMAIN original |->
                          IF name \in DOMAIN r THEN Updated(original[name], r[name])
                          ELSE original[name]]
<1>1. ASSUME NEW r, schema(target, action, r) # Bad
      PROVE  /\ schema(target, action, r) = merged(r)
             /\ \A name \in DOMAIN merged(r) : /\ validate_rule(original[name])
                                              /\ validate_rule(merged(r)[name])
                                              /\ Narrows(original[name], merged(r)[name])
  BY <1>1, Zenon DEF schema
<1> HIDE DEF original
<1>2. /\ DOMAIN merged(<< >>) = DOMAIN original /\ DOMAIN merged(restrictions) = DOMAIN original
      /\ \A name \in DOMAIN original : merged(<< >>)[name] = original[name]
      /\ \A name \in DOMAIN original : DOMAIN original[name] \subseteq DOMAIN merged(restrictions)[name]
  BY DEF Updated
<1> SUFFICES ASSUME NEW name \in DOMAIN original, AcceptsValue(merged(restrictions)[name], v)
             PROVE  AcceptsValue(original[name], v)
  BY <1>1, <1>2, Zenon
<1> DEFINE rule == original[name]
           fewer == merged(restrictions)[name]
<1>3. /\ validate_rule(rule) /\ validate_rule(fewer) /\ Narrows(rule, fewer)
      /\ DOMAIN rule \subseteq DOMAIN fewer /\ AcceptsValue(fewer, v)
  BY <1>1, <1>2
<1> HIDE DEF rule, fewer
<1>4. ASSUME "min" \in DOMAIN rule PROVE v >= rule.min
  <2>1. fewer.min \in Int /\ rule.min \in Int
    BY <1>3, <1>4 DEF validate_rule
  <2>2. v >= fewer.min /\ fewer.min >= rule.min
    BY <1>3, <1>4 DEF Narrows, AcceptsValue, Within
  <2> QED BY <2>1, <2>2
<1>5. ASSUME "max" \in DOMAIN rule PROVE v <= rule.max
  <2>1. fewer.max \in Int /\ rule.max \in Int
    BY <1>3, <1>5 DEF validate_rule
  <2>2. v <= fewer.max /\ fewer.max <= rule.max
    BY <1>3, <1>5 DEF Narrows, AcceptsValue, Within
  <2> QED BY <2>1, <2>2
<1>6. ASSUME "enum" \in DOMAIN rule PROVE v \in rule.enum
  BY <1>3, <1>6 DEF Narrows, AcceptsValue
<1> QED BY <1>4, <1>5, <1>6 DEF AcceptsValue, Within, rule

(* PolicyIsSound for every configuration: what ControllerPolicy accepts only*)
(* narrows, and leaves no missing target, action or grant to be found later.*)
THEOREM PoliciesAreSound == PlanSpec => []PolicyIsSound
<1>1. Session => PolicyIsSound
  <2> SUFFICES ASSUME Session PROVE PolicyIsSound
    OBVIOUS
  <2>1. ASSUME policy # Bad, NEW pair \in DOMAIN policy,
               NEW name \in DOMAIN schema(pair[1], pair[2], policy[pair].params), NEW v \in Levels,
               AcceptsValue(schema(pair[1], pair[2], policy[pair].params)[name], v)
        PROVE  AcceptsValue(schema(pair[1], pair[2], << >>)[name], v)
    <3>1. AcceptsPolicy(policy)
      BY <2>1 DEF Session, PolicyIsAccepted
    <3>2. /\ schema(pair[1], pair[2], << >>) # Bad
          /\ schema(pair[1], pair[2], policy[pair].params) # Bad
      BY <3>1, Zenon DEF AcceptsPolicy
    <3>3. v \in Int
      BY PlanAssumption
    <3> QED BY <2>1, <3>2, <3>3, NarrowedValues
  <2>2. PolicyOnlyNarrows
    BY <2>1, Zenon DEF PolicyOnlyNarrows
  <2>3. GrantsAreSettled
    BY DEF GrantsAreSettled, Session, AnswerIsPlan, Outcome, Unsettled
  <2> QED BY <2>2, <2>3 DEF PolicyIsSound
<1> QED BY SessionInvariant, <1>1, PTL

-----------------------------------------------------------------------------
(* The sources: what a check by walking in depth computes. *)

(* Induction along a measure. *)
LEMMA MeasuredInduction ==
  ASSUME NEW S, NEW m, \A s \in S : m[s] \in Nat, NEW T,
         \A s \in S : (\A r \in S : m[r] < m[s] => r \in T) => s \in T
  PROVE  S \subseteq T
<1> DEFINE U == {n \in Nat : \A s \in S : m[s] < n => s \in T}
<1>1. 0 \in U
  BY SMT
<1>2. ASSUME NEW n \in Nat, n \in U PROVE n + 1 \in U
  <2>1. n + 1 \in Nat
    OBVIOUS
  <2>2. ASSUME NEW s \in S, m[s] < n + 1 PROVE s \in T
    <3>1. ASSUME NEW r \in S, m[r] < m[s] PROVE r \in T
      <4>1. m[r] < n
        <5>1. \A i, j, k \in Nat : i < j /\ j < k + 1 => i < k
          OBVIOUS
        <5> QED BY <5>1, <2>2, <3>1
      <4> QED BY <1>2, <4>1
    <3> QED BY <3>1
  <2> QED BY <2>1, <2>2
<1>3. Nat \subseteq U
  <2> HIDE DEF U
  <2> QED BY <1>1, <1>2, NaturalsByStep
<1>4. ASSUME NEW s \in S PROVE s \in T
  <2>1. m[s] + 1 \in Nat /\ m[s] < m[s] + 1
    OBVIOUS
  <2>2. m[s] + 1 \in U
    BY <1>3, <2>1
  <2> QED BY <2>1, <2>2
<1> QED BY <1>4

(* An order of the elements in which each comes after what it needs. *)
Orders(rank, D, needs) ==
  /\ rank \in [D -> 1..Cardinality(D)]
  /\ \A d \in D : \A e \in needs[d] : rank[e] < rank[d]

(* A finite set can be put in such an order when nothing but the whole set  *)
(* contains every element whose needs it contains.                          *)
LEMMA OrderExists ==
  ASSUME NEW D, IsFiniteSet(D), NEW needs, \A d \in D : needs[d] \subseteq D,
         \A S \in SUBSET D : (\A d \in D : needs[d] \subseteq S => d \in S) => S = D
  PROVE  \E rank : Orders(rank, D, needs)
<1> DEFINE Upto(k) == \E S \in SUBSET D : \E rank \in [S -> 1..k] :
                        /\ Cardinality(S) = k
                        /\ \A d \in S : needs[d] \subseteq S /\ \A e \in needs[d] : rank[e] < rank[d]
           T == {k \in Nat : k <= Cardinality(D) => Upto(k)}
<1>1. Cardinality(D) \in Nat
  BY FS_CardinalityType
<1>2. 0 \in T
  <2> DEFINE rank == [d \in {} |-> 1]
  <2>1. rank \in [{} -> 1..0] /\ {} \in SUBSET D /\ Cardinality({}) = 0
    BY FS_EmptySet
  <2> HIDE DEF rank
  <2>2. Upto(0)
    BY <2>1
  <2> HIDE DEF Upto
  <2> QED BY <2>2
<1>3. ASSUME NEW k \in Nat, k \in T PROVE k + 1 \in T
  <2> SUFFICES ASSUME k + 1 <= Cardinality(D) PROVE Upto(k + 1)
    OBVIOUS
  <2>1. k <= Cardinality(D)
    BY <1>1
  <2>2. PICK S \in SUBSET D : \E rank \in [S -> 1..k] :
              /\ Cardinality(S) = k
              /\ \A d \in S : needs[d] \subseteq S /\ \A e \in needs[d] : rank[e] < rank[d]
    BY <1>3, <2>1
  <2>3. PICK rank \in [S -> 1..k] :
               /\ Cardinality(S) = k
               /\ \A d \in S : needs[d] \subseteq S /\ \A e \in needs[d] : rank[e] < rank[d]
    BY <2>2
  <2>4. S # D
    BY <1>1, <2>2
  <2>5. PICK d \in D : needs[d] \subseteq S /\ d \notin S
    BY <2>4
  <2> DEFINE more == S \cup {d}
             after == [s \in more |-> IF s = d THEN k + 1 ELSE rank[s]]
  <2>6. IsFiniteSet(S)
    BY FS_Subset
  <2>7. Cardinality(more) = k + 1 /\ more \in SUBSET D
    BY <2>2, <2>5, <2>6, FS_AddElement
  <2>8. \A s \in S : rank[s] \in Nat /\ rank[s] <= k /\ rank[s] >= 1
    OBVIOUS
  <2>9. after[d] = k + 1 /\ \A s \in S : after[s] = rank[s]
    BY <2>5
  <2>10. after \in [more -> 1..(k + 1)]
    BY <2>8, <2>9
  <2>11. ASSUME NEW s \in more
         PROVE  needs[s] \subseteq more /\ \A e \in needs[s] : after[e] < after[s]
    <3>1. CASE s = d
      BY <3>1, <2>5, <2>8, <2>9
    <3>2. CASE s \in S
      BY <3>2, <2>3, <2>9
    <3> QED BY <3>1, <3>2
  <2> HIDE DEF more, after
  <2> QED BY <2>7, <2>10, <2>11
<1>4. Upto(Cardinality(D))
  <2> HIDE DEF Upto
  <2>1. Nat \subseteq T
    BY <1>2, <1>3, NaturalsByStep
  <2> QED BY <1>1, <2>1
<1>5. PICK S \in SUBSET D : \E rank \in [S -> 1..Cardinality(D)] :
            /\ Cardinality(S) = Cardinality(D)
            /\ \A d \in S : needs[d] \subseteq S /\ \A e \in needs[d] : rank[e] < rank[d]
  BY <1>4
<1>6. S = D
  BY <1>5, FS_Subset
<1>7. PICK rank \in [S -> 1..Cardinality(D)] :
            \A d \in S : needs[d] \subseteq S /\ \A e \in needs[d] : rank[e] < rank[d]
  BY <1>5
<1>8. Orders(rank, D, needs)
  BY <1>6, <1>7 DEF Orders
<1> QED BY <1>8

(* The names below a chain of derived names, and the recursion of           *)
(* dependencies over them.                                                  *)
Below(w) == [name : STRING, chain : SUBSET DOMAIN w.derived]
Resolving(w, f) == f = [at \in Below(w) |-> Resolved(w, f, at)]

(* What a name stands for depends on the names of its expression alone. *)
LEMMA SameNames ==
  ASSUME NEW w, NEW f, NEW g, NEW at,
         at.name \notin at.chain /\ at.name \in DOMAIN w.derived =>
           \A n \in w.derived[at.name] :
             f[Named(n, at.chain \cup {at.name})] = g[Named(n, at.chain \cup {at.name})]
  PROVE  Resolved(w, f, at) = Resolved(w, g, at)
<1>1. CASE at.name \notin at.chain /\ at.name \in DOMAIN w.derived
  <2>1. UNION {f[Named(n, at.chain \cup {at.name})] : n \in w.derived[at.name]}
          = UNION {g[Named(n, at.chain \cup {at.name})] : n \in w.derived[at.name]}
    BY <1>1
  <2> QED BY <1>1, <2>1 DEF Resolved
<1>2. CASE ~(at.name \notin at.chain /\ at.name \in DOMAIN w.derived)
  BY <1>2 DEF Resolved
<1> QED BY <1>1, <1>2

(* The derived names that are not in a chain. *)
Remaining(w) == [at \in Below(w) |-> Cardinality(DOMAIN w.derived \ at.chain)]

(* A name of an expression has fewer names left than the name it defines. *)
LEMMA FewerRemain ==
  ASSUME NEW w, WiringForm(w)
  PROVE  /\ \A at \in Below(w) : Remaining(w)[at] \in Nat
         /\ \A at \in Below(w) :
              at.name \notin at.chain /\ at.name \in DOMAIN w.derived =>
                \A n \in w.derived[at.name] :
                  LET next == Named(n, at.chain \cup {at.name})
                  IN  next \in Below(w) /\ Remaining(w)[next] < Remaining(w)[at]
<1> DEFINE D == DOMAIN w.derived
<1>1. IsFiniteSet(D) /\ w.derived \in [D -> SUBSET STRING]
  BY DEF WiringForm
<1>2. ASSUME NEW at \in Below(w) PROVE IsFiniteSet(D \ at.chain) /\ Cardinality(D \ at.chain) \in Nat
  BY <1>1, FS_Difference, FS_CardinalityType
<1>3. ASSUME NEW at \in Below(w), at.name \notin at.chain, at.name \in D, NEW n \in w.derived[at.name]
      PROVE  LET next == Named(n, at.chain \cup {at.name})
             IN  next \in Below(w) /\ Remaining(w)[next] < Remaining(w)[at]
  <2> DEFINE next == Named(n, at.chain \cup {at.name})
  <2>1. n \in STRING /\ at.chain \in SUBSET D
    BY <1>1, <1>3 DEF Below
  <2>2. next \in Below(w) /\ next.chain = at.chain \cup {at.name}
    BY <1>3, <2>1 DEF Below, Named
  <2> HIDE DEF next
  <2>3. D \ next.chain = (D \ at.chain) \ {at.name}
    BY <2>2
  <2>4. Cardinality((D \ at.chain) \ {at.name}) = Cardinality(D \ at.chain) - 1
    BY <1>2, <1>3, FS_RemoveElement
  <2>5. Remaining(w)[next] = Cardinality(D \ next.chain) /\ Remaining(w)[at] = Cardinality(D \ at.chain)
    BY <2>2 DEF Remaining
  <2>6. Remaining(w)[next] < Remaining(w)[at]
    <3>1. \A i, j, k, l \in Int : i = j - 1 /\ k = i /\ l = j => k < l
      OBVIOUS
    <3>2. Cardinality(D \ at.chain) \in Int /\ Cardinality(D \ next.chain) \in Int
      <4>1. Cardinality(D \ at.chain) \in Nat
        BY <1>2
      <4>2. Cardinality(D \ next.chain) = Cardinality(D \ at.chain) - 1
        BY <2>3, <2>4, Zenon
      <4>3. \A k \in Nat : k \in Int /\ k - 1 \in Int
        OBVIOUS
      <4> QED BY <4>1, <4>2, <4>3
    <3> HIDE DEF D
    <3> QED BY <3>1, <3>2, <2>3, <2>4, <2>5
  <2> QED BY <2>2, <2>6 DEF next
<1> QED BY <1>2, <1>3 DEF Remaining

(* The recursion of dependencies has a meaning. *)
LEMMA ResolvingExists ==
  ASSUME NEW w, WiringForm(w)
  PROVE  \E f : Resolving(w, f) /\ \A name : dependencies(w, name) = f[Named(name, {})]
<1> DEFINE Upto(n) == \E f : \A at \in Below(w) :
                        Remaining(w)[at] < n => f[at] = Resolved(w, f, at)
           T == {n \in Nat : Upto(n)}
           N == Cardinality(DOMAIN w.derived) + 1
<1>1. \A at \in Below(w) : Remaining(w)[at] \in Nat
  BY FewerRemain
<1>2. N \in Nat /\ \A at \in Below(w) : Remaining(w)[at] < N
  <2>1. IsFiniteSet(DOMAIN w.derived) /\ Cardinality(DOMAIN w.derived) \in Nat
    BY FS_CardinalityType DEF WiringForm
  <2>2. ASSUME NEW at \in Below(w) PROVE Remaining(w)[at] < N
    <3>1. Cardinality(DOMAIN w.derived \ at.chain) <= Cardinality(DOMAIN w.derived)
      BY <2>1, FS_Subset
    <3>2. Remaining(w)[at] = Cardinality(DOMAIN w.derived \ at.chain)
      BY DEF Remaining
    <3> QED BY <1>1, <2>1, <3>1, <3>2
  <2> QED BY <2>1, <2>2
<1>3. 0 \in T
  <2>1. Upto(0)
    BY <1>1
  <2> QED BY <2>1
<1>4. ASSUME NEW n \in Nat, n \in T PROVE n + 1 \in T
  <2>1. PICK f : \A at \in Below(w) : Remaining(w)[at] < n => f[at] = Resolved(w, f, at)
    BY <1>4
  <2> DEFINE g == [at \in Below(w) |-> Resolved(w, f, at)]
  <2>2. \A at \in Below(w) : g[at] = Resolved(w, f, at)
    OBVIOUS
  <2> HIDE DEF g
  <2>3. ASSUME NEW at \in Below(w), Remaining(w)[at] < n + 1
        PROVE  g[at] = Resolved(w, g, at)
    <3>1. ASSUME NEW c \in Below(w), Remaining(w)[c] < Remaining(w)[at] PROVE f[c] = g[c]
      <4>1. Remaining(w)[c] < n
        <5>1. \A i, j, k \in Nat : i < j /\ j < k + 1 => i < k
          OBVIOUS
        <5> QED BY <5>1, <1>1, <2>3, <3>1
      <4> QED BY <2>1, <2>2, <4>1
    <3>2. at.name \notin at.chain /\ at.name \in DOMAIN w.derived =>
            \A m \in w.derived[at.name] :
              f[Named(m, at.chain \cup {at.name})] = g[Named(m, at.chain \cup {at.name})]
      BY <3>1, FewerRemain
    <3>3. Resolved(w, f, at) = Resolved(w, g, at)
      BY <3>2, SameNames
    <3> QED BY <2>2, <3>3
  <2>4. Upto(n + 1)
    BY <2>3
  <2>5. n + 1 \in Nat
    OBVIOUS
  <2> HIDE DEF Upto
  <2> QED BY <2>4, <2>5
<1>5. Upto(N)
  <2> HIDE DEF Upto, N
  <2>1. Nat \subseteq T
    BY <1>3, <1>4, NaturalsByStep
  <2> QED BY <1>2, <2>1
<1>6. PICK f : \A at \in Below(w) : Remaining(w)[at] < N => f[at] = Resolved(w, f, at)
  BY <1>5
<1>7. \A at \in Below(w) : f[at] = Resolved(w, f, at)
  BY <1>2, <1>6
<1> DEFINE g == [at \in Below(w) |-> f[at]]
<1>8. (\A at \in Below(w) : g[at] = f[at]) /\ g = [at \in Below(w) |-> g[at]]
  OBVIOUS
<1> HIDE DEF g
<1>9. ASSUME NEW at \in Below(w) PROVE g[at] = Resolved(w, g, at)
  <2>1. at.name \notin at.chain /\ at.name \in DOMAIN w.derived =>
          \A m \in w.derived[at.name] :
            f[Named(m, at.chain \cup {at.name})] = g[Named(m, at.chain \cup {at.name})]
    BY <1>8, FewerRemain
  <2>2. Resolved(w, f, at) = Resolved(w, g, at)
    BY <2>1, SameNames
  <2> QED BY <1>7, <1>8, <2>2
<1>10. Resolving(w, g)
  <2>1. [at \in Below(w) |-> g[at]] = [at \in Below(w) |-> Resolved(w, g, at)]
    BY <1>9
  <2> QED BY <1>8, <2>1 DEF Resolving
<1> DEFINE resolved == CHOOSE h : h = [at \in [name : STRING, chain : SUBSET DOMAIN w.derived] |-> Resolved(w, h, at)]
<1>11. Resolving(w, resolved)
  BY <1>10, Zenon DEF Resolving, Below
<1>12. \A name : dependencies(w, name) = resolved[Named(name, {})]
  BY Zenon DEF dependencies
<1> QED BY <1>11, <1>12

(* The names a definition uses are known and come before it. *)
Derives(w, rank) ==
  /\ rank \in [DOMAIN w.derived -> 1..Cardinality(DOMAIN w.derived)]
  /\ \A d \in DOMAIN w.derived : \A n \in w.derived[d] :
       \/ n \in DOMAIN w.bound
       \/ n \in DOMAIN w.derived /\ rank[n] < rank[d]

(* Names in such an order are resolved. *)
LEMMA OrderedAreResolved ==
  ASSUME NEW w, WiringForm(w), NEW rank, Derives(w, rank), NEW d \in DOMAIN w.derived
  PROVE  Unknown \notin dependencies(w, d)
<1> DEFINE D == DOMAIN w.derived
           ok(at) == \/ at.name \in DOMAIN w.bound
                     \/ at.name \in D /\ \A c \in at.chain : rank[at.name] < rank[c]
<1>1. PICK f : Resolving(w, f) /\ \A name : dependencies(w, name) = f[Named(name, {})]
  BY ResolvingExists
<1>2. \A at \in Below(w) : f[at] = Resolved(w, f, at)
  BY <1>1 DEF Resolving
<1>3. /\ \A x \in D : rank[x] \in Int /\ x \in STRING
      /\ D \cap DOMAIN w.bound = {} /\ \A x \in DOMAIN w.bound : x # Unknown
  BY GraphAssumption DEF Derives, WiringForm
<1> DEFINE T == {at \in Below(w) : ok(at) => Unknown \notin f[at]}
<1>4. ASSUME NEW at \in Below(w), \A r \in Below(w) : Remaining(w)[r] < Remaining(w)[at] => r \in T
      PROVE  at \in T
  <2> SUFFICES ASSUME ok(at) PROVE Unknown \notin f[at]
    OBVIOUS
  <2>1. at.chain \in SUBSET D
    BY DEF Below
  <2>2. CASE at.name \in DOMAIN w.bound
    <3>1. at.name \notin at.chain /\ at.name \notin D /\ at.name # Unknown
      BY <1>3, <2>1, <2>2
    <3>2. f[at] = {at.name}
      BY <1>2, <2>2, <3>1 DEF Resolved
    <3> QED BY <3>1, <3>2
  <2>3. CASE at.name \in D /\ \A c \in at.chain : rank[at.name] < rank[c]
    <3>1. at.name \notin at.chain
      BY <1>3, <2>3
    <3>2. f[at] = UNION {f[Named(n, at.chain \cup {at.name})] : n \in w.derived[at.name]}
      BY <1>2, <2>3, <3>1 DEF Resolved
    <3>3. ASSUME NEW n \in w.derived[at.name] PROVE Unknown \notin f[Named(n, at.chain \cup {at.name})]
      <4> DEFINE next == Named(n, at.chain \cup {at.name})
      <4>1. next \in Below(w) /\ Remaining(w)[next] < Remaining(w)[at]
        BY <2>3, <3>1, FewerRemain
      <4>2. next.name = n /\ next.chain = at.chain \cup {at.name}
        BY DEF Named
      <4>3. ok(next)
        <5>1. CASE n \in DOMAIN w.bound
          BY <4>2, <5>1
        <5>2. CASE n \in D /\ rank[n] < rank[at.name]
          <6>1. \A c \in at.chain \cup {at.name} : rank[n] < rank[c]
            <7>1. \A i, j, k \in Int : i < j /\ j < k => i < k
              OBVIOUS
            <7>2. \A c \in at.chain : c \in D
              BY <2>1
            <7> QED BY <7>1, <7>2, <1>3, <2>3, <5>2
          <6> HIDE DEF next
          <6> QED BY <4>2, <5>2, <6>1
        <5> QED BY <5>1, <5>2, <2>3 DEF Derives
      <4> HIDE DEF next
      <4>4. next \in T
        BY <1>4, <4>1
      <4>5. Unknown \notin f[next]
        BY <4>3, <4>4
      <4> QED BY <4>5 DEF next
    <3> QED BY <3>2, <3>3
  <2> QED BY <2>2, <2>3
<1>5. Below(w) \subseteq T
  <2> HIDE DEF T
  <2>1. \A at \in Below(w) : Remaining(w)[at] \in Nat
    BY FewerRemain
  <2> QED BY <1>4, <2>1, MeasuredInduction
<1>6. Named(d, {}) \in Below(w) /\ ok(Named(d, {}))
  BY <1>3 DEF Below, Named
<1> QED BY <1>1, <1>5, <1>6

(* Names that are resolved can be put in such an order. *)
LEMMA ResolvedAreOrdered ==
  ASSUME NEW w, WiringForm(w), \A d \in DOMAIN w.derived : Unknown \notin dependencies(w, d)
  PROVE  \E rank : Derives(w, rank)
<1> DEFINE D == DOMAIN w.derived
           needs == [d \in D |-> w.derived[d] \cap D]
<1>1. PICK f : Resolving(w, f) /\ \A name : dependencies(w, name) = f[Named(name, {})]
  BY ResolvingExists
<1>2. \A at \in Below(w) : f[at] = Resolved(w, f, at)
  BY <1>1 DEF Resolving
<1>3. /\ \A x \in D : x \in STRING
      /\ IsFiniteSet(D)
      /\ w.derived \in [D -> SUBSET STRING]
  BY DEF WiringForm
<1>4. ASSUME NEW d \in D PROVE Named(d, {}) \in Below(w)
  BY <1>3 DEF Below, Named
<1>5. ASSUME NEW d \in D, NEW n \in w.derived[d] PROVE n \in DOMAIN w.bound \/ n \in D
  <2> SUFFICES ASSUME n \notin DOMAIN w.bound, n \notin D PROVE FALSE
    OBVIOUS
  <2> DEFINE at   == Named(d, {})
             next == Named(n, at.chain \cup {at.name})
  <2>1. at \in Below(w) /\ at.name = d /\ at.chain = {}
    BY <1>4 DEF Named
  <2>2. next \in Below(w) /\ next.name = n /\ next.chain = {d}
    BY <1>3, <2>1 DEF Below, Named
  <2>3. n # d
    OBVIOUS
  <2> HIDE DEF next
  <2>4. f[next] = {Unknown}
    BY <1>2, <2>2, <2>3 DEF Resolved
  <2> HIDE DEF at
  <2>5. f[at] = UNION {f[Named(m, at.chain \cup {at.name})] : m \in w.derived[at.name]}
    BY <1>2, <2>1 DEF Resolved
  <2>6. Unknown \in f[at]
    BY <2>1, <2>4, <2>5 DEF next
  <2> QED BY <1>1, <2>6 DEF at
<1>6. ASSUME NEW S \in SUBSET D, \A d \in D : needs[d] \subseteq S => d \in S
      PROVE  S = D
  <2> SUFFICES ASSUME NEW u \in D \ S PROVE FALSE
    OBVIOUS
  <2> DEFINE T == {at \in Below(w) : at.name \in D \ S => Unknown \in f[at]}
  <2>1. ASSUME NEW at \in Below(w), \A r \in Below(w) : Remaining(w)[r] < Remaining(w)[at] => r \in T
        PROVE  at \in T
    <3> SUFFICES ASSUME at.name \in D \ S PROVE Unknown \in f[at]
      OBVIOUS
    <3>1. CASE at.name \in at.chain
      BY <1>2, <3>1 DEF Resolved
    <3>2. CASE at.name \notin at.chain
      <4>1. f[at] = UNION {f[Named(n, at.chain \cup {at.name})] : n \in w.derived[at.name]}
        BY <1>2, <3>2 DEF Resolved
      <4>2. PICK n \in w.derived[at.name] : n \in D \ S
        BY <1>6
      <4> DEFINE next == Named(n, at.chain \cup {at.name})
      <4>3. next \in Below(w) /\ Remaining(w)[next] < Remaining(w)[at]
        BY <3>2, FewerRemain
      <4>4. next.name = n
        BY DEF Named
      <4> HIDE DEF next
      <4>5. next \in T
        BY <2>1, <4>3
      <4>6. Unknown \in f[next]
        BY <4>2, <4>4, <4>5
      <4> QED BY <4>1, <4>6 DEF next
    <3> QED BY <3>1, <3>2
  <2>2. Below(w) \subseteq T
    <3> HIDE DEF T
    <3>1. \A at \in Below(w) : Remaining(w)[at] \in Nat
      BY FewerRemain
    <3> QED BY <2>1, <3>1, MeasuredInduction
  <2>3. Named(u, {}).name = u
    BY DEF Named
  <2>4. Unknown \in f[Named(u, {})]
    BY <1>4, <2>2, <2>3
  <2> QED BY <1>1, <2>4
<1>7. \E rank : Orders(rank, D, needs)
  <2>1. \A d \in D : needs[d] \subseteq D
    OBVIOUS
  <2> HIDE DEF needs
  <2> QED BY <1>3, <1>6, <2>1, OrderExists
<1>8. PICK rank : Orders(rank, D, needs)
  BY <1>7
<1>9. Derives(w, rank)
  BY <1>5, <1>8 DEF Orders, Derives
<1> QED BY <1>9

-----------------------------------------------------------------------------
(* The producer of a variable is the source with the most specific root. *)
Produces(w, p, v) ==
  /\ v \in DOMAIN w.bound
  /\ w.root[p] # << >> /\ IsPrefix(w.root[p], w.bound[v])
  /\ \A q \in DOMAIN w.root \ {p} :
       IsPrefix(w.root[q], w.bound[v]) => Len(w.root[q]) < Len(w.root[p])

(* A set of naturals with an upper bound in it has that maximum. *)
LEMMA MaxIs ==
  ASSUME NEW S \in SUBSET Nat, NEW m \in S, \A n \in S : n <= m
  PROVE  Max(S) = m
<1>1. \A y \in S : m >= y
  OBVIOUS
<1>2. Max(S) \in S /\ \A y \in S : Max(S) >= y
  BY <1>1 DEF Max
<1>3. Max(S) \in Nat /\ m \in Nat /\ Max(S) >= m /\ Max(S) <= m
  BY <1>1, <1>2
<1>4. \A i, j \in Nat : i >= j /\ i <= j => i = j
  OBVIOUS
<1> QED BY <1>3, <1>4

(* A set of naturals that is bounded and not empty has a maximum. *)
LEMMA MaxExists ==
  ASSUME NEW S \in SUBSET Nat, NEW n \in Nat, \A m \in S : m <= n, S # {}
  PROVE  Max(S) \in S /\ \A m \in S : m <= Max(S)
<1>1. \A m \in S : m <= n
  OBVIOUS
<1>2. \E m \in S : \A y \in S : m >= y
  <2> SUFFICES ASSUME ~\E m \in S : \A y \in S : m >= y PROVE FALSE
    OBVIOUS
  <2> DEFINE U == {k \in Nat : \A y \in S : y + k <= n}
  <2>1. 0 \in U
    BY <1>1
  <2>2. ASSUME NEW k \in Nat, k \in U PROVE k + 1 \in U
    <3>1. ASSUME NEW y \in S PROVE y + (k + 1) <= n
      <4>1. PICK z \in S : ~(y >= z)
        OBVIOUS
      <4>2. z + k <= n
        BY <2>2
      <4> QED BY <4>1, <4>2
    <3> QED BY <3>1
  <2>3. Nat \subseteq U
    <3> HIDE DEF U
    <3> QED BY <2>1, <2>2, NaturalsByStep
  <2>4. n + 1 \in U
    BY <2>3
  <2>5. PICK y \in S : TRUE
    OBVIOUS
  <2>6. y + (n + 1) <= n
    BY <2>4
  <2> QED BY <2>6
<1> QED BY <1>2 DEF Max

(* A variable has a producer in validate_sources when a source has the most *)
(* specific root over its topic, and that is its one producer.              *)
LEMMA OneProducer ==
  ASSUME NEW w, WiringForm(w), NEW v
  PROVE  /\ \A p \in DOMAIN w.root : Produces(w, p, v) => HasProducer(w, v) /\ Producers(w, w.bound[v]) = {p}
         /\ HasProducer(w, v) => \E p \in DOMAIN w.root : Produces(w, p, v)
<1> DEFINE topic == w.bound[v]
           rooted == Over(w, topic)
           lengths == {Len(w.root[s]) : s \in rooted}
<1>1. Producers(w, topic) = {s \in rooted : Len(w.root[s]) = Max(lengths)}
  BY DEF Producers
<1>2. \A s \in DOMAIN w.root : Len(w.root[s]) \in Nat
  BY DEF WiringForm
<1>3. IsFiniteSet(rooted)
  BY FS_Subset DEF WiringForm, Over
<1>4. rooted \subseteq DOMAIN w.root /\ lengths \in SUBSET Nat
  BY <1>2 DEF Over
<1>5. ASSUME NEW p \in DOMAIN w.root, Produces(w, p, v)
      PROVE  HasProducer(w, v) /\ Producers(w, topic) = {p}
  <2>1. p \in rooted /\ \A q \in rooted \ {p} : Len(w.root[q]) < Len(w.root[p])
    <3>1. p \in rooted
      BY <1>5 DEF Produces, Over
    <3>2. ASSUME NEW q \in rooted \ {p} PROVE Len(w.root[q]) < Len(w.root[p])
      BY <1>5, <3>2 DEF Produces, Over
    <3> QED BY <3>1, <3>2
  <2>2. Len(w.root[p]) \in lengths /\ \A n \in lengths : n <= Len(w.root[p])
    BY <1>2, <2>1
  <2>3. Max(lengths) = Len(w.root[p])
    <3> HIDE DEF lengths
    <3> QED BY <1>4, <2>2, MaxIs
  <2>4. Producers(w, topic) = {p}
    <3>1. \A q \in rooted : q # p => Len(w.root[q]) # Len(w.root[p])
      BY <1>2, <1>4, <2>1
    <3> HIDE DEF rooted, lengths
    <3> QED BY <1>1, <2>1, <2>3, <3>1
  <2> QED BY <1>5, <2>1, <2>4, FS_Singleton DEF HasProducer, Produces
<1>6. ASSUME HasProducer(w, v) PROVE \E p \in DOMAIN w.root : Produces(w, p, v)
  <2>1. v \in DOMAIN w.bound /\ rooted # {} /\ Cardinality(Producers(w, topic)) = 1
    BY <1>6 DEF HasProducer
  <2>2. Producers(w, topic) \in SUBSET rooted
    BY <1>1
  <2>3. IsFiniteSet(Producers(w, topic))
    BY <1>3, <2>2, FS_Subset
  <2>4. PICK p : Producers(w, topic) = {p}
    BY <2>1, <2>3, FS_Singleton
  <2>5. p \in rooted /\ Len(w.root[p]) = Max(lengths)
    BY <1>1, <2>4
  <2>6. \A n \in lengths : n <= Max(lengths)
    <3>1. lengths # {}
      BY <2>1
    <3>2. Len(topic) \in Nat
      BY <2>1 DEF WiringForm
    <3>3. \A n \in lengths : n <= Len(topic)
      BY DEF IsPrefix, Over
    <3> HIDE DEF lengths
    <3>4. \A n \in lengths : n <= Max(lengths)
      BY <1>4, <3>1, <3>2, <3>3, MaxExists
    <3> QED BY <3>4
  <2>7. ASSUME NEW q \in DOMAIN w.root \ {p}, IsPrefix(w.root[q], topic)
        PROVE  Len(w.root[q]) < Len(w.root[p])
    <3>1. CASE w.root[q] = << >>
      <4>1. w.root[p] # << >> /\ w.root[p] \in Seq(STRING)
        BY <2>5 DEF Over, WiringForm
      <4>2. Len(w.root[q]) = 0 /\ Len(w.root[p]) > 0
        BY <3>1, <4>1
      <4> QED BY <4>2
    <3>2. CASE w.root[q] # << >>
      <4>1. q \in rooted /\ q \notin Producers(w, topic)
        BY <2>4, <2>7, <3>2 DEF Over
      <4>2. Len(w.root[q]) # Max(lengths) /\ Len(w.root[q]) <= Max(lengths)
        BY <1>1, <2>6, <4>1
      <4> QED BY <1>2, <1>4, <2>5, <4>2
    <3> QED BY <3>1, <3>2
  <2>8. Produces(w, p, v)
    BY <2>1, <2>5, <2>7 DEF Produces, Over
  <2> QED BY <1>4, <2>5, <2>8
<1> QED BY <1>5, <1>6

-----------------------------------------------------------------------------
(* The walk over the sources, and the recursion of visit. *)
Walks(S) == [todo : SUBSET S, visiting : SUBSET S, visited : SUBSET (S \cup {Unknown})]
Visiting(graph, f) == f = [at \in Walks(DOMAIN graph) |-> Visited(graph, f, at)]
Graph(graph) ==
  /\ IsFiniteSet(DOMAIN graph)
  /\ DOMAIN graph \subseteq STRING
  /\ graph \in [DOMAIN graph -> SUBSET DOMAIN graph]

(* The source of a walk that is visited next, the walk below it, what is    *)
(* visited after it, and the walk over the others.                          *)
NextSource(at) == CHOOSE s \in at.todo : TRUE
WalkBelow(graph, at) == Walk(graph[NextSource(at)], at.visiting \cup {NextSource(at)}, at.visited)
AfterNext(graph, f, at) ==
  IF NextSource(at) \in at.visiting THEN {Unknown}
  ELSE IF NextSource(at) \in at.visited \/ Unknown \in at.visited THEN at.visited
  ELSE {NextSource(at)} \cup f[WalkBelow(graph, at)]
WalkOn(graph, f, at) == Walk(at.todo \ {NextSource(at)}, at.visiting, AfterNext(graph, f, at))

(* One step of the walk. *)
LEMMA VisitedByStep ==
  ASSUME NEW graph, NEW f, NEW at
  PROVE  Visited(graph, f, at) = IF at.todo = {} THEN at.visited ELSE f[WalkOn(graph, f, at)]
  BY DEF Visited, WalkOn, AfterNext, WalkBelow, NextSource

(* What remains of a walk: the sources that are not on its path, and then   *)
(* the sources to do.                                                       *)
Left(graph) ==
  [at \in Walks(DOMAIN graph) |->
     Cardinality(DOMAIN graph \ at.visiting) * (Cardinality(DOMAIN graph) + 1) + Cardinality(at.todo)]

(* A walk starts smaller ones. *)
LEMMA WalksShrink ==
  ASSUME NEW graph, Graph(graph)
  PROVE  /\ \A at \in Walks(DOMAIN graph) : Left(graph)[at] \in Nat
         /\ \A at \in Walks(DOMAIN graph) : at.todo # {} =>
              LET s == NextSource(at)
              IN  /\ s \in at.todo /\ s \in DOMAIN graph
                  /\ s \notin at.visiting =>
                       /\ WalkBelow(graph, at) \in Walks(DOMAIN graph)
                       /\ Left(graph)[WalkBelow(graph, at)] < Left(graph)[at]
                  /\ \A visited \in SUBSET (DOMAIN graph \cup {Unknown}) :
                       LET on == Walk(at.todo \ {s}, at.visiting, visited)
                       IN  on \in Walks(DOMAIN graph) /\ Left(graph)[on] < Left(graph)[at]
<1> DEFINE S == DOMAIN graph
           N == Cardinality(S)
           K(at) == Cardinality(S \ at.visiting)
<1>1. N \in Nat /\ IsFiniteSet(S)
  BY FS_CardinalityType DEF Graph
<1>2. \A T \in SUBSET S : IsFiniteSet(T) /\ Cardinality(T) \in Nat /\ Cardinality(T) <= N
  BY <1>1, FS_Subset, FS_CardinalityType
<1>3. ASSUME NEW at \in Walks(S)
      PROVE  /\ at.todo \in SUBSET S /\ at.visiting \in SUBSET S
             /\ at.visited \in SUBSET (S \cup {Unknown})
             /\ S \ at.visiting \in SUBSET S
             /\ Left(graph)[at] = K(at) * (N + 1) + Cardinality(at.todo)
  BY DEF Walks, Left
<1>4. ASSUME NEW at \in Walks(S)
      PROVE  K(at) \in Nat /\ Cardinality(at.todo) \in Nat /\ Left(graph)[at] \in Nat
  <2>1. K(at) \in Nat /\ Cardinality(at.todo) \in Nat
    BY <1>2, <1>3
  <2>2. \A i, j, k \in Nat : i * (j + 1) + k \in Nat
    OBVIOUS
  <2> HIDE DEF K, N
  <2> QED BY <1>1, <1>3, <2>1, <2>2
<1>5. ASSUME NEW at \in Walks(S), at.todo # {}
      PROVE  NextSource(at) \in at.todo /\ NextSource(at) \in S
  BY <1>3, <1>5 DEF NextSource
<1>6. ASSUME NEW at \in Walks(S), at.todo # {}, NextSource(at) \notin at.visiting
      PROVE  /\ WalkBelow(graph, at) \in Walks(S)
             /\ Left(graph)[WalkBelow(graph, at)] < Left(graph)[at]
  <2> DEFINE s == NextSource(at)
             below == WalkBelow(graph, at)
  <2>1. s \in S /\ graph[s] \in SUBSET S
    BY <1>5, <1>6 DEF Graph
  <2>2. below \in Walks(S) /\ below.todo = graph[s] /\ below.visiting = at.visiting \cup {s}
    BY <1>3, <2>1 DEF Walks, WalkBelow, Walk
  <2> HIDE DEF below
  <2>3. S \ below.visiting = (S \ at.visiting) \ {s} /\ s \in S \ at.visiting
    BY <1>6, <2>1, <2>2
  <2>4. K(below) = K(at) - 1
    <3>1. IsFiniteSet(S \ at.visiting)
      BY <1>2, <1>3
    <3>2. Cardinality((S \ at.visiting) \ {s}) = Cardinality(S \ at.visiting) - 1
      BY <2>3, <3>1, FS_RemoveElement
    <3> QED BY <2>3, <3>2
  <2>5. Cardinality(below.todo) \in Nat /\ Cardinality(below.todo) <= N
    BY <1>2, <2>1, <2>2
  <2>6. \A i, j, n, k, l \in Nat : i = j - 1 /\ k <= n => i * (n + 1) + k < j * (n + 1) + l
    <3> SUFFICES ASSUME NEW i \in Nat, NEW j \in Nat, NEW n \in Nat, NEW k \in Nat, NEW l \in Nat,
                        i = j - 1, k <= n
                 PROVE  i * (n + 1) + k < j * (n + 1) + l
      OBVIOUS
    <3>1. j * (n + 1) = i * (n + 1) + (n + 1)
      <4>1. j = i + 1
        OBVIOUS
      <4> QED BY <4>1
    <3>2. i * (n + 1) \in Nat
      OBVIOUS
    <3> QED BY <3>1, <3>2
  <2>7. Left(graph)[below] = K(below) * (N + 1) + Cardinality(below.todo)
    BY <1>3, <2>2
  <2>8. Left(graph)[below] < Left(graph)[at]
    <3>1. K(below) \in Nat /\ K(at) \in Nat /\ Cardinality(at.todo) \in Nat
      BY <1>4, <2>2
    <3>2. Left(graph)[at] = K(at) * (N + 1) + Cardinality(at.todo)
      BY <1>3
    <3> HIDE DEF K, N
    <3> QED BY <1>1, <2>4, <2>5, <2>6, <2>7, <3>1, <3>2
  <2> QED BY <2>2, <2>8 DEF below
<1>7. ASSUME NEW at \in Walks(S), at.todo # {}, NEW visited \in SUBSET (S \cup {Unknown})
      PROVE  LET on == Walk(at.todo \ {NextSource(at)}, at.visiting, visited)
             IN  on \in Walks(S) /\ Left(graph)[on] < Left(graph)[at]
  <2> DEFINE s == NextSource(at)
             on == Walk(at.todo \ {s}, at.visiting, visited)
  <2>1. on \in Walks(S) /\ on.todo = at.todo \ {s} /\ on.visiting = at.visiting
    BY <1>3 DEF Walks, Walk
  <2> HIDE DEF on
  <2>2. Cardinality(on.todo) = Cardinality(at.todo) - 1
    <3>1. IsFiniteSet(at.todo) /\ s \in at.todo
      BY <1>2, <1>3, <1>5, <1>7
    <3> QED BY <2>1, <3>1, FS_RemoveElement
  <2>3. K(on) = K(at)
    BY <2>1
  <2>4. \A i, n, k, l \in Nat : k = l - 1 => i * (n + 1) + k < i * (n + 1) + l
    <3>1. \A i, n \in Nat : i * (n + 1) \in Nat
      OBVIOUS
    <3>2. \A a, k, l \in Nat : k = l - 1 => a + k < a + l
      OBVIOUS
    <3> QED BY <3>1, <3>2
  <2>5. Left(graph)[on] < Left(graph)[at]
    <3>1. /\ K(on) \in Nat /\ Cardinality(at.todo) \in Nat /\ Cardinality(on.todo) \in Nat
          /\ Left(graph)[on] = K(on) * (N + 1) + Cardinality(on.todo)
          /\ Left(graph)[at] = K(at) * (N + 1) + Cardinality(at.todo)
      BY <1>3, <1>4, <2>1
    <3> HIDE DEF K, N
    <3> QED BY <1>1, <2>2, <2>3, <2>4, <3>1
  <2> QED BY <2>1, <2>5 DEF on
<1> QED BY <1>4, <1>5, <1>6, <1>7

(* Functions that agree on the smaller walks, and return sources and        *)
(* Unknown for them, take the same step.                                    *)
LEMMA SameWalks ==
  ASSUME NEW graph, Graph(graph), NEW f, NEW g, NEW at \in Walks(DOMAIN graph),
         \A c \in Walks(DOMAIN graph) : Left(graph)[c] < Left(graph)[at] =>
           f[c] = g[c] /\ f[c] \in SUBSET (DOMAIN graph \cup {Unknown})
  PROVE  /\ Visited(graph, f, at) = Visited(graph, g, at)
         /\ Visited(graph, f, at) \in SUBSET (DOMAIN graph \cup {Unknown})
         /\ at.todo # {} => /\ AfterNext(graph, f, at) = AfterNext(graph, g, at)
                            /\ AfterNext(graph, f, at) \in SUBSET (DOMAIN graph \cup {Unknown})
                            /\ WalkOn(graph, f, at) \in Walks(DOMAIN graph)
                            /\ Left(graph)[WalkOn(graph, f, at)] < Left(graph)[at]
<1> DEFINE S == DOMAIN graph
           s == NextSource(at)
<1>0. at.visited \in SUBSET (S \cup {Unknown})
  BY DEF Walks
<1>1. CASE at.todo = {}
  BY <1>0, <1>1, VisitedByStep
<1>2. CASE at.todo # {}
  <2>1. s \in S
    BY <1>2, WalksShrink
  <2>2. s \notin at.visiting => /\ f[WalkBelow(graph, at)] = g[WalkBelow(graph, at)]
                                /\ f[WalkBelow(graph, at)] \in SUBSET (S \cup {Unknown})
    BY <1>2, WalksShrink
  <2>3. /\ AfterNext(graph, f, at) = AfterNext(graph, g, at)
        /\ AfterNext(graph, f, at) \in SUBSET (S \cup {Unknown})
    BY <1>0, <2>1, <2>2 DEF AfterNext
  <2>4. WalkOn(graph, f, at) = WalkOn(graph, g, at)
    BY <2>3 DEF WalkOn
  <2>5. WalkOn(graph, f, at) \in Walks(S) /\ Left(graph)[WalkOn(graph, f, at)] < Left(graph)[at]
    BY <1>2, <2>3, WalksShrink DEF WalkOn
  <2>6. f[WalkOn(graph, f, at)] = g[WalkOn(graph, g, at)] /\ f[WalkOn(graph, f, at)] \in SUBSET (S \cup {Unknown})
    BY <2>4, <2>5
  <2> QED BY <1>2, <2>3, <2>5, <2>6, VisitedByStep
<1> QED BY <1>1, <1>2

(* The recursion of visit has a meaning, and returns sources and Unknown. *)
LEMMA VisitingExists ==
  ASSUME NEW graph, Graph(graph)
  PROVE  \E f : /\ Visiting(graph, f)
                /\ \A at \in Walks(DOMAIN graph) : f[at] \in SUBSET (DOMAIN graph \cup {Unknown})
                /\ visit_sources(graph) = f[Walk(DOMAIN graph, {}, {})]
<1> DEFINE W == Walks(DOMAIN graph)
           V == SUBSET (DOMAIN graph \cup {Unknown})
           Upto(n) == \E f : \A at \in W :
                        Left(graph)[at] < n => f[at] = Visited(graph, f, at) /\ f[at] \in V
           T == {n \in Nat : Upto(n)}
<1>1. \A at \in W : Left(graph)[at] \in Nat
  BY WalksShrink
<1>2. 0 \in T
  <2>1. Upto(0)
    BY <1>1
  <2> QED BY <2>1
<1>3. ASSUME NEW n \in Nat, n \in T PROVE n + 1 \in T
  <2>1. PICK f : \A at \in W :
                   Left(graph)[at] < n => f[at] = Visited(graph, f, at) /\ f[at] \in V
    BY <1>3
  <2> DEFINE g == [at \in W |-> Visited(graph, f, at)]
  <2>2. \A at \in W : g[at] = Visited(graph, f, at)
    OBVIOUS
  <2> HIDE DEF g
  <2>3. ASSUME NEW at \in W, Left(graph)[at] < n + 1
        PROVE  g[at] = Visited(graph, g, at) /\ g[at] \in V
    <3>1. ASSUME NEW c \in W, Left(graph)[c] < Left(graph)[at] PROVE f[c] = g[c] /\ f[c] \in V
      <4>1. Left(graph)[c] < n
        <5>1. \A i, j, k \in Nat : i < j /\ j < k + 1 => i < k
          OBVIOUS
        <5> QED BY <5>1, <1>1, <2>3, <3>1
      <4> QED BY <2>1, <2>2, <4>1
    <3>2. Visited(graph, f, at) = Visited(graph, g, at) /\ Visited(graph, f, at) \in V
      BY <3>1, SameWalks
    <3> QED BY <2>2, <3>2
  <2>4. Upto(n + 1)
    BY <2>3
  <2>5. n + 1 \in Nat
    OBVIOUS
  <2> HIDE DEF Upto
  <2> QED BY <2>4, <2>5
<1>4. Nat \subseteq T
  <2> HIDE DEF Upto
  <2> QED BY <1>2, <1>3, NaturalsByStep
<1> DEFINE N == Cardinality(DOMAIN graph)
           most == N * (N + 1) + N + 1
<1>5. most \in Nat /\ \A at \in W : Left(graph)[at] < most
  <2>1. N \in Nat
    BY FS_CardinalityType DEF Graph
  <2>2. \A j \in Nat : j * (j + 1) + j + 1 \in Nat
    OBVIOUS
  <2>3. \A i, j, k \in Nat : i <= j /\ k <= j => i * (j + 1) + k < j * (j + 1) + j + 1
    <3> SUFFICES ASSUME NEW i \in Nat, NEW j \in Nat, NEW k \in Nat, i <= j, k <= j
                 PROVE  i * (j + 1) + k < j * (j + 1) + j + 1
      OBVIOUS
    <3>1. i * (j + 1) <= j * (j + 1)
      <4>1. j * (j + 1) = i * (j + 1) + (j - i) * (j + 1)
        OBVIOUS
      <4>2. (j - i) * (j + 1) >= 0
        OBVIOUS
      <4>3. i * (j + 1) \in Int /\ (j - i) * (j + 1) \in Int
        OBVIOUS
      <4> QED BY <4>1, <4>2, <4>3
    <3>2. i * (j + 1) \in Int /\ j * (j + 1) \in Int
      OBVIOUS
    <3> QED BY <3>1, <3>2
  <2>4. ASSUME NEW at \in W PROVE Left(graph)[at] < most
    <3>1. /\ at.todo \in SUBSET DOMAIN graph /\ DOMAIN graph \ at.visiting \in SUBSET DOMAIN graph
          /\ Left(graph)[at] = Cardinality(DOMAIN graph \ at.visiting) * (N + 1) + Cardinality(at.todo)
      BY DEF Walks, Left
    <3>2. \A U \in SUBSET DOMAIN graph : Cardinality(U) \in Nat /\ Cardinality(U) <= N
      BY FS_Subset, FS_CardinalityType DEF Graph
    <3>3. /\ Cardinality(at.todo) \in Nat /\ Cardinality(at.todo) <= N
          /\ Cardinality(DOMAIN graph \ at.visiting) \in Nat /\ Cardinality(DOMAIN graph \ at.visiting) <= N
      BY <3>1, <3>2
    <3> HIDE DEF N
    <3> QED BY <2>1, <2>3, <3>1, <3>3
  <2> HIDE DEF N
  <2> QED BY <2>1, <2>2, <2>4
<1>6. Upto(most)
  <2> HIDE DEF Upto, most
  <2> QED BY <1>4, <1>5
<1>7. PICK f : \A at \in W : Left(graph)[at] < most => f[at] = Visited(graph, f, at) /\ f[at] \in V
  BY <1>6
<1>8. \A at \in W : f[at] = Visited(graph, f, at) /\ f[at] \in V
  <2> HIDE DEF most
  <2> QED BY <1>5, <1>7
<1> DEFINE g == [at \in W |-> f[at]]
<1>9. (\A at \in W : g[at] = f[at]) /\ g = [at \in W |-> g[at]]
  OBVIOUS
<1> HIDE DEF g
<1>10. ASSUME NEW at \in W PROVE g[at] = Visited(graph, g, at)
  <2>1. Visited(graph, f, at) = Visited(graph, g, at)
    BY <1>8, <1>9, SameWalks
  <2> QED BY <1>8, <1>9, <2>1
<1>11. Visiting(graph, g)
  <2>1. [at \in W |-> g[at]] = [at \in W |-> Visited(graph, g, at)]
    BY <1>10
  <2> QED BY <1>9, <2>1 DEF Visiting
<1> DEFINE visited == CHOOSE h : h = [at \in Walks(DOMAIN graph) |-> Visited(graph, h, at)]
<1>12. Visiting(graph, visited)
  BY <1>11, Zenon DEF Visiting
<1>13. visit_sources(graph) = visited[Walk(DOMAIN graph, {}, {})]
  BY Zenon DEF visit_sources, Walks
<1> HIDE DEF visited
<1>14. \A at \in W : visited[at] = Visited(graph, visited, at)
  BY <1>12 DEF Visiting
<1> DEFINE U == {at \in W : visited[at] \in V}
<1>15. ASSUME NEW at \in W, \A r \in W : Left(graph)[r] < Left(graph)[at] => r \in U PROVE at \in U
  <2>1. Visited(graph, visited, at) \in V
    BY <1>15, SameWalks
  <2> QED BY <1>14, <2>1
<1>16. W \subseteq U
  <2> HIDE DEF U, W
  <2> QED BY <1>1, <1>15, MeasuredInduction
<1> QED BY <1>12, <1>13, <1>16

(* One step of a recursion that has this meaning. *)
LEMMA VisitingByStep ==
  ASSUME NEW graph, Graph(graph), NEW f, Visiting(graph, f),
         \A at \in Walks(DOMAIN graph) : f[at] \in SUBSET (DOMAIN graph \cup {Unknown}),
         NEW at \in Walks(DOMAIN graph)
  PROVE  /\ at.todo = {} => f[at] = at.visited
         /\ at.todo # {} => /\ f[at] = f[WalkOn(graph, f, at)]
                            /\ WalkOn(graph, f, at) \in Walks(DOMAIN graph)
                            /\ WalkOn(graph, f, at).todo = at.todo \ {NextSource(at)}
                            /\ WalkOn(graph, f, at).visiting = at.visiting
                            /\ WalkOn(graph, f, at).visited = AfterNext(graph, f, at)
                            /\ Left(graph)[WalkOn(graph, f, at)] < Left(graph)[at]
<1>1. f[at] = Visited(graph, f, at)
  BY DEF Visiting
<1>2. at.todo # {} => /\ WalkOn(graph, f, at) \in Walks(DOMAIN graph)
                      /\ Left(graph)[WalkOn(graph, f, at)] < Left(graph)[at]
  BY SameWalks
<1>3. /\ WalkOn(graph, f, at).todo = at.todo \ {NextSource(at)}
      /\ WalkOn(graph, f, at).visiting = at.visiting
      /\ WalkOn(graph, f, at).visited = AfterNext(graph, f, at)
  BY DEF WalkOn, Walk
<1> QED BY <1>1, <1>2, <1>3, VisitedByStep

(* Once refused, a walk is refused. *)
LEMMA RefusedStays ==
  ASSUME NEW graph, Graph(graph), NEW f, Visiting(graph, f),
         \A at \in Walks(DOMAIN graph) : f[at] \in SUBSET (DOMAIN graph \cup {Unknown}),
         NEW a \in Walks(DOMAIN graph), Unknown \in a.visited
  PROVE  Unknown \in f[a]
<1> DEFINE W == Walks(DOMAIN graph)
           T == {at \in W : Unknown \in at.visited => Unknown \in f[at]}
<1>1. ASSUME NEW at \in W, \A r \in W : Left(graph)[r] < Left(graph)[at] => r \in T
      PROVE  at \in T
  <2> SUFFICES ASSUME Unknown \in at.visited PROVE Unknown \in f[at]
    OBVIOUS
  <2>1. CASE at.todo = {}
    BY <2>1, VisitingByStep
  <2>2. CASE at.todo # {}
    <3>1. Unknown \in AfterNext(graph, f, at)
      BY DEF AfterNext
    <3>2. WalkOn(graph, f, at) \in T /\ WalkOn(graph, f, at).visited = AfterNext(graph, f, at)
      BY <1>1, <2>2, VisitingByStep
    <3> QED BY <2>2, <3>1, <3>2, VisitingByStep
  <2> QED BY <2>1, <2>2
<1>2. W \subseteq T
  <2> HIDE DEF T
  <2>1. \A at \in W : Left(graph)[at] \in Nat
    BY WalksShrink
  <2> QED BY <1>1, <2>1, MeasuredInduction
<1> QED BY <1>2

(* A graph whose edges lead back in an order is not refused. *)
LEMMA OrderedIsVisited ==
  ASSUME NEW graph, Graph(graph), NEW rank, Orders(rank, DOMAIN graph, graph)
  PROVE  Unknown \notin visit_sources(graph)
<1> DEFINE S == DOMAIN graph
           W == Walks(S)
           ok(at) == /\ Unknown \notin at.visited
                     /\ \A s \in at.todo, c \in at.visiting : rank[s] < rank[c]
<1>1. PICK f : /\ Visiting(graph, f)
               /\ \A at \in W : f[at] \in SUBSET (S \cup {Unknown})
               /\ visit_sources(graph) = f[Walk(S, {}, {})]
  BY VisitingExists
<1>2. /\ \A s \in S : rank[s] \in Int /\ s \in STRING /\ s # Unknown
      /\ \A s \in S : graph[s] \subseteq S /\ \A e \in graph[s] : rank[e] < rank[s]
  BY GraphAssumption DEF Orders, Graph
<1> DEFINE T == {at \in W : ok(at) => Unknown \notin f[at]}
<1>3. ASSUME NEW at \in W, \A r \in W : Left(graph)[r] < Left(graph)[at] => r \in T
      PROVE  at \in T
  <2> SUFFICES ASSUME ok(at) PROVE Unknown \notin f[at]
    OBVIOUS
  <2>1. CASE at.todo = {}
    BY <1>1, <2>1, VisitingByStep
  <2>2. CASE at.todo # {}
    <3> DEFINE s == NextSource(at)
               below == WalkBelow(graph, at)
               on == WalkOn(graph, f, at)
    <3>1. s \in at.todo /\ s \in S /\ at.visiting \subseteq S
      BY <2>2, WalksShrink DEF Walks
    <3>2. s \notin at.visiting
      BY <1>2, <3>1
    <3>3. below \in W /\ below \in T
      BY <1>3, <2>2, <3>2, WalksShrink
    <3>4. ok(below)
      <4>1. below.todo = graph[s] /\ below.visiting = at.visiting \cup {s} /\ below.visited = at.visited
        BY DEF WalkBelow, Walk
      <4>2. ASSUME NEW e \in graph[s], NEW c \in at.visiting \cup {s} PROVE rank[e] < rank[c]
        <5>1. e \in S /\ rank[e] < rank[s] /\ c \in S
          BY <1>2, <3>1
        <5>2. rank[e] \in Int /\ rank[s] \in Int /\ rank[c] \in Int
          BY <1>2, <3>1, <5>1
        <5>3. c = s \/ rank[s] < rank[c]
          BY <3>1
        <5>4. \A i, j, k \in Int : i < j /\ j < k => i < k
          OBVIOUS
        <5> QED BY <5>1, <5>2, <5>3, <5>4
      <4> HIDE DEF below, s
      <4> QED BY <4>1, <4>2
    <3>5. Unknown \notin f[below]
      <4> HIDE DEF below
      <4> QED BY <3>3, <3>4
    <3>6. Unknown \notin AfterNext(graph, f, at)
      BY <1>2, <3>1, <3>2, <3>5 DEF AfterNext
    <3>7. /\ f[at] = f[on] /\ on \in W /\ on.todo = at.todo \ {s} /\ on.visiting = at.visiting
          /\ on.visited = AfterNext(graph, f, at) /\ Left(graph)[on] < Left(graph)[at]
      BY <1>1, <2>2, VisitingByStep
    <3> HIDE DEF on, s
    <3>8. ok(on) /\ on \in T
      BY <1>3, <3>6, <3>7
    <3> QED BY <3>7, <3>8
  <2> QED BY <2>1, <2>2
<1>4. W \subseteq T
  <2> HIDE DEF T
  <2>1. \A at \in W : Left(graph)[at] \in Nat
    BY WalksShrink
  <2> QED BY <1>3, <2>1, MeasuredInduction
<1>5. Walk(S, {}, {}) \in W /\ ok(Walk(S, {}, {}))
  BY DEF Walks, Walk
<1> QED BY <1>1, <1>4, <1>5

(* A walk that is not refused is done with all its sources, and stays in    *)
(* every set that holds each source whose producers it holds.               *)
LEMMA VisitedIsClosed ==
  ASSUME NEW graph, Graph(graph), NEW f, Visiting(graph, f),
         \A at \in Walks(DOMAIN graph) : f[at] \in SUBSET (DOMAIN graph \cup {Unknown}),
         NEW L \in SUBSET DOMAIN graph, \A s \in DOMAIN graph : graph[s] \subseteq L => s \in L,
         NEW a \in Walks(DOMAIN graph), a.visited \subseteq L, Unknown \notin f[a]
  PROVE  a.todo \cup a.visited \subseteq f[a] /\ f[a] \subseteq L
<1> DEFINE S == DOMAIN graph
           W == Walks(S)
           T == {at \in W : at.visited \subseteq L /\ Unknown \notin f[at] =>
                              at.todo \cup at.visited \subseteq f[at] /\ f[at] \subseteq L}
<1>1. ASSUME NEW at \in W, \A r \in W : Left(graph)[r] < Left(graph)[at] => r \in T
      PROVE  at \in T
  <2> SUFFICES ASSUME at.visited \subseteq L, Unknown \notin f[at]
               PROVE  at.todo \cup at.visited \subseteq f[at] /\ f[at] \subseteq L
    OBVIOUS
  <2>1. CASE at.todo = {}
    <3>1. f[at] = at.visited
      BY <2>1, VisitingByStep
    <3> QED BY <2>1, <3>1
  <2>2. CASE at.todo # {}
    <3> DEFINE s == NextSource(at)
               below == WalkBelow(graph, at)
               on == WalkOn(graph, f, at)
               after == AfterNext(graph, f, at)
    <3>1. s \in at.todo /\ s \in S
      BY <2>2, WalksShrink
    <3>2. /\ f[at] = f[on] /\ on \in W /\ on.todo = at.todo \ {s}
          /\ on.visited = after /\ Left(graph)[on] < Left(graph)[at]
      BY <2>2, VisitingByStep
    <3>3. Unknown \notin after
      BY <3>2, RefusedStays
    <3>4. s \notin at.visiting
      BY <3>3 DEF AfterNext
    <3>5. at.visited \subseteq after /\ s \in after /\ after \subseteq L
      <4>1. CASE s \in at.visited
        BY <3>3, <3>4, <4>1 DEF AfterNext
      <4>2. CASE s \notin at.visited
        <5>1. Unknown \notin at.visited
          BY <3>3, <3>4, <4>2 DEF AfterNext
        <5>2. after = {s} \cup f[below]
          BY <3>4, <4>2, <5>1 DEF AfterNext
        <5>3. below \in T
          BY <1>1, <2>2, <3>4, WalksShrink
        <5>4. below.todo = graph[s] /\ below.visited = at.visited
          BY DEF WalkBelow, Walk
        <5> HIDE DEF below, after
        <5>5. graph[s] \cup at.visited \subseteq f[below] /\ f[below] \subseteq L
          BY <3>3, <5>2, <5>3, <5>4
        <5>6. s \in L
          BY <3>1, <5>5
        <5> QED BY <5>2, <5>5, <5>6
      <4> QED BY <4>1, <4>2
    <3> HIDE DEF on, after
    <3>6. on \in T
      BY <1>1, <3>2
    <3>7. on.todo \cup on.visited \subseteq f[on] /\ f[on] \subseteq L
      BY <3>2, <3>5, <3>6
    <3>8. at.todo \subseteq (at.todo \ {s}) \cup {s}
      OBVIOUS
    <3> HIDE DEF s
    <3> QED BY <3>2, <3>5, <3>7, <3>8
  <2> QED BY <2>1, <2>2
<1>2. W \subseteq T
  <2> HIDE DEF T
  <2>1. \A at \in W : Left(graph)[at] \in Nat
    BY WalksShrink
  <2> HIDE DEF W
  <2> QED BY <1>1, <2>1, MeasuredInduction
<1> QED BY <1>2

(* A graph that is not refused has an order its edges lead back in. *)
LEMMA VisitedIsOrdered ==
  ASSUME NEW graph, Graph(graph), Unknown \notin visit_sources(graph)
  PROVE  \E rank : Orders(rank, DOMAIN graph, graph)
<1> DEFINE S == DOMAIN graph
<1>1. PICK f : /\ Visiting(graph, f)
               /\ \A at \in Walks(S) : f[at] \in SUBSET (S \cup {Unknown})
               /\ visit_sources(graph) = f[Walk(S, {}, {})]
  BY VisitingExists
<1>2. ASSUME NEW L \in SUBSET S, \A s \in S : graph[s] \subseteq L => s \in L PROVE L = S
  <2> DEFINE top == Walk(S, {}, {})
  <2>1. top \in Walks(S) /\ top.todo = S /\ top.visited = {}
    BY DEF Walks, Walk
  <2> HIDE DEF top
  <2>2. Unknown \notin f[top]
    BY <1>1 DEF top
  <2>3. top.visited \subseteq L
    BY <2>1
  <2>4. top.todo \cup top.visited \subseteq f[top] /\ f[top] \subseteq L
    BY <1>1, <1>2, <2>1, <2>2, <2>3, VisitedIsClosed
  <2> QED BY <2>1, <2>4
<1>3. IsFiniteSet(S) /\ \A s \in S : graph[s] \subseteq S
  BY DEF Graph
<1> QED BY <1>2, <1>3, OrderExists

-----------------------------------------------------------------------------
(* validate_sources. *)

(* What validate_sources accepts. *)
InOrder(w) ==
  /\ \E rank : Derives(w, rank)
  /\ \E rank \in [DOMAIN w.root -> 1..Cardinality(DOMAIN w.root)] :
       \A s \in DOMAIN w.root : \A v \in References(w, s) :
         \E p \in DOMAIN w.root : Produces(w, p, v) /\ rank[p] < rank[s]
  /\ \A v \in Watched(w) : \E p \in DOMAIN w.root : Produces(w, p, v)

(* The edges of a wiring make a graph. *)
LEMMA EdgesAreGraph ==
  ASSUME NEW w, WiringForm(w)
  PROVE  DOMAIN Edges(w) = DOMAIN w.root /\ Graph(Edges(w))
<1>1. DOMAIN Edges(w) = DOMAIN w.root
  BY DEF Edges
<1>2. ASSUME NEW s \in DOMAIN w.root PROVE Edges(w)[s] \in SUBSET DOMAIN w.root
  <2>1. \A t : Producers(w, t) \subseteq DOMAIN w.root
    BY DEF Producers, Over
  <2> QED BY <2>1 DEF Edges
<1>3. Edges(w) \in [DOMAIN w.root -> SUBSET DOMAIN w.root]
  <2>1. Edges(w) = [s \in DOMAIN w.root |-> Edges(w)[s]]
    BY DEF Edges
  <2> QED BY <1>2, <2>1
<1> QED BY <1>1, <1>3 DEF Graph, WiringForm

(* A wiring is accepted exactly when it is in order. *)
LEMMA AcceptedInOrder ==
  ASSUME NEW w, WiringForm(w)
  PROVE  validate_sources(w) <=> InOrder(w)
<1> DEFINE S == DOMAIN w.root
           G == Edges(w)
<1>1. DOMAIN G = S /\ Graph(G)
  BY EdgesAreGraph
<1>2. ASSUME NEW s \in S PROVE G[s] = UNION {Producers(w, w.bound[v]) : v \in References(w, s)}
  BY DEF Edges
<1>3. ASSUME validate_sources(w) PROVE InOrder(w)
  <2>1. \E rank : Derives(w, rank)
    BY <1>3, ResolvedAreOrdered DEF validate_sources
  <2>2. \E rank : Orders(rank, S, G)
    <3> HIDE DEF G
    <3>1. Unknown \notin visit_sources(G)
      BY <1>3 DEF validate_sources, G
    <3> QED BY <1>1, <3>1, VisitedIsOrdered
  <2>3. PICK rank : Orders(rank, S, G)
    BY <2>2
  <2>4. ASSUME NEW s \in S, NEW v \in References(w, s)
        PROVE  \E p \in S : Produces(w, p, v) /\ rank[p] < rank[s]
    <3>1. PICK p \in S : Produces(w, p, v)
      BY <1>3, OneProducer DEF validate_sources
    <3>2. p \in G[s]
      <4>1. Producers(w, w.bound[v]) = {p}
        BY <3>1, OneProducer
      <4>2. Producers(w, w.bound[v]) \subseteq G[s]
        <5> HIDE DEF G
        <5> QED BY <1>2
      <4> HIDE DEF G
      <4> QED BY <4>1, <4>2
    <3> QED BY <2>3, <3>1, <3>2 DEF Orders
  <2>5. \A v \in Watched(w) : \E p \in S : Produces(w, p, v)
    BY <1>3, OneProducer DEF validate_sources
  <2> QED BY <2>1, <2>3, <2>4, <2>5 DEF InOrder, Orders
<1>4. ASSUME InOrder(w) PROVE validate_sources(w)
  <2>1. \A d \in DOMAIN w.derived : Unknown \notin dependencies(w, d)
    BY <1>4, OrderedAreResolved DEF InOrder
  <2>2. PICK rank \in [S -> 1..Cardinality(S)] :
              \A s \in S : \A v \in References(w, s) : \E p \in S : Produces(w, p, v) /\ rank[p] < rank[s]
    BY <1>4 DEF InOrder
  <2>3. \A s \in S : \A v \in References(w, s) : HasProducer(w, v)
    BY <2>2, OneProducer
  <2>4. \A v \in Watched(w) : HasProducer(w, v)
    BY <1>4, OneProducer DEF InOrder
  <2>5. ASSUME NEW s \in S, NEW e \in G[s] PROVE rank[e] < rank[s]
    <3>1. PICK v \in References(w, s) : e \in Producers(w, w.bound[v])
      BY <1>2, <2>5
    <3>2. PICK p \in S : Produces(w, p, v) /\ rank[p] < rank[s]
      BY <2>2
    <3>3. Producers(w, w.bound[v]) = {p}
      BY <3>2, OneProducer
    <3>4. e = p
      BY <3>1, <3>3
    <3> QED BY <3>2, <3>4
  <2>6. Orders(rank, S, G)
    BY <2>5 DEF Orders
  <2>7. Unknown \notin visit_sources(G)
    <3> HIDE DEF G
    <3> QED BY <1>1, <2>6, OrderedIsVisited
  <2> QED BY <2>1, <2>3, <2>4, <2>7 DEF validate_sources
<1> QED BY <1>3, <1>4

(* SourcesStartInOrder for every wiring.                                     *)
THEOREM SourcesAreInOrder == PlanSpec => []SourcesStartInOrder
<1> DEFINE J == wiring # Bad => /\ wiring \in Wirings
                                /\ phase = IF validate_sources(wiring) THEN "wired" ELSE "refused"
<1>1. PlanInit => J
  BY DEF PlanInit
<1>2. J /\ [PlanNext]_planVars => J'
  <2> SUFFICES ASSUME J, [PlanNext]_planVars PROVE J'
    OBVIOUS
  <2>1. CASE CheckSources
    BY <2>1 DEF CheckSources
  <2>2. CASE Load
    BY <2>2 DEF Load
  <2>3. CASE UNCHANGED planVars
    BY <2>3 DEF planVars
  <2>4. CASE PlanNext /\ ~CheckSources /\ ~Load
    <3>1. wiring' = wiring /\ phase \notin {"wired", "refused"}
      BY <2>4 DEF PlanNext, StartPolicy, RefusePolicy, Ask, Type, execute_group, execute_entity,
           ExecuteUnknown, Abort, SendFrame, Executed, Again
    <3>2. wiring = Bad
      BY <3>1
    <3> QED BY <3>1, <3>2
  <2> QED BY <2>1, <2>2, <2>3, <2>4
<1>3. J => SourcesStartInOrder
  <2> SUFFICES ASSUME J, wiring # Bad PROVE SourcesStartInOrder
    BY DEF SourcesStartInOrder
  <2>1. WiringForm(wiring)
    BY PlanAssumption
  <2>2. phase = "wired" <=> InOrder(wiring)
    BY <2>1, AcceptedInOrder
  <2> QED BY <2>2 DEF SourcesStartInOrder, InOrder, Derives, Produces
<1> QED BY <1>1, <1>2, <1>3, PTL DEF PlanSpec
=============================================================================
