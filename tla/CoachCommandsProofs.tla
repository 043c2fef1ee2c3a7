------------------------ MODULE CoachCommandsProofs ------------------------
(***************************************************************************)
(* Proofs about CoachCommands for every set of requests, every plan and    *)
(* every bound.  The argument: the journal row of an admitted request      *)
(* stays until the request has expired beyond any correction of the clock, *)
(* so `receive` admits it at most once; while it executes, its row, its    *)
(* slot and its progress agree with what was written; and once it can no   *)
(* longer write, what the row and the published results say stays true.    *)
(***************************************************************************)
EXTENDS CoachCommands, TLAPS

(* The network thread handles a message whenever it is inside receive. *)
RxTyped == rpc # "idle" => rmsg \in Message

(* The clock is never further back than the correction allows. *)
ClockInv == clock <= latest /\ latest <= clock + MaxSetback

(* What receive knows at each of its places. *)
RxInv ==
  /\ HoldsAdmission => service = "open"
  /\ rpc \in {"admit", "prepare", "reserve"} => ~ Known(rmsg)
  /\ rpc \in {"prepare", "reserve"} => rmsg \notin admitted
  /\ rpc = "start" => /\ rmsg \in admitted
                      /\ Recorded(rmsg)
                      /\ journal[IdOf[rmsg]].res = accepted
                      /\ WroteFirst(rmsg, 0)

(* A result told to a controller, or about to be, stays true: its request *)
(* was admitted and cannot write any more.                                *)
Settled(m, res) ==
  Terminal(res) => m \in admitted /\ ~ MayWrite(m) /\ Honest(m, res)

ReplayInv == rpc = "replay" => Settled(rmsg, rfound)

PublishedInv == \A p \in published : Settled(p.msg, p.res)

(* Rows of the journal. *)
RowOk(row) ==
  /\ row.msg \in admitted
  /\ row.res.status = "accepted" => row.res = accepted
  /\ row.res = accepted =>
       \/ row.intent /\ row.msg \notin Queries
       \/ WroteFirst(row.msg, 0)
  /\ Settled(row.msg, row.res)

RowInv ==
  \A i \in DOMAIN journal : IdOf[journal[i].msg] = i /\ RowOk(journal[i])

(* A worker: its request, its row and its progress agree. *)
Unstarted == {"announce", "check", "intent", "recheck", "query", "observe"}
Working   == Unstarted \cup {"gate", "dispatch"}

WorkerOk(m) ==
  /\ wpc[m] # "none" => /\ m \in admitted
                        /\ Recorded(m)
                        /\ service \in {"open", "closing"}
  /\ wpc[m] \in Working \cup {"settle"} => journal[IdOf[m]].res = accepted
  /\ wpc[m] \in Working => WroteFirst(m, wdone[m])
  /\ wpc[m] \in Unstarted \cup {"none"} => wdone[m] = 0
  /\ wpc[m] \in {"query", "observe"} => m \in Queries
  /\ wpc[m] \in {"gate", "intent", "recheck", "dispatch"} =>
       /\ m \notin Queries
       /\ wdone[m] < Steps[m]
  /\ wpc[m] \in {"check", "gate", "intent", "recheck", "dispatch"} =>
       [msg |-> m, res |-> accepted] \in published
  /\ wpc[m] \in {"recheck", "dispatch"} => journal[IdOf[m]].intent
  /\ wpc[m] \in {"settle", "publish"} => Terminal(wres[m]) /\ Honest(m, wres[m])

WorkerInv == \A m \in Message : WorkerOk(m)

(* Admission: unadmitted requests wrote nothing, and the row of an admitted *)
(* one is cleaned up only after its retention.                              *)
AdmittedInv ==
  /\ \A m \in Message \ admitted : WroteFirst(m, 0)
  /\ \A m \in admitted : Recorded(m) \/ Expires[m] + Retention < latest

IInv ==
  /\ TypeOK
  /\ RxTyped
  /\ ClockInv
  /\ SlotOwned
  /\ RxInv
  /\ ReplayInv
  /\ PublishedInv
  /\ RowInv
  /\ WorkerInv
  /\ AdmittedInv
  /\ AtMostOnce
  /\ AnnouncedBeforeWrite
-----------------------------------------------------------------------------
(* Type correctness. *)

TypeInv == TypeOK /\ RxTyped

LEMMA ResultTyped ==
  /\ accepted \in Result
  /\ refused \in Result
  /\ \A s \in Statuses, o \in Outcomes, n \in Nat : result(s, o, n) \in Result
BY DEF accepted, refused, result, Result, Statuses, Outcomes

LEMMA JournalTyped ==
  ASSUME TypeOK, NEW m \in Message
  PROVE  /\ reserve(m) => journal' \in [DOMAIN journal' -> Row] /\ DOMAIN journal' \subseteq Ident
         /\ \A res \in Result, intent \in BOOLEAN :
              save(m, res, intent) =>
                journal' \in [DOMAIN journal' -> Row] /\ DOMAIN journal' \subseteq Ident
<1>1. ASSUME reserve(m)
      PROVE  journal' \in [DOMAIN journal' -> Row] /\ DOMAIN journal' \subseteq Ident
  BY <1>1, ResultTyped, MessageAssumption DEF reserve, TypeOK, Retained, Row
<1>2. ASSUME NEW res \in Result, NEW intent \in BOOLEAN, save(m, res, intent)
      PROVE  journal' \in [DOMAIN journal' -> Row] /\ DOMAIN journal' \subseteq Ident
  BY <1>2 DEF save, TypeOK, Row
<1> QED BY <1>1, <1>2

LEMMA WorkerTyped ==
  ASSUME TypeOK, NEW m \in Message
  PROVE  /\ \A place \in ExecutePlaces : Goto(m, place) => wpc' \in [Message -> ExecutePlaces]
         /\ \A status \in Statuses, outcome \in Outcomes :
              Conclude(m, status, outcome) =>
                wpc' \in [Message -> ExecutePlaces] /\ wres' \in [Message -> Result]
         /\ Refuse(m) => wpc' \in [Message -> ExecutePlaces] /\ wres' \in [Message -> Result]
<1>1. \A place \in ExecutePlaces : Goto(m, place) => wpc' \in [Message -> ExecutePlaces]
  BY DEF Goto, TypeOK
<1>2. ASSUME NEW status \in Statuses, NEW outcome \in Outcomes, Conclude(m, status, outcome)
      PROVE  wpc' \in [Message -> ExecutePlaces] /\ wres' \in [Message -> Result]
  <2>1. result(status, outcome, wdone[m]) \in Result
    BY ResultTyped DEF TypeOK
  <2> QED BY <1>2, <2>1 DEF Conclude, TypeOK, ExecutePlaces
<1>3. Refuse(m) => wpc' \in [Message -> ExecutePlaces] /\ wres' \in [Message -> Result]
  <2>1. /\ (IF wdone[m] > 0 THEN "failed" ELSE "rejected") \in Statuses
        /\ (IF wdone[m] > 0 THEN "partial" ELSE "not_started") \in Outcomes
    BY DEF Statuses, Outcomes
  <2> QED BY <2>1, <1>2 DEF Refuse
<1> QED BY <1>1, <1>2, <1>3

LEMMA EnterTyped ==
  ASSUME TypeOK, NEW m \in Message
  PROVE  \A step \in Nat : Enter(m, step) =>
           /\ writes' = [n \in Message |-> writes'[n]]
           /\ \A n \in Message : writes'[n] \in [1 .. Steps[n] -> Nat]
<1> SUFFICES ASSUME NEW step \in Nat, Enter(m, step)
             PROVE  /\ writes' = [n \in Message |-> writes'[n]]
                    /\ \A n \in Message : writes'[n] \in [1 .. Steps[n] -> Nat]
  OBVIOUS
<1> DEFINE counts == [i \in 1 .. Steps[m] |-> IF i = step THEN writes[m][i] + 1 ELSE writes[m][i]]
<1>1. counts \in [1 .. Steps[m] -> Nat]
  <2>1. \A i \in 1 .. Steps[m] : writes[m][i] \in Nat
    BY DEF TypeOK
  <2> QED BY <2>1 DEF counts
<1>2. writes' = [n \in Message |-> IF n = m THEN counts ELSE writes[n]]
  BY DEF Enter, TypeOK, counts
<1>3. ASSUME NEW n \in Message PROVE writes'[n] \in [1 .. Steps[n] -> Nat]
  BY <1>1, <1>2 DEF TypeOK
<1> QED BY <1>2, <1>3

LEMMA TypeInit == Init => TypeInv
<1> SUFFICES ASSUME Init PROVE TypeInv
  OBVIOUS
<1>1. journal \in [DOMAIN journal -> Row] /\ DOMAIN journal \subseteq Ident
  BY DEF Init
<1>2. \A m \in Message : writes[m] \in [1 .. Steps[m] -> Nat]
  BY DEF Init
<1>3. /\ clock \in 0 .. MaxClock /\ latest \in 0 .. MaxClock
      /\ writes = [m \in Message |-> writes[m]]
  BY BoundAssumption DEF Init
<1> QED
  BY <1>1, <1>2, <1>3, ResultTyped DEF Init, TypeInv, TypeOK, RxTyped, ReceivePlaces, ExecutePlaces

LEMMA TypeStep == TypeInv /\ [Next]_vars => TypeInv'
<1> SUFFICES ASSUME TypeInv, [Next]_vars PROVE TypeInv'
  OBVIOUS
<1> USE ResultTyped DEF TypeInv, RxTyped, clockVars, rxVars, workerVars
<1>1. ASSUME NEW m \in Message, Receive(m) PROVE TypeInv'
  BY <1>1 DEF Receive, TypeOK, ReceivePlaces
<1>2. CASE NetworkThread
  <2>1. CASE Lookup
    BY <2>1 DEF Lookup, TypeOK, ReceivePlaces, Recorded, Known, Row
  <2>2. CASE Replay
    BY <2>2 DEF Replay, Return, TypeOK, ReceivePlaces
  <2>3. CASE Admit
    BY <2>3 DEF Admit, TypeOK, ReceivePlaces
  <2>4. CASE Prepare
    BY <2>4 DEF Prepare, TypeOK, ReceivePlaces
  <2>5. CASE Reserve
    BY <2>5, JournalTyped DEF Reserve, TypeOK, ReceivePlaces
  <2>6. CASE StartWorker
    BY <2>6, JournalTyped DEF StartWorker, Return, TypeOK, ReceivePlaces, ExecutePlaces
  <2>7. CASE Reject
    BY <2>7 DEF Reject, Return, TypeOK, ReceivePlaces
  <2> QED BY <1>2, <2>1, <2>2, <2>3, <2>4, <2>5, <2>6, <2>7 DEF NetworkThread
<1>3. ASSUME NEW m \in Message, Execute(m) PROVE TypeInv'
  <2> USE WorkerTyped DEF Statuses, Outcomes, ExecutePlaces
  <2>1. CASE Announce(m)
    <3>1. wpc' \in [Message -> ExecutePlaces] /\ wres' \in [Message -> Result]
      BY <2>1 DEF Announce, TypeOK
    <3> QED BY <2>1, <3>1 DEF Announce, TypeOK
  <2>2. CASE CheckExpiry(m)
    <3>1. wpc' \in [Message -> ExecutePlaces] /\ wres' \in [Message -> Result]
      BY <2>2 DEF CheckExpiry, TypeOK
    <3> QED BY <2>2, <3>1 DEF CheckExpiry, TypeOK
  <2>3. CASE Gate(m)
    <3>1. wpc' \in [Message -> ExecutePlaces] /\ wres' \in [Message -> Result]
      BY <2>3 DEF Gate, TypeOK
    <3> QED BY <2>3, <3>1 DEF Gate, TypeOK
  <2>4. CASE RecordIntent(m)
    <3>1. wpc' \in [Message -> ExecutePlaces] /\ wres' \in [Message -> Result]
      BY <2>4 DEF RecordIntent, TypeOK
    <3> QED BY <2>4, <3>1, JournalTyped DEF RecordIntent, TypeOK
  <2>5. CASE Recheck(m)
    <3>1. wpc' \in [Message -> ExecutePlaces] /\ wres' \in [Message -> Result]
      BY <2>5 DEF Recheck, TypeOK
    <3> QED BY <2>5, <3>1 DEF Recheck, TypeOK
  <2>6. CASE Dispatch(m)
    <3>1. wpc' \in [Message -> ExecutePlaces] /\ wres' \in [Message -> Result]
      <4>1. wdone[m] + 1 \in Nat BY DEF TypeOK
      <4>2. result("completed", "dispatched", wdone[m] + 1) \in Result
        BY <4>1, ResultTyped
      <4> QED BY <2>6, <4>2 DEF Dispatch, TypeOK, Goto
    <3>2. /\ wdone' \in [Message -> Nat]
          /\ writes' = [n \in Message |-> writes'[n]]
          /\ \A n \in Message : writes'[n] \in [1 .. Steps[n] -> Nat]
      <4>2. wdone' \in [Message -> Nat]
        BY <2>6 DEF Dispatch, TypeOK
      <4>3. wdone[m] + 1 \in Nat
        BY DEF TypeOK
      <4> QED BY <2>6, <4>2, <4>3, EnterTyped DEF Dispatch, TypeOK
    <3> QED BY <2>6, <3>1, <3>2 DEF Dispatch, TypeOK
  <2>7. CASE RunQuery(m)
    <3>1. wpc' \in [Message -> ExecutePlaces] /\ wres' \in [Message -> Result]
      BY <2>7 DEF RunQuery, TypeOK
    <3> QED BY <2>7, <3>1, JournalTyped DEF RunQuery, TypeOK
  <2>8. CASE Observe(m)
    BY <2>8 DEF Observe, Goto, Conclude, TypeOK, ExecutePlaces, Statuses, Outcomes
  <2>9. CASE Settle(m)
    BY <2>9, JournalTyped DEF Settle, Goto, TypeOK, ExecutePlaces
  <2>10. CASE PublishResult(m)
    <3>1. published' \subseteq [msg : Message, res : Result]
      BY <2>10 DEF PublishResult, TypeOK
    <3> QED BY <2>10, <3>1 DEF PublishResult, TypeOK
  <2>11. CASE Release(m)
    BY <2>11 DEF Release, Goto, TypeOK, ExecutePlaces
  <2> QED
    BY <1>3, <2>1, <2>2, <2>3, <2>4, <2>5, <2>6, <2>7, <2>8, <2>9, <2>10, <2>11 DEF Execute
<1>4. CASE BeginClose \/ Shutdown
  BY <1>4 DEF BeginClose, Shutdown, JoinWorker, StopLoop, LoopStopped, TypeOK
<1>5. CASE Crash
  BY <1>5 DEF Crash, Return, TypeOK, ReceivePlaces, ExecutePlaces
<1>6. CASE Recover
  <2>1. ASSUME NEW row \in Row PROVE interrupted(row) \in Row
    <3>1. row.res.done \in Nat
      BY DEF Row, Result
    <3>2. (IF row.intent /\ row.msg \notin Queries THEN "unknown" ELSE "not_started") \in Outcomes
      BY DEF Outcomes
    <3> QED BY <3>1, <3>2, ResultTyped DEF interrupted, Row, Statuses
  <2>2. journal' \in [DOMAIN journal' -> Row] /\ DOMAIN journal' \subseteq Ident
    BY <1>6, <2>1 DEF Recover, Retained, TypeOK
  <2> QED BY <1>6, <2>2 DEF Recover, TypeOK
<1>7. CASE Tick \/ SetBack
  BY <1>7, BoundAssumption DEF Tick, SetBack, TypeOK
<1>8. CASE UNCHANGED vars
  BY <1>8 DEF vars, TypeOK
<1> QED BY <1>1, <1>2, <1>3, <1>4, <1>5, <1>6, <1>7, <1>8 DEF Next

(* Every variable keeps its type in every reachable state. *)
THEOREM TypeCorrect == Spec => []TypeOK
<1>1. TypeInv => TypeOK BY DEF TypeInv
<1> QED BY <1>1, TypeInit, TypeStep, PTL DEF Spec
-----------------------------------------------------------------------------
(* What a step of a worker leaves alone. *)

LEMMA JournalFrame ==
  ASSUME TypeOK, NEW m \in Message, NEW res, NEW intent, save(m, res, intent)
  PROVE  /\ DOMAIN journal' = DOMAIN journal
         /\ \A i \in DOMAIN journal :
              /\ journal'[i].msg = journal[i].msg
              /\ i # IdOf[m] => journal'[i] = journal[i]
         /\ Known(m) => journal'[IdOf[m]].res = res
BY DEF save, TypeOK, Row, Known

LEMMA WorkerFrame ==
  ASSUME TypeOK, NEW m \in Message, Execute(m)
  PROVE  /\ UNCHANGED <<clock, latest, service, rpc, rmsg, rfound, admitted>>
         /\ wpc[m] # "none"
         /\ \A n \in Message \ {m} : /\ wpc'[n] = wpc[n]
                                     /\ wdone'[n] = wdone[n]
                                     /\ wres'[n] = wres[n]
                                     /\ writes'[n] = writes[n]
         /\ DOMAIN journal' = DOMAIN journal
         /\ \A i \in DOMAIN journal : /\ journal'[i].msg = journal[i].msg
                                      /\ i # IdOf[m] => journal'[i] = journal[i]
         /\ published \subseteq published'
<1> USE DEF Goto, Conclude, Refuse, clockVars, rxVars, workerVars
<1>1. CASE Announce(m)
  BY <1>1 DEF Announce, TypeOK
<1>2. CASE CheckExpiry(m)
  BY <1>2 DEF CheckExpiry, TypeOK
<1>3. CASE Gate(m)
  BY <1>3 DEF Gate, TypeOK
<1>4. CASE RecordIntent(m)
  <2>1. save(m, accepted, TRUE) =>
          /\ DOMAIN journal' = DOMAIN journal
          /\ \A i \in DOMAIN journal : /\ journal'[i].msg = journal[i].msg
                                       /\ i # IdOf[m] => journal'[i] = journal[i]
    BY JournalFrame
  <2> QED BY <1>4, <2>1 DEF RecordIntent, TypeOK
<1>5. CASE Recheck(m)
  BY <1>5 DEF Recheck, TypeOK
<1>6. CASE Dispatch(m)
  BY <1>6 DEF Dispatch, Enter, TypeOK
<1>7. CASE RunQuery(m)
  <2>1. save(m, accepted, TRUE) =>
          /\ DOMAIN journal' = DOMAIN journal
          /\ \A i \in DOMAIN journal : /\ journal'[i].msg = journal[i].msg
                                       /\ i # IdOf[m] => journal'[i] = journal[i]
    BY JournalFrame
  <2> QED BY <1>7, <2>1 DEF RunQuery, TypeOK
<1>8. CASE Observe(m)
  BY <1>8 DEF Observe, TypeOK
<1>9. CASE Settle(m)
  <2>1. save(m, wres[m], FALSE) =>
          /\ DOMAIN journal' = DOMAIN journal
          /\ \A i \in DOMAIN journal : /\ journal'[i].msg = journal[i].msg
                                       /\ i # IdOf[m] => journal'[i] = journal[i]
    BY JournalFrame
  <2> QED BY <1>9, <2>1 DEF Settle, TypeOK
<1>10. CASE PublishResult(m)
  BY <1>10 DEF PublishResult, TypeOK
<1>11. CASE Release(m)
  BY <1>11 DEF Release, TypeOK
<1> QED BY <1>1, <1>2, <1>3, <1>4, <1>5, <1>6, <1>7, <1>8, <1>9, <1>10, <1>11 DEF Execute

(* The clock. *)
LEMMA ClockStep == TypeOK /\ ClockInv /\ [Next]_vars => ClockInv'
<1> SUFFICES ASSUME TypeOK, ClockInv, [Next]_vars PROVE ClockInv'
  OBVIOUS
<1>1. CASE Tick
  BY <1>1, BoundAssumption DEF Tick, ClockInv, TypeOK
<1>2. CASE SetBack
  BY <1>2, BoundAssumption DEF SetBack, ClockInv, TypeOK
<1>3. CASE NetworkThread
  BY <1>3 DEF NetworkThread, Lookup, Replay, Admit, Prepare, Reserve, StartWorker, Reject,
              ClockInv, clockVars
<1>4. ASSUME NEW m \in Message, Receive(m) \/ Execute(m) PROVE ClockInv'
  BY <1>4, WorkerFrame DEF Receive, ClockInv, clockVars
<1>5. CASE BeginClose \/ Shutdown \/ Crash \/ Recover \/ UNCHANGED vars
  BY <1>5 DEF BeginClose, Shutdown, JoinWorker, StopLoop, LoopStopped, Crash, Recover,
              ClockInv, clockVars, vars
<1> QED BY <1>1, <1>2, <1>3, <1>4, <1>5 DEF Next

(* The execution slot. *)
LEMMA SlotStep == TypeInv /\ SlotOwned /\ [Next]_vars => SlotOwned'
<1> SUFFICES ASSUME TypeOK, RxTyped, SlotOwned, [Next]_vars PROVE SlotOwned'
  BY DEF TypeInv
<1> USE DEF SlotOwned, clockVars, rxVars, workerVars, Return
<1>1. ASSUME NEW m \in Message, Receive(m) PROVE SlotOwned'
  BY <1>1 DEF Receive
<1>2. CASE NetworkThread
  <2>1. CASE Lookup
    BY <2>1 DEF Lookup
  <2>2. CASE Replay
    BY <2>2 DEF Replay
  <2>3. CASE Admit
    BY <2>3 DEF Admit
  <2>4. CASE Prepare
    BY <2>4 DEF Prepare
  <2>5. CASE Reserve
    BY <2>5 DEF Reserve
  <2>6. CASE StartWorker
    BY <2>6 DEF StartWorker, TypeOK, RxTyped
  <2>7. CASE Reject
    BY <2>7 DEF Reject
  <2> QED BY <1>2, <2>1, <2>2, <2>3, <2>4, <2>5, <2>6, <2>7 DEF NetworkThread
<1>3. ASSUME NEW m \in Message, Execute(m) PROVE SlotOwned'
  <2>1. CASE Release(m)
    BY <2>1, WorkerFrame, <1>3 DEF Release, Goto, TypeOK
  <2>2. CASE ~ Release(m)
    <3>1. wpc'[m] # "none" /\ busy' = busy
      BY <2>2, <1>3 DEF Execute, Announce, CheckExpiry, Gate, RecordIntent, Recheck, Dispatch,
           RunQuery, Observe, Settle, PublishResult, Refuse, Conclude, Goto, TypeOK
    <3> QED BY <3>1, WorkerFrame, <1>3
  <2> QED BY <2>1, <2>2
<1>4. CASE BeginClose \/ Shutdown \/ Recover \/ Tick \/ SetBack \/ UNCHANGED vars
  BY <1>4 DEF BeginClose, Shutdown, JoinWorker, StopLoop, LoopStopped, Recover, Tick, SetBack, vars
<1>5. CASE Crash
  BY <1>5 DEF Crash
<1> QED BY <1>1, <1>2, <1>3, <1>4, <1>5 DEF Next

(* The execution slot is claimed exactly while one request owns it. *)
THEOREM SlotIsOwned == Spec => []SlotOwned
<1>1. Init => SlotOwned
  BY DEF Init, SlotOwned
<1> QED BY <1>1, TypeInit, TypeStep, SlotStep, PTL DEF Spec
-----------------------------------------------------------------------------
(* A request that was admitted and cannot write any more stays so. *)

Finished(m) == m \in admitted /\ ~ MayWrite(m)

LEMMA FinishedStable ==
  ASSUME TypeOK, RxTyped, RxInv, [Next]_vars, NEW m \in Message, Finished(m)
  PROVE  Finished(m)' /\ writes'[m] = writes[m]
<1> USE DEF Finished, MayWrite, clockVars, rxVars, workerVars, Return
<1>1. ASSUME NEW n \in Message, Receive(n) PROVE Finished(m)' /\ writes'[m] = writes[m]
  BY <1>1 DEF Receive
<1>2. CASE NetworkThread
  <2>1. CASE Lookup \/ Replay \/ Admit \/ Prepare \/ Reject
    BY <2>1 DEF Lookup, Replay, Admit, Prepare, Reject
  <2>2. CASE Reserve
    BY <2>2 DEF Reserve, RxInv
  <2>3. CASE StartWorker
    BY <2>3 DEF StartWorker, TypeOK, RxTyped
  <2> QED BY <1>2, <2>1, <2>2, <2>3 DEF NetworkThread
<1>3. ASSUME NEW n \in Message, Execute(n) PROVE Finished(m)' /\ writes'[m] = writes[m]
  <2>1. CASE n # m
    BY <2>1, <1>3, WorkerFrame
  <2>2. CASE n = m
    <3>1. ~ MayWrite(m)' /\ writes' = writes
      BY <2>2, <1>3 DEF Execute, Announce, CheckExpiry, Gate, RecordIntent, Recheck, Dispatch,
         RunQuery, Observe, Settle, PublishResult, Release, Conclude, Goto, TypeOK
    <3> QED BY <3>1, <1>3, WorkerFrame
  <2> QED BY <2>1, <2>2
<1>4. CASE BeginClose \/ Shutdown \/ Recover \/ Tick \/ SetBack \/ UNCHANGED vars
  BY <1>4 DEF BeginClose, Shutdown, JoinWorker, StopLoop, LoopStopped, Recover, Tick, SetBack, vars
<1>5. CASE Crash
  BY <1>5 DEF Crash
<1> QED BY <1>1, <1>2, <1>3, <1>4, <1>5 DEF Next

LEMMA SettledStable ==
  ASSUME TypeOK, RxTyped, RxInv, [Next]_vars, NEW m \in Message, NEW res \in Result, Settled(m, res)
  PROVE  Settled(m, res)'
<1>1. CASE ~ Terminal(res)
  BY <1>1 DEF Settled, Terminal
<1>2. CASE Terminal(res)
  <2>1. Finished(m) /\ Honest(m, res)
    BY <1>2 DEF Settled, Finished
  <2>2. Finished(m)' /\ writes'[m] = writes[m]
    BY <2>1, FinishedStable
  <2>3. Honest(m, res)'
    BY <2>1, <2>2 DEF Honest, WroteFirst
  <2> QED BY <2>2, <2>3 DEF Settled, Finished
<1> QED BY <1>1, <1>2
-----------------------------------------------------------------------------
(* What is written. *)

LEMMA EnterWrites ==
  ASSUME TypeOK, NEW m \in Message, NEW k \in Nat, k < Steps[m], WroteFirst(m, k), Enter(m, k + 1)
  PROVE  WroteFirst(m, k + 1)'
<1>1. writes'[m] = [i \in 1 .. Steps[m] |-> IF i = k + 1 THEN writes[m][i] + 1 ELSE writes[m][i]]
  BY DEF Enter, TypeOK
<1>2. ASSUME NEW i \in 1 .. Steps[m] PROVE writes'[m][i] = IF i <= k + 1 THEN 1 ELSE 0
  <2>1. writes[m][i] = IF i <= k THEN 1 ELSE 0
    BY DEF WroteFirst
  <2>2. i \in Int
    BY MessageAssumption
  <2> QED BY <1>1, <2>1, <2>2
<1> QED BY <1>2 DEF WroteFirst

LEMMA WritesStep ==
  ASSUME TypeOK, WorkerInv, [Next]_vars
  PROVE  \/ writes' = writes
         \/ \E m \in Message : \E k \in 1 .. Steps[m] :
              /\ Dispatch(m)
              /\ k = wdone[m] + 1
              /\ WroteFirst(m, k)'
              /\ \A n \in Message \ {m} : writes'[n] = writes[n]
<1> USE DEF clockVars, rxVars, workerVars
<1>1. ASSUME NEW m \in Message, Dispatch(m), writes' # writes
      PROVE  \E k \in 1 .. Steps[m] : /\ k = wdone[m] + 1
                                      /\ WroteFirst(m, k)'
                                      /\ \A n \in Message \ {m} : writes'[n] = writes[n]
  <2>1. PICK k \in Nat : k = wdone[m]
    BY DEF TypeOK
  <2>2. Enter(m, k + 1)
    BY <1>1, <2>1 DEF Dispatch
  <2>3. k < Steps[m] /\ WroteFirst(m, k)
    BY <1>1, <2>1 DEF Dispatch, WorkerInv, WorkerOk, Working
  <2>4. WroteFirst(m, k + 1)'
    BY <2>2, <2>3, EnterWrites
  <2>5. \A n \in Message \ {m} : writes'[n] = writes[n]
    BY <2>2 DEF Enter, TypeOK
  <2>6. k + 1 \in 1 .. Steps[m]
    BY <2>3, MessageAssumption
  <2> QED BY <2>1, <2>4, <2>5, <2>6
<1>2. ASSUME NEW m \in Message, Execute(m), ~ Dispatch(m) PROVE writes' = writes
  BY <1>2 DEF Execute, Announce, CheckExpiry, Gate, RecordIntent, Recheck, RunQuery, Observe,
              Settle, PublishResult, Release
<1>3. ASSUME ~ \E m \in Message : Execute(m) PROVE writes' = writes
  BY <1>3 DEF Next, Receive, NetworkThread, Lookup, Replay, Admit, Prepare, Reserve, StartWorker,
     Reject, BeginClose, Shutdown, JoinWorker, StopLoop, LoopStopped, Crash, Recover, Tick, SetBack, vars
<1> QED BY <1>1, <1>2, <1>3

LEMMA AtMostOnceStep ==
  ASSUME TypeOK, WorkerInv, AtMostOnce, [Next]_vars
  PROVE  AtMostOnce'
<1>1. CASE writes' = writes
  BY <1>1 DEF AtMostOnce, WroteFirst
<1>2. ASSUME NEW m \in Message, NEW k \in 1 .. Steps[m], WroteFirst(m, k)',
             \A n \in Message \ {m} : writes'[n] = writes[n]
      PROVE  AtMostOnce'
  <2>1. k \in 0 .. Steps[m]
    BY MessageAssumption
  <2>2. ASSUME NEW n \in Message \ {m} PROVE \E j \in 0 .. Steps[n] : WroteFirst(n, j)'
    BY <1>2 DEF AtMostOnce, WroteFirst
  <2> QED BY <1>2, <2>1, <2>2 DEF AtMostOnce
<1> QED BY <1>1, <1>2, WritesStep

LEMMA AnnouncedStep ==
  ASSUME TypeOK, WorkerInv, AnnouncedBeforeWrite, [Next]_vars, published \subseteq published'
  PROVE  AnnouncedBeforeWrite'
<1>1. CASE writes' = writes
  BY <1>1 DEF AnnouncedBeforeWrite, WroteFirst
<1>2. ASSUME NEW m \in Message, Dispatch(m), \A n \in Message \ {m} : writes'[n] = writes[n]
      PROVE  AnnouncedBeforeWrite'
  <2>1. [msg |-> m, res |-> accepted] \in published
    BY <1>2 DEF Dispatch, WorkerInv, WorkerOk
  <2>2. ASSUME NEW n \in Message \ {m}, ~ WroteFirst(n, 0)'
        PROVE  [msg |-> n, res |-> accepted] \in published
    BY <1>2, <2>2 DEF AnnouncedBeforeWrite, WroteFirst
  <2> QED BY <2>1, <2>2 DEF AnnouncedBeforeWrite, accepted, result
<1> QED BY <1>1, <1>2, WritesStep
-----------------------------------------------------------------------------
(* What receive knows. *)

LEMMA NotAdmittedAgain ==
  ASSUME TypeOK, RxTyped, ClockInv, AdmittedInv, MaxSetback <= Retention,
         rpc # "idle", ~ Known(rmsg), ~ Expired(rmsg)
  PROVE  rmsg \notin admitted
<1>1. rmsg \in Message /\ Expires[rmsg] \in Int
  BY MessageAssumption DEF RxTyped
<1>2. clock \in Int /\ latest \in Int /\ clock < Expires[rmsg]
  BY <1>1, BoundAssumption DEF Expired, TypeOK
<1>3. ~ (Expires[rmsg] + Retention < latest)
  BY <1>1, <1>2, BoundAssumption DEF ClockInv
<1> QED BY <1>3 DEF AdmittedInv, Recorded

LEMMA RxStep ==
  ASSUME IInv, MaxSetback <= Retention, [Next]_vars
  PROVE  RxInv'
<1> USE DEF clockVars, rxVars, workerVars, Return, HoldsAdmission, Known
<1>1. TypeOK /\ RxTyped /\ ClockInv /\ SlotOwned /\ RxInv /\ AdmittedInv
  BY DEF IInv
<1>2. ASSUME NEW m \in Message, Receive(m) PROVE RxInv'
  BY <1>2 DEF Receive, RxInv
<1>3. CASE Lookup
  BY <1>3 DEF Lookup, RxInv
<1>4. CASE Replay
  BY <1>1, <1>4 DEF Replay, RxInv
<1>5. CASE Admit
  <2>1. rpc' = "prepare" => rmsg \notin admitted
    BY <1>1, <1>5, NotAdmittedAgain DEF Admit, RxInv
  <2> QED BY <1>1, <1>5, <2>1 DEF Admit, RxInv
<1>6. CASE Prepare
  BY <1>1, <1>6 DEF Prepare, RxInv
<1>7. CASE Reserve
  <2>1. CASE rpc' = "reject"
    BY <2>1 DEF RxInv
  <2>2. CASE rpc' = "start" /\ reserve(rmsg) /\ admitted' = admitted \cup {rmsg}
    <3>1. rmsg \in Message /\ rmsg \notin admitted
      BY <1>1, <1>7 DEF Reserve, RxInv, RxTyped
    <3>2. WroteFirst(rmsg, 0)' /\ service' = "open" /\ rmsg' = rmsg
      BY <1>1, <1>7, <3>1 DEF Reserve, RxInv, AdmittedInv, WroteFirst
    <3>3. Recorded(rmsg)' /\ journal'[IdOf[rmsg]].res = accepted
      BY <2>2, <3>2 DEF reserve, Recorded
    <3> QED BY <2>2, <3>2, <3>3 DEF RxInv, accepted, result
  <2> QED BY <1>7, <2>1, <2>2 DEF Reserve
<1>8. CASE StartWorker \/ Reject
  BY <1>8 DEF StartWorker, Reject, RxInv
<1>9. ASSUME NEW m \in Message, Execute(m) PROVE RxInv'
  <2>1. rpc # "start" /\ rpc # "prepare" /\ rpc # "reserve"
    BY <1>1, <1>9, WorkerFrame DEF SlotOwned
  <2> QED BY <1>1, <1>9, <2>1, WorkerFrame DEF RxInv
<1>10. CASE BeginClose \/ Shutdown
  BY <1>1, <1>10 DEF BeginClose, Shutdown, JoinWorker, StopLoop, LoopStopped, RxInv
<1>11. CASE Crash
  BY <1>11 DEF Crash, RxInv
<1>12. CASE Recover
  BY <1>1, <1>12 DEF Recover, RxInv
<1>13. CASE Tick \/ SetBack \/ UNCHANGED vars
  BY <1>1, <1>13 DEF Tick, SetBack, vars, RxInv, Recorded, WroteFirst
<1> QED BY <1>2, <1>3, <1>4, <1>5, <1>6, <1>7, <1>8, <1>9, <1>10, <1>11, <1>12, <1>13
        DEF Next, NetworkThread

(* History only grows. *)
LEMMA HistoryStep ==
  ASSUME TypeOK, [Next]_vars
  PROVE  /\ latest' >= latest
         /\ admitted' = admitted \/ (Reserve /\ admitted' = admitted \cup {rmsg})
<1> USE DEF clockVars, rxVars, workerVars
<1>1. latest \in Int
  BY BoundAssumption DEF TypeOK
<1>2. ASSUME NEW m \in Message, Execute(m) PROVE latest' = latest /\ admitted' = admitted
  BY <1>2, WorkerFrame
<1>3. CASE Tick
  BY <1>1, <1>3, BoundAssumption DEF Tick, TypeOK
<1>4. CASE Reserve
  BY <1>1, <1>4 DEF Reserve
<1>5. ASSUME ~ Tick, ~ Reserve, ~ \E m \in Message : Execute(m)
      PROVE  latest' = latest /\ admitted' = admitted
  BY <1>5 DEF Next, Receive, NetworkThread, Lookup, Replay, Admit, Prepare, StartWorker, Reject,
     BeginClose, Shutdown, JoinWorker, StopLoop, LoopStopped, Crash, Recover, SetBack, vars
<1> QED BY <1>1, <1>2, <1>3, <1>4, <1>5

(* The journal forgets an admitted request only when it is stale. *)
LEMMA AdmittedStep ==
  ASSUME IInv, MaxSetback <= Retention, [Next]_vars
  PROVE  AdmittedInv'
<1> USE DEF clockVars, rxVars, workerVars, Recorded, Known
<1>1. TypeOK /\ RxTyped /\ ClockInv /\ RxInv /\ AdmittedInv /\ WorkerInv
  BY DEF IInv
<1>2. latest' >= latest /\ latest \in Int /\ latest' \in Int
  BY <1>1, HistoryStep, TypeStep, BoundAssumption DEF TypeInv, TypeOK
<1>3. ASSUME NEW m \in Message \ admitted' PROVE WroteFirst(m, 0)'
  <2>1. admitted \subseteq admitted'
    BY <1>1, HistoryStep
  <2>2. WroteFirst(m, 0)
    BY <1>1, <1>3, <2>1 DEF AdmittedInv
  <2>3. writes'[m] = writes[m]
    <3>1. ~ Dispatch(m)
      BY <1>1, <1>3, <2>1 DEF Dispatch, WorkerInv, WorkerOk
    <3> QED BY <1>1, <3>1, WritesStep
  <2> QED BY <2>2, <2>3 DEF WroteFirst
<1>4. ASSUME NEW m \in admitted' PROVE Recorded(m)' \/ Expires[m] + Retention < latest'
  <2>1. m \in Message /\ Expires[m] \in Int
    BY <1>1, <1>4, TypeStep, MessageAssumption DEF TypeInv, TypeOK
  <2>2. CASE ~ Recorded(m) /\ m \in admitted
    BY <1>1, <1>2, <2>1, <2>2, BoundAssumption DEF AdmittedInv
  <2>3. CASE Recorded(m) /\ m \in admitted
    <3>1. Stale(journal[IdOf[m]]) => Expires[m] + Retention < latest'
      BY <1>1, <1>2, <2>1, <2>3, BoundAssumption DEF Stale, ClockInv, TypeOK
    <3>2. CASE Reserve
      BY <1>1, <2>3, <3>1, <3>2 DEF Reserve, reserve, Retained, RxInv
    <3>3. CASE Recover
      BY <2>3, <3>1, <3>3 DEF Recover, Retained, interrupted
    <3>4. CASE StartWorker
      <4>1. rmsg \in Message
        BY <1>1, <3>4 DEF StartWorker, RxTyped
      <4>2. CASE save(rmsg, refused, FALSE)
        BY <1>1, <2>3, <4>1, <4>2, JournalFrame
      <4>3. CASE journal' = journal
        BY <2>3, <4>3
      <4> QED BY <3>4, <4>2, <4>3 DEF StartWorker
    <3>5. ASSUME NEW n \in Message, Execute(n) PROVE Recorded(m)'
      BY <1>1, <2>3, <3>5, WorkerFrame
    <3>6. CASE journal' = journal
      BY <2>3, <3>6
    <3>7. \/ Reserve \/ Recover \/ StartWorker \/ journal' = journal
          \/ \E n \in Message : Execute(n)
      BY DEF Next, Receive, NetworkThread, Lookup, Replay, Admit, Prepare, Reject, BeginClose,
         Shutdown, JoinWorker, StopLoop, LoopStopped, Crash, Tick, SetBack, vars
    <3> QED BY <3>2, <3>3, <3>4, <3>5, <3>6, <3>7
  <2>4. CASE m \notin admitted
    <3>1. Reserve /\ m = rmsg
      BY <1>1, <1>4, <2>4, HistoryStep
    <3> QED BY <1>4, <2>4, <3>1 DEF Reserve, reserve
  <2> QED BY <2>2, <2>3, <2>4
<1> QED BY <1>3, <1>4 DEF AdmittedInv
-----------------------------------------------------------------------------
(* What a controller is told. *)

LEMMA ReplayStep ==
  ASSUME IInv, [Next]_vars
  PROVE  ReplayInv'
<1> USE DEF clockVars, rxVars, workerVars, Return
<1>1. TypeOK /\ RxTyped /\ RxInv /\ ReplayInv /\ RowInv
  BY DEF IInv
<1>2. CASE Lookup
  <2>1. SUFFICES ASSUME rpc' = "replay" PROVE Settled(rmsg, rfound)'
    BY DEF ReplayInv
  <2>2. PICK res \in Result : res = journal[IdOf[rmsg]].res /\ rfound' = res /\ Recorded(rmsg)
    BY <1>1, <1>2, <2>1 DEF Lookup, TypeOK, Recorded, Known, Row
  <2>3. rmsg \in Message /\ rmsg' = rmsg
    BY <1>1, <1>2 DEF Lookup, RxTyped
  <2>4. Settled(rmsg, res)
    BY <1>1, <2>2 DEF RowInv, RowOk, Recorded, Known
  <2>5. PICK m \in Message : m = rmsg
    BY <2>3
  <2>6. Settled(m, res)'
    BY <1>1, <2>4, <2>5, SettledStable
  <2> QED BY <2>2, <2>3, <2>5, <2>6
<1>3. CASE rpc = "replay" /\ rmsg' = rmsg /\ rfound' = rfound
  <2>1. PICK m \in Message, res \in Result : m = rmsg /\ res = rfound
    BY <1>1, <1>3 DEF RxTyped, TypeOK
  <2>2. Settled(m, res)'
    BY <1>1, <1>3, <2>1, SettledStable DEF ReplayInv
  <2> QED BY <1>3, <2>1, <2>2 DEF ReplayInv
<1>4. CASE rpc' # "replay"
  BY <1>4 DEF ReplayInv
<1>5. Lookup \/ rpc' # "replay" \/ (rpc = "replay" /\ rmsg' = rmsg /\ rfound' = rfound)
  <2>1. ASSUME NEW m \in Message, Execute(m)
        PROVE  rpc' # "replay" \/ (rpc = "replay" /\ rmsg' = rmsg /\ rfound' = rfound)
    BY <1>1, <2>1, WorkerFrame
  <2> QED BY <2>1 DEF Next, Receive, NetworkThread, Replay, Admit, Prepare, Reserve, StartWorker,
          Reject, BeginClose, Shutdown, JoinWorker, StopLoop, LoopStopped, Crash, Recover, Tick,
          SetBack, vars
<1> QED BY <1>2, <1>3, <1>4, <1>5

(* A worker that has settled, or is about to publish, has told the truth. *)
LEMMA WorkerSettled ==
  ASSUME IInv, NEW m \in Message, wpc[m] \in {"settle", "publish"}
  PROVE  Settled(m, wres[m]) /\ wres[m] \in Result
<1>1. rpc # "start" /\ m \in admitted /\ Honest(m, wres[m])
  BY DEF IInv, SlotOwned, WorkerInv, WorkerOk
<1> QED BY <1>1 DEF IInv, Settled, MayWrite, TypeOK

LEMMA PublishedStep ==
  ASSUME IInv, [Next]_vars
  PROVE  PublishedInv' /\ published \subseteq published'
<1> USE DEF clockVars, rxVars, workerVars, Return
<1>1. TypeOK /\ RxTyped /\ RxInv /\ ReplayInv /\ PublishedInv
  BY DEF IInv
<1>2. ASSUME NEW m \in Message, NEW res \in Result, Settled(m, res),
             published' \subseteq published \cup {[msg |-> m, res |-> res]}
      PROVE  PublishedInv'
  <2>1. \A n \in Message, r \in Result : Settled(n, r) => Settled(n, r)'
    BY <1>1, SettledStable
  <2>2. ASSUME NEW p \in published PROVE Settled(p.msg, p.res)'
    BY <1>1, <2>1 DEF PublishedInv, TypeOK
  <2>3. Settled(m, res)'
    BY <1>2, <2>1
  <2> QED BY <1>2, <2>2, <2>3 DEF PublishedInv
<1>3. CASE Replay
  <2>1. rmsg \in Message /\ rfound \in Result /\ Settled(rmsg, rfound)
    BY <1>1, <1>3 DEF Replay, RxTyped, ReplayInv, TypeOK
  <2>2. PICK m \in Message, res \in Result : m = rmsg /\ res = rfound
    BY <2>1
  <2> QED BY <1>2, <1>3, <2>1, <2>2 DEF Replay
<1>4. ASSUME NEW m \in Message, Execute(m) PROVE PublishedInv'
  <2>1. CASE Announce(m)
    <3>1. Settled(m, accepted)
      BY DEF Settled, Terminal, accepted, result
    <3> QED BY <1>2, <2>1, <3>1, ResultTyped DEF Announce
  <2>2. CASE PublishResult(m)
    <3>1. Settled(m, wres[m]) /\ wres[m] \in Result
      BY <2>2, WorkerSettled DEF PublishResult
    <3>2. PICK res \in Result : res = wres[m]
      BY <3>1
    <3> QED BY <1>2, <2>2, <3>1, <3>2 DEF PublishResult
  <2>3. CASE ~ Announce(m) /\ ~ PublishResult(m)
    <3>1. published' = published
      BY <1>4, <2>3 DEF Execute, CheckExpiry, Gate, RecordIntent, Recheck, Dispatch, RunQuery,
         Observe, Settle, Release
    <3>2. Settled(m, accepted)
      BY DEF Settled, Terminal, accepted, result
    <3> QED BY <1>2, <3>1, <3>2, ResultTyped
  <2> QED BY <2>1, <2>2, <2>3
<1>5. CASE ~ Replay /\ ~ \E m \in Message : Execute(m)
  <2>1. published' = published
    BY <1>5 DEF Next, Receive, NetworkThread, Lookup, Admit, Prepare, Reserve, StartWorker,
          Reject, BeginClose, Shutdown, JoinWorker, StopLoop, LoopStopped, Crash, Recover, Tick,
          SetBack, vars
  <2>2. \A n \in Message, r \in Result : Settled(n, r) => Settled(n, r)'
    BY <1>1, SettledStable
  <2> QED BY <1>1, <2>1, <2>2 DEF PublishedInv, TypeOK
<1>6. published \subseteq published'
  <2>1. CASE Replay
    BY <2>1 DEF Replay
  <2>2. ASSUME NEW m \in Message, Execute(m) PROVE published \subseteq published'
    BY <1>1, <2>2, WorkerFrame
  <2>3. CASE ~ Replay /\ ~ \E m \in Message : Execute(m)
    BY <2>3 DEF Next, Receive, NetworkThread, Lookup, Admit, Prepare, Reserve, StartWorker,
          Reject, BeginClose, Shutdown, JoinWorker, StopLoop, LoopStopped, Crash, Recover, Tick,
          SetBack, vars
  <2> QED BY <2>1, <2>2, <2>3
<1> QED BY <1>3, <1>4, <1>5, <1>6
-----------------------------------------------------------------------------
(* The journal. *)

(* How the row of an identity may change. *)
Rewritten(i, row) ==
  \/ i \in DOMAIN journal /\ row = journal[i]
  \/ /\ Reserve
     /\ i = IdOf[rmsg]
     /\ admitted' = admitted \cup {rmsg}
     /\ row = [msg |-> rmsg, res |-> accepted, intent |-> FALSE]
  \/ /\ StartWorker
     /\ rpc' = "reject"
     /\ i \in DOMAIN journal
     /\ i = IdOf[rmsg]
     /\ row = [msg |-> journal[i].msg, res |-> refused, intent |-> journal[i].intent \/ FALSE]
  \/ \E m \in Message :
       /\ i \in DOMAIN journal
       /\ i = IdOf[m]
       /\ \/ /\ RecordIntent(m) \/ (RunQuery(m) /\ wpc'[m] = "observe")
             /\ row = [msg |-> journal[i].msg, res |-> accepted, intent |-> journal[i].intent \/ TRUE]
          \/ /\ Settle(m)
             /\ row = [msg |-> journal[i].msg, res |-> wres[m], intent |-> journal[i].intent \/ FALSE]
  \/ /\ Recover
     /\ i \in DOMAIN journal
     /\ row = interrupted(journal[i])

LEMMA JournalStep ==
  ASSUME TypeOK, RxTyped, [Next]_vars, NEW i \in DOMAIN journal'
  PROVE  Rewritten(i, journal'[i])
<1> USE DEF clockVars, rxVars, workerVars, Return
<1>1. CASE journal' = journal
  BY <1>1 DEF Rewritten
<1>2. CASE Reserve
  BY <1>2 DEF Reserve, reserve, Retained, Rewritten
<1>3. CASE StartWorker
  <2>1. rmsg \in Message
    BY <1>3 DEF StartWorker, RxTyped
  <2>2. CASE save(rmsg, refused, FALSE)
    <3>1. \/ i \in DOMAIN journal /\ journal'[i] = journal[i]
          \/ /\ i \in DOMAIN journal
             /\ i = IdOf[rmsg]
             /\ journal'[i] = [msg |-> journal[i].msg, res |-> refused,
                               intent |-> journal[i].intent \/ FALSE]
      BY <2>1, <2>2 DEF save
    <3>2. rpc' = "reject" \/ journal' = journal
      BY <1>3 DEF StartWorker
    <3> QED BY <1>1, <1>3, <3>1, <3>2 DEF Rewritten
  <2> QED BY <1>1, <1>3, <2>2 DEF StartWorker
<1>4. ASSUME NEW m \in Message, Execute(m) PROVE Rewritten(i, journal'[i])
  <2>1. CASE RecordIntent(m) /\ save(m, accepted, TRUE)
    <3>1. \/ i \in DOMAIN journal /\ journal'[i] = journal[i]
          \/ /\ i \in DOMAIN journal
             /\ i = IdOf[m]
             /\ journal'[i] = [msg |-> journal[i].msg, res |-> accepted,
                               intent |-> journal[i].intent \/ TRUE]
      BY <2>1 DEF save
    <3> QED BY <2>1, <3>1 DEF Rewritten
  <2>2. CASE RunQuery(m) /\ save(m, accepted, TRUE)
    <3>1. \/ i \in DOMAIN journal /\ journal'[i] = journal[i]
          \/ /\ i \in DOMAIN journal
             /\ i = IdOf[m]
             /\ journal'[i] = [msg |-> journal[i].msg, res |-> accepted,
                               intent |-> journal[i].intent \/ TRUE]
      BY <2>2 DEF save
    <3>2. wpc'[m] = "observe" \/ journal' = journal
      BY <2>2 DEF RunQuery, Goto, TypeOK
    <3> QED BY <1>1, <2>2, <3>1, <3>2 DEF Rewritten
  <2>3. CASE Settle(m) /\ save(m, wres[m], FALSE)
    <3>1. \/ i \in DOMAIN journal /\ journal'[i] = journal[i]
          \/ /\ i \in DOMAIN journal
             /\ i = IdOf[m]
             /\ journal'[i] = [msg |-> journal[i].msg, res |-> wres[m],
                               intent |-> journal[i].intent \/ FALSE]
      BY <2>3 DEF save
    <3> QED BY <2>3, <3>1 DEF Rewritten
  <2> QED BY <1>1, <1>4, <2>1, <2>2, <2>3 DEF Execute, Announce, CheckExpiry, Gate, RecordIntent,
           Recheck, Dispatch, RunQuery, Observe, Settle, PublishResult, Release
<1>5. CASE Recover
  BY <1>5 DEF Recover, Retained, Rewritten
<1> QED BY <1>1, <1>2, <1>3, <1>4, <1>5 DEF Next, Receive, NetworkThread, Lookup, Replay, Admit,
        Prepare, Reject, BeginClose, Shutdown, JoinWorker, StopLoop, LoopStopped, Crash, Tick,
        SetBack, vars

(* A row stays right unless its worker writes while it has no intent. *)
LEMMA RowStable ==
  ASSUME IInv, [Next]_vars, NEW row \in Row, RowOk(row),
         Dispatch(row.msg) => row.intent /\ row.msg \notin Queries
  PROVE  RowOk(row)'
<1>1. TypeOK /\ RxTyped /\ RxInv /\ WorkerInv
  BY DEF IInv
<1>2. row.msg \in Message /\ row.res \in Result
  BY DEF Row
<1>3. row.msg \in admitted'
  BY <1>1, HistoryStep DEF RowOk
<1>4. Settled(row.msg, row.res)'
  BY <1>1, <1>2, SettledStable DEF RowOk
<1>5. writes'[row.msg] = writes[row.msg] \/ (row.intent /\ row.msg \notin Queries)
  BY <1>1, <1>2, WritesStep
<1> QED BY <1>3, <1>4, <1>5 DEF RowOk, WroteFirst

LEMMA RowStep ==
  ASSUME IInv, [Next]_vars
  PROVE  RowInv'
<1>1. TypeOK /\ RxTyped /\ SlotOwned /\ RxInv /\ WorkerInv /\ RowInv /\ AtMostOnce
  BY DEF IInv
<1>2. TypeOK'
  BY <1>1, TypeStep DEF TypeInv
<1> SUFFICES ASSUME NEW i \in DOMAIN journal',
                    NEW row \in Row, row = journal'[i]
             PROVE  IdOf[row.msg] = i /\ RowOk(row)'
  BY <1>2 DEF RowInv, TypeOK
<1>3. Rewritten(i, row)
  BY <1>1, JournalStep
<1>4. ASSUME i \in DOMAIN journal, row = journal[i]
      PROVE  IdOf[row.msg] = i /\ RowOk(row)'
  <2>1. IdOf[row.msg] = i /\ RowOk(row)
    BY <1>1, <1>4 DEF RowInv
  <2>2. Dispatch(row.msg) => row.intent /\ row.msg \notin Queries
    BY <1>1, <1>4, <2>1 DEF Dispatch, WorkerInv, WorkerOk, Row
  <2> QED BY <2>1, <2>2, RowStable
<1>5. CASE /\ Reserve
           /\ i = IdOf[rmsg]
           /\ admitted' = admitted \cup {rmsg}
           /\ row = [msg |-> rmsg, res |-> accepted, intent |-> FALSE]
  <2>1. rmsg \in Message /\ rmsg \notin admitted
    BY <1>1, <1>5 DEF Reserve, RxInv, RxTyped
  <2>2. WroteFirst(row.msg, 0)'
    BY <1>5, <2>1 DEF Reserve, IInv, AdmittedInv, WroteFirst
  <2> QED BY <1>5, <2>1, <2>2 DEF RowOk, Settled, Terminal, accepted, result
<1>6. CASE /\ StartWorker
           /\ rpc' = "reject"
           /\ i \in DOMAIN journal
           /\ i = IdOf[rmsg]
           /\ row = [msg |-> journal[i].msg, res |-> refused, intent |-> journal[i].intent \/ FALSE]
  <2>1. /\ rmsg \in admitted
        /\ journal[i].msg = rmsg
        /\ WroteFirst(rmsg, 0)
        /\ wpc[rmsg] = "none"
        /\ writes' = writes
        /\ admitted' = admitted
        /\ wpc' = wpc
    BY <1>1, <1>6 DEF StartWorker, RxInv, SlotOwned, RxTyped, Recorded, TypeOK, Return
  <2>2. row.msg = rmsg /\ row.res = refused
    BY <1>6, <2>1
  <2>3. Honest(row.msg, row.res)'
    BY <2>1, <2>2 DEF Honest, refused, result, WroteFirst
  <2>4. ~ MayWrite(row.msg)'
    BY <1>6, <2>1, <2>2 DEF MayWrite
  <2>5. row.res.status = "rejected"
    BY <2>2 DEF refused, result
  <2> QED BY <1>6, <2>1, <2>2, <2>3, <2>4, <2>5 DEF RowOk, Settled, accepted, result
<1>7. ASSUME NEW m \in Message,
             i \in DOMAIN journal,
             i = IdOf[m],
             RecordIntent(m) \/ (RunQuery(m) /\ wpc'[m] = "observe"),
             row = [msg |-> journal[i].msg, res |-> accepted, intent |-> journal[i].intent \/ TRUE]
      PROVE  IdOf[row.msg] = i /\ RowOk(row)'
  <2>1. /\ m \in admitted
        /\ journal[i].msg = m
        /\ WroteFirst(m, 0)
        /\ writes' = writes
        /\ admitted' = admitted
        /\ RecordIntent(m) => m \notin Queries
    BY <1>1, <1>7 DEF RecordIntent, RunQuery, WorkerInv, WorkerOk, Working, Unstarted, Recorded
  <2> QED BY <1>7, <2>1 DEF RowOk, Settled, Terminal, accepted, result, WroteFirst
<1>8. ASSUME NEW m \in Message,
             i \in DOMAIN journal,
             i = IdOf[m],
             Settle(m),
             row = [msg |-> journal[i].msg, res |-> wres[m], intent |-> journal[i].intent \/ FALSE]
      PROVE  IdOf[row.msg] = i /\ RowOk(row)'
  <2>1. PICK res \in Result : res = wres[m]
    BY <1>1 DEF TypeOK
  <2>2. Settled(m, res) /\ Terminal(res) /\ journal[i].msg = m
    BY <1>1, <1>7, <1>8, <2>1, WorkerSettled DEF Settle, WorkerInv, WorkerOk, Recorded
  <2>3. Settled(m, res)'
    BY <1>1, <2>2, SettledStable
  <2> QED BY <1>8, <2>1, <2>2, <2>3 DEF RowOk, Settled, Terminal, accepted, result
<1>9. CASE Recover /\ i \in DOMAIN journal /\ row = interrupted(journal[i])
  <2>1. /\ IdOf[journal[i].msg] = i
        /\ RowOk(journal[i])
        /\ journal[i].msg \in Message
        /\ row.msg = journal[i].msg
    BY <1>1, <1>9 DEF RowInv, interrupted, TypeOK, Row
  <2>2. writes' = writes /\ admitted' = admitted
    BY <1>9 DEF Recover
  <2>3. ~ MayWrite(row.msg) /\ ~ MayWrite(row.msg)'
    BY <1>1, <1>9, <2>1 DEF Recover, MayWrite, RxInv, HoldsAdmission, WorkerInv, WorkerOk, rxVars, workerVars
  <2>4. CASE journal[i].res.status # "accepted"
    BY <1>9, <2>1, <2>2, <2>3, <2>4 DEF interrupted, RowOk, Settled, Honest, WroteFirst
  <2>5. CASE journal[i].res.status = "accepted"
    <3>1. journal[i].res = accepted
      BY <2>1, <2>5 DEF RowOk
    <3>2. row.res = result("failed",
                      IF journal[i].intent /\ row.msg \notin Queries THEN "unknown" ELSE "not_started", 0)
      BY <1>9, <2>1, <2>5, <3>1 DEF interrupted, accepted, result
    <3>3. Honest(row.msg, row.res)
      BY <1>1, <2>1, <3>1, <3>2 DEF Honest, RowOk, AtMostOnce, result
    <3>4. row.res.status = "failed"
      BY <3>2 DEF result
    <3> QED BY <2>1, <2>2, <2>3, <3>3, <3>4 DEF RowOk, Settled, Honest, WroteFirst, accepted, result
  <2> QED BY <2>4, <2>5
<1> QED BY <1>3, <1>4, <1>5, <1>6, <1>7, <1>8, <1>9 DEF Rewritten
-----------------------------------------------------------------------------
(* The worker. *)

LEMMA WorkerStep ==
  ASSUME IInv, [Next]_vars
  PROVE  WorkerInv'
<1> USE DEF clockVars, rxVars, workerVars, Return
<1>1. TypeOK /\ RxTyped /\ SlotOwned /\ RxInv /\ WorkerInv
  BY DEF IInv
<1> SUFFICES ASSUME NEW m \in Message PROVE WorkerOk(m)'
  BY DEF WorkerInv
<1>2. WorkerOk(m)
  BY <1>1 DEF WorkerInv
<1>3. ASSUME wpc'[m] = "none", wdone'[m] = 0 PROVE WorkerOk(m)'
  BY <1>3 DEF WorkerOk, Working, Unstarted
<1>4. ASSUME Execute(m) PROVE WorkerOk(m)'
  <2>1. /\ m \in admitted'
        /\ Recorded(m)'
        /\ service' \in {"open", "closing"}
        /\ IdOf[m] \in DOMAIN journal
    BY <1>1, <1>2, <1>4, WorkerFrame DEF WorkerOk, Recorded, Known
  <2> USE DEF WorkerOk, Working, Unstarted, Conclude, Goto, Terminal
  <2>2. CASE Announce(m)
    <3>1. WroteFirst(m, 0)'
      BY <1>2, <2>2 DEF Announce, WroteFirst
    <3> QED BY <1>1, <1>2, <2>1, <2>2, <3>1 DEF Announce, TypeOK, Honest, result
  <2>3. ASSUME Refuse(m), wpc[m] \in Working, wdone[m] > 0 => m \notin Queries /\ wdone[m] < Steps[m],
               UNCHANGED <<writes, wdone>>
        PROVE  wpc'[m] = "settle" /\ Terminal(wres'[m]) /\ Honest(m, wres[m])'
    <3>1. WroteFirst(m, wdone[m]) /\ wdone[m] \in Nat
      BY <1>1, <1>2, <2>3 DEF TypeOK
    <3>2. wpc'[m] = "settle"
      BY <1>1, <2>3 DEF Refuse, TypeOK
    <3>3. CASE wdone[m] > 0
      <4>1. wres'[m] = result("failed", "partial", wdone[m])
        BY <1>1, <2>3, <3>3 DEF Refuse, TypeOK
      <4>2. wdone[m] \in 1 .. Steps[m] - 1
        BY <2>3, <3>1, <3>3, MessageAssumption
      <4> QED BY <2>3, <3>1, <3>2, <4>1, <4>2 DEF result, Honest, WroteFirst
    <3>4. CASE wdone[m] = 0
      <4>1. wres'[m] = result("rejected", "not_started", wdone[m])
        BY <1>1, <2>3, <3>4 DEF Refuse, TypeOK
      <4> QED BY <2>3, <3>1, <3>2, <3>4, <4>1 DEF result, Honest, WroteFirst
    <3> QED BY <3>1, <3>3, <3>4
  <2>4. CASE CheckExpiry(m)
    <3>1. WroteFirst(m, wdone[m])'
      BY <1>2, <2>4 DEF CheckExpiry, WroteFirst
    <3>2. CASE Refuse(m)
      <4>1. wpc'[m] = "settle" /\ Terminal(wres'[m]) /\ Honest(m, wres[m])'
        BY <1>2, <2>3, <2>4, <3>2 DEF CheckExpiry
      <4> QED BY <1>2, <2>1, <2>4, <4>1 DEF CheckExpiry
    <3>3. CASE wpc' = [wpc EXCEPT ![m] = IF m \in Queries THEN "query" ELSE "gate"]
      <4>1. m \notin Queries => wdone[m] < Steps[m]
        BY <1>2, <2>4, MessageAssumption DEF CheckExpiry
      <4> QED BY <1>1, <1>2, <2>1, <2>4, <3>1, <3>3, <4>1 DEF CheckExpiry, TypeOK
    <3> QED BY <2>4, <3>2, <3>3 DEF CheckExpiry
  <2>5. CASE Gate(m)
    <3>1. WroteFirst(m, wdone[m])'
      BY <1>2, <2>5 DEF Gate, WroteFirst
    <3>2. CASE Refuse(m)
      <4>1. wpc'[m] = "settle" /\ Terminal(wres'[m]) /\ Honest(m, wres[m])'
        BY <1>2, <2>3, <2>5, <3>2 DEF Gate
      <4> QED BY <1>2, <2>1, <2>5, <4>1 DEF Gate
    <3>3. CASE wdone[m] = 0 /\ wpc' = [wpc EXCEPT ![m] = "intent"]
      BY <1>1, <1>2, <2>1, <2>5, <3>1, <3>3 DEF Gate, TypeOK
    <3>4. CASE wdone[m] > 0 /\ wpc' = [wpc EXCEPT ![m] = "dispatch"]
      <4>1. journal[IdOf[m]].intent
        <5>1. WroteFirst(m, wdone[m]) /\ wdone[m] \in Nat /\ wdone[m] < Steps[m]
          BY <1>1, <1>2, <2>5 DEF Gate, TypeOK
        <5>2. ~ WroteFirst(m, 0)
          <6>1. 1 \in 1 .. Steps[m] /\ writes[m][1] = 1
            BY <3>4, <5>1, MessageAssumption DEF WroteFirst
          <6> QED BY <6>1 DEF WroteFirst
        <5>3. journal[IdOf[m]].res = accepted /\ journal[IdOf[m]].msg = m
          BY <1>2, <2>5 DEF Gate, Recorded
        <5> QED BY <2>1, <5>2, <5>3 DEF IInv, RowInv, RowOk
      <4> QED BY <1>1, <1>2, <2>1, <2>5, <3>1, <3>4, <4>1 DEF Gate, TypeOK
    <3> QED BY <2>5, <3>2, <3>3, <3>4 DEF Gate
  <2>6. CASE RecordIntent(m)
    <3>1. CASE save(m, accepted, TRUE) /\ wpc' = [wpc EXCEPT ![m] = "recheck"]
      <4>1. journal'[IdOf[m]].res = accepted /\ journal'[IdOf[m]].intent
        BY <2>1, <3>1 DEF save
      <4> QED BY <1>1, <1>2, <2>1, <2>6, <3>1, <4>1 DEF RecordIntent, TypeOK, WroteFirst
    <3>2. CASE Conclude(m, "rejected", "not_started")
      BY <1>1, <1>2, <2>1, <2>6, <3>2 DEF RecordIntent, TypeOK, Honest, WroteFirst, result
    <3> QED BY <2>6, <3>1, <3>2 DEF RecordIntent
  <2>7. CASE Recheck(m)
    <3>1. CASE Refuse(m)
      <4>1. wpc'[m] = "settle" /\ Terminal(wres'[m]) /\ Honest(m, wres[m])'
        BY <1>2, <2>3, <2>7, <3>1 DEF Recheck
      <4> QED BY <1>2, <2>1, <2>7, <4>1 DEF Recheck
    <3>2. CASE wpc' = [wpc EXCEPT ![m] = "dispatch"]
      BY <1>1, <1>2, <2>1, <2>7, <3>2 DEF Recheck, TypeOK, WroteFirst
    <3> QED BY <2>7, <3>1, <3>2 DEF Recheck
  <2>8. CASE RunQuery(m)
    <3>1. CASE save(m, accepted, TRUE) /\ wpc' = [wpc EXCEPT ![m] = "observe"]
      <4>1. journal'[IdOf[m]].res = accepted
        BY <2>1, <3>1 DEF save
      <4> QED BY <1>1, <1>2, <2>1, <2>8, <3>1, <4>1 DEF RunQuery, TypeOK, WroteFirst
    <3>2. ASSUME NEW status \in {"completed", "rejected", "failed"}, Conclude(m, status, "not_started")
          PROVE  WorkerOk(m)'
      <4>1. wpc'[m] = "settle" /\ wres'[m] = result(status, "not_started", wdone[m])
        BY <1>1, <3>2 DEF TypeOK
      <4>2. WroteFirst(m, 0)' /\ wdone' = wdone
        BY <1>2, <2>8 DEF RunQuery, WroteFirst
      <4>3. Terminal(wres'[m]) /\ Honest(m, wres[m])'
        BY <4>1, <4>2 DEF Honest, result
      <4>4. m \in Queries /\ wdone'[m] = 0
        BY <1>2, <2>8, <4>2 DEF RunQuery
      <4>5. journal' = journal
        BY <1>1, <2>8, <4>1 DEF RunQuery, TypeOK
      <4>6. journal[IdOf[m]].res = accepted
        BY <1>2, <2>8 DEF RunQuery
      <4> QED BY <2>1, <4>1, <4>3, <4>4, <4>5, <4>6
    <3> QED BY <2>8, <3>1, <3>2 DEF RunQuery
  <2>9. CASE Observe(m)
    BY <1>1, <1>2, <2>1, <2>9 DEF Observe, TypeOK, Honest, WroteFirst, result
  <2>10. CASE Settle(m)
    <3>1. Terminal(wres'[m]) /\ Honest(m, wres[m])'
      BY <1>2, <2>10 DEF Settle, Honest, WroteFirst
    <3> QED BY <1>1, <1>2, <2>1, <2>10, <3>1 DEF Settle, TypeOK
  <2>11. CASE PublishResult(m)
    BY <1>1, <1>2, <2>1, <2>11 DEF PublishResult, TypeOK
  <2>12. CASE Release(m)
    BY <1>1, <1>3, <2>12 DEF Release, TypeOK
  <2>13. CASE Dispatch(m)
    <3>1. PICK k \in Nat : k = wdone[m]
      BY <1>1 DEF TypeOK
    <3>2. /\ k < Steps[m]
          /\ WroteFirst(m, k)
          /\ m \notin Queries
          /\ wpc[m] = "dispatch"
          /\ journal' = journal
          /\ published' = published
          /\ Steps[m] \in Nat
      BY <1>2, <2>13, <3>1, MessageAssumption DEF Dispatch
    <3>3. Enter(m, k + 1) => WroteFirst(m, k + 1)'
      BY <1>1, <3>2, EnterWrites
    <3>4. CASE Enter(m, k + 1) /\ wdone' = [wdone EXCEPT ![m] = k + 1]
      <4>1. wdone'[m] = k + 1 /\ WroteFirst(m, k + 1)'
        BY <1>1, <3>3, <3>4 DEF TypeOK
      <4>2. CASE k + 1 = Steps[m]
        <5>1. wpc'[m] = "settle" /\ wres'[m] = result("completed", "dispatched", k + 1)
          BY <1>1, <2>13, <3>1, <3>2, <3>4, <4>2 DEF Dispatch, TypeOK
        <5>2. Honest(m, wres[m])'
          BY <4>1, <4>2, <5>1 DEF Honest, result
        <5> QED BY <1>2, <2>1, <3>2, <5>1, <5>2 DEF result
      <4>3. CASE k + 1 # Steps[m]
        <5>1. wpc'[m] = "gate"
          BY <1>1, <2>13, <3>1, <3>2, <3>4, <4>3 DEF Dispatch, TypeOK
        <5>2. k + 1 < Steps[m]
          BY <3>2, <4>3
        <5> QED BY <1>2, <2>1, <3>2, <4>1, <5>1, <5>2
      <4> QED BY <4>2, <4>3
    <3>5. CASE (Enter(m, k + 1) \/ writes' = writes) /\ Conclude(m, "failed", "unknown")
      <4>1. wpc'[m] = "settle" /\ wres'[m] = result("failed", "unknown", k)
        BY <1>1, <3>1, <3>5 DEF TypeOK
      <4>2. \E j \in k .. Steps[m] : WroteFirst(m, j)'
        <5>1. CASE Enter(m, k + 1)
          <6>1. k + 1 \in k .. Steps[m]
            BY <3>2
          <6> QED BY <3>3, <5>1, <6>1
        <5>2. CASE writes' = writes
          <6>1. k \in k .. Steps[m]
            BY <3>2
          <6> QED BY <3>2, <5>2, <6>1 DEF WroteFirst
        <5> QED BY <3>5, <5>1, <5>2
      <4>3. Honest(m, wres[m])'
        BY <4>1, <4>2 DEF Honest, result
      <4> QED BY <1>2, <2>1, <3>2, <4>1, <4>3 DEF result
    <3> QED BY <2>13, <3>1, <3>4, <3>5 DEF Dispatch
  <2> QED BY <1>4, <2>2, <2>4, <2>5, <2>6, <2>7, <2>8, <2>9, <2>10, <2>11, <2>12, <2>13 DEF Execute
<1>5. ASSUME NEW n \in Message \ {m}, Execute(n) PROVE WorkerOk(m)'
  <2>1. wpc[m] = "none" /\ wdone[m] = 0
    BY <1>1, <1>2, <1>5, WorkerFrame DEF SlotOwned, WorkerOk
  <2> QED BY <1>1, <1>3, <1>5, <2>1, WorkerFrame
<1>6. CASE StartWorker
  <2>1. rmsg \in Message /\ \A n \in Message : wpc[n] = "none"
    BY <1>1, <1>6 DEF StartWorker, SlotOwned, RxTyped
  <2>2. wdone'[m] = 0
    BY <1>2, <1>6, <2>1 DEF StartWorker, WorkerOk, Unstarted
  <2>3. CASE m = rmsg /\ wpc' = [wpc EXCEPT ![rmsg] = "announce"] /\ UNCHANGED journal
    <3>1. WroteFirst(m, wdone[m])'
      BY <1>1, <1>6, <2>2, <2>3 DEF StartWorker, RxInv, WroteFirst
    <3>2. service = "open" /\ service' = service /\ wpc'[m] = "announce" /\ wpc[m] = "none"
      BY <1>1, <1>6, <2>1, <2>3 DEF StartWorker, RxInv, HoldsAdmission, TypeOK
    <3> QED BY <1>1, <1>6, <2>2, <2>3, <3>1, <3>2
            DEF StartWorker, RxInv, WorkerOk, Working, Unstarted, Recorded, Known
  <2>4. CASE m # rmsg \/ wpc' = wpc
    BY <1>1, <1>3, <1>6, <2>1, <2>2, <2>4 DEF StartWorker, TypeOK
  <2> QED BY <1>6, <2>3, <2>4 DEF StartWorker
<1>7. CASE wpc[m] = "none" /\ wpc'[m] = wpc[m] /\ wdone'[m] = wdone[m]
  BY <1>2, <1>3, <1>7 DEF WorkerOk, Unstarted
<1>8. CASE Crash
  BY <1>3, <1>8 DEF Crash
<1>9. ASSUME wpc[m] # "none", UNCHANGED <<workerVars, journal, admitted, writes>>,
             published \subseteq published', service' \in {"open", "closing"}
      PROVE  WorkerOk(m)'
  BY <1>2, <1>9 DEF WorkerOk, Working, Unstarted, Recorded, Known, WroteFirst, Honest
<1>10. CASE Lookup \/ Replay \/ Admit \/ Prepare \/ Reject
  BY <1>2, <1>7, <1>9, <1>10 DEF WorkerOk, Lookup, Replay, Admit, Prepare, Reject
<1>11. CASE Reserve
  <2>1. wpc[m] = "none"
    BY <1>1, <1>11 DEF Reserve, SlotOwned
  <2> QED BY <1>7, <1>11, <2>1 DEF Reserve
<1>12. ASSUME NEW n \in Message, Receive(n) PROVE WorkerOk(m)'
  BY <1>2, <1>7, <1>9, <1>12 DEF WorkerOk, Receive
<1>13. CASE BeginClose \/ Shutdown \/ Recover
  BY <1>2, <1>7, <1>9, <1>13 DEF WorkerOk, BeginClose, Shutdown, JoinWorker, NoWorker, StopLoop,
     LoopStopped, Recover
<1>14. CASE Tick \/ SetBack \/ UNCHANGED vars
  BY <1>2, <1>7, <1>9, <1>14 DEF WorkerOk, Tick, SetBack, vars
<1> QED BY <1>4, <1>5, <1>6, <1>8, <1>10, <1>11, <1>12, <1>13, <1>14 DEF Next, NetworkThread
-----------------------------------------------------------------------------
(* The theorems.  The one assumption on the environment: the wall clock is *)
(* never corrected backwards by more than the journal's retention.         *)

LEMMA Inductive ==
  ASSUME MaxSetback <= Retention
  PROVE  Spec => []IInv
<1>1. Init => IInv
  <2>1. Init => TypeInv
    BY TypeInit
  <2>2. ASSUME Init, NEW m \in Message PROVE WroteFirst(m, 0)
    BY <2>2, MessageAssumption DEF Init, WroteFirst
  <2>3. Init => AtMostOnce
    BY <2>2, MessageAssumption DEF AtMostOnce
  <2>4. Init => /\ ClockInv /\ SlotOwned /\ RxInv /\ ReplayInv /\ PublishedInv /\ RowInv
    BY BoundAssumption DEF Init, ClockInv, SlotOwned, RxInv, HoldsAdmission, ReplayInv,
       PublishedInv, RowInv
  <2>5. Init => WorkerInv
    BY DEF Init, WorkerInv, WorkerOk, Working, Unstarted
  <2> QED BY <2>1, <2>2, <2>3, <2>4, <2>5 DEF IInv, TypeInv, AdmittedInv, AnnouncedBeforeWrite, Init
<1>2. IInv /\ [Next]_vars => IInv'
  BY TypeStep, ClockStep, SlotStep, RxStep, ReplayStep, PublishedStep, RowStep, WorkerStep,
     AdmittedStep, AtMostOnceStep, AnnouncedStep DEF IInv, TypeInv
<1> QED BY <1>1, <1>2, PTL DEF Spec

(* However often a request is delivered, and whatever fails, no step of its *)
(* plan enters the hardware path twice or out of order.                     *)
THEOREM DispatchedAtMostOnce ==
  ASSUME MaxSetback <= Retention
  PROVE  Spec => []AtMostOnce
<1>1. IInv => AtMostOnce BY DEF IInv
<1> QED BY <1>1, Inductive, PTL

(* Nothing is written before the controller was told that the request was *)
(* accepted.                                                              *)
THEOREM WritesAreAnnounced ==
  ASSUME MaxSetback <= Retention
  PROVE  Spec => []AnnouncedBeforeWrite
<1>1. IInv => AnnouncedBeforeWrite BY DEF IInv
<1> QED BY <1>1, Inductive, PTL

(* Every terminal result published from the journal or by a worker is true, *)
(* and stays true.                                                          *)
THEOREM ResultsAreHonest ==
  ASSUME MaxSetback <= Retention
  PROVE  Spec => []PublishedHonest
<1>1. IInv => PublishedHonest BY DEF IInv, PublishedInv, PublishedHonest, Settled
<1> QED BY <1>1, Inductive, PTL

(* The row of a request under execution is never cleaned up or replaced. *)
THEOREM ExecutionIsJournaled ==
  ASSUME MaxSetback <= Retention
  PROVE  Spec => []ExecutingIsJournaled
<1>1. IInv => ExecutingIsJournaled BY DEF IInv, WorkerInv, WorkerOk, ExecutingIsJournaled
<1> QED BY <1>1, Inductive, PTL

(* Whenever the process dies, what recovery writes into the journal is true. *)
THEOREM RecoveryIsHonest ==
  ASSUME MaxSetback <= Retention
  PROVE  Spec => []CrashHonest
<1>1. ASSUME IInv PROVE CrashHonest
  <2> SUFFICES ASSUME NEW i \in DOMAIN journal
               PROVE  Honest(journal[i].msg, interrupted(journal[i]).res)
    BY DEF CrashHonest
  <2>1. RowOk(journal[i]) /\ journal[i].msg \in Message /\ AtMostOnce
    BY <1>1 DEF IInv, RowInv, TypeOK, Row
  <2>2. CASE journal[i].res.status # "accepted"
    BY <2>1, <2>2 DEF RowOk, Settled, Terminal, interrupted
  <2>3. CASE journal[i].res.status = "accepted"
    <3>1. journal[i].res = accepted
      BY <2>1, <2>3 DEF RowOk
    <3>2. interrupted(journal[i]).res =
            result("failed", IF journal[i].intent /\ journal[i].msg \notin Queries
                             THEN "unknown" ELSE "not_started", 0)
      BY <3>1 DEF interrupted, accepted, result
    <3> QED BY <2>1, <3>1, <3>2 DEF Honest, RowOk, AtMostOnce, result
  <2> QED BY <2>2, <2>3
<1> QED BY <1>1, Inductive, PTL

(* An admitted request that the journal has forgotten is past its expiry, so *)
(* a late duplicate of it is refused.                                        *)
THEOREM ForgottenIsExpired ==
  ASSUME MaxSetback <= Retention
  PROVE  Spec => []CleanedUpIsExpired
<1>1. ASSUME IInv PROVE CleanedUpIsExpired
  <2> SUFFICES ASSUME NEW m \in admitted, ~ Recorded(m) PROVE Expired(m)
    BY DEF CleanedUpIsExpired
  <2>1. Expires[m] + Retention < latest /\ latest <= clock + MaxSetback
    BY <1>1 DEF IInv, AdmittedInv, ClockInv
  <2>2. Expires[m] \in Int /\ clock \in Int /\ latest \in Int
    BY <1>1, MessageAssumption, BoundAssumption DEF IInv, TypeOK
  <2> QED BY <2>1, <2>2, BoundAssumption DEF Expired
<1> QED BY <1>1, Inductive, PTL

(* A terminal row is never rewritten: the worker and recovery only save over *)
(* an accepted one, and a new request never takes an identity that is known. *)
THEOREM TerminalRowsAreFinal ==
  ASSUME MaxSetback <= Retention
  PROVE  Spec => TerminalIsFinal
<1> DEFINE Kept(i) == Terminal(journal[i].res) => journal'[i] = journal[i]
           AllKept == \A i \in DOMAIN journal \cap DOMAIN journal' : Kept(i)
<1>1. ASSUME IInv, [Next]_vars, NEW i \in DOMAIN journal, i \in DOMAIN journal'
      PROVE  Kept(i)
  <2> SUFFICES ASSUME Terminal(journal[i].res) PROVE journal'[i] = journal[i]
    OBVIOUS
  <2>1. journal[i].res # accepted
    BY DEF Terminal, accepted, result
  <2>2. ~ (Reserve /\ i = IdOf[rmsg])
    BY <1>1 DEF IInv, Reserve, RxInv, Known
  <2>3. ~ (StartWorker /\ i = IdOf[rmsg])
    BY <1>1, <2>1 DEF IInv, StartWorker, RxInv
  <2>4. ASSUME NEW m \in Message, i = IdOf[m]
        PROVE  ~ RecordIntent(m) /\ ~ RunQuery(m) /\ ~ Settle(m)
    BY <1>1, <2>1, <2>4 DEF IInv, RecordIntent, RunQuery, Settle, WorkerInv, WorkerOk, Working, Unstarted
  <2>5. interrupted(journal[i]) = journal[i]
    BY DEF Terminal, interrupted
  <2>6. Rewritten(i, journal'[i])
    BY <1>1, JournalStep DEF IInv
  <2> QED BY <2>2, <2>3, <2>4, <2>5, <2>6 DEF Rewritten
<1>2. IInv /\ [Next]_vars => [AllKept]_vars
  BY <1>1
<1>3. TerminalIsFinal <=> [][AllKept]_vars
  BY PTL DEF TerminalIsFinal
<1> QED BY <1>2, <1>3, Inductive, PTL DEF Spec
-----------------------------------------------------------------------------
(* The refinement of CommandLedger, step by step.  The mapping is well     *)
(* defined because whoever may still write was admitted: two arms of its   *)
(* CASE never hold together.                                               *)

(* The phase of each request, as the ledger sees it. *)
Phase ==
  [m \in Message |->
     CASE m \notin admitted -> "new"
       [] MayWrite(m)       -> "running"
       [] OTHER             -> "settled"]

LEMMA PhaseOf ==
  ASSUME NEW m \in Message, MayWrite(m) => m \in admitted
  PROVE  /\ Phase[m] = "new" <=> m \notin admitted
         /\ Phase[m] = "running" <=> m \in admitted /\ MayWrite(m)
         /\ Phase[m] = "settled" <=> m \in admitted /\ ~ MayWrite(m)
<1>1. Phase[m] = CASE m \notin admitted -> "new"
                   [] MayWrite(m)       -> "running"
                   [] OTHER             -> "settled"
  BY DEF Phase
<1>2. CASE m \notin admitted
  BY <1>1, <1>2
<1>3. CASE m \in admitted /\ MayWrite(m)
  BY <1>1, <1>3
<1>4. CASE m \in admitted /\ ~ MayWrite(m)
  BY <1>1, <1>4
<1> QED BY <1>2, <1>3, <1>4

LEMMA PhaseNext ==
  ASSUME NEW m \in Message, MayWrite(m)' => m \in admitted'
  PROVE  /\ Phase'[m] = "new" <=> m \notin admitted'
         /\ Phase'[m] = "running" <=> m \in admitted' /\ MayWrite(m)'
         /\ Phase'[m] = "settled" <=> m \in admitted' /\ ~ MayWrite(m)'
<1>1. Phase'[m] = CASE m \notin admitted' -> "new"
                   [] MayWrite(m)'       -> "running"
                   [] OTHER             -> "settled"
  BY DEF Phase
<1>2. CASE m \notin admitted'
  BY <1>1, <1>2
<1>3. CASE m \in admitted' /\ MayWrite(m)'
  BY <1>1, <1>3
<1>4. CASE m \in admitted' /\ ~ MayWrite(m)'
  BY <1>1, <1>4
<1> QED BY <1>2, <1>3, <1>4

LEMMA PhaseDomain ==
  /\ Phase = [m \in Message |-> Phase[m]]
  /\ Phase' = [m \in Message |-> Phase'[m]]
BY DEF Phase

(* The ledger's actions, read over the state of the service. *)
LEMMA LedgerActions ==
  ASSUME NEW m \in Message
  PROVE  /\ Ledger!Take(m) <=>
              /\ Phase[m] = "new"
              /\ \A n \in Message : Phase[n] # "running"
              /\ Phase' = [Phase EXCEPT ![m] = "running"]
              /\ UNCHANGED <<writes, published>>
         /\ Ledger!Perform(m) <=>
              /\ Phase[m] = "running"
              /\ [msg |-> m, res |-> accepted] \in published
              /\ \E k \in 0 .. Steps[m] - 1 :
                   /\ writes[m] = Ledger!Prefix(m, k)
                   /\ writes' = [writes EXCEPT ![m] = Ledger!Prefix(m, k + 1)]
              /\ Phase' = [Phase EXCEPT ![m] = "settled"] \/ UNCHANGED Phase
              /\ UNCHANGED published
         /\ Ledger!Announce(m) <=>
              /\ Phase[m] # "new"
              /\ published' = published \cup {[msg |-> m, res |-> accepted]}
              /\ Phase' = [Phase EXCEPT ![m] = "settled"] \/ UNCHANGED Phase
              /\ UNCHANGED writes
         /\ Ledger!Tell(m) <=>
              /\ Phase[m] = "settled"
              /\ \E p \in published' :
                   /\ p.msg = m
                   /\ p.res.status # "accepted"
                   /\ Ledger!True(m, p.res)
                   /\ published' = published \cup {p}
              /\ UNCHANGED <<Phase, writes>>
         /\ Ledger!Stop(m) <=>
              /\ Phase[m] = "running"
              /\ Phase' = [Phase EXCEPT ![m] = "settled"]
              /\ UNCHANGED <<writes, published>>
<1> USE DEF Phase, Ledger!accepted, accepted, result
<1>1. Ledger!Take(m) <=>
        /\ Phase[m] = "new"
        /\ \A n \in Message : Phase[n] # "running"
        /\ Phase' = [Phase EXCEPT ![m] = "running"]
        /\ UNCHANGED <<writes, published>>
  BY DEF Ledger!Take
<1>2. Ledger!Perform(m) <=>
        /\ Phase[m] = "running"
        /\ [msg |-> m, res |-> accepted] \in published
        /\ \E k \in 0 .. Steps[m] - 1 :
             /\ writes[m] = Ledger!Prefix(m, k)
             /\ writes' = [writes EXCEPT ![m] = Ledger!Prefix(m, k + 1)]
        /\ Phase' = [Phase EXCEPT ![m] = "settled"] \/ UNCHANGED Phase
        /\ UNCHANGED published
  BY DEF Ledger!Perform
<1>3. Ledger!Announce(m) <=>
        /\ Phase[m] # "new"
        /\ published' = published \cup {[msg |-> m, res |-> accepted]}
        /\ Phase' = [Phase EXCEPT ![m] = "settled"] \/ UNCHANGED Phase
        /\ UNCHANGED writes
  BY DEF Ledger!Announce
<1>4. Ledger!Tell(m) <=>
        /\ Phase[m] = "settled"
        /\ \E p \in published' :
             /\ p.msg = m
             /\ p.res.status # "accepted"
             /\ Ledger!True(m, p.res)
             /\ published' = published \cup {p}
        /\ UNCHANGED <<Phase, writes>>
  BY DEF Ledger!Tell
<1>5. Ledger!Stop(m) <=>
        /\ Phase[m] = "running"
        /\ Phase' = [Phase EXCEPT ![m] = "settled"]
        /\ UNCHANGED <<writes, published>>
  BY DEF Ledger!Stop
<1> QED BY <1>1, <1>2, <1>3, <1>4, <1>5

LEMMA LedgerVars == UNCHANGED <<Phase, writes, published>> => UNCHANGED Ledger!vars
BY DEF Ledger!vars, Phase

LEMMA PrefixIsFirst ==
  ASSUME TypeOK, NEW m \in Message, NEW k \in Int
  PROVE  WroteFirst(m, k) <=> writes[m] = Ledger!Prefix(m, k)
<1>1. writes[m] = [i \in 1 .. Steps[m] |-> writes[m][i]]
  BY DEF TypeOK
<1> QED BY <1>1 DEF WroteFirst, Ledger!Prefix

LEMMA HonestIsTrue ==
  ASSUME TypeOK, NEW m \in Message, NEW res \in Result, Honest(m, res)
  PROVE  Ledger!True(m, res)
<1>1. Steps[m] \in Nat /\ res.done \in Nat
  BY MessageAssumption DEF Result
<1> QED BY <1>1, PrefixIsFirst DEF Honest, Ledger!True

LEMMA LedgerInit == Init => Ledger!Init
<1> SUFFICES ASSUME Init PROVE Ledger!Init
  OBVIOUS
<1>1. Phase = [m \in Message |-> "new"]
  <2>1. \A m \in Message : m \notin admitted /\ ~ MayWrite(m)
    BY DEF Init, MayWrite
  <2> QED BY <2>1, PhaseOf, PhaseDomain
<1>2. ASSUME NEW m \in Message
      PROVE  [i \in 1 .. Steps[m] |-> 0] = Ledger!Prefix(m, 0)
  BY DEF Ledger!Prefix
<1>3. writes = [m \in Message |-> Ledger!Prefix(m, 0)]
  BY <1>2 DEF Init
<1> QED BY <1>1, <1>3 DEF Init, Ledger!Init, Phase

(* Whoever may still write has been admitted. *)
LEMMA WritersAdmitted ==
  /\ IInv => \A m \in Message : MayWrite(m) => m \in admitted
  /\ IInv' => \A m \in Message : MayWrite(m)' => m \in admitted'
BY DEF IInv, MayWrite, RxInv, WorkerInv, WorkerOk

(* A step after which at most one request can write no more. *)
LEMMA QuietStep ==
  ASSUME IInv, IInv', UNCHANGED <<admitted, writes, published>>, NEW m \in Message,
         MayWrite(m)' => MayWrite(m),
         \A n \in Message \ {m} : MayWrite(n)' <=> MayWrite(n)
  PROVE  [Ledger!Next]_(Ledger!vars)
<1>1. /\ \A n \in Message : MayWrite(n) => n \in admitted
      /\ \A n \in Message : MayWrite(n)' => n \in admitted'
  BY WritersAdmitted
<1>2. \A n \in Message \ {m} : Phase'[n] = Phase[n]
  <2> SUFFICES ASSUME NEW n \in Message \ {m} PROVE Phase'[n] = Phase[n]
    OBVIOUS
  <2> QED BY DEF Phase
<1>3. CASE MayWrite(m)' <=> MayWrite(m)
  <2>1. Phase' = Phase
    BY <1>3 DEF Phase
  <2> QED BY <2>1, LedgerVars
<1>4. CASE MayWrite(m) /\ ~ MayWrite(m)'
  <2>1. m \in admitted /\ m \in admitted'
    <3>1. m \in admitted
      BY <1>1, <1>4
    <3>2. admitted' = admitted
      OBVIOUS
    <3> QED BY <3>1, <3>2
  <2>2. Phase[m] = "running" /\ Phase'[m] = "settled"
    BY <1>4, <2>1, PhaseOf, PhaseNext
  <2>3. Phase' = [Phase EXCEPT ![m] = "settled"]
    BY <1>2, <2>2, PhaseDomain
  <2> QED BY <2>2, <2>3, LedgerActions DEF Ledger!Next
<1> QED BY <1>3, <1>4

(* A replayed result was recorded for an admitted request. *)
ReplayedInv ==
  rpc = "replay" => /\ rmsg \in admitted
                    /\ rfound.status = "accepted" => rfound = accepted

LEMMA ReplayedStep ==
  ASSUME IInv, ReplayedInv, [Next]_vars
  PROVE  ReplayedInv'
<1> USE DEF clockVars, rxVars, workerVars, Return
<1>1. CASE Lookup
  <2>1. TypeOK /\ RxTyped /\ RowInv
    BY DEF IInv
  <2>2. rmsg \in Message
    BY <1>1, <2>1 DEF Lookup, RxTyped
  <2>3. rpc' = "replay" => Recorded(rmsg) /\ rfound' = journal[IdOf[rmsg]].res
    BY <1>1 DEF Lookup
  <2>4. Recorded(rmsg) => RowOk(journal[IdOf[rmsg]])
    BY <2>1 DEF RowInv, Recorded, Known
  <2>5. UNCHANGED <<rmsg, admitted>>
    BY <1>1 DEF Lookup
  <2> QED BY <2>3, <2>4, <2>5 DEF ReplayedInv, RowOk, Recorded
<1>2. CASE rpc' # "replay"
  BY <1>2 DEF ReplayedInv
<1>3. CASE UNCHANGED <<rpc, rmsg, rfound>> /\ admitted \subseteq admitted'
  BY <1>3 DEF ReplayedInv
<1>4. ASSUME NEW m \in Message, Receive(m) PROVE rpc' # "replay"
  BY <1>4 DEF Receive
<1>5. ASSUME Replay \/ Admit \/ Prepare \/ Reserve \/ StartWorker \/ Reject \/ Crash
      PROVE  rpc' # "replay"
  BY <1>5 DEF Replay, Admit, Prepare, Reserve, StartWorker, Reject, Crash
<1>6. ASSUME NEW m \in Message, Execute(m)
      PROVE  UNCHANGED <<rpc, rmsg, rfound>> /\ admitted \subseteq admitted'
  BY <1>6, WorkerFrame DEF IInv
<1>7. ASSUME BeginClose \/ Shutdown \/ Recover \/ Tick \/ SetBack \/ UNCHANGED vars
      PROVE  UNCHANGED <<rpc, rmsg, rfound>> /\ admitted \subseteq admitted'
  BY <1>7 DEF BeginClose, Shutdown, JoinWorker, StopLoop, LoopStopped, Recover, Tick, SetBack, vars
<1> QED BY <1>1, <1>2, <1>3, <1>4, <1>5, <1>6, <1>7 DEF Next, NetworkThread

LEMMA LedgerWorkerStep ==
  ASSUME IInv, IInv', NEW m \in Message, Execute(m)
  PROVE  [Ledger!Next]_(Ledger!vars)
<1> USE DEF Goto, Conclude, Refuse, clockVars, rxVars, workerVars
<1>1. TypeOK /\ WorkerOk(m) /\ SlotOwned
  BY DEF IInv, WorkerInv
<1>2. /\ UNCHANGED <<rpc, rmsg, admitted>>
      /\ \A n \in Message \ {m} : wpc'[n] = wpc[n]
      /\ m \in admitted
      /\ rpc # "start"
  BY <1>1, WorkerFrame DEF WorkerOk, SlotOwned
<1>3. /\ \A n \in Message \ {m} : MayWrite(n)' <=> MayWrite(n)
      /\ MayWrite(m) <=> wpc[m] \in {"announce", "check", "gate", "intent", "recheck", "dispatch"}
      /\ MayWrite(m)' <=> wpc'[m] \in {"announce", "check", "gate", "intent", "recheck", "dispatch"}
  BY <1>2 DEF MayWrite
<1>4. /\ \A n \in Message : MayWrite(n) => n \in admitted
      /\ \A n \in Message : MayWrite(n)' => n \in admitted'
  BY WritersAdmitted
<1>5. CASE UNCHANGED <<writes, published>> /\ (MayWrite(m)' => MayWrite(m))
  BY <1>2, <1>3, <1>5, QuietStep
<1>6. \A n \in Message \ {m} : Phase'[n] = Phase[n]
  <2> SUFFICES ASSUME NEW n \in Message \ {m} PROVE Phase'[n] = Phase[n]
    OBVIOUS
  <2> QED BY <1>2, <1>3 DEF Phase
<1>7. ASSUME MayWrite(m)
      PROVE  /\ Phase[m] = "running"
             /\ Phase' = [Phase EXCEPT ![m] = "settled"] \/ Phase' = Phase
  <2>1. Phase[m] = "running" /\ Phase'[m] \in {"running", "settled"}
    <3>1. CASE MayWrite(m)'
      BY <1>2, <1>4, <1>7, <3>1, PhaseOf, PhaseNext
    <3>2. CASE ~ MayWrite(m)'
      BY <1>2, <1>4, <1>7, <3>2, PhaseOf, PhaseNext
    <3> QED BY <3>1, <3>2
  <2> QED BY <1>6, <2>1, PhaseDomain
<1>8. CASE Announce(m)
  <2>1. CASE published' = published
    BY <1>3, <1>5, <1>8, <2>1 DEF Announce, TypeOK
  <2>2. CASE published' = published \cup {[msg |-> m, res |-> accepted]}
    <3>1. MayWrite(m)
      BY <1>3, <1>8 DEF Announce
    <3>2. Ledger!Announce(m)
      BY <1>7, <1>8, <2>2, <3>1, LedgerActions DEF Announce
    <3> QED BY <3>2 DEF Ledger!Next
  <2> QED BY <1>8, <2>1, <2>2 DEF Announce
<1>9. CASE CheckExpiry(m) \/ Gate(m) \/ RecordIntent(m) \/ Recheck(m)
  <2>1. UNCHANGED <<writes, published>> /\ MayWrite(m)
    BY <1>3, <1>9 DEF CheckExpiry, Gate, RecordIntent, Recheck
  <2> QED BY <1>5, <2>1
<1>10. CASE RunQuery(m) \/ Observe(m) \/ Settle(m) \/ Release(m)
  <2>1. UNCHANGED <<writes, published>> /\ ~ MayWrite(m)'
    BY <1>1, <1>3, <1>10 DEF RunQuery, Observe, Settle, Release, TypeOK
  <2> QED BY <1>5, <2>1
<1>11. CASE PublishResult(m)
  <2>1. ~ MayWrite(m) /\ ~ MayWrite(m)'
    BY <1>1, <1>3, <1>11 DEF PublishResult, TypeOK
  <2>2. CASE published' = published
    BY <1>5, <1>11, <2>1, <2>2 DEF PublishResult
  <2>3. CASE published' = published \cup {[msg |-> m, res |-> wres[m]]}
    <3>1. Phase' = Phase /\ Phase[m] = "settled"
      <4>1. Phase[m] = "settled" /\ Phase'[m] = "settled"
        BY <1>2, <1>4, <2>1, PhaseOf, PhaseNext
      <4> QED BY <1>6, <4>1, PhaseDomain
    <3>2. Settled(m, wres[m]) /\ wres[m] \in Result /\ Terminal(wres[m])
      BY <1>1, <1>11, WorkerSettled DEF PublishResult, WorkerOk
    <3>3. Ledger!True(m, wres[m])
      BY <1>1, <3>2, HonestIsTrue DEF Settled
    <3>4. Ledger!Tell(m)
      BY <1>11, <2>3, <3>1, <3>2, <3>3, LedgerActions DEF PublishResult, Terminal
    <3> QED BY <3>4 DEF Ledger!Next
  <2> QED BY <1>11, <2>2, <2>3 DEF PublishResult
<1>12. CASE Dispatch(m)
  <2>1. /\ MayWrite(m)
        /\ published' = published
        /\ [msg |-> m, res |-> accepted] \in published
        /\ WroteFirst(m, wdone[m])
        /\ wdone[m] < Steps[m]
        /\ wdone[m] \in Nat
        /\ Steps[m] \in Nat
    BY <1>1, <1>3, <1>12, MessageAssumption DEF Dispatch, WorkerOk, Working, TypeOK
  <2>2. CASE writes' = writes
    BY <1>5, <2>1, <2>2
  <2>3. CASE Enter(m, wdone[m] + 1)
    <3>0. PICK k \in Nat : k = wdone[m]
      BY <2>1
    <3>1. WroteFirst(m, k + 1)'
      BY <1>1, <2>1, <2>3, <3>0, EnterWrites
    <3>2. TypeOK'
      BY DEF IInv
    <3>3. writes'[m] = Ledger!Prefix(m, k + 1)
      <4>1. writes'[m] = [i \in 1 .. Steps[m] |-> writes'[m][i]]
        BY <3>2 DEF TypeOK
      <4>2. \A i \in 1 .. Steps[m] : writes'[m][i] = IF i <= k + 1 THEN 1 ELSE 0
        BY <3>1 DEF WroteFirst
      <4> QED BY <4>1, <4>2 DEF Ledger!Prefix
    <3>4. writes' = [writes EXCEPT ![m] = Ledger!Prefix(m, k + 1)]
      BY <1>1, <2>3, <3>0, <3>3 DEF Enter, TypeOK
    <3>5. writes[m] = Ledger!Prefix(m, k) /\ k \in 0 .. Steps[m] - 1
      BY <1>1, <2>1, <3>0, PrefixIsFirst
    <3>6. Ledger!Perform(m)
      BY <1>7, <2>1, <3>4, <3>5, LedgerActions
    <3> QED BY <3>6 DEF Ledger!Next
  <2> QED BY <1>12, <2>2, <2>3 DEF Dispatch
<1> QED BY <1>8, <1>9, <1>10, <1>11, <1>12 DEF Execute

LEMMA LedgerStep ==
  ASSUME IInv, IInv', ReplayedInv, [Next]_vars
  PROVE  [Ledger!Next]_(Ledger!vars)
<1> USE DEF clockVars, rxVars, workerVars, Return
<1>1. TypeOK /\ RxTyped /\ SlotOwned /\ RxInv /\ ReplayInv
  BY DEF IInv
<1>2. /\ \A n \in Message : MayWrite(n) => n \in admitted
      /\ \A n \in Message : MayWrite(n)' => n \in admitted'
  BY WritersAdmitted
<1>3. ASSUME UNCHANGED <<admitted, writes, published>>,
             \A n \in Message : MayWrite(n)' <=> MayWrite(n)
      PROVE  [Ledger!Next]_(Ledger!vars)
  <2>1. Phase' = Phase
    BY <1>3 DEF Phase
  <2> QED BY <1>3, <2>1, LedgerVars
<1>4. ASSUME NEW m \in Message, Receive(m) PROVE [Ledger!Next]_(Ledger!vars)
  BY <1>3, <1>4 DEF Receive, MayWrite
<1>5. CASE Lookup \/ Admit \/ Prepare \/ Reject
  BY <1>3, <1>5 DEF Lookup, Admit, Prepare, Reject, MayWrite
<1>6. CASE Replay
  <2>0. PICK m \in Message : m = rmsg
    BY <1>1, <1>6 DEF Replay, RxTyped
  <2>1. CASE published' = published
    BY <1>3, <1>6, <2>1 DEF Replay, MayWrite
  <2>2. CASE published' = published \cup {[msg |-> m, res |-> rfound]}
    <3>1. m \in admitted /\ rfound \in Result
      BY <1>1, <1>6, <2>0 DEF Replay, ReplayedInv, RxTyped, TypeOK
    <3>2. UNCHANGED <<admitted, writes>> /\ \A n \in Message : MayWrite(n)' <=> MayWrite(n)
      BY <1>6 DEF Replay, MayWrite
    <3>3. Phase' = Phase
      BY <3>2 DEF Phase
    <3>4. CASE rfound.status = "accepted"
      <4>1. rfound = accepted
        BY <1>6, <3>4 DEF Replay, ReplayedInv
      <4>2. Phase[m] # "new"
        BY <1>2, <3>1, PhaseOf
      <4>3. Ledger!Announce(m)
        BY <2>2, <3>1, <3>2, <3>3, <4>1, <4>2, LedgerActions
      <4> QED BY <4>3 DEF Ledger!Next
    <3>5. CASE rfound.status # "accepted"
      <4>1. ~ MayWrite(m) /\ Honest(m, rfound)
        BY <1>1, <1>6, <2>0, <3>5 DEF Replay, ReplayInv, Settled, Terminal
      <4>2. Phase[m] = "settled"
        BY <1>2, <3>1, <4>1, PhaseOf
      <4>3. Ledger!True(m, rfound)
        BY <1>1, <3>1, <4>1, HonestIsTrue
      <4>4. Ledger!Tell(m)
        BY <2>2, <3>1, <3>2, <3>3, <3>5, <4>2, <4>3, LedgerActions
      <4> QED BY <4>4 DEF Ledger!Next
    <3> QED BY <3>4, <3>5
  <2> QED BY <1>6, <2>0, <2>1, <2>2 DEF Replay
<1>7. CASE Reserve
  <2>0. PICK m \in Message : m = rmsg
    BY <1>1, <1>7 DEF Reserve, RxTyped
  <2>1. /\ m \notin admitted
        /\ \A n \in Message : wpc[n] = "none"
        /\ UNCHANGED <<rmsg, wpc, writes, published>>
    BY <1>1, <1>7, <2>0 DEF Reserve, RxTyped, RxInv, SlotOwned
  <2>2. \A n \in Message : ~ MayWrite(n)
    BY <1>7, <2>1 DEF Reserve, MayWrite
  <2>3. CASE rpc' = "reject" /\ admitted' = admitted
    BY <1>3, <2>1, <2>2, <2>3 DEF MayWrite
  <2>4. CASE rpc' = "start" /\ admitted' = admitted \cup {m}
    <3>1. MayWrite(m)' /\ \A n \in Message \ {m} : ~ MayWrite(n)'
      BY <2>0, <2>1, <2>4 DEF MayWrite
    <3>2. \A n \in Message \ {m} : Phase'[n] = Phase[n]
      <4> SUFFICES ASSUME NEW n \in Message \ {m} PROVE Phase'[n] = Phase[n]
        OBVIOUS
      <4> QED BY <2>2, <2>4, <3>1 DEF Phase
    <3>3. Phase[m] = "new" /\ Phase'[m] = "running"
      <4>1. Phase[m] = "new"
        BY <1>2, <2>1, PhaseOf
      <4>2. m \in admitted' /\ MayWrite(m)'
        BY <2>4, <3>1
      <4> QED BY <4>1, <4>2, PhaseNext
    <3>4. Phase' = [Phase EXCEPT ![m] = "running"]
      BY <2>1, <3>2, <3>3, PhaseDomain
    <3>5. \A n \in Message : Phase[n] # "running"
      BY <1>2, <2>2, PhaseOf
    <3>6. Ledger!Take(m)
      BY <2>1, <3>3, <3>4, <3>5, LedgerActions
    <3> QED BY <3>6 DEF Ledger!Next
  <2> QED BY <1>7, <2>0, <2>3, <2>4 DEF Reserve
<1>8. CASE StartWorker
  <2>1. /\ rmsg \in Message /\ MayWrite(rmsg)
        /\ \A n \in Message : wpc[n] = "none"
        /\ UNCHANGED <<admitted, writes, published>>
    BY <1>1, <1>8 DEF StartWorker, RxTyped, SlotOwned, MayWrite
  <2>2. \A n \in Message \ {rmsg} : MayWrite(n)' <=> MayWrite(n)
    BY <1>1, <1>8, <2>1 DEF StartWorker, MayWrite, TypeOK
  <2> QED BY <2>1, <2>2, QuietStep
<1>9. ASSUME NEW m \in Message, Execute(m) PROVE [Ledger!Next]_(Ledger!vars)
  BY <1>9, LedgerWorkerStep
<1>10. CASE Crash
  <2>1. UNCHANGED <<admitted, writes, published>> /\ \A n \in Message : ~ MayWrite(n)'
    BY <1>10 DEF Crash, MayWrite
  <2>2. CASE \A n \in Message : ~ MayWrite(n)
    BY <1>3, <2>1, <2>2
  <2>3. ASSUME NEW m \in Message, MayWrite(m) PROVE [Ledger!Next]_(Ledger!vars)
    <3>1. \A n \in Message \ {m} : ~ MayWrite(n)
      BY <1>1, <2>3 DEF MayWrite, SlotOwned
    <3> QED BY <2>1, <2>3, <3>1, QuietStep
  <2> QED BY <2>2, <2>3
<1>11. CASE BeginClose \/ Shutdown \/ Recover \/ Tick \/ SetBack \/ UNCHANGED vars
  BY <1>3, <1>11 DEF BeginClose, Shutdown, JoinWorker, StopLoop, LoopStopped, Recover, Tick, SetBack,
     vars, MayWrite
<1> QED BY <1>4, <1>5, <1>6, <1>7, <1>8, <1>9, <1>10, <1>11 DEF Next, NetworkThread

(* Every behaviour of the service is one of the ledger's. *)
THEOREM ServiceImplementsLedger ==
  ASSUME MaxSetback <= Retention
  PROVE  Spec => ImplementsLedger
<1>1. Init => ReplayedInv
  BY DEF Init, ReplayedInv
<1> QED
  BY <1>1, Inductive, ReplayedStep, LedgerInit, LedgerStep, PTL DEF Spec, ImplementsLedger, Ledger!Spec
=============================================================================
