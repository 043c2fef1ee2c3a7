-------------------------- MODULE ObdChannelProofs --------------------------
(***************************************************************************)
(* Proofs about ObdChannel for every list of PIDs, every assignment of     *)
(* headers and every bound.  The argument: outside a session nothing is    *)
(* scheduled, and inside one the command that is awaited is the head of a  *)
(* script of a known shape, so whatever answer is accepted for it is       *)
(* recorded under the PID the command names; and online is "yes" exactly   *)
(* while a poll cycle runs, or when a stop has ended one.                  *)
(***************************************************************************)
EXTENDS ObdChannel, TLAPS

Header == {Default, NoHeader} \cup Range(Override)
Cmd ==
  [op : {"setup", "probe", "again", "describe", "header"}, arg : Header] \cup [op : {"pid"}, arg : Pid]
Reply == [to : Cmd, ok : BOOLEAN, header : Header]
InitCmd == {Setup, Probe, Again, Describe}

-----------------------------------------------------------------------------
(* The inductive invariant. *)

PlacesOK ==
  /\ phase \in {"connect", "init", "poll", "waiting", "ended"}
  /\ online \in {"unknown", "yes", "no"} /\ snapshot \in {"none", "values", "cleared"}
  /\ stale \in BOOLEAN /\ stop \in BOOLEAN /\ ecu \in BOOLEAN

(* The adapter and the socket, and the bound on late answers. *)
WireOK ==
  /\ pending \in Seq(Cmd) /\ wire \in Seq(Reply) /\ header \in Header
  /\ Len(wire) + Len(pending) <= MaxLate + 1

CycleOK ==
  /\ values \in [Pid -> SUBSET Reply] /\ done \subseteq Pid
  /\ current \in {Default} \cup Range(Override)
  /\ \A p \in Pid : values[p] # {} => p \in done

(* The commands for the PID at hand: its request, with its header in front or not. *)
RequestOf(s, p) ==
  \/ Len(s) = 1 /\ s[1] = Command("pid", p)
  \/ Len(s) = 2 /\ s[1] = Command("header", Target(p)) /\ s[2] = Command("pid", p)

(* What is scheduled, per phase, and what is awaited: the head of it. *)
ScriptOK ==
  /\ script \in Seq(Cmd)
  /\ phase \notin {"init", "poll"} => script = <<>>
  /\ phase = "init" => script \in Seq(InitCmd)
  /\ phase = "poll" => script = <<>> \/ \E p \in Pid : RequestOf(script, p)
  /\ sent # {} => script # <<>> /\ sent = {Head(script)}

(* failed_cycles and the retries, within their limits. *)
CountersOK ==
  /\ failed \in Nat /\ failed < MaxFailedCycles
  /\ failures \in Nat /\ failures <= MaxRetry + 1
  /\ phase # "ended" => failures <= MaxRetry

(* Who has been told that the source is online. *)
OnlineOK ==
  /\ phase = "poll" => online = "yes" /\ failures = 0
  /\ phase \in {"connect", "init", "waiting"} => online # "yes"
  /\ phase = "ended" /\ ~stop => online # "yes"
  /\ online # "yes" => snapshot # "values"

ObdInv ==
  PlacesOK /\ WireOK /\ CycleOK /\ ScriptOK /\ CountersOK /\ OnlineOK /\ OwnAnswer
-----------------------------------------------------------------------------
(* Facts about the operators. *)

LEMMA ConstantFacts ==
  /\ Order \in Seq(Pid) /\ Len(Order) > 0 /\ Order[1] \in Pid
  /\ \A i \in DOMAIN Order : Order[i] \in Pid
  /\ \A p \in Pid : Target(p) \in {Default} \cup Range(Override)
  /\ MaxFailedCycles \in Nat \ {0} /\ MaxRetry \in Nat /\ MaxLate \in Nat
<1>1. Order \in Seq(Pid) /\ Len(Order) > 0
  BY ObdAssumption
<1>2. \A i \in DOMAIN Order : Order[i] \in Pid
  BY DEF Pid, Range
<1>3. \A p \in Pid : Target(p) \in {Default} \cup Range(Override)
  BY ObdAssumption DEF Target, Range
<1> QED BY <1>1, <1>2, <1>3, ObdAssumption

LEMMA CommandType ==
  /\ \A p \in Pid : Command("pid", p) \in Cmd
  /\ \A p \in Pid : Command("header", Target(p)) \in Cmd
  /\ InitCmd \subseteq Cmd
BY ConstantFacts DEF Command, Cmd, Header, InitCmd, Setup, Probe, Again, Describe

(* What a command is asked for does not depend on what else is in it. *)
LEMMA CommandFields ==
  /\ \A op, arg : Command(op, arg).op = op /\ Command(op, arg).arg = arg
  /\ \A c \in InitCmd : c.op \in {"setup", "probe", "again", "describe"}
  /\ Again \in InitCmd /\ Describe \in InitCmd
BY DEF Command, InitCmd, Setup, Probe, Again, Describe

LEMMA RequestsShape ==
  ASSUME NEW p \in Pid, NEW now
  PROVE  Requests(p, now) \in Seq(Cmd) /\ RequestOf(Requests(p, now), p)
<1>1. CASE Target(p) # NoHeader /\ Target(p) # now
  <2> DEFINE first == Command("header", Target(p))
             second == Command("pid", p)
  <2>0. Requests(p, now) = <<first>> \o <<second>>
    BY <1>1, Zenon DEF Requests
  <2>1. first \in Cmd /\ second \in Cmd
    BY CommandType
  <2>2. /\ Requests(p, now) \in Seq(Cmd) /\ Len(Requests(p, now)) = 2
        /\ Requests(p, now)[1] = first /\ Requests(p, now)[2] = second
    <3> HIDE DEF first, second
    <3>1. <<first>> \in Seq(Cmd) /\ Len(<<first>>) = 1 /\ <<first>>[1] = first
      BY <2>1
    <3>2. <<second>> \in Seq(Cmd) /\ Len(<<second>>) = 1 /\ <<second>>[1] = second
      BY <2>1
    <3> QED BY <2>0, <3>1, <3>2
  <2> QED BY <2>2 DEF RequestOf
<1>2. CASE ~(Target(p) # NoHeader /\ Target(p) # now)
  <2> DEFINE only == Command("pid", p)
  <2>0. Requests(p, now) = <<>> \o <<only>>
    BY <1>2, Zenon DEF Requests
  <2>1. only \in Cmd
    BY CommandType
  <2>2. Requests(p, now) \in Seq(Cmd) /\ Len(Requests(p, now)) = 1 /\ Requests(p, now)[1] = only
    <3> HIDE DEF only
    <3>1. <<only>> \in Seq(Cmd) /\ Len(<<only>>) = 1 /\ <<only>>[1] = only
      BY <2>1
    <3>2. <<>> \in Seq(Cmd) /\ Len(<<>>) = 0
      OBVIOUS
    <3> QED BY <2>0, <3>1, <3>2
  <2> QED BY <2>2 DEF RequestOf
<1> QED BY <1>1, <1>2

(* The first commands of a cycle. *)
LEMMA FirstRequests ==
  /\ Requests(Head(Order), Default) \in Seq(Cmd)
  /\ \E p \in Pid : RequestOf(Requests(Head(Order), Default), p)
<1>1. Head(Order) \in Pid
  BY ConstantFacts
<1> QED BY <1>1, RequestsShape

LEMMA TypeParts ==
  /\ ObdInv => TypeOK
  /\ ObdInv => OfflineIsCleared
BY DEF ObdInv, TypeOK, OfflineIsCleared, PlacesOK, WireOK, CycleOK, ScriptOK, CountersOK, OnlineOK
-----------------------------------------------------------------------------
LEMMA InitInv == Init => ObdInv
<1> SUFFICES ASSUME Init PROVE ObdInv
  OBVIOUS
<1> USE ConstantFacts DEF Init
<1>1. PlacesOK /\ CountersOK /\ OnlineOK
  <2>1. PlacesOK
    BY DEF PlacesOK
  <2>2. CountersOK
    BY DEF CountersOK
  <2>3. OnlineOK
    BY DEF OnlineOK
  <2> QED BY <2>1, <2>2, <2>3
<1>2. WireOK
  BY DEF WireOK, Header
<1>3. CycleOK /\ OwnAnswer
  BY DEF CycleOK, OwnAnswer, NoValues
<1>4. ScriptOK
  BY DEF ScriptOK
<1> QED BY <1>1, <1>2, <1>3, <1>4 DEF ObdInv

(* A session that fails leaves nothing scheduled and, when it is to be retried, *)
(* announces the source offline; it cannot give up while the source is online.  *)
LEMMA SessionFailsStep ==
  ASSUME ObdInv, SessionFails, phase # "ended"
  PROVE  ObdInv'
<1> USE ConstantFacts DEF ObdInv
<1>1. /\ sent' = {} /\ stale' = FALSE /\ pending' = <<>> /\ wire' = <<>> /\ header' = NoHeader
      /\ script' = <<>>
      /\ UNCHANGED <<failed, current, values, done, stop, ecu>>
  BY DEF SessionFails
<1>2. \/ stop /\ phase' = "ended" /\ UNCHANGED <<failures, online, snapshot>>
      \/ /\ ~stop /\ phase' = "ended" /\ MaxRetry > 0 /\ failures' = failures + 1
         /\ failures' > MaxRetry /\ UNCHANGED <<online, snapshot>>
      \/ /\ ~stop /\ phase' = "waiting" /\ online' = "no"
         /\ snapshot' = IF online = "yes" THEN "cleared" ELSE snapshot
         /\ failures' = (IF MaxRetry = 0 THEN 0 ELSE failures + 1) /\ failures' <= MaxRetry
  BY DEF SessionFails, SetOnline, CountersOK
<1>3. PlacesOK'
  BY <1>1, <1>2 DEF PlacesOK
<1>4. WireOK'
  BY <1>1 DEF WireOK, Header
<1>5. CycleOK' /\ OwnAnswer'
  BY <1>1 DEF CycleOK, OwnAnswer
<1>6. ScriptOK'
  BY <1>1 DEF ScriptOK
<1>7. CountersOK'
  BY <1>1, <1>2 DEF CountersOK
<1>8. OnlineOK'
  BY <1>1, <1>2 DEF OnlineOK, PlacesOK, CountersOK
<1> QED BY <1>3, <1>4, <1>5, <1>6, <1>7, <1>8

LEMMA ConnectStep == ObdInv /\ Connect => ObdInv'
<1> SUFFICES ASSUME ObdInv, Connect PROVE ObdInv'
  OBVIOUS
<1>1. CASE SessionFails
  BY <1>1, SessionFailsStep DEF Connect
<1>2. CASE ~SessionFails
  <2>1. /\ phase = "connect" /\ phase' = "init" /\ script' = <<Setup, Probe>>
        /\ UNCHANGED <<channelVars, snapshot, online, failed, failures, current, values, done, stop, ecu>>
    BY <1>2 DEF Connect
  <2>2. PlacesOK' /\ WireOK' /\ CycleOK' /\ CountersOK' /\ OnlineOK' /\ OwnAnswer'
    BY <2>1 DEF ObdInv, PlacesOK, WireOK, CycleOK, CountersOK, OnlineOK, OwnAnswer, channelVars
  <2>3. <<Setup, Probe>> \in Seq(InitCmd)
    BY DEF InitCmd
  <2>4. ScriptOK'
    BY <2>1, <2>3, CommandType DEF ObdInv, ScriptOK, channelVars
  <2> QED BY <2>2, <2>4 DEF ObdInv
<1> QED BY <1>1, <1>2

LEMMA RetryStep == ObdInv /\ Retry => ObdInv'
BY DEF ObdInv, Retry, PlacesOK, WireOK, CycleOK, ScriptOK, CountersOK, OnlineOK, OwnAnswer,
       channelVars, cycleVars

LEMMA DiscardStep == ObdInv /\ Discard => ObdInv'
<1> SUFFICES ASSUME ObdInv, Discard PROVE ObdInv'
  OBVIOUS
<1>1. wire' \in Seq(Reply) /\ Len(wire') <= Len(wire)
  <2>1. CASE wire = <<>>
    BY <2>1 DEF Discard, ObdInv, WireOK
  <2>2. CASE wire # <<>>
    <3>1. PICK n \in 1 .. Len(wire) : wire' = SubSeq(wire, n + 1, Len(wire))
      BY <2>2 DEF Discard
    <3> QED BY <3>1 DEF ObdInv, WireOK
  <2> QED BY <2>1, <2>2
<1>2. WireOK'
  BY <1>1, ConstantFacts DEF Discard, ObdInv, WireOK
<1>3. PlacesOK' /\ CycleOK' /\ ScriptOK' /\ CountersOK' /\ OnlineOK' /\ OwnAnswer'
  BY DEF Discard, ObdInv, PlacesOK, CycleOK, ScriptOK, CountersOK, OnlineOK, OwnAnswer,
         daemonVars, cycleVars
<1> QED BY <1>2, <1>3 DEF ObdInv

LEMMA SendStep == ObdInv /\ Send => ObdInv'
<1> SUFFICES ASSUME ObdInv, Send PROVE ObdInv'
  OBVIOUS
<1>1. Head(script) \in Cmd
  BY DEF Send, ObdInv, ScriptOK
<1>2. WireOK'
  <2>1. CASE UNCHANGED pending
    BY <2>1 DEF Send, ObdInv, WireOK
  <2>2. CASE Len(pending) + Len(wire) <= MaxLate /\ pending' = Append(pending, Head(script))
    BY <1>1, <2>2, ConstantFacts DEF Send, ObdInv, WireOK
  <2> QED BY <2>1, <2>2 DEF Send
<1>3. ScriptOK'
  BY DEF Send, ObdInv, ScriptOK, daemonVars, cycleVars
<1>4. PlacesOK' /\ CycleOK' /\ CountersOK' /\ OnlineOK' /\ OwnAnswer'
  BY DEF Send, ObdInv, PlacesOK, CycleOK, CountersOK, OnlineOK, OwnAnswer, daemonVars, cycleVars
<1> QED BY <1>2, <1>3, <1>4 DEF ObdInv

LEMMA StopStep == ObdInv /\ Stop => ObdInv'
BY DEF ObdInv, Stop, PlacesOK, WireOK, CycleOK, ScriptOK, CountersOK, OnlineOK, OwnAnswer,
       channelVars, daemonVars, cycleVars

LEMMA EcuOffStep == ObdInv /\ EcuOff => ObdInv'
<1> SUFFICES ASSUME ObdInv, EcuOff PROVE ObdInv'
  OBVIOUS
<1>1. ecu' \in BOOLEAN
  BY DEF EcuOff
<1>2. UNCHANGED <<channelVars, daemonVars, cycleVars, stop>>
  BY DEF EcuOff
<1> QED BY <1>1, <1>2 DEF ObdInv, PlacesOK, WireOK, CycleOK, ScriptOK, CountersOK,
       OnlineOK, OwnAnswer, channelVars, daemonVars, cycleVars

LEMMA AbortStep == ObdInv /\ Abort => ObdInv'
BY SessionFailsStep DEF Abort, ObdInv, ScriptOK
-----------------------------------------------------------------------------
(* What an answer, a refusal or a timeout does to the cycle. *)

(* A PID that is recorded with answers to it keeps every value under its own *)
(* name, and what remains of the script is for the next PID.                 *)
LEMMA RecordStep ==
  ASSUME ObdInv, NEW p \in Pid, NEW v \in SUBSET Reply, \A a \in v : a.to = Command("pid", p),
         NEW now \in {Default} \cup Range(Override), Record(p, v, now)
  PROVE  /\ CycleOK' /\ OwnAnswer'
         /\ script' \in Seq(Cmd)
         /\ script' = <<>> \/ \E q \in Pid : RequestOf(script', q)
<1>1. values' = [values EXCEPT ![p] = v] /\ done' = done \cup {p} /\ current' = now
  BY DEF Record
<1>2. values' \in [Pid -> SUBSET Reply]
  BY <1>1 DEF ObdInv, CycleOK
<1>3. values'[p] = v /\ \A q \in Pid \ {p} : values'[q] = values[q]
  BY <1>1 DEF ObdInv, CycleOK
<1>4. CycleOK'
  BY <1>1, <1>2, <1>3 DEF ObdInv, CycleOK
<1>5. OwnAnswer'
  BY <1>3 DEF ObdInv, OwnAnswer
<1>6. CASE script' = <<>>
  BY <1>4, <1>5, <1>6
<1>7. CASE script' # <<>>
  <2>1. PICK i \in DOMAIN Order : script' = Requests(Order[i], now)
    BY <1>7 DEF Record
  <2>2. Order[i] \in Pid
    BY ConstantFacts
  <2> QED BY <1>4, <1>5, <2>1, <2>2, RequestsShape
<1> QED BY <1>6, <1>7

(* The end of a command, accepted or not. *)
LEMMA AdvanceStep ==
  ASSUME ObdInv, NEW c \in sent, NEW ok \in BOOLEAN, NEW a,
         ok => a \in Reply, ok /\ c.op = "pid" => a.to = c,
         Advance(c, ok, a), phase' = phase, sent' = {}
  PROVE  CycleOK' /\ OwnAnswer' /\ ScriptOK'
<1>1. script # <<>> /\ c = Head(script) /\ script \in Seq(Cmd) /\ c = script[1]
      /\ phase \in {"init", "poll"}
  BY DEF ObdInv, ScriptOK
<1>2. CASE phase = "init"
  <2>1. script \in Seq(InitCmd) /\ c \in InitCmd
    BY <1>1, <1>2 DEF ObdInv, ScriptOK
  <2>2. c.op \in {"setup", "probe", "again", "describe"}
    BY <2>1, CommandFields
  <2>3. /\ script' = CASE c.op \in {"setup", "describe"} -> Tail(script)
                       [] c.op = "probe" /\ ~ok -> <<Again>>
                       [] OTHER -> <<Describe>>
        /\ UNCHANGED <<current, values, done>>
    BY <2>2 DEF Advance
  <2>4. Tail(script) \in Seq(InitCmd) /\ <<Again>> \in Seq(InitCmd) /\ <<Describe>> \in Seq(InitCmd)
    BY <1>1, <2>1, CommandFields
  <2>5. script' \in Seq(InitCmd)
    BY <2>2, <2>3, <2>4
  <2>6. script' \in Seq(Cmd)
    BY <2>5, CommandType
  <2>7. ScriptOK'
    BY <1>2, <2>5, <2>6 DEF ScriptOK
  <2> QED BY <2>3, <2>7 DEF ObdInv, CycleOK, OwnAnswer
<1>3. CASE phase = "poll"
  <2>1. PICK p \in Pid : RequestOf(script, p)
    BY <1>1, <1>3 DEF ObdInv, ScriptOK
  <2>2. CASE Len(script) = 1
    <3>1. c = Command("pid", p) /\ c.op = "pid" /\ c.arg = p
      BY <1>1, <2>1, <2>2, CommandFields DEF RequestOf
    <3> DEFINE v == IF ok THEN {a} ELSE {}
    <3>2. Record(p, v, current)
      BY <3>1 DEF Advance
    <3>3. v \in SUBSET Reply /\ \A x \in v : x.to = Command("pid", p)
      BY <3>1
    <3>4. current \in {Default} \cup Range(Override)
      BY DEF ObdInv, CycleOK
    <3> HIDE DEF v
    <3>5. /\ CycleOK' /\ OwnAnswer' /\ script' \in Seq(Cmd)
          /\ script' = <<>> \/ \E q \in Pid : RequestOf(script', q)
      BY <3>2, <3>3, <3>4, RecordStep
    <3> QED BY <1>3, <3>5 DEF ScriptOK
  <2>3. CASE Len(script) = 2
    <3>1. /\ c = Command("header", Target(p)) /\ c.op = "header" /\ c.arg = Target(p)
          /\ script[2] = Command("pid", p) /\ script[2].arg = p
      BY <1>1, <2>1, <2>3, CommandFields DEF RequestOf
    <3>2. CASE ok
      <4>1. script' = Tail(script) /\ current' = Target(p) /\ UNCHANGED <<values, done>>
        BY <3>1, <3>2 DEF Advance
      <4>2. script' \in Seq(Cmd) /\ Len(script') = 1 /\ script'[1] = Command("pid", p)
        <5>1. Tail(script) \in Seq(Cmd) /\ Len(Tail(script)) = 1 /\ Tail(script)[1] = script[2]
          BY <1>1, <2>3
        <5> QED BY <3>1, <4>1, <5>1
      <4>3. CycleOK' /\ OwnAnswer'
        BY <4>1, ConstantFacts DEF ObdInv, CycleOK, OwnAnswer
      <4>4. RequestOf(script', p)
        BY <4>2 DEF RequestOf
      <4> QED BY <1>3, <4>2, <4>3, <4>4 DEF ScriptOK
    <3>3. CASE ~ok
      <4>1. Record(p, {}, current)
        BY <3>1, <3>3 DEF Advance
      <4>2. current \in {Default} \cup Range(Override)
        BY DEF ObdInv, CycleOK
      <4>3. /\ CycleOK' /\ OwnAnswer' /\ script' \in Seq(Cmd)
            /\ script' = <<>> \/ \E q \in Pid : RequestOf(script', q)
        BY <4>1, <4>2, RecordStep
      <4> QED BY <1>3, <4>3 DEF ScriptOK
    <3> QED BY <3>2, <3>3
  <2> QED BY <2>1, <2>2, <2>3 DEF RequestOf
<1> QED BY <1>1, <1>2, <1>3

LEMMA ReceiveStep == ObdInv /\ Receive => ObdInv'
<1> SUFFICES ASSUME ObdInv, Receive PROVE ObdInv'
  OBVIOUS
<1>1. PICK c \in sent, n \in 1 .. Len(wire) :
        LET a == Head(wire)
            ok == Accepted(a, c)
        IN IF Fatal(c, ok) THEN SessionFails
           ELSE /\ Advance(c, ok, a)
                /\ sent' = {}
                /\ wire' = SubSeq(wire, n + 1, Len(wire))
                /\ UNCHANGED <<daemonVars, stale, pending, header, stop, ecu>>
  BY DEF Receive
<1> DEFINE a == Head(wire)
           ok == Accepted(a, c)
<1>2. CASE SessionFails
  BY <1>1, <1>2, SessionFailsStep DEF ObdInv, ScriptOK
<1>3. CASE ~SessionFails
  <2>1. /\ Advance(c, ok, a) /\ sent' = {}
        /\ wire' = SubSeq(wire, n + 1, Len(wire))
        /\ UNCHANGED <<daemonVars, stale, pending, header, stop, ecu>>
    BY <1>1, <1>3
  <2>2. wire \in Seq(Reply) /\ wire # <<>> /\ a \in Reply
    BY DEF Receive, ObdInv, WireOK
  <2>3. ok \in BOOLEAN /\ (ok /\ c.op = "pid" => a.to = c)
    <3> HIDE DEF a
    <3>1. a.ok \in BOOLEAN
      BY <2>2 DEF Reply
    <3> QED BY <3>1, Zenon DEF Accepted
  <2>4. phase' = phase
    BY <2>1 DEF daemonVars
  <2> HIDE DEF a, ok
  <2>5. CycleOK' /\ OwnAnswer' /\ ScriptOK'
    BY <2>1, <2>2, <2>3, <2>4, AdvanceStep
  <2>6. wire' \in Seq(Reply) /\ Len(wire') <= Len(wire)
    BY <2>1, <2>2
  <2>7. WireOK'
    BY <2>1, <2>6, ConstantFacts DEF ObdInv, WireOK
  <2>8. PlacesOK' /\ CountersOK' /\ OnlineOK'
    BY <2>1 DEF ObdInv, PlacesOK, CountersOK, OnlineOK, daemonVars
  <2> QED BY <2>5, <2>7, <2>8 DEF ObdInv
<1> QED BY <1>2, <1>3

LEMMA TimeoutStep == ObdInv /\ Timeout => ObdInv'
<1> SUFFICES ASSUME ObdInv, Timeout PROVE ObdInv'
  OBVIOUS
<1>1. CASE phase = "init"
  BY <1>1, SessionFailsStep DEF Timeout
<1>2. CASE phase # "init"
  <2>1. PICK c \in sent : Advance(c, FALSE, {})
    BY <1>2 DEF Timeout
  <2>2. sent' = {} /\ stale' = TRUE /\ UNCHANGED <<daemonVars, wire, header, stop, ecu>>
    BY <1>2 DEF Timeout
  <2>3. pending' = pending \/ (pending # <<>> /\ pending' = Front(pending))
    BY <1>2 DEF Timeout
  <2>4. phase' = phase
    BY <2>2 DEF daemonVars
  <2>5. CycleOK' /\ OwnAnswer' /\ ScriptOK'
    BY <2>1, <2>2, <2>4, AdvanceStep
  <2>6. pending' \in Seq(Cmd) /\ Len(pending') <= Len(pending)
    <3>1. CASE pending # <<>> /\ pending' = Front(pending)
      <4>1. pending' = SubSeq(pending, 1, Len(pending) - 1)
        BY <3>1 DEF Front
      <4> QED BY <3>1, <4>1 DEF ObdInv, WireOK
    <3> QED BY <2>3, <3>1 DEF ObdInv, WireOK
  <2>7. WireOK'
    BY <2>2, <2>6, ConstantFacts DEF ObdInv, WireOK
  <2>8. PlacesOK' /\ CountersOK' /\ OnlineOK'
    BY <2>2 DEF ObdInv, PlacesOK, CountersOK, OnlineOK, daemonVars
  <2> QED BY <2>5, <2>7, <2>8 DEF ObdInv
<1> QED BY <1>1, <1>2

LEMMA AnswerStep == ObdInv /\ Answer => ObdInv'
<1> SUFFICES ASSUME ObdInv, Answer PROVE ObdInv'
  OBVIOUS
<1> DEFINE c == Head(pending)
<1>1. PICK ok \in BOOLEAN :
        /\ header' = IF ok /\ c.op \in {"setup", "header"} THEN c.arg ELSE header
        /\ wire' = Append(wire, [to |-> c, ok |-> ok, header |-> header])
  BY DEF Answer
<1>2. pending # <<>> /\ pending' = Tail(pending)
      /\ UNCHANGED <<daemonVars, cycleVars, sent, stale, stop, ecu>>
  BY DEF Answer
<1>3. c \in Cmd
  BY <1>2 DEF ObdInv, WireOK
<1>4. PlacesOK' /\ CycleOK' /\ ScriptOK' /\ CountersOK' /\ OnlineOK' /\ OwnAnswer'
  BY <1>2 DEF ObdInv, PlacesOK, CycleOK, ScriptOK, CountersOK, OnlineOK, OwnAnswer,
              daemonVars, cycleVars
<1>5. pending' \in Seq(Cmd) /\ Len(pending') = Len(pending) - 1
  BY <1>2 DEF ObdInv, WireOK
<1>6. wire' \in Seq(Reply) /\ Len(wire') = Len(wire) + 1
  <2> DEFINE reply == [to |-> c, ok |-> ok, header |-> header]
  <2>1. reply \in Reply
    BY <1>3 DEF ObdInv, WireOK, Reply
  <2>2. wire' = Append(wire, reply)
    BY <1>1
  <2> HIDE DEF reply
  <2> QED BY <2>1, <2>2 DEF ObdInv, WireOK
<1>7. header' \in Header
  <2> HIDE DEF c
  <2>1. c.op \in {"setup", "header"} => c.arg \in Header
    BY <1>3 DEF Cmd
  <2> QED BY <1>1, <2>1 DEF ObdInv, WireOK
<1>8. WireOK'
  BY <1>5, <1>6, <1>7 DEF ObdInv, WireOK
<1> QED BY <1>4, <1>8 DEF ObdInv
-----------------------------------------------------------------------------
(* The beginning and the end of a cycle. *)

LEMMA FreshCycle ==
  ASSUME ObdInv, phase' = "poll", values' = NoValues, done' = {}, current' = Default,
         script' = Requests(Head(Order), Default), sent' = {}
  PROVE  CycleOK' /\ OwnAnswer' /\ ScriptOK'
<1>1. CycleOK' /\ OwnAnswer'
  BY DEF CycleOK, OwnAnswer, NoValues
<1>2. ScriptOK'
  BY FirstRequests DEF ScriptOK
<1> QED BY <1>1, <1>2

LEMMA OnlineStep == ObdInv /\ Online => ObdInv'
<1> SUFFICES ASSUME ObdInv, Online PROVE ObdInv'
  OBVIOUS
<1>1. sent = {}
  BY DEF Online, ObdInv, ScriptOK
<1>2. /\ phase' = "poll" /\ failures' = 0 /\ failed' = 0 /\ online' = "yes"
      /\ snapshot' = snapshot
      /\ values' = NoValues /\ done' = {} /\ current' = Default
      /\ script' = Requests(Head(Order), Default)
      /\ UNCHANGED <<channelVars, stop, ecu>>
  BY DEF Online, SetOnline
<1>3. CycleOK' /\ OwnAnswer' /\ ScriptOK'
  BY <1>1, <1>2, FreshCycle DEF channelVars
<1>4. PlacesOK' /\ OnlineOK'
  BY <1>2 DEF ObdInv, PlacesOK, OnlineOK, channelVars
<1>5. CountersOK' /\ WireOK'
  BY <1>2, ConstantFacts DEF ObdInv, CountersOK, WireOK, channelVars
<1> QED BY <1>3, <1>4, <1>5 DEF ObdInv

LEMMA EndCycleStep == ObdInv /\ EndCycle => ObdInv'
<1> SUFFICES ASSUME ObdInv, EndCycle PROVE ObdInv'
  OBVIOUS
<1>1. CASE AllFailed /\ TooManyFailures
  BY <1>1, SessionFailsStep DEF EndCycle
<1>2. CASE ~(AllFailed /\ TooManyFailures)
  <2>1. /\ phase = "poll" /\ script = <<>>
        /\ failed' = IF AllFailed THEN failed + 1 ELSE 0
        /\ snapshot' = IF AllFailed THEN snapshot ELSE "values"
        /\ values' = NoValues /\ done' = {} /\ current' = Default
        /\ UNCHANGED <<online, failures, stop, ecu>>
    BY <1>2 DEF EndCycle
  <2>2. sent = {} /\ online = "yes" /\ failures = 0
    BY <2>1 DEF ObdInv, ScriptOK, OnlineOK
  <2>3. failed' \in Nat /\ failed' < MaxFailedCycles
    BY <1>2, <2>1, ConstantFacts DEF ObdInv, CountersOK, TooManyFailures
  <2>4. CountersOK'
    BY <2>1, <2>2, <2>3, ConstantFacts DEF CountersOK
  <2>5. snapshot' \in {"none", "values", "cleared"}
    BY <2>1 DEF ObdInv, PlacesOK
  <2>6. CASE stop
    <3>1. /\ phase' = "ended" /\ script' = <<>> /\ pending' = <<>> /\ wire' = <<>>
          /\ header' = NoHeader /\ UNCHANGED <<stale, sent>>
      BY <1>2, <2>6 DEF EndCycle
    <3>2. PlacesOK' /\ OnlineOK'
      BY <2>1, <2>2, <2>5, <2>6, <3>1 DEF ObdInv, PlacesOK, OnlineOK
    <3>3. WireOK'
      BY <3>1, ConstantFacts DEF WireOK, Header
    <3>4. CycleOK' /\ OwnAnswer'
      BY <2>1 DEF CycleOK, OwnAnswer, NoValues
    <3>5. ScriptOK'
      BY <2>2, <3>1 DEF ScriptOK
    <3> QED BY <2>4, <3>2, <3>3, <3>4, <3>5 DEF ObdInv
  <2>7. CASE ~stop
    <3>1. script' = Requests(Head(Order), Default) /\ UNCHANGED <<phase, channelVars>>
      BY <1>2, <2>7 DEF EndCycle
    <3>2. CycleOK' /\ OwnAnswer' /\ ScriptOK'
      BY <2>1, <2>2, <3>1, FreshCycle DEF channelVars
    <3>3. PlacesOK' /\ OnlineOK' /\ WireOK'
      BY <2>1, <2>2, <2>5, <3>1 DEF ObdInv, PlacesOK, OnlineOK, WireOK, channelVars
    <3> QED BY <2>4, <3>2, <3>3 DEF ObdInv
  <2> QED BY <2>6, <2>7
<1> QED BY <1>1, <1>2
-----------------------------------------------------------------------------
(* The theorems. *)

LEMMA Invariant == Spec => []ObdInv
<1>1. ObdInv /\ UNCHANGED vars => ObdInv'
  BY DEF vars, channelVars, daemonVars, cycleVars, ObdInv, PlacesOK, WireOK, CycleOK, ScriptOK,
         CountersOK, OnlineOK, OwnAnswer
<1>2. ObdInv /\ Next => ObdInv'
  BY ConnectStep, RetryStep, DiscardStep, SendStep, ReceiveStep, TimeoutStep, OnlineStep,
     EndCycleStep, AbortStep, AnswerStep, StopStep, EcuOffStep DEF Next, SourceStep
<1> QED BY InitInv, <1>1, <1>2, PTL DEF Spec

(* The type invariant: in particular the answers that are late stay within    *)
(* the bound, a cycle has a value only for the PIDs it is through with, and   *)
(* neither counter of failures passes its limit.                              *)
THEOREM ChannelTypeCorrect == Spec => []TypeOK
BY Invariant, TypeParts, PTL

(* read_pid and _discard_stale: whatever the adapter answers, and however     *)
(* late, a value is stored under the name of a PID only if it was decoded     *)
(* from an answer to that PID.                                                *)
THEOREM AnswersAreOnesOwn == Spec => []OwnAnswer
<1>1. ObdInv => OwnAnswer
  BY DEF ObdInv
<1> QED BY Invariant, <1>1, PTL

(* _run_daemon and _set_online: a source that waits for its next session, or  *)
(* has used up its retries, has withdrawn its values and its online status.   *)
THEOREM LostSessionsAreCleared == Spec => []OfflineIsCleared
BY Invariant, TypeParts, PTL
=============================================================================
