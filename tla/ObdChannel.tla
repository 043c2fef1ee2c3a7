----------------------------- MODULE ObdChannel -----------------------------
(***************************************************************************)
(* The OBD source of sources/obd.py: the ELM327 command channel over a     *)
(* stream socket, the initialization and ECU probe of a session, the poll  *)
(* cycle over the configured PIDs, and the daemon loop that reconnects.    *)
(*                                                                         *)
(* The adapter is external: it executes commands in order, answers each    *)
(* when it likes or never, and takes an ATSH only when it says OK.  An     *)
(* answer that comes after its command has timed out stays in the socket.  *)
(* Answers are read whole; what a line looks like is left out.             *)
(***************************************************************************)
EXTENDS Integers, Sequences, SequencesExt

CONSTANTS
  Order,           (* the configured PIDs, in the order of the section     *)
  Override,        (* the CAN header of a PID, or NoHeader                 *)
  Default,         (* the header of the section, or NoHeader               *)
  NoHeader,        (* no header configured: the adapter's own              *)
  Fallback,        (* protocol 0 with a fallback_protocol                  *)
  MaxFailedCycles, (* max_failed_cycles                                    *)
  MaxRetry,        (* max_retry, 0 for no limit                            *)
  MaxLate          (* bound of the model: unread answers of past commands  *)

Pid == Range(Order)

ASSUME ObdAssumption ==
  /\ Order \in Seq(Pid) /\ Order # <<>> /\ IsInjective(Order)
  /\ DOMAIN Override = Pid
  /\ Fallback \in BOOLEAN
  /\ MaxFailedCycles \in Nat \ {0} /\ MaxRetry \in Nat /\ MaxLate \in Nat

VARIABLES
  phase,    (* of the daemon: connect, init, poll, waiting, ended              *)
  script,   (* the commands this initialization or cycle has yet to send       *)
  sent,     (* the command whose answer is awaited, a set of at most one       *)
  stale,    (* _stale: the previous command timed out                          *)
  pending,  (* external: commands the adapter has not answered                 *)
  wire,     (* answers in the socket                                           *)
  header,   (* external: the CAN header the adapter sends with                 *)
  current,  (* current_header of read_cycle: the header the source believes    *)
  values,   (* values of this cycle: per PID the set of the answer decoded      *)
  done,     (* the PIDs that have a value or are N/A in this cycle             *)
  snapshot, (* the last payload on the snapshot topic: none, values or cleared *)
  online,   (* _online: unknown (None), yes or no                               *)
  failed,   (* failed_cycles                                                   *)
  failures, (* consecutive failed sessions                                     *)
  stop,     (* the stop event                                                  *)
  ecu       (* external: the ECU answers                                       *)

channelVars == <<sent, stale, pending, wire, header>>
daemonVars == <<phase, snapshot, online, failed, failures>>
cycleVars == <<script, current, values, done>>
vars == <<channelVars, daemonVars, cycleVars, stop, ecu>>

Command(op, arg) == [op |-> op, arg |-> arg]
Setup == Command("setup", Default)       (* ATZ, ATE0 .. ATSP, ATSH *)
Probe == Command("probe", Default)       (* 0100 *)
Again == Command("again", Default)       (* ATSP<fallback>, then 0100 *)
Describe == Command("describe", Default) (* ATDP *)
ToEcu(c) == c.op \in {"probe", "again", "pid"}

Target(p) == IF Override[p] # NoHeader THEN Override[p] ELSE Default

(* The commands for one PID: its header first when it is not the current one. *)
Requests(p, now) ==
  (IF Target(p) # NoHeader /\ Target(p) # now THEN <<Command("header", Target(p))>> ELSE <<>>)
  \o <<Command("pid", p)>>

NoValues == [p \in Pid |-> {}]

-----------------------------------------------------------------------------
Init ==
  /\ phase = "connect" /\ script = <<>> /\ sent = {} /\ stale = FALSE
  /\ pending = <<>> /\ wire = <<>> /\ header = NoHeader /\ current = Default
  /\ values = NoValues /\ done = {}
  /\ snapshot = "none" /\ online = "unknown" /\ failed = 0 /\ failures = 0
  /\ stop = FALSE /\ ecu = TRUE

SetOnline(up) ==
  /\ online' = IF up THEN "yes" ELSE "no"
  /\ snapshot' = IF online = "yes" /\ ~up THEN "cleared" ELSE snapshot

(* The except and finally clauses of _run_daemon: the socket is closed. *)
SessionFails ==
  /\ sent' = {} /\ stale' = FALSE /\ pending' = <<>> /\ wire' = <<>> /\ header' = NoHeader
  /\ script' = <<>>
  /\ IF stop
     THEN phase' = "ended" /\ UNCHANGED <<failures, online, snapshot>>
     ELSE /\ failures' = IF MaxRetry = 0 THEN 0 ELSE failures + 1
          /\ IF MaxRetry > 0 /\ failures' > MaxRetry
             THEN phase' = "ended" /\ UNCHANGED <<online, snapshot>>
             ELSE phase' = "waiting" /\ SetOnline(FALSE)
  /\ UNCHANGED <<failed, current, values, done, stop, ecu>>

(* connect(): a new socket, with nothing left of the old one. *)
Connect ==
  /\ phase = "connect"
  /\ \/ SessionFails
     \/ /\ phase' = "init" /\ script' = <<Setup, Probe>>
        /\ UNCHANGED <<channelVars, snapshot, online, failed, failures, current, values, done, stop, ecu>>

(* The wait between sessions and the test of the loop; a stop ends both. *)
Retry ==
  /\ phase = "waiting"
  /\ phase' = IF stop THEN "ended" ELSE "connect"
  /\ UNCHANGED <<channelVars, snapshot, online, failed, failures, cycleVars, stop, ecu>>

-----------------------------------------------------------------------------
(* Elm327: one command at a time. *)

(* _discard_stale: what recv returns up to a prompt, or nothing within its time. *)
Discard ==
  /\ script # <<>> /\ sent = {} /\ stale
  /\ stale' = FALSE
  /\ IF wire = <<>> THEN UNCHANGED wire
     ELSE \E n \in 1 .. Len(wire) : wire' = SubSeq(wire, n + 1, Len(wire))
  /\ UNCHANGED <<daemonVars, cycleVars, sent, pending, header, stop, ecu>>

(* A busy adapter may miss the command. *)
Send ==
  /\ script # <<>> /\ sent = {} /\ ~stale /\ ~stop
  /\ sent' = {Head(script)}
  /\ \/ UNCHANGED pending
     \/ /\ Len(pending) + Len(wire) <= MaxLate
        /\ pending' = Append(pending, Head(script))
  /\ UNCHANGED <<daemonVars, cycleVars, stale, wire, header, stop, ecu>>

(* The adapter executes a command: it resets, switches the header, or asks the ECU. *)
Answer ==
  /\ pending # <<>>
  /\ \E ok \in BOOLEAN :
       LET c == Head(pending) IN
         /\ ok /\ ToEcu(c) => ecu
         /\ header' = IF ok /\ c.op \in {"setup", "header"} THEN c.arg ELSE header
         /\ wire' = Append(wire, [to |-> c, ok |-> ok, header |-> header])
  /\ pending' = Tail(pending)
  /\ UNCHANGED <<daemonVars, cycleVars, sent, stale, stop, ecu>>

MutAccepted(a, c) == a.ok
(* extract_data accepts data that echoes the mode and PID asked for; the other *)
(* commands want OK (setup, header) or anything (describe).  An answer stands  *)
(* for its mode and PID, which is all the code compares: the model has one     *)
(* responder, and no data that holds the prefix of another PID.                *)
Accepted(a, c) ==
  CASE c.op = "pid" -> a.ok /\ a.to = c
    [] c.op \in {"probe", "again"} -> a.ok /\ a.to.op \in {"probe", "again"}
    [] c.op \in {"setup", "header"} -> a.ok /\ ~ToEcu(a.to) /\ a.to.op # "describe"
    [] OTHER -> TRUE

(* A PID of the cycle has its value or is N/A: what remains of the script follows, *)
(* with the header commands its PIDs need now.                                    *)
Record(p, v, now) ==
  /\ values' = [values EXCEPT ![p] = v]
  /\ done' = done \cup {p}
  /\ current' = now
  /\ \/ Pid \subseteq done' /\ script' = <<>>
     \/ \E i \in DOMAIN Order :
          /\ Order[i] \notin done' /\ \A j \in 1 .. (i - 1) : Order[j] \in done'
          /\ script' = Requests(Order[i], now)

Advance(c, ok, a) ==
  CASE c.op = "pid" -> Record(c.arg, IF ok THEN {a} ELSE {}, current)
    [] c.op = "header" ->
         IF ok THEN script' = Tail(script) /\ current' = c.arg /\ UNCHANGED <<values, done>>
         ELSE Record(script[2].arg, {}, current)
    [] OTHER ->
         /\ script' = CASE c.op \in {"setup", "describe"} -> Tail(script)
                        [] c.op = "probe" /\ ~ok -> <<Again>>
                        [] OTHER -> <<Describe>>
         /\ UNCHANGED <<current, values, done>>

MutOnline ==
  /\ phase = "init" /\ script = <<>>
  /\ phase' = "poll" /\ failed' = 0 /\ SetOnline(TRUE)
  /\ values' = NoValues /\ done' = {} /\ current' = Default
  /\ script' = Requests(Head(Order), Default)
  /\ UNCHANGED <<channelVars, failures, stop, ecu>>
(* The end of initialize: the ECU answers, the first cycle begins. *)
Online ==
  /\ phase = "init" /\ script = <<>>
  /\ phase' = "poll" /\ failures' = 0 /\ failed' = 0 /\ SetOnline(TRUE)
  /\ values' = NoValues /\ done' = {} /\ current' = Default
  /\ script' = Requests(Head(Order), Default)
  /\ UNCHANGED <<channelVars, stop, ecu>>

(* A refusal ends an initialization, but a failed probe only without a fallback. *)
Fatal(c, ok) == ~ok /\ (c.op \in {"setup", "again"} \/ (c.op = "probe" /\ ~Fallback))

(* recv brings the first answer of the socket, and may bring more: bytes after *)
(* the prompt are dropped.                                                     *)
Receive ==
  /\ sent # {} /\ wire # <<>> /\ ~stop
  /\ \E c \in sent, n \in 1 .. Len(wire) :
       LET a == Head(wire)
           ok == Accepted(a, c)
       IN IF Fatal(c, ok) THEN SessionFails
          ELSE /\ Advance(c, ok, a)
               /\ sent' = {}
               /\ wire' = SubSeq(wire, n + 1, Len(wire))
               /\ UNCHANGED <<daemonVars, stale, pending, header, stop, ecu>>

(* The read deadline: an OSError for an initialization, N/A for a PID.  A *)
(* command beyond the bound on late answers is never answered.            *)
Timeout ==
  /\ sent # {} /\ ~stop
  /\ IF phase = "init" THEN SessionFails
     ELSE /\ \E c \in sent : Advance(c, FALSE, {})
          /\ sent' = {} /\ stale' = TRUE
          /\ IF Len(pending) + Len(wire) <= MaxLate THEN UNCHANGED pending
             ELSE pending # <<>> /\ pending' = Front(pending)
          /\ UNCHANGED <<daemonVars, wire, header, stop, ecu>>

(* The stop event seen by the read loop, and a peer that closes the socket. *)
Abort ==
  /\ script # <<>>
  /\ stop \/ sent # {}
  /\ SessionFails

-----------------------------------------------------------------------------
(* _poll: the end of a cycle, its publication, and the next one. *)

AllFailed == values = NoValues
MutTooManyFailures == failed + 1 > MaxFailedCycles
TooManyFailures == failed + 1 >= MaxFailedCycles

MutEndCycle ==
  /\ phase = "poll" /\ script = <<>>
  /\ failed' = 0 /\ snapshot' = IF AllFailed THEN snapshot ELSE "values"
  /\ values' = NoValues /\ done' = {} /\ current' = Default
  /\ script' = Requests(Head(Order), Default)
  /\ UNCHANGED <<phase, channelVars, online, failures, stop, ecu>>
EndCycle ==
  /\ phase = "poll" /\ script = <<>>
  /\ IF AllFailed /\ TooManyFailures
     THEN SessionFails
     ELSE /\ failed' = IF AllFailed THEN failed + 1 ELSE 0
          /\ snapshot' = IF AllFailed THEN snapshot ELSE "values"
          /\ values' = NoValues /\ done' = {} /\ current' = Default
          /\ IF stop
             THEN /\ phase' = "ended" /\ script' = <<>>
                  /\ pending' = <<>> /\ wire' = <<>> /\ header' = NoHeader
                  /\ UNCHANGED <<stale, sent>>
             ELSE /\ script' = Requests(Head(Order), Default)
                  /\ UNCHANGED <<phase, channelVars>>
          /\ UNCHANGED <<online, failures, stop, ecu>>

(* External: the source is asked to stop; the ignition is turned off. *)
Stop == ~stop /\ stop' = TRUE /\ UNCHANGED <<channelVars, daemonVars, cycleVars, ecu>>
EcuOff == ecu /\ ecu' = FALSE /\ UNCHANGED <<channelVars, daemonVars, cycleVars, stop>>

SourceStep == Connect \/ Retry \/ Discard \/ Send \/ Receive \/ Timeout \/ Online \/ EndCycle
Next == SourceStep \/ Abort \/ Answer \/ Stop \/ EcuOff

Spec == Init /\ [][Next]_vars
(* The thread runs: every wait of it has a timeout. *)
FairSpec == Spec /\ WF_vars(SourceStep) /\ WF_vars(stop /\ Abort)

-----------------------------------------------------------------------------
TypeOK ==
  /\ phase \in {"connect", "init", "poll", "waiting", "ended"}
  /\ Len(wire) + Len(pending) <= MaxLate + 1
  /\ current \in {Default} \cup Range(Override)
  /\ online \in {"unknown", "yes", "no"} /\ snapshot \in {"none", "values", "cleared"}
  /\ failed < MaxFailedCycles /\ failures <= MaxRetry + 1
  /\ \A p \in Pid : values[p] # {} => p \in done

(* However late answers are, and whatever PID the channel waits for when they *)
(* come, a value published under the name of a PID was decoded from an answer *)
(* to that PID.                                                               *)
OwnAnswer == \A p \in Pid : \A a \in values[p] : a.to = Command("pid", p)

(* While the source waits to reconnect, and once it has given up, no display *)
(* shows the values of the lost session or an online status.                 *)
OfflineIsCleared ==
  phase = "waiting" \/ (phase = "ended" /\ ~stop) => online # "yes" /\ snapshot # "values"

(* An ECU that falls silent for good is announced offline, whatever answers *)
(* are still under way.                                                     *)
SilenceAnnounced == <>[](~ecu) => <>[](online # "yes" \/ stop)

(* A value of a PID was asked with the header configured for that PID. *)
AskedOnItsHeader ==
  \A p \in Pid : \A a \in values[p] : Target(p) # NoHeader => a.header = Target(p)
=============================================================================
