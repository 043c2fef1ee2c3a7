---------------------------- MODULE CommandLedger ----------------------------
(***************************************************************************)
(* What the command service promises to controllers, without threads,      *)
(* locks, journal, clock or crashes: each request is taken at most once,   *)
(* only one is being executed, its steps are entered in order and once,    *)
(* and what the controller is told about it is true for ever.              *)
(***************************************************************************)
EXTENDS Integers

CONSTANTS Message, Steps

VARIABLES
  phase,     (* new: never taken; running: may still write; settled: never again *)
  writes,    (* how often each step entered the hardware path                    *)
  published  (* what controllers were told: set of [msg, res]                    *)

vars == <<phase, writes, published>>

accepted == [status |-> "accepted", outcome |-> "not_started", done |-> 0]

(* The first k steps were entered once each and no other. *)
Prefix(m, k) == [i \in 1 .. Steps[m] |-> IF i <= k THEN 1 ELSE 0]

True(m, res) ==
  \/ res.outcome = "not_started" /\ writes[m] = Prefix(m, 0)
  \/ res.outcome = "dispatched" /\ writes[m] = Prefix(m, Steps[m])
  \/ /\ res.outcome = "partial"
     /\ res.done \in 1 .. Steps[m] - 1
     /\ writes[m] = Prefix(m, res.done)
  \/ res.outcome = "unknown" /\ \E k \in res.done .. Steps[m] : writes[m] = Prefix(m, k)

Take(m) ==
  /\ phase[m] = "new"
  /\ \A n \in Message : phase[n] # "running"
  /\ phase' = [phase EXCEPT ![m] = "running"]
  /\ UNCHANGED <<writes, published>>

(* The next step in order, perhaps the last thing this request does. *)
Perform(m) ==
  /\ phase[m] = "running"
  /\ [msg |-> m, res |-> accepted] \in published
  /\ \E k \in 0 .. Steps[m] - 1 :
       /\ writes[m] = Prefix(m, k)
       /\ writes' = [writes EXCEPT ![m] = Prefix(m, k + 1)]
  /\ phase' = [phase EXCEPT ![m] = "settled"] \/ UNCHANGED phase
  /\ UNCHANGED published

(* Admission may be announced as soon as the request is taken. *)
Announce(m) ==
  /\ phase[m] # "new"
  /\ published' = published \cup {[msg |-> m, res |-> accepted]}
  /\ phase' = [phase EXCEPT ![m] = "settled"] \/ UNCHANGED phase
  /\ UNCHANGED writes

(* A terminal result is told only once nothing more will be written. *)
Tell(m) ==
  /\ phase[m] = "settled"
  /\ \E p \in published' :
       /\ p.msg = m
       /\ p.res.status # "accepted"
       /\ True(m, p.res)
       /\ published' = published \cup {p}
  /\ UNCHANGED <<phase, writes>>

(* The end of the running request: its last check failed or the service died. *)
Stop(m) ==
  /\ phase[m] = "running"
  /\ phase' = [phase EXCEPT ![m] = "settled"]
  /\ UNCHANGED <<writes, published>>

Init ==
  /\ phase = [m \in Message |-> "new"]
  /\ writes = [m \in Message |-> Prefix(m, 0)]
  /\ published = {}

Next ==
  \E m \in Message : Take(m) \/ Perform(m) \/ Announce(m) \/ Tell(m) \/ Stop(m)

Spec == Init /\ [][Next]_vars
=============================================================================
