--------------------------- MODULE PublicationLog ---------------------------
(***************************************************************************)
(* What the publication path promises to a source, without threads, locks  *)
(* or a queue: what was accepted is offered to every target once and in    *)
(* the order of acceptance, and the targets are closed only after that.    *)
(***************************************************************************)
EXTENDS Integers, Sequences

CONSTANTS Target

VARIABLES
  accepted,   (* how many publications were accepted                 *)
  attempted,  (* for each target, the publications it was offered    *)
  shut        (* the dispatcher has drained and closes the targets   *)

vars == <<accepted, attempted, shut>>

Accept ==
  /\ ~ shut
  /\ accepted' = accepted + 1
  /\ UNCHANGED <<attempted, shut>>

Attempt(t) ==
  /\ ~ shut
  /\ Len(attempted[t]) < accepted
  /\ attempted' = [attempted EXCEPT ![t] = Append(attempted[t], Len(attempted[t]) + 1)]
  /\ UNCHANGED <<accepted, shut>>

Close ==
  /\ \A t \in Target : Len(attempted[t]) = accepted
  /\ shut' = TRUE
  /\ UNCHANGED <<accepted, attempted>>

Init ==
  /\ accepted = 0
  /\ attempted = [t \in Target |-> <<>>]
  /\ shut = FALSE

Next == Accept \/ Close \/ \E t \in Target : Attempt(t)

Spec == Init /\ [][Next]_vars
=============================================================================
