-------------------------- MODULE MCCoachExchange --------------------------
(* One request, with a full queue of source commands and broken connections at both ends. *)
EXTENDS CoachExchange
=============================================================================
