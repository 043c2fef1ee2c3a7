--------------------------- MODULE MCCoachCommands ---------------------------
(***************************************************************************)
(* A small instance of CoachCommands for TLC.                              *)
(*                                                                         *)
(* open and lid are two commands of one controller that reuse a request id *)
(* with different content (a two-step plan and a one-step plan); poll is a *)
(* query under another identity.                                           *)
(***************************************************************************)
EXTENDS CoachCommands

CONSTANTS open, lid, poll

MCMessage == {open, lid, poll}
MCIdOf    == [m \in Message |-> IF m = poll THEN "id2" ELSE "id1"]
MCIssued  == [m \in Message |-> IF m = lid THEN 1 ELSE 0]
MCExpires == [m \in Message |-> IF m = lid THEN 2 ELSE 1]
MCSteps   == [m \in Message |-> CASE m = open -> 2 [] m = lid -> 1 [] OTHER -> 0]
MCQueries == {poll}
=============================================================================
