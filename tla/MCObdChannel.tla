---------------------------- MODULE MCObdChannel ----------------------------
(***************************************************************************)
(* Two PIDs for TLC, one asked with the header of the section and one with *)
(* a header of its own, as in config-example.ini.                          *)
(***************************************************************************)
EXTENDS ObdChannel

CONSTANTS rpm, gear, engine, transmission

PidOrder == <<rpm, gear>>
PidHeaders == [p \in {rpm, gear} |-> IF p = gear THEN transmission ELSE NoHeader]
=============================================================================
