------------------------ MODULE MCTelemetryPipeline ------------------------
(***************************************************************************)
(* A small instance of TelemetryPipeline for TLC: a source and the coach   *)
(* worker publish beside the maintenance thread; the readings of a panel   *)
(* update an entity and the bound variables, those of a dimmer neither.    *)
(***************************************************************************)
EXTENDS TelemetryPipeline

CONSTANTS s1, fan, panel, dimmer

MCMaps == [r \in Reading |-> IF r = panel THEN {fan} ELSE {}]
=============================================================================
