---------------------------- MODULE MCRuntimeRules ----------------------------
(* A place that expires after two seconds, a temperature after four, and a *)
(* window and a debounce of three seconds.                                 *)
EXTENDS RuntimeRules, TLC

MCMaxAge == "place" :> 2 @@ "air" :> 4
=============================================================================
