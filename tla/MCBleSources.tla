---------------------------- MODULE MCBleSources ----------------------------
(***************************************************************************)
(* One Renogy client of two register sections and one watchdog for TLC.    *)
(***************************************************************************)
EXTENDS BleSources, TLC

Interchangeable == Permutations(Managers)
=============================================================================
