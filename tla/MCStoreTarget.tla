---------------------------- MODULE MCStoreTarget ----------------------------
(***************************************************************************)
(* A small instance for TLC: three publishing threads, two that close, a   *)
(* store and two other targets, and a queue that fills up.                 *)
(***************************************************************************)
EXTENDS StoreTarget

CONSTANTS p1, p2, p3, c1, c2
=============================================================================
