-------------------------- MODULE MCSourceSession ---------------------------
(***************************************************************************)
(* A small instance of SourceSession for TLC: two sections, two reloads,   *)
(* sources that fail, and interrupts.                                      *)
(***************************************************************************)
EXTENDS SourceSession

(* Every place but those where an interrupt loses a source: while start()    *)
(* waits for a thread, before the thread is identified or recorded, and while *)
(* a failed start_enabled stops its sources; and but those where a candidate  *)
(* survives the interrupt.                                                    *)
Interruptible == Place \ ({"starting", "restarting", "rollback", "rollback_join"} \cup Accepting)

(* Where start_enabled blocks after one of its sources failed to start. *)
FailedStart == {"rollback_join"}
=============================================================================
