----------------------------- MODULE MCHaltHandle -----------------------------
(* HaltHandle with named tasks, for TLC. *)
EXTENDS HaltHandle

CONSTANTS t1, t2, t3
=============================================================================
