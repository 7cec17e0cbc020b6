----------------------------- MODULE MCRecovery -----------------------------
(* Bounded instances of Recovery for TLC. *)
EXTENDS Recovery
=============================================================================
