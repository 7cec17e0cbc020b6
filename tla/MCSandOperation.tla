-------------------------- MODULE MCSandOperation --------------------------
(* TLC instances of SandOperation.                                          *)
EXTENDS SandOperation
=============================================================================
