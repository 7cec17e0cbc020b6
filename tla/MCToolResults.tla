--------------------------- MODULE MCToolResults ---------------------------
(***************************************************************************)
(* TLC instances of ToolResults.  Requests are interchangeable.            *)
(***************************************************************************)
EXTENDS ToolResults, TLC

Symmetry == Permutations(Requests)
=============================================================================
