--------------------------- MODULE MCLiveRegistry ---------------------------
(***************************************************************************)
(* TLC instances of LiveRegistry.  Attempts and known fingerprints are     *)
(* interchangeable.                                                        *)
(***************************************************************************)
EXTENDS LiveRegistry, TLC

Symmetry == Permutations(Attempts) \cup Permutations(Operations)

\* Three requests where at most one driver fails and there is one operation;
\* two in any other build.
Focus ==
  IF build = {"ledger"}
  THEN /\ resumes = 0 /\ process = 0 /\ Cardinality({a \in Attempts : run[a].err # "none"}) <= 1
       /\ Cardinality({req[a].op : a \in Attempts} \cup {run[a].stage : a \in Attempts}) <= 2
  ELSE Cardinality({a \in Attempts : req[a].at # "idle"}) <= 2
=============================================================================
