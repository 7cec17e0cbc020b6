-------------------------- MODULE MCOperationLedger --------------------------
(***************************************************************************)
(* TLC instances of OperationLedger.  Keys, owners and known fingerprints  *)
(* are interchangeable.                                                    *)
(***************************************************************************)
EXTENDS OperationLedger, TLC

Symmetry ==
  Permutations(Keys) \cup Permutations(Owners) \cup Permutations(Fingerprints \ {Unknown})

\* A key that was written or leased, and a fingerprint that was.
UsedKeys ==
  {k \in Keys : record[k] # EmptyRecord \/ \E o \in Owners : lease[k][o] # NoLease}

UsedFingerprints ==
  {f \in Fingerprints \ {Unknown} :
     \E k \in Keys : \/ done[k][f] # Never
                     \/ \E o \in Owners : lease[k][o] # NoLease /\ lease[k][o].fp = f}

\* Two owners and two operations contend for one key; where two keys compete
\* for the one record file, each has one owner and one operation, in one process.
OneDimension ==
  Cardinality(UsedKeys) > 1 =>
    /\ Cardinality(UsedFingerprints) <= 1
    /\ process = 0 /\ clock <= 1
    /\ \A k \in Keys : \E o \in Owners : lease[k][o] = NoLease
=============================================================================
