---------------------------- MODULE OperationLease ----------------------------
(***************************************************************************)
(* What the operation ledger promises its callers, whatever they call and  *)
(* whatever the disk does: a lease on an operation key that one owner      *)
(* holds at a time, and a bounded memory of completed fingerprints that    *)
(* are not leased again.  OperationLedger implements this specification.   *)
(***************************************************************************)
EXTENDS Integers, FiniteSets

CONSTANTS Keys, Owners, Fingerprints, NoLease, NoFingerprint,
          UnresolvedRetention, CompletedRetention, MaxCompleted

VARIABLES clock, lease, done

vars == <<clock, lease, done>>

Never == -1

Init ==
  /\ clock = 0
  /\ lease = [k \in Keys |-> [o \in Owners |-> NoLease]]
  /\ done = [k \in Keys |-> [f \in Fingerprints |-> Never]]

\* o may act on k: it was told so and the lease has not lapsed.
Live(k, o) == lease[k][o] # NoLease /\ lease[k][o].until > clock

\* fp completed within the retention, and at most MaxCompleted fingerprints,
\* itself included, completed at or after it.
Remembered(k, fp) ==
  /\ done[k][fp] # Never
  /\ done[k][fp] >= clock - CompletedRetention
  /\ Cardinality({g \in Fingerprints : done[k][g] >= done[k][fp]}) <= MaxCompleted

\* A lease is granted when nobody holds a live one and fp is not remembered.
Grant(k, o, fp) ==
  /\ \A p \in Owners : ~Live(k, p)
  /\ ~Remembered(k, fp)
  /\ lease' = [lease EXCEPT ![k][o] =
       [fp |-> fp, prev |-> NoFingerprint, until |-> clock + UnresolvedRetention]]
  /\ UNCHANGED <<clock, done>>

\* The holder of a live lease renews it, possibly for its next stage or back
\* to the previous one; a stage it leaves is recorded as completed.
Renew(k, o) ==
  /\ Live(k, o)
  /\ \E fp \in Fingerprints, prev \in Fingerprints \cup {NoFingerprint}, t \in {lease[k][o].until, clock + UnresolvedRetention} :
       lease' = [lease EXCEPT ![k][o] = [fp |-> fp, prev |-> prev, until |-> t]]
  /\ \/ done' = done
     \/ done' = [done EXCEPT ![k][lease[k][o].fp] = clock]
  /\ UNCHANGED clock

\* The holder hands its lease to another token of the same caller.
Hand(k, o, next) ==
  /\ Live(k, o)
  /\ lease[k][next] = NoLease
  /\ lease' = [lease EXCEPT ![k][next] = lease[k][o], ![k][o] = NoLease]
  /\ UNCHANGED <<clock, done>>

\* A caller gives up what it holds, recording a completion or not.
Drop(k, o) ==
  /\ lease' = [lease EXCEPT ![k][o] = NoLease]
  /\ \/ done' = done
     \/ \E f \in Fingerprints : done' = [done EXCEPT ![k][f] = clock]
  /\ UNCHANGED clock

\* A stage can be left, and recorded, by an owner that gave its lease up.
Record(k) ==
  /\ \E f \in Fingerprints : done' = [done EXCEPT ![k][f] = clock]
  /\ UNCHANGED <<clock, lease>>

Advance == clock' = clock + 1 /\ UNCHANGED <<lease, done>>

Lose == lease' = [k \in Keys |-> [o \in Owners |-> NoLease]] /\ UNCHANGED <<clock, done>>

Next ==
  \/ \E k \in Keys, o \in Owners :
       \/ \E fp \in Fingerprints : Grant(k, o, fp)
       \/ Renew(k, o)
       \/ \E next \in Owners : Hand(k, o, next)
       \/ Drop(k, o)
  \/ \E k \in Keys : Record(k)
  \/ Advance
  \/ Lose

Spec == Init /\ [][Next]_vars
=============================================================================
