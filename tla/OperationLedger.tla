--------------------------- MODULE OperationLedger ---------------------------
(***************************************************************************)
(* The durable operation ledger (src/src/providers/cursor/                 *)
(* operation_ledger.rs): one record file per operation key, mutated by     *)
(* compare-and-set on an owner token under LEDGER_LOCK, so each call below *)
(* is one atomic step.  The environment is the disk (a write may fail      *)
(* before or after the rename), the wall clock, restarts of the process,   *)
(* and callers that come in any order, stale ones included.                *)
(*                                                                         *)
(* lease and done are history variables: what a caller was told it holds,  *)
(* and when each fingerprint was last written to a replay history.         *)
(***************************************************************************)
EXTENDS LedgerRecord

CONSTANTS
  Keys,           \* operation keys
  NoLease,        \* the caller holds nothing
  NoFingerprint,  \* no previous stage
  MaxRecords,     \* ledger_max_records()
  DiskFaults,     \* may the disk fail?
  MaxTime,        \* bound on the clock
  MaxProcesses    \* bound on the number of process instances

Lease == [fp: Fingerprints, prev: Fingerprints \cup {NoFingerprint}, until: Nat]

ASSUME OperationLedgerAssumption ==
  /\ IsFiniteSet(Keys)
  /\ NoLease \notin Lease
  /\ NoFingerprint \notin Fingerprints
  /\ MaxRecords \in Nat \ {0}
  /\ DiskFaults \in BOOLEAN
  /\ MaxTime \in Nat
  /\ MaxProcesses \in Nat

VARIABLES
  record,   \* key -> the record on disk; no file is the empty record
  clock,    \* now_millis()
  process,  \* PROCESS_INSTANCE_ID of the process that holds .instance.lock
  lease,    \* history: key -> owner -> what the owner was told it holds
  done      \* history: key -> fingerprint -> last time it entered the history

vars == <<record, clock, process, lease, done>>

TypeOK ==
  /\ record \in [Keys -> Record]
  /\ clock \in Nat
  /\ process \in Nat
  /\ lease \in [Keys -> [Owners -> Lease \cup {NoLease}]]
  /\ done \in [Keys -> [Fingerprints -> Nat \cup {Never}]]

Init ==
  /\ record = [k \in Keys |-> EmptyRecord]
  /\ clock = 0
  /\ process = 0
  /\ lease = [k \in Keys |-> [o \in Owners |-> NoLease]]
  /\ done = [k \in Keys |-> [f \in Fingerprints |-> Never]]

-----------------------------------------------------------------------------
\* load_payload: the record as a call sees it.
Load(k) == Normalize(record[k], clock, process)

Files == {k \in Keys : record[k] # EmptyRecord}

\* The disk takes the write, refuses it, or takes it and reports an error
\* (the directory sync after the rename failed).
Written(old, new) ==
  {[rec |-> new, ok |-> TRUE]} \cup
  (IF DiskFaults /\ old # new
   THEN {[rec |-> old, ok |-> FALSE], [rec |-> new, ok |-> FALSE]} ELSE {})

\* What entered or was refreshed in the replay history of k.
Recorded(old, new) ==
  [f \in Fingerprints |->
     IF new.completed[f] # old.completed[f] /\ new.completed[f] # Never
     THEN new.completed[f] ELSE Never]

NoteDone(k, r) ==
  done' = [done EXCEPT ![k] = [f \in Fingerprints |->
    IF Recorded(record[k], r)[f] = Never THEN @[f] ELSE Recorded(record[k], r)[f]]]

\* Mutant of Reclaimed: any record without an active stage is removed.
ReclaimedWithHistory ==
  [k \in Keys |-> IF Load(k).active = NoActive THEN EmptyRecord ELSE record[k]]

\* ensure_capacity when the target has no file and the directory is full:
\* only records with nothing left after normalization are removed.
Reclaimed ==
  [k \in Keys |-> IF Load(k) = EmptyRecord THEN EmptyRecord ELSE record[k]]

\* Mutant of Full: one record too many.
FullLate(recs) == Cardinality({k \in Keys : recs[k] # EmptyRecord}) > MaxRecords

Full(recs) == Cardinality({k \in Keys : recs[k] # EmptyRecord}) >= MaxRecords

Room(k) == IF record[k] = EmptyRecord /\ Full(record) THEN Reclaimed ELSE record

-----------------------------------------------------------------------------
\* claim, admitted.
ClaimAllowed(k, o, fp) ==
  /\ Admission(Load(k), fp) = "Allowed"
  /\ LET room == Room(k)
         new  == Claimed(Load(k), fp, o, clock, process)
     IN  IF room[k] = EmptyRecord /\ Full(room)
         THEN \* Unavailable: the replay retention is at its capacity
              /\ record' = room
              /\ UNCHANGED lease
         ELSE \E w \in Written(record[k], new) :
                /\ record' = [room EXCEPT ![k] = w.rec]
                /\ lease' = [lease EXCEPT ![k][o] =
                     IF w.ok THEN [fp |-> fp, prev |-> NoFingerprint,
                                   until |-> clock + UnresolvedRetention]
                             ELSE NoLease]
  /\ UNCHANGED <<clock, process, done>>

\* claim, refused: only the normalization is persisted.
ClaimRefused(k, fp) ==
  /\ Admission(Load(k), fp) # "Allowed"
  /\ \E w \in Written(record[k], Load(k)) : record' = [record EXCEPT ![k] = w.rec]
  /\ UNCHANGED <<clock, process, lease, done>>

Claim(k, o, fp) == ClaimAllowed(k, o, fp) \/ ClaimRefused(k, fp)

\* transition: the mutation applies to the normalized record when its
\* precondition holds; otherwise only the normalization is persisted.
Transition(k, applies, results) ==
  \E r \in (IF applies THEN results ELSE {Load(k)}) :
    \E w \in Written(record[k], r) :
      /\ record' = [record EXCEPT ![k] = w.rec]
      /\ NoteDone(k, w.rec)

Release(k, o) == lease' = [lease EXCEPT ![k][o] = NoLease]

MarkDispatched(k, o, fp) ==
  /\ LET r == Load(k)
         applies == Owns(r, fp, o)
     IN  /\ Transition(k, applies, {Dispatched(r, clock)})
         /\ lease' = IF applies /\ lease[k][o] # NoLease /\ Owns(record'[k], fp, o)
                     THEN [lease EXCEPT ![k][o] =
                            [@ EXCEPT !.until = record'[k].active.expires]]
                     ELSE lease
  /\ UNCHANGED <<clock, process>>

\* The reservation and the Run it hands over to belong to the same caller, so
\* the lease follows the record even when the disk reports an error.
TransferOwner(k, o, next, fp) ==
  /\ o # next
  /\ lease[k][next] = NoLease
  /\ Transition(k, Owns(Load(k), fp, o), {Transferred(Load(k), next)})
  /\ lease' = IF Owns(Load(k), fp, o) /\ Owns(record'[k], fp, next)
              THEN [lease EXCEPT ![k][next] = lease[k][o], ![k][o] = NoLease]
              ELSE lease
  /\ UNCHANGED <<clock, process>>

PrepareStage(k, o, prev, next) ==
  /\ LET r == Load(k)
         applies == CanPrepareStage(r, o, prev)
     IN  /\ Transition(k, applies, StagePrepared(r, o, prev, next, clock, process))
         /\ lease' = IF applies /\ lease[k][o] # NoLease /\ Owns(record'[k], next, o)
                     THEN [lease EXCEPT ![k][o] =
                            [fp |-> next, prev |-> prev,
                             until |-> record'[k].active.expires]]
                     ELSE lease
  /\ UNCHANGED <<clock, process>>

\* Only the owner that prepared a stage rolls it back, to the stage before.
RollbackStage(k, o) ==
  /\ lease[k][o] # NoLease
  /\ lease[k][o].prev # NoFingerprint
  /\ LET r == Load(k)
         l == lease[k][o]
         applies == Owns(r, l.fp, o)
     IN  /\ Transition(k, applies, {StageRolledBack(r, o, l.prev, clock, process)})
         /\ lease' = IF applies /\ Owns(record'[k], l.prev, o)
                     THEN [lease EXCEPT ![k][o] =
                            [fp |-> l.prev, prev |-> NoFingerprint,
                             until |-> record'[k].active.expires]]
                     ELSE lease
  /\ UNCHANGED <<clock, process>>

\* The caller is finished with the operation whatever the ledger answers.
MarkCompleted(k, o, fp) ==
  /\ Transition(k, CanComplete(Load(k), fp, o), Completed(Load(k), fp, clock))
  /\ Release(k, o)
  /\ UNCHANGED <<clock, process>>

MarkAmbiguous(k, o, fp) ==
  /\ Transition(k, Owns(Load(k), fp, o), {MarkedAmbiguous(Load(k), clock)})
  /\ Release(k, o)
  /\ UNCHANGED <<clock, process>>

ClearOperation(k, o, fp) ==
  /\ Transition(k, Owns(Load(k), fp, o), {Cleared(Load(k))})
  /\ Release(k, o)
  /\ UNCHANGED <<clock, process>>

Tick ==
  /\ clock < MaxTime
  /\ clock' = clock + 1
  /\ UNCHANGED <<record, process, lease, done>>

\* The process dies and another one takes the instance lock.
Restart ==
  /\ process < MaxProcesses
  /\ process' = process + 1
  /\ lease' = [k \in Keys |-> [o \in Owners |-> NoLease]]
  /\ UNCHANGED <<record, clock, done>>

Call(k, o) ==
  \/ \E fp \in Fingerprints :
       \/ Claim(k, o, fp)
       \/ MarkDispatched(k, o, fp)
       \/ \E next \in Owners : TransferOwner(k, o, next, fp)
       \/ \E next \in Fingerprints : PrepareStage(k, o, fp, next)
       \/ MarkCompleted(k, o, fp)
       \/ MarkAmbiguous(k, o, fp)
       \/ ClearOperation(k, o, fp)
  \/ RollbackStage(k, o)

Next ==
  \/ \E k \in Keys, o \in Owners : Call(k, o)
  \/ Tick
  \/ Restart

Spec == Init /\ [][Next]_vars

-----------------------------------------------------------------------------
Abstract == INSTANCE OperationLease

\* A lease that has not lapsed is backed by the record on disk: the same
\* owner, fingerprint and expiry, written by this process, not yet ambiguous
\* (operation_ledger.rs:1-6, "the durable owner of the one active sampling
\* stage").
Holds(k, o) ==
  LET a == record[k].active
      l == lease[k][o]
  IN  /\ a # NoActive
      /\ a.owner = o
      /\ a.fp = l.fp
      /\ a.expires = l.until
      /\ a.proc = process
      /\ a.state # "Ambiguous"

\* Inductive strengthening of LeaseExclusive: a live lease is backed by the
\* record, and a lapsed one is never taken for the record of a later call.
LeaseBacked ==
  \A k \in Keys, o \in Owners :
    lease[k][o] # NoLease =>
      \/ Holds(k, o)
      \/ /\ lease[k][o].until <= clock
         /\ record[k].active = NoActive \/ record[k].active.owner # o

\* Two owners never hold a live lease on one key, through stale calls, disk
\* errors, expiry, ambiguity rotation and restarts.
LeaseExclusive ==
  \A k \in Keys, o, p \in Owners :
    Abstract!Live(k, o) /\ Abstract!Live(k, p) => o = p

\* A completion is forgotten only when its retention ends or MaxCompleted
\* newer completions displaced it; an entry is never older than the last
\* completion, and what keeps the directory and the histories within their
\* bounds (ensure_capacity, add_completed) never costs a valid entry.
HistoryFaithful ==
  /\ Cardinality(Files) <= MaxRecords
  /\ \A k \in Keys : Cardinality(History(record[k].completed)) <= MaxCompleted
  /\ \A k \in Keys, f \in Fingerprints :
    /\ done[k][f] <= clock
    /\ record[k].completed[f] \in {Never, done[k][f]}
    /\ Abstract!Remembered(k, f) => record[k].completed[f] = done[k][f]

\* The ledger is a lease with a memory.
ImplementsLease == Abstract!Spec
=============================================================================
