---------------------------- MODULE LedgerRecord ----------------------------
(***************************************************************************)
(* One durable record of src/src/providers/cursor/operation_ledger.rs: the *)
(* active sampling stage of an operation key and its replay history, with  *)
(* the compare-and-set mutations the ledger applies to it.  The operators  *)
(* are pure; OperationLedger gives them a disk, a clock and callers, and   *)
(* LiveRegistry composes them with the in-memory registry.                 *)
(*                                                                         *)
(* Data left out: the key digest, the checksum, the message text,          *)
(* recorded_at_ms and updated_at_ms (nothing is decided on them).          *)
(***************************************************************************)
EXTENDS Integers, FiniteSets

CONSTANTS
  Fingerprints,        \* request fingerprints, Unknown among them
  Unknown,             \* fingerprint 0, "no identity proof"
  Owners,              \* owner tokens: reservation ids and run ids
  NoActive,            \* active = None
  UnresolvedRetention, \* unresolved_retention_ms()
  CompletedRetention,  \* completed_retention_ms()
  MaxCompleted         \* max_completed_per_key()

ActiveStates == {"Prepared", "Dispatched", "Ambiguous"}

ActiveOperation ==
  [fp: Fingerprints, owner: Owners, proc: Nat, state: ActiveStates, expires: Nat]

\* completed_retention_ms ends in .max(unresolved_retention_ms()).
ASSUME LedgerAssumption ==
  /\ Unknown \in Fingerprints
  /\ IsFiniteSet(Fingerprints)
  /\ NoActive \notin ActiveOperation
  /\ UnresolvedRetention \in Nat \ {0}
  /\ CompletedRetention \in Nat
  /\ CompletedRetention >= UnresolvedRetention
  /\ MaxCompleted \in Nat \ {0}

\* The completion time of a fingerprint that is not in the replay history.
Never == -1

Record == [active: ActiveOperation \cup {NoActive},
           completed: [Fingerprints -> Nat \cup {Never}]]

EmptyRecord == [active |-> NoActive, completed |-> [f \in Fingerprints |-> Never]]

History(completed) == {f \in Fingerprints : completed[f] # Never}

-----------------------------------------------------------------------------
\* The marker was prepared by a process that is gone, or it has expired.
Stale(active, now, proc) ==
  /\ active # NoActive
  /\ \/ active.state = "Prepared" /\ active.proc # proc
     \/ active.expires <= now

\* Mutant of Normalize: an entry is dropped a tick early.
NormalizeEarly(r, now, proc) ==
  [active |-> IF Stale(r.active, now, proc) THEN NoActive ELSE r.active,
   completed |-> [f \in Fingerprints |->
      IF r.completed[f] > now - CompletedRetention THEN r.completed[f] ELSE Never]]

Normalize(r, now, proc) ==
  [active |-> IF Stale(r.active, now, proc) THEN NoActive ELSE r.active,
   completed |-> [f \in Fingerprints |->
      IF r.completed[f] >= now - CompletedRetention THEN r.completed[f] ELSE Never]]

\* The entries a full history may drop first.  Entries completed in the same
\* tick are dropped in any order.
Oldest(completed, fp) ==
  {f \in History(completed) \ {fp} :
     \A g \in History(completed) \ {fp} : completed[f] <= completed[g]}

\* The histories that recording fp at time now can leave: the entry is
\* refreshed, and a history that grows past its bound drops an oldest entry.
AddCompleted(completed, fp, now) ==
  LET added == [completed EXCEPT ![fp] = now]
  IN  IF Cardinality(History(added)) <= MaxCompleted
      THEN {added}
      ELSE {[added EXCEPT ![f] = Never] : f \in Oldest(added, fp)}

-----------------------------------------------------------------------------
\* Mutant of Owns: the owner token is not compared.
OwnsAnyOwner(r, fp, o) == r.active # NoActive /\ r.active.fp = fp

Owns(r, fp, o) == r.active # NoActive /\ r.active.fp = fp /\ r.active.owner = o

\* Mutant of Active: the retention is subtracted.
ActiveExpiredAtBirth(fp, o, proc, state, now) ==
  [fp |-> fp, owner |-> o, proc |-> proc, state |-> state,
   expires |-> now - UnresolvedRetention]

Active(fp, o, proc, state, now) ==
  [fp |-> fp, owner |-> o, proc |-> proc, state |-> state,
   expires |-> now + UnresolvedRetention]

\* Mutant of CanRotateAmbiguous: a marker that is not ambiguous is rotated.
CanRotateAny(r, fp) ==
  /\ r.active # NoActive
  /\ r.active.fp # Unknown
  /\ fp # Unknown
  /\ r.active.fp # fp
  /\ fp \notin History(r.completed)

\* A different, known operation may rotate an ambiguity marker.
CanRotateAmbiguous(r, fp) ==
  /\ r.active # NoActive
  /\ r.active.state = "Ambiguous"
  /\ r.active.fp # Unknown
  /\ fp # Unknown
  /\ r.active.fp # fp
  /\ fp \notin History(r.completed)

\* Mutant of Admission: the replay history is not consulted.
AdmissionForgetful(r, fp) ==
  IF CanRotateAmbiguous(r, fp) THEN "Allowed"
  ELSE IF r.active # NoActive THEN "Ambiguous"
  ELSE "Allowed"

Admission(r, fp) ==
  IF CanRotateAmbiguous(r, fp) THEN "Allowed"
  ELSE IF fp \in History(r.completed) THEN "DuplicateCompleted"
  ELSE IF r.active # NoActive THEN "Ambiguous"
  ELSE "Allowed"

Claimed(r, fp, o, now, proc) == [r EXCEPT !.active = Active(fp, o, proc, "Prepared", now)]

-----------------------------------------------------------------------------
(* Each mutation is a precondition, under which the call answers true, and  *)
(* the records it can leave.  When the precondition fails the record keeps  *)
(* its normalized value and the call answers false.                         *)

Dispatched(r, now) ==
  IF r.active.state = "Prepared"
  THEN [r EXCEPT !.active = [@ EXCEPT !.state = "Dispatched",
                                      !.expires = now + UnresolvedRetention]]
  ELSE r

Transferred(r, next) == [r EXCEPT !.active = [@ EXCEPT !.owner = next]]

CanPrepareStage(r, o, prev) == Owns(r, prev, o) /\ r.active.state # "Prepared"

StagePrepared(r, o, prev, next, now, proc) ==
  {[active |-> Active(next, o, proc, "Prepared", now), completed |-> c] :
     c \in AddCompleted(r.completed, prev, now)}

StageRolledBack(r, o, prev, now, proc) ==
  [r EXCEPT !.active = Active(prev, o, proc, "Dispatched", now)]

\* An already recorded completion answers true and changes nothing.
CanComplete(r, fp, o) == fp \in History(r.completed) \/ Owns(r, fp, o)

Completed(r, fp, now) ==
  IF fp \in History(r.completed)
  THEN {r}
  ELSE {[active |-> NoActive, completed |-> c] : c \in AddCompleted(r.completed, fp, now)}

MarkedAmbiguous(r, now) ==
  [r EXCEPT !.active = [@ EXCEPT !.state = "Ambiguous",
                                 !.expires = now + UnresolvedRetention]]

Cleared(r) == [r EXCEPT !.active = NoActive]
=============================================================================
