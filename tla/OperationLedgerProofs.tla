------------------------ MODULE OperationLedgerProofs ------------------------
(***************************************************************************)
(* Theorems about the operation ledger, for every set of keys, owners and  *)
(* fingerprints and every retention and bound.                             *)
(***************************************************************************)
EXTENDS OperationLedger, FiniteSetTheorems, TLAPS

-----------------------------------------------------------------------------
(* What the record operators return.                                       *)

\* The record of a key is well formed when a call has normalized it.
LEMMA NormalizeType ==
  ASSUME NEW r \in Record, NEW now \in Nat, NEW proc \in Nat
  PROVE  Normalize(r, now, proc) \in Record
<1>1. r.active \in ActiveOperation \cup {NoActive}
  BY DEF Record
<1>2. r.completed \in [Fingerprints -> Nat \cup {Never}]
  BY DEF Record
<1> QED BY <1>1, <1>2 DEF Normalize, Record

\* Recording a completion yields a well-formed history.
LEMMA AddCompletedType ==
  ASSUME NEW c \in [Fingerprints -> Nat \cup {Never}],
         NEW fp \in Fingerprints, NEW now \in Nat,
         NEW d \in AddCompleted(c, fp, now)
  PROVE  d \in [Fingerprints -> Nat \cup {Never}]
<1> DEFINE added == [c EXCEPT ![fp] = now]
<1>1. added \in [Fingerprints -> Nat \cup {Never}]
  OBVIOUS
<1>2. d = added \/ \E f \in Fingerprints : d = [added EXCEPT ![f] = Never]
  BY DEF AddCompleted, Oldest, History
<1> QED BY <1>1, <1>2

\* The marker a call installs is well formed.
LEMMA ActiveType ==
  ASSUME NEW fp \in Fingerprints, NEW o \in Owners, NEW proc \in Nat,
         NEW state \in ActiveStates, NEW now \in Nat
  PROVE  Active(fp, o, proc, state, now) \in ActiveOperation
BY LedgerAssumption DEF Active, ActiveOperation

\* Every mutation of a record returns records.
LEMMA MutationTypes ==
  ASSUME NEW r \in Record, NEW now \in Nat, NEW proc \in Nat,
         NEW o \in Owners, NEW fp \in Fingerprints, NEW next \in Fingerprints,
         NEW p \in Owners
  PROVE  /\ Claimed(r, fp, o, now, proc) \in Record
         /\ r.active # NoActive => Dispatched(r, now) \in Record
         /\ r.active # NoActive => Transferred(r, p) \in Record
         /\ StagePrepared(r, o, fp, next, now, proc) \subseteq Record
         /\ StageRolledBack(r, o, fp, now, proc) \in Record
         /\ Completed(r, fp, now) \subseteq Record
         /\ r.active # NoActive => MarkedAmbiguous(r, now) \in Record
         /\ Cleared(r) \in Record
<1>1. /\ r = [active |-> r.active, completed |-> r.completed]
      /\ r.active \in ActiveOperation \cup {NoActive}
      /\ r.completed \in [Fingerprints -> Nat \cup {Never}]
  BY DEF Record
<1>2. \A s \in ActiveStates, f \in Fingerprints :
        Active(f, o, proc, s, now) \in ActiveOperation
  BY ActiveType
<1>3. Claimed(r, fp, o, now, proc) \in Record
  BY <1>1, <1>2 DEF Claimed, Record, ActiveStates
<1>a. now + UnresolvedRetention \in Nat
  BY LedgerAssumption
<1>b. ASSUME r.active # NoActive, NEW s \in ActiveStates
      PROVE  [r.active EXCEPT !.state = s, !.expires = now + UnresolvedRetention]
               \in ActiveOperation
  BY <1>1, <1>a, <1>b DEF ActiveOperation
<1>4. r.active # NoActive => Dispatched(r, now) \in Record
  BY <1>1, <1>b DEF Dispatched, Record, ActiveStates
<1>c. r.active # NoActive => [r.active EXCEPT !.owner = p] \in ActiveOperation
  BY <1>1 DEF ActiveOperation
<1>5. r.active # NoActive => Transferred(r, p) \in Record
  BY <1>1, <1>c DEF Transferred, Record
<1>6. StagePrepared(r, o, fp, next, now, proc) \subseteq Record
  BY <1>1, <1>2, AddCompletedType DEF StagePrepared, Record, ActiveStates
<1>7. StageRolledBack(r, o, fp, now, proc) \in Record
  BY <1>1, <1>2 DEF StageRolledBack, Record, ActiveStates
<1>8. Completed(r, fp, now) \subseteq Record
  BY <1>1, AddCompletedType DEF Completed, Record
<1>9. r.active # NoActive => MarkedAmbiguous(r, now) \in Record
  BY <1>1, <1>b DEF MarkedAmbiguous, Record, ActiveStates
<1>10. Cleared(r) \in Record
  BY <1>1 DEF Cleared, Record
<1> QED BY <1>3, <1>4, <1>5, <1>6, <1>7, <1>8, <1>9, <1>10
-----------------------------------------------------------------------------
(* Type correctness.                                                        *)

\* The record a call loads is well formed.
LEMMA LoadType ==
  ASSUME TypeOK, NEW k \in Keys
  PROVE  Load(k) \in Record
BY NormalizeType DEF Load, TypeOK

\* A transition rewrites one record with a well-formed one.
LEMMA TransitionType ==
  ASSUME TypeOK, NEW k \in Keys, NEW applies, NEW results,
         applies => results \subseteq Record,
         Transition(k, applies, results)
  PROVE  /\ record'[k] \in Record
         /\ record' = [record EXCEPT ![k] = record'[k]]
         /\ done' \in [Keys -> [Fingerprints -> Nat \cup {Never}]]
<1>1. PICK r \in (IF applies THEN results ELSE {Load(k)}) :
        \E w \in Written(record[k], r) :
          /\ record' = [record EXCEPT ![k] = w.rec]
          /\ NoteDone(k, w.rec)
  BY DEF Transition
<1>2. PICK w \in Written(record[k], r) :
        /\ record' = [record EXCEPT ![k] = w.rec]
        /\ NoteDone(k, w.rec)
  BY <1>1
<1>3. r \in Record
  BY LoadType, <1>1
<1>4. w.rec \in Record
  BY <1>3 DEF Written, TypeOK
<1>5. Recorded(record[k], w.rec) \in [Fingerprints -> Nat \cup {Never}]
  BY <1>4 DEF Recorded, Record
<1>6. done' \in [Keys -> [Fingerprints -> Nat \cup {Never}]]
  BY <1>2, <1>5 DEF NoteDone, TypeOK
<1> QED BY <1>2, <1>4, <1>6 DEF TypeOK

\* An owned record holds a marker.
LEMMA OwnedIsActive ==
  ASSUME NEW r, NEW fp, NEW o, Owns(r, fp, o)
  PROVE  r.active # NoActive
BY DEF Owns

\* The expiry of a marker is a time.
LEMMA ExpiresType ==
  ASSUME NEW r \in Record, r.active # NoActive
  PROVE  r.active.expires \in Nat /\ r.active.fp \in Fingerprints /\ r.active.owner \in Owners
BY DEF Record, ActiveOperation

\* Every call preserves the type of the ledger.
LEMMA CallType ==
  ASSUME TypeOK, NEW k \in Keys, NEW o \in Owners, Call(k, o)
  PROVE  TypeOK'
<1> USE DEF Record
<1>0. /\ record \in [Keys -> Record]
      /\ clock \in Nat /\ process \in Nat
      /\ lease \in [Keys -> [Owners -> Lease \cup {NoLease}]]
      /\ done \in [Keys -> [Fingerprints -> Nat \cup {Never}]]
      /\ Load(k) \in Record
      /\ clock + UnresolvedRetention \in Nat
  BY LoadType, LedgerAssumption DEF TypeOK
<1> USE <1>0
<1> HIDE DEF Record
<1>1. ASSUME NEW fp \in Fingerprints, ClaimAllowed(k, o, fp)  PROVE TypeOK'
  <2>1. Room(k) \in [Keys -> Record]
    <3>1. EmptyRecord \in Record
      BY DEF EmptyRecord, Record
    <3> QED BY <3>1 DEF Room, Reclaimed
  <2>2. Claimed(Load(k), fp, o, clock, process) \in Record
    BY MutationTypes
  <2> DEFINE new == Claimed(Load(k), fp, o, clock, process)
  <2>3. \/ record' = Room(k) /\ lease' = lease
        \/ \E w \in Written(record[k], new) :
             /\ record' = [Room(k) EXCEPT ![k] = w.rec]
             /\ lease' = [lease EXCEPT ![k][o] =
                  IF w.ok THEN [fp |-> fp, prev |-> NoFingerprint,
                                until |-> clock + UnresolvedRetention]
                          ELSE NoLease]
    BY <1>1 DEF ClaimAllowed
  <2>4. [fp |-> fp, prev |-> NoFingerprint, until |-> clock + UnresolvedRetention] \in Lease
    BY DEF Lease
  <2>5. \A w \in Written(record[k], new) : w.rec \in Record
    BY <2>2 DEF Written
  <2>6. record' \in [Keys -> Record]
    BY <2>1, <2>3, <2>5
  <2>7. lease' \in [Keys -> [Owners -> Lease \cup {NoLease}]]
    <3>1. \/ lease' = lease
          \/ \E x \in Lease \cup {NoLease} : lease' = [lease EXCEPT ![k][o] = x]
      BY <2>3, <2>4
    <3>2. CASE lease' = lease
      BY <3>2
    <3>3. ASSUME NEW x \in Lease \cup {NoLease}, lease' = [lease EXCEPT ![k][o] = x]
          PROVE  lease' \in [Keys -> [Owners -> Lease \cup {NoLease}]]
      <4>1. [lease[k] EXCEPT ![o] = x] \in [Owners -> Lease \cup {NoLease}]
        OBVIOUS
      <4> QED BY <3>3, <4>1
    <3> QED BY <3>1, <3>2, <3>3
  <2> QED BY <1>1, <2>6, <2>7 DEF ClaimAllowed, TypeOK
<1>2. ASSUME NEW fp \in Fingerprints, ClaimRefused(k, fp)  PROVE TypeOK'
  BY <1>2 DEF ClaimRefused, Written, TypeOK
<1>3. ASSUME NEW applies, NEW results, applies => results \subseteq Record,
             Transition(k, applies, results)
      PROVE  /\ record'[k] \in Record
             /\ record' \in [Keys -> Record]
             /\ done' \in [Keys -> [Fingerprints -> Nat \cup {Never}]]
  BY <1>3, TransitionType
<1>4. ASSUME NEW fp \in Fingerprints, MarkDispatched(k, o, fp)  PROVE TypeOK'
  <2>1. Owns(Load(k), fp, o) => {Dispatched(Load(k), clock)} \subseteq Record
    BY OwnedIsActive, MutationTypes
  <2>2. /\ record'[k] \in Record
        /\ record' \in [Keys -> Record]
        /\ done' \in [Keys -> [Fingerprints -> Nat \cup {Never}]]
    BY <1>3, <1>4, <2>1 DEF MarkDispatched
  <2>3. lease' \in [Keys -> [Owners -> Lease \cup {NoLease}]]
    <3>1. CASE Owns(record'[k], fp, o) /\ lease[k][o] # NoLease
      <4>1. record'[k].active.expires \in Nat
        BY <3>1, <2>2, OwnedIsActive, ExpiresType
      <4>2. [lease[k][o] EXCEPT !.until = record'[k].active.expires] \in Lease
        BY <3>1, <4>1 DEF Lease
      <4> QED BY <1>4, <4>2 DEF MarkDispatched
    <3>2. CASE ~(Owns(record'[k], fp, o) /\ lease[k][o] # NoLease)
      BY <1>4, <3>2 DEF MarkDispatched
    <3> QED BY <3>1, <3>2
  <2> QED BY <1>4, <2>2, <2>3 DEF MarkDispatched, TypeOK
<1>5. ASSUME NEW fp \in Fingerprints, NEW next \in Owners, TransferOwner(k, o, next, fp)
      PROVE  TypeOK'
  <2>1. Owns(Load(k), fp, o) => {Transferred(Load(k), next)} \subseteq Record
    BY OwnedIsActive, MutationTypes
  <2>2. /\ record' \in [Keys -> Record]
        /\ done' \in [Keys -> [Fingerprints -> Nat \cup {Never}]]
    BY <1>3, <1>5, <2>1 DEF TransferOwner
  <2>3. lease' \in [Keys -> [Owners -> Lease \cup {NoLease}]]
    BY <1>5 DEF TransferOwner
  <2> QED BY <1>5, <2>2, <2>3 DEF TransferOwner, TypeOK
<1>6. ASSUME NEW prev \in Fingerprints, NEW next \in Fingerprints,
             PrepareStage(k, o, prev, next)
      PROVE  TypeOK'
  <2>1. StagePrepared(Load(k), o, prev, next, clock, process) \subseteq Record
    BY MutationTypes
  <2>2. /\ record'[k] \in Record
        /\ record' \in [Keys -> Record]
        /\ done' \in [Keys -> [Fingerprints -> Nat \cup {Never}]]
    BY <1>3, <1>6, <2>1 DEF PrepareStage
  <2>3. lease' \in [Keys -> [Owners -> Lease \cup {NoLease}]]
    <3>1. Owns(record'[k], next, o) => record'[k].active.expires \in Nat
      BY <2>2, OwnedIsActive, ExpiresType
    <3> QED BY <1>6, <3>1 DEF PrepareStage, Lease
  <2> QED BY <1>6, <2>2, <2>3 DEF PrepareStage, TypeOK
<1>7. ASSUME RollbackStage(k, o)  PROVE TypeOK'
  <2> DEFINE l == lease[k][o]
  <2>0. l \in Lease /\ l.prev \in Fingerprints
    BY <1>7 DEF RollbackStage, Lease
  <2>1. {StageRolledBack(Load(k), o, l.prev, clock, process)} \subseteq Record
    <3>1. \A f \in Fingerprints : StageRolledBack(Load(k), o, f, clock, process) \in Record
      BY MutationTypes
    <3> QED BY <2>0, <3>1
  <2>2. /\ record'[k] \in Record
        /\ record' \in [Keys -> Record]
        /\ done' \in [Keys -> [Fingerprints -> Nat \cup {Never}]]
    BY <1>3, <1>7, <2>1 DEF RollbackStage
  <2>3. lease' \in [Keys -> [Owners -> Lease \cup {NoLease}]]
    <3>1. Owns(record'[k], l.prev, o) => record'[k].active.expires \in Nat
      BY <2>2, OwnedIsActive, ExpiresType
    <3> QED BY <1>7, <2>0, <3>1 DEF RollbackStage, Lease
  <2> QED BY <1>7, <2>2, <2>3 DEF RollbackStage, TypeOK
<1>8. ASSUME NEW fp \in Fingerprints, MarkCompleted(k, o, fp)  PROVE TypeOK'
  <2>1. Completed(Load(k), fp, clock) \subseteq Record
    BY MutationTypes
  <2> QED BY <1>3, <1>8, <2>1 DEF MarkCompleted, Release, TypeOK
<1>9. ASSUME NEW fp \in Fingerprints, MarkAmbiguous(k, o, fp)  PROVE TypeOK'
  <2>1. Owns(Load(k), fp, o) => {MarkedAmbiguous(Load(k), clock)} \subseteq Record
    BY OwnedIsActive, MutationTypes
  <2> QED BY <1>3, <1>9, <2>1 DEF MarkAmbiguous, Release, TypeOK
<1>10. ASSUME NEW fp \in Fingerprints, ClearOperation(k, o, fp)  PROVE TypeOK'
  <2>1. {Cleared(Load(k))} \subseteq Record
    BY MutationTypes
  <2> QED BY <1>3, <1>10, <2>1 DEF ClearOperation, Release, TypeOK
<1> QED
  BY <1>1, <1>2, <1>4, <1>5, <1>6, <1>7, <1>8, <1>9, <1>10 DEF Call, Claim

\* The ledger is type correct.
THEOREM TypeCorrect == Spec => []TypeOK
<1>1. Init => TypeOK
  BY DEF Init, TypeOK, EmptyRecord, Record
<1>2. TypeOK /\ [Next]_vars => TypeOK'
  <2> SUFFICES ASSUME TypeOK, [Next]_vars  PROVE TypeOK'
    OBVIOUS
  <2>1. CASE \E k \in Keys, o \in Owners : Call(k, o)
    BY <2>1, CallType
  <2>2. CASE Tick
    BY <2>2 DEF Tick, TypeOK
  <2>3. CASE Restart
    BY <2>3 DEF Restart, TypeOK
  <2>4. CASE UNCHANGED vars
    BY <2>4 DEF vars, TypeOK
  <2> QED BY <2>1, <2>2, <2>3, <2>4 DEF Next
<1> QED BY <1>1, <1>2, PTL DEF Spec

-----------------------------------------------------------------------------
(* Mutual exclusion.  A live lease is backed by the record, so two live     *)
(* leases on one key would be backed by one owner.                          *)

\* The part of LeaseBacked that speaks of one key and one owner.
BackedAt(k, o) ==
  lease[k][o] # NoLease =>
    \/ Holds(k, o)
    \/ /\ lease[k][o].until <= clock
       /\ record[k].active = NoActive \/ record[k].active.owner # o

\* Loading keeps the marker, or drops a stale one.
LEMMA LoadActive ==
  ASSUME NEW k \in Keys
  PROVE  /\ ~Stale(record[k].active, clock, process) => Load(k).active = record[k].active
         /\ Stale(record[k].active, clock, process) => Load(k).active = NoActive
BY DEF Load, Normalize

\* What a transition can leave as the marker of its key.
LEMMA TransitionActive ==
  ASSUME TypeOK, NEW k \in Keys, NEW applies, NEW results,
         Transition(k, applies, results)
  PROVE  \/ record'[k] = record[k]
         \/ applies /\ record'[k] \in results
         \/ ~applies /\ record'[k] = Load(k)
<1>1. PICK r \in (IF applies THEN results ELSE {Load(k)}) :
        \E w \in Written(record[k], r) :
          /\ record' = [record EXCEPT ![k] = w.rec]
          /\ NoteDone(k, w.rec)
  BY DEF Transition
<1>2. PICK w \in Written(record[k], r) : record' = [record EXCEPT ![k] = w.rec]
  BY <1>1
<1>3. w.rec \in {record[k], r}
  BY DEF Written
<1> QED BY <1>1, <1>2, <1>3 DEF TypeOK

\* A transition touches only its key.
LEMMA TransitionFrame ==
  ASSUME TypeOK, NEW k \in Keys, NEW applies, NEW results,
         Transition(k, applies, results), NEW j \in Keys, j # k
  PROVE  record'[j] = record[j]
BY DEF Transition, TypeOK

\* A caller that keeps its lease keeps its backing when the marker stays, is
\* normalized away, or is replaced where nobody held it.
LEMMA BackingKept ==
  ASSUME TypeOK, NEW j \in Keys, NEW p \in Owners, BackedAt(j, p),
         lease'[j][p] = lease[j][p], clock' = clock, process' = process,
         \/ record'[j].active = record[j].active
         \/ record'[j].active = Load(j).active
         \/ /\ \/ Load(j).active = NoActive
               \/ Load(j).active.owner # p
               \/ Load(j).active.state = "Ambiguous"
            /\ record'[j].active = NoActive \/ record'[j].active.owner # p
  PROVE  BackedAt(j, p)'
<1>1. SUFFICES ASSUME lease[j][p] # NoLease
               PROVE  \/ Holds(j, p)'
                      \/ /\ lease[j][p].until <= clock
                         /\ record'[j].active = NoActive \/ record'[j].active.owner # p
  BY DEF BackedAt
<1>2. CASE record'[j].active = record[j].active
  BY <1>1, <1>2 DEF BackedAt, Holds
<1>3. CASE Holds(j, p) /\ ~Stale(record[j].active, clock, process)
  BY <1>1, <1>3, LoadActive DEF BackedAt, Holds
<1>4. CASE Holds(j, p) /\ Stale(record[j].active, clock, process)
  <2>1. lease[j][p].until <= clock
    BY <1>4 DEF Holds, Stale
  <2>2. Load(j).active = NoActive
    BY <1>4, LoadActive
  <2> QED BY <2>1, <2>2, <1>1, <1>2
<1>5. CASE ~Holds(j, p)
  BY <1>1, <1>2, <1>5, LoadActive DEF BackedAt
<1> QED BY <1>3, <1>4, <1>5

\* A caller that has a lease and owns the loaded record holds it.
LEMMA OwnerHolds ==
  ASSUME NEW k \in Keys, NEW o \in Owners, NEW fp, BackedAt(k, o),
         lease[k][o] # NoLease, Owns(Load(k), fp, o)
  PROVE  /\ Holds(k, o)
         /\ Load(k).active = record[k].active
         /\ lease[k][o].fp = fp
<1>1. Load(k).active = record[k].active
  BY LoadActive DEF Owns
<1>2. Holds(k, o)
  BY <1>1 DEF BackedAt, Owns
<1> QED BY <1>1, <1>2 DEF Holds, Owns

\* A transition by o on k whose results have no marker, or one owned by q,
\* preserves LeaseBacked when the leases of o and q and the leases it changed
\* are backed.
LEMMA TransitionBacked ==
  ASSUME TypeOK, LeaseBacked, NEW k \in Keys, NEW o \in Owners, NEW q \in Owners,
         NEW applies, NEW results, Transition(k, applies, results),
         clock' = clock, process' = process,
         applies => Load(k).active.owner = o,
         applies => \A r \in results : r.active = NoActive \/ r.active.owner = q,
         \A p \in Owners :
           lease'[k][p] # lease[k][p] \/ (applies /\ p \in {o, q}) => BackedAt(k, p)',
         \A j \in Keys \ {k}, p \in Owners : lease'[j][p] = lease[j][p]
  PROVE  LeaseBacked'
<1>1. \A j \in Keys, p \in Owners : BackedAt(j, p)
  BY DEF LeaseBacked, BackedAt
<1>2. ASSUME NEW j \in Keys \ {k}, NEW p \in Owners  PROVE BackedAt(j, p)'
  BY <1>1, <1>2, TransitionFrame, BackingKept
<1>3. ASSUME NEW p \in Owners  PROVE BackedAt(k, p)'
  <2>1. CASE lease'[k][p] # lease[k][p] \/ (applies /\ p \in {o, q})
    BY <2>1
  <2>2. CASE lease'[k][p] = lease[k][p] /\ ~(applies /\ p \in {o, q})
    <3>1. CASE record'[k] = record[k]
      BY <3>1, <2>2, <1>1, BackingKept
    <3>2. CASE ~applies /\ record'[k] = Load(k)
      BY <3>2, <2>2, <1>1, BackingKept
    <3>3. CASE applies /\ record'[k] \in results
      <4>1. Load(k).active.owner # p
        BY <3>3, <2>2
      <4>2. record'[k].active = NoActive \/ record'[k].active.owner # p
        BY <3>3, <2>2
      <4> QED BY <4>1, <4>2, <2>2, <1>1, BackingKept
    <3> QED BY <3>1, <3>2, <3>3, TransitionActive
  <2> QED BY <2>1, <2>2
<1> QED BY <1>2, <1>3 DEF LeaseBacked, BackedAt

\* Dispatching a marker keeps its identity and does not make it ambiguous.
LEMMA DispatchedActive ==
  ASSUME NEW r \in Record, NEW now \in Nat, r.active # NoActive
  PROVE  /\ Dispatched(r, now).active # NoActive
         /\ Dispatched(r, now).active.owner = r.active.owner
         /\ Dispatched(r, now).active.fp = r.active.fp
         /\ Dispatched(r, now).active.proc = r.active.proc
         /\ r.active.state # "Ambiguous" => Dispatched(r, now).active.state # "Ambiguous"
<1>1. r = [active |-> r.active, completed |-> r.completed] /\ r.active \in ActiveOperation
  BY DEF Record
<1>2. Dispatched(r, now).active \in {r.active,
        [r.active EXCEPT !.state = "Dispatched", !.expires = now + UnresolvedRetention]}
  BY <1>1 DEF Dispatched
<1>3. now + UnresolvedRetention \in Nat
  BY LedgerAssumption
<1>4. CASE Dispatched(r, now).active = r.active
  BY <1>4
<1>5. CASE Dispatched(r, now).active =
        [r.active EXCEPT !.state = "Dispatched", !.expires = now + UnresolvedRetention]
  <2> DEFINE d == [r.active EXCEPT !.state = "Dispatched", !.expires = now + UnresolvedRetention]
  <2>1. d \in ActiveOperation
    BY <1>1, <1>3 DEF ActiveOperation, ActiveStates
  <2>2. d.owner = r.active.owner /\ d.fp = r.active.fp /\ d.proc = r.active.proc /\ d.state = "Dispatched"
    BY <1>1 DEF ActiveOperation
  <2> QED BY <1>5, <2>1, <2>2, LedgerAssumption
<1> QED BY <1>2, <1>4, <1>5

\* Every call preserves the backing of every lease.
LEMMA CallBacked ==
  ASSUME TypeOK, TypeOK', LeaseBacked, NEW k \in Keys, NEW o \in Owners, Call(k, o)
  PROVE  LeaseBacked'
<1>0. /\ lease \in [Keys -> [Owners -> Lease \cup {NoLease}]]
      /\ lease' \in [Keys -> [Owners -> Lease \cup {NoLease}]]
      /\ record \in [Keys -> Record] /\ record' \in [Keys -> Record]
      /\ \A j \in Keys, p \in Owners : BackedAt(j, p)
  BY DEF TypeOK, LeaseBacked, BackedAt
<1> USE <1>0
<1>1. ASSUME NEW fp \in Fingerprints, ClaimAllowed(k, o, fp)  PROVE LeaseBacked'
  <2> DEFINE new == Claimed(Load(k), fp, o, clock, process)
             grant == [fp |-> fp, prev |-> NoFingerprint,
                       until |-> clock + UnresolvedRetention]
  <2>1. clock' = clock /\ process' = process
    BY <1>1 DEF ClaimAllowed
  <2>2. \/ record' = Room(k) /\ lease' = lease
        \/ \E w \in Written(record[k], new) :
             /\ record' = [Room(k) EXCEPT ![k] = w.rec]
             /\ lease' = [lease EXCEPT ![k][o] = IF w.ok THEN grant ELSE NoLease]
    BY <1>1 DEF ClaimAllowed
  <2>3. Room(k) \in [Keys -> Record]
    <3>1. EmptyRecord \in Record
      BY DEF EmptyRecord, Record
    <3> QED BY <3>1 DEF Room, Reclaimed
  <2>4. \A j \in Keys : Room(k)[j].active \in {record[j].active, Load(j).active}
    BY DEF Room, Reclaimed
  <2>5. \A w \in Written(record[k], new) : w.rec \in {record[k], new} /\ (w.ok => w.rec = new)
    BY DEF Written
  <2>6. ASSUME NEW j \in Keys, NEW p \in Owners, j # k  PROVE BackedAt(j, p)'
    <3>1. lease'[j][p] = lease[j][p]
      BY <2>2, <2>6
    <3>2. record'[j] = Room(k)[j]
      BY <2>2, <2>3, <2>6
    <3> QED BY <2>1, <2>4, <3>1, <3>2, BackingKept
  <2>7. Load(k).active = NoActive \/ Load(k).active.state = "Ambiguous"
    BY <1>1 DEF ClaimAllowed, Admission, CanRotateAmbiguous
  <2>8. /\ new.active = Active(fp, o, process, "Prepared", clock)
        /\ new.active.owner = o
    BY LoadType DEF Claimed, Active, Record
  <2>9. ASSUME NEW p \in Owners  PROVE BackedAt(k, p)'
    <3>1. CASE record' = Room(k) /\ lease' = lease
      BY <3>1, <2>1, <2>4, BackingKept
    <3>2. ASSUME NEW w \in Written(record[k], new),
                 record' = [Room(k) EXCEPT ![k] = w.rec],
                 lease' = [lease EXCEPT ![k][o] = IF w.ok THEN grant ELSE NoLease]
          PROVE  BackedAt(k, p)'
      <4>1. record'[k] = w.rec
        BY <3>2, <2>3
      <4>2. CASE p # o
        <5>1. lease'[k][p] = lease[k][p]
          BY <3>2, <4>2
        <5> QED BY <4>1, <4>2, <5>1, <2>1, <2>5, <2>7, <2>8, BackingKept
      <4>3. CASE p = o /\ ~w.ok
        <5>1. lease'[k][p] = NoLease
          BY <3>2, <4>3
        <5> QED BY <5>1 DEF BackedAt
      <4>4. CASE p = o /\ w.ok
        <5>1. lease'[k][p] = grant
          BY <3>2, <4>4
        <5>2. record'[k].active = Active(fp, o, process, "Prepared", clock)
          BY <4>1, <4>4, <2>5, <2>8
        <5>3. Active(fp, o, process, "Prepared", clock) # NoActive
          BY ActiveType, LedgerAssumption DEF TypeOK, ActiveStates
        <5>4. Holds(k, p)'
          BY <5>1, <5>2, <5>3, <4>4, <2>1 DEF Holds, Active
        <5> QED BY <5>4 DEF BackedAt
      <4> QED BY <4>2, <4>3, <4>4
    <3> QED BY <3>1, <3>2, <2>2
  <2> QED BY <2>6, <2>9 DEF LeaseBacked, BackedAt
<1>2. ASSUME NEW fp \in Fingerprints, ClaimRefused(k, fp)  PROVE LeaseBacked'
  <2>1. PICK w \in Written(record[k], Load(k)) : record' = [record EXCEPT ![k] = w.rec]
    BY <1>2 DEF ClaimRefused
  <2>2. w.rec \in {record[k], Load(k)}
    BY DEF Written
  <2>3. \A j \in Keys : record'[j] \in {record[j], Load(j)}
    BY <2>1, <2>2
  <2>4. clock' = clock /\ process' = process /\ lease' = lease
    BY <1>2 DEF ClaimRefused
  <2>5. ASSUME NEW j \in Keys, NEW p \in Owners  PROVE BackedAt(j, p)'
    BY <2>3, <2>4, BackingKept
  <2> QED BY <2>5 DEF LeaseBacked, BackedAt
<1>3. ASSUME NEW fp \in Fingerprints, MarkDispatched(k, o, fp)  PROVE LeaseBacked'
  <2>1. /\ Transition(k, Owns(Load(k), fp, o), {Dispatched(Load(k), clock)})
        /\ clock' = clock /\ process' = process
        /\ lease' = IF Owns(Load(k), fp, o) /\ lease[k][o] # NoLease /\ Owns(record'[k], fp, o)
                    THEN [lease EXCEPT ![k][o] =
                           [@ EXCEPT !.until = record'[k].active.expires]]
                    ELSE lease
    BY <1>3 DEF MarkDispatched
  <2>2. Owns(Load(k), fp, o) =>
          /\ Dispatched(Load(k), clock).active # NoActive
          /\ Dispatched(Load(k), clock).active.owner = o
          /\ Dispatched(Load(k), clock).active.fp = fp
          /\ Dispatched(Load(k), clock).active.proc = Load(k).active.proc
          /\ Load(k).active.state # "Ambiguous" =>
               Dispatched(Load(k), clock).active.state # "Ambiguous"
    BY LoadType, DispatchedActive DEF Owns, TypeOK
  <2>3. ASSUME Owns(Load(k), fp, o)  PROVE BackedAt(k, o)'
    <3>1. CASE lease[k][o] = NoLease
      BY <3>1, <2>1 DEF BackedAt
    <3>2. CASE lease[k][o] # NoLease
      <4>2. Holds(k, o) /\ Load(k).active = record[k].active /\ lease[k][o].fp = fp
        BY <3>2, <2>3, OwnerHolds
      <4>3. record'[k] = record[k] \/ record'[k] = Dispatched(Load(k), clock)
        BY <2>1, <2>3, TransitionActive
      <4>4. /\ record'[k].active # NoActive
            /\ record'[k].active.owner = o /\ record'[k].active.fp = fp
            /\ record'[k].active.proc = process /\ record'[k].active.state # "Ambiguous"
        BY <4>2, <4>3, <2>2, <2>3 DEF Holds
      <4>5. lease'[k][o] = [lease[k][o] EXCEPT !.until = record'[k].active.expires]
        BY <3>2, <4>4, <2>1, <2>3 DEF Owns
      <4>6. lease'[k][o].fp = fp /\ lease'[k][o].until = record'[k].active.expires
        BY <3>2, <4>2, <4>5 DEF Lease
      <4>7. Holds(k, o)'
        BY <4>4, <4>6, <2>1 DEF Holds
      <4> QED BY <4>7 DEF BackedAt
    <3> QED BY <3>1, <3>2
  <2>4. \A p \in Owners :
          lease'[k][p] # lease[k][p] \/ (Owns(Load(k), fp, o) /\ p \in {o, o}) => BackedAt(k, p)'
    BY <2>1, <2>3
  <2>5. \A j \in Keys \ {k}, p \in Owners : lease'[j][p] = lease[j][p]
    BY <2>1
  <2>6. Owns(Load(k), fp, o) => Load(k).active.owner = o
    BY DEF Owns
  <2>7. Owns(Load(k), fp, o) =>
          \A r \in {Dispatched(Load(k), clock)} : r.active = NoActive \/ r.active.owner = o
    BY <2>2
  <2> QED BY <2>1, <2>4, <2>5, <2>6, <2>7, TransitionBacked
<1>4. ASSUME NEW fp \in Fingerprints, NEW next \in Owners, TransferOwner(k, o, next, fp)
      PROVE  LeaseBacked'
  <2>1. /\ Transition(k, Owns(Load(k), fp, o), {Transferred(Load(k), next)})
        /\ clock' = clock /\ process' = process
        /\ o # next /\ lease[k][next] = NoLease
        /\ lease' = IF Owns(Load(k), fp, o) /\ Owns(record'[k], fp, next)
                    THEN [lease EXCEPT ![k][next] = lease[k][o], ![k][o] = NoLease]
                    ELSE lease
    BY <1>4 DEF TransferOwner
  <2>2. Owns(Load(k), fp, o) =>
          /\ Load(k).active \in ActiveOperation
          /\ Transferred(Load(k), next).active = [Load(k).active EXCEPT !.owner = next]
    BY LoadType DEF Owns, Transferred, Record
  <2>3. Owns(Load(k), fp, o) =>
          /\ Transferred(Load(k), next).active # NoActive
          /\ Transferred(Load(k), next).active.owner = next
          /\ Transferred(Load(k), next).active.fp = Load(k).active.fp
          /\ Transferred(Load(k), next).active.proc = Load(k).active.proc
          /\ Transferred(Load(k), next).active.state = Load(k).active.state
          /\ Transferred(Load(k), next).active.expires = Load(k).active.expires
    <3>1. ASSUME NEW a \in ActiveOperation
          PROVE  /\ [a EXCEPT !.owner = next] # NoActive
                 /\ [a EXCEPT !.owner = next].owner = next
                 /\ [a EXCEPT !.owner = next].fp = a.fp
                 /\ [a EXCEPT !.owner = next].proc = a.proc
                 /\ [a EXCEPT !.owner = next].state = a.state
                 /\ [a EXCEPT !.owner = next].expires = a.expires
      BY LedgerAssumption DEF ActiveOperation
    <3> QED BY <2>2, <3>1
  <2>4. ASSUME Owns(Load(k), fp, o)
        PROVE  BackedAt(k, o)' /\ BackedAt(k, next)'
    <3>1. record'[k] = record[k] \/ record'[k] = Transferred(Load(k), next)
      BY <2>1, <2>4, TransitionActive
    <3>2. CASE record'[k] = record[k]
      <4>1. Load(k).active = record[k].active
        BY <2>4, LoadActive DEF Owns
      <4>2. lease' = lease
        BY <2>1, <2>4, <3>2, <4>1 DEF Owns
      <4> QED BY <3>2, <4>2, <2>1, BackingKept
    <3>3. CASE record'[k] = Transferred(Load(k), next)
      <4>1. lease'[k][o] = NoLease /\ lease'[k][next] = lease[k][o]
        BY <2>1, <2>3, <2>4, <3>3 DEF Owns
      <4>2. CASE lease[k][o] = NoLease
        BY <4>1, <4>2 DEF BackedAt
      <4>3. CASE lease[k][o] # NoLease
        <5>1. Holds(k, o) /\ Load(k).active = record[k].active
          BY <2>4, <4>3, OwnerHolds
        <5>2. Holds(k, next)'
          BY <5>1, <4>1, <3>3, <2>3, <2>1, <2>4 DEF Holds
        <5> QED BY <5>2, <4>1 DEF BackedAt
      <4> QED BY <4>2, <4>3
    <3> QED BY <3>1, <3>2, <3>3
  <2>5. \A p \in Owners :
          lease'[k][p] # lease[k][p] \/ (Owns(Load(k), fp, o) /\ p \in {o, next}) => BackedAt(k, p)'
    BY <2>1, <2>4
  <2>6. \A j \in Keys \ {k}, p \in Owners : lease'[j][p] = lease[j][p]
    BY <2>1
  <2>7. Owns(Load(k), fp, o) => Load(k).active.owner = o
    BY DEF Owns
  <2>8. Owns(Load(k), fp, o) =>
          \A r \in {Transferred(Load(k), next)} : r.active = NoActive \/ r.active.owner = next
    BY <2>3
  <2> QED BY <2>1, <2>5, <2>6, <2>7, <2>8, TransitionBacked
<1>5. ASSUME NEW prev \in Fingerprints, NEW next \in Fingerprints,
             PrepareStage(k, o, prev, next)
      PROVE  LeaseBacked'
  <2> DEFINE stage == Active(next, o, process, "Prepared", clock)
  <2>1. /\ Transition(k, CanPrepareStage(Load(k), o, prev),
                      StagePrepared(Load(k), o, prev, next, clock, process))
        /\ clock' = clock /\ process' = process
        /\ lease' = IF CanPrepareStage(Load(k), o, prev) /\ lease[k][o] # NoLease
                       /\ Owns(record'[k], next, o)
                    THEN [lease EXCEPT ![k][o] =
                           [fp |-> next, prev |-> prev,
                            until |-> record'[k].active.expires]]
                    ELSE lease
    BY <1>5 DEF PrepareStage
  <2>2. \A r \in StagePrepared(Load(k), o, prev, next, clock, process) : r.active = stage
    BY DEF StagePrepared
  <2>3. /\ stage # NoActive /\ stage.owner = o /\ stage.fp = next
        /\ stage.proc = process /\ stage.state = "Prepared"
    BY ActiveType, LedgerAssumption DEF Active, TypeOK, ActiveStates
  <2>4. CanPrepareStage(Load(k), o, prev) => Owns(Load(k), prev, o)
    BY DEF CanPrepareStage
  <2>5. ASSUME CanPrepareStage(Load(k), o, prev)  PROVE BackedAt(k, o)'
    <3>1. CASE lease[k][o] = NoLease
      BY <3>1, <2>1 DEF BackedAt
    <3>2. CASE lease[k][o] # NoLease
      <4>1. Holds(k, o)
        BY <3>2, <2>4, <2>5, OwnerHolds
      <4>2. record'[k] = record[k] \/ record'[k].active = stage
        BY <2>1, <2>2, <2>5, TransitionActive
      <4>3. CASE Owns(record'[k], next, o)
        <5>1. /\ lease'[k][o].fp = next
              /\ lease'[k][o].until = record'[k].active.expires
          BY <2>1, <2>5, <3>2, <4>3
        <5>2. record'[k].active.proc = process /\ record'[k].active.state # "Ambiguous"
          BY <4>1, <4>2, <2>3 DEF Holds
        <5>3. Holds(k, o)'
          BY <5>1, <5>2, <4>3, <2>1 DEF Holds, Owns
        <5> QED BY <5>3 DEF BackedAt
      <4>4. CASE ~Owns(record'[k], next, o)
        <5>1. record'[k] = record[k] /\ lease' = lease
          BY <4>2, <4>4, <2>1, <2>3 DEF Owns
        <5> QED BY <5>1, <2>1, BackingKept
      <4> QED BY <4>3, <4>4
    <3> QED BY <3>1, <3>2
  <2>6. \A p \in Owners :
          lease'[k][p] # lease[k][p] \/ (CanPrepareStage(Load(k), o, prev) /\ p \in {o, o})
            => BackedAt(k, p)'
    BY <2>1, <2>5
  <2>7. \A j \in Keys \ {k}, p \in Owners : lease'[j][p] = lease[j][p]
    BY <2>1
  <2>8. CanPrepareStage(Load(k), o, prev) => Load(k).active.owner = o
    BY <2>4 DEF Owns
  <2>9. CanPrepareStage(Load(k), o, prev) =>
          \A r \in StagePrepared(Load(k), o, prev, next, clock, process) :
            r.active = NoActive \/ r.active.owner = o
    BY <2>2, <2>3
  <2> QED BY <2>1, <2>6, <2>7, <2>8, <2>9, TransitionBacked
<1>6. ASSUME RollbackStage(k, o)  PROVE LeaseBacked'
  <2> DEFINE l == lease[k][o]
             back == Active(l.prev, o, process, "Dispatched", clock)
  <2>0. l # NoLease /\ l \in Lease /\ l.prev \in Fingerprints
    BY <1>6 DEF RollbackStage, Lease
  <2>1. /\ Transition(k, Owns(Load(k), l.fp, o),
                      {StageRolledBack(Load(k), o, l.prev, clock, process)})
        /\ clock' = clock /\ process' = process
        /\ lease' = IF Owns(Load(k), l.fp, o) /\ Owns(record'[k], l.prev, o)
                    THEN [lease EXCEPT ![k][o] =
                           [fp |-> l.prev, prev |-> NoFingerprint,
                            until |-> record'[k].active.expires]]
                    ELSE lease
    BY <1>6 DEF RollbackStage
  <2>2. StageRolledBack(Load(k), o, l.prev, clock, process).active = back
    BY LoadType DEF StageRolledBack, Record
  <2>3. /\ back # NoActive /\ back.owner = o /\ back.fp = l.prev
        /\ back.proc = process /\ back.state = "Dispatched"
    BY <2>0, ActiveType, LedgerAssumption DEF Active, TypeOK, ActiveStates
  <2>4. ASSUME Owns(Load(k), l.fp, o)  PROVE BackedAt(k, o)'
    <3>1. Holds(k, o)
      BY <2>0, <2>4, OwnerHolds
    <3>2. record'[k] = record[k] \/ record'[k].active = back
      BY <2>1, <2>2, <2>4, TransitionActive
    <3>3. CASE Owns(record'[k], l.prev, o)
      <4>1. /\ lease'[k][o].fp = l.prev
            /\ lease'[k][o].until = record'[k].active.expires
        BY <2>1, <2>4, <3>3
      <4>2. record'[k].active.proc = process /\ record'[k].active.state # "Ambiguous"
        BY <3>1, <3>2, <2>3 DEF Holds
      <4>3. Holds(k, o)'
        BY <4>1, <4>2, <3>3, <2>1 DEF Holds, Owns
      <4> QED BY <4>3 DEF BackedAt
    <3>4. CASE ~Owns(record'[k], l.prev, o)
      <4>1. record'[k] = record[k] /\ lease' = lease
        BY <3>2, <3>4, <2>1, <2>3 DEF Owns
      <4> QED BY <4>1, <2>1, BackingKept
    <3> QED BY <3>3, <3>4
  <2>5. \A p \in Owners :
          lease'[k][p] # lease[k][p] \/ (Owns(Load(k), l.fp, o) /\ p \in {o, o})
            => BackedAt(k, p)'
    BY <2>1, <2>4
  <2>6. \A j \in Keys \ {k}, p \in Owners : lease'[j][p] = lease[j][p]
    BY <2>1
  <2>7. Owns(Load(k), l.fp, o) => Load(k).active.owner = o
    BY DEF Owns
  <2>8. Owns(Load(k), l.fp, o) =>
          \A r \in {StageRolledBack(Load(k), o, l.prev, clock, process)} :
            r.active = NoActive \/ r.active.owner = o
    BY <2>2, <2>3
  <2> QED BY <2>1, <2>5, <2>6, <2>7, <2>8, TransitionBacked
<1>7. ASSUME Release(k, o)
      PROVE  /\ BackedAt(k, o)'
             /\ \A p \in Owners : lease'[k][p] # lease[k][p] => BackedAt(k, p)'
             /\ \A j \in Keys \ {k}, p \in Owners : lease'[j][p] = lease[j][p]
  <2>1. lease' = [lease EXCEPT ![k][o] = NoLease]
    BY <1>7 DEF Release
  <2>2. \A p \in Owners : lease'[k][p] = IF p = o THEN NoLease ELSE lease[k][p]
    BY <2>1
  <2> QED BY <2>1, <2>2 DEF BackedAt
<1>8. ASSUME NEW fp \in Fingerprints, MarkCompleted(k, o, fp)  PROVE LeaseBacked'
  <2>1. /\ Transition(k, CanComplete(Load(k), fp, o), Completed(Load(k), fp, clock))
        /\ Release(k, o) /\ clock' = clock /\ process' = process
    BY <1>8 DEF MarkCompleted
  <2>2. CASE fp \in History(Load(k).completed)
    <3>1. CanComplete(Load(k), fp, o) /\ Completed(Load(k), fp, clock) = {Load(k)}
      BY <2>2 DEF CanComplete, Completed
    <3>2. Transition(k, FALSE, {})
      BY <2>1, <3>1 DEF Transition
    <3>3. \A p \in Owners :
            lease'[k][p] # lease[k][p] \/ (FALSE /\ p \in {o, o}) => BackedAt(k, p)'
      BY <2>1, <1>7
    <3> QED BY <3>2, <3>3, <2>1, <1>7, TransitionBacked
  <2>3. CASE fp \notin History(Load(k).completed)
    <3>1. CanComplete(Load(k), fp, o) => Load(k).active.owner = o
      BY <2>3 DEF CanComplete, Owns
    <3>2. CanComplete(Load(k), fp, o) =>
            \A r \in Completed(Load(k), fp, clock) : r.active = NoActive \/ r.active.owner = o
      BY <2>3 DEF Completed
    <3>3. \A p \in Owners :
            lease'[k][p] # lease[k][p] \/ (CanComplete(Load(k), fp, o) /\ p \in {o, o})
              => BackedAt(k, p)'
      BY <2>1, <1>7
    <3> QED BY <3>1, <3>2, <3>3, <2>1, <1>7, TransitionBacked
  <2> QED BY <2>2, <2>3
<1>9. ASSUME NEW fp \in Fingerprints, MarkAmbiguous(k, o, fp)  PROVE LeaseBacked'
  <2>1. /\ Transition(k, Owns(Load(k), fp, o), {MarkedAmbiguous(Load(k), clock)})
        /\ Release(k, o) /\ clock' = clock /\ process' = process
    BY <1>9 DEF MarkAmbiguous
  <2>2. Owns(Load(k), fp, o) => Load(k).active.owner = o
    BY DEF Owns
  <2>3. Owns(Load(k), fp, o) =>
          \A r \in {MarkedAmbiguous(Load(k), clock)} : r.active = NoActive \/ r.active.owner = o
    BY LoadType DEF Owns, MarkedAmbiguous, Record, ActiveOperation
  <2>4. \A p \in Owners :
          lease'[k][p] # lease[k][p] \/ (Owns(Load(k), fp, o) /\ p \in {o, o}) => BackedAt(k, p)'
    BY <2>1, <1>7
  <2> QED BY <2>1, <2>2, <2>3, <2>4, <1>7, TransitionBacked
<1>10. ASSUME NEW fp \in Fingerprints, ClearOperation(k, o, fp)  PROVE LeaseBacked'
  <2>1. /\ Transition(k, Owns(Load(k), fp, o), {Cleared(Load(k))})
        /\ Release(k, o) /\ clock' = clock /\ process' = process
    BY <1>10 DEF ClearOperation
  <2>2. Owns(Load(k), fp, o) => Load(k).active.owner = o
    BY DEF Owns
  <2>3. Owns(Load(k), fp, o) =>
          \A r \in {Cleared(Load(k))} : r.active = NoActive \/ r.active.owner = o
    BY LoadType DEF Cleared, Record
  <2>4. \A p \in Owners :
          lease'[k][p] # lease[k][p] \/ (Owns(Load(k), fp, o) /\ p \in {o, o}) => BackedAt(k, p)'
    BY <2>1, <1>7
  <2> QED BY <2>1, <2>2, <2>3, <2>4, <1>7, TransitionBacked
<1> QED
  BY <1>1, <1>2, <1>3, <1>4, <1>5, <1>6, <1>8, <1>9, <1>10 DEF Call, Claim

\* A live lease is backed by the record of its key, through every call, disk
\* error, expiry and restart.
THEOREM LeasesBacked == Spec => []LeaseBacked
<1>1. Init => LeaseBacked
  BY DEF Init, LeaseBacked
<1>2. TypeOK /\ TypeOK' /\ LeaseBacked /\ [Next]_vars => LeaseBacked'
  <2> SUFFICES ASSUME TypeOK, TypeOK', LeaseBacked, [Next]_vars  PROVE LeaseBacked'
    OBVIOUS
  <2>1. CASE \E k \in Keys, o \in Owners : Call(k, o)
    BY <2>1, CallBacked
  <2>2. CASE Tick
    BY <2>2 DEF Tick, TypeOK, LeaseBacked, Holds, Lease
  <2>3. CASE Restart
    BY <2>3 DEF Restart, LeaseBacked
  <2>4. CASE UNCHANGED vars
    BY <2>4 DEF vars, LeaseBacked, Holds
  <2> QED BY <2>1, <2>2, <2>3, <2>4 DEF Next
<1> QED BY <1>1, <1>2, TypeCorrect, PTL DEF Spec

\* Two owners never hold a live lease on one key at the same time.
THEOREM MutualExclusion == Spec => []LeaseExclusive
<1>1. LeaseBacked /\ TypeOK => LeaseExclusive
  BY DEF LeaseBacked, LeaseExclusive, Holds, Abstract!Live, TypeOK, Lease
<1> QED BY <1>1, LeasesBacked, TypeCorrect, PTL

-----------------------------------------------------------------------------
(* What happens to one history.                                             *)

\* The part of HistoryFaithful that speaks of one key.
HistoryAt(k) ==
  /\ Cardinality(History(record[k].completed)) <= MaxCompleted
  /\ \A f \in Fingerprints :
       /\ done[k][f] <= clock
       /\ record[k].completed[f] \in {Never, done[k][f]}
       /\ Abstract!Remembered(k, f) => record[k].completed[f] = done[k][f]

\* The fingerprints that completed at f's time or later.
Later(d, f) == {g \in Fingerprints : d[g] >= d[f]}

\* Histories and completion times are well formed.
LEMMA HistoryTypes ==
  ASSUME TypeOK, NEW k \in Keys
  PROVE  /\ record[k].completed \in [Fingerprints -> Nat \cup {Never}]
         /\ Load(k).completed \in [Fingerprints -> Nat \cup {Never}]
         /\ done[k] \in [Fingerprints -> Nat \cup {Never}]
         /\ clock \in Nat
  BY LoadType DEF TypeOK, Record

\* Normalization forgets what is past its retention.
LEMMA LoadHistory ==
  ASSUME NEW k \in Keys, NEW f \in Fingerprints
  PROVE  Load(k).completed[f] =
           IF record[k].completed[f] >= clock - CompletedRetention THEN record[k].completed[f] ELSE Never
  BY DEF Load, Normalize

\* A history is finite.
LEMMA HistoryFinite ==
  ASSUME NEW c
  PROVE  IsFiniteSet(History(c)) /\ Cardinality(History(c)) \in Nat
<1>1. IsFiniteSet(History(c))
  BY LedgerAssumption, FS_Subset DEF History
<1> QED
  BY <1>1, FS_CardinalityType

\* Remembered in terms of the constants of this module.
LEMMA RememberedIs ==
  ASSUME NEW k \in Keys, NEW f \in Fingerprints
  PROVE  Abstract!Remembered(k, f) <=>
           /\ done[k][f] # Never /\ done[k][f] >= clock - CompletedRetention
           /\ Cardinality(Later(done[k], f)) <= MaxCompleted
  BY DEF Abstract!Remembered, Abstract!Never, Never, Later, Abstract!Cardinality, Cardinality

\* A history that is left alone or normalized stays faithful.
LEMMA HistoryKept ==
  ASSUME TypeOK, NEW k \in Keys, HistoryAt(k), clock' = clock, done'[k] = done[k],
         record'[k].completed \in {record[k].completed, Load(k).completed}
  PROVE  HistoryAt(k)'
<1>1. \A f \in Fingerprints : (Abstract!Remembered(k, f))' <=> Abstract!Remembered(k, f)
  BY DEF Abstract!Remembered
<1>2. ASSUME NEW f \in Fingerprints
      PROVE  /\ record'[k].completed[f] \in {Never, record[k].completed[f]}
             /\ record[k].completed[f] >= clock - CompletedRetention =>
                  record'[k].completed[f] = record[k].completed[f]
  BY LoadHistory
<1>3. Cardinality(History(record'[k].completed)) <= MaxCompleted
  <2>1. History(record'[k].completed) \subseteq History(record[k].completed)
    BY <1>2 DEF History
  <2>2. Cardinality(History(record'[k].completed)) <= Cardinality(History(record[k].completed))
    BY <2>1, HistoryFinite, FS_Subset
  <2> QED
    BY <2>2, HistoryFinite, LedgerAssumption DEF HistoryAt
<1>4. ASSUME NEW f \in Fingerprints
      PROVE  /\ done'[k][f] <= clock'
             /\ record'[k].completed[f] \in {Never, done'[k][f]}
             /\ (Abstract!Remembered(k, f))' => record'[k].completed[f] = done'[k][f]
  <2>1. /\ done[k][f] <= clock /\ record[k].completed[f] \in {Never, done[k][f]}
        /\ Abstract!Remembered(k, f) => record[k].completed[f] = done[k][f]
    BY DEF HistoryAt
  <2>2. Abstract!Remembered(k, f) => done[k][f] >= clock - CompletedRetention
    BY RememberedIs
  <2> QED
    BY <1>1, <1>2, <2>1, <2>2
<1> QED
  BY <1>3, <1>4 DEF HistoryAt

\* What adding fp leaves of a history.
LEMMA AddedCases ==
  ASSUME NEW c \in [Fingerprints -> Nat \cup {Never}], NEW fp \in Fingerprints, NEW now \in Nat,
         NEW d, d \in AddCompleted(c, fp, now)
  PROVE  \/ d = [c EXCEPT ![fp] = now]
         \/ \E x \in Fingerprints \ {fp} :
              /\ d = [c EXCEPT ![fp] = now, ![x] = Never]
              /\ \A g \in History(c) \ {fp} : c[x] <= c[g]
              /\ Cardinality(History([c EXCEPT ![fp] = now])) > MaxCompleted
<1> DEFINE added == [c EXCEPT ![fp] = now]
<1>1. Cardinality(History(added)) \in Nat /\ MaxCompleted \in Nat
  BY HistoryFinite, LedgerAssumption
<1>2. CASE Cardinality(History(added)) <= MaxCompleted
  BY <1>2 DEF AddCompleted
<1>3. CASE ~(Cardinality(History(added)) <= MaxCompleted)
  <2>1. PICK x \in Oldest(added, fp) : d = [added EXCEPT ![x] = Never]
    BY <1>3 DEF AddCompleted
  <2>2. Cardinality(History(added)) > MaxCompleted
    BY <1>1, <1>3
  <2>3. /\ x \in Fingerprints /\ x # fp
        /\ \A g \in History(added) \ {fp} : added[x] <= added[g]
    BY <2>1 DEF Oldest, History
  <2>4. \A g \in Fingerprints \ {fp} : added[g] = c[g]
    OBVIOUS
  <2>5. \A g \in History(c) \ {fp} : c[x] <= c[g]
    BY <2>3, <2>4 DEF History
  <2> QED
    BY <2>1, <2>2, <2>3, <2>5
<1> QED
  BY <1>2, <1>3

\* Adding fp dates it now, and keeps or drops each other entry.
LEMMA AddedEntry ==
  ASSUME NEW c \in [Fingerprints -> Nat \cup {Never}], NEW fp \in Fingerprints, NEW now \in Nat,
         NEW d, d \in AddCompleted(c, fp, now), NEW f \in Fingerprints
  PROVE  /\ f = fp => d[f] = now
         /\ f # fp => d[f] \in {Never, c[f]}
<1>1. \/ d = [c EXCEPT ![fp] = now]
      \/ \E x \in Fingerprints \ {fp} :
           /\ d = [c EXCEPT ![fp] = now, ![x] = Never]
           /\ \A g \in History(c) \ {fp} : c[x] <= c[g]
           /\ Cardinality(History([c EXCEPT ![fp] = now])) > MaxCompleted
  BY AddedCases, Zenon
<1>2. CASE d = [c EXCEPT ![fp] = now]
  BY <1>2
<1>3. CASE \E x \in Fingerprints \ {fp} :
             /\ d = [c EXCEPT ![fp] = now, ![x] = Never]
             /\ \A g \in History(c) \ {fp} : c[x] <= c[g]
             /\ Cardinality(History([c EXCEPT ![fp] = now])) > MaxCompleted
  <2>1. PICK x \in Fingerprints \ {fp} :
             /\ d = [c EXCEPT ![fp] = now, ![x] = Never]
             /\ \A g \in History(c) \ {fp} : c[x] <= c[g]
             /\ Cardinality(History([c EXCEPT ![fp] = now])) > MaxCompleted
    BY <1>3
  <2> QED
    BY <2>1
<1> QED
  BY <1>1, <1>2, <1>3

\* An entry that adding fp drops is an oldest one of a full history.
LEMMA AddedDisplaces ==
  ASSUME NEW c \in [Fingerprints -> Nat \cup {Never}], NEW fp \in Fingerprints, NEW now \in Nat,
         NEW d, d \in AddCompleted(c, fp, now), NEW f \in Fingerprints, f # fp, d[f] # c[f]
  PROVE  /\ \A g \in History(c) \ {fp} : c[f] <= c[g]
         /\ Cardinality(History([c EXCEPT ![fp] = now])) > MaxCompleted
<1>1. \/ d = [c EXCEPT ![fp] = now]
      \/ \E x \in Fingerprints \ {fp} :
           /\ d = [c EXCEPT ![fp] = now, ![x] = Never]
           /\ \A g \in History(c) \ {fp} : c[x] <= c[g]
           /\ Cardinality(History([c EXCEPT ![fp] = now])) > MaxCompleted
  BY AddedCases, Zenon
<1>2. CASE d = [c EXCEPT ![fp] = now]
  BY <1>2
<1>3. CASE \E x \in Fingerprints \ {fp} :
             /\ d = [c EXCEPT ![fp] = now, ![x] = Never]
             /\ \A g \in History(c) \ {fp} : c[x] <= c[g]
             /\ Cardinality(History([c EXCEPT ![fp] = now])) > MaxCompleted
  <2>1. PICK x \in Fingerprints \ {fp} :
             /\ d = [c EXCEPT ![fp] = now, ![x] = Never]
             /\ \A g \in History(c) \ {fp} : c[x] <= c[g]
             /\ Cardinality(History([c EXCEPT ![fp] = now])) > MaxCompleted
    BY <1>3
  <2>2. x = f
    BY <2>1
  <2> QED
    BY <2>1, <2>2
<1> QED
  BY <1>1, <1>2, <1>3

\* Adding to a history within its bound leaves it within its bound.
LEMMA AddedBound ==
  ASSUME NEW c \in [Fingerprints -> Nat \cup {Never}], NEW fp \in Fingerprints, NEW now \in Nat,
         NEW d \in AddCompleted(c, fp, now), Cardinality(History(c)) <= MaxCompleted
  PROVE  Cardinality(History(d)) <= MaxCompleted
<1> DEFINE added == [c EXCEPT ![fp] = now]
<1>1. /\ Cardinality(History(added)) \in Nat /\ Cardinality(History(c)) \in Nat /\ MaxCompleted \in Nat
      /\ IsFiniteSet(History(added)) /\ IsFiniteSet(History(c))
  BY HistoryFinite, LedgerAssumption
<1>2. CASE Cardinality(History(added)) <= MaxCompleted
  BY <1>2 DEF AddCompleted
<1>3. CASE ~(Cardinality(History(added)) <= MaxCompleted)
  <2>1. PICK x \in Oldest(added, fp) : d = [added EXCEPT ![x] = Never]
    BY <1>3 DEF AddCompleted
  <2>2. x \in History(added) /\ x # fp /\ x \in Fingerprints
    BY <2>1 DEF Oldest, History
  <2>3. History(d) = History(added) \ {x} /\ History(added) \subseteq History(c) \cup {fp}
    BY <2>1, <2>2 DEF History
  <2>4. Cardinality(History(d)) = Cardinality(History(added)) - 1
    <3> HIDE DEF added
    <3>1. Cardinality(History(added) \ {x}) = Cardinality(History(added)) - 1
      BY <1>1, <2>2, FS_RemoveElement
    <3> QED
      BY <2>3, <3>1
  <2>5. Cardinality(History(added)) <= Cardinality(History(c)) + 1
    <3>1. /\ IsFiniteSet(History(c) \cup {fp})
          /\ Cardinality(History(c) \cup {fp}) <= Cardinality(History(c)) + 1
      <4> DEFINE n == Cardinality(History(c))
      <4>1. n \in Nat
        BY <1>1
      <4>2. /\ IsFiniteSet(History(c) \cup {fp})
            /\ Cardinality(History(c) \cup {fp}) = IF fp \in History(c) THEN n ELSE n + 1
        BY <1>1, FS_AddElement
      <4> HIDE DEF n
      <4>3. Cardinality(History(c) \cup {fp}) <= n + 1
        BY <4>1, <4>2
      <4> QED
        BY <4>2, <4>3 DEF n
    <3>2. Cardinality(History(added)) <= Cardinality(History(c) \cup {fp})
      BY <2>3, <3>1, FS_Subset
    <3>3. Cardinality(History(c) \cup {fp}) \in Nat
      BY <3>1, FS_CardinalityType
    <3> HIDE DEF added
    <3> QED
      BY <1>1, <3>1, <3>2, <3>3
  <2> HIDE DEF added
  <2> QED
    BY <1>1, <2>4, <2>5
<1> QED
  BY <1>2, <1>3

\* A completion that is recorded keeps the history faithful: what it displaces
\* has MaxCompleted completions at its time or later besides its own.
LEMMA HistoryRecorded ==
  ASSUME TypeOK, NEW k \in Keys, HistoryAt(k), NEW fp \in Fingerprints, clock' = clock,
         done'[k] = [done[k] EXCEPT ![fp] = clock],
         record'[k].completed \in AddCompleted(Load(k).completed, fp, clock)
  PROVE  HistoryAt(k)'
<1> DEFINE c == Load(k).completed
           d == record'[k].completed
           e == done'[k]
<1>1. /\ c \in [Fingerprints -> Nat \cup {Never}] /\ done[k] \in [Fingerprints -> Nat \cup {Never}]
      /\ clock \in Nat /\ record[k].completed \in [Fingerprints -> Nat \cup {Never}]
  BY HistoryTypes
<1>2. /\ d \in [Fingerprints -> Nat \cup {Never}] /\ d[fp] = clock
      /\ \A f \in Fingerprints \ {fp} : d[f] \in {Never, c[f]}
  <2>1. d \in AddCompleted(c, fp, clock)
    OBVIOUS
  <2> HIDE DEF c, d
  <2>2. d \in [Fingerprints -> Nat \cup {Never}]
    BY <1>1, <2>1, AddCompletedType
  <2> QED
    BY <1>1, <2>1, <2>2, AddedEntry
<1>3. e \in [Fingerprints -> Nat \cup {Never}] /\ e[fp] = clock
      /\ \A f \in Fingerprints \ {fp} : e[f] = done[k][f]
  BY <1>1
<1>4. \A f \in Fingerprints : /\ done[k][f] <= clock /\ c[f] \in {Never, done[k][f]}
                              /\ record[k].completed[f] \in {Never, done[k][f]}
  BY LoadHistory DEF HistoryAt
<1>5. Cardinality(History(d)) <= MaxCompleted
  <2>1. Cardinality(History(c)) <= Cardinality(History(record[k].completed))
    <3>1. History(c) \subseteq History(record[k].completed)
      BY LoadHistory DEF History
    <3> QED
      BY <3>1, HistoryFinite, FS_Subset
  <2>2. Cardinality(History(c)) <= MaxCompleted
    BY <2>1, HistoryFinite, LedgerAssumption DEF HistoryAt
  <2> QED
    BY <1>1, <2>2, AddedBound
<1>6. ASSUME NEW f \in Fingerprints
      PROVE  e[f] <= clock /\ d[f] \in {Never, e[f]}
  BY <1>1, <1>2, <1>3, <1>4
<1>7. ASSUME NEW f \in Fingerprints, (Abstract!Remembered(k, f))'
      PROVE  d[f] = e[f]
  <2>1. /\ e[f] # Never /\ e[f] >= clock - CompletedRetention
        /\ Cardinality(Later(e, f)) <= MaxCompleted
    BY <1>7 DEF Abstract!Remembered, Abstract!Never, Never, Later, Abstract!Cardinality, Cardinality
  <2>2. CASE f = fp
    BY <1>2, <1>3, <2>2
  <2>3. CASE f # fp
    <3>1. Later(done[k], f) \subseteq Later(e, f)
      BY <1>1, <1>3, <1>4, <2>3 DEF Later
    <3>2. IsFiniteSet(Later(e, f)) /\ IsFiniteSet(Later(done[k], f))
      BY LedgerAssumption, FS_Subset DEF Later
    <3>3. /\ Cardinality(Later(done[k], f)) <= Cardinality(Later(e, f))
          /\ Cardinality(Later(done[k], f)) \in Nat /\ Cardinality(Later(e, f)) \in Nat
      BY <3>1, <3>2, FS_Subset, FS_CardinalityType
    <3>4. Abstract!Remembered(k, f)
      BY <1>3, <2>1, <2>3, <3>3, RememberedIs, LedgerAssumption
    <3>5. record[k].completed[f] = done[k][f] /\ c[f] = done[k][f]
      BY <1>3, <2>1, <2>3, <3>4, LoadHistory DEF HistoryAt
    <3>6. ASSUME d[f] # c[f]
          PROVE  FALSE
      <4> DEFINE added == [c EXCEPT ![fp] = clock]
      <4>1. /\ \A g \in History(c) \ {fp} : c[f] <= c[g]
            /\ Cardinality(History(added)) > MaxCompleted
        <5>1. d \in AddCompleted(c, fp, clock)
          OBVIOUS
        <5> HIDE DEF c, d
        <5> QED
          BY <1>1, <2>3, <3>6, <5>1, AddedDisplaces
      <4>2. History(added) \subseteq Later(e, f)
        <5> SUFFICES ASSUME NEW g \in History(added)
                     PROVE  g \in Fingerprints /\ e[g] >= e[f]
          BY DEF Later
        <5>1. CASE g = fp
          BY <1>1, <1>3, <1>4, <2>3, <5>1
        <5>2. CASE g # fp
          <6>1. g \in Fingerprints /\ g \in History(c) \ {fp} /\ c[g] # Never
            BY <1>1, <5>2 DEF History
          <6>2. c[f] <= c[g] /\ c[g] = done[k][g]
            BY <1>4, <4>1, <6>1
          <6>3. e[g] = done[k][g] /\ e[f] = done[k][f]
            BY <1>3, <2>3, <5>2, <6>1
          <6> QED
            BY <1>1, <3>5, <6>1, <6>2, <6>3
        <5> QED
          BY <5>1, <5>2
      <4>3. Cardinality(History(added)) <= Cardinality(Later(e, f))
        BY <4>2, <3>2, FS_Subset
      <4>4. Cardinality(History(added)) \in Nat
        BY HistoryFinite
      <4> HIDE DEF added, e, d, c
      <4> QED
        BY <2>1, <3>3, <4>1, <4>3, <4>4, LedgerAssumption
    <3> QED
      BY <1>3, <2>3, <3>5, <3>6
  <2> QED
    BY <2>2, <2>3
<1> QED
  BY <1>5, <1>6, <1>7 DEF HistoryAt

-----------------------------------------------------------------------------
(* What a call does to the history of its key.                              *)

\* A write that keeps or normalizes the history notes no completion.
LEMMA NothingNoted ==
  ASSUME TypeOK, NEW k \in Keys, NEW r, NoteDone(k, r),
         r.completed \in {record[k].completed, Load(k).completed}
  PROVE  done' = done
<1>1. \A f \in Fingerprints : r.completed[f] \in {Never, record[k].completed[f]}
  BY LoadHistory
<1>2. \A f \in Fingerprints : Recorded(record[k], r)[f] = Never
  BY <1>1 DEF Recorded
<1>3. done' = [done EXCEPT ![k] = [f \in Fingerprints |-> done[k][f]]]
  BY <1>2 DEF NoteDone, TypeOK
<1> QED
  BY <1>3 DEF TypeOK

\* A write that adds fp notes its completion, and no other.
LEMMA CompletionNoted ==
  ASSUME TypeOK, NEW k \in Keys, HistoryAt(k), NEW r, NoteDone(k, r), NEW fp \in Fingerprints,
         r.completed \in AddCompleted(Load(k).completed, fp, clock)
  PROVE  done' = [done EXCEPT ![k] = [done[k] EXCEPT ![fp] = clock]]
<1>1. /\ Load(k).completed \in [Fingerprints -> Nat \cup {Never}] /\ clock \in Nat
      /\ done[k] \in [Fingerprints -> Nat \cup {Never}]
  BY HistoryTypes
<1>2. /\ r.completed[fp] = clock
      /\ \A f \in Fingerprints \ {fp} : r.completed[f] \in {Never, Load(k).completed[f]}
  BY <1>1, AddedEntry
<1>3. \A f \in Fingerprints \ {fp} : Recorded(record[k], r)[f] = Never
  BY <1>2, LoadHistory DEF Recorded
<1>4. /\ record[k].completed[fp] \in {Never, done[k][fp]} /\ clock # Never
      /\ Recorded(record[k], r)[fp] = IF record[k].completed[fp] = clock THEN Never ELSE clock
  BY <1>1, <1>2 DEF HistoryAt, Recorded, Never
<1>5. \A f \in Fingerprints :
        (IF Recorded(record[k], r)[f] = Never THEN done[k][f] ELSE Recorded(record[k], r)[f])
          = IF f = fp THEN clock ELSE done[k][f]
  BY <1>3, <1>4
<1>6. done' = [done EXCEPT ![k] = [f \in Fingerprints |-> IF f = fp THEN clock ELSE done[k][f]]]
  BY <1>5 DEF NoteDone, TypeOK
<1>7. [f \in Fingerprints |-> IF f = fp THEN clock ELSE done[k][f]] = [done[k] EXCEPT ![fp] = clock]
  BY <1>1
<1> QED
  BY <1>6, <1>7

\* A transition writes its result, its normalization or nothing.
LEMMA TransitionWrites ==
  ASSUME TypeOK, NEW k \in Keys, NEW applies, NEW results, Transition(k, applies, results)
  PROVE  /\ NoteDone(k, record'[k])
         /\ \/ record'[k] = record[k]
            \/ applies /\ record'[k] \in results
            \/ ~applies /\ record'[k] = Load(k)
<1>1. PICK r \in (IF applies THEN results ELSE {Load(k)}) :
        \E w \in Written(record[k], r) :
          /\ record' = [record EXCEPT ![k] = w.rec]
          /\ NoteDone(k, w.rec)
  BY DEF Transition
<1>2. PICK w \in Written(record[k], r) :
        record' = [record EXCEPT ![k] = w.rec] /\ NoteDone(k, w.rec)
  BY <1>1
<1>3. record'[k] = w.rec
  BY <1>2 DEF TypeOK
<1> QED
  BY <1>2, <1>3, TransitionActive

\* A transition whose results keep the loaded history records nothing.
LEMMA TransitionQuiet ==
  ASSUME TypeOK, NEW k \in Keys, NEW applies, NEW results, Transition(k, applies, results),
         applies => \A r \in results : r.completed = Load(k).completed
  PROVE  /\ done' = done
         /\ record'[k].completed \in {record[k].completed, Load(k).completed}
<1>1. record'[k].completed \in {record[k].completed, Load(k).completed}
  BY TransitionWrites
<1> QED
  BY <1>1, TransitionWrites, NothingNoted

\* A transition that records nothing but, perhaps, fp.
LEMMA TransitionHistory ==
  ASSUME TypeOK, NEW k \in Keys, HistoryAt(k), NEW applies, NEW results, NEW fp \in Fingerprints,
         Transition(k, applies, results),
         applies => \A r \in results :
           \/ r.completed = Load(k).completed
           \/ r.completed \in AddCompleted(Load(k).completed, fp, clock)
  PROVE  \/ /\ done' = done
            /\ record'[k].completed \in {record[k].completed, Load(k).completed}
         \/ /\ done' = [done EXCEPT ![k] = [done[k] EXCEPT ![fp] = clock]]
            /\ record'[k].completed \in AddCompleted(Load(k).completed, fp, clock)
<1>1. \/ record'[k].completed \in {record[k].completed, Load(k).completed}
      \/ record'[k].completed \in AddCompleted(Load(k).completed, fp, clock)
  BY TransitionWrites
<1>2. NoteDone(k, record'[k])
  BY TransitionWrites
<1>3. CASE record'[k].completed \in {record[k].completed, Load(k).completed}
  BY <1>2, <1>3, NothingNoted
<1>4. CASE record'[k].completed \in AddCompleted(Load(k).completed, fp, clock)
  BY <1>2, <1>4, CompletionNoted
<1> QED
  BY <1>1, <1>3, <1>4

\* It keeps every history faithful.
LEMMA TransitionFaithful ==
  ASSUME TypeOK, \A j \in Keys : HistoryAt(j), NEW k \in Keys, NEW applies, NEW results,
         NEW fp \in Fingerprints, Transition(k, applies, results), clock' = clock,
         applies => \A r \in results :
           \/ r.completed = Load(k).completed
           \/ r.completed \in AddCompleted(Load(k).completed, fp, clock),
         NEW j \in Keys
  PROVE  HistoryAt(j)'
<1>1. \/ /\ done' = done
         /\ record'[k].completed \in {record[k].completed, Load(k).completed}
      \/ /\ done' = [done EXCEPT ![k] = [done[k] EXCEPT ![fp] = clock]]
         /\ record'[k].completed \in AddCompleted(Load(k).completed, fp, clock)
  BY TransitionHistory
<1>2. CASE j # k
  <2>1. done'[j] = done[j]
    BY <1>1, <1>2 DEF TypeOK
  <2>2. record'[j] = record[j]
    BY <1>2, TransitionFrame
  <2> QED
    BY <2>1, <2>2, HistoryKept
<1>3. CASE j = k /\ done' = done /\ record'[k].completed \in {record[k].completed, Load(k).completed}
  BY <1>3, HistoryKept
<1>4. CASE /\ j = k
           /\ done' = [done EXCEPT ![k] = [done[k] EXCEPT ![fp] = clock]]
           /\ record'[k].completed \in AddCompleted(Load(k).completed, fp, clock)
  <2>1. done'[k] = [done[k] EXCEPT ![fp] = clock]
    BY <1>4 DEF TypeOK
  <2> QED
    BY <1>4, <2>1, HistoryRecorded
<1> QED
  BY <1>1, <1>2, <1>3, <1>4

\* The history of the record each mutation leaves.
LEMMA MutationHistory ==
  ASSUME NEW r \in Record, NEW o \in Owners, NEW fp \in Fingerprints, NEW next \in Fingerprints,
         NEW now, NEW proc
  PROVE  /\ Dispatched(r, now).completed = r.completed
         /\ Transferred(r, o).completed = r.completed
         /\ MarkedAmbiguous(r, now).completed = r.completed
         /\ Claimed(r, fp, o, now, proc).completed = r.completed
         /\ StageRolledBack(r, o, fp, now, proc).completed = r.completed
         /\ Cleared(r).completed = r.completed
         /\ \A s \in StagePrepared(r, o, fp, next, now, proc) :
              s.completed \in AddCompleted(r.completed, fp, now)
         /\ \A s \in Completed(r, fp, now) :
              \/ s.completed = r.completed
              \/ s.completed \in AddCompleted(r.completed, fp, now)
<1>1. \A a : [r EXCEPT !.active = a].completed = r.completed
  BY DEF Record
<1>2. /\ Dispatched(r, now).completed = r.completed
      /\ Transferred(r, o).completed = r.completed
      /\ MarkedAmbiguous(r, now).completed = r.completed
      /\ Claimed(r, fp, o, now, proc).completed = r.completed
      /\ StageRolledBack(r, o, fp, now, proc).completed = r.completed
      /\ Cleared(r).completed = r.completed
  BY <1>1 DEF Dispatched, Transferred, MarkedAmbiguous, Claimed, StageRolledBack, Cleared
<1>3. \A s \in StagePrepared(r, o, fp, next, now, proc) :
        s.completed \in AddCompleted(r.completed, fp, now)
  BY DEF StagePrepared
<1>4. \A s \in Completed(r, fp, now) :
        \/ s.completed = r.completed
        \/ s.completed \in AddCompleted(r.completed, fp, now)
  BY DEF Completed
<1> QED
  BY <1>2, <1>3, <1>4

-----------------------------------------------------------------------------
(* The directory.                                                           *)

\* The keys that have a file.
FilesOf(recs) == {k \in Keys : recs[k] # EmptyRecord}

FilesBounded == Cardinality(FilesOf(record)) <= MaxRecords

\* The directory is finite.
LEMMA FilesFinite ==
  ASSUME NEW recs
  PROVE  IsFiniteSet(FilesOf(recs)) /\ Cardinality(FilesOf(recs)) \in Nat
<1>1. IsFiniteSet(FilesOf(recs))
  BY OperationLedgerAssumption, FS_Subset DEF FilesOf
<1> QED
  BY <1>1, FS_CardinalityType

\* A directory that does not grow stays within its bound.
LEMMA FewerFiles ==
  ASSUME FilesBounded, FilesOf(record') \subseteq FilesOf(record)
  PROVE  FilesBounded'
<1>1. Cardinality(FilesOf(record')) <= Cardinality(FilesOf(record))
  BY FilesFinite, FS_Subset
<1> QED
  BY <1>1, FilesFinite, OperationLedgerAssumption DEF FilesBounded

\* A key without a file loads the empty record.
LEMMA LoadEmpty ==
  ASSUME NEW k \in Keys, record[k] = EmptyRecord
  PROVE  Load(k) = EmptyRecord
  BY DEF Load, Normalize, EmptyRecord, Stale, Never

\* A transition makes no file: it applies to an owned or completed operation.
LEMMA TransitionFiles ==
  ASSUME TypeOK, FilesBounded, NEW k \in Keys, NEW applies, NEW results,
         Transition(k, applies, results), applies => Load(k) # EmptyRecord
  PROVE  FilesBounded'
<1>1. ASSUME NEW j \in Keys, record[j] = EmptyRecord
      PROVE  record'[j] = EmptyRecord
  <2>1. CASE j # k
    BY <1>1, <2>1, TransitionFrame
  <2>2. CASE j = k
    <3>1. Load(k) = EmptyRecord
      BY <1>1, <2>2, LoadEmpty
    <3> QED
      BY <1>1, <2>2, <3>1, TransitionWrites
  <2> QED
    BY <2>1, <2>2
<1> QED
  BY <1>1, FewerFiles DEF FilesOf

\* An owned record is not the empty record.
LEMMA OwnedIsNotEmpty ==
  ASSUME NEW r, NEW fp, NEW o, Owns(r, fp, o)
  PROVE  r # EmptyRecord
  BY DEF Owns, EmptyRecord

\* Nor is one in which a completion is or can be recorded.
LEMMA CompletedIsNotEmpty ==
  ASSUME NEW r, NEW fp \in Fingerprints, NEW o, CanComplete(r, fp, o)
  PROVE  r # EmptyRecord
  BY DEF CanComplete, Owns, EmptyRecord, History, Never

\* An admitted claim makes at most one file, and only below the bound.
LEMMA ClaimFiles ==
  ASSUME TypeOK, FilesBounded, NEW k \in Keys, NEW o \in Owners, NEW fp \in Fingerprints,
         ClaimAllowed(k, o, fp)
  PROVE  FilesBounded'
<1> DEFINE room == Room(k)
           new == Claimed(Load(k), fp, o, clock, process)
<1>1. /\ FilesOf(room) \subseteq FilesOf(record)
      /\ room \in [Keys -> Record]
  <2>1. EmptyRecord \in Record
    BY DEF EmptyRecord, Record
  <2> QED
    BY <2>1 DEF Room, Reclaimed, FilesOf, TypeOK
<1>2. CASE record' = room
  BY <1>1, <1>2, FewerFiles
<1>3. CASE ~(room[k] = EmptyRecord /\ Full(room))
  <2>1. PICK w \in Written(record[k], new) : record' = [room EXCEPT ![k] = w.rec]
    BY <1>3 DEF ClaimAllowed
  <2>2. FilesOf(record') \subseteq FilesOf(room) \cup {k}
    BY <1>1, <2>1 DEF FilesOf
  <2>3. CASE room[k] # EmptyRecord
    <3>1. FilesOf(record') \subseteq FilesOf(record)
      BY <1>1, <2>2, <2>3 DEF FilesOf
    <3> QED
      BY <3>1, FewerFiles
  <2>4. CASE ~Full(room)
    <3> DEFINE n == Cardinality(FilesOf(room))
    <3>1. n \in Nat /\ ~(n >= MaxRecords) /\ MaxRecords \in Nat
      BY <2>4, FilesFinite, OperationLedgerAssumption DEF Full, FilesOf
    <3>2. /\ IsFiniteSet(FilesOf(room) \cup {k})
          /\ Cardinality(FilesOf(room) \cup {k}) = IF k \in FilesOf(room) THEN n ELSE n + 1
      BY FilesFinite, FS_AddElement
    <3>3. Cardinality(FilesOf(record')) <= Cardinality(FilesOf(room) \cup {k})
      BY <2>2, <3>2, FS_Subset
    <3>4. Cardinality(FilesOf(record')) \in Nat
      BY FilesFinite
    <3> HIDE DEF n, room
    <3> QED
      BY <3>1, <3>2, <3>3, <3>4 DEF FilesBounded
  <2> QED
    BY <1>3, <2>3, <2>4
<1> QED
  BY <1>2, <1>3 DEF ClaimAllowed

-----------------------------------------------------------------------------
(* Every call keeps the directory bounded and the histories faithful.       *)

\* A call that rewrites records with their normalization records nothing.
LEMMA ClaimHistory ==
  ASSUME TypeOK, NEW k \in Keys, NEW o \in Owners, NEW fp \in Fingerprints,
         Claim(k, o, fp), NEW j \in Keys
  PROVE  /\ clock' = clock /\ done' = done
         /\ record'[j].completed \in {record[j].completed, Load(j).completed}
<1> DEFINE new == Claimed(Load(k), fp, o, clock, process)
<1>1. CASE ClaimAllowed(k, o, fp)
  <2>1. Room(k) \in [Keys -> Record] /\ Room(k)[j].completed \in {record[j].completed, Load(j).completed}
    <3>1. EmptyRecord \in Record
      BY DEF EmptyRecord, Record
    <3> QED
      BY <3>1 DEF Room, Reclaimed, TypeOK
  <2>2. new.completed = Load(k).completed
    BY LoadType, MutationHistory
  <2>3. \A w \in Written(record[k], new) : w.rec \in {record[k], new}
    BY DEF Written
  <2>4. \/ record' = Room(k)
        \/ \E w \in Written(record[k], new) : record' = [Room(k) EXCEPT ![k] = w.rec]
    BY <1>1 DEF ClaimAllowed
  <2>5. record'[j].completed \in {record[j].completed, Load(j).completed}
    BY <2>1, <2>2, <2>3, <2>4
  <2> QED
    BY <1>1, <2>5 DEF ClaimAllowed
<1>2. CASE ClaimRefused(k, fp)
  <2>1. PICK w \in Written(record[k], Load(k)) : record' = [record EXCEPT ![k] = w.rec]
    BY <1>2 DEF ClaimRefused
  <2>2. w.rec \in {record[k], Load(k)}
    BY DEF Written
  <2> QED
    BY <1>2, <2>1, <2>2 DEF ClaimRefused, TypeOK
<1> QED
  BY <1>1, <1>2 DEF Claim

\* Every call keeps the directory within its bound.
LEMMA CallFiles ==
  ASSUME TypeOK, FilesBounded, NEW k \in Keys, NEW o \in Owners, Call(k, o)
  PROVE  FilesBounded'
<1>1. ASSUME NEW fp \in Fingerprints, ClaimAllowed(k, o, fp)  PROVE FilesBounded'
  BY <1>1, ClaimFiles
<1>2. ASSUME NEW fp \in Fingerprints, ClaimRefused(k, fp)  PROVE FilesBounded'
  <2>1. PICK w \in Written(record[k], Load(k)) : record' = [record EXCEPT ![k] = w.rec]
    BY <1>2 DEF ClaimRefused
  <2>2. w.rec \in {record[k], Load(k)}
    BY DEF Written
  <2>3. FilesOf(record') \subseteq FilesOf(record)
    BY <2>1, <2>2, LoadEmpty DEF FilesOf, TypeOK
  <2> QED
    BY <2>3, FewerFiles
<1>3. ASSUME NEW fp \in Fingerprints, MarkDispatched(k, o, fp)  PROVE FilesBounded'
  <2>1. Transition(k, Owns(Load(k), fp, o), {Dispatched(Load(k), clock)})
    BY <1>3 DEF MarkDispatched
  <2> QED
    BY <2>1, OwnedIsNotEmpty, TransitionFiles
<1>4. ASSUME NEW fp \in Fingerprints, NEW next \in Owners, TransferOwner(k, o, next, fp)
      PROVE  FilesBounded'
  <2>1. Transition(k, Owns(Load(k), fp, o), {Transferred(Load(k), next)})
    BY <1>4 DEF TransferOwner
  <2> QED
    BY <2>1, OwnedIsNotEmpty, TransitionFiles
<1>5. ASSUME NEW prev \in Fingerprints, NEW next \in Fingerprints, PrepareStage(k, o, prev, next)
      PROVE  FilesBounded'
  <2>1. Transition(k, CanPrepareStage(Load(k), o, prev), StagePrepared(Load(k), o, prev, next, clock, process))
    BY <1>5 DEF PrepareStage
  <2>2. CanPrepareStage(Load(k), o, prev) => Load(k) # EmptyRecord
    BY OwnedIsNotEmpty DEF CanPrepareStage
  <2> QED
    BY <2>1, <2>2, TransitionFiles
<1>6. ASSUME RollbackStage(k, o)  PROVE FilesBounded'
  <2>1. Transition(k, Owns(Load(k), lease[k][o].fp, o),
                   {StageRolledBack(Load(k), o, lease[k][o].prev, clock, process)})
    BY <1>6 DEF RollbackStage
  <2> QED
    BY <2>1, OwnedIsNotEmpty, TransitionFiles
<1>7. ASSUME NEW fp \in Fingerprints, MarkCompleted(k, o, fp)  PROVE FilesBounded'
  <2>1. Transition(k, CanComplete(Load(k), fp, o), Completed(Load(k), fp, clock))
    BY <1>7 DEF MarkCompleted
  <2> QED
    BY <2>1, CompletedIsNotEmpty, TransitionFiles
<1>8. ASSUME NEW fp \in Fingerprints, MarkAmbiguous(k, o, fp)  PROVE FilesBounded'
  <2>1. Transition(k, Owns(Load(k), fp, o), {MarkedAmbiguous(Load(k), clock)})
    BY <1>8 DEF MarkAmbiguous
  <2> QED
    BY <2>1, OwnedIsNotEmpty, TransitionFiles
<1>9. ASSUME NEW fp \in Fingerprints, ClearOperation(k, o, fp)  PROVE FilesBounded'
  <2>1. Transition(k, Owns(Load(k), fp, o), {Cleared(Load(k))})
    BY <1>9 DEF ClearOperation
  <2> QED
    BY <2>1, OwnedIsNotEmpty, TransitionFiles
<1> QED
  BY <1>1, <1>2, <1>3, <1>4, <1>5, <1>6, <1>7, <1>8, <1>9 DEF Call, Claim

\* Every call keeps every history faithful.
LEMMA CallFaithful ==
  ASSUME TypeOK, \A i \in Keys : HistoryAt(i), NEW k \in Keys, NEW o \in Owners, Call(k, o),
         NEW j \in Keys
  PROVE  HistoryAt(j)'
<1>0. Load(k) \in Record /\ lease[k][o] \in Lease \cup {NoLease}
  BY LoadType DEF TypeOK
<1>1. ASSUME NEW fp \in Fingerprints, Claim(k, o, fp)  PROVE HistoryAt(j)'
  <2>1. /\ clock' = clock /\ done' = done
        /\ record'[j].completed \in {record[j].completed, Load(j).completed}
    BY <1>1, ClaimHistory
  <2> QED
    BY <2>1, HistoryKept
<1>2. ASSUME NEW fp \in Fingerprints, MarkDispatched(k, o, fp)  PROVE HistoryAt(j)'
  <2>1. /\ Transition(k, Owns(Load(k), fp, o), {Dispatched(Load(k), clock)})
        /\ clock' = clock
    BY <1>2 DEF MarkDispatched
  <2>2. Dispatched(Load(k), clock).completed = Load(k).completed
    BY <1>0, MutationHistory
  <2> QED
    BY <2>1, <2>2, TransitionFaithful
<1>3. ASSUME NEW fp \in Fingerprints, NEW next \in Owners, TransferOwner(k, o, next, fp)
      PROVE  HistoryAt(j)'
  <2>1. /\ Transition(k, Owns(Load(k), fp, o), {Transferred(Load(k), next)})
        /\ clock' = clock
    BY <1>3 DEF TransferOwner
  <2>2. Transferred(Load(k), next).completed = Load(k).completed
    BY <1>0, MutationHistory
  <2> QED
    BY <2>1, <2>2, TransitionFaithful
<1>4. ASSUME NEW prev \in Fingerprints, NEW next \in Fingerprints, PrepareStage(k, o, prev, next)
      PROVE  HistoryAt(j)'
  <2>1. /\ Transition(k, CanPrepareStage(Load(k), o, prev), StagePrepared(Load(k), o, prev, next, clock, process))
        /\ clock' = clock
    BY <1>4 DEF PrepareStage
  <2>2. \A r \in StagePrepared(Load(k), o, prev, next, clock, process) :
          r.completed \in AddCompleted(Load(k).completed, prev, clock)
    BY <1>0, MutationHistory
  <2> QED
    BY <2>1, <2>2, TransitionFaithful
<1>5. ASSUME RollbackStage(k, o)  PROVE HistoryAt(j)'
  <2> DEFINE l == lease[k][o]
  <2>1. /\ Transition(k, Owns(Load(k), l.fp, o), {StageRolledBack(Load(k), o, l.prev, clock, process)})
        /\ clock' = clock /\ l.prev \in Fingerprints
    BY <1>0, <1>5 DEF RollbackStage, Lease
  <2> HIDE DEF l
  <2>2. StageRolledBack(Load(k), o, l.prev, clock, process).completed = Load(k).completed
    BY <1>0, <2>1, MutationHistory
  <2> QED
    BY <2>1, <2>2, TransitionFaithful
<1>6. ASSUME NEW fp \in Fingerprints, MarkCompleted(k, o, fp)  PROVE HistoryAt(j)'
  <2>1. /\ Transition(k, CanComplete(Load(k), fp, o), Completed(Load(k), fp, clock))
        /\ clock' = clock
    BY <1>6 DEF MarkCompleted
  <2>2. \A r \in Completed(Load(k), fp, clock) :
          \/ r.completed = Load(k).completed
          \/ r.completed \in AddCompleted(Load(k).completed, fp, clock)
    BY <1>0, MutationHistory
  <2> QED
    BY <2>1, <2>2, TransitionFaithful
<1>7. ASSUME NEW fp \in Fingerprints, MarkAmbiguous(k, o, fp)  PROVE HistoryAt(j)'
  <2>1. /\ Transition(k, Owns(Load(k), fp, o), {MarkedAmbiguous(Load(k), clock)})
        /\ clock' = clock
    BY <1>7 DEF MarkAmbiguous
  <2>2. MarkedAmbiguous(Load(k), clock).completed = Load(k).completed
    BY <1>0, MutationHistory
  <2> QED
    BY <2>1, <2>2, TransitionFaithful
<1>8. ASSUME NEW fp \in Fingerprints, ClearOperation(k, o, fp)  PROVE HistoryAt(j)'
  <2>1. /\ Transition(k, Owns(Load(k), fp, o), {Cleared(Load(k))})
        /\ clock' = clock
    BY <1>8 DEF ClearOperation
  <2>2. Cleared(Load(k)).completed = Load(k).completed
    BY <1>0, MutationHistory
  <2> QED
    BY <2>1, <2>2, TransitionFaithful
<1> QED
  BY <1>1, <1>2, <1>3, <1>4, <1>5, <1>6, <1>7, <1>8 DEF Call

\* The clock only takes completions out of their retention.
LEMMA TickFaithful ==
  ASSUME TypeOK, NEW k \in Keys, HistoryAt(k), Tick
  PROVE  HistoryAt(k)'
<1>1. /\ clock' = clock + 1 /\ record' = record /\ done' = done /\ clock \in Nat
      /\ done[k] \in [Fingerprints -> Nat \cup {Never}] /\ CompletedRetention \in Nat
  BY LedgerAssumption DEF Tick, TypeOK
<1>2. ASSUME NEW f \in Fingerprints, (Abstract!Remembered(k, f))'
      PROVE  Abstract!Remembered(k, f)
  BY <1>1, <1>2 DEF Abstract!Remembered, Never
<1>3. \A f \in Fingerprints : done[k][f] <= clock => done'[k][f] <= clock'
  BY <1>1 DEF Never
<1> QED
  BY <1>1, <1>2, <1>3 DEF HistoryAt

\* HistoryFaithful is a bound on the directory and a property of each key.
LEMMA FaithfulIs ==
  HistoryFaithful <=> FilesBounded /\ \A k \in Keys : HistoryAt(k)
  BY DEF HistoryFaithful, FilesBounded, HistoryAt, Files, FilesOf

\* Neither expiry, the bounds of the directory and of the histories, disk
\* errors nor restarts cost a completion that is still remembered: every entry
\* is the last completion of its fingerprint, and the directory stays in bounds.
THEOREM HistoryNeverForgets == Spec => []HistoryFaithful
<1>1. Init => HistoryFaithful
  <2> SUFFICES ASSUME Init  PROVE HistoryFaithful
    OBVIOUS
  <2>1. FilesOf(record) = {} /\ \A k \in Keys : History(record[k].completed) = {}
    BY DEF Init, FilesOf, EmptyRecord, History
  <2>2. FilesBounded /\ \A k \in Keys : Cardinality(History(record[k].completed)) <= MaxCompleted
    BY <2>1, FS_EmptySet, LedgerAssumption, OperationLedgerAssumption DEF FilesBounded
  <2>3. ASSUME NEW k \in Keys, NEW f \in Fingerprints
        PROVE  /\ done[k][f] = Never /\ Never <= clock /\ record[k].completed[f] = Never
               /\ ~Abstract!Remembered(k, f)
    BY RememberedIs DEF Init, EmptyRecord, Never
  <2> QED
    BY <2>2, <2>3, FaithfulIs DEF HistoryAt
<1>2. TypeOK /\ HistoryFaithful /\ [Next]_vars => HistoryFaithful'
  <2> SUFFICES ASSUME TypeOK, HistoryFaithful, [Next]_vars  PROVE HistoryFaithful'
    OBVIOUS
  <2>0. FilesBounded /\ \A k \in Keys : HistoryAt(k)
    BY FaithfulIs
  <2>1. SUFFICES FilesBounded' /\ \A k \in Keys : HistoryAt(k)'
    BY DEF HistoryFaithful, FilesBounded, HistoryAt, Files, FilesOf
  <2>2. CASE \E k \in Keys, o \in Owners : Call(k, o)
    BY <2>0, <2>2, CallFiles, CallFaithful
  <2>3. CASE Tick
    <3>1. FilesBounded'
      BY <2>0, <2>3 DEF Tick, FilesBounded
    <3> QED
      BY <2>0, <2>3, <3>1, TickFaithful
  <2>4. CASE Restart \/ UNCHANGED vars
    <3>1. record' = record /\ clock' = clock /\ done' = done
      BY <2>4 DEF Restart, vars
    <3> QED
      BY <2>0, <3>1, HistoryKept DEF FilesBounded
  <2> QED
    BY <2>2, <2>3, <2>4 DEF Next
<1> QED
  BY <1>1, <1>2, TypeCorrect, PTL DEF Spec

-----------------------------------------------------------------------------
(* The ledger implements a lease with a memory: clock, lease and done are   *)
(* the abstract variables, and every step is an abstract step or a stutter. *)

\* A caller whose lease is good against the loaded record holds a live one,
\* for as long as the record on disk says.
LEMMA OwnerIsLive ==
  ASSUME TypeOK, LeaseBacked, NEW k \in Keys, NEW o \in Owners, NEW fp,
         lease[k][o] # NoLease, Owns(Load(k), fp, o)
  PROVE  /\ Abstract!Live(k, o)
         /\ lease[k][o].fp = fp
         /\ lease[k][o].until = record[k].active.expires
         /\ Load(k).active = record[k].active
<1>1. BackedAt(k, o)
  BY DEF LeaseBacked, BackedAt
<1>2. Holds(k, o) /\ Load(k).active = record[k].active /\ lease[k][o].fp = fp
  BY <1>1, OwnerHolds
<1>3. ~Stale(record[k].active, clock, process) /\ record[k].active # NoActive
  BY <1>2, LoadActive DEF Holds
<1>4. lease[k][o].until = record[k].active.expires /\ lease[k][o].until \in Nat /\ clock \in Nat
  BY <1>2 DEF Holds, TypeOK, Lease
<1>5. lease[k][o].until > clock
  BY <1>3, <1>4 DEF Stale
<1> QED
  BY <1>2, <1>4, <1>5 DEF Abstract!Live

\* An admitted claim finds no live lease and no memory of its fingerprint.
LEMMA AdmittedIsFree ==
  ASSUME TypeOK, LeaseBacked, NEW k \in Keys, HistoryAt(k), NEW fp \in Fingerprints,
         Admission(Load(k), fp) = "Allowed"
  PROVE  /\ \A p \in Owners : ~Abstract!Live(k, p)
         /\ ~Abstract!Remembered(k, fp)
<1>1. ASSUME NEW p \in Owners, Abstract!Live(k, p)
      PROVE  FALSE
  <2>1. lease[k][p] # NoLease /\ lease[k][p].until > clock /\ lease[k][p].until \in Nat /\ clock \in Nat
    BY <1>1 DEF Abstract!Live, TypeOK, Lease
  <2>2. Holds(k, p)
    BY <2>1 DEF LeaseBacked
  <2>3. ~Stale(record[k].active, clock, process)
    BY <2>1, <2>2 DEF Holds, Stale
  <2>4. Load(k).active # NoActive /\ Load(k).active.state # "Ambiguous"
    BY <2>2, <2>3, LoadActive DEF Holds
  <2> QED
    BY <2>4 DEF Admission, CanRotateAmbiguous
<1>2. ASSUME Abstract!Remembered(k, fp)
      PROVE  FALSE
  <2>1. record[k].completed[fp] = done[k][fp] /\ done[k][fp] # Never
        /\ done[k][fp] >= clock - CompletedRetention
    BY <1>2, RememberedIs DEF HistoryAt
  <2>2. fp \in History(Load(k).completed)
    BY <2>1, LoadHistory DEF History
  <2> QED
    BY <2>2 DEF Admission, CanRotateAmbiguous
<1> QED
  BY <1>1, <1>2

\* A renewal, with the stage it leaves recorded or not.
LEMMA RenewStep ==
  ASSUME TypeOK, NEW k \in Keys, NEW o \in Owners, Abstract!Live(k, o), clock' = clock,
         NEW fp \in Fingerprints, NEW prev \in Fingerprints \cup {NoFingerprint},
         NEW t \in {lease[k][o].until, clock + UnresolvedRetention},
         lease' = [lease EXCEPT ![k][o] = [fp |-> fp, prev |-> prev, until |-> t]],
         \/ done' = done
         \/ done' = [done EXCEPT ![k] = [done[k] EXCEPT ![lease[k][o].fp] = clock]]
  PROVE  Abstract!Next
<1>1. Abstract!Renew(k, o)
  BY DEF Abstract!Renew, TypeOK
<1> QED
  BY <1>1 DEF Abstract!Next

\* A lease given up, with a completion recorded or not.
LEMMA DropStep ==
  ASSUME TypeOK, NEW k \in Keys, NEW o \in Owners, clock' = clock, NEW fp \in Fingerprints,
         lease' = [lease EXCEPT ![k][o] = NoLease],
         \/ done' = done
         \/ done' = [done EXCEPT ![k] = [done[k] EXCEPT ![fp] = clock]]
  PROVE  Abstract!Next
<1>1. Abstract!Drop(k, o)
  BY DEF Abstract!Drop, TypeOK
<1> QED
  BY <1>1 DEF Abstract!Next

\* A completion recorded by an owner that has given its lease up.
LEMMA RecordStep ==
  ASSUME TypeOK, NEW k \in Keys, clock' = clock, lease' = lease, NEW fp \in Fingerprints,
         done' = [done EXCEPT ![k] = [done[k] EXCEPT ![fp] = clock]]
  PROVE  Abstract!Next
<1>1. Abstract!Record(k)
  BY DEF Abstract!Record, TypeOK
<1> QED
  BY <1>1 DEF Abstract!Next

\* The expiry a dispatch can leave.
LEMMA DispatchedExpires ==
  ASSUME NEW r \in Record, NEW now, r.active # NoActive
  PROVE  Dispatched(r, now).active.expires \in {r.active.expires, now + UnresolvedRetention}
<1>1. r = [active |-> r.active, completed |-> r.completed] /\ r.active \in ActiveOperation
  BY DEF Record
<1>2. Dispatched(r, now).active \in {r.active,
        [r.active EXCEPT !.state = "Dispatched", !.expires = now + UnresolvedRetention]}
  BY <1>1 DEF Dispatched
<1> QED
  BY <1>1, <1>2 DEF ActiveOperation

\* Every call is a step of the lease, or no step.
LEMMA CallImplements ==
  ASSUME TypeOK, TypeOK', LeaseBacked, \A j \in Keys : HistoryAt(j),
         NEW k \in Keys, NEW o \in Owners, Call(k, o)
  PROVE  Abstract!Next \/ UNCHANGED Abstract!vars
<1> DEFINE Goal == Abstract!Next \/ UNCHANGED Abstract!vars
<1>0. /\ Load(k) \in Record /\ lease[k][o] \in Lease \cup {NoLease}
      /\ lease \in [Keys -> [Owners -> Lease \cup {NoLease}]]
      /\ HistoryAt(k)
  BY LoadType DEF TypeOK
<1>1. ASSUME NEW fp \in Fingerprints, ClaimAllowed(k, o, fp)  PROVE Goal
  <2> DEFINE grant == [fp |-> fp, prev |-> NoFingerprint, until |-> clock + UnresolvedRetention]
  <2>1. clock' = clock /\ done' = done
    BY <1>1 DEF ClaimAllowed
  <2>2. \/ lease' = lease
        \/ lease' = [lease EXCEPT ![k][o] = grant]
        \/ lease' = [lease EXCEPT ![k][o] = NoLease]
    BY <1>1 DEF ClaimAllowed
  <2>3. CASE lease' = lease
    BY <2>1, <2>3 DEF Abstract!vars
  <2>4. CASE lease' = [lease EXCEPT ![k][o] = grant]
    <3>1. Admission(Load(k), fp) = "Allowed"
      BY <1>1 DEF ClaimAllowed
    <3>2. (\A p \in Owners : ~Abstract!Live(k, p)) /\ ~Abstract!Remembered(k, fp)
      BY <1>0, <3>1, AdmittedIsFree
    <3>3. Abstract!Grant(k, o, fp)
      BY <2>1, <2>4, <3>2 DEF Abstract!Grant
    <3> QED
      BY <3>3 DEF Abstract!Next
  <2>5. CASE lease' = [lease EXCEPT ![k][o] = NoLease]
    BY <2>1, <2>5, DropStep
  <2> QED
    BY <2>2, <2>3, <2>4, <2>5
<1>2. ASSUME NEW fp \in Fingerprints, ClaimRefused(k, fp)  PROVE Goal
  BY <1>2 DEF ClaimRefused, Abstract!vars
<1>3. ASSUME NEW fp \in Fingerprints, MarkDispatched(k, o, fp)  PROVE Goal
  <2> DEFINE t == record'[k].active.expires
             f == lease[k][o].fp
             prev == lease[k][o].prev
             applies == Owns(Load(k), fp, o)
             new == Dispatched(Load(k), clock)
  <2>1. /\ Transition(k, applies, {new})
        /\ clock' = clock
        /\ lease' = IF Owns(Load(k), fp, o) /\ lease[k][o] # NoLease /\ Owns(record'[k], fp, o)
                    THEN [lease EXCEPT ![k][o] = [@ EXCEPT !.until = t]]
                    ELSE lease
    BY <1>3 DEF MarkDispatched
  <2>2. Dispatched(Load(k), clock).completed = Load(k).completed
    BY <1>0, MutationHistory
  <2>3. done' = done
    BY <2>1, <2>2, TransitionQuiet
  <2>4. CASE lease' = lease
    BY <2>1, <2>3, <2>4 DEF Abstract!vars
  <2>5. CASE lease' # lease
    <3>1. Owns(Load(k), fp, o) /\ lease[k][o] # NoLease
      BY <2>1, <2>5
    <3>2. lease[k][o] \in Lease /\ lease' = [lease EXCEPT ![k][o] = [lease[k][o] EXCEPT !.until = t]]
      BY <1>0, <2>1, <2>5
    <3>3. /\ Abstract!Live(k, o) /\ lease[k][o].until = record[k].active.expires
          /\ Load(k).active = record[k].active
      BY <3>1, OwnerIsLive
    <3>4. record'[k] = record[k] \/ record'[k] = new
      <4> HIDE DEF new, applies
      <4>1. record'[k] = record[k] \/ (applies /\ record'[k] \in {new}) \/ (~applies /\ record'[k] = Load(k))
        BY <2>1, TransitionWrites
      <4> QED
        BY <3>1, <4>1 DEF applies
    <3>5. Dispatched(Load(k), clock).active.expires \in {Load(k).active.expires, clock + UnresolvedRetention}
      BY <1>0, <3>1, DispatchedExpires DEF Owns
    <3>6. t \in {lease[k][o].until, clock + UnresolvedRetention}
      BY <3>3, <3>4, <3>5
    <3> HIDE DEF t
    <3>7. /\ [lease[k][o] EXCEPT !.until = t] = [fp |-> f, prev |-> prev, until |-> t]
          /\ f \in Fingerprints /\ prev \in Fingerprints \cup {NoFingerprint}
      BY <3>2 DEF Lease
    <3>8. lease' = [lease EXCEPT ![k][o] = [fp |-> f, prev |-> prev, until |-> t]]
      BY <3>2, <3>7
    <3> HIDE DEF f, prev
    <3>9. Abstract!Renew(k, o)
      BY <2>1, <2>3, <3>3, <3>6, <3>7, <3>8 DEF Abstract!Renew
    <3> QED
      BY <3>9 DEF Abstract!Next
  <2> QED
    BY <2>4, <2>5
<1>4. ASSUME NEW fp \in Fingerprints, NEW next \in Owners, TransferOwner(k, o, next, fp)
      PROVE  Goal
  <2>1. /\ Transition(k, Owns(Load(k), fp, o), {Transferred(Load(k), next)})
        /\ clock' = clock /\ o # next /\ lease[k][next] = NoLease
        /\ \/ lease' = lease
           \/ /\ Owns(Load(k), fp, o)
              /\ lease' = [lease EXCEPT ![k][next] = lease[k][o], ![k][o] = NoLease]
    BY <1>4 DEF TransferOwner
  <2>2. Transferred(Load(k), next).completed = Load(k).completed
    BY <1>0, MutationHistory
  <2>3. done' = done
    BY <2>1, <2>2, TransitionQuiet
  <2>4. CASE lease' = lease
    BY <2>1, <2>3, <2>4 DEF Abstract!vars
  <2>5. CASE /\ Owns(Load(k), fp, o) /\ lease[k][o] # NoLease
             /\ lease' = [lease EXCEPT ![k][next] = lease[k][o], ![k][o] = NoLease]
    <3>1. Abstract!Live(k, o)
      BY <2>5, OwnerIsLive
    <3>2. Abstract!Hand(k, o, next)
      BY <2>1, <2>3, <2>5, <3>1 DEF Abstract!Hand
    <3> QED
      BY <3>2 DEF Abstract!Next
  <2>6. CASE /\ lease[k][o] = NoLease
             /\ lease' = [lease EXCEPT ![k][next] = lease[k][o], ![k][o] = NoLease]
    <3>1. lease' = lease
      BY <1>0, <2>1, <2>6
    <3> QED
      BY <3>1, <2>4
  <2> QED
    BY <2>1, <2>4, <2>5, <2>6
<1>5. ASSUME NEW prev \in Fingerprints, NEW next \in Fingerprints, PrepareStage(k, o, prev, next)
      PROVE  Goal
  <2> DEFINE t == record'[k].active.expires
             applies == CanPrepareStage(Load(k), o, prev)
             results == StagePrepared(Load(k), o, prev, next, clock, process)
  <2>1. /\ Transition(k, applies, results)
        /\ clock' = clock
        /\ \/ lease' = lease
           \/ /\ applies /\ lease[k][o] # NoLease
              /\ lease' = [lease EXCEPT ![k][o] = [fp |-> next, prev |-> prev, until |-> t]]
    BY <1>5 DEF PrepareStage
  <2>2. /\ \A r \in results : r.completed \in AddCompleted(Load(k).completed, prev, clock)
        /\ \A r \in results : r.active.expires = clock + UnresolvedRetention
        /\ applies => Owns(Load(k), prev, o)
    BY <1>0, MutationHistory DEF StagePrepared, Active, CanPrepareStage
  <2> HIDE DEF applies, results
  <2>3. \/ done' = done
        \/ done' = [done EXCEPT ![k] = [done[k] EXCEPT ![prev] = clock]]
    BY <1>0, <2>1, <2>2, TransitionHistory
  <2>4. CASE lease' = lease
    <3>1. CASE done' = done
      BY <2>1, <2>4, <3>1 DEF Abstract!vars
    <3>2. CASE done' = [done EXCEPT ![k] = [done[k] EXCEPT ![prev] = clock]]
      BY <2>1, <2>4, <3>2, RecordStep
    <3> QED
      BY <2>3, <3>1, <3>2
  <2>5. CASE /\ applies /\ lease[k][o] # NoLease
             /\ lease' = [lease EXCEPT ![k][o] = [fp |-> next, prev |-> prev, until |-> t]]
    <3>1. /\ Abstract!Live(k, o) /\ lease[k][o].fp = prev
          /\ lease[k][o].until = record[k].active.expires
      BY <2>2, <2>5, OwnerIsLive
    <3>2. record'[k] = record[k] \/ record'[k] \in results
      BY <2>1, <2>5, TransitionWrites
    <3>3. t \in {lease[k][o].until, clock + UnresolvedRetention}
      BY <2>2, <3>1, <3>2
    <3> HIDE DEF t
    <3> QED
      BY <2>1, <2>3, <2>5, <3>1, <3>3, RenewStep
  <2> QED
    BY <2>1, <2>4, <2>5
<1>6. ASSUME RollbackStage(k, o)  PROVE Goal
  <2> DEFINE l == lease[k][o]
             t == record'[k].active.expires
             back == StageRolledBack(Load(k), o, l.prev, clock, process)
  <2>1. /\ Transition(k, Owns(Load(k), l.fp, o), {back})
        /\ clock' = clock /\ l # NoLease /\ l.prev \in Fingerprints
        /\ \/ lease' = lease
           \/ /\ Owns(Load(k), l.fp, o)
              /\ lease' = [lease EXCEPT ![k][o] = [fp |-> l.prev, prev |-> NoFingerprint, until |-> t]]
    BY <1>0, <1>6 DEF RollbackStage, Lease
  <2>2. back.completed = Load(k).completed
    <3> HIDE DEF l
    <3> QED
      BY <1>0, <2>1, MutationHistory
  <2>3. back.active.expires = clock + UnresolvedRetention
    BY <1>0 DEF StageRolledBack, Active, Record
  <2> HIDE DEF back
  <2>4. done' = done
    BY <2>1, <2>2, TransitionQuiet
  <2>5. CASE lease' = lease
    BY <2>1, <2>4, <2>5 DEF Abstract!vars
  <2>6. CASE /\ Owns(Load(k), l.fp, o)
             /\ lease' = [lease EXCEPT ![k][o] = [fp |-> l.prev, prev |-> NoFingerprint, until |-> t]]
    <3>1. Abstract!Live(k, o) /\ lease[k][o].until = record[k].active.expires
      BY <2>1, <2>6, OwnerIsLive
    <3>2. record'[k] = record[k] \/ record'[k] = back
      <4> DEFINE applies == Owns(Load(k), l.fp, o)
      <4>1. applies /\ Transition(k, applies, {back})
        BY <2>1, <2>6
      <4> HIDE DEF applies, l
      <4>2. record'[k] = record[k] \/ (applies /\ record'[k] \in {back}) \/ (~applies /\ record'[k] = Load(k))
        BY <4>1, TransitionWrites
      <4> QED
        BY <4>1, <4>2
    <3>3. t \in {lease[k][o].until, clock + UnresolvedRetention}
      BY <2>3, <3>1, <3>2
    <3> HIDE DEF t
    <3> QED
      BY <2>1, <2>4, <2>6, <3>1, <3>3, RenewStep
  <2> QED
    BY <2>1, <2>5, <2>6
<1>7. ASSUME NEW fp \in Fingerprints, MarkCompleted(k, o, fp)  PROVE Goal
  <2>1. /\ Transition(k, CanComplete(Load(k), fp, o), Completed(Load(k), fp, clock))
        /\ clock' = clock /\ lease' = [lease EXCEPT ![k][o] = NoLease]
    BY <1>7 DEF MarkCompleted, Release
  <2>2. \A r \in Completed(Load(k), fp, clock) :
          \/ r.completed = Load(k).completed
          \/ r.completed \in AddCompleted(Load(k).completed, fp, clock)
    BY <1>0, MutationHistory
  <2>3. \/ done' = done
        \/ done' = [done EXCEPT ![k] = [done[k] EXCEPT ![fp] = clock]]
    BY <1>0, <2>1, <2>2, TransitionHistory
  <2> QED
    BY <2>1, <2>3, DropStep
<1>8. ASSUME NEW fp \in Fingerprints, MarkAmbiguous(k, o, fp)  PROVE Goal
  <2>1. /\ Transition(k, Owns(Load(k), fp, o), {MarkedAmbiguous(Load(k), clock)})
        /\ clock' = clock /\ lease' = [lease EXCEPT ![k][o] = NoLease]
    BY <1>8 DEF MarkAmbiguous, Release
  <2>2. MarkedAmbiguous(Load(k), clock).completed = Load(k).completed
    BY <1>0, MutationHistory
  <2>3. done' = done
    BY <2>1, <2>2, TransitionQuiet
  <2> QED
    BY <2>1, <2>3, DropStep
<1>9. ASSUME NEW fp \in Fingerprints, ClearOperation(k, o, fp)  PROVE Goal
  <2>1. /\ Transition(k, Owns(Load(k), fp, o), {Cleared(Load(k))})
        /\ clock' = clock /\ lease' = [lease EXCEPT ![k][o] = NoLease]
    BY <1>9 DEF ClearOperation, Release
  <2>2. Cleared(Load(k)).completed = Load(k).completed
    BY <1>0, MutationHistory
  <2>3. done' = done
    BY <2>1, <2>2, TransitionQuiet
  <2> QED
    BY <2>1, <2>3, DropStep
<1> HIDE DEF Goal
<1>10. Goal
  BY <1>1, <1>2, <1>3, <1>4, <1>5, <1>6, <1>7, <1>8, <1>9 DEF Call, Claim
<1> QED
  BY <1>10 DEF Goal

\* The ledger is a lease that one owner holds at a time, with a bounded memory
\* of completed fingerprints that are not leased again: whatever its callers
\* ask, whatever the disk does, and through restarts.
THEOREM LedgerIsALease == Spec => ImplementsLease
<1>1. Init => Abstract!Init
  BY DEF Init, Abstract!Init, Never, Abstract!Never
<1>2. TypeOK /\ TypeOK' /\ LeaseBacked /\ HistoryFaithful /\ [Next]_vars
        => [Abstract!Next]_(Abstract!vars)
  <2> SUFFICES ASSUME TypeOK, TypeOK', LeaseBacked, HistoryFaithful, [Next]_vars
               PROVE  Abstract!Next \/ UNCHANGED Abstract!vars
    OBVIOUS
  <2>1. \A k \in Keys : HistoryAt(k)
    BY FaithfulIs
  <2>2. CASE \E k \in Keys, o \in Owners : Call(k, o)
    BY <2>1, <2>2, CallImplements
  <2>3. CASE Tick
    <3>1. Abstract!Advance
      BY <2>3 DEF Tick, Abstract!Advance
    <3> QED
      BY <3>1 DEF Abstract!Next
  <2>4. CASE Restart
    <3>1. Abstract!Lose
      BY <2>4 DEF Restart, Abstract!Lose
    <3> QED
      BY <3>1 DEF Abstract!Next
  <2>5. CASE UNCHANGED vars
    BY <2>5 DEF vars, Abstract!vars
  <2> QED
    BY <2>2, <2>3, <2>4, <2>5 DEF Next
<1> QED
  BY <1>1, <1>2, TypeCorrect, LeasesBacked, HistoryNeverForgets, PTL DEF Spec, ImplementsLease, Abstract!Spec

=============================================================================
