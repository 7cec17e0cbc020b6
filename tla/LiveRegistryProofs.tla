------------------------- MODULE LiveRegistryProofs -------------------------
(***************************************************************************)
(* Theorems about the live-run registry, its requests, drivers and durable *)
(* record, for every set of attempts and fingerprints, every build and any *)
(* number of stages and restarts.                                          *)
(***************************************************************************)
EXTENDS LiveRegistryInvariant, FiniteSetTheorems, TLAPS

-----------------------------------------------------------------------------
(* What the operators return.                                               *)

\* A slot is one of five kinds of entry.
LEMMA SlotCases ==
  ASSUME NEW s \in Slots
  PROVE  /\ s.kind \in {"free", "starting", "running", "ambiguous", "succeeded"}
         /\ s.kind = "free" => s = Free
         /\ s.kind = "starting" => s.by \in Attempts /\ s = Starting(s.by)
         /\ s.kind = "running" => s.by \in Attempts /\ s = Running(s.by)
         /\ s.kind = "ambiguous" => s.fp \in Fingerprints /\ s = Ambiguous(s.fp)
         /\ s.kind = "succeeded" =>
              s.by \in Attempts /\ s.fp \in Fingerprints /\ s = Succeeded(s.by, s.fp)
  BY DEF Slots, Free, Starting, Running, Ambiguous, Succeeded

\* Entries of different attempts or kinds differ.
LEMMA SlotsDiffer ==
  ASSUME NEW a, NEW b
  PROVE  /\ Starting(a) = Starting(b) <=> a = b
         /\ Running(a) = Running(b) <=> a = b
         /\ Starting(a) # Running(b)
         /\ Free # Starting(a) /\ Free # Running(a)
         /\ Free.kind = "free" /\ Starting(a).kind = "starting" /\ Starting(a).by = a
         /\ Running(a).kind = "running" /\ Running(a).by = a
         /\ Ambiguous(a).kind = "ambiguous" /\ Ambiguous(a).fp = a
         /\ Succeeded(a, b).kind = "succeeded" /\ Succeeded(a, b).by = a
         /\ Succeeded(a, b).fp = b
  BY DEF Free, Starting, Running, Ambiguous, Succeeded

\* Owner tokens name their attempt.
LEMMA Tokens ==
  ASSUME NEW a, NEW b
  PROVE  /\ Res(a) # RunId(b)
         /\ Res(a) = Res(b) <=> a = b
         /\ RunId(a) = RunId(b) <=> a = b
         /\ Res(a)[1] = "reservation" /\ Res(a)[2] = a
         /\ RunId(a)[1] = "run" /\ RunId(a)[2] = a
  BY DEF Res, RunId

\* Both tokens of an attempt are owner tokens.
LEMMA TokenType ==
  ASSUME NEW a \in Attempts
  PROVE  /\ Res(a) \in {"reservation", "run"} \X Attempts
         /\ RunId(a) \in {"reservation", "run"} \X Attempts
  BY DEF Res, RunId

\* A new marker is well formed.
LEMMA ActiveType ==
  ASSUME NEW f \in Fingerprints, NEW o \in {"reservation", "run"} \X Attempts,
         NEW p \in Nat, NEW st \in ActiveStates
  PROVE  Active(f, o, p, st, 0) \in ActiveOperation
  BY DEF Active, ActiveOperation

\* A marker stays well formed when it moves on or changes hands.
LEMMA MarkerType ==
  ASSUME NEW m \in ActiveOperation, NEW st \in ActiveStates,
         NEW o \in {"reservation", "run"} \X Attempts
  PROVE  /\ [m EXCEPT !.state = st, !.expires = 0 + 1] \in ActiveOperation
         /\ [m EXCEPT !.owner = o] \in ActiveOperation
<1> DEFINE Owner == {"reservation", "run"} \X Attempts
<1>1. ActiveOperation = [fp: Fingerprints, owner: Owner, proc: Nat, state: ActiveStates, expires: Nat]
  BY DEF ActiveOperation
<1>2. o \in Owner
  OBVIOUS
<1> HIDE DEF Owner
<1>3. [m EXCEPT !.state = st, !.expires = 0 + 1] \in ActiveOperation
  <2> DEFINE moved == [m EXCEPT !.state = st]
  <2>1. moved \in ActiveOperation
    BY <1>1
  <2>2. [m EXCEPT !.state = st, !.expires = 0 + 1] = [moved EXCEPT !.expires = 1]
    BY <1>1
  <2> HIDE DEF moved
  <2>3. [moved EXCEPT !.expires = 1] \in ActiveOperation
    BY <1>1, <2>1
  <2> QED
    BY <2>2, <2>3
<1>4. [m EXCEPT !.owner = o] \in ActiveOperation
  BY <1>1, <1>2
<1> QED
  BY <1>3, <1>4

\* Time is frozen, so that normalizing keeps the history.
LEMMA LoadIs ==
  ASSUME ledger \in Record, process \in Nat
  PROVE  /\ Load \in Record
         /\ Load.completed = ledger.completed
         /\ Load.active \in {ledger.active, NoActive}
         /\ Load.active = IF Stale(ledger.active, 0, process) THEN NoActive ELSE ledger.active
<1>1. ledger.completed \in [Fingerprints -> Nat \cup {-1}] /\ ledger.active \in ActiveOperation \cup {NoActive}
  BY DEF Record, Never
<1>2. [f \in Fingerprints |-> IF ledger.completed[f] >= 0 - 1
                               THEN ledger.completed[f] ELSE Never] = ledger.completed
  BY <1>1 DEF Never
<1>3. Load = [active |-> IF Stale(ledger.active, 0, process) THEN NoActive ELSE ledger.active,
              completed |-> ledger.completed]
  BY <1>2 DEF Load, Normalize
<1> QED
  BY <1>1, <1>3 DEF Record, Never

\* The history has room for every fingerprint: recording one drops no other.
LEMMA AddCompletedIs ==
  ASSUME NEW c \in [Fingerprints -> Nat \cup {-1}], NEW f \in Fingerprints
  PROVE  AddCompleted(c, f, 0) = {[c EXCEPT ![f] = 0]}
<1> DEFINE added == [c EXCEPT ![f] = 0]
<1>1. History(added) \subseteq Fingerprints
  BY DEF History
<1>2. Cardinality(History(added)) <= Cardinality(Fingerprints)
  BY <1>1, FS_Subset, LiveRegistryAssumption
<1> QED
  BY <1>2 DEF AddCompleted

-----------------------------------------------------------------------------
(* The answers of the ledger.                                               *)

\* What a call can answer is well formed when what it can leave is.
LEMMA AnswersType ==
  ASSUME ledger \in Record, process \in Nat, NEW applies \in BOOLEAN, NEW results,
         applies => results \subseteq Record
  PROVE  Answers(applies, results) \subseteq Answer
  BY LoadIs DEF Answers, Answer

\* Every ledger call leaves a record and gives one of three answers.
LEMMA CallTypes ==
  ASSUME ledger \in Record, process \in Nat,
         NEW f \in Fingerprints, NEW g \in Fingerprints,
         NEW o \in {"reservation", "run"} \X Attempts,
         NEW p \in {"reservation", "run"} \X Attempts
  PROVE  /\ LedgerClaim(f, o) \subseteq Answer
         /\ LedgerDispatch(f, o) \subseteq Answer
         /\ LedgerTransfer(f, o, p) \subseteq Answer
         /\ LedgerPrepareStage(o, f, g) \subseteq Answer
         /\ LedgerRollback(o, f, g) \subseteq Answer
         /\ LedgerComplete(f, o) \subseteq Answer
         /\ LedgerAmbiguous(f, o) \subseteq Answer
         /\ LedgerClear(f, o) \subseteq Answer
<1> DEFINE owned == Owns(Load, f, o)
<1>1. /\ Load \in Record
      /\ Load.completed \in [Fingerprints -> Nat \cup {-1}]
      /\ Load.active \in ActiveOperation \cup {NoActive}
  BY LoadIs DEF Record, Never
<1>2. owned \in BOOLEAN /\ CanPrepareStage(Load, o, f) \in BOOLEAN /\ CanComplete(Load, f, o) \in BOOLEAN
  BY DEF Owns, CanPrepareStage, CanComplete
<1>3. owned => Load.active \in ActiveOperation
  BY <1>1 DEF Owns
<1>4. \A x \in ActiveOperation \cup {NoActive} : \A c \in [Fingerprints -> Nat \cup {-1}] :
        [active |-> x, completed |-> c] \in Record
  BY DEF Record, Never
<1>5. \A x \in ActiveOperation \cup {NoActive} : [Load EXCEPT !.active = x] \in Record
  BY <1>1 DEF Record, Never
<1>6. \A h \in Fingerprints : AddCompleted(Load.completed, h, 0) \subseteq [Fingerprints -> Nat \cup {-1}]
  BY <1>1, AddCompletedIs
<1>7. LedgerClaim(f, o) \subseteq Answer
  <2>1. Claimed(Load, f, o, 0, process) \in Record
    BY <1>1, <1>5, ActiveType DEF Claimed, ActiveStates
  <2>2. Answers(TRUE, {Claimed(Load, f, o, 0, process)}) \subseteq Answer
    BY <2>1, AnswersType
  <2>3. [rec |-> Load, ans |-> "no"] \in Answer
    BY <1>1 DEF Answer
  <2> QED
    BY <2>2, <2>3 DEF LedgerClaim
<1>8. LedgerDispatch(f, o) \subseteq Answer
  <2>1. owned => [Load.active EXCEPT !.state = "Dispatched", !.expires = 0 + 1] \in ActiveOperation
    BY <1>3, MarkerType DEF ActiveStates
  <2>2. owned => Dispatched(Load, 0) \in Record
    BY <1>1, <1>5, <2>1 DEF Dispatched
  <2> QED
    BY <1>2, <2>2, AnswersType DEF LedgerDispatch
<1>9. LedgerTransfer(f, o, p) \subseteq Answer
  <2>1. owned => [Load.active EXCEPT !.owner = p] \in ActiveOperation
    BY <1>3, MarkerType DEF ActiveStates
  <2>2. owned => Transferred(Load, p) \in Record
    BY <1>1, <1>5, <2>1 DEF Transferred
  <2> QED
    BY <1>2, <2>2, AnswersType DEF LedgerTransfer
<1>10. LedgerPrepareStage(o, f, g) \subseteq Answer
  <2>1. StagePrepared(Load, o, f, g, 0, process) \subseteq Record
    BY <1>4, <1>6, ActiveType DEF StagePrepared, ActiveStates
  <2> QED
    BY <1>2, <2>1, AnswersType DEF LedgerPrepareStage
<1>11. LedgerRollback(o, f, g) \subseteq Answer
  <2>1. StageRolledBack(Load, o, g, 0, process) \in Record
    BY <1>5, ActiveType DEF StageRolledBack, ActiveStates
  <2> QED
    BY <1>2, <2>1, AnswersType DEF LedgerRollback
<1>12. LedgerComplete(f, o) \subseteq Answer
  <2>1. Completed(Load, f, 0) \subseteq Record
    BY <1>1, <1>4, <1>6 DEF Completed
  <2> QED
    BY <1>2, <2>1, AnswersType DEF LedgerComplete
<1>13. LedgerAmbiguous(f, o) \subseteq Answer
  <2>1. owned => [Load.active EXCEPT !.state = "Ambiguous", !.expires = 0 + 1] \in ActiveOperation
    BY <1>3, MarkerType DEF ActiveStates
  <2>2. owned => MarkedAmbiguous(Load, 0) \in Record
    BY <1>1, <1>5, <2>1 DEF MarkedAmbiguous
  <2> QED
    BY <1>2, <2>2, AnswersType DEF LedgerAmbiguous
<1>14. LedgerClear(f, o) \subseteq Answer
  <2>1. Cleared(Load) \in Record
    BY <1>5 DEF Cleared
  <2> QED
    BY <1>2, <2>1, AnswersType DEF LedgerClear
<1> QED
  BY <1>7, <1>8, <1>9, <1>10, <1>11, <1>12, <1>13, <1>14

\* What a request can become.
LEMMA RequestTypes ==
  ASSUME req \in [Attempts -> Requests], NEW x \in Attempts
  PROVE  /\ req[x].at \in Places /\ req[x].op \in Fingerprints
         /\ req[x].victim \in Attempts \cup {NoAttempt}
         /\ \A p \in Places : [req EXCEPT ![x].at = p] \in [Attempts -> Requests]
         /\ \A r \in Requests : [req EXCEPT ![x] = r] \in [Attempts -> Requests]
         /\ \A p \in Places, f \in Fingerprints, v \in Attempts \cup {NoAttempt} :
              [at |-> p, op |-> f, victim |-> v] \in Requests
         /\ Gone \in Requests /\ Arriving \in Requests
  BY LiveRegistryAssumption DEF Requests, Gone, Arriving, Places

\* What a Run can become.
LEMMA RunTypes ==
  ASSUME NEW r \in RunState
  PROVE  /\ r.phase \in Phases /\ r.stage \in Fingerprints /\ r.next \in Fingerprints
         /\ r.err \in Errors /\ r.cancel \in BOOLEAN /\ r.orphan \in BOOLEAN
         /\ \A p \in Phases : [r EXCEPT !.phase = p] \in RunState
         /\ \A f \in Fingerprints : [r EXCEPT !.stage = f] \in RunState
         /\ \A f \in Fingerprints : [r EXCEPT !.next = f] \in RunState
         /\ \A e \in Errors : [r EXCEPT !.err = e] \in RunState
         /\ \A b \in BOOLEAN : [r EXCEPT !.cancel = b] \in RunState
         /\ \A b \in BOOLEAN : [r EXCEPT !.orphan = b] \in RunState
         /\ \A e \in Errors : Failed(r, e) \in RunState
  BY DEF RunState, Failed

\* The Run of an attempt that has opened none is well formed.
LEMMA NoRunType == NoRun \in RunState
  BY LiveRegistryAssumption DEF NoRun, RunState, Phases, Errors

\* Every entry the steps put into the slot is one.
LEMMA SlotTypes ==
  /\ Free \in Slots
  /\ \A a \in Attempts : Starting(a) \in Slots /\ Running(a) \in Slots
  /\ \A f \in Fingerprints : Ambiguous(f) \in Slots
  /\ \A a \in Attempts, f \in Fingerprints : Succeeded(a, f) \in Slots
  BY DEF Slots

-----------------------------------------------------------------------------
(* How a step changes a request and a Run.                                  *)

\* A Run that ends, settles or moves between its stages.
LEMMA RunEnds ==
  ASSUME NEW r \in RunState, NEW p \in Phases, NEW e \in Errors
  PROVE  /\ [Failed(r, e) EXCEPT !.phase = p] \in RunState
         /\ RunIs([Failed(r, e) EXCEPT !.phase = p], p, r.stage, r.next,
                  IF r.err = "none" THEN e ELSE r.err, r.cancel)
<1> DEFINE f == Failed(r, e)
<1>1. /\ f \in RunState /\ f.stage = r.stage /\ f.next = r.next
      /\ f.err = IF r.err = "none" THEN e ELSE r.err
      /\ f.cancel = r.cancel
  <2>1. [r EXCEPT !.err = e] \in RunState
    BY RunTypes
  <2> QED
    BY <2>1 DEF Failed, RunState
<1> HIDE DEF f
<1>2. /\ [f EXCEPT !.phase = p] \in RunState
      /\ RunIs([f EXCEPT !.phase = p], p, r.stage, r.next,
               IF r.err = "none" THEN e ELSE r.err, r.cancel)
  BY <1>1 DEF RunState, RunIs
<1> QED
  BY <1>2, Zenon DEF f

\* A Run that ends or drops its next stage is otherwise as it was.
LEMMA RunSettles ==
  ASSUME NEW r \in RunState, NEW p \in Phases, NEW f \in Fingerprints
  PROVE  /\ [r EXCEPT !.phase = p, !.next = f] \in RunState
         /\ RunIs([r EXCEPT !.phase = p, !.next = f], p, r.stage, f, r.err, r.cancel)
<1> DEFINE s == [r EXCEPT !.phase = p]
<1>1. s \in RunState /\ s.phase = p /\ s.stage = r.stage /\ s.err = r.err /\ s.cancel = r.cancel
  BY DEF RunState
<1>2. [r EXCEPT !.phase = p, !.next = f] = [s EXCEPT !.next = f]
  OBVIOUS
<1> HIDE DEF s
<1>3. /\ [s EXCEPT !.next = f] \in RunState
      /\ RunIs([s EXCEPT !.next = f], p, r.stage, f, r.err, r.cancel)
  BY <1>1 DEF RunState, RunIs
<1> QED
  BY <1>2, <1>3, Zenon

\* A Run that moves between its stages keeps its error and cancellation.
LEMMA RunRotates ==
  ASSUME NEW r \in RunState, NEW p \in Phases, NEW f \in Fingerprints, NEW g \in Fingerprints
  PROVE  /\ [r EXCEPT !.phase = p, !.stage = f, !.next = g] \in RunState
         /\ RunIs([r EXCEPT !.phase = p, !.stage = f, !.next = g], p, f, g, r.err, r.cancel)
<1> DEFINE t == [r EXCEPT !.phase = p]
<1>1. t \in RunState /\ t.phase = p /\ t.err = r.err /\ t.cancel = r.cancel
  BY DEF RunState
<1>2. [r EXCEPT !.phase = p, !.stage = f, !.next = g] = [[t EXCEPT !.stage = f] EXCEPT !.next = g]
  OBVIOUS
<1> HIDE DEF t
<1> DEFINE s == [t EXCEPT !.stage = f]
<1>3. s \in RunState /\ s.phase = p /\ s.stage = f /\ s.err = r.err /\ s.cancel = r.cancel
  BY <1>1 DEF RunState
<1>4. [r EXCEPT !.phase = p, !.stage = f, !.next = g] = [s EXCEPT !.next = g]
  BY <1>2, Zenon
<1> HIDE DEF s
<1>5. /\ [s EXCEPT !.next = g] \in RunState
      /\ RunIs([s EXCEPT !.next = g], p, f, g, r.err, r.cancel)
  BY <1>3 DEF RunState, RunIs
<1> QED
  BY <1>4, <1>5, Zenon

\* A request that gets its reservation.
LEMMA RequestMoves ==
  ASSUME NEW r \in Requests, NEW p \in Places
  PROVE  /\ [r EXCEPT !.at = p, !.victim = NoAttempt] \in Requests
         /\ RequestIs([r EXCEPT !.at = p, !.victim = NoAttempt], p, r.op, NoAttempt)
<1> DEFINE s == [r EXCEPT !.at = p]
<1>1. s \in Requests /\ s.at = p /\ s.op = r.op
  BY DEF Requests
<1>2. [r EXCEPT !.at = p, !.victim = NoAttempt] = [s EXCEPT !.victim = NoAttempt]
  OBVIOUS
<1> HIDE DEF s
<1>3. /\ [s EXCEPT !.victim = NoAttempt] \in Requests
      /\ RequestIs([s EXCEPT !.victim = NoAttempt], p, r.op, NoAttempt)
  BY <1>1 DEF Requests, RequestIs
<1> QED
  BY <1>2, <1>3, Zenon

\* The type invariant, spelled out.
LEMMA Types ==
  ASSUME Typed
  PROVE  /\ slot \in Slots /\ ledger \in Record /\ process \in Nat
         /\ req \in [Attempts -> Requests] /\ run \in [Attempts -> RunState]
         /\ writes \subseteq Writes /\ guarded \subseteq Attempts
         /\ \A a \in Attempts :
              /\ req[a] \in Requests /\ req[a].at \in Places /\ req[a].op \in Fingerprints
              /\ req[a].victim \in Attempts \cup {NoAttempt}
              /\ req[a].at \in {"waiting", "superseding"} => req[a].victim \in Attempts
              /\ run[a] \in RunState /\ run[a].phase \in Phases /\ run[a].stage \in Fingerprints
              /\ run[a].next \in Fingerprints /\ run[a].err \in Errors /\ run[a].cancel \in BOOLEAN
  BY RequestTypes, RunTypes DEF Typed, TypeOK

\* A request moves on, or is as it was when it arrived.
LEMMA RequestSteps ==
  ASSUME Typed, NEW x \in Attempts, NEW r \in Requests, req' = [req EXCEPT ![x] = r]
  PROVE  OneRequest(x) /\ req'[x] = r
  BY Types DEF OneRequest

\* A request moves to another place and keeps its operation and victim.
LEMMA RequestAdvances ==
  ASSUME Typed, NEW x \in Attempts, NEW p \in Places, req' = [req EXCEPT ![x].at = p]
  PROVE  OneRequest(x) /\ RequestIs(req'[x], p, req[x].op, req[x].victim)
<1>1. /\ [req[x] EXCEPT !.at = p] \in Requests
      /\ RequestIs([req[x] EXCEPT !.at = p], p, req[x].op, req[x].victim)
  BY Types DEF Requests, RequestIs
<1> QED
  BY <1>1, RequestSteps

\* A request gets its reservation and drops its victim.
LEMMA RequestReserves ==
  ASSUME Typed, NEW x \in Attempts, NEW p \in Places,
         req' = [req EXCEPT ![x] = [@ EXCEPT !.at = p, !.victim = NoAttempt]]
  PROVE  OneRequest(x) /\ RequestIs(req'[x], p, req[x].op, NoAttempt)
<1> DEFINE r == [req[x] EXCEPT !.at = p, !.victim = NoAttempt]
<1>1. req[x] \in Requests
  BY Types
<1>2. r \in Requests /\ RequestIs(r, p, req[x].op, NoAttempt)
  BY <1>1, RequestMoves, Zenon
<1>3. req' = [req EXCEPT ![x] = r]
  BY Zenon
<1> HIDE DEF r
<1>4. OneRequest(x) /\ req'[x] = r
  BY <1>2, <1>3, RequestSteps, Zenon
<1> QED
  BY <1>2, <1>4, Zenon

\* A request that is done names neither operation nor victim.
LEMMA RequestLeaves ==
  ASSUME Typed, NEW x \in Attempts, req' = [req EXCEPT ![x] = Gone]
  PROVE  OneRequest(x) /\ RequestIs(req'[x], "done", Unknown, NoAttempt)
<1>1. Gone \in Requests /\ Gone.at = "done" /\ Gone.op = Unknown /\ Gone.victim = NoAttempt
  BY Types, RequestTypes DEF Gone
<1> QED
  BY <1>1, RequestSteps DEF RequestIs

\* The Run of x changes in one respect, or in several.
LEMMA RunSteps ==
  ASSUME Typed, NEW x \in Attempts, NEW u \in RunState, run' = [run EXCEPT ![x] = u]
  PROVE  OneRun(x) /\ run'[x] = u
  BY Types DEF OneRun

\* A step changes one field of a Run.
LEMMA RunChanges ==
  ASSUME Typed, NEW x \in Attempts
  PROVE  /\ \A p \in Phases : run' = [run EXCEPT ![x].phase = p] =>
              OneRun(x) /\ RunIs(run'[x], p, run[x].stage, run[x].next, run[x].err, run[x].cancel)
         /\ \A f \in Fingerprints : run' = [run EXCEPT ![x].stage = f] =>
              OneRun(x) /\ RunIs(run'[x], run[x].phase, f, run[x].next, run[x].err, run[x].cancel)
         /\ \A f \in Fingerprints : run' = [run EXCEPT ![x].next = f] =>
              OneRun(x) /\ RunIs(run'[x], run[x].phase, run[x].stage, f, run[x].err, run[x].cancel)
         /\ \A b \in BOOLEAN : run' = [run EXCEPT ![x].cancel = b] =>
              OneRun(x) /\ RunIs(run'[x], run[x].phase, run[x].stage, run[x].next, run[x].err, b)
         /\ \A b \in BOOLEAN : run' = [run EXCEPT ![x].orphan = b] =>
              /\ OneRun(x)
              /\ RunIs(run'[x], run[x].phase, run[x].stage, run[x].next, run[x].err, run[x].cancel)
         /\ \A e \in Errors : run' = [run EXCEPT ![x].err = e] =>
              OneRun(x) /\ RunIs(run'[x], run[x].phase, run[x].stage, run[x].next, e, run[x].cancel)
<1>1. run[x] \in RunState
  BY Types
<1>2. ASSUME NEW c \in Phases, run' = [run EXCEPT ![x].phase = c]
     PROVE  OneRun(x) /\ RunIs(run'[x], c, run[x].stage, run[x].next, run[x].err, run[x].cancel)
  <2>1. [run[x] EXCEPT !.phase = c] \in RunState
    BY <1>1, RunTypes
  <2>2. RunIs([run[x] EXCEPT !.phase = c], c, run[x].stage, run[x].next, run[x].err, run[x].cancel)
    BY <1>1 DEF RunIs, RunState
  <2> QED
    BY <1>2, <2>1, <2>2, RunSteps
<1>3. ASSUME NEW c \in Fingerprints, run' = [run EXCEPT ![x].stage = c]
     PROVE  OneRun(x) /\ RunIs(run'[x], run[x].phase, c, run[x].next, run[x].err, run[x].cancel)
  <2>1. [run[x] EXCEPT !.stage = c] \in RunState
    BY <1>1, RunTypes
  <2>2. RunIs([run[x] EXCEPT !.stage = c], run[x].phase, c, run[x].next, run[x].err, run[x].cancel)
    BY <1>1 DEF RunIs, RunState
  <2> QED
    BY <1>3, <2>1, <2>2, RunSteps
<1>4. ASSUME NEW c \in Fingerprints, run' = [run EXCEPT ![x].next = c]
     PROVE  OneRun(x) /\ RunIs(run'[x], run[x].phase, run[x].stage, c, run[x].err, run[x].cancel)
  <2>1. [run[x] EXCEPT !.next = c] \in RunState
    BY <1>1, RunTypes
  <2>2. RunIs([run[x] EXCEPT !.next = c], run[x].phase, run[x].stage, c, run[x].err, run[x].cancel)
    BY <1>1 DEF RunIs, RunState
  <2> QED
    BY <1>4, <2>1, <2>2, RunSteps
<1>5. ASSUME NEW c \in BOOLEAN, run' = [run EXCEPT ![x].cancel = c]
     PROVE  OneRun(x) /\ RunIs(run'[x], run[x].phase, run[x].stage, run[x].next, run[x].err, c)
  <2>1. [run[x] EXCEPT !.cancel = c] \in RunState
    BY <1>1, RunTypes
  <2>2. RunIs([run[x] EXCEPT !.cancel = c], run[x].phase, run[x].stage, run[x].next, run[x].err, c)
    BY <1>1 DEF RunIs, RunState
  <2> QED
    BY <1>5, <2>1, <2>2, RunSteps
<1>6. ASSUME NEW c \in BOOLEAN, run' = [run EXCEPT ![x].orphan = c]
     PROVE  OneRun(x) /\ RunIs(run'[x], run[x].phase, run[x].stage, run[x].next, run[x].err,
                               run[x].cancel)
  <2>1. [run[x] EXCEPT !.orphan = c] \in RunState
    BY <1>1, RunTypes
  <2>2. RunIs([run[x] EXCEPT !.orphan = c], run[x].phase, run[x].stage, run[x].next, run[x].err,
              run[x].cancel)
    BY <1>1 DEF RunIs, RunState
  <2> QED
    BY <1>6, <2>1, <2>2, RunSteps
<1>7. ASSUME NEW c \in Errors, run' = [run EXCEPT ![x].err = c]
     PROVE  OneRun(x) /\ RunIs(run'[x], run[x].phase, run[x].stage, run[x].next, c, run[x].cancel)
  <2>1. [run[x] EXCEPT !.err = c] \in RunState
    BY <1>1, RunTypes
  <2>2. RunIs([run[x] EXCEPT !.err = c], run[x].phase, run[x].stage, run[x].next, c, run[x].cancel)
    BY <1>1 DEF RunIs, RunState
  <2> QED
    BY <1>7, <2>1, <2>2, RunSteps
<1> QED
  BY <1>2, <1>3, <1>4, <1>5, <1>6, <1>7

\* A failure keeps the first error and nothing else changes.
LEMMA RunFails ==
  ASSUME Typed, NEW x \in Attempts, NEW e \in Errors, run' = [run EXCEPT ![x] = Failed(@, e)]
  PROVE  OneRun(x) /\ RunIs(run'[x], run[x].phase, run[x].stage, run[x].next,
                            IF run[x].err = "none" THEN e ELSE run[x].err, run[x].cancel)
<1>1. Failed(run[x], e) \in RunState
  BY Types, RunTypes
<1>2. RunIs(Failed(run[x], e), run[x].phase, run[x].stage, run[x].next,
            IF run[x].err = "none" THEN e ELSE run[x].err, run[x].cancel)
  BY Types DEF Failed, RunIs, RunState
<1> QED
  BY <1>1, <1>2, RunSteps

\* What a claim sees is the slot, or a free slot where a handle can be pruned.
LEMMA SeenIs ==
  ASSUME Typed
  PROVE  /\ Seen \in Slots
         /\ \/ Seen = slot
            \/ Seen = Free /\ Vacant /\ slot.kind = "running"
<1>1. CASE Prunable
  BY <1>1, SlotTypes DEF Seen, Prunable, Vacant
<1>2. CASE ~Prunable
  <2>1. Seen = slot
    BY <1>2, Zenon DEF Seen
  <2> QED
    BY <2>1, Types
<1> QED
  BY <1>1, <1>2

\* The Run of x stops in a phase, with an error unless it had one.
LEMMA RunStops ==
  ASSUME Typed, NEW x \in Attempts, NEW p \in Phases, NEW e \in Errors,
         run' = [run EXCEPT ![x] = [Failed(@, e) EXCEPT !.phase = p]]
  PROVE  /\ OneRun(x)
         /\ RunIs(run'[x], p, run[x].stage, run[x].next,
                  IF run[x].err = "none" THEN e ELSE run[x].err, run[x].cancel)
<1> DEFINE u == [Failed(run[x], e) EXCEPT !.phase = p]
<1>1. run[x] \in RunState
  BY Types
<1>2. u \in RunState /\ RunIs(u, p, run[x].stage, run[x].next,
                           IF run[x].err = "none" THEN e ELSE run[x].err, run[x].cancel)
  BY <1>1, RunEnds, Zenon
<1>3. run' = [run EXCEPT ![x] = u]
  BY Zenon
<1> HIDE DEF u
<1>4. OneRun(x) /\ run'[x] = u
  BY <1>2, <1>3, RunSteps, Zenon
<1> QED
  BY <1>2, <1>4, Zenon

\* The Run of x changes its phase and next stage.
LEMMA RunGoesOn ==
  ASSUME Typed, NEW x \in Attempts, NEW p \in Phases, NEW f \in Fingerprints,
         run' = [run EXCEPT ![x] = [@ EXCEPT !.phase = p, !.next = f]]
  PROVE  OneRun(x) /\ RunIs(run'[x], p, run[x].stage, f, run[x].err, run[x].cancel)
<1> DEFINE u == [run[x] EXCEPT !.phase = p, !.next = f]
<1>1. run[x] \in RunState
  BY Types
<1>2. u \in RunState /\ RunIs(u, p, run[x].stage, f, run[x].err, run[x].cancel)
  BY <1>1, RunSettles, Zenon
<1>3. run' = [run EXCEPT ![x] = u]
  BY Zenon
<1> HIDE DEF u
<1>4. OneRun(x) /\ run'[x] = u
  BY <1>2, <1>3, RunSteps, Zenon
<1> QED
  BY <1>2, <1>4, Zenon

\* The Run of x changes its phase and both stages.
LEMMA RunMoves ==
  ASSUME Typed, NEW x \in Attempts, NEW p \in Phases, NEW f \in Fingerprints,
         NEW g \in Fingerprints,
         run' = [run EXCEPT ![x] = [@ EXCEPT !.phase = p, !.stage = f, !.next = g]]
  PROVE  OneRun(x) /\ RunIs(run'[x], p, f, g, run[x].err, run[x].cancel)
<1> DEFINE u == [run[x] EXCEPT !.phase = p, !.stage = f, !.next = g]
<1>1. run[x] \in RunState
  BY Types
<1>2. u \in RunState /\ RunIs(u, p, f, g, run[x].err, run[x].cancel)
  BY <1>1, RunRotates, Zenon
<1>3. run' = [run EXCEPT ![x] = u]
  BY Zenon
<1> HIDE DEF u
<1>4. OneRun(x) /\ run'[x] = u
  BY <1>2, <1>3, RunSteps, Zenon
<1> QED
  BY <1>2, <1>4, Zenon

\* The driver's end, as an effect on the Run of x.
LEMMA RunFinishes ==
  ASSUME Typed, NEW x \in Attempts, NEW e \in Errors, Ends(x, e)
  PROVE  EndsRun(x, e)
<1> DEFINE p == "ending"
<1>1. p \in Phases
  BY DEF Phases
<1>2. run' = [run EXCEPT ![x] = [Failed(@, e) EXCEPT !.phase = p]]
  BY Zenon DEF Ends
<1>3. guarded' = IF run'[x].err \in {"other", "retry"} THEN guarded \ {x} ELSE guarded
  BY Zenon DEF Ends
<1> HIDE DEF p
<1>4. /\ OneRun(x)
      /\ RunIs(run'[x], p, run[x].stage, run[x].next,
               IF run[x].err = "none" THEN e ELSE run[x].err, run[x].cancel)
  BY <1>1, <1>2, RunStops, Zenon
<1> QED
  BY <1>3, <1>4, Zenon DEF EndsRun, p

\* The request of x is replaced as a whole.
LEMMA RequestBecomes ==
  ASSUME Typed, NEW x \in Attempts, NEW p \in Places, NEW f \in Fingerprints,
         NEW v \in Attempts \cup {NoAttempt},
         req' = [req EXCEPT ![x] = [at |-> p, op |-> f, victim |-> v]]
  PROVE  OneRequest(x) /\ RequestIs(req'[x], p, f, v)
<1> DEFINE r == [at |-> p, op |-> f, victim |-> v]
<1>1. r \in Requests /\ RequestIs(r, p, f, v)
  BY DEF Requests, RequestIs
<1> HIDE DEF r
<1> QED
  BY <1>1, RequestSteps DEF r

\* What each step does.

\* A claim puts x into a vacant slot.
LEMMA ClaimEffect ==
  ASSUME Typed, NEW x \in Attempts, NEW f \in Operations, Claim(x, f)
  PROVE  /\ req[x].at = "idle" /\ f \in Fingerprints /\ f # Unknown /\ GivesWay(f)
         /\ OneRequest(x) /\ RequestIs(req'[x], "reserved", f, NoAttempt)
         /\ OneRun(x) /\ RunIs(run'[x], run[x].phase, f, run[x].next, run[x].err, run[x].cancel)
         /\ Vacant
         /\ slot' = Starting(x) /\ guarded' = Rotated(f)
         /\ UNCHANGED <<ledger, process, writes, resumes>>
<1>1. req[x].at = "idle" /\ f \in Fingerprints /\ f # Unknown /\ GivesWay(f)
  BY DEF Claim, Operations
<1>2. OneRequest(x) /\ RequestIs(req'[x], "reserved", f, NoAttempt)
  BY RequestBecomes, Types DEF Claim, Operations, Places
<1>3. OneRun(x) /\ RunIs(run'[x], run[x].phase, f, run[x].next, run[x].err, run[x].cancel)
  BY RunChanges DEF Claim, Operations
<1>4. Vacant
  BY SeenIs, SlotsDiffer DEF Claim, GivesWay, Vacant, Free
<1>5. slot' = Starting(x) /\ guarded' = Rotated(f)
  BY DEF Claim
<1>6. UNCHANGED <<ledger, process, writes, resumes>>
  BY DEF Claim
<1> QED
  BY <1>1, <1>2, <1>3, <1>4, <1>5, <1>6

\* A refused request leaves.
LEMMA RefuseEffect ==
  ASSUME Typed, NEW x \in Attempts, NEW f \in Operations, Refuse(x, f)
  PROVE  /\ req[x].at = "idle"
         /\ OneRequest(x) /\ RequestIs(req'[x], "done", Unknown, NoAttempt)
         /\ UNCHANGED <<slot, ledger, process, run, writes, resumes, guarded>>
  BY RequestLeaves DEF Refuse

\* An observer remembers the Run in the slot.
LEMMA ObserveEffect ==
  ASSUME Typed, NEW x \in Attempts, NEW f \in Operations, NEW results \in BOOLEAN,
         Observe(x, f, results)
  PROVE  /\ req[x].at = "idle" /\ f \in Fingerprints /\ f # Unknown
         /\ \E v \in Attempts :
           /\ slot = Running(v) /\ ~(IsCompleted(v) /\ run[v].err = "none")
           /\ results \/ IsReplaceable(v)
           /\ Visible(v) => f \notin {run[v].stage, run[v].next}
           /\ OneRequest(x) /\ RequestIs(req'[x], "waiting", f, v)
         /\ UNCHANGED <<slot, ledger, process, run, writes, resumes, guarded>>
<1>1. req[x].at = "idle" /\ f \in Fingerprints /\ f # Unknown
  BY DEF Observe, Operations
<1>2. \E v \in Attempts :
      /\ slot = Running(v) /\ ~(IsCompleted(v) /\ run[v].err = "none")
      /\ results \/ IsReplaceable(v)
      /\ Visible(v) => f \notin {run[v].stage, run[v].next}
      /\ OneRequest(x) /\ RequestIs(req'[x], "waiting", f, v)
  <2>1. Seen = slot /\ slot.kind = "running" /\ ~Prunable
    BY SlotsDiffer, SeenIs DEF Observe, Seen
  <2>2. PICK v \in Attempts : slot = Running(v) /\ v = slot.by
    BY <2>1, Types, SlotCases
  <2>3. req' = [req EXCEPT ![x] = [at |-> "waiting", op |-> f, victim |-> v]]
    BY <2>1, <2>2 DEF Observe
  <2>4. OneRequest(x) /\ RequestIs(req'[x], "waiting", f, v)
    BY <2>3, RequestBecomes DEF Operations, Places
  <2> QED
    BY <2>1, <2>2, <2>4 DEF Observe, Prunable
<1>3. UNCHANGED <<slot, ledger, process, run, writes, resumes, guarded>>
  BY DEF Observe
<1> QED
  BY <1>1, <1>2, <1>3

\* A takeover cancels the Run in the slot and stands for its operation.
LEMMA ClaimReplacementEffect ==
  ASSUME Typed, NEW x \in Attempts, NEW results \in BOOLEAN,
         \A b \in Attempts : SlotSound(b), ClaimReplacement(x, results)
  PROVE  /\ req[x].at = "waiting"
         /\ OneRequest(x) /\ RequestIs(req'[x], "superseding", req[x].op, req[x].victim)
         /\ \E v \in Attempts : TakesOver(x, v)
         /\ slot' = Starting(x)
         /\ UNCHANGED <<ledger, process, writes, resumes, guarded>>
<1>1. req[x].at = "waiting"
  BY DEF ClaimReplacement
<1>2. OneRequest(x) /\ RequestIs(req'[x], "superseding", req[x].op, req[x].victim)
  BY RequestAdvances DEF ClaimReplacement, Places
<1>3. \E v \in Attempts : TakesOver(x, v)
  <2>1. PICK v \in Attempts : v = req[x].victim
    BY Types DEF ClaimReplacement
  <2>2. slot = Running(v) /\ ~Prunable /\ slot.by = v /\ slot.kind = "running"
    BY <2>1, SeenIs, SlotsDiffer DEF ClaimReplacement, Seen
  <2>3. v # x
    BY <2>1, <2>2 DEF ClaimReplacement, SlotSound, Published
  <2>4. run' = [[run EXCEPT ![x].stage = run[v].stage] EXCEPT ![v].cancel = TRUE]
    BY <2>1, Zenon DEF ClaimReplacement
  <2> DEFINE r == [run[x] EXCEPT !.stage = run[v].stage]
             u == [run[v] EXCEPT !.cancel = TRUE]
             half == [run EXCEPT ![x] = r]
  <2>5. /\ r \in RunState
        /\ RunIs(r, run[x].phase, run[v].stage, run[x].next, run[x].err, run[x].cancel)
    <3>1. run[x] \in RunState /\ run[v].stage \in Fingerprints
      BY Types
    <3>2. r \in RunState
      BY <3>1, RunTypes
    <3>3. RunIs(r, run[x].phase, run[v].stage, run[x].next, run[x].err, run[x].cancel)
      BY <3>1 DEF RunState, RunIs
    <3> QED
      BY <3>2, <3>3
  <2>6. /\ u \in RunState
        /\ RunIs(u, run[v].phase, run[v].stage, run[v].next, run[v].err, TRUE)
    <3>1. run[v] \in RunState
      BY Types
    <3>2. u \in RunState
      BY <3>1, RunTypes
    <3>3. RunIs(u, run[v].phase, run[v].stage, run[v].next, run[v].err, TRUE)
      BY <3>1 DEF RunState, RunIs
    <3> QED
      BY <3>2, <3>3
  <2>7. half = [run EXCEPT ![x].stage = run[v].stage]
    OBVIOUS
  <2>8. run' = [half EXCEPT ![v].cancel = TRUE]
    BY <2>4, <2>7, Zenon
  <2> HIDE DEF r, half
  <2>9. half = [run EXCEPT ![x] = r]
    BY DEF half
  <2>10. half[v] = run[v]
    BY <2>3, <2>9, Types
  <2> HIDE DEF u
  <2>11. run' = [half EXCEPT ![v] = u]
    BY <2>8, <2>10 DEF u
  <2>12. /\ run' \in [Attempts -> RunState] /\ run'[x] = r /\ run'[v] = u
         /\ \A y \in Attempts \ {x, v} : run'[y] = run[y]
    BY <2>3, <2>5, <2>6, <2>9, <2>11, Types
  <2> QED
    BY <2>1, <2>2, <2>3, <2>5, <2>6, <2>12 DEF Prunable, TakesOver
<1>4. slot' = Starting(x)
  BY DEF ClaimReplacement
<1>5. UNCHANGED <<ledger, process, writes, resumes, guarded>>
  BY DEF ClaimReplacement
<1> QED
  BY <1>1, <1>2, <1>3, <1>4, <1>5

\* A claim of the vacated slot is like any claim.
LEMMA ClaimVacatedEffect ==
  ASSUME Typed, NEW x \in Attempts, ClaimVacated(x)
  PROVE  /\ req[x].at = "waiting"
         /\ OneRequest(x) /\ RequestIs(req'[x], "reserved", req[x].op, NoAttempt)
         /\ OneRun(x)
         /\ RunIs(run'[x], run[x].phase, req[x].op, run[x].next, run[x].err, run[x].cancel)
         /\ Vacant
         /\ slot' = Starting(x) /\ guarded' = Rotated(req[x].op)
         /\ UNCHANGED <<ledger, process, writes, resumes>>
<1>1. req[x].at = "waiting"
  BY DEF ClaimVacated
<1>2. OneRequest(x) /\ RequestIs(req'[x], "reserved", req[x].op, NoAttempt)
  <2> DEFINE p == "reserved"
  <2>1. p \in Places
    BY DEF Places
  <2>2. req' = [req EXCEPT ![x] = [@ EXCEPT !.at = p, !.victim = NoAttempt]]
    BY Zenon DEF ClaimVacated
  <2> HIDE DEF p
  <2>3. OneRequest(x) /\ RequestIs(req'[x], p, req[x].op, NoAttempt)
    BY <2>1, <2>2, RequestReserves, Zenon
  <2> QED
    BY <2>3, Zenon DEF p
<1>3. OneRun(x) /\ RunIs(run'[x], run[x].phase, req[x].op, run[x].next, run[x].err, run[x].cancel)
  BY RunChanges, Types DEF ClaimVacated
<1>4. Vacant
  BY SeenIs, SlotsDiffer DEF ClaimVacated, Vacant, Free
<1>5. slot' = Starting(x) /\ guarded' = Rotated(req[x].op)
  BY DEF ClaimVacated
<1>6. UNCHANGED <<ledger, process, writes, resumes>>
  BY DEF ClaimVacated
<1> QED
  BY <1>1, <1>2, <1>3, <1>4, <1>5, <1>6

\* A lost claim starts over.
LEMMA LoseClaimEffect ==
  ASSUME Typed, NEW x \in Attempts, LoseClaim(x)
  PROVE  /\ req[x].at = "waiting"
         /\ OneRequest(x) /\ RequestIs(req'[x], "idle", Unknown, NoAttempt)
         /\ UNCHANGED <<slot, ledger, process, run, writes, resumes, guarded>>
<1>1. req[x].at = "waiting"
  BY DEF LoseClaim
<1>2. OneRequest(x) /\ RequestIs(req'[x], "idle", Unknown, NoAttempt)
  <2>1. Arriving \in Requests /\ RequestIs(Arriving, "idle", Unknown, NoAttempt)
    BY Types, RequestTypes DEF Arriving, RequestIs
  <2> QED
    BY <2>1, RequestSteps DEF LoseClaim
<1>3. UNCHANGED <<slot, ledger, process, run, writes, resumes, guarded>>
  BY DEF LoseClaim
<1> QED
  BY <1>1, <1>2, <1>3

\* The end of the old Run clears its marker and frees its operation.
LEMMA FinishReplacementEffect ==
  ASSUME Typed, NEW x \in Attempts, FinishReplacement(x)
  PROVE  /\ req[x].at = "superseding"
         /\ OneRequest(x) /\ RequestIs(req'[x], "reserved", req[x].op, NoAttempt)
         /\ OneRun(x)
         /\ RunIs(run'[x], run[x].phase, req[x].op, run[x].next, run[x].err, run[x].cancel)
         /\ \E v \in Attempts :
           /\ v = req[x].victim /\ IsCompleted(v) /\ run[v].err # "ambiguous"
           /\ \E w \in LedgerClear(run[v].stage, RunId(v)) : ledger' = w.rec
           /\ guarded' = IF run[v].err = "none" /\ run[v].stage = req[x].op
                       THEN guarded ELSE guarded \ {v}
         /\ UNCHANGED <<slot, process, writes, resumes>>
<1>1. req[x].at = "superseding"
  BY DEF FinishReplacement
<1>2. OneRequest(x) /\ RequestIs(req'[x], "reserved", req[x].op, NoAttempt)
  <2> DEFINE p == "reserved"
  <2>1. p \in Places
    BY DEF Places
  <2>2. req' = [req EXCEPT ![x] = [@ EXCEPT !.at = p, !.victim = NoAttempt]]
    BY Zenon DEF FinishReplacement
  <2> HIDE DEF p
  <2>3. OneRequest(x) /\ RequestIs(req'[x], p, req[x].op, NoAttempt)
    BY <2>1, <2>2, RequestReserves, Zenon
  <2> QED
    BY <2>3, Zenon DEF p
<1>3. OneRun(x) /\ RunIs(run'[x], run[x].phase, req[x].op, run[x].next, run[x].err, run[x].cancel)
  BY RunChanges, Types DEF FinishReplacement
<1>4. \E v \in Attempts :
      /\ v = req[x].victim /\ IsCompleted(v) /\ run[v].err # "ambiguous"
      /\ \E w \in LedgerClear(run[v].stage, RunId(v)) : ledger' = w.rec
      /\ guarded' = IF run[v].err = "none" /\ run[v].stage = req[x].op
                    THEN guarded ELSE guarded \ {v}
  BY Types DEF FinishReplacement
<1>5. UNCHANGED <<slot, process, writes, resumes>>
  BY DEF FinishReplacement
<1> QED
  BY <1>1, <1>2, <1>3, <1>4, <1>5

\* An old Run that does not end leaves an ambiguity tombstone.
LEMMA AbandonReplacementEffect ==
  ASSUME Typed, NEW x \in Attempts, AbandonReplacement(x)
  PROVE  /\ req[x].at = "superseding"
         /\ OneRequest(x) /\ RequestIs(req'[x], "done", Unknown, NoAttempt)
         /\ \E v \in Attempts :
           /\ v = req[x].victim /\ slot' = Ambiguous(run[v].stage)
           /\ \E w \in LedgerAmbiguous(run[v].stage, RunId(v)) : ledger' = w.rec
         /\ UNCHANGED <<process, run, writes, resumes, guarded>>
  BY RequestLeaves, Types DEF AbandonReplacement

\* The durable claim goes on, or releases the reservation.
LEMMA BeginDurableEffect ==
  ASSUME Typed, NEW x \in Attempts, BeginDurable(x)
  PROVE  /\ req[x].at = "reserved"
         /\ \E w \in LedgerClaim(req[x].op, Res(x)) :
           /\ ledger' = w.rec /\ guarded' = AfterClaim(w.rec)
           /\ \/ /\ w.ans = "yes" /\ OneRequest(x) /\ RequestIs(req'[x], "prepared", req[x].op,
                                                                req[x].victim)
                 /\ UNCHANGED <<slot, writes>>
              \/ /\ w.ans # "yes" /\ OneRequest(x) /\ RequestIs(req'[x], "done", Unknown, NoAttempt)
                 /\ slot' = Free
                 /\ writes' = writes
                               \cup {[call |-> "clear", fp |-> req[x].op, owner |-> Res(x),
                                      cancels |-> NoAttempt]}
         /\ UNCHANGED <<process, run, resumes>>
<1>1. req[x].at = "reserved"
  BY DEF BeginDurable
<1>2. \E w \in LedgerClaim(req[x].op, Res(x)) :
      /\ ledger' = w.rec /\ guarded' = AfterClaim(w.rec)
      /\ \/ /\ w.ans = "yes" /\ OneRequest(x) /\ RequestIs(req'[x], "prepared", req[x].op,
                                                           req[x].victim)
            /\ UNCHANGED <<slot, writes>>
         \/ /\ w.ans # "yes" /\ OneRequest(x) /\ RequestIs(req'[x], "done", Unknown, NoAttempt)
            /\ slot' = Free
            /\ writes' = writes
                          \cup {[call |-> "clear", fp |-> req[x].op, owner |-> Res(x),
                                 cancels |-> NoAttempt]}
  <2>1. PICK w \in LedgerClaim(req[x].op, Res(x)) :
          /\ ledger' = w.rec /\ guarded' = AfterClaim(w.rec)
          /\ IF w.ans = "yes"
             THEN req' = [req EXCEPT ![x].at = "prepared"] /\ UNCHANGED <<slot, writes>>
             ELSE Release(x)
    BY DEF BeginDurable
  <2>2. CASE w.ans = "yes"
    BY <2>1, <2>2, RequestAdvances DEF Places
  <2>3. CASE w.ans # "yes"
    BY <2>1, <2>3, RequestLeaves DEF Release, Queue
  <2> QED
    BY <2>2, <2>3
<1>3. UNCHANGED <<process, run, resumes>>
  BY DEF BeginDurable
<1> QED
  BY <1>1, <1>2, <1>3

\* A withdrawal releases the reservation.
LEMMA WithdrawEffect ==
  ASSUME Typed, NEW x \in Attempts, Withdraw(x)
  PROVE  /\ req[x].at = "prepared"
         /\ OneRequest(x) /\ RequestIs(req'[x], "done", Unknown, NoAttempt)
         /\ slot' = Free
         /\ writes' = writes
                       \cup {[call |-> "clear", fp |-> req[x].op, owner |-> Res(x),
                              cancels |-> NoAttempt]}
         /\ UNCHANGED <<ledger, process, run, resumes, guarded>>
  BY RequestLeaves DEF Withdraw, Release, Queue

\* A dispatch guards the operation, or releases the reservation.
LEMMA DispatchEffect ==
  ASSUME Typed, NEW x \in Attempts, Dispatch(x)
  PROVE  /\ req[x].at = "prepared"
         /\ \E w \in LedgerDispatch(req[x].op, Res(x)) :
           /\ ledger' = w.rec
           /\ \/ /\ w.ans = "yes" /\ OneRequest(x) /\ RequestIs(req'[x], "dispatched", req[x].op,
                                                                req[x].victim)
                 /\ guarded' = guarded \cup {x} /\ UNCHANGED <<slot, writes>>
              \/ /\ w.ans # "yes" /\ OneRequest(x) /\ RequestIs(req'[x], "done", Unknown, NoAttempt)
                 /\ slot' = Free /\ guarded' = guarded
                 /\ writes' = writes
                               \cup {[call |-> "clear", fp |-> req[x].op, owner |-> Res(x),
                                      cancels |-> NoAttempt]}
         /\ UNCHANGED <<process, run, resumes>>
<1>1. req[x].at = "prepared"
  BY DEF Dispatch
<1>2. \E w \in LedgerDispatch(req[x].op, Res(x)) :
      /\ ledger' = w.rec
      /\ \/ /\ w.ans = "yes" /\ OneRequest(x) /\ RequestIs(req'[x], "dispatched", req[x].op,
                                                           req[x].victim)
            /\ guarded' = guarded \cup {x} /\ UNCHANGED <<slot, writes>>
         \/ /\ w.ans # "yes" /\ OneRequest(x) /\ RequestIs(req'[x], "done", Unknown, NoAttempt)
            /\ slot' = Free /\ guarded' = guarded
            /\ writes' = writes
                          \cup {[call |-> "clear", fp |-> req[x].op, owner |-> Res(x),
                                 cancels |-> NoAttempt]}
  <2>1. PICK w \in LedgerDispatch(req[x].op, Res(x)) :
          /\ ledger' = w.rec
          /\ IF w.ans = "yes"
             THEN /\ req' = [req EXCEPT ![x].at = "dispatched"]
                  /\ guarded' = guarded \cup {x} /\ UNCHANGED <<slot, writes>>
             ELSE Release(x) /\ UNCHANGED guarded
    BY DEF Dispatch
  <2>2. CASE w.ans = "yes"
    BY <2>1, <2>2, RequestAdvances DEF Places
  <2>3. CASE w.ans # "yes"
    BY <2>1, <2>3, RequestLeaves DEF Release, Queue
  <2> QED
    BY <2>2, <2>3
<1>3. UNCHANGED <<process, run, resumes>>
  BY DEF Dispatch
<1> QED
  BY <1>1, <1>2, <1>3

\* A rejected open releases the reservation and its operation.
LEMMA OpenRejectedEffect ==
  ASSUME Typed, NEW x \in Attempts, OpenRejected(x)
  PROVE  /\ req[x].at = "dispatched"
         /\ OneRequest(x) /\ RequestIs(req'[x], "done", Unknown, NoAttempt)
         /\ slot' = Free /\ guarded' = guarded \ {x}
         /\ writes' = writes
                       \cup {[call |-> "clear", fp |-> req[x].op, owner |-> Res(x),
                              cancels |-> NoAttempt]}
         /\ UNCHANGED <<ledger, process, run, resumes>>
  BY RequestLeaves DEF OpenRejected, Release, Queue

\* An open of unknown acceptance leaves an ambiguity tombstone.
LEMMA OpenUnknownEffect ==
  ASSUME Typed, NEW x \in Attempts, OpenUnknown(x)
  PROVE  /\ req[x].at = "dispatched"
         /\ OneRequest(x) /\ RequestIs(req'[x], "done", Unknown, NoAttempt)
         /\ slot' = Ambiguous(req[x].op)
         /\ writes' = writes
                       \cup {[call |-> "ambiguous", fp |-> req[x].op, owner |-> Res(x),
                              cancels |-> NoAttempt]}
         /\ UNCHANGED <<ledger, process, run, resumes, guarded>>
  BY RequestLeaves DEF OpenUnknown, Seal, Queue

\* A dropped takeover seals the operation of the old Run.
LEMMA DropReplacementEffect ==
  ASSUME Typed, NEW x \in Attempts, DropReplacement(x)
  PROVE  /\ req[x].at = "superseding"
         /\ OneRequest(x) /\ RequestIs(req'[x], "done", Unknown, NoAttempt)
         /\ slot' = Ambiguous(run[x].stage)
         /\ \E v \in Attempts : v = req[x].victim
           /\ writes' = writes
                         \cup {[call |-> "ambiguous", fp |-> run[x].stage, owner |-> RunId(v),
                                cancels |-> NoAttempt]}
         /\ UNCHANGED <<ledger, process, run, resumes, guarded>>
  BY RequestLeaves, Types DEF DropReplacement, Seal, Queue

\* An open starts the Run of x.
LEMMA OpenSucceedsEffect ==
  ASSUME Typed, NEW x \in Attempts, OpenSucceeds(x)
  PROVE  /\ req[x].at = "dispatched"
         /\ OneRequest(x) /\ RequestIs(req'[x], "inserting", req[x].op, req[x].victim)
         /\ OneRun(x) /\ RunIs(run'[x], "live", req[x].op, Unknown, "none", FALSE)
         /\ UNCHANGED <<slot, ledger, process, writes, resumes, guarded>>
<1>1. req[x].at = "dispatched"
  BY DEF OpenSucceeds
<1>2. OneRequest(x) /\ RequestIs(req'[x], "inserting", req[x].op, req[x].victim)
  BY RequestAdvances DEF OpenSucceeds, Places
<1>3. OneRun(x) /\ RunIs(run'[x], "live", req[x].op, Unknown, "none", FALSE)
  <2> DEFINE s == [NoRun EXCEPT !.phase = "live"]
  <2>1. s \in RunState /\ RunIs(s, "live", Unknown, Unknown, "none", FALSE)
    BY NoRunType, RunTypes DEF NoRun, RunIs, Phases, Serving
  <2>2. [NoRun EXCEPT !.phase = "live", !.stage = req[x].op] = [s EXCEPT !.stage = req[x].op]
    OBVIOUS
  <2> HIDE DEF s
  <2> DEFINE u == [s EXCEPT !.stage = req[x].op]
  <2>3. u \in RunState /\ RunIs(u, "live", req[x].op, Unknown, "none", FALSE)
    BY <2>1, Types DEF RunState, RunIs
  <2>4. run' = [run EXCEPT ![x] = u]
    BY <2>2, Zenon DEF OpenSucceeds
  <2> HIDE DEF u
  <2> QED
    BY <2>3, <2>4, RunSteps
<1>4. UNCHANGED <<slot, ledger, process, writes, resumes, guarded>>
  BY DEF OpenSucceeds
<1> QED
  BY <1>1, <1>2, <1>3, <1>4

\* The marker passes to the Run, or the Run is orphaned.
LEMMA InsertTransferEffect ==
  ASSUME Typed, NEW x \in Attempts, InsertTransfer(x)
  PROVE  /\ req[x].at = "inserting"
         /\ \E w \in LedgerTransfer(req[x].op, Res(x), RunId(x)) :
           /\ ledger' = w.rec
           /\ \/ /\ w.ans = "yes" /\ OneRequest(x) /\ RequestIs(req'[x], "transferred", req[x].op,
                                                                req[x].victim)
                 /\ UNCHANGED <<run, writes>>
              \/ /\ w.ans # "yes" /\ OneRequest(x) /\ RequestIs(req'[x], "orphaned", req[x].op,
                                                                req[x].victim)
                 /\ OneRun(x)
                 /\ RunIs(run'[x], run[x].phase, run[x].stage, run[x].next,
                          IF run[x].err = "none" THEN "ambiguous" ELSE run[x].err, run[x].cancel)
                 /\ writes' = writes
                               \cup {[call |-> "ambiguous", fp |-> req[x].op, owner |-> Res(x),
                                      cancels |-> NoAttempt]}
         /\ UNCHANGED <<slot, process, resumes, guarded>>
<1>1. req[x].at = "inserting"
  BY DEF InsertTransfer
<1>2. \E w \in LedgerTransfer(req[x].op, Res(x), RunId(x)) :
      /\ ledger' = w.rec
      /\ \/ /\ w.ans = "yes" /\ OneRequest(x) /\ RequestIs(req'[x], "transferred", req[x].op,
                                                           req[x].victim)
            /\ UNCHANGED <<run, writes>>
         \/ /\ w.ans # "yes" /\ OneRequest(x) /\ RequestIs(req'[x], "orphaned", req[x].op,
                                                           req[x].victim)
            /\ OneRun(x)
            /\ RunIs(run'[x], run[x].phase, run[x].stage, run[x].next,
                     IF run[x].err = "none" THEN "ambiguous" ELSE run[x].err, run[x].cancel)
            /\ writes' = writes
                          \cup {[call |-> "ambiguous", fp |-> req[x].op, owner |-> Res(x),
                                 cancels |-> NoAttempt]}
  <2>1. PICK w \in LedgerTransfer(req[x].op, Res(x), RunId(x)) :
          /\ ledger' = w.rec
          /\ IF w.ans = "yes"
             THEN req' = [req EXCEPT ![x].at = "transferred"] /\ UNCHANGED <<run, writes>>
             ELSE /\ req' = [req EXCEPT ![x].at = "orphaned"]
                  /\ run' = [run EXCEPT ![x] = Failed(@, "ambiguous")]
                  /\ Queue("ambiguous", req[x].op, Res(x), NoAttempt)
    BY DEF InsertTransfer
  <2>2. CASE w.ans = "yes"
    BY <2>1, <2>2, RequestAdvances DEF Places
  <2>3. CASE w.ans # "yes"
    <3>1. OneRequest(x) /\ RequestIs(req'[x], "orphaned", req[x].op, req[x].victim)
      BY <2>1, <2>3, RequestAdvances DEF Places
    <3>2. /\ OneRun(x)
          /\ RunIs(run'[x], run[x].phase, run[x].stage, run[x].next,
                   IF run[x].err = "none" THEN "ambiguous" ELSE run[x].err, run[x].cancel)
      BY <2>1, <2>3, RunFails DEF Errors
    <3> QED
      BY <2>1, <2>3, <3>1, <3>2 DEF Queue
  <2> QED
    BY <2>2, <2>3
<1>3. UNCHANGED <<slot, process, resumes, guarded>>
  BY DEF InsertTransfer
<1> QED
  BY <1>1, <1>2, <1>3

\* The Run of x takes the place of its reservation.
LEMMA InsertPublishEffect ==
  ASSUME Typed, NEW x \in Attempts, InsertPublish(x)
  PROVE  /\ req[x].at = "transferred"
         /\ OneRequest(x) /\ RequestIs(req'[x], "published", req[x].op, req[x].victim)
         /\ slot' = Running(x)
         /\ UNCHANGED <<ledger, process, run, writes, resumes, guarded>>
  BY RequestAdvances DEF InsertPublish, Places

\* A Run that completed early is sealed again.
LEMMA InsertResealEffect ==
  ASSUME Typed, NEW x \in Attempts, InsertReseal(x)
  PROVE  /\ req[x].at = "published"
         /\ OneRequest(x) /\ RequestIs(req'[x], "serving", req[x].op, req[x].victim)
         /\ \/ /\ run[x].phase = "completed" /\ run[x].err = "none" /\ slot = Running(x)
               /\ OneRun(x)
               /\ RunIs(run'[x], "resealing", run[x].stage, run[x].next, run[x].err, run[x].cancel)
            \/ /\ ~(run[x].phase = "completed" /\ run[x].err = "none" /\ slot = Running(x))
               /\ run' = run
         /\ UNCHANGED <<slot, ledger, process, writes, resumes, guarded>>
  BY RequestAdvances, RunChanges DEF InsertReseal, Places, Phases, Sealing

\* A Run that is given up is cancelled.
LEMMA GiveUpEffect ==
  ASSUME Typed, NEW x \in Attempts, GiveUp(x)
  PROVE  /\ req[x].at = "orphaned" \/ (req[x].at = "serving" /\ run[x].err # "none")
         /\ OneRequest(x) /\ RequestIs(req'[x], "done", Unknown, NoAttempt)
         /\ OneRun(x) /\ RunIs(run'[x], run[x].phase, run[x].stage, run[x].next, run[x].err, TRUE)
         /\ UNCHANGED <<slot, ledger, process, writes, resumes, guarded>>
  BY RequestLeaves, RunChanges DEF GiveUp

\* A driver ends with an error.
LEMMA DriverFailsEffect ==
  ASSUME Typed, NEW x \in Attempts, NEW err \in Errors \ {"none"}, DriverFails(x, err)
  PROVE  /\ run[x].phase = "live"
         /\ EndsRun(x, err)
         /\ UNCHANGED <<slot, ledger, process, req, writes, resumes>>
  BY RunFinishes DEF DriverFails, Errors

\* A cancelled driver ends.
LEMMA DriverCancelledEffect ==
  ASSUME Typed, NEW x \in Attempts, NEW err \in {"other", "ambiguous"}, DriverCancelled(x, err)
  PROVE  /\ run[x].phase = "live" /\ run[x].next = Unknown
         /\ EndsRun(x, err)
         /\ UNCHANGED <<slot, ledger, process, req, writes, resumes>>
  BY RunFinishes DEF DriverCancelled, Errors

\* A driver ends well.
LEMMA DriverFinishesEffect ==
  ASSUME Typed, NEW x \in Attempts, DriverFinishes(x)
  PROVE  /\ run[x].phase = "live" /\ (EarlyFinish \/ req[x].at \notin {"inserting", "transferred"})
         /\ EndsRun(x, "none")
         /\ UNCHANGED <<slot, ledger, process, req, writes, resumes>>
  BY RunFinishes DEF DriverFinishes, Errors

\* The seal is tried where the Run is healthy and in the slot.
LEMMA SealLookupEffect ==
  ASSUME Typed, NEW x \in Attempts, SealLookup(x)
  PROVE  /\ run[x].phase = "ending"
         /\ OneRun(x)
         /\ RunIs(run'[x], IF run[x].err = "none" /\ slot = Running(x) THEN "sealing" ELSE "sealed",
                  run[x].stage, run[x].next, run[x].err, run[x].cancel)
         /\ UNCHANGED <<slot, ledger, process, req, writes, resumes, guarded>>
  BY RunChanges DEF SealLookup, Phases, Sealing

\* The record completes the operation, or the Run ends ambiguously.
LEMMA SealLedgerEffect ==
  ASSUME Typed, NEW x \in Attempts, SealLedger(x)
  PROVE  /\ run[x].phase \in Sealing
         /\ \E w \in LedgerComplete(run[x].stage, RunId(x)) :
           /\ ledger' = w.rec
           /\ \/ /\ w.ans = "yes" /\ UNCHANGED writes
                 /\ \E p \in Publishing :
                      /\ run[x].phase = "sealing" => p = "publishing"
                      /\ OneRun(x)
                      /\ RunIs(run'[x], p, run[x].stage, run[x].next, run[x].err, run[x].cancel)
              \/ /\ w.ans # "yes"
                 /\ \E p \in {"sealed", "completed"} :
                      /\ OneRun(x)
                      /\ RunIs(run'[x], p, run[x].stage, run[x].next,
                               IF run[x].err = "none" THEN "ambiguous" ELSE run[x].err, run[x].cancel)
                 /\ writes' = writes
                               \cup {[call |-> "ambiguous", fp |-> run[x].stage,
                                      owner |-> RunId(x), cancels |-> NoAttempt]}
         /\ UNCHANGED <<slot, process, req, resumes, guarded>>
<1>1. run[x].phase \in Sealing
  BY DEF SealLedger
<1>2. \E w \in LedgerComplete(run[x].stage, RunId(x)) :
      /\ ledger' = w.rec
      /\ \/ /\ w.ans = "yes" /\ UNCHANGED writes
            /\ \E p \in Publishing :
                 /\ run[x].phase = "sealing" => p = "publishing"
                 /\ OneRun(x)
                 /\ RunIs(run'[x], p, run[x].stage, run[x].next, run[x].err, run[x].cancel)
         \/ /\ w.ans # "yes"
            /\ \E p \in {"sealed", "completed"} :
                 /\ OneRun(x)
                 /\ RunIs(run'[x], p, run[x].stage, run[x].next,
                          IF run[x].err = "none" THEN "ambiguous" ELSE run[x].err, run[x].cancel)
            /\ writes' = writes
                          \cup {[call |-> "ambiguous", fp |-> run[x].stage, owner |-> RunId(x),
                                 cancels |-> NoAttempt]}
  <2>1. PICK w \in LedgerComplete(run[x].stage, RunId(x)) :
          /\ ledger' = w.rec
          /\ IF w.ans = "yes"
             THEN /\ run' = [run EXCEPT ![x].phase =
                       IF run[x].phase = "sealing" THEN "publishing" ELSE "republishing"]
                  /\ UNCHANGED writes
             ELSE /\ run' = [run EXCEPT ![x] = [Failed(@, "ambiguous") EXCEPT !.phase =
                       IF run[x].phase = "sealing" THEN "sealed" ELSE "completed"]]
                  /\ Queue("ambiguous", run[x].stage, RunId(x), NoAttempt)
    BY Zenon DEF SealLedger
  <2>2. CASE w.ans = "yes"
    <3>1. PICK p \in Publishing :
            /\ run[x].phase = "sealing" => p = "publishing"
            /\ run' = [run EXCEPT ![x].phase = p]
      BY <2>1, <2>2 DEF Publishing
    <3>2. OneRun(x) /\ RunIs(run'[x], p, run[x].stage, run[x].next, run[x].err, run[x].cancel)
      BY <3>1, RunChanges DEF Phases
    <3> QED
      BY <2>1, <2>2, <3>1, <3>2
  <2>3. CASE w.ans # "yes"
    <3> DEFINE p == IF run[x].phase = "sealing" THEN "sealed" ELSE "completed"
    <3>1. p \in {"sealed", "completed"} /\ p \in Phases
      BY DEF Phases
    <3> DEFINE e == "ambiguous"
    <3>2. run' = [run EXCEPT ![x] = [Failed(@, e) EXCEPT !.phase = p]]
      BY <2>1, <2>3, Zenon
    <3>e. e \in Errors
      BY DEF Errors
    <3> HIDE DEF p, e
    <3>3. /\ OneRun(x)
          /\ RunIs(run'[x], p, run[x].stage, run[x].next,
                   IF run[x].err = "none" THEN e ELSE run[x].err, run[x].cancel)
      BY <3>1, <3>2, <3>e, RunStops, Zenon
    <3>4. writes' = writes \cup {[call |-> "ambiguous", fp |-> run[x].stage,
                                  owner |-> RunId(x), cancels |-> NoAttempt]}
      BY <2>1, <2>3, Zenon DEF Queue
    <3> QED
      BY <2>1, <2>3, <3>1, <3>3, <3>4, Zenon DEF e
  <2> QED
    BY <2>2, <2>3
<1>3. UNCHANGED <<slot, process, req, resumes, guarded>>
  BY DEF SealLedger
<1> QED
  BY <1>1, <1>2, <1>3

\* A seal replaces the Run in the slot by its tombstone.
LEMMA SealSlotEffect ==
  ASSUME Typed, NEW x \in Attempts, SealSlot(x)
  PROVE  /\ run[x].phase \in Publishing
         /\ OneRun(x)
         /\ RunIs(run'[x], IF run[x].phase = "publishing" THEN "sealed" ELSE "completed",
                  run[x].stage, run[x].next, run[x].err, run[x].cancel)
         /\ slot' = IF slot = Running(x) THEN Succeeded(x, run[x].stage) ELSE slot
         /\ UNCHANGED <<ledger, process, req, writes, resumes, guarded>>
  BY RunChanges DEF SealSlot, Phases

\* The end is published.
LEMMA CompleteEffect ==
  ASSUME Typed, NEW x \in Attempts, Complete(x)
  PROVE  /\ run[x].phase = "sealed"
         /\ OneRun(x)
         /\ RunIs(run'[x], "completed", run[x].stage, run[x].next, run[x].err, run[x].cancel)
         /\ UNCHANGED <<slot, ledger, process, req, writes, resumes, guarded>>
  BY RunChanges DEF Complete, Phases

\* Tool results nobody waits for are dropped.
LEMMA SkipResumeEffect ==
  ASSUME Typed, NEW x \in Attempts, SkipResume(x)
  PROVE  /\ run[x].phase = "live" /\ run[x].next # Unknown
         /\ OneRun(x)
         /\ RunIs(run'[x], run[x].phase, run[x].stage, Unknown, run[x].err, run[x].cancel)
         /\ UNCHANGED <<slot, ledger, process, req, writes, resumes, guarded>>
  BY RunChanges, LiveRegistryAssumption DEF SkipResume

\* The record moves to the next stage, or the Run ends, or the results are refused.
LEMMA PrepareStageEffect ==
  ASSUME Typed, NEW x \in Attempts, PrepareStage(x)
  PROVE  /\ run[x].phase = "live" /\ run[x].next # Unknown
         /\ \E w \in LedgerPrepareStage(RunId(x), run[x].stage, run[x].next) :
           /\ ledger' = w.rec
           /\ \/ /\ w.ans = "yes" /\ guarded' = guarded
                 /\ OneRun(x)
                 /\ RunIs(run'[x], "prepared", run[x].stage, run[x].next, run[x].err, run[x].cancel)
              \/ w.ans = "no" /\ EndsRun(x, "ambiguous")
              \/ /\ w.ans = "error" /\ guarded' = guarded
                 /\ OneRun(x)
                 /\ RunIs(run'[x], run[x].phase, run[x].stage, Unknown, run[x].err, run[x].cancel)
         /\ UNCHANGED <<slot, process, req, writes, resumes>>
<1>1. run[x].phase = "live" /\ run[x].next # Unknown
  BY DEF PrepareStage
<1>2. \E w \in LedgerPrepareStage(RunId(x), run[x].stage, run[x].next) :
      /\ ledger' = w.rec
      /\ \/ /\ w.ans = "yes" /\ guarded' = guarded
            /\ OneRun(x)
            /\ RunIs(run'[x], "prepared", run[x].stage, run[x].next, run[x].err, run[x].cancel)
         \/ w.ans = "no" /\ EndsRun(x, "ambiguous")
         \/ /\ w.ans = "error" /\ guarded' = guarded
            /\ OneRun(x)
            /\ RunIs(run'[x], run[x].phase, run[x].stage, Unknown, run[x].err, run[x].cancel)
  <2>1. PICK w \in LedgerPrepareStage(RunId(x), run[x].stage, run[x].next) :
          /\ ledger' = w.rec
          /\ \/ /\ w.ans = "yes" /\ guarded' = guarded
                /\ run' = [run EXCEPT ![x].phase = "prepared"]
             \/ w.ans = "no" /\ Ends(x, "ambiguous")
             \/ /\ w.ans = "error" /\ guarded' = guarded
                /\ run' = [run EXCEPT ![x].next = Unknown]
    BY DEF PrepareStage
  <2>2. CASE w.ans = "yes"
    BY <2>1, <2>2, RunChanges DEF Phases, Serving
  <2>3. CASE w.ans = "no"
    BY <2>1, <2>3, RunFinishes DEF Errors
  <2>4. CASE w.ans = "error"
    BY <2>1, <2>4, RunChanges, LiveRegistryAssumption
  <2> QED
    BY <2>1, <2>2, <2>3, <2>4
<1>3. UNCHANGED <<slot, process, req, writes, resumes>>
  BY DEF PrepareStage
<1> QED
  BY <1>1, <1>2, <1>3

\* A stage is sent, or not.
LEMMA DispatchStageEffect ==
  ASSUME Typed, NEW x \in Attempts, DispatchStage(x)
  PROVE  /\ run[x].phase = "prepared"
         /\ \E w \in LedgerDispatch(run[x].next, RunId(x)) :
           /\ ledger' = w.rec
           /\ \/ /\ w.ans = "yes"
                 /\ OneRun(x)
                 /\ RunIs(run'[x], "staged", run[x].stage, run[x].next, run[x].err, run[x].cancel)
              \/ /\ w.ans # "yes"
                 /\ OneRun(x)
                 /\ RunIs(run'[x], "unsent", run[x].stage, run[x].next, run[x].err, run[x].cancel)
         /\ UNCHANGED <<slot, process, req, writes, resumes, guarded>>
<1>1. run[x].phase = "prepared"
  BY DEF DispatchStage
<1>2. \E w \in LedgerDispatch(run[x].next, RunId(x)) :
      /\ ledger' = w.rec
      /\ \/ /\ w.ans = "yes"
            /\ OneRun(x)
            /\ RunIs(run'[x], "staged", run[x].stage, run[x].next, run[x].err, run[x].cancel)
         \/ /\ w.ans # "yes"
            /\ OneRun(x)
            /\ RunIs(run'[x], "unsent", run[x].stage, run[x].next, run[x].err, run[x].cancel)
  <2>1. PICK w \in LedgerDispatch(run[x].next, RunId(x)) :
          /\ ledger' = w.rec
          /\ run' = [run EXCEPT ![x].phase = IF w.ans = "yes" THEN "staged" ELSE "unsent"]
    BY DEF DispatchStage
  <2>2. CASE w.ans = "yes"
    BY <2>1, <2>2, RunChanges DEF Phases, Serving
  <2>3. CASE w.ans # "yes"
    BY <2>1, <2>3, RunChanges DEF Phases, Serving
  <2> QED
    BY <2>2, <2>3
<1>3. UNCHANGED <<slot, process, req, writes, resumes, guarded>>
  BY DEF DispatchStage
<1> QED
  BY <1>1, <1>2, <1>3

\* The Run takes over the next stage.
LEMMA AcceptStageEffect ==
  ASSUME Typed, NEW x \in Attempts, AcceptStage(x)
  PROVE  /\ run[x].phase = "staged"
         /\ OneRun(x)
         /\ RunIs(run'[x], "accepted", run[x].next, run[x].stage, run[x].err, run[x].cancel)
         /\ UNCHANGED <<slot, ledger, process, req, writes, resumes, guarded>>
<1>1. run[x].phase = "staged"
  BY DEF AcceptStage
<1>2. OneRun(x) /\ RunIs(run'[x], "accepted", run[x].next, run[x].stage, run[x].err, run[x].cancel)
  <2> DEFINE p == "accepted"
  <2>1. p \in Phases /\ run[x].stage \in Fingerprints /\ run[x].next \in Fingerprints
    BY Types DEF Phases, Serving
  <2>2. run' = [run EXCEPT ![x] = [@ EXCEPT !.phase = p, !.stage = run[x].next, !.next = run[x].stage]]
    BY Zenon DEF AcceptStage
  <2> HIDE DEF p
  <2>3. OneRun(x) /\ RunIs(run'[x], p, run[x].next, run[x].stage, run[x].err, run[x].cancel)
    BY <2>1, <2>2, RunMoves, Zenon
  <2> QED
    BY <2>3, Zenon DEF p
<1>3. UNCHANGED <<slot, ledger, process, req, writes, resumes, guarded>>
  BY DEF AcceptStage
<1> QED
  BY <1>1, <1>2, <1>3

\* The Run goes back to the stage before.
LEMMA RevokeStageEffect ==
  ASSUME Typed, NEW x \in Attempts, RevokeStage(x)
  PROVE  /\ run[x].phase = "accepted"
         /\ OneRun(x)
         /\ RunIs(run'[x], "unacked", run[x].next, run[x].stage, run[x].err, run[x].cancel)
         /\ UNCHANGED <<slot, ledger, process, req, writes, resumes, guarded>>
<1>1. run[x].phase = "accepted"
  BY DEF RevokeStage
<1>2. OneRun(x) /\ RunIs(run'[x], "unacked", run[x].next, run[x].stage, run[x].err, run[x].cancel)
  <2> DEFINE p == "unacked"
  <2>1. p \in Phases /\ run[x].stage \in Fingerprints /\ run[x].next \in Fingerprints
    BY Types DEF Phases, Serving
  <2>2. run' = [run EXCEPT ![x] = [@ EXCEPT !.phase = p, !.stage = run[x].next, !.next = run[x].stage]]
    BY Zenon DEF RevokeStage
  <2> HIDE DEF p
  <2>3. OneRun(x) /\ RunIs(run'[x], p, run[x].next, run[x].stage, run[x].err, run[x].cancel)
    BY <2>1, <2>2, RunMoves, Zenon
  <2> QED
    BY <2>3, Zenon DEF p
<1>3. UNCHANGED <<slot, ledger, process, req, writes, resumes, guarded>>
  BY DEF RevokeStage
<1> QED
  BY <1>1, <1>2, <1>3

\* The waiter has the stage.
LEMMA AcknowledgeStageEffect ==
  ASSUME Typed, NEW x \in Attempts, AcknowledgeStage(x)
  PROVE  /\ run[x].phase = "accepted"
         /\ OneRun(x) /\ RunIs(run'[x], "live", run[x].stage, Unknown, run[x].err, run[x].cancel)
         /\ UNCHANGED <<slot, ledger, process, req, writes, resumes, guarded>>
<1>1. run[x].phase = "accepted"
  BY DEF AcknowledgeStage
<1>2. OneRun(x) /\ RunIs(run'[x], "live", run[x].stage, Unknown, run[x].err, run[x].cancel)
  <2> DEFINE p == "live"
  <2>1. p \in Phases /\ Unknown \in Fingerprints
    BY LiveRegistryAssumption DEF Phases, Serving
  <2>2. run' = [run EXCEPT ![x] = [@ EXCEPT !.phase = p, !.next = Unknown]]
    BY Zenon DEF AcknowledgeStage
  <2> HIDE DEF p
  <2>3. OneRun(x) /\ RunIs(run'[x], p, run[x].stage, Unknown, run[x].err, run[x].cancel)
    BY <2>1, <2>2, RunGoesOn, Zenon
  <2> QED
    BY <2>3, Zenon DEF p
<1>3. UNCHANGED <<slot, ledger, process, req, writes, resumes, guarded>>
  BY DEF AcknowledgeStage
<1> QED
  BY <1>1, <1>2, <1>3

\* The record goes back a stage, or the Run ends.
LEMMA RollbackStageEffect ==
  ASSUME Typed, NEW x \in Attempts, RollbackStage(x)
  PROVE  /\ run[x].phase \in {"unsent", "unacked"}
         /\ \E w \in LedgerRollback(RunId(x), run[x].next, run[x].stage) :
           /\ ledger' = w.rec
           /\ \/ /\ w.ans = "yes" /\ guarded' = guarded
                 /\ OneRun(x)
                 /\ RunIs(run'[x], "live", run[x].stage, Unknown, run[x].err, run[x].cancel)
              \/ /\ w.ans # "yes"
                 /\ EndsRun(x, IF run[x].phase = "unsent" THEN "other" ELSE "ambiguous")
         /\ UNCHANGED <<slot, process, req, writes, resumes>>
<1>1. run[x].phase \in {"unsent", "unacked"}
  BY DEF RollbackStage
<1>2. \E w \in LedgerRollback(RunId(x), run[x].next, run[x].stage) :
      /\ ledger' = w.rec
      /\ \/ /\ w.ans = "yes" /\ guarded' = guarded
            /\ OneRun(x) /\ RunIs(run'[x], "live", run[x].stage, Unknown, run[x].err, run[x].cancel)
         \/ /\ w.ans # "yes"
            /\ EndsRun(x, IF run[x].phase = "unsent" THEN "other" ELSE "ambiguous")
  <2>1. PICK w \in LedgerRollback(RunId(x), run[x].next, run[x].stage) :
          /\ ledger' = w.rec
          /\ IF w.ans = "yes"
             THEN /\ run' = [run EXCEPT ![x] = [@ EXCEPT !.phase = "live", !.next = Unknown]]
                  /\ UNCHANGED guarded
             ELSE Ends(x, IF run[x].phase = "unsent" THEN "other" ELSE "ambiguous")
    BY Zenon DEF RollbackStage
  <2>2. CASE w.ans = "yes"
    <3> DEFINE p == "live"
    <3>1. p \in Phases /\ Unknown \in Fingerprints
      BY LiveRegistryAssumption DEF Phases, Serving
    <3>2. run' = [run EXCEPT ![x] = [@ EXCEPT !.phase = p, !.next = Unknown]]
      BY <2>1, <2>2, Zenon
    <3> HIDE DEF p
    <3>3. OneRun(x) /\ RunIs(run'[x], p, run[x].stage, Unknown, run[x].err, run[x].cancel)
      BY <3>1, <3>2, RunGoesOn, Zenon
    <3> QED
      BY <2>1, <2>2, <3>3, Zenon DEF p
  <2>3. CASE w.ans # "yes"
    <3> DEFINE e == IF run[x].phase = "unsent" THEN "other" ELSE "ambiguous"
    <3>1. e \in Errors
      BY DEF Errors
    <3>2. Ends(x, e)
      BY <2>1, <2>3, Zenon
    <3> HIDE DEF e
    <3>3. EndsRun(x, e)
      BY <3>1, <3>2, RunFinishes
    <3> QED
      BY <2>1, <2>3, <3>3, Zenon DEF e
  <2> QED
    BY <2>2, <2>3
<1>3. UNCHANGED <<slot, process, req, writes, resumes>>
  BY DEF RollbackStage
<1> QED
  BY <1>1, <1>2, <1>3

\* A driver is gone without a word.
LEMMA DriverVanishesEffect ==
  ASSUME Typed, NEW x \in Attempts, DriverVanishes(x)
  PROVE  /\ run[x].phase = "live"
         /\ OneRun(x)
         /\ RunIs(run'[x], "vanished", run[x].stage, run[x].next, run[x].err, run[x].cancel)
         /\ UNCHANGED <<slot, ledger, process, req, writes, resumes, guarded>>
  BY RunChanges DEF DriverVanishes, Phases

\* A consumer comes or goes.
LEMMA ConsumerMovesEffect ==
  ASSUME Typed, NEW x \in Attempts, ConsumerMoves(x)
  PROVE  /\ OneRun(x) /\ RunIs(run'[x], run[x].phase, run[x].stage, run[x].next, run[x].err,
                               run[x].cancel)
         /\ UNCHANGED <<slot, ledger, process, req, writes, resumes, guarded>>
  BY RunChanges, Types DEF ConsumerMoves

\* Tool results name an operation nobody has had.
LEMMA SendResumeEffect ==
  ASSUME Typed, NEW x \in Attempts, NEW g \in Operations, SendResume(x, g)
  PROVE  /\ run[x].phase = "live" /\ run[x].next = Unknown /\ g \in Fingerprints /\ g # Unknown
         /\ slot = Running(x) /\ ~run[x].cancel /\ run[x].err = "none"
         /\ resumes < MaxResumes /\ resumes' = resumes + 1
         /\ \A b \in Attempts : g \notin {run[b].stage, req[b].op}
         /\ OneRun(x) /\ RunIs(run'[x], run[x].phase, run[x].stage, g, run[x].err, run[x].cancel)
         /\ UNCHANGED <<slot, ledger, process, req, writes, guarded>>
  BY RunChanges DEF SendResume, Operations, Visible

\* A finished handle leaves the slot.
LEMMA PruneEffect ==
  ASSUME Typed, Prune
  PROVE  /\ \E v \in Attempts :
           /\ slot = Running(v) /\ IsCompleted(v) /\ run[v].err = "none"
         /\ slot' = Free
         /\ UNCHANGED <<ledger, process, req, run, writes, resumes, guarded>>
  BY SlotCases, Types DEF Prune, Prunable

\* A probe settles the failed Run in the slot.
LEMMA ProbeEffect ==
  ASSUME Typed, Probe
  PROVE  /\ \E v \in Attempts :
           /\ slot = Running(v)
           /\ \/ /\ \/ IsCompleted(v) /\ run[v].err = "ambiguous"
                    \/ IsCommandClosed(v) /\ run[v].err \in {"none", "ambiguous"}
                 /\ slot' = Ambiguous(run[v].stage)
                 /\ writes' = writes \cup {[call |-> "ambiguous", fp |-> run[v].stage,
                                         owner |-> RunId(v), cancels |-> NoAttempt]}
                 /\ ledger' = ledger
                 /\ OneRun(v)
                 /\ RunIs(run'[v], run[v].phase, run[v].stage, run[v].next, "none", run[v].cancel)
              \/ /\ \/ run[v].err = "retry" /\ run' = run
                    \/ /\ run[v].err = "other" /\ (IsCompleted(v) \/ IsCommandClosed(v))
                       /\ OneRun(v)
                       /\ RunIs(run'[v], run[v].phase, run[v].stage, run[v].next, "none",
                                run[v].cancel)
                 /\ slot' = Free /\ writes' = writes
                 /\ \E w \in LedgerClear(run[v].stage, RunId(v)) : ledger' = w.rec
         /\ UNCHANGED <<process, req, resumes, guarded>>
<1>1. \E v \in Attempts :
      /\ slot = Running(v)
      /\ \/ /\ \/ IsCompleted(v) /\ run[v].err = "ambiguous"
               \/ IsCommandClosed(v) /\ run[v].err \in {"none", "ambiguous"}
            /\ slot' = Ambiguous(run[v].stage)
            /\ writes' = writes \cup {[call |-> "ambiguous", fp |-> run[v].stage,
                                    owner |-> RunId(v), cancels |-> NoAttempt]}
            /\ ledger' = ledger
            /\ OneRun(v)
            /\ RunIs(run'[v], run[v].phase, run[v].stage, run[v].next, "none", run[v].cancel)
         \/ /\ \/ run[v].err = "retry" /\ run' = run
               \/ /\ run[v].err = "other" /\ (IsCompleted(v) \/ IsCommandClosed(v))
                  /\ OneRun(v)
                  /\ RunIs(run'[v], run[v].phase, run[v].stage, run[v].next, "none", run[v].cancel)
            /\ slot' = Free /\ writes' = writes
            /\ \E w \in LedgerClear(run[v].stage, RunId(v)) : ledger' = w.rec
  <2>1. PICK v \in Attempts : slot = Running(v) /\ v = slot.by
    BY Types, SlotCases DEF Probe
  <2> DEFINE err == IF run[v].err = "none" /\ IsCommandClosed(v) THEN "ambiguous" ELSE run[v].err
  <2>2. /\ IsCompleted(v) \/ IsCommandClosed(v) \/ err = "retry"
        /\ err # "none"
        /\ IF err = "ambiguous"
           THEN /\ slot' = Ambiguous(run[v].stage)
                /\ Queue("ambiguous", run[v].stage, RunId(v), NoAttempt)
                /\ ledger' = ledger
           ELSE /\ slot' = Free /\ writes' = writes
                /\ \E w \in LedgerClear(run[v].stage, RunId(v)) : ledger' = w.rec
        /\ run' = IF err = "retry" THEN run ELSE [run EXCEPT ![v].err = "none"]
    BY <2>1 DEF Probe
  <2>3. run[v].err \in Errors
    BY Types
  <2>4. run' = [run EXCEPT ![v].err = "none"] =>
          /\ OneRun(v)
          /\ RunIs(run'[v], run[v].phase, run[v].stage, run[v].next, "none", run[v].cancel)
    BY RunChanges DEF Errors
  <2> QED
    BY <2>1, <2>2, <2>3, <2>4 DEF Queue, Errors
<1>2. UNCHANGED <<process, req, resumes, guarded>>
  BY DEF Probe
<1> QED
  BY <1>1, <1>2

\* A terminal error is taken out and its marker settled later.
LEMMA TakeTerminalErrorEffect ==
  ASSUME Typed, TakeTerminalError
  PROVE  /\ \E v \in Attempts :
           /\ slot = Running(v) /\ IsCompleted(v) /\ run[v].err # "none"
           /\ slot' = IF run[v].err = "ambiguous" THEN Ambiguous(run[v].stage) ELSE Free
           /\ OneRun(v)
           /\ RunIs(run'[v], run[v].phase, run[v].stage, run[v].next, "none", run[v].cancel)
           /\ writes' = writes \cup
              {[call |-> IF run[v].err = "ambiguous" THEN "ambiguous" ELSE "clear",
                fp |-> run[v].stage, owner |-> RunId(v), cancels |-> NoAttempt]}
         /\ UNCHANGED <<ledger, process, req, resumes, guarded>>
<1>1. \E v \in Attempts :
      /\ slot = Running(v) /\ IsCompleted(v) /\ run[v].err # "none"
      /\ slot' = IF run[v].err = "ambiguous" THEN Ambiguous(run[v].stage) ELSE Free
      /\ OneRun(v) /\ RunIs(run'[v], run[v].phase, run[v].stage, run[v].next, "none", run[v].cancel)
      /\ writes' = writes \cup
           {[call |-> IF run[v].err = "ambiguous" THEN "ambiguous" ELSE "clear",
             fp |-> run[v].stage, owner |-> RunId(v), cancels |-> NoAttempt]}
  <2>1. PICK v \in Attempts : slot = Running(v) /\ v = slot.by
    BY Types, SlotCases DEF TakeTerminalError
  <2>2. run' = [run EXCEPT ![v].err = "none"]
    BY <2>1 DEF TakeTerminalError
  <2>3. OneRun(v) /\ RunIs(run'[v], run[v].phase, run[v].stage, run[v].next, "none", run[v].cancel)
    BY <2>2, RunChanges DEF Errors
  <2> QED
    BY <2>1, <2>3 DEF TakeTerminalError, Queue
<1>2. UNCHANGED <<ledger, process, req, resumes, guarded>>
  BY DEF TakeTerminalError
<1> QED
  BY <1>1, <1>2

\* A cancelled generation leaves the slot before its marker is settled.
LEMMA CancelGenerationEffect ==
  ASSUME Typed, CancelGeneration
  PROVE  /\ \E v \in Attempts :
           /\ slot = Running(v) /\ ~IsCompleted(v)
           /\ writes' = writes
                         \cup {[call |-> "ambiguous", fp |-> run[v].stage, owner |-> RunId(v),
                                cancels |-> v]}
           /\ guarded' = IF LedgerEnabled THEN guarded ELSE guarded \ {v}
         /\ slot' = Free
         /\ UNCHANGED <<ledger, process, req, run, resumes>>
  BY SlotCases, Types DEF CancelGeneration, Queue

\* A tombstone lapses with what it guarded.
LEMMA LapseEffect ==
  ASSUME Typed, Lapse
  PROVE  /\ slot.kind \in {"ambiguous", "succeeded"} /\ slot' = Free
         /\ guarded' = {b \in guarded : run[b].stage # slot.fp}
         /\ UNCHANGED <<ledger, process, req, run, writes, resumes>>
  BY DEF Lapse, Released

\* A stale error goes with its handle.
LEMMA LapseErrorEffect ==
  ASSUME Typed, LapseError
  PROVE  /\ \E v \in Attempts :
           /\ slot = Running(v) /\ IsCompleted(v) /\ run[v].err # "none"
           /\ guarded' = guarded \ {v}
         /\ slot' = Free
         /\ UNCHANGED <<ledger, process, req, run, writes, resumes>>
  BY SlotCases, Types DEF LapseError

\* A pending call changes the record and may cancel its Run.
LEMMA WriteEffect ==
  ASSUME Typed, NEW w \in writes, Write(w)
  PROVE  /\ w \in Writes /\ writes' = writes \ {w}
         /\ run' \in [Attempts -> RunState]
         /\ \A y \in Attempts :
                RunIs(run'[y], run[y].phase, run[y].stage, run[y].next, run[y].err,
                      run[y].cancel \/ y = w.cancels)
         /\ \E f \in {w.fp} \cup {run[a].stage : a \in Attempts \cap {w.cancels}} :
           \E r \in IF w.call = "clear" THEN LedgerClear(f, w.owner)
                  ELSE LedgerAmbiguous(f, w.owner) : ledger' = r.rec
         /\ UNCHANGED <<slot, process, req, resumes, guarded>>
<1>1. w \in Writes /\ writes' = writes \ {w}
  BY Types DEF Write
<1>2. run' \in [Attempts -> RunState]
  <2>1. \A y \in Attempts : [run[y] EXCEPT !.cancel = TRUE] \in RunState
    BY Types, RunTypes
  <2> QED
    BY <2>1, Types DEF Write
<1>3. \A y \in Attempts :
             RunIs(run'[y], run[y].phase, run[y].stage, run[y].next, run[y].err,
                   run[y].cancel \/ y = w.cancels)
  <2>1. \A y \in Attempts :
          RunIs([run[y] EXCEPT !.cancel = TRUE], run[y].phase, run[y].stage, run[y].next,
                run[y].err, TRUE)
    BY Types DEF RunIs, RunState
  <2>2. \A y \in Attempts :
          run'[y] = IF y = w.cancels THEN [run[y] EXCEPT !.cancel = TRUE] ELSE run[y]
    BY DEF Write
  <2> QED
    BY <2>1, <2>2, Types DEF RunIs
<1>4. \E f \in {w.fp} \cup {run[a].stage : a \in Attempts \cap {w.cancels}} :
      \E r \in IF w.call = "clear" THEN LedgerClear(f, w.owner)
               ELSE LedgerAmbiguous(f, w.owner) : ledger' = r.rec
  BY DEF Write
<1>5. UNCHANGED <<slot, process, req, resumes, guarded>>
  BY DEF Write
<1> QED
  BY <1>1, <1>2, <1>3, <1>4, <1>5

\* Only the record survives the process.
LEMMA CrashEffect ==
  ASSUME Typed, Crash
  PROVE  /\ process < MaxCrashes /\ process' = process + 1 /\ slot' = Free /\ writes' = {}
         /\ req' \in [Attempts -> Requests] /\ run' \in [Attempts -> RunState]
         /\ \A y \in Attempts :
                /\ IF req[y].at = "idle" THEN RequestIs(req'[y], "idle", Unknown, NoAttempt)
                   ELSE RequestIs(req'[y], "done", Unknown, NoAttempt)
                /\ RunIs(run'[y], "none", run[y].stage, Unknown, "none", FALSE)
         /\ guarded' = IF LedgerEnabled THEN guarded ELSE {}
         /\ UNCHANGED <<ledger, resumes>>
<1>1. process < MaxCrashes /\ process' = process + 1 /\ slot' = Free /\ writes' = {}
  BY DEF Crash
<1>2. req' \in [Attempts -> Requests] /\ run' \in [Attempts -> RunState]
  <2>1. \A y \in Attempts : [NoRun EXCEPT !.stage = run[y].stage] \in RunState
    BY Types, RunTypes, NoRunType
  <2>2. Gone \in Requests /\ Arriving \in Requests
    BY LiveRegistryAssumption DEF Requests, Gone, Arriving, Places
  <2> QED
    BY <2>1, <2>2, Types DEF Crash
<1>3. \A y \in Attempts :
             /\ IF req[y].at = "idle" THEN RequestIs(req'[y], "idle", Unknown, NoAttempt)
                ELSE RequestIs(req'[y], "done", Unknown, NoAttempt)
             /\ RunIs(run'[y], "none", run[y].stage, Unknown, "none", FALSE)
  <2>1. \A y \in Attempts :
          RunIs([NoRun EXCEPT !.stage = run[y].stage], "none", run[y].stage, Unknown, "none", FALSE)
    BY DEF RunIs, NoRun
  <2>2. /\ RequestIs(Arriving, "idle", Unknown, NoAttempt)
        /\ RequestIs(Gone, "done", Unknown, NoAttempt)
    BY DEF RequestIs, Arriving, Gone
  <2>3. \A y \in Attempts : /\ req'[y] = IF req[y].at = "idle" THEN Arriving ELSE Gone
                            /\ run'[y] = [NoRun EXCEPT !.stage = run[y].stage]
    BY DEF Crash
  <2> QED
    BY <2>1, <2>2, <2>3
<1>4. guarded' = IF LedgerEnabled THEN guarded ELSE {}
  BY DEF Crash
<1>5. UNCHANGED <<ledger, resumes>>
  BY DEF Crash
<1> QED
  BY <1>1, <1>2, <1>3, <1>4, <1>5

-----------------------------------------------------------------------------
(* Every step preserves the invariant: requests, slot and drivers.          *)

\* The types.
LEMMA StepTypes == Typed /\ (\A a \in Attempts : SlotSound(a)) /\ Next => Typed'
<1> SUFFICES ASSUME Typed, \A a \in Attempts : SlotSound(a), Next PROVE Typed'
  OBVIOUS
<1>a. build' \in Builds
  BY DEF Next, Typed, TypeOK
<1>1. ASSUME NEW x \in Attempts, NEW f \in Operations, Claim(x, f) PROVE Typed'
  BY <1>1, <1>a, Types, SlotTypes, ClaimEffect DEF Typed, TypeOK, OneRequest, RequestIs, OneRun,
     Rotated, Released
<1>2. ASSUME NEW x \in Attempts, NEW f \in Operations, Refuse(x, f) PROVE Typed'
  BY <1>2, <1>a, Types, SlotTypes, RefuseEffect DEF Typed, TypeOK, OneRequest, RequestIs, OneRun
<1>3. ASSUME NEW x \in Attempts, NEW f \in Operations, NEW results \in BOOLEAN,
             Observe(x, f, results)
      PROVE Typed'
  BY <1>3, <1>a, Types, SlotTypes, ObserveEffect DEF Typed, TypeOK, OneRequest, RequestIs,
     OneRun
<1>4. ASSUME NEW x \in Attempts, NEW results \in BOOLEAN, ClaimReplacement(x, results) PROVE Typed'
  <2>1. slot' \in Slots /\ run' \in [Attempts -> RunState]
    BY <1>4, SlotTypes, Types, ClaimReplacementEffect DEF TakesOver
  <2>2. OneRequest(x) /\ RequestIs(req'[x], "superseding", req[x].op, req[x].victim)
    BY <1>4, ClaimReplacementEffect
  <2>3. UNCHANGED <<ledger, process, writes, resumes, guarded>>
    BY <1>4 DEF ClaimReplacement
  <2> QED
    BY <1>4, <2>1, <2>2, <2>3, <1>a, Types DEF ClaimReplacement, Typed, TypeOK, OneRequest, RequestIs
<1>5. ASSUME NEW x \in Attempts, ClaimVacated(x) PROVE Typed'
  BY <1>5, <1>a, Types, SlotTypes, ClaimVacatedEffect DEF Typed, TypeOK, OneRequest, RequestIs,
     OneRun, Rotated, Released
<1>6. ASSUME NEW x \in Attempts, LoseClaim(x) PROVE Typed'
  BY <1>6, <1>a, Types, SlotTypes, LoseClaimEffect DEF Typed, TypeOK, OneRequest, RequestIs,
     OneRun
<1>7. ASSUME NEW x \in Attempts, FinishReplacement(x) PROVE Typed'
  <2>1. PICK v \in Attempts : \E w \in LedgerClear(run[v].stage, RunId(v)) : ledger' = w.rec
    BY <1>7, FinishReplacementEffect
  <2>2. ledger' \in Record
    BY <2>1, Types, CallTypes, TokenType DEF Answer
  <2> QED
    BY <1>7, <1>a, <2>2, Types, FinishReplacementEffect
       DEF Typed, TypeOK, OneRequest, RequestIs, OneRun
<1>8. ASSUME NEW x \in Attempts, AbandonReplacement(x) PROVE Typed'
  <2>1. PICK v \in Attempts :
          /\ v = req[x].victim /\ slot' = Ambiguous(run[v].stage)
          /\ \E w \in LedgerAmbiguous(run[v].stage, RunId(v)) : ledger' = w.rec
    BY <1>8, AbandonReplacementEffect
  <2>2. ledger' \in Record
    BY <2>1, Types, CallTypes, TokenType DEF Answer
  <2>3. slot' \in Slots
    BY <2>1, Types, SlotTypes
  <2> QED
    BY <1>8, <1>a, <2>2, <2>3, Types, AbandonReplacementEffect
       DEF Typed, TypeOK, OneRequest, RequestIs
<1>9. ASSUME NEW x \in Attempts, BeginDurable(x) PROVE Typed'
  <2>1. LedgerClaim(req[x].op, Res(x)) \subseteq Answer
    BY Types, CallTypes, TokenType
  <2>2. ledger' \in Record
    BY <1>9, <2>1, BeginDurableEffect DEF Answer
  <2>3. slot' \in Slots
    BY <1>9, Types, SlotTypes, BeginDurableEffect
  <2>4. writes' \subseteq Writes
    BY <1>9, Types, TokenType, BeginDurableEffect DEF Writes
  <2>5. guarded' \subseteq Attempts
    BY <1>9, Types, BeginDurableEffect DEF AfterClaim
  <2> QED
    BY <1>9, <1>a, <2>2, <2>3, <2>4, <2>5, Types, BeginDurableEffect
       DEF Typed, TypeOK, OneRequest, RequestIs, OneRun
<1>10. ASSUME NEW x \in Attempts, Withdraw(x) PROVE Typed'
  BY <1>10, <1>a, Types, SlotTypes, WithdrawEffect, TokenType DEF Typed, TypeOK, OneRequest,
     RequestIs, OneRun, Writes
<1>11. ASSUME NEW x \in Attempts, Dispatch(x) PROVE Typed'
  <2>1. LedgerDispatch(req[x].op, Res(x)) \subseteq Answer
    BY Types, CallTypes, TokenType
  <2>2. ledger' \in Record
    BY <1>11, <2>1, DispatchEffect DEF Answer
  <2>3. slot' \in Slots
    BY <1>11, Types, SlotTypes, DispatchEffect
  <2>4. writes' \subseteq Writes
    BY <1>11, Types, TokenType, DispatchEffect DEF Writes
  <2>5. guarded' \subseteq Attempts
    BY <1>11, Types, DispatchEffect DEF AfterClaim
  <2> QED
    BY <1>11, <1>a, <2>2, <2>3, <2>4, <2>5, Types, DispatchEffect
       DEF Typed, TypeOK, OneRequest, RequestIs, OneRun
<1>12. ASSUME NEW x \in Attempts, OpenRejected(x) PROVE Typed'
  BY <1>12, <1>a, Types, SlotTypes, OpenRejectedEffect, TokenType DEF Typed, TypeOK, OneRequest,
     RequestIs, OneRun, Writes
<1>13. ASSUME NEW x \in Attempts, OpenUnknown(x) PROVE Typed'
  BY <1>13, <1>a, Types, SlotTypes, OpenUnknownEffect, TokenType DEF Typed, TypeOK, OneRequest,
     RequestIs, OneRun, Writes
<1>14. ASSUME NEW x \in Attempts, DropReplacement(x) PROVE Typed'
  BY <1>14, <1>a, Types, SlotTypes, DropReplacementEffect, TokenType DEF Typed, TypeOK,
     OneRequest, RequestIs, OneRun, Writes
<1>15. ASSUME NEW x \in Attempts, OpenSucceeds(x) PROVE Typed'
  BY <1>15, <1>a, Types, SlotTypes, OpenSucceedsEffect DEF Typed, TypeOK, OneRequest, RequestIs,
     OneRun
<1>16. ASSUME NEW x \in Attempts, InsertTransfer(x) PROVE Typed'
  <2>1. LedgerTransfer(req[x].op, Res(x), RunId(x)) \subseteq Answer
    BY Types, CallTypes, TokenType
  <2>2. ledger' \in Record
    BY <1>16, <2>1, InsertTransferEffect DEF Answer
  <2>3. slot' \in Slots
    BY <1>16, Types, SlotTypes, InsertTransferEffect
  <2>4. writes' \subseteq Writes
    BY <1>16, Types, TokenType, InsertTransferEffect DEF Writes
  <2>5. guarded' \subseteq Attempts
    BY <1>16, Types, InsertTransferEffect DEF AfterClaim
  <2> QED
    BY <1>16, <1>a, <2>2, <2>3, <2>4, <2>5, Types, InsertTransferEffect
       DEF Typed, TypeOK, OneRequest, RequestIs, OneRun
<1>17. ASSUME NEW x \in Attempts, InsertPublish(x) PROVE Typed'
  BY <1>17, <1>a, Types, SlotTypes, InsertPublishEffect DEF Typed, TypeOK, OneRequest,
     RequestIs, OneRun
<1>18. ASSUME NEW x \in Attempts, InsertReseal(x) PROVE Typed'
  BY <1>18, <1>a, Types, SlotTypes, InsertResealEffect DEF Typed, TypeOK, OneRequest, RequestIs,
     OneRun
<1>19. ASSUME NEW x \in Attempts, GiveUp(x) PROVE Typed'
  BY <1>19, <1>a, Types, SlotTypes, GiveUpEffect DEF Typed, TypeOK, OneRequest, RequestIs,
     OneRun
<1>20. ASSUME NEW x \in Attempts, NEW err \in Errors \ {"none"}, DriverFails(x, err) PROVE Typed'
  BY <1>20, <1>a, Types, SlotTypes, DriverFailsEffect DEF Typed, TypeOK, OneRequest, RequestIs,
     OneRun, EndsRun
<1>21. ASSUME NEW x \in Attempts, NEW err \in {"other", "ambiguous"}, DriverCancelled(x, err)
       PROVE Typed'
  BY <1>21, <1>a, Types, SlotTypes, DriverCancelledEffect DEF Typed, TypeOK, OneRequest,
     RequestIs, OneRun, EndsRun
<1>22. ASSUME NEW x \in Attempts, DriverFinishes(x) PROVE Typed'
  BY <1>22, <1>a, Types, SlotTypes, DriverFinishesEffect DEF Typed, TypeOK, OneRequest,
     RequestIs, OneRun, EndsRun
<1>23. ASSUME NEW x \in Attempts, SealLookup(x) PROVE Typed'
  BY <1>23, <1>a, Types, SlotTypes, SealLookupEffect DEF Typed, TypeOK, OneRequest, RequestIs,
     OneRun
<1>24. ASSUME NEW x \in Attempts, SealLedger(x) PROVE Typed'
  BY <1>24, <1>a, Types, SlotTypes, SealLedgerEffect, CallTypes, TokenType DEF Typed, TypeOK,
     OneRequest, RequestIs, OneRun, Answer, Writes
<1>25. ASSUME NEW x \in Attempts, SealSlot(x) PROVE Typed'
  BY <1>25, <1>a, Types, SlotTypes, SealSlotEffect DEF Typed, TypeOK, OneRequest, RequestIs,
     OneRun
<1>26. ASSUME NEW x \in Attempts, Complete(x) PROVE Typed'
  BY <1>26, <1>a, Types, SlotTypes, CompleteEffect DEF Typed, TypeOK, OneRequest, RequestIs,
     OneRun
<1>27. ASSUME NEW x \in Attempts, SkipResume(x) PROVE Typed'
  BY <1>27, <1>a, Types, SlotTypes, SkipResumeEffect DEF Typed, TypeOK, OneRequest, RequestIs,
     OneRun
<1>28. ASSUME NEW x \in Attempts, PrepareStage(x) PROVE Typed'
  BY <1>28, <1>a, Types, SlotTypes, PrepareStageEffect, CallTypes, TokenType DEF Typed, TypeOK,
     OneRequest, RequestIs, OneRun, Answer, EndsRun
<1>29. ASSUME NEW x \in Attempts, DispatchStage(x) PROVE Typed'
  BY <1>29, <1>a, Types, SlotTypes, DispatchStageEffect, CallTypes, TokenType DEF Typed, TypeOK,
     OneRequest, RequestIs, OneRun, Answer
<1>30. ASSUME NEW x \in Attempts, AcceptStage(x) PROVE Typed'
  BY <1>30, <1>a, Types, SlotTypes, AcceptStageEffect DEF Typed, TypeOK, OneRequest, RequestIs,
     OneRun
<1>31. ASSUME NEW x \in Attempts, AcknowledgeStage(x) PROVE Typed'
  BY <1>31, <1>a, Types, SlotTypes, AcknowledgeStageEffect DEF Typed, TypeOK, OneRequest,
     RequestIs, OneRun
<1>32. ASSUME NEW x \in Attempts, RevokeStage(x) PROVE Typed'
  BY <1>32, <1>a, Types, SlotTypes, RevokeStageEffect DEF Typed, TypeOK, OneRequest, RequestIs,
     OneRun
<1>33. ASSUME NEW x \in Attempts, RollbackStage(x) PROVE Typed'
  BY <1>33, <1>a, Types, SlotTypes, RollbackStageEffect, CallTypes, TokenType DEF Typed, TypeOK,
     OneRequest, RequestIs, OneRun, Answer, EndsRun
<1>34. ASSUME NEW x \in Attempts, DriverVanishes(x) PROVE Typed'
  BY <1>34, <1>a, Types, SlotTypes, DriverVanishesEffect DEF Typed, TypeOK, OneRequest,
     RequestIs, OneRun
<1>35. ASSUME NEW x \in Attempts, ConsumerMoves(x) PROVE Typed'
  BY <1>35, <1>a, Types, SlotTypes, ConsumerMovesEffect DEF Typed, TypeOK, OneRequest,
     RequestIs, OneRun
<1>36. ASSUME NEW x \in Attempts, NEW g \in Operations, SendResume(x, g) PROVE Typed'
  BY <1>36, <1>a, Types, SlotTypes, SendResumeEffect, LiveRegistryAssumption DEF Typed, TypeOK,
     OneRequest, RequestIs, OneRun
<1>37. ASSUME Prune PROVE Typed'
  BY <1>37, <1>a, Types, SlotTypes, PruneEffect DEF Typed, TypeOK, OneRequest, RequestIs, OneRun
<1>38. ASSUME Probe PROVE Typed'
  BY <1>38, <1>a, Types, SlotTypes, ProbeEffect, CallTypes, TokenType DEF Typed, TypeOK,
     OneRequest, RequestIs, OneRun, Answer, Writes
<1>39. ASSUME TakeTerminalError PROVE Typed'
  BY <1>39, <1>a, Types, SlotTypes, TakeTerminalErrorEffect, TokenType DEF Typed, TypeOK,
     OneRequest, RequestIs, OneRun, Writes
<1>40. ASSUME CancelGeneration PROVE Typed'
  BY <1>40, <1>a, Types, SlotTypes, CancelGenerationEffect, TokenType DEF Typed, TypeOK,
     OneRequest, RequestIs, OneRun, Writes
<1>41. ASSUME Lapse PROVE Typed'
  BY <1>41, <1>a, Types, SlotTypes, LapseEffect DEF Typed, TypeOK, OneRequest, RequestIs, OneRun
<1>42. ASSUME LapseError PROVE Typed'
  BY <1>42, <1>a, Types, SlotTypes, LapseErrorEffect DEF Typed, TypeOK, OneRequest, RequestIs,
     OneRun
<1>43. ASSUME NEW w \in writes, Write(w) PROVE Typed'
  BY <1>43, <1>a, Types, SlotTypes, WriteEffect, CallTypes, TokenType, SMTT(40) DEF Typed, TypeOK,
     OneRequest, RequestIs, OneRun, Answer, Writes
<1>44. ASSUME Crash PROVE Typed'
  <2>0. MaxCrashes \in Nat /\ process \in 0..MaxCrashes
    BY LiveRegistryAssumption DEF Typed, TypeOK
  <2>1. process' \in 0..MaxCrashes
    BY <1>44, <2>0, CrashEffect
  <2>2. guarded' \subseteq Attempts /\ slot' \in Slots /\ writes' \subseteq Writes
    BY <1>44, CrashEffect, Types, SlotTypes
  <2>3. \A a \in Attempts : req'[a].at \in {"idle", "done"}
    BY <1>44, CrashEffect DEF RequestIs
  <2> QED
    BY <1>44, <1>a, <2>1, <2>2, <2>3, Types, CrashEffect DEF Typed, TypeOK
<1> QED
  BY <1>1, <1>2, <1>3, <1>4, <1>5, <1>6, <1>7, <1>8, <1>9, <1>10, <1>11, <1>12, <1>13, <1>14,
     <1>15, <1>16, <1>17, <1>18, <1>19, <1>20, <1>21, <1>22, <1>23, <1>24, <1>25, <1>26, <1>27,
     <1>28, <1>29, <1>30, <1>31, <1>32, <1>33, <1>34, <1>35, <1>36, <1>37, <1>38, <1>39, <1>40,
     <1>41, <1>42, <1>43, <1>44 DEF Next, Step, Request, Proceed, Driver, Stage, Registry

\* What is known of an attempt.
LEMMA StepAttempts == RegistryInv /\ Next => \A a \in Attempts : AttemptSound(a)'
<1> SUFFICES ASSUME RegistryInv, Next, NEW a \in Attempts PROVE AttemptSound(a)'
  OBVIOUS
<1>i. Typed /\ (\A b \in Attempts : AttemptSound(b) /\ SlotSound(b)) /\ (\A w \in writes : WriteSound(w))
  BY DEF RegistryInv
<1>1. ASSUME NEW x \in Attempts, NEW f \in Operations, Claim(x, f) PROVE AttemptSound(a)'
  BY <1>1, <1>i, Types, ClaimEffect DEF AttemptSound, SlotSound, OneRequest, RequestIs, OneRun,
     RunIs, Unopened, Rotation, Sealing, Publishing, Published
<1>2. ASSUME NEW x \in Attempts, NEW f \in Operations, Refuse(x, f) PROVE AttemptSound(a)'
  BY <1>2, <1>i, Types, RefuseEffect DEF AttemptSound, SlotSound, OneRequest, RequestIs, OneRun,
     RunIs, Unopened, Rotation, Sealing, Publishing, Published
<1>3. ASSUME NEW x \in Attempts, NEW f \in Operations, NEW results \in BOOLEAN,
             Observe(x, f, results)
      PROVE AttemptSound(a)'
  BY <1>3, <1>i, Types, ObserveEffect DEF AttemptSound, SlotSound, OneRequest, RequestIs,
     OneRun, RunIs, Unopened, Rotation, Sealing, Publishing, Published
<1>4. ASSUME NEW x \in Attempts, NEW results \in BOOLEAN, ClaimReplacement(x, results)
      PROVE AttemptSound(a)'
  <2>1. PICK v \in Attempts : TakesOver(x, v)
    BY <1>4, <1>i, ClaimReplacementEffect
  <2>2. req[v].at \in Published /\ req[x].at = "waiting"
    BY <1>4, <2>1, <1>i DEF TakesOver, SlotSound, ClaimReplacement
  <2>3. OneRequest(x) /\ RequestIs(req'[x], "superseding", req[x].op, req[x].victim)
    BY <1>4, <1>i, ClaimReplacementEffect
  <2>4. CASE a = x
    BY <1>i, <2>1, <2>2, <2>3, <2>4, Types
       DEF TakesOver, AttemptSound, RequestIs, RunIs, Unopened, Rotation, Sealing, Publishing
  <2>5. CASE a = v
    BY <1>i, <2>1, <2>2, <2>3, <2>5, Types
       DEF TakesOver, AttemptSound, OneRequest, RunIs, Unopened, Rotation, Sealing, Publishing, Published
  <2>6. CASE a \notin {x, v}
    BY <1>i, <2>1, <2>3, <2>6, Types DEF TakesOver, AttemptSound, OneRequest
  <2> QED
    BY <2>4, <2>5, <2>6
<1>5. ASSUME NEW x \in Attempts, ClaimVacated(x) PROVE AttemptSound(a)'
  BY <1>5, <1>i, Types, ClaimVacatedEffect DEF AttemptSound, SlotSound, OneRequest, RequestIs,
     OneRun, RunIs, Unopened, Rotation, Sealing, Publishing, Published
<1>6. ASSUME NEW x \in Attempts, LoseClaim(x) PROVE AttemptSound(a)'
  BY <1>6, <1>i, Types, LoseClaimEffect DEF AttemptSound, SlotSound, OneRequest, RequestIs,
     OneRun, RunIs, Unopened, Rotation, Sealing, Publishing, Published
<1>7. ASSUME NEW x \in Attempts, FinishReplacement(x) PROVE AttemptSound(a)'
  BY <1>7, <1>i, Types, FinishReplacementEffect DEF AttemptSound, SlotSound, OneRequest,
     RequestIs, OneRun, RunIs, Unopened, Rotation, Sealing, Publishing, Published
<1>8. ASSUME NEW x \in Attempts, AbandonReplacement(x) PROVE AttemptSound(a)'
  BY <1>8, <1>i, Types, AbandonReplacementEffect DEF AttemptSound, SlotSound, OneRequest,
     RequestIs, OneRun, RunIs, Unopened, Rotation, Sealing, Publishing, Published
<1>9. ASSUME NEW x \in Attempts, BeginDurable(x) PROVE AttemptSound(a)'
  BY <1>9, <1>i, Types, BeginDurableEffect DEF AttemptSound, SlotSound, OneRequest, RequestIs,
     OneRun, RunIs, Unopened, Rotation, Sealing, Publishing, Published
<1>10. ASSUME NEW x \in Attempts, Withdraw(x) PROVE AttemptSound(a)'
  BY <1>10, <1>i, Types, WithdrawEffect DEF AttemptSound, SlotSound, OneRequest, RequestIs,
     OneRun, RunIs, Unopened, Rotation, Sealing, Publishing, Published
<1>11. ASSUME NEW x \in Attempts, Dispatch(x) PROVE AttemptSound(a)'
  BY <1>11, <1>i, Types, DispatchEffect DEF AttemptSound, SlotSound, OneRequest, RequestIs,
     OneRun, RunIs, Unopened, Rotation, Sealing, Publishing, Published
<1>12. ASSUME NEW x \in Attempts, OpenRejected(x) PROVE AttemptSound(a)'
  BY <1>12, <1>i, Types, OpenRejectedEffect DEF AttemptSound, SlotSound, OneRequest, RequestIs,
     OneRun, RunIs, Unopened, Rotation, Sealing, Publishing, Published
<1>13. ASSUME NEW x \in Attempts, OpenUnknown(x) PROVE AttemptSound(a)'
  BY <1>13, <1>i, Types, OpenUnknownEffect DEF AttemptSound, SlotSound, OneRequest, RequestIs,
     OneRun, RunIs, Unopened, Rotation, Sealing, Publishing, Published
<1>14. ASSUME NEW x \in Attempts, DropReplacement(x) PROVE AttemptSound(a)'
  BY <1>14, <1>i, Types, DropReplacementEffect DEF AttemptSound, SlotSound, OneRequest,
     RequestIs, OneRun, RunIs, Unopened, Rotation, Sealing, Publishing, Published
<1>15. ASSUME NEW x \in Attempts, OpenSucceeds(x) PROVE AttemptSound(a)'
  <2>0. /\ req[x].at = "dispatched"
        /\ OneRequest(x) /\ RequestIs(req'[x], "inserting", req[x].op, req[x].victim)
        /\ OneRun(x)
        /\ RunIs(run'[x], "live", req[x].op, Unknown, "none", FALSE)
    BY <1>15, <1>i, OpenSucceedsEffect
  <2>1. CASE a = x
    BY <1>i, <2>0, <2>1, Types
       DEF AttemptSound, RequestIs, RunIs, Unopened, Rotation, Sealing, Publishing, Published
  <2>2. CASE a # x
    BY <1>i, <2>0, <2>2 DEF AttemptSound, OneRequest, OneRun
  <2> QED
    BY <2>1, <2>2
<1>16. ASSUME NEW x \in Attempts, InsertTransfer(x) PROVE AttemptSound(a)'
  BY <1>16, <1>i, Types, InsertTransferEffect DEF AttemptSound, SlotSound, OneRequest,
     RequestIs, OneRun, RunIs, Unopened, Rotation, Sealing, Publishing, Published
<1>17. ASSUME NEW x \in Attempts, InsertPublish(x) PROVE AttemptSound(a)'
  BY <1>17, <1>i, Types, InsertPublishEffect DEF AttemptSound, SlotSound, OneRequest, RequestIs,
     OneRun, RunIs, Unopened, Rotation, Sealing, Publishing, Published
<1>18. ASSUME NEW x \in Attempts, InsertReseal(x) PROVE AttemptSound(a)'
  BY <1>18, <1>i, Types, InsertResealEffect DEF AttemptSound, SlotSound, OneRequest, RequestIs,
     OneRun, RunIs, Unopened, Rotation, Sealing, Publishing, Published
<1>19. ASSUME NEW x \in Attempts, GiveUp(x) PROVE AttemptSound(a)'
  <2>0. /\ req[x].at \in {"orphaned", "serving"}
        /\ OneRequest(x) /\ RequestIs(req'[x], "done", Unknown, NoAttempt)
        /\ OneRun(x)
        /\ RunIs(run'[x], run[x].phase, run[x].stage, run[x].next, run[x].err, TRUE)
    BY <1>19, <1>i, GiveUpEffect
  <2>1. CASE a = x
    BY <1>i, <2>0, <2>1, Types
       DEF AttemptSound, RequestIs, RunIs, Unopened, Rotation, Sealing, Publishing, Published
  <2>2. CASE a # x
    BY <1>i, <2>0, <2>2 DEF AttemptSound, OneRequest, OneRun
  <2> QED
    BY <2>1, <2>2
<1>20. ASSUME NEW x \in Attempts, NEW err \in Errors \ {"none"}, DriverFails(x, err)
       PROVE AttemptSound(a)'
  BY <1>20, <1>i, Types, DriverFailsEffect DEF AttemptSound, SlotSound, OneRequest, RequestIs,
     OneRun, RunIs, Unopened, Rotation, Sealing, Publishing, Published, EndsRun
<1>21. ASSUME NEW x \in Attempts, NEW err \in {"other", "ambiguous"}, DriverCancelled(x, err)
       PROVE AttemptSound(a)'
  BY <1>21, <1>i, Types, DriverCancelledEffect DEF AttemptSound, SlotSound, OneRequest,
     RequestIs, OneRun, RunIs, Unopened, Rotation, Sealing, Publishing, Published, EndsRun
<1>22. ASSUME NEW x \in Attempts, DriverFinishes(x) PROVE AttemptSound(a)'
  BY <1>22, <1>i, Types, DriverFinishesEffect DEF AttemptSound, SlotSound, OneRequest,
     RequestIs, OneRun, RunIs, Unopened, Rotation, Sealing, Publishing, Published, EndsRun
<1>23. ASSUME NEW x \in Attempts, SealLookup(x) PROVE AttemptSound(a)'
  BY <1>23, <1>i, Types, SealLookupEffect DEF AttemptSound, SlotSound, OneRequest, RequestIs,
     OneRun, RunIs, Unopened, Rotation, Sealing, Publishing, Published
<1>24. ASSUME NEW x \in Attempts, SealLedger(x) PROVE AttemptSound(a)'
  BY <1>24, <1>i, Types, SealLedgerEffect DEF AttemptSound, SlotSound, OneRequest, RequestIs,
     OneRun, RunIs, Unopened, Rotation, Sealing, Publishing, Published
<1>25. ASSUME NEW x \in Attempts, SealSlot(x) PROVE AttemptSound(a)'
  BY <1>25, <1>i, Types, SealSlotEffect DEF AttemptSound, SlotSound, OneRequest, RequestIs,
     OneRun, RunIs, Unopened, Rotation, Sealing, Publishing, Published
<1>26. ASSUME NEW x \in Attempts, Complete(x) PROVE AttemptSound(a)'
  BY <1>26, <1>i, Types, CompleteEffect DEF AttemptSound, SlotSound, OneRequest, RequestIs,
     OneRun, RunIs, Unopened, Rotation, Sealing, Publishing, Published
<1>27. ASSUME NEW x \in Attempts, SkipResume(x) PROVE AttemptSound(a)'
  BY <1>27, <1>i, Types, SkipResumeEffect DEF AttemptSound, SlotSound, OneRequest, RequestIs,
     OneRun, RunIs, Unopened, Rotation, Sealing, Publishing, Published
<1>28. ASSUME NEW x \in Attempts, PrepareStage(x) PROVE AttemptSound(a)'
  BY <1>28, <1>i, Types, PrepareStageEffect DEF AttemptSound, SlotSound, OneRequest, RequestIs,
     OneRun, RunIs, Unopened, Rotation, Sealing, Publishing, Published, EndsRun
<1>29. ASSUME NEW x \in Attempts, DispatchStage(x) PROVE AttemptSound(a)'
  BY <1>29, <1>i, Types, DispatchStageEffect DEF AttemptSound, SlotSound, OneRequest, RequestIs,
     OneRun, RunIs, Unopened, Rotation, Sealing, Publishing, Published
<1>30. ASSUME NEW x \in Attempts, AcceptStage(x) PROVE AttemptSound(a)'
  BY <1>30, <1>i, Types, AcceptStageEffect DEF AttemptSound, SlotSound, OneRequest, RequestIs,
     OneRun, RunIs, Unopened, Rotation, Sealing, Publishing, Published
<1>31. ASSUME NEW x \in Attempts, AcknowledgeStage(x) PROVE AttemptSound(a)'
  BY <1>31, <1>i, Types, AcknowledgeStageEffect DEF AttemptSound, SlotSound, OneRequest,
     RequestIs, OneRun, RunIs, Unopened, Rotation, Sealing, Publishing, Published
<1>32. ASSUME NEW x \in Attempts, RevokeStage(x) PROVE AttemptSound(a)'
  BY <1>32, <1>i, Types, RevokeStageEffect DEF AttemptSound, SlotSound, OneRequest, RequestIs,
     OneRun, RunIs, Unopened, Rotation, Sealing, Publishing, Published
<1>33. ASSUME NEW x \in Attempts, RollbackStage(x) PROVE AttemptSound(a)'
  BY <1>33, <1>i, Types, RollbackStageEffect DEF AttemptSound, SlotSound, OneRequest, RequestIs,
     OneRun, RunIs, Unopened, Rotation, Sealing, Publishing, Published, EndsRun
<1>34. ASSUME NEW x \in Attempts, DriverVanishes(x) PROVE AttemptSound(a)'
  BY <1>34, <1>i, Types, DriverVanishesEffect DEF AttemptSound, SlotSound, OneRequest,
     RequestIs, OneRun, RunIs, Unopened, Rotation, Sealing, Publishing, Published
<1>35. ASSUME NEW x \in Attempts, ConsumerMoves(x) PROVE AttemptSound(a)'
  BY <1>35, <1>i, Types, ConsumerMovesEffect DEF AttemptSound, SlotSound, OneRequest, RequestIs,
     OneRun, RunIs, Unopened, Rotation, Sealing, Publishing, Published
<1>36. ASSUME NEW x \in Attempts, NEW g \in Operations, SendResume(x, g) PROVE AttemptSound(a)'
  BY <1>36, <1>i, Types, SendResumeEffect DEF AttemptSound, SlotSound, OneRequest, RequestIs,
     OneRun, RunIs, Unopened, Rotation, Sealing, Publishing, Published
<1>37. ASSUME Prune PROVE AttemptSound(a)'
  BY <1>37, <1>i, Types, PruneEffect DEF AttemptSound, SlotSound, OneRequest, RequestIs, OneRun,
     RunIs, Unopened, Rotation, Sealing, Publishing, Published
<1>38. ASSUME Probe PROVE AttemptSound(a)'
  BY <1>38, <1>i, Types, ProbeEffect DEF AttemptSound, SlotSound, OneRequest, RequestIs, OneRun,
     RunIs, Unopened, Rotation, Sealing, Publishing, Published
<1>39. ASSUME TakeTerminalError PROVE AttemptSound(a)'
  BY <1>39, <1>i, Types, TakeTerminalErrorEffect DEF AttemptSound, SlotSound, OneRequest,
     RequestIs, OneRun, RunIs, Unopened, Rotation, Sealing, Publishing, Published
<1>40. ASSUME CancelGeneration PROVE AttemptSound(a)'
  BY <1>40, <1>i, Types, CancelGenerationEffect DEF AttemptSound, SlotSound, OneRequest,
     RequestIs, OneRun, RunIs, Unopened, Rotation, Sealing, Publishing, Published
<1>41. ASSUME Lapse PROVE AttemptSound(a)'
  BY <1>41, <1>i, Types, LapseEffect DEF AttemptSound, SlotSound, OneRequest, RequestIs, OneRun,
     RunIs, Unopened, Rotation, Sealing, Publishing, Published
<1>42. ASSUME LapseError PROVE AttemptSound(a)'
  BY <1>42, <1>i, Types, LapseErrorEffect DEF AttemptSound, SlotSound, OneRequest, RequestIs,
     OneRun, RunIs, Unopened, Rotation, Sealing, Publishing, Published
<1>43. ASSUME NEW w \in writes, Write(w) PROVE AttemptSound(a)'
  <2>1. a = w.cancels => req[a].at \in Published
    <3>1. w.owner \in {"reservation", "run"} \X Attempts
      BY <1>43, <1>i, Types DEF Writes
    <3> QED
      BY <1>i, <3>1, LiveRegistryAssumption, Tokens DEF WriteSound
  <2>2. /\ req' = req
        /\ RunIs(run'[a], run[a].phase, run[a].stage, run[a].next, run[a].err,
                 run[a].cancel \/ a = w.cancels)
    BY <1>43, <1>i, WriteEffect
  <2> QED
    BY <1>i, <2>1, <2>2, Types
       DEF AttemptSound, RunIs, Unopened, Rotation, Sealing, Publishing, Published
<1>44. ASSUME Crash PROVE AttemptSound(a)'
  BY <1>44, <1>i, Types, CrashEffect DEF AttemptSound, SlotSound, OneRequest, RequestIs, OneRun,
     RunIs, Unopened, Rotation, Sealing, Publishing, Published
<1> QED
  BY <1>1, <1>2, <1>3, <1>4, <1>5, <1>6, <1>7, <1>8, <1>9, <1>10, <1>11, <1>12, <1>13, <1>14,
     <1>15, <1>16, <1>17, <1>18, <1>19, <1>20, <1>21, <1>22, <1>23, <1>24, <1>25, <1>26, <1>27,
     <1>28, <1>29, <1>30, <1>31, <1>32, <1>33, <1>34, <1>35, <1>36, <1>37, <1>38, <1>39, <1>40,
     <1>41, <1>42, <1>43, <1>44 DEF Next, Step, Request, Proceed, Driver, Stage, Registry

\* A slot that is free or ambiguous, starting, or running.
LEMMA SlotKinds ==
  ASSUME NEW s
  PROVE  /\ s = Free => s.kind = "free"
         /\ \A f : s = Ambiguous(f) => s.kind = "ambiguous" /\ s.fp = f
         /\ \A x : s = Starting(x) => s.kind = "starting" /\ \A b : s = Starting(b) => b = x
         /\ \A x : s = Running(x) => s.kind = "running" /\ \A b : s = Running(b) => b = x
         /\ \A x, f : s = Succeeded(x, f) => s.kind = "succeeded" /\ s.by = x /\ s.fp = f
  BY DEF Free, Starting, Running, Ambiguous, Succeeded

\* A slot that is free or ambiguous is nobody's run.
LEMMA NotRunning ==
  ASSUME NEW s, s = Free \/ \E g : s = Ambiguous(g)
  PROVE  \A v : s # Running(v)
<1>1. CASE s = Free
  BY <1>1 DEF Free, Running
<1>2. CASE \E g : s = Ambiguous(g)
  BY <1>2 DEF Ambiguous, Running
<1> QED
  BY <1>1, <1>2

\* One request at most holds a reservation, and it has the slot.
LEMMA OneReserving ==
  ASSUME \A b \in Attempts : SlotSound(b)
  PROVE  /\ slot.kind # "starting" => \A b \in Attempts : ~Reserving(b)
         /\ \A x, b \in Attempts : Reserving(x) /\ Reserving(b) => b = x
<1>1. \A b \in Attempts : Reserving(b) => slot = Starting(b)
  BY DEF SlotSound
<1> QED
  BY <1>1, SlotKinds

\* The slot is emptied, or claimed, while nobody else has it.
LEMMA SlotEmptied ==
  ASSUME slot'.kind \in {"free", "ambiguous"}, \A b \in Attempts : ~Reserving(b)'
  PROVE  \A a \in Attempts : SlotSound(a)'
<1>1. \A b \in Attempts : slot' # Running(b)
  BY SlotKinds
<1> QED
  BY <1>1 DEF SlotSound

\* The slot is claimed by x while nobody else reserves it.
LEMMA SlotClaimed ==
  ASSUME NEW x \in Attempts, slot' = Starting(x), \A b \in Attempts : b # x => ~Reserving(b)'
  PROVE  \A a \in Attempts : SlotSound(a)'
<1>1. slot'.kind = "starting"
  BY SlotKinds
<1>2. \A b \in Attempts : slot' # Running(b)
  BY <1>1, SlotKinds
<1> QED
  BY <1>1, <1>2 DEF SlotSound
\* How the slot follows.
LEMMA StepSlot == RegistryInv /\ Next => \A a \in Attempts : SlotSound(a)'
<1> SUFFICES ASSUME RegistryInv, Next, NEW a \in Attempts PROVE SlotSound(a)'
  OBVIOUS
<1>i. Typed /\ (\A b \in Attempts : AttemptSound(b) /\ SlotSound(b)) /\ (\A w \in writes : WriteSound(w))
  BY DEF RegistryInv
<1>1. ASSUME NEW x \in Attempts, NEW f \in Operations, Claim(x, f) PROVE SlotSound(a)'
  <2>1. slot' = Starting(x) /\ slot.kind # "starting" /\ OneRequest(x)
    BY <1>1, <1>i, SlotKinds, ClaimEffect DEF Vacant
  <2>2. \A b \in Attempts : b # x => ~Reserving(b)'
    BY <1>i, <2>1, OneReserving DEF OneRequest, Reserving
  <2> QED
    BY <2>1, <2>2, SlotClaimed
<1>2. ASSUME NEW x \in Attempts, NEW f \in Operations, Refuse(x, f) PROVE SlotSound(a)'
  BY <1>2, <1>i, Types, RefuseEffect DEF AttemptSound, SlotSound, Reserving, OneRequest,
     RequestIs, OneRun, RunIs, Unopened, Sealing, Publishing, Published
<1>3. ASSUME NEW x \in Attempts, NEW f \in Operations, NEW results \in BOOLEAN,
             Observe(x, f, results)
      PROVE SlotSound(a)'
  BY <1>3, <1>i, Types, ObserveEffect DEF AttemptSound, SlotSound, Reserving, OneRequest,
     RequestIs, OneRun, RunIs, Unopened, Sealing, Publishing, Published
<1>4. ASSUME NEW x \in Attempts, NEW results \in BOOLEAN, ClaimReplacement(x, results)
      PROVE SlotSound(a)'
  <2>a. slot' = Starting(x) /\ OneRequest(x) /\ \E v \in Attempts : slot = Running(v)
    BY <1>4, <1>i, ClaimReplacementEffect DEF TakesOver
  <2>1. slot' = Starting(x) /\ slot.kind # "starting" /\ OneRequest(x)
    BY <2>a, SlotKinds
  <2>2. \A b \in Attempts : b # x => ~Reserving(b)'
    BY <1>i, <2>1, OneReserving DEF OneRequest, Reserving
  <2> QED
    BY <2>1, <2>2, SlotClaimed
<1>5. ASSUME NEW x \in Attempts, ClaimVacated(x) PROVE SlotSound(a)'
  <2>1. slot' = Starting(x) /\ slot.kind # "starting" /\ OneRequest(x)
    BY <1>5, <1>i, SlotKinds, ClaimVacatedEffect DEF Vacant
  <2>2. \A b \in Attempts : b # x => ~Reserving(b)'
    BY <1>i, <2>1, OneReserving DEF OneRequest, Reserving
  <2> QED
    BY <2>1, <2>2, SlotClaimed
<1>6. ASSUME NEW x \in Attempts, LoseClaim(x) PROVE SlotSound(a)'
  BY <1>6, <1>i, Types, LoseClaimEffect DEF AttemptSound, SlotSound, Reserving, OneRequest,
     RequestIs, OneRun, RunIs, Unopened, Sealing, Publishing, Published
<1>7. ASSUME NEW x \in Attempts, FinishReplacement(x) PROVE SlotSound(a)'
  BY <1>7, <1>i, Types, FinishReplacementEffect DEF AttemptSound, SlotSound, Reserving,
     OneRequest, RequestIs, OneRun, RunIs, Unopened, Sealing, Publishing, Published
<1>8. ASSUME NEW x \in Attempts, AbandonReplacement(x) PROVE SlotSound(a)'
  <2>1. slot'.kind \in {"free", "ambiguous"}
    BY <1>8, <1>i, SlotKinds, AbandonReplacementEffect
  <2>2. OneRequest(x) /\ req'[x].at = "done" /\ Reserving(x)
    BY <1>8, <1>i, AbandonReplacementEffect DEF RequestIs, Reserving
  <2>3. \A b \in Attempts : ~Reserving(b)'
    BY <1>i, <2>2, OneReserving DEF OneRequest, Reserving
  <2> QED
    BY <2>1, <2>3, SlotEmptied
<1>9. ASSUME NEW x \in Attempts, BeginDurable(x) PROVE SlotSound(a)'
  <2>1. /\ OneRequest(x) /\ Reserving(x) /\ run' = run
        /\ \/ req'[x].at = "prepared" /\ slot' = slot
           \/ req'[x].at = "done" /\ slot' = Free
    BY <1>9, <1>i, BeginDurableEffect DEF RequestIs, Reserving
  <2>2. CASE req'[x].at = "prepared" /\ slot' = slot
    BY <1>i, <2>1, <2>2 DEF SlotSound, Reserving, OneRequest, Published
  <2>3. CASE req'[x].at = "done" /\ slot' = Free
    <3>1. slot'.kind \in {"free", "ambiguous"}
      BY <2>3, SlotKinds
    <3>2. \A b \in Attempts : ~Reserving(b)'
      BY <1>i, <2>1, <2>3, OneReserving DEF OneRequest, Reserving
    <3> QED
      BY <3>1, <3>2, SlotEmptied
  <2> QED
    BY <2>1, <2>2, <2>3
<1>10. ASSUME NEW x \in Attempts, Withdraw(x) PROVE SlotSound(a)'
  <2>1. slot'.kind \in {"free", "ambiguous"}
    BY <1>10, <1>i, SlotKinds, WithdrawEffect
  <2>2. OneRequest(x) /\ req'[x].at = "done" /\ Reserving(x)
    BY <1>10, <1>i, WithdrawEffect DEF RequestIs, Reserving
  <2>3. \A b \in Attempts : ~Reserving(b)'
    BY <1>i, <2>2, OneReserving DEF OneRequest, Reserving
  <2> QED
    BY <2>1, <2>3, SlotEmptied
<1>11. ASSUME NEW x \in Attempts, Dispatch(x) PROVE SlotSound(a)'
  <2>1. /\ OneRequest(x) /\ Reserving(x) /\ run' = run
        /\ \/ req'[x].at = "dispatched" /\ slot' = slot
           \/ req'[x].at = "done" /\ slot' = Free
    BY <1>11, <1>i, DispatchEffect DEF RequestIs, Reserving
  <2>2. CASE req'[x].at = "dispatched" /\ slot' = slot
    BY <1>i, <2>1, <2>2 DEF SlotSound, Reserving, OneRequest, Published
  <2>3. CASE req'[x].at = "done" /\ slot' = Free
    <3>1. slot'.kind \in {"free", "ambiguous"}
      BY <2>3, SlotKinds
    <3>2. \A b \in Attempts : ~Reserving(b)'
      BY <1>i, <2>1, <2>3, OneReserving DEF OneRequest, Reserving
    <3> QED
      BY <3>1, <3>2, SlotEmptied
  <2> QED
    BY <2>1, <2>2, <2>3
<1>12. ASSUME NEW x \in Attempts, OpenRejected(x) PROVE SlotSound(a)'
  <2>1. slot'.kind \in {"free", "ambiguous"}
    BY <1>12, <1>i, SlotKinds, OpenRejectedEffect
  <2>2. OneRequest(x) /\ req'[x].at = "done" /\ Reserving(x)
    BY <1>12, <1>i, OpenRejectedEffect DEF RequestIs, Reserving
  <2>3. \A b \in Attempts : ~Reserving(b)'
    BY <1>i, <2>2, OneReserving DEF OneRequest, Reserving
  <2> QED
    BY <2>1, <2>3, SlotEmptied
<1>13. ASSUME NEW x \in Attempts, OpenUnknown(x) PROVE SlotSound(a)'
  <2>1. slot'.kind \in {"free", "ambiguous"}
    BY <1>13, <1>i, SlotKinds, OpenUnknownEffect
  <2>2. OneRequest(x) /\ req'[x].at = "done" /\ Reserving(x)
    BY <1>13, <1>i, OpenUnknownEffect DEF RequestIs, Reserving
  <2>3. \A b \in Attempts : ~Reserving(b)'
    BY <1>i, <2>2, OneReserving DEF OneRequest, Reserving
  <2> QED
    BY <2>1, <2>3, SlotEmptied
<1>14. ASSUME NEW x \in Attempts, DropReplacement(x) PROVE SlotSound(a)'
  <2>1. slot'.kind \in {"free", "ambiguous"}
    BY <1>14, <1>i, SlotKinds, DropReplacementEffect
  <2>2. OneRequest(x) /\ req'[x].at = "done" /\ Reserving(x)
    BY <1>14, <1>i, DropReplacementEffect DEF RequestIs, Reserving
  <2>3. \A b \in Attempts : ~Reserving(b)'
    BY <1>i, <2>2, OneReserving DEF OneRequest, Reserving
  <2> QED
    BY <2>1, <2>3, SlotEmptied
<1>15. ASSUME NEW x \in Attempts, OpenSucceeds(x) PROVE SlotSound(a)'
  <2>1. /\ OneRequest(x) /\ req'[x].at = "inserting" /\ req[x].at = "dispatched"
        /\ OneRun(x) /\ run'[x].cancel = FALSE /\ slot' = slot
    BY <1>15, <1>i, OpenSucceedsEffect DEF RequestIs, RunIs
  <2> QED
    BY <1>i, <2>1 DEF SlotSound, Reserving, OneRequest, OneRun, Published
<1>16. ASSUME NEW x \in Attempts, InsertTransfer(x) PROVE SlotSound(a)'
  BY <1>16, <1>i, Types, InsertTransferEffect DEF AttemptSound, SlotSound, Reserving,
     OneRequest, RequestIs, OneRun, RunIs, Unopened, Sealing, Publishing, Published
<1>17. ASSUME NEW x \in Attempts, InsertPublish(x) PROVE SlotSound(a)'
  <2>1. /\ OneRequest(x) /\ req'[x].at = "published" /\ req[x].at = "transferred"
        /\ run' = run /\ slot' = Running(x)
    BY <1>17, <1>i, InsertPublishEffect DEF RequestIs
  <2>2. ~run[x].cancel
    BY <1>i, <2>1 DEF AttemptSound
  <2>3. \A b \in Attempts : ~Reserving(b)'
    BY <1>i, <2>1, OneReserving DEF OneRequest, Reserving
  <2>4. slot'.kind = "running" /\ (slot' = Running(a) => a = x)
    BY <2>1, SlotKinds
  <2> QED
    BY <2>1, <2>2, <2>3, <2>4 DEF SlotSound, Published
<1>18. ASSUME NEW x \in Attempts, InsertReseal(x) PROVE SlotSound(a)'
  <2>1. /\ OneRequest(x) /\ req'[x].at = "serving" /\ req[x].at = "published" /\ slot' = slot
        /\ \/ /\ slot = Running(x) /\ OneRun(x)
              /\ run'[x].err = run[x].err /\ run'[x].cancel = run[x].cancel
           \/ run' = run
    BY <1>18, <1>i, InsertResealEffect DEF RequestIs, RunIs
  <2>2. slot = Running(x) => slot.kind = "running"
    BY SlotKinds
  <2> QED
    BY <1>i, <2>1, <2>2 DEF SlotSound, Reserving, OneRequest, OneRun, Published
<1>19. ASSUME NEW x \in Attempts, GiveUp(x) PROVE SlotSound(a)'
  <2>1. /\ OneRequest(x) /\ req'[x].at = "done" /\ slot' = slot
        /\ req[x].at = "orphaned" \/ (req[x].at = "serving" /\ run[x].err # "none")
        /\ OneRun(x) /\ run'[x].phase = run[x].phase /\ run'[x].stage = run[x].stage
        /\ run'[x].err = run[x].err
    BY <1>19, <1>i, GiveUpEffect DEF RequestIs, RunIs
  <2> QED
    BY <1>i, <2>1 DEF SlotSound, Reserving, OneRequest, OneRun, Published
<1>20. ASSUME NEW x \in Attempts, NEW err \in Errors \ {"none"}, DriverFails(x, err)
       PROVE SlotSound(a)'
  BY <1>20, <1>i, Types, DriverFailsEffect DEF AttemptSound, SlotSound, Reserving, OneRequest,
     RequestIs, OneRun, RunIs, Unopened, Sealing, Publishing, Published, EndsRun
<1>21. ASSUME NEW x \in Attempts, NEW err \in {"other", "ambiguous"}, DriverCancelled(x, err)
       PROVE SlotSound(a)'
  BY <1>21, <1>i, Types, DriverCancelledEffect DEF AttemptSound, SlotSound, Reserving,
     OneRequest, RequestIs, OneRun, RunIs, Unopened, Sealing, Publishing, Published, EndsRun
<1>22. ASSUME NEW x \in Attempts, DriverFinishes(x) PROVE SlotSound(a)'
  BY <1>22, <1>i, Types, DriverFinishesEffect DEF AttemptSound, SlotSound, Reserving,
     OneRequest, RequestIs, OneRun, RunIs, Unopened, Sealing, Publishing, Published, EndsRun
<1>23. ASSUME NEW x \in Attempts, SealLookup(x) PROVE SlotSound(a)'
  BY <1>23, <1>i, Types, SealLookupEffect DEF AttemptSound, SlotSound, Reserving, OneRequest,
     RequestIs, OneRun, RunIs, Unopened, Sealing, Publishing, Published
<1>24. ASSUME NEW x \in Attempts, SealLedger(x) PROVE SlotSound(a)'
  BY <1>24, <1>i, Types, SealLedgerEffect DEF AttemptSound, SlotSound, Reserving, OneRequest,
     RequestIs, OneRun, RunIs, Unopened, Sealing, Publishing, Published
<1>25. ASSUME NEW x \in Attempts, SealSlot(x) PROVE SlotSound(a)'
  <2>1. /\ req' = req /\ run[x].phase \in Publishing /\ OneRun(x)
        /\ run'[x].phase \in {"sealed", "completed"} /\ run'[x].stage = run[x].stage
        /\ run'[x].err = run[x].err /\ run'[x].cancel = run[x].cancel
        /\ slot' = IF slot = Running(x) THEN Succeeded(x, run[x].stage) ELSE slot
    BY <1>25, <1>i, SealSlotEffect DEF RunIs
  <2>2. run[x].err = "none" /\ req[x].at \in Published
    BY <1>i, <2>1 DEF AttemptSound
  <2>3. CASE slot = Running(x)
    <3>1. slot.kind = "running"
      BY <2>3, SlotKinds
    <3>2. \A b \in Attempts : ~Reserving(b)'
      BY <1>i, <2>1, <3>1, OneReserving DEF Reserving
    <3>3. slot'.kind = "succeeded" /\ slot'.by = x /\ slot'.fp = run[x].stage /\ slot' # Running(a)
      BY <2>1, <2>3, SlotKinds
    <3> QED
      BY <2>1, <2>2, <3>2, <3>3 DEF SlotSound
  <2>4. CASE slot # Running(x)
    BY <1>i, <2>1, <2>2, <2>4 DEF SlotSound, Reserving, OneRun
  <2> QED
    BY <2>3, <2>4
<1>26. ASSUME NEW x \in Attempts, Complete(x) PROVE SlotSound(a)'
  BY <1>26, <1>i, Types, CompleteEffect DEF AttemptSound, SlotSound, Reserving, OneRequest,
     RequestIs, OneRun, RunIs, Unopened, Sealing, Publishing, Published
<1>27. ASSUME NEW x \in Attempts, SkipResume(x) PROVE SlotSound(a)'
  BY <1>27, <1>i, Types, SkipResumeEffect DEF AttemptSound, SlotSound, Reserving, OneRequest,
     RequestIs, OneRun, RunIs, Unopened, Sealing, Publishing, Published
<1>28. ASSUME NEW x \in Attempts, PrepareStage(x) PROVE SlotSound(a)'
  BY <1>28, <1>i, Types, PrepareStageEffect DEF AttemptSound, SlotSound, Reserving, OneRequest,
     RequestIs, OneRun, RunIs, Unopened, Sealing, Publishing, Published, EndsRun
<1>29. ASSUME NEW x \in Attempts, DispatchStage(x) PROVE SlotSound(a)'
  BY <1>29, <1>i, Types, DispatchStageEffect DEF AttemptSound, SlotSound, Reserving, OneRequest,
     RequestIs, OneRun, RunIs, Unopened, Sealing, Publishing, Published
<1>30. ASSUME NEW x \in Attempts, AcceptStage(x) PROVE SlotSound(a)'
  BY <1>30, <1>i, Types, AcceptStageEffect DEF AttemptSound, SlotSound, Reserving, OneRequest,
     RequestIs, OneRun, RunIs, Unopened, Sealing, Publishing, Published
<1>31. ASSUME NEW x \in Attempts, AcknowledgeStage(x) PROVE SlotSound(a)'
  BY <1>31, <1>i, Types, AcknowledgeStageEffect DEF AttemptSound, SlotSound, Reserving,
     OneRequest, RequestIs, OneRun, RunIs, Unopened, Sealing, Publishing, Published
<1>32. ASSUME NEW x \in Attempts, RevokeStage(x) PROVE SlotSound(a)'
  BY <1>32, <1>i, Types, RevokeStageEffect DEF AttemptSound, SlotSound, Reserving, OneRequest,
     RequestIs, OneRun, RunIs, Unopened, Sealing, Publishing, Published
<1>33. ASSUME NEW x \in Attempts, RollbackStage(x) PROVE SlotSound(a)'
  BY <1>33, <1>i, Types, RollbackStageEffect DEF AttemptSound, SlotSound, Reserving, OneRequest,
     RequestIs, OneRun, RunIs, Unopened, Sealing, Publishing, Published, EndsRun
<1>34. ASSUME NEW x \in Attempts, DriverVanishes(x) PROVE SlotSound(a)'
  BY <1>34, <1>i, Types, DriverVanishesEffect DEF AttemptSound, SlotSound, Reserving,
     OneRequest, RequestIs, OneRun, RunIs, Unopened, Sealing, Publishing, Published
<1>35. ASSUME NEW x \in Attempts, ConsumerMoves(x) PROVE SlotSound(a)'
  BY <1>35, <1>i, Types, ConsumerMovesEffect DEF AttemptSound, SlotSound, Reserving, OneRequest,
     RequestIs, OneRun, RunIs, Unopened, Sealing, Publishing, Published
<1>36. ASSUME NEW x \in Attempts, NEW g \in Operations, SendResume(x, g) PROVE SlotSound(a)'
  BY <1>36, <1>i, Types, SendResumeEffect DEF AttemptSound, SlotSound, Reserving, OneRequest,
     RequestIs, OneRun, RunIs, Unopened, Sealing, Publishing, Published
<1>37. ASSUME Prune PROVE SlotSound(a)'
  <2>1. slot'.kind \in {"free", "ambiguous"} /\ slot.kind # "starting" /\ req' = req
    BY <1>37, <1>i, SlotKinds, PruneEffect
  <2>2. \A b \in Attempts : ~Reserving(b)'
    BY <1>i, <2>1, OneReserving DEF Reserving
  <2> QED
    BY <2>1, <2>2, SlotEmptied
<1>38. ASSUME Probe PROVE SlotSound(a)'
  <2>1. slot'.kind \in {"free", "ambiguous"} /\ slot.kind # "starting" /\ req' = req
    BY <1>38, <1>i, SlotKinds, ProbeEffect
  <2>2. \A b \in Attempts : ~Reserving(b)'
    BY <1>i, <2>1, OneReserving DEF Reserving
  <2> QED
    BY <2>1, <2>2, SlotEmptied
<1>39. ASSUME TakeTerminalError PROVE SlotSound(a)'
  <2>1. slot'.kind \in {"free", "ambiguous"} /\ slot.kind # "starting" /\ req' = req
    BY <1>39, <1>i, SlotKinds, TakeTerminalErrorEffect
  <2>2. \A b \in Attempts : ~Reserving(b)'
    BY <1>i, <2>1, OneReserving DEF Reserving
  <2> QED
    BY <2>1, <2>2, SlotEmptied
<1>40. ASSUME CancelGeneration PROVE SlotSound(a)'
  <2>1. slot'.kind \in {"free", "ambiguous"} /\ slot.kind # "starting" /\ req' = req
    BY <1>40, <1>i, SlotKinds, CancelGenerationEffect
  <2>2. \A b \in Attempts : ~Reserving(b)'
    BY <1>i, <2>1, OneReserving DEF Reserving
  <2> QED
    BY <2>1, <2>2, SlotEmptied
<1>41. ASSUME Lapse PROVE SlotSound(a)'
  <2>1. slot'.kind \in {"free", "ambiguous"} /\ slot.kind # "starting" /\ req' = req
    BY <1>41, <1>i, SlotKinds, LapseEffect
  <2>2. \A b \in Attempts : ~Reserving(b)'
    BY <1>i, <2>1, OneReserving DEF Reserving
  <2> QED
    BY <2>1, <2>2, SlotEmptied
<1>42. ASSUME LapseError PROVE SlotSound(a)'
  <2>1. slot'.kind \in {"free", "ambiguous"} /\ slot.kind # "starting" /\ req' = req
    BY <1>42, <1>i, SlotKinds, LapseErrorEffect
  <2>2. \A b \in Attempts : ~Reserving(b)'
    BY <1>i, <2>1, OneReserving DEF Reserving
  <2> QED
    BY <2>1, <2>2, SlotEmptied
<1>43. ASSUME NEW w \in writes, Write(w) PROVE SlotSound(a)'
  <2>1. a = w.cancels => slot # Running(a)
    BY <1>i, LiveRegistryAssumption DEF WriteSound
  <2>2. /\ req' = req /\ slot' = slot
        /\ RunIs(run'[a], run[a].phase, run[a].stage, run[a].next, run[a].err,
                 run[a].cancel \/ a = w.cancels)
    BY <1>43, <1>i, WriteEffect
  <2> QED
    BY <1>i, <2>1, <2>2 DEF SlotSound, Reserving, RunIs
<1>44. ASSUME Crash PROVE SlotSound(a)'
  <2>1. slot'.kind \in {"free", "ambiguous"}
    BY <1>44, <1>i, SlotKinds, CrashEffect
  <2>2. \A b \in Attempts : ~Reserving(b)'
    BY <1>44, <1>i, CrashEffect DEF RequestIs, Reserving
  <2> QED
    BY <2>1, <2>2, SlotEmptied
<1> QED
  BY <1>1, <1>2, <1>3, <1>4, <1>5, <1>6, <1>7, <1>8, <1>9, <1>10, <1>11, <1>12, <1>13, <1>14,
     <1>15, <1>16, <1>17, <1>18, <1>19, <1>20, <1>21, <1>22, <1>23, <1>24, <1>25, <1>26, <1>27,
     <1>28, <1>29, <1>30, <1>31, <1>32, <1>33, <1>34, <1>35, <1>36, <1>37, <1>38, <1>39, <1>40,
     <1>41, <1>42, <1>43, <1>44 DEF Next, Step, Request, Proceed, Driver, Stage, Registry

\* A healthy upstream stays in the slot.
LEMMA StepPlaced == RegistryInv /\ Next => \A a \in Attempts : LiveIsPlaced(a)'
<1> SUFFICES ASSUME RegistryInv, Next, NEW a \in Attempts PROVE LiveIsPlaced(a)'
  OBVIOUS
<1>i. Typed /\ (\A b \in Attempts : SlotSound(b)) /\ LiveIsPlaced(a)
  BY DEF RegistryInv
<1>1. ASSUME NEW x \in Attempts, NEW f \in Operations, Claim(x, f) PROVE LiveIsPlaced(a)'
  <2>1. /\ OneRequest(x) /\ req[x].at = "idle" /\ Vacant /\ writes' = writes
        /\ OneRun(x) /\ run'[x].phase = run[x].phase /\ run'[x].err = run[x].err
        /\ run'[x].cancel = run[x].cancel
    BY <1>1, <1>i, ClaimEffect DEF RunIs
  <2>2. slot = Running(a) => run[a].phase \notin Serving
    BY <2>1, SlotsDiffer DEF Vacant, IsCompleted, Serving
  <2> QED
    BY <1>i, <2>1, <2>2 DEF LiveIsPlaced, Doomed, OneRequest, OneRun
<1>2. ASSUME NEW x \in Attempts, NEW f \in Operations, Refuse(x, f) PROVE LiveIsPlaced(a)'
  BY <1>2, <1>i, RefuseEffect DEF LiveIsPlaced, Doomed, Serving, OneRequest, RequestIs, OneRun,
     RunIs
<1>3. ASSUME NEW x \in Attempts, NEW f \in Operations, NEW results \in BOOLEAN,
             Observe(x, f, results)
      PROVE LiveIsPlaced(a)'
  BY <1>3, <1>i, ObserveEffect DEF LiveIsPlaced, Doomed, Serving, OneRequest, RequestIs, OneRun,
     RunIs
<1>4. ASSUME NEW x \in Attempts, NEW results \in BOOLEAN, ClaimReplacement(x, results)
      PROVE LiveIsPlaced(a)'
  <2>1. PICK v \in Attempts : TakesOver(x, v)
    BY <1>4, <1>i, ClaimReplacementEffect
  <2>2. OneRequest(x) /\ req[x].at = "waiting" /\ writes' = writes
    BY <1>4, <1>i, ClaimReplacementEffect
  <2>3. slot = Running(a) => a = v
    BY <2>1, SlotKinds DEF TakesOver
  <2> QED
    BY <1>i, <2>1, <2>2, <2>3 DEF TakesOver, LiveIsPlaced, Doomed, OneRequest, RunIs
<1>5. ASSUME NEW x \in Attempts, ClaimVacated(x) PROVE LiveIsPlaced(a)'
  <2>1. /\ OneRequest(x) /\ req[x].at = "waiting" /\ Vacant /\ writes' = writes
        /\ OneRun(x) /\ run'[x].phase = run[x].phase /\ run'[x].err = run[x].err
        /\ run'[x].cancel = run[x].cancel
    BY <1>5, <1>i, ClaimVacatedEffect DEF RunIs
  <2>2. slot = Running(a) => run[a].phase \notin Serving
    BY <2>1, SlotsDiffer DEF Vacant, IsCompleted, Serving
  <2> QED
    BY <1>i, <2>1, <2>2 DEF LiveIsPlaced, Doomed, OneRequest, OneRun
<1>6. ASSUME NEW x \in Attempts, LoseClaim(x) PROVE LiveIsPlaced(a)'
  BY <1>6, <1>i, LoseClaimEffect DEF LiveIsPlaced, Doomed, Serving, OneRequest, RequestIs,
     OneRun, RunIs
<1>7. ASSUME NEW x \in Attempts, FinishReplacement(x) PROVE LiveIsPlaced(a)'
  BY <1>7, <1>i, FinishReplacementEffect DEF LiveIsPlaced, Doomed, Serving, OneRequest,
     RequestIs, OneRun, RunIs
<1>8. ASSUME NEW x \in Attempts, AbandonReplacement(x) PROVE LiveIsPlaced(a)'
  <2>1. /\ slot = Starting(x) /\ OneRequest(x) /\ req'[x].at = "done" /\ run' = run
        /\ writes \subseteq writes' /\ req[x].at \notin {"inserting", "transferred"}
    BY <1>8, <1>i, AbandonReplacementEffect DEF RequestIs, SlotSound, Reserving
  <2>2. slot # Running(a)
    BY <2>1, SlotKinds
  <2> QED
    BY <1>i, <2>1, <2>2 DEF LiveIsPlaced, Doomed, OneRequest
<1>9. ASSUME NEW x \in Attempts, BeginDurable(x) PROVE LiveIsPlaced(a)'
  <2>1. /\ slot = Starting(x) /\ OneRequest(x) /\ run' = run
        /\ writes \subseteq writes' /\ req[x].at \notin {"inserting", "transferred"}
    BY <1>9, <1>i, BeginDurableEffect DEF RequestIs, SlotSound, Reserving
  <2>2. slot # Running(a)
    BY <2>1, SlotKinds
  <2> QED
    BY <1>i, <2>1, <2>2 DEF LiveIsPlaced, Doomed, OneRequest
<1>10. ASSUME NEW x \in Attempts, Withdraw(x) PROVE LiveIsPlaced(a)'
  <2>1. /\ slot = Starting(x) /\ OneRequest(x) /\ req'[x].at = "done" /\ run' = run
        /\ writes \subseteq writes' /\ req[x].at \notin {"inserting", "transferred"}
    BY <1>10, <1>i, WithdrawEffect DEF RequestIs, SlotSound, Reserving
  <2>2. slot # Running(a)
    BY <2>1, SlotKinds
  <2> QED
    BY <1>i, <2>1, <2>2 DEF LiveIsPlaced, Doomed, OneRequest
<1>11. ASSUME NEW x \in Attempts, Dispatch(x) PROVE LiveIsPlaced(a)'
  <2>1. /\ slot = Starting(x) /\ OneRequest(x) /\ run' = run
        /\ writes \subseteq writes' /\ req[x].at \notin {"inserting", "transferred"}
    BY <1>11, <1>i, DispatchEffect DEF RequestIs, SlotSound, Reserving
  <2>2. slot # Running(a)
    BY <2>1, SlotKinds
  <2> QED
    BY <1>i, <2>1, <2>2 DEF LiveIsPlaced, Doomed, OneRequest
<1>12. ASSUME NEW x \in Attempts, OpenRejected(x) PROVE LiveIsPlaced(a)'
  <2>1. /\ slot = Starting(x) /\ OneRequest(x) /\ req'[x].at = "done" /\ run' = run
        /\ writes \subseteq writes' /\ req[x].at \notin {"inserting", "transferred"}
    BY <1>12, <1>i, OpenRejectedEffect DEF RequestIs, SlotSound, Reserving
  <2>2. slot # Running(a)
    BY <2>1, SlotKinds
  <2> QED
    BY <1>i, <2>1, <2>2 DEF LiveIsPlaced, Doomed, OneRequest
<1>13. ASSUME NEW x \in Attempts, OpenUnknown(x) PROVE LiveIsPlaced(a)'
  <2>1. /\ slot = Starting(x) /\ OneRequest(x) /\ req'[x].at = "done" /\ run' = run
        /\ writes \subseteq writes' /\ req[x].at \notin {"inserting", "transferred"}
    BY <1>13, <1>i, OpenUnknownEffect DEF RequestIs, SlotSound, Reserving
  <2>2. slot # Running(a)
    BY <2>1, SlotKinds
  <2> QED
    BY <1>i, <2>1, <2>2 DEF LiveIsPlaced, Doomed, OneRequest
<1>14. ASSUME NEW x \in Attempts, DropReplacement(x) PROVE LiveIsPlaced(a)'
  <2>1. /\ slot = Starting(x) /\ OneRequest(x) /\ req'[x].at = "done" /\ run' = run
        /\ writes \subseteq writes' /\ req[x].at \notin {"inserting", "transferred"}
    BY <1>14, <1>i, DropReplacementEffect DEF RequestIs, SlotSound, Reserving
  <2>2. slot # Running(a)
    BY <2>1, SlotKinds
  <2> QED
    BY <1>i, <2>1, <2>2 DEF LiveIsPlaced, Doomed, OneRequest
<1>15. ASSUME NEW x \in Attempts, OpenSucceeds(x) PROVE LiveIsPlaced(a)'
  <2>1. /\ OneRequest(x) /\ req'[x].at = "inserting" /\ req[x].at = "dispatched" /\ OneRun(x)
        /\ slot' = slot /\ writes' = writes
    BY <1>15, <1>i, OpenSucceedsEffect DEF RequestIs
  <2> QED
    BY <1>i, <2>1 DEF LiveIsPlaced, Doomed, OneRequest, OneRun
<1>16. ASSUME NEW x \in Attempts, InsertTransfer(x) PROVE LiveIsPlaced(a)'
  BY <1>16, <1>i, InsertTransferEffect DEF LiveIsPlaced, Doomed, Serving, OneRequest, RequestIs,
     OneRun, RunIs
<1>17. ASSUME NEW x \in Attempts, InsertPublish(x) PROVE LiveIsPlaced(a)'
  <2>1. /\ slot = Starting(x) /\ slot' = Running(x) /\ OneRequest(x) /\ run' = run /\ writes' = writes
    BY <1>17, <1>i, InsertPublishEffect DEF SlotSound, Reserving
  <2>2. slot # Running(a)
    BY <2>1, SlotKinds
  <2> QED
    BY <1>i, <2>1, <2>2 DEF LiveIsPlaced, Doomed, OneRequest
<1>18. ASSUME NEW x \in Attempts, InsertReseal(x) PROVE LiveIsPlaced(a)'
  BY <1>18, <1>i, InsertResealEffect DEF LiveIsPlaced, Doomed, Serving, OneRequest, RequestIs,
     OneRun, RunIs
<1>19. ASSUME NEW x \in Attempts, GiveUp(x) PROVE LiveIsPlaced(a)'
  BY <1>19, <1>i, GiveUpEffect DEF LiveIsPlaced, Doomed, Serving, OneRequest, RequestIs, OneRun,
     RunIs
<1>20. ASSUME NEW x \in Attempts, NEW err \in Errors \ {"none"}, DriverFails(x, err)
       PROVE LiveIsPlaced(a)'
  BY <1>20, <1>i, DriverFailsEffect DEF LiveIsPlaced, Doomed, Serving, OneRequest, RequestIs,
     OneRun, RunIs, EndsRun
<1>21. ASSUME NEW x \in Attempts, NEW err \in {"other", "ambiguous"}, DriverCancelled(x, err)
       PROVE LiveIsPlaced(a)'
  BY <1>21, <1>i, DriverCancelledEffect DEF LiveIsPlaced, Doomed, Serving, OneRequest,
     RequestIs, OneRun, RunIs, EndsRun
<1>22. ASSUME NEW x \in Attempts, DriverFinishes(x) PROVE LiveIsPlaced(a)'
  BY <1>22, <1>i, DriverFinishesEffect DEF LiveIsPlaced, Doomed, Serving, OneRequest, RequestIs,
     OneRun, RunIs, EndsRun
<1>23. ASSUME NEW x \in Attempts, SealLookup(x) PROVE LiveIsPlaced(a)'
  BY <1>23, <1>i, SealLookupEffect DEF LiveIsPlaced, Doomed, Serving, OneRequest, RequestIs,
     OneRun, RunIs
<1>24. ASSUME NEW x \in Attempts, SealLedger(x) PROVE LiveIsPlaced(a)'
  <2>1. /\ run[x].phase \notin Serving /\ run'[x].phase \notin Serving /\ OneRun(x)
        /\ req' = req /\ slot' = slot /\ writes \subseteq writes'
    BY <1>24, <1>i, SealLedgerEffect DEF RunIs, Publishing, Sealing, Serving
  <2> QED
    BY <1>i, <2>1 DEF LiveIsPlaced, Doomed, OneRun
<1>25. ASSUME NEW x \in Attempts, SealSlot(x) PROVE LiveIsPlaced(a)'
  <2>1. /\ run[x].phase \notin Serving /\ run'[x].phase \notin Serving /\ OneRun(x)
        /\ req' = req /\ writes' = writes
        /\ slot' = IF slot = Running(x) THEN Succeeded(x, run[x].stage) ELSE slot
    BY <1>25, <1>i, SealSlotEffect DEF RunIs, Publishing, Serving
  <2>2. slot = Running(x) /\ slot = Running(a) => a = x
    BY SlotKinds
  <2> QED
    BY <1>i, <2>1, <2>2 DEF LiveIsPlaced, Doomed, OneRun
<1>26. ASSUME NEW x \in Attempts, Complete(x) PROVE LiveIsPlaced(a)'
  BY <1>26, <1>i, CompleteEffect DEF LiveIsPlaced, Doomed, Serving, OneRequest, RequestIs,
     OneRun, RunIs
<1>27. ASSUME NEW x \in Attempts, SkipResume(x) PROVE LiveIsPlaced(a)'
  BY <1>27, <1>i, SkipResumeEffect DEF LiveIsPlaced, Doomed, Serving, OneRequest, RequestIs,
     OneRun, RunIs
<1>28. ASSUME NEW x \in Attempts, PrepareStage(x) PROVE LiveIsPlaced(a)'
  BY <1>28, <1>i, PrepareStageEffect DEF LiveIsPlaced, Doomed, Serving, OneRequest, RequestIs,
     OneRun, RunIs, EndsRun
<1>29. ASSUME NEW x \in Attempts, DispatchStage(x) PROVE LiveIsPlaced(a)'
  BY <1>29, <1>i, DispatchStageEffect DEF LiveIsPlaced, Doomed, Serving, OneRequest, RequestIs,
     OneRun, RunIs
<1>30. ASSUME NEW x \in Attempts, AcceptStage(x) PROVE LiveIsPlaced(a)'
  BY <1>30, <1>i, AcceptStageEffect DEF LiveIsPlaced, Doomed, Serving, OneRequest, RequestIs,
     OneRun, RunIs
<1>31. ASSUME NEW x \in Attempts, AcknowledgeStage(x) PROVE LiveIsPlaced(a)'
  BY <1>31, <1>i, AcknowledgeStageEffect DEF LiveIsPlaced, Doomed, Serving, OneRequest,
     RequestIs, OneRun, RunIs
<1>32. ASSUME NEW x \in Attempts, RevokeStage(x) PROVE LiveIsPlaced(a)'
  BY <1>32, <1>i, RevokeStageEffect DEF LiveIsPlaced, Doomed, Serving, OneRequest, RequestIs,
     OneRun, RunIs
<1>33. ASSUME NEW x \in Attempts, RollbackStage(x) PROVE LiveIsPlaced(a)'
  BY <1>33, <1>i, RollbackStageEffect DEF LiveIsPlaced, Doomed, Serving, OneRequest, RequestIs,
     OneRun, RunIs, EndsRun
<1>34. ASSUME NEW x \in Attempts, DriverVanishes(x) PROVE LiveIsPlaced(a)'
  BY <1>34, <1>i, DriverVanishesEffect DEF LiveIsPlaced, Doomed, Serving, OneRequest, RequestIs,
     OneRun, RunIs
<1>35. ASSUME NEW x \in Attempts, ConsumerMoves(x) PROVE LiveIsPlaced(a)'
  BY <1>35, <1>i, ConsumerMovesEffect DEF LiveIsPlaced, Doomed, Serving, OneRequest, RequestIs,
     OneRun, RunIs
<1>36. ASSUME NEW x \in Attempts, NEW g \in Operations, SendResume(x, g) PROVE LiveIsPlaced(a)'
  BY <1>36, <1>i, SendResumeEffect DEF LiveIsPlaced, Doomed, Serving, OneRequest, RequestIs,
     OneRun, RunIs
<1>37. ASSUME Prune PROVE LiveIsPlaced(a)'
  <2>1. PICK v \in Attempts :
          /\ slot = Running(v) /\ req' = req /\ writes \subseteq writes' /\ OneRun(v)
          /\ run'[v].phase = run[v].phase /\ run'[v].cancel = run[v].cancel
          /\ run[v].phase \notin Serving \/ (run[v].err # "none" /\ run' = run)
    BY <1>37, <1>i, Types, PruneEffect DEF OneRun, RunIs, IsCompleted, IsCommandClosed, Serving
  <2>2. slot = Running(a) => a = v
    BY <2>1, SlotKinds
  <2> QED
    BY <1>i, <2>1, <2>2 DEF LiveIsPlaced, Doomed, OneRun
<1>38. ASSUME Probe PROVE LiveIsPlaced(a)'
  <2>1. PICK v \in Attempts :
          /\ slot = Running(v) /\ req' = req /\ writes \subseteq writes' /\ OneRun(v)
          /\ run'[v].phase = run[v].phase /\ run'[v].cancel = run[v].cancel
          /\ run[v].phase \notin Serving \/ (run[v].err # "none" /\ run' = run)
    BY <1>38, <1>i, Types, ProbeEffect DEF OneRun, RunIs, IsCompleted, IsCommandClosed, Serving
  <2>2. slot = Running(a) => a = v
    BY <2>1, SlotKinds
  <2> QED
    BY <1>i, <2>1, <2>2 DEF LiveIsPlaced, Doomed, OneRun
<1>39. ASSUME TakeTerminalError PROVE LiveIsPlaced(a)'
  <2>1. PICK v \in Attempts :
          /\ slot = Running(v) /\ req' = req /\ writes \subseteq writes' /\ OneRun(v)
          /\ run'[v].phase = run[v].phase /\ run'[v].cancel = run[v].cancel
          /\ run[v].phase \notin Serving \/ (run[v].err # "none" /\ run' = run)
    BY <1>39, <1>i, Types, TakeTerminalErrorEffect DEF OneRun, RunIs, IsCompleted, IsCommandClosed, Serving
  <2>2. slot = Running(a) => a = v
    BY <2>1, SlotKinds
  <2> QED
    BY <1>i, <2>1, <2>2 DEF LiveIsPlaced, Doomed, OneRun
<1>40. ASSUME CancelGeneration PROVE LiveIsPlaced(a)'
  <2>1. PICK v \in Attempts :
          /\ slot = Running(v) /\ req' = req /\ run' = run
          /\ writes' = writes \cup {[call |-> "ambiguous", fp |-> run[v].stage,
                                     owner |-> RunId(v), cancels |-> v]}
    BY <1>40, <1>i, CancelGenerationEffect
  <2>2. slot = Running(a) => a = v
    BY <2>1, SlotKinds
  <2> DEFINE w == [call |-> "ambiguous", fp |-> run[v].stage, owner |-> RunId(v), cancels |-> v]
  <2>3. w \in writes' /\ w.cancels = v
    BY <2>1
  <2> HIDE DEF w
  <2>4. writes \subseteq writes'
    BY <2>1
  <2>5. CASE a = v
    BY <2>3, <2>5 DEF LiveIsPlaced, Doomed
  <2>6. CASE a # v
    BY <1>i, <2>1, <2>2, <2>4, <2>6 DEF LiveIsPlaced, Doomed
  <2> QED
    BY <2>5, <2>6
<1>41. ASSUME Lapse PROVE LiveIsPlaced(a)'
  <2>1. slot # Running(a) /\ req' = req /\ run' = run /\ writes' = writes
    BY <1>41, <1>i, SlotKinds, LapseEffect
  <2> QED
    BY <1>i, <2>1 DEF LiveIsPlaced, Doomed
<1>42. ASSUME LapseError PROVE LiveIsPlaced(a)'
  <2>1. PICK v \in Attempts :
          /\ slot = Running(v) /\ req' = req /\ writes \subseteq writes' /\ OneRun(v)
          /\ run'[v].phase = run[v].phase /\ run'[v].cancel = run[v].cancel
          /\ run[v].phase \notin Serving \/ (run[v].err # "none" /\ run' = run)
    BY <1>42, <1>i, Types, LapseErrorEffect DEF OneRun, RunIs, IsCompleted, IsCommandClosed, Serving
  <2>2. slot = Running(a) => a = v
    BY <2>1, SlotKinds
  <2> QED
    BY <1>i, <2>1, <2>2 DEF LiveIsPlaced, Doomed, OneRun
<1>43. ASSUME NEW w \in writes, Write(w) PROVE LiveIsPlaced(a)'
  <2>1. /\ req' = req /\ slot' = slot /\ writes' = writes \ {w}
        /\ RunIs(run'[a], run[a].phase, run[a].stage, run[a].next, run[a].err,
                 run[a].cancel \/ a = w.cancels)
    BY <1>43, <1>i, WriteEffect
  <2> QED
    BY <1>i, <2>1, Types DEF LiveIsPlaced, Doomed, RunIs
<1>44. ASSUME Crash PROVE LiveIsPlaced(a)'
  <2>1. run'[a].phase = "none"
    BY <1>44, <1>i, CrashEffect DEF RunIs
  <2> QED
    BY <2>1 DEF LiveIsPlaced, Serving
<1> QED
  BY <1>1, <1>2, <1>3, <1>4, <1>5, <1>6, <1>7, <1>8, <1>9, <1>10, <1>11, <1>12, <1>13, <1>14,
     <1>15, <1>16, <1>17, <1>18, <1>19, <1>20, <1>21, <1>22, <1>23, <1>24, <1>25, <1>26, <1>27,
     <1>28, <1>29, <1>30, <1>31, <1>32, <1>33, <1>34, <1>35, <1>36, <1>37, <1>38, <1>39, <1>40,
     <1>41, <1>42, <1>43, <1>44 DEF Next, Step, Request, Proceed, Driver, Stage, Registry
\* A Run that is not published after its end stays on its way to its seal.
LEMMA StepTowardsSeal ==
  ASSUME RegistryInv, Next, NEW a \in Attempts, TowardsSeal(a),
         ~EarlyFinish \/ req[a].at \notin {"inserting", "transferred"}
  PROVE  TowardsSeal(a)'
<1>i. /\ Typed /\ (\A b \in Attempts : SlotSound(b)) /\ TowardsSeal(a)
      /\ ~EarlyFinish \/ req[a].at \notin {"inserting", "transferred"}
      /\ \A b \in Attempts : req[b].at \in {"inserting", "transferred"} => slot = Starting(b)
  BY DEF RegistryInv, SlotSound, Reserving
<1>1. ASSUME NEW x \in Attempts, NEW f \in Operations, Claim(x, f) PROVE TowardsSeal(a)'
  <2>1. /\ OneRequest(x) /\ req'[x].at \notin {"inserting", "transferred"} /\ slot' = Starting(x)
        /\ OneRun(x)
    BY <1>1, <1>i, ClaimEffect DEF RequestIs
  <2>2. slot' # Running(a)
    BY <2>1, SlotKinds
  <2> QED
    BY <1>i, <2>1, <2>2 DEF TowardsSeal, OneRequest, OneRun
<1>2. ASSUME NEW x \in Attempts, NEW f \in Operations, Refuse(x, f) PROVE TowardsSeal(a)'
  <2>1. /\ OneRequest(x) /\ req'[x].at \notin {"inserting", "transferred"} /\ run' = run
        /\ slot' \in {slot, Free} \/ \E g : slot' = Ambiguous(g)
    BY <1>2, <1>i, RefuseEffect DEF RequestIs
  <2>2. slot' = Running(a) => slot = Running(a)
    BY <2>1, SlotKinds
  <2> QED
    BY <1>i, <2>1, <2>2 DEF TowardsSeal, OneRequest
<1>3. ASSUME NEW x \in Attempts, NEW f \in Operations, NEW results \in BOOLEAN,
             Observe(x, f, results)
      PROVE TowardsSeal(a)'
  BY <1>3, <1>i, ObserveEffect DEF TowardsSeal, Serving, OneRequest, RequestIs, OneRun, RunIs
<1>4. ASSUME NEW x \in Attempts, NEW results \in BOOLEAN, ClaimReplacement(x, results)
      PROVE TowardsSeal(a)'
  <2>1. PICK v \in Attempts : TakesOver(x, v)
    BY <1>4, <1>i, ClaimReplacementEffect
  <2>2. /\ OneRequest(x) /\ req'[x].at = "superseding" /\ slot' = Starting(x)
    BY <1>4, <1>i, ClaimReplacementEffect DEF RequestIs
  <2>3. slot' # Running(a)
    BY <2>2, SlotKinds
  <2> QED
    BY <1>i, <2>1, <2>2, <2>3 DEF TakesOver, TowardsSeal, OneRequest, RunIs
<1>5. ASSUME NEW x \in Attempts, ClaimVacated(x) PROVE TowardsSeal(a)'
  <2>1. /\ OneRequest(x) /\ req'[x].at \notin {"inserting", "transferred"} /\ slot' = Starting(x)
        /\ OneRun(x)
    BY <1>5, <1>i, ClaimVacatedEffect DEF RequestIs
  <2>2. slot' # Running(a)
    BY <2>1, SlotKinds
  <2> QED
    BY <1>i, <2>1, <2>2 DEF TowardsSeal, OneRequest, OneRun
<1>6. ASSUME NEW x \in Attempts, LoseClaim(x) PROVE TowardsSeal(a)'
  <2>1. /\ OneRequest(x) /\ req'[x].at \notin {"inserting", "transferred"} /\ run' = run
        /\ slot' \in {slot, Free} \/ \E g : slot' = Ambiguous(g)
    BY <1>6, <1>i, LoseClaimEffect DEF RequestIs
  <2>2. slot' = Running(a) => slot = Running(a)
    BY <2>1, SlotKinds
  <2> QED
    BY <1>i, <2>1, <2>2 DEF TowardsSeal, OneRequest
<1>7. ASSUME NEW x \in Attempts, FinishReplacement(x) PROVE TowardsSeal(a)'
  BY <1>7, <1>i, FinishReplacementEffect DEF TowardsSeal, Serving, OneRequest, RequestIs, OneRun,
     RunIs
<1>8. ASSUME NEW x \in Attempts, AbandonReplacement(x) PROVE TowardsSeal(a)'
  <2>1. /\ OneRequest(x) /\ req'[x].at \notin {"inserting", "transferred"} /\ run' = run
        /\ slot' \in {slot, Free} \/ \E g : slot' = Ambiguous(g)
    BY <1>8, <1>i, AbandonReplacementEffect DEF RequestIs
  <2>2. slot' = Running(a) => slot = Running(a)
    BY <2>1, SlotKinds
  <2> QED
    BY <1>i, <2>1, <2>2 DEF TowardsSeal, OneRequest
<1>9. ASSUME NEW x \in Attempts, BeginDurable(x) PROVE TowardsSeal(a)'
  <2>1. /\ OneRequest(x) /\ req'[x].at \notin {"inserting", "transferred"} /\ run' = run
        /\ slot' \in {slot, Free} \/ \E g : slot' = Ambiguous(g)
    BY <1>9, <1>i, BeginDurableEffect DEF RequestIs
  <2>2. slot' = Running(a) => slot = Running(a)
    BY <2>1, SlotKinds
  <2> QED
    BY <1>i, <2>1, <2>2 DEF TowardsSeal, OneRequest
<1>10. ASSUME NEW x \in Attempts, Withdraw(x) PROVE TowardsSeal(a)'
  <2>1. /\ OneRequest(x) /\ req'[x].at \notin {"inserting", "transferred"} /\ run' = run
        /\ slot' \in {slot, Free} \/ \E g : slot' = Ambiguous(g)
    BY <1>10, <1>i, WithdrawEffect DEF RequestIs
  <2>2. slot' = Running(a) => slot = Running(a)
    BY <2>1, SlotKinds
  <2> QED
    BY <1>i, <2>1, <2>2 DEF TowardsSeal, OneRequest
<1>11. ASSUME NEW x \in Attempts, Dispatch(x) PROVE TowardsSeal(a)'
  <2>1. /\ OneRequest(x) /\ req'[x].at \notin {"inserting", "transferred"} /\ run' = run
        /\ slot' \in {slot, Free} \/ \E g : slot' = Ambiguous(g)
    BY <1>11, <1>i, DispatchEffect DEF RequestIs
  <2>2. slot' = Running(a) => slot = Running(a)
    BY <2>1, SlotKinds
  <2> QED
    BY <1>i, <2>1, <2>2 DEF TowardsSeal, OneRequest
<1>12. ASSUME NEW x \in Attempts, OpenRejected(x) PROVE TowardsSeal(a)'
  <2>1. /\ OneRequest(x) /\ req'[x].at \notin {"inserting", "transferred"} /\ run' = run
        /\ slot' \in {slot, Free} \/ \E g : slot' = Ambiguous(g)
    BY <1>12, <1>i, OpenRejectedEffect DEF RequestIs
  <2>2. slot' = Running(a) => slot = Running(a)
    BY <2>1, SlotKinds
  <2> QED
    BY <1>i, <2>1, <2>2 DEF TowardsSeal, OneRequest
<1>13. ASSUME NEW x \in Attempts, OpenUnknown(x) PROVE TowardsSeal(a)'
  <2>1. /\ OneRequest(x) /\ req'[x].at \notin {"inserting", "transferred"} /\ run' = run
        /\ slot' \in {slot, Free} \/ \E g : slot' = Ambiguous(g)
    BY <1>13, <1>i, OpenUnknownEffect DEF RequestIs
  <2>2. slot' = Running(a) => slot = Running(a)
    BY <2>1, SlotKinds
  <2> QED
    BY <1>i, <2>1, <2>2 DEF TowardsSeal, OneRequest
<1>14. ASSUME NEW x \in Attempts, DropReplacement(x) PROVE TowardsSeal(a)'
  <2>1. /\ OneRequest(x) /\ req'[x].at \notin {"inserting", "transferred"} /\ run' = run
        /\ slot' \in {slot, Free} \/ \E g : slot' = Ambiguous(g)
    BY <1>14, <1>i, DropReplacementEffect DEF RequestIs
  <2>2. slot' = Running(a) => slot = Running(a)
    BY <2>1, SlotKinds
  <2> QED
    BY <1>i, <2>1, <2>2 DEF TowardsSeal, OneRequest
<1>15. ASSUME NEW x \in Attempts, OpenSucceeds(x) PROVE TowardsSeal(a)'
  BY <1>15, <1>i, OpenSucceedsEffect DEF TowardsSeal, Serving, OneRequest, RequestIs, OneRun,
     RunIs
<1>16. ASSUME NEW x \in Attempts, InsertTransfer(x) PROVE TowardsSeal(a)'
  BY <1>16, <1>i, InsertTransferEffect DEF TowardsSeal, Serving, OneRequest, RequestIs, OneRun,
     RunIs
<1>17. ASSUME NEW x \in Attempts, InsertPublish(x) PROVE TowardsSeal(a)'
  <2>1. /\ OneRequest(x) /\ req[x].at = "transferred" /\ req'[x].at = "published"
        /\ run' = run /\ slot' = Running(x)
    BY <1>17, <1>i, InsertPublishEffect DEF RequestIs
  <2>2. slot' = Running(a) => a = x
    BY <2>1, SlotKinds
  <2> QED
    BY <1>i, <2>1, <2>2 DEF TowardsSeal, OneRequest
<1>18. ASSUME NEW x \in Attempts, InsertReseal(x) PROVE TowardsSeal(a)'
  <2>1. /\ OneRequest(x) /\ req'[x].at = "serving" /\ slot' = slot /\ OneRun(x)
        /\ \/ run[x].phase = "completed" /\ run[x].err = "none" /\ slot = Running(x)
           \/ run' = run
    BY <1>18, <1>i, InsertResealEffect DEF RequestIs, OneRun, Typed, TypeOK
  <2> QED
    BY <1>i, <2>1 DEF TowardsSeal, OneRequest, OneRun, Serving
<1>19. ASSUME NEW x \in Attempts, GiveUp(x) PROVE TowardsSeal(a)'
  BY <1>19, <1>i, GiveUpEffect DEF TowardsSeal, Serving, OneRequest, RequestIs, OneRun, RunIs
<1>20. ASSUME NEW x \in Attempts, NEW err \in Errors \ {"none"}, DriverFails(x, err)
       PROVE TowardsSeal(a)'
  BY <1>20, <1>i, DriverFailsEffect DEF TowardsSeal, Serving, OneRequest, RequestIs, OneRun,
     RunIs, EndsRun
<1>21. ASSUME NEW x \in Attempts, NEW err \in {"other", "ambiguous"}, DriverCancelled(x, err)
       PROVE TowardsSeal(a)'
  BY <1>21, <1>i, DriverCancelledEffect DEF TowardsSeal, Serving, OneRequest, RequestIs, OneRun,
     RunIs, EndsRun
<1>22. ASSUME NEW x \in Attempts, DriverFinishes(x) PROVE TowardsSeal(a)'
  BY <1>22, <1>i, DriverFinishesEffect DEF TowardsSeal, Serving, OneRequest, RequestIs, OneRun,
     RunIs, EndsRun
<1>23. ASSUME NEW x \in Attempts, SealLookup(x) PROVE TowardsSeal(a)'
  BY <1>23, <1>i, SealLookupEffect DEF TowardsSeal, Serving, OneRequest, RequestIs, OneRun, RunIs
<1>24. ASSUME NEW x \in Attempts, SealLedger(x) PROVE TowardsSeal(a)'
  <2>1. /\ req' = req /\ slot' = slot /\ OneRun(x) /\ run[x].phase \in Sealing
        /\ \/ run'[x].phase \in Publishing /\ (run[x].phase = "sealing" => run'[x].phase = "publishing")
              /\ run'[x].err = run[x].err
           \/ run'[x].err # "none"
    BY <1>24, <1>i, SealLedgerEffect DEF RunIs
  <2> QED
    BY <1>i, <2>1 DEF TowardsSeal, OneRun, Sealing, Serving
<1>25. ASSUME NEW x \in Attempts, SealSlot(x) PROVE TowardsSeal(a)'
  <2>1. /\ req' = req /\ OneRun(x) /\ run[x].phase \in Publishing /\ run'[x].err = run[x].err
        /\ slot' = IF slot = Running(x) THEN Succeeded(x, run[x].stage) ELSE slot
    BY <1>25, <1>i, SealSlotEffect DEF RunIs
  <2>2. slot' = Running(a) => slot = Running(a) /\ a # x
    BY <2>1, SlotKinds
  <2>3. req[x].at \in {"inserting", "transferred"} => slot # Running(x)
    BY <1>i, SlotKinds
  <2> QED
    BY <1>i, <2>1, <2>2, <2>3 DEF TowardsSeal, OneRun, Publishing, Serving
<1>26. ASSUME NEW x \in Attempts, Complete(x) PROVE TowardsSeal(a)'
  BY <1>26, <1>i, CompleteEffect DEF TowardsSeal, Serving, OneRequest, RequestIs, OneRun, RunIs
<1>27. ASSUME NEW x \in Attempts, SkipResume(x) PROVE TowardsSeal(a)'
  BY <1>27, <1>i, SkipResumeEffect DEF TowardsSeal, Serving, OneRequest, RequestIs, OneRun, RunIs
<1>28. ASSUME NEW x \in Attempts, PrepareStage(x) PROVE TowardsSeal(a)'
  BY <1>28, <1>i, PrepareStageEffect DEF TowardsSeal, Serving, OneRequest, RequestIs, OneRun,
     RunIs, EndsRun
<1>29. ASSUME NEW x \in Attempts, DispatchStage(x) PROVE TowardsSeal(a)'
  BY <1>29, <1>i, DispatchStageEffect DEF TowardsSeal, Serving, OneRequest, RequestIs, OneRun,
     RunIs
<1>30. ASSUME NEW x \in Attempts, AcceptStage(x) PROVE TowardsSeal(a)'
  BY <1>30, <1>i, AcceptStageEffect DEF TowardsSeal, Serving, OneRequest, RequestIs, OneRun,
     RunIs
<1>31. ASSUME NEW x \in Attempts, AcknowledgeStage(x) PROVE TowardsSeal(a)'
  BY <1>31, <1>i, AcknowledgeStageEffect DEF TowardsSeal, Serving, OneRequest, RequestIs, OneRun,
     RunIs
<1>32. ASSUME NEW x \in Attempts, RevokeStage(x) PROVE TowardsSeal(a)'
  BY <1>32, <1>i, RevokeStageEffect DEF TowardsSeal, Serving, OneRequest, RequestIs, OneRun,
     RunIs
<1>33. ASSUME NEW x \in Attempts, RollbackStage(x) PROVE TowardsSeal(a)'
  BY <1>33, <1>i, RollbackStageEffect DEF TowardsSeal, Serving, OneRequest, RequestIs, OneRun,
     RunIs, EndsRun
<1>34. ASSUME NEW x \in Attempts, DriverVanishes(x) PROVE TowardsSeal(a)'
  BY <1>34, <1>i, DriverVanishesEffect DEF TowardsSeal, Serving, OneRequest, RequestIs, OneRun,
     RunIs
<1>35. ASSUME NEW x \in Attempts, ConsumerMoves(x) PROVE TowardsSeal(a)'
  BY <1>35, <1>i, ConsumerMovesEffect DEF TowardsSeal, Serving, OneRequest, RequestIs, OneRun,
     RunIs
<1>36. ASSUME NEW x \in Attempts, NEW g \in Operations, SendResume(x, g) PROVE TowardsSeal(a)'
  BY <1>36, <1>i, SendResumeEffect DEF TowardsSeal, Serving, OneRequest, RequestIs, OneRun, RunIs
<1>37. ASSUME Prune PROVE TowardsSeal(a)'
  <2>1. /\ slot.kind # "starting" /\ req' = req /\ (slot' = Free \/ \E g : slot' = Ambiguous(g))
    BY <1>37, <1>i, SlotKinds, PruneEffect
  <2>2. slot' # Running(a) /\ slot # Starting(a)
    BY <2>1, SlotKinds
  <2> QED
    BY <1>i, <2>1, <2>2 DEF TowardsSeal
<1>38. ASSUME Probe PROVE TowardsSeal(a)'
  <2>1. /\ slot.kind # "starting" /\ req' = req /\ (slot' = Free \/ \E g : slot' = Ambiguous(g))
    BY <1>38, <1>i, SlotKinds, ProbeEffect
  <2>2. slot' # Running(a) /\ slot # Starting(a)
    BY <2>1, SlotKinds
  <2> QED
    BY <1>i, <2>1, <2>2 DEF TowardsSeal
<1>39. ASSUME TakeTerminalError PROVE TowardsSeal(a)'
  <2>1. /\ slot.kind # "starting" /\ req' = req /\ (slot' = Free \/ \E g : slot' = Ambiguous(g))
    BY <1>39, <1>i, SlotKinds, TakeTerminalErrorEffect
  <2>2. slot' # Running(a) /\ slot # Starting(a)
    BY <2>1, SlotKinds
  <2> QED
    BY <1>i, <2>1, <2>2 DEF TowardsSeal
<1>40. ASSUME CancelGeneration PROVE TowardsSeal(a)'
  <2>1. /\ slot.kind # "starting" /\ req' = req /\ (slot' = Free \/ \E g : slot' = Ambiguous(g))
    BY <1>40, <1>i, SlotKinds, CancelGenerationEffect
  <2>2. slot' # Running(a) /\ slot # Starting(a)
    BY <2>1, SlotKinds
  <2> QED
    BY <1>i, <2>1, <2>2 DEF TowardsSeal
<1>41. ASSUME Lapse PROVE TowardsSeal(a)'
  <2>1. /\ slot.kind # "starting" /\ req' = req /\ (slot' = Free \/ \E g : slot' = Ambiguous(g))
    BY <1>41, <1>i, SlotKinds, LapseEffect
  <2>2. slot' # Running(a) /\ slot # Starting(a)
    BY <2>1, SlotKinds
  <2> QED
    BY <1>i, <2>1, <2>2 DEF TowardsSeal
<1>42. ASSUME LapseError PROVE TowardsSeal(a)'
  <2>1. /\ slot.kind # "starting" /\ req' = req /\ (slot' = Free \/ \E g : slot' = Ambiguous(g))
    BY <1>42, <1>i, SlotKinds, LapseErrorEffect
  <2>2. slot' # Running(a) /\ slot # Starting(a)
    BY <2>1, SlotKinds
  <2> QED
    BY <1>i, <2>1, <2>2 DEF TowardsSeal
<1>43. ASSUME NEW w \in writes, Write(w) PROVE TowardsSeal(a)'
  BY <1>43, <1>i, WriteEffect DEF TowardsSeal, Serving, OneRequest, RequestIs, OneRun, RunIs
<1>44. ASSUME Crash PROVE TowardsSeal(a)'
  <2>1. slot' = Free /\ req'[a].at \in {"idle", "done"}
    BY <1>44, <1>i, CrashEffect DEF RequestIs
  <2>2. slot' # Running(a)
    BY <2>1, SlotKinds
  <2> QED
    BY <2>1, <2>2 DEF TowardsSeal
<1> QED
  BY <1>1, <1>2, <1>3, <1>4, <1>5, <1>6, <1>7, <1>8, <1>9, <1>10, <1>11, <1>12, <1>13, <1>14,
     <1>15, <1>16, <1>17, <1>18, <1>19, <1>20, <1>21, <1>22, <1>23, <1>24, <1>25, <1>26, <1>27,
     <1>28, <1>29, <1>30, <1>31, <1>32, <1>33, <1>34, <1>35, <1>36, <1>37, <1>38, <1>39, <1>40,
     <1>41, <1>42, <1>43, <1>44 DEF Next, Step, Request, Proceed, Driver, Stage, Registry

\* What ends well is sealed.
LEMMA StepEnds == RegistryInv /\ Next => \A a \in Attempts : EndsSealed(a)'
  BY StepTowardsSeal DEF RegistryInv, EndsSealed, EarlyFinish, Next

\* Every step keeps what the calls under way rely on.
LEMMA StepFollows == RegistryInv /\ Next => \A a \in Attempts : Follows(a)
<1> SUFFICES ASSUME RegistryInv, Next, NEW a \in Attempts PROVE Follows(a)
  OBVIOUS
<1>i. Typed /\ (\A b \in Attempts : SlotSound(b))
  BY DEF RegistryInv
<1>1. ASSUME NEW x \in Attempts, NEW f \in Operations, Claim(x, f) PROVE Follows(a)
  <2>1. /\ OneRequest(x) /\ req[x].at \notin Published \cup {"orphaned"} /\ slot' = Starting(x)
    BY <1>1, <1>i, ClaimEffect DEF RequestIs, Published
  <2>2. slot' # Running(a)
    BY <2>1, SlotKinds
  <2> QED
    BY <2>1, <2>2 DEF Follows, OneRequest
<1>2. ASSUME NEW x \in Attempts, NEW f \in Operations, Refuse(x, f) PROVE Follows(a)
  <2>1. /\ OneRequest(x) /\ (req[x].at \in Published => req'[x].at \in Published)
        /\ (req[x].at = "orphaned" => req'[x].at \in Published) /\ run' = run
        /\ slot' = slot \/ slot' = Free \/ \E g : slot' = Ambiguous(g)
    BY <1>2, <1>i, RefuseEffect DEF RequestIs, Published
  <2>2. slot' = Running(a) => slot = Running(a)
    BY <2>1, SlotKinds
  <2> QED
    BY <2>1, <2>2 DEF Follows, OneRequest
<1>3. ASSUME NEW x \in Attempts, NEW f \in Operations, NEW results \in BOOLEAN,
             Observe(x, f, results)
      PROVE Follows(a)
  BY <1>3, <1>i, ObserveEffect DEF Follows, Published, Serving, Sealing, Publishing, OneRequest,
     RequestIs, OneRun, RunIs
<1>4. ASSUME NEW x \in Attempts, NEW results \in BOOLEAN, ClaimReplacement(x, results)
      PROVE Follows(a)
  <2>1. /\ OneRequest(x) /\ req[x].at \notin Published \cup {"orphaned"} /\ slot' = Starting(x)
    BY <1>4, <1>i, ClaimReplacementEffect DEF RequestIs, Published
  <2>2. slot' # Running(a)
    BY <2>1, SlotKinds
  <2> QED
    BY <2>1, <2>2 DEF Follows, OneRequest
<1>5. ASSUME NEW x \in Attempts, ClaimVacated(x) PROVE Follows(a)
  <2>1. /\ OneRequest(x) /\ req[x].at \notin Published \cup {"orphaned"} /\ slot' = Starting(x)
    BY <1>5, <1>i, ClaimVacatedEffect DEF RequestIs, Published
  <2>2. slot' # Running(a)
    BY <2>1, SlotKinds
  <2> QED
    BY <2>1, <2>2 DEF Follows, OneRequest
<1>6. ASSUME NEW x \in Attempts, LoseClaim(x) PROVE Follows(a)
  <2>1. /\ OneRequest(x) /\ (req[x].at \in Published => req'[x].at \in Published)
        /\ (req[x].at = "orphaned" => req'[x].at \in Published) /\ run' = run
        /\ slot' = slot \/ slot' = Free \/ \E g : slot' = Ambiguous(g)
    BY <1>6, <1>i, LoseClaimEffect DEF RequestIs, Published
  <2>2. slot' = Running(a) => slot = Running(a)
    BY <2>1, SlotKinds
  <2> QED
    BY <2>1, <2>2 DEF Follows, OneRequest
<1>7. ASSUME NEW x \in Attempts, FinishReplacement(x) PROVE Follows(a)
  BY <1>7, <1>i, FinishReplacementEffect DEF Follows, Published, Serving, Sealing, Publishing,
     OneRequest, RequestIs, OneRun, RunIs
<1>8. ASSUME NEW x \in Attempts, AbandonReplacement(x) PROVE Follows(a)
  <2>1. /\ OneRequest(x) /\ (req[x].at \in Published => req'[x].at \in Published)
        /\ (req[x].at = "orphaned" => req'[x].at \in Published) /\ run' = run
        /\ slot' = slot \/ slot' = Free \/ \E g : slot' = Ambiguous(g)
    BY <1>8, <1>i, AbandonReplacementEffect DEF RequestIs, Published
  <2>2. slot' = Running(a) => slot = Running(a)
    BY <2>1, SlotKinds
  <2> QED
    BY <2>1, <2>2 DEF Follows, OneRequest
<1>9. ASSUME NEW x \in Attempts, BeginDurable(x) PROVE Follows(a)
  <2>1. /\ OneRequest(x) /\ (req[x].at \in Published => req'[x].at \in Published)
        /\ (req[x].at = "orphaned" => req'[x].at \in Published) /\ run' = run
        /\ slot' = slot \/ slot' = Free \/ \E g : slot' = Ambiguous(g)
    BY <1>9, <1>i, BeginDurableEffect DEF RequestIs, Published
  <2>2. slot' = Running(a) => slot = Running(a)
    BY <2>1, SlotKinds
  <2> QED
    BY <2>1, <2>2 DEF Follows, OneRequest
<1>10. ASSUME NEW x \in Attempts, Withdraw(x) PROVE Follows(a)
  <2>1. /\ OneRequest(x) /\ (req[x].at \in Published => req'[x].at \in Published)
        /\ (req[x].at = "orphaned" => req'[x].at \in Published) /\ run' = run
        /\ slot' = slot \/ slot' = Free \/ \E g : slot' = Ambiguous(g)
    BY <1>10, <1>i, WithdrawEffect DEF RequestIs, Published
  <2>2. slot' = Running(a) => slot = Running(a)
    BY <2>1, SlotKinds
  <2> QED
    BY <2>1, <2>2 DEF Follows, OneRequest
<1>11. ASSUME NEW x \in Attempts, Dispatch(x) PROVE Follows(a)
  <2>1. /\ OneRequest(x) /\ (req[x].at \in Published => req'[x].at \in Published)
        /\ (req[x].at = "orphaned" => req'[x].at \in Published) /\ run' = run
        /\ slot' = slot \/ slot' = Free \/ \E g : slot' = Ambiguous(g)
    BY <1>11, <1>i, DispatchEffect DEF RequestIs, Published
  <2>2. slot' = Running(a) => slot = Running(a)
    BY <2>1, SlotKinds
  <2> QED
    BY <2>1, <2>2 DEF Follows, OneRequest
<1>12. ASSUME NEW x \in Attempts, OpenRejected(x) PROVE Follows(a)
  <2>1. /\ OneRequest(x) /\ (req[x].at \in Published => req'[x].at \in Published)
        /\ (req[x].at = "orphaned" => req'[x].at \in Published) /\ run' = run
        /\ slot' = slot \/ slot' = Free \/ \E g : slot' = Ambiguous(g)
    BY <1>12, <1>i, OpenRejectedEffect DEF RequestIs, Published
  <2>2. slot' = Running(a) => slot = Running(a)
    BY <2>1, SlotKinds
  <2> QED
    BY <2>1, <2>2 DEF Follows, OneRequest
<1>13. ASSUME NEW x \in Attempts, OpenUnknown(x) PROVE Follows(a)
  <2>1. /\ OneRequest(x) /\ (req[x].at \in Published => req'[x].at \in Published)
        /\ (req[x].at = "orphaned" => req'[x].at \in Published) /\ run' = run
        /\ slot' = slot \/ slot' = Free \/ \E g : slot' = Ambiguous(g)
    BY <1>13, <1>i, OpenUnknownEffect DEF RequestIs, Published
  <2>2. slot' = Running(a) => slot = Running(a)
    BY <2>1, SlotKinds
  <2> QED
    BY <2>1, <2>2 DEF Follows, OneRequest
<1>14. ASSUME NEW x \in Attempts, DropReplacement(x) PROVE Follows(a)
  <2>1. /\ OneRequest(x) /\ (req[x].at \in Published => req'[x].at \in Published)
        /\ (req[x].at = "orphaned" => req'[x].at \in Published) /\ run' = run
        /\ slot' = slot \/ slot' = Free \/ \E g : slot' = Ambiguous(g)
    BY <1>14, <1>i, DropReplacementEffect DEF RequestIs, Published
  <2>2. slot' = Running(a) => slot = Running(a)
    BY <2>1, SlotKinds
  <2> QED
    BY <2>1, <2>2 DEF Follows, OneRequest
<1>15. ASSUME NEW x \in Attempts, OpenSucceeds(x) PROVE Follows(a)
  BY <1>15, <1>i, OpenSucceedsEffect DEF Follows, Published, Serving, Sealing, Publishing,
     OneRequest, RequestIs, OneRun, RunIs
<1>16. ASSUME NEW x \in Attempts, InsertTransfer(x) PROVE Follows(a)
  BY <1>16, <1>i, InsertTransferEffect DEF Follows, Published, Serving, Sealing, Publishing,
     OneRequest, RequestIs, OneRun, RunIs
<1>17. ASSUME NEW x \in Attempts, InsertPublish(x) PROVE Follows(a)
  <2>1. /\ OneRequest(x) /\ req[x].at = "transferred" /\ req'[x].at = "published"
        /\ slot' = Running(x)
    BY <1>17, <1>i, InsertPublishEffect DEF RequestIs
  <2>2. slot' = Running(a) => a = x
    BY <2>1, SlotKinds
  <2> QED
    BY <2>1, <2>2 DEF Follows, OneRequest, Published
<1>18. ASSUME NEW x \in Attempts, InsertReseal(x) PROVE Follows(a)
  BY <1>18, <1>i, InsertResealEffect DEF Follows, Published, Serving, Sealing, Publishing,
     OneRequest, RequestIs, OneRun, RunIs
<1>19. ASSUME NEW x \in Attempts, GiveUp(x) PROVE Follows(a)
  BY <1>19, <1>i, GiveUpEffect DEF Follows, Published, Serving, Sealing, Publishing, OneRequest,
     RequestIs, OneRun, RunIs
<1>20. ASSUME NEW x \in Attempts, NEW err \in Errors \ {"none"}, DriverFails(x, err)
       PROVE Follows(a)
  BY <1>20, <1>i, DriverFailsEffect DEF Follows, Published, Serving, Sealing, Publishing,
     OneRequest, RequestIs, OneRun, RunIs, EndsRun
<1>21. ASSUME NEW x \in Attempts, NEW err \in {"other", "ambiguous"}, DriverCancelled(x, err)
       PROVE Follows(a)
  BY <1>21, <1>i, DriverCancelledEffect DEF Follows, Published, Serving, Sealing, Publishing,
     OneRequest, RequestIs, OneRun, RunIs, EndsRun
<1>22. ASSUME NEW x \in Attempts, DriverFinishes(x) PROVE Follows(a)
  BY <1>22, <1>i, DriverFinishesEffect DEF Follows, Published, Serving, Sealing, Publishing,
     OneRequest, RequestIs, OneRun, RunIs, EndsRun
<1>23. ASSUME NEW x \in Attempts, SealLookup(x) PROVE Follows(a)
  BY <1>23, <1>i, SealLookupEffect DEF Follows, Published, Serving, Sealing, Publishing,
     OneRequest, RequestIs, OneRun, RunIs
<1>24. ASSUME NEW x \in Attempts, SealLedger(x) PROVE Follows(a)
  BY <1>24, <1>i, SealLedgerEffect DEF Follows, Published, Serving, Sealing, Publishing,
     OneRequest, RequestIs, OneRun, RunIs
<1>25. ASSUME NEW x \in Attempts, SealSlot(x) PROVE Follows(a)
  <2>1. /\ req' = req /\ OneRun(x)
        /\ RunIs(run'[x], IF run[x].phase = "publishing" THEN "sealed" ELSE "completed",
                 run[x].stage, run[x].next, run[x].err, run[x].cancel)
        /\ slot' = IF slot = Running(x) THEN Succeeded(x, run[x].stage) ELSE slot
    BY <1>25, <1>i, SealSlotEffect
  <2>2. slot' = Running(a) => slot = Running(a)
    BY <2>1, SlotKinds
  <2> QED
    BY <2>1, <2>2 DEF Follows, OneRun, RunIs, Serving
<1>26. ASSUME NEW x \in Attempts, Complete(x) PROVE Follows(a)
  BY <1>26, <1>i, CompleteEffect DEF Follows, Published, Serving, Sealing, Publishing,
     OneRequest, RequestIs, OneRun, RunIs
<1>27. ASSUME NEW x \in Attempts, SkipResume(x) PROVE Follows(a)
  BY <1>27, <1>i, SkipResumeEffect DEF Follows, Published, Serving, Sealing, Publishing,
     OneRequest, RequestIs, OneRun, RunIs
<1>28. ASSUME NEW x \in Attempts, PrepareStage(x) PROVE Follows(a)
  BY <1>28, <1>i, PrepareStageEffect DEF Follows, Published, Serving, Sealing, Publishing,
     OneRequest, RequestIs, OneRun, RunIs, EndsRun
<1>29. ASSUME NEW x \in Attempts, DispatchStage(x) PROVE Follows(a)
  BY <1>29, <1>i, DispatchStageEffect DEF Follows, Published, Serving, Sealing, Publishing,
     OneRequest, RequestIs, OneRun, RunIs
<1>30. ASSUME NEW x \in Attempts, AcceptStage(x) PROVE Follows(a)
  BY <1>30, <1>i, AcceptStageEffect DEF Follows, Published, Serving, Sealing, Publishing,
     OneRequest, RequestIs, OneRun, RunIs
<1>31. ASSUME NEW x \in Attempts, AcknowledgeStage(x) PROVE Follows(a)
  BY <1>31, <1>i, AcknowledgeStageEffect DEF Follows, Published, Serving, Sealing, Publishing,
     OneRequest, RequestIs, OneRun, RunIs
<1>32. ASSUME NEW x \in Attempts, RevokeStage(x) PROVE Follows(a)
  BY <1>32, <1>i, RevokeStageEffect DEF Follows, Published, Serving, Sealing, Publishing,
     OneRequest, RequestIs, OneRun, RunIs
<1>33. ASSUME NEW x \in Attempts, RollbackStage(x) PROVE Follows(a)
  BY <1>33, <1>i, RollbackStageEffect DEF Follows, Published, Serving, Sealing, Publishing,
     OneRequest, RequestIs, OneRun, RunIs, EndsRun
<1>34. ASSUME NEW x \in Attempts, DriverVanishes(x) PROVE Follows(a)
  BY <1>34, <1>i, DriverVanishesEffect DEF Follows, Published, Serving, Sealing, Publishing,
     OneRequest, RequestIs, OneRun, RunIs
<1>35. ASSUME NEW x \in Attempts, ConsumerMoves(x) PROVE Follows(a)
  BY <1>35, <1>i, ConsumerMovesEffect DEF Follows, Published, Serving, Sealing, Publishing,
     OneRequest, RequestIs, OneRun, RunIs
<1>36. ASSUME NEW x \in Attempts, NEW g \in Operations, SendResume(x, g) PROVE Follows(a)
  BY <1>36, <1>i, SendResumeEffect DEF Follows, Published, Serving, Sealing, Publishing,
     OneRequest, RequestIs, OneRun, RunIs
<1>37. ASSUME Prune PROVE Follows(a)
  <2>1. req' = req /\ (slot' = Free \/ \E g : slot' = Ambiguous(g))
    BY <1>37, <1>i, PruneEffect
  <2>2. slot' # Running(a)
    BY <2>1, SlotKinds
  <2> QED
    BY <2>1, <2>2 DEF Follows
<1>38. ASSUME Probe PROVE Follows(a)
  <2>1. req' = req /\ (slot' = Free \/ \E g : slot' = Ambiguous(g))
    BY <1>38, <1>i, ProbeEffect
  <2>2. slot' # Running(a)
    BY <2>1, SlotKinds
  <2> QED
    BY <2>1, <2>2 DEF Follows
<1>39. ASSUME TakeTerminalError PROVE Follows(a)
  <2>1. req' = req /\ (slot' = Free \/ \E g : slot' = Ambiguous(g))
    BY <1>39, <1>i, TakeTerminalErrorEffect
  <2>2. slot' # Running(a)
    BY <2>1, SlotKinds
  <2> QED
    BY <2>1, <2>2 DEF Follows
<1>40. ASSUME CancelGeneration PROVE Follows(a)
  <2>1. req' = req /\ (slot' = Free \/ \E g : slot' = Ambiguous(g))
    BY <1>40, <1>i, CancelGenerationEffect
  <2>2. slot' # Running(a)
    BY <2>1, SlotKinds
  <2> QED
    BY <2>1, <2>2 DEF Follows
<1>41. ASSUME Lapse PROVE Follows(a)
  <2>1. req' = req /\ (slot' = Free \/ \E g : slot' = Ambiguous(g))
    BY <1>41, <1>i, LapseEffect
  <2>2. slot' # Running(a)
    BY <2>1, SlotKinds
  <2> QED
    BY <2>1, <2>2 DEF Follows
<1>42. ASSUME LapseError PROVE Follows(a)
  <2>1. req' = req /\ (slot' = Free \/ \E g : slot' = Ambiguous(g))
    BY <1>42, <1>i, LapseErrorEffect
  <2>2. slot' # Running(a)
    BY <2>1, SlotKinds
  <2> QED
    BY <2>1, <2>2 DEF Follows
<1>43. ASSUME NEW w \in writes, Write(w) PROVE Follows(a)
  BY <1>43, <1>i, WriteEffect DEF Follows, Published, Serving, Sealing, Publishing, OneRequest,
     RequestIs, OneRun, RunIs
<1>44. ASSUME Crash PROVE Follows(a)
  <2>1. req[a].at \in Published \cup {"orphaned"} => req'[a].at = "done"
    BY <1>44, <1>i, CrashEffect DEF RequestIs, Published
  <2>2. slot' # Running(a)
    BY <1>44, <1>i, CrashEffect, SlotKinds
  <2> QED
    BY <2>1, <2>2 DEF Follows, Published
<1> QED
  BY <1>1, <1>2, <1>3, <1>4, <1>5, <1>6, <1>7, <1>8, <1>9, <1>10, <1>11, <1>12, <1>13, <1>14,
     <1>15, <1>16, <1>17, <1>18, <1>19, <1>20, <1>21, <1>22, <1>23, <1>24, <1>25, <1>26, <1>27,
     <1>28, <1>29, <1>30, <1>31, <1>32, <1>33, <1>34, <1>35, <1>36, <1>37, <1>38, <1>39, <1>40,
     <1>41, <1>42, <1>43, <1>44 DEF Next, Step, Request, Proceed, Driver, Stage, Registry

\* The calls that a step leaves behind are of attempts that opened a Run or ended.
LEMMA StepWrites == RegistryInv /\ Next => \A w \in writes' : WriteSound(w)'
<1> SUFFICES ASSUME RegistryInv, Next, NEW w \in writes' PROVE WriteSound(w)'
  OBVIOUS
<1>i. /\ Typed /\ (\A b \in Attempts : AttemptSound(b) /\ SlotSound(b)) /\ (\A u \in writes : WriteSound(u))
      /\ \A b \in Attempts : VictimsSound(b)
  BY DEF RegistryInv
<1>o. CASE w \in writes
  <2> DEFINE b == w.owner[2]
  <2>1. /\ b \in Attempts /\ w.cancels \in Attempts \cup {NoAttempt}
        /\ w.cancels # NoAttempt => RunId(w.cancels)[2] = w.cancels /\ RunId(w.cancels)[1] = "run"
    BY <1>i, <1>o, Types, Tokens DEF Writes
  <2>2. WriteSound(w) /\ Follows(b)
    BY <1>i, <1>o, <2>1, StepFollows
  <2> HIDE DEF b
  <2>3. /\ req[b].at \in Published \cup {"orphaned"}
        /\ w.cancels # NoAttempt =>
             w.owner = RunId(w.cancels) /\ w.call = "ambiguous" /\ slot # Running(w.cancels) /\ w.cancels = b
        /\ w.owner[1] = "run" =>
             /\ req[b].at \in Published
             /\ slot = Running(b) => run[b].phase \notin Serving
    BY <2>1, <2>2 DEF WriteSound, b
  <2>4. /\ req'[b].at \in Published \cup {"orphaned"}
        /\ w.cancels # NoAttempt =>
             w.owner = RunId(w.cancels) /\ w.call = "ambiguous" /\ slot' # Running(w.cancels)
        /\ w.owner[1] = "run" =>
             /\ req'[b].at \in Published
             /\ slot' = Running(b) => run'[b].phase \notin Serving
    BY <2>2, <2>3 DEF Follows
  <2> QED
    BY <2>4 DEF WriteSound, b
<1>p. SUFFICES ASSUME w \notin writes PROVE WriteSound(w)'
  BY <1>o
<1>1. ASSUME NEW x \in Attempts, NEW f \in Operations, Claim(x, f) PROVE WriteSound(w)'
  <2>1. writes' = writes
    BY <1>1, <1>i, ClaimEffect
  <2> QED
    BY <1>p, <2>1
<1>2. ASSUME NEW x \in Attempts, NEW f \in Operations, Refuse(x, f) PROVE WriteSound(w)'
  <2>1. writes' = writes
    BY <1>2, <1>i, RefuseEffect
  <2> QED
    BY <1>p, <2>1
<1>3. ASSUME NEW x \in Attempts, NEW f \in Operations, NEW results \in BOOLEAN,
             Observe(x, f, results)
      PROVE WriteSound(w)'
  <2>1. writes' = writes
    BY <1>3, <1>i, ObserveEffect
  <2> QED
    BY <1>p, <2>1
<1>4. ASSUME NEW x \in Attempts, NEW results \in BOOLEAN, ClaimReplacement(x, results)
      PROVE WriteSound(w)'
  <2>1. writes' = writes
    BY <1>4 DEF ClaimReplacement
  <2> QED
    BY <1>p, <2>1
<1>5. ASSUME NEW x \in Attempts, ClaimVacated(x) PROVE WriteSound(w)'
  <2>1. writes' = writes
    BY <1>5, <1>i, ClaimVacatedEffect
  <2> QED
    BY <1>p, <2>1
<1>6. ASSUME NEW x \in Attempts, LoseClaim(x) PROVE WriteSound(w)'
  <2>1. writes' = writes
    BY <1>6, <1>i, LoseClaimEffect
  <2> QED
    BY <1>p, <2>1
<1>7. ASSUME NEW x \in Attempts, FinishReplacement(x) PROVE WriteSound(w)'
  <2>1. writes' = writes
    BY <1>7, <1>i, FinishReplacementEffect
  <2> QED
    BY <1>p, <2>1
<1>8. ASSUME NEW x \in Attempts, AbandonReplacement(x) PROVE WriteSound(w)'
  <2>1. writes' = writes
    BY <1>8, <1>i, AbandonReplacementEffect
  <2> QED
    BY <1>p, <2>1
<1>9. ASSUME NEW x \in Attempts, BeginDurable(x) PROVE WriteSound(w)'
  <2>1. /\ OneRequest(x) /\ req'[x].at \in {"done", "orphaned"}
        /\ w = [call |-> "clear", fp |-> req[x].op, owner |-> Res(x), cancels |-> NoAttempt]
    BY <1>9, <1>i, <1>p, BeginDurableEffect DEF RequestIs
  <2>2. w.owner[1] = "reservation" /\ w.owner[2] = x /\ w.cancels = NoAttempt
    BY <2>1, Tokens
  <2> QED
    BY <2>1, <2>2 DEF WriteSound, Published
<1>10. ASSUME NEW x \in Attempts, Withdraw(x) PROVE WriteSound(w)'
  <2>1. /\ OneRequest(x) /\ req'[x].at \in {"done", "orphaned"}
        /\ w = [call |-> "clear", fp |-> req[x].op, owner |-> Res(x), cancels |-> NoAttempt]
    BY <1>10, <1>i, <1>p, WithdrawEffect DEF RequestIs
  <2>2. w.owner[1] = "reservation" /\ w.owner[2] = x /\ w.cancels = NoAttempt
    BY <2>1, Tokens
  <2> QED
    BY <2>1, <2>2 DEF WriteSound, Published
<1>11. ASSUME NEW x \in Attempts, Dispatch(x) PROVE WriteSound(w)'
  <2>1. /\ OneRequest(x) /\ req'[x].at \in {"done", "orphaned"}
        /\ w = [call |-> "clear", fp |-> req[x].op, owner |-> Res(x), cancels |-> NoAttempt]
    BY <1>11, <1>i, <1>p, DispatchEffect DEF RequestIs
  <2>2. w.owner[1] = "reservation" /\ w.owner[2] = x /\ w.cancels = NoAttempt
    BY <2>1, Tokens
  <2> QED
    BY <2>1, <2>2 DEF WriteSound, Published
<1>12. ASSUME NEW x \in Attempts, OpenRejected(x) PROVE WriteSound(w)'
  <2>1. /\ OneRequest(x) /\ req'[x].at \in {"done", "orphaned"}
        /\ w = [call |-> "clear", fp |-> req[x].op, owner |-> Res(x), cancels |-> NoAttempt]
    BY <1>12, <1>i, <1>p, OpenRejectedEffect DEF RequestIs
  <2>2. w.owner[1] = "reservation" /\ w.owner[2] = x /\ w.cancels = NoAttempt
    BY <2>1, Tokens
  <2> QED
    BY <2>1, <2>2 DEF WriteSound, Published
<1>13. ASSUME NEW x \in Attempts, OpenUnknown(x) PROVE WriteSound(w)'
  <2>1. /\ OneRequest(x) /\ req'[x].at \in {"done", "orphaned"}
        /\ w = [call |-> "ambiguous", fp |-> req[x].op, owner |-> Res(x), cancels |-> NoAttempt]
    BY <1>13, <1>i, <1>p, OpenUnknownEffect DEF RequestIs
  <2>2. w.owner[1] = "reservation" /\ w.owner[2] = x /\ w.cancels = NoAttempt
    BY <2>1, Tokens
  <2> QED
    BY <2>1, <2>2 DEF WriteSound, Published
<1>14. ASSUME NEW x \in Attempts, DropReplacement(x) PROVE WriteSound(w)'
  <2>1. PICK v \in Attempts :
          /\ v = req[x].victim /\ req[x].at = "superseding" /\ OneRequest(x) /\ req'[x].at = "done"
          /\ w.owner = RunId(v) /\ w.cancels = NoAttempt /\ slot' = Ambiguous(run[x].stage)
    BY <1>14, <1>i, <1>p, DropReplacementEffect DEF RequestIs
  <2>2. w.owner[2] = v /\ slot' # Running(v)
    <3>1. w.owner[2] = v
      BY <2>1 DEF RunId
    <3>2. slot' # Running(v)
      BY <2>1, NotRunning
    <3> QED
      BY <3>1, <3>2
  <2>3. req'[v].at \in Published
    BY <1>i, <2>1 DEF VictimsSound, OneRequest, Published
  <2> QED
    BY <2>1, <2>2, <2>3 DEF WriteSound
<1>15. ASSUME NEW x \in Attempts, OpenSucceeds(x) PROVE WriteSound(w)'
  <2>1. writes' = writes
    BY <1>15, <1>i, OpenSucceedsEffect
  <2> QED
    BY <1>p, <2>1
<1>16. ASSUME NEW x \in Attempts, InsertTransfer(x) PROVE WriteSound(w)'
  <2>1. /\ OneRequest(x) /\ req'[x].at \in {"done", "orphaned"}
        /\ w = [call |-> "ambiguous", fp |-> req[x].op, owner |-> Res(x), cancels |-> NoAttempt]
    BY <1>16, <1>i, <1>p, InsertTransferEffect DEF RequestIs
  <2>2. w.owner[1] = "reservation" /\ w.owner[2] = x /\ w.cancels = NoAttempt
    BY <2>1, Tokens
  <2> QED
    BY <2>1, <2>2 DEF WriteSound, Published
<1>17. ASSUME NEW x \in Attempts, InsertPublish(x) PROVE WriteSound(w)'
  <2>1. writes' = writes
    BY <1>17, <1>i, InsertPublishEffect
  <2> QED
    BY <1>p, <2>1
<1>18. ASSUME NEW x \in Attempts, InsertReseal(x) PROVE WriteSound(w)'
  <2>1. writes' = writes
    BY <1>18, <1>i, InsertResealEffect
  <2> QED
    BY <1>p, <2>1
<1>19. ASSUME NEW x \in Attempts, GiveUp(x) PROVE WriteSound(w)'
  <2>1. writes' = writes
    BY <1>19, <1>i, GiveUpEffect
  <2> QED
    BY <1>p, <2>1
<1>20. ASSUME NEW x \in Attempts, NEW err \in Errors \ {"none"}, DriverFails(x, err)
       PROVE WriteSound(w)'
  <2>1. writes' = writes
    BY <1>20, <1>i, DriverFailsEffect DEF EndsRun
  <2> QED
    BY <1>p, <2>1
<1>21. ASSUME NEW x \in Attempts, NEW err \in {"other", "ambiguous"}, DriverCancelled(x, err)
       PROVE WriteSound(w)'
  <2>1. writes' = writes
    BY <1>21, <1>i, DriverCancelledEffect DEF EndsRun
  <2> QED
    BY <1>p, <2>1
<1>22. ASSUME NEW x \in Attempts, DriverFinishes(x) PROVE WriteSound(w)'
  <2>1. writes' = writes
    BY <1>22, <1>i, DriverFinishesEffect DEF EndsRun
  <2> QED
    BY <1>p, <2>1
<1>23. ASSUME NEW x \in Attempts, SealLookup(x) PROVE WriteSound(w)'
  <2>1. writes' = writes
    BY <1>23, <1>i, SealLookupEffect
  <2> QED
    BY <1>p, <2>1
<1>24. ASSUME NEW x \in Attempts, SealLedger(x) PROVE WriteSound(w)'
  <2>1. /\ req' = req /\ run[x].phase \in Sealing /\ run'[x].phase \in {"sealed", "completed"}
        /\ w.owner = RunId(x) /\ w.cancels = NoAttempt
    BY <1>24, <1>i, <1>p, SealLedgerEffect DEF RunIs
  <2>2. w.owner[2] = x /\ req'[x].at \in Published
    BY <1>i, <2>1, Tokens DEF AttemptSound
  <2> QED
    BY <2>1, <2>2 DEF WriteSound, Serving
<1>25. ASSUME NEW x \in Attempts, SealSlot(x) PROVE WriteSound(w)'
  <2>1. writes' = writes
    BY <1>25, <1>i, SealSlotEffect
  <2> QED
    BY <1>p, <2>1
<1>26. ASSUME NEW x \in Attempts, Complete(x) PROVE WriteSound(w)'
  <2>1. writes' = writes
    BY <1>26, <1>i, CompleteEffect
  <2> QED
    BY <1>p, <2>1
<1>27. ASSUME NEW x \in Attempts, SkipResume(x) PROVE WriteSound(w)'
  <2>1. writes' = writes
    BY <1>27, <1>i, SkipResumeEffect
  <2> QED
    BY <1>p, <2>1
<1>28. ASSUME NEW x \in Attempts, PrepareStage(x) PROVE WriteSound(w)'
  <2>1. writes' = writes
    BY <1>28, <1>i, PrepareStageEffect DEF EndsRun
  <2> QED
    BY <1>p, <2>1
<1>29. ASSUME NEW x \in Attempts, DispatchStage(x) PROVE WriteSound(w)'
  <2>1. writes' = writes
    BY <1>29, <1>i, DispatchStageEffect
  <2> QED
    BY <1>p, <2>1
<1>30. ASSUME NEW x \in Attempts, AcceptStage(x) PROVE WriteSound(w)'
  <2>1. writes' = writes
    BY <1>30, <1>i, AcceptStageEffect
  <2> QED
    BY <1>p, <2>1
<1>31. ASSUME NEW x \in Attempts, AcknowledgeStage(x) PROVE WriteSound(w)'
  <2>1. writes' = writes
    BY <1>31, <1>i, AcknowledgeStageEffect
  <2> QED
    BY <1>p, <2>1
<1>32. ASSUME NEW x \in Attempts, RevokeStage(x) PROVE WriteSound(w)'
  <2>1. writes' = writes
    BY <1>32, <1>i, RevokeStageEffect
  <2> QED
    BY <1>p, <2>1
<1>33. ASSUME NEW x \in Attempts, RollbackStage(x) PROVE WriteSound(w)'
  <2>1. writes' = writes
    BY <1>33, <1>i, RollbackStageEffect DEF EndsRun
  <2> QED
    BY <1>p, <2>1
<1>34. ASSUME NEW x \in Attempts, DriverVanishes(x) PROVE WriteSound(w)'
  <2>1. writes' = writes
    BY <1>34, <1>i, DriverVanishesEffect
  <2> QED
    BY <1>p, <2>1
<1>35. ASSUME NEW x \in Attempts, ConsumerMoves(x) PROVE WriteSound(w)'
  <2>1. writes' = writes
    BY <1>35, <1>i, ConsumerMovesEffect
  <2> QED
    BY <1>p, <2>1
<1>36. ASSUME NEW x \in Attempts, NEW g \in Operations, SendResume(x, g) PROVE WriteSound(w)'
  <2>1. writes' = writes
    BY <1>36, <1>i, SendResumeEffect
  <2> QED
    BY <1>p, <2>1
<1>37. ASSUME Prune PROVE WriteSound(w)'
  <2>1. writes' = writes
    BY <1>37, <1>i, PruneEffect
  <2> QED
    BY <1>p, <2>1
<1>38. ASSUME Probe PROVE WriteSound(w)'
  <2>1. PICK v \in Attempts :
          /\ slot = Running(v) /\ req' = req /\ (slot' = Free \/ \E g : slot' = Ambiguous(g))
          /\ w.owner = RunId(v) /\ w.cancels = NoAttempt
    BY <1>38, <1>i, <1>p, ProbeEffect
  <2>2. w.owner[2] = v /\ slot' # Running(v)
    <3>1. w.owner[2] = v
      BY <2>1 DEF RunId
    <3>2. slot' # Running(v)
      BY <2>1, NotRunning
    <3> QED
      BY <3>1, <3>2
  <2>3. req'[v].at \in Published
    BY <1>i, <2>1 DEF SlotSound
  <2> QED
    BY <2>1, <2>2, <2>3 DEF WriteSound
<1>39. ASSUME TakeTerminalError PROVE WriteSound(w)'
  <2>1. PICK v \in Attempts :
          /\ slot = Running(v) /\ req' = req /\ (slot' = Free \/ \E g : slot' = Ambiguous(g))
          /\ w.owner = RunId(v) /\ w.cancels = NoAttempt
    BY <1>39, <1>i, <1>p, TakeTerminalErrorEffect
  <2>2. w.owner[2] = v /\ slot' # Running(v)
    <3>1. w.owner[2] = v
      BY <2>1 DEF RunId
    <3>2. slot' # Running(v)
      BY <2>1, NotRunning
    <3> QED
      BY <3>1, <3>2
  <2>3. req'[v].at \in Published
    BY <1>i, <2>1 DEF SlotSound
  <2> QED
    BY <2>1, <2>2, <2>3 DEF WriteSound
<1>40. ASSUME CancelGeneration PROVE WriteSound(w)'
  <2>1. PICK v \in Attempts :
          /\ slot = Running(v) /\ req' = req /\ (slot' = Free \/ \E g : slot' = Ambiguous(g))
          /\ w.owner = RunId(v) /\ w.cancels = v /\ w.call = "ambiguous"
    BY <1>40, <1>i, <1>p, CancelGenerationEffect
  <2>2. w.owner[2] = v /\ slot' # Running(v)
    <3>1. w.owner[2] = v
      BY <2>1 DEF RunId
    <3>2. slot' # Running(v)
      BY <2>1, NotRunning
    <3> QED
      BY <3>1, <3>2
  <2>3. req'[v].at \in Published
    BY <1>i, <2>1 DEF SlotSound
  <2> QED
    BY <2>1, <2>2, <2>3 DEF WriteSound
<1>41. ASSUME Lapse PROVE WriteSound(w)'
  <2>1. writes' = writes
    BY <1>41, <1>i, LapseEffect
  <2> QED
    BY <1>p, <2>1
<1>42. ASSUME LapseError PROVE WriteSound(w)'
  <2>1. writes' = writes
    BY <1>42, <1>i, LapseErrorEffect
  <2> QED
    BY <1>p, <2>1
<1>43. ASSUME NEW u \in writes, Write(u) PROVE WriteSound(w)'
  <2>1. writes' \subseteq writes
    BY <1>43, <1>i, WriteEffect
  <2> QED
    BY <1>p, <2>1
<1>44. ASSUME Crash PROVE WriteSound(w)'
  <2>1. writes' = {}
    BY <1>44, <1>i, CrashEffect
  <2> QED
    BY <2>1
<1> QED
  BY <1>1, <1>2, <1>3, <1>4, <1>5, <1>6, <1>7, <1>8, <1>9, <1>10, <1>11, <1>12, <1>13, <1>14,
     <1>15, <1>16, <1>17, <1>18, <1>19, <1>20, <1>21, <1>22, <1>23, <1>24, <1>25, <1>26, <1>27,
     <1>28, <1>29, <1>30, <1>31, <1>32, <1>33, <1>34, <1>35, <1>36, <1>37, <1>38, <1>39, <1>40,
     <1>41, <1>42, <1>43, <1>44 DEF Next, Step, Request, Proceed, Driver, Stage, Registry

\* Every step but a crash keeps what takeovers rely on.
LEMMA StepOutlasts ==
  RegistryInv /\ Next /\ ~Crash => \A v \in Attempts : req[v].at \in Published => Outlasts(v)
<1> SUFFICES ASSUME RegistryInv, Next, ~Crash, NEW a \in Attempts, req[a].at \in Published
             PROVE Outlasts(a)
  OBVIOUS
<1>i. /\ Typed /\ (\A b \in Attempts : AttemptSound(b) /\ SlotSound(b))
      /\ req[a].at \in Published
  BY DEF RegistryInv
<1>1. ASSUME NEW x \in Attempts, NEW f \in Operations, Claim(x, f) PROVE Outlasts(a)
  <2>1. /\ req[x].at \notin Published /\ slot' = Starting(x) /\ OneRun(x)
    BY <1>1, <1>i, ClaimEffect DEF RequestIs, Published
  <2>2. slot'.kind = "starting" /\ run'[a] = run[a]
    BY <1>i, <2>1, SlotKinds DEF OneRun
  <2> QED
    BY <2>2 DEF Outlasts
<1>2. ASSUME NEW x \in Attempts, NEW f \in Operations, Refuse(x, f) PROVE Outlasts(a)
  <2>1. /\ run' = run
        /\ slot' = slot \/ slot' = Free \/ \E g : slot' = Ambiguous(g)
    BY <1>2, <1>i, RefuseEffect
  <2>2. slot' = slot \/ slot'.kind \in {"free", "ambiguous"}
    BY <2>1, SlotKinds
  <2> QED
    BY <2>1, <2>2 DEF Outlasts
<1>3. ASSUME NEW x \in Attempts, NEW f \in Operations, NEW results \in BOOLEAN,
             Observe(x, f, results)
      PROVE Outlasts(a)
  <2>1. /\ run' = run
        /\ slot' = slot \/ slot' = Free \/ \E g : slot' = Ambiguous(g)
    BY <1>3, <1>i, ObserveEffect
  <2>2. slot' = slot \/ slot'.kind \in {"free", "ambiguous"}
    BY <2>1, SlotKinds
  <2> QED
    BY <2>1, <2>2 DEF Outlasts
<1>4. ASSUME NEW x \in Attempts, NEW results \in BOOLEAN, ClaimReplacement(x, results)
      PROVE Outlasts(a)
  <2>1. PICK v \in Attempts : TakesOver(x, v)
    BY <1>4, <1>i, ClaimReplacementEffect
  <2>2. slot' = Starting(x) /\ req[x].at = "waiting"
    BY <1>4, <1>i, ClaimReplacementEffect
  <2>3. slot'.kind = "starting" /\ a # x
    BY <1>i, <2>2, SlotKinds DEF Published
  <2>4. run'[a].stage = run[a].stage /\ run'[a].next = run[a].next /\ run'[a].err = run[a].err
    BY <2>1, <2>3 DEF TakesOver, RunIs
  <2> QED
    BY <2>3, <2>4 DEF Outlasts
<1>5. ASSUME NEW x \in Attempts, ClaimVacated(x) PROVE Outlasts(a)
  <2>1. /\ req[x].at \notin Published /\ slot' = Starting(x) /\ OneRun(x)
    BY <1>5, <1>i, ClaimVacatedEffect DEF RequestIs, Published
  <2>2. slot'.kind = "starting" /\ run'[a] = run[a]
    BY <1>i, <2>1, SlotKinds DEF OneRun
  <2> QED
    BY <2>2 DEF Outlasts
<1>6. ASSUME NEW x \in Attempts, LoseClaim(x) PROVE Outlasts(a)
  <2>1. /\ run' = run
        /\ slot' = slot \/ slot' = Free \/ \E g : slot' = Ambiguous(g)
    BY <1>6, <1>i, LoseClaimEffect
  <2>2. slot' = slot \/ slot'.kind \in {"free", "ambiguous"}
    BY <2>1, SlotKinds
  <2> QED
    BY <2>1, <2>2 DEF Outlasts
<1>7. ASSUME NEW x \in Attempts, FinishReplacement(x) PROVE Outlasts(a)
  <2>1. /\ req[x].at \notin Published /\ OneRun(x)
        /\ slot' = slot
    BY <1>7, <1>i, FinishReplacementEffect DEF RequestIs, OneRun, Published, Typed, TypeOK
  <2> QED
    BY <1>i, <2>1 DEF Outlasts, OneRun
<1>8. ASSUME NEW x \in Attempts, AbandonReplacement(x) PROVE Outlasts(a)
  <2>1. /\ run' = run
        /\ slot' = slot \/ slot' = Free \/ \E g : slot' = Ambiguous(g)
    BY <1>8, <1>i, AbandonReplacementEffect
  <2>2. slot' = slot \/ slot'.kind \in {"free", "ambiguous"}
    BY <2>1, SlotKinds
  <2> QED
    BY <2>1, <2>2 DEF Outlasts
<1>9. ASSUME NEW x \in Attempts, BeginDurable(x) PROVE Outlasts(a)
  <2>1. /\ run' = run
        /\ slot' = slot \/ slot' = Free \/ \E g : slot' = Ambiguous(g)
    BY <1>9, <1>i, BeginDurableEffect
  <2>2. slot' = slot \/ slot'.kind \in {"free", "ambiguous"}
    BY <2>1, SlotKinds
  <2> QED
    BY <2>1, <2>2 DEF Outlasts
<1>10. ASSUME NEW x \in Attempts, Withdraw(x) PROVE Outlasts(a)
  <2>1. /\ run' = run
        /\ slot' = slot \/ slot' = Free \/ \E g : slot' = Ambiguous(g)
    BY <1>10, <1>i, WithdrawEffect
  <2>2. slot' = slot \/ slot'.kind \in {"free", "ambiguous"}
    BY <2>1, SlotKinds
  <2> QED
    BY <2>1, <2>2 DEF Outlasts
<1>11. ASSUME NEW x \in Attempts, Dispatch(x) PROVE Outlasts(a)
  <2>1. /\ run' = run
        /\ slot' = slot \/ slot' = Free \/ \E g : slot' = Ambiguous(g)
    BY <1>11, <1>i, DispatchEffect
  <2>2. slot' = slot \/ slot'.kind \in {"free", "ambiguous"}
    BY <2>1, SlotKinds
  <2> QED
    BY <2>1, <2>2 DEF Outlasts
<1>12. ASSUME NEW x \in Attempts, OpenRejected(x) PROVE Outlasts(a)
  <2>1. /\ run' = run
        /\ slot' = slot \/ slot' = Free \/ \E g : slot' = Ambiguous(g)
    BY <1>12, <1>i, OpenRejectedEffect
  <2>2. slot' = slot \/ slot'.kind \in {"free", "ambiguous"}
    BY <2>1, SlotKinds
  <2> QED
    BY <2>1, <2>2 DEF Outlasts
<1>13. ASSUME NEW x \in Attempts, OpenUnknown(x) PROVE Outlasts(a)
  <2>1. /\ run' = run
        /\ slot' = slot \/ slot' = Free \/ \E g : slot' = Ambiguous(g)
    BY <1>13, <1>i, OpenUnknownEffect
  <2>2. slot' = slot \/ slot'.kind \in {"free", "ambiguous"}
    BY <2>1, SlotKinds
  <2> QED
    BY <2>1, <2>2 DEF Outlasts
<1>14. ASSUME NEW x \in Attempts, DropReplacement(x) PROVE Outlasts(a)
  <2>1. /\ run' = run
        /\ slot' = slot \/ slot' = Free \/ \E g : slot' = Ambiguous(g)
    BY <1>14, <1>i, DropReplacementEffect
  <2>2. slot' = slot \/ slot'.kind \in {"free", "ambiguous"}
    BY <2>1, SlotKinds
  <2> QED
    BY <2>1, <2>2 DEF Outlasts
<1>15. ASSUME NEW x \in Attempts, OpenSucceeds(x) PROVE Outlasts(a)
  <2>1. /\ req[x].at \notin Published /\ OneRun(x)
        /\ slot' = slot
    BY <1>15, <1>i, OpenSucceedsEffect DEF RequestIs, OneRun, Published, Typed, TypeOK
  <2> QED
    BY <1>i, <2>1 DEF Outlasts, OneRun
<1>16. ASSUME NEW x \in Attempts, InsertTransfer(x) PROVE Outlasts(a)
  BY <1>16, <1>i, InsertTransferEffect DEF Outlasts, Published, OneRequest, RequestIs, OneRun,
     RunIs
<1>17. ASSUME NEW x \in Attempts, InsertPublish(x) PROVE Outlasts(a)
  <2>1. req[x].at = "transferred" /\ run' = run /\ slot' = Running(x)
    BY <1>17, <1>i, InsertPublishEffect
  <2>2. slot'.kind = "running" /\ slot'.by = x /\ a # x
    BY <1>i, <2>1, SlotsDiffer DEF Published
  <2> QED
    BY <2>1, <2>2 DEF Outlasts
<1>18. ASSUME NEW x \in Attempts, InsertReseal(x) PROVE Outlasts(a)
  BY <1>18, <1>i, InsertResealEffect DEF Outlasts, Published, OneRequest, RequestIs, OneRun,
     RunIs
<1>19. ASSUME NEW x \in Attempts, GiveUp(x) PROVE Outlasts(a)
  BY <1>19, <1>i, GiveUpEffect DEF Outlasts, Published, OneRequest, RequestIs, OneRun, RunIs
<1>20. ASSUME NEW x \in Attempts, NEW err \in Errors \ {"none"}, DriverFails(x, err)
       PROVE Outlasts(a)
  BY <1>20, <1>i, DriverFailsEffect DEF Outlasts, Published, OneRequest, RequestIs, OneRun,
     RunIs, EndsRun
<1>21. ASSUME NEW x \in Attempts, NEW err \in {"other", "ambiguous"}, DriverCancelled(x, err)
       PROVE Outlasts(a)
  BY <1>21, <1>i, DriverCancelledEffect DEF Outlasts, Published, OneRequest, RequestIs, OneRun,
     RunIs, EndsRun
<1>22. ASSUME NEW x \in Attempts, DriverFinishes(x) PROVE Outlasts(a)
  BY <1>22, <1>i, DriverFinishesEffect DEF Outlasts, Published, OneRequest, RequestIs, OneRun,
     RunIs, EndsRun
<1>23. ASSUME NEW x \in Attempts, SealLookup(x) PROVE Outlasts(a)
  BY <1>23, <1>i, SealLookupEffect DEF Outlasts, Published, OneRequest, RequestIs, OneRun, RunIs
<1>24. ASSUME NEW x \in Attempts, SealLedger(x) PROVE Outlasts(a)
  BY <1>24, <1>i, SealLedgerEffect DEF Outlasts, Published, OneRequest, RequestIs, OneRun, RunIs
<1>25. ASSUME NEW x \in Attempts, SealSlot(x) PROVE Outlasts(a)
  <2>1. /\ OneRun(x) /\ run'[x].stage = run[x].stage /\ run'[x].next = run[x].next /\ run'[x].err = run[x].err
        /\ slot' = IF slot = Running(x) THEN Succeeded(x, run[x].stage) ELSE slot
    BY <1>25, <1>i, SealSlotEffect DEF RunIs
  <2>2. \/ slot' = slot
        \/ slot'.kind = "succeeded" /\ slot'.by = x /\ slot.kind = "running" /\ slot.by = x
    BY <2>1, SlotsDiffer
  <2> QED
    BY <2>1, <2>2 DEF Outlasts, OneRun
<1>26. ASSUME NEW x \in Attempts, Complete(x) PROVE Outlasts(a)
  BY <1>26, <1>i, CompleteEffect DEF Outlasts, Published, OneRequest, RequestIs, OneRun, RunIs
<1>27. ASSUME NEW x \in Attempts, SkipResume(x) PROVE Outlasts(a)
  BY <1>27, <1>i, SkipResumeEffect DEF Outlasts, Published, OneRequest, RequestIs, OneRun, RunIs
<1>28. ASSUME NEW x \in Attempts, PrepareStage(x) PROVE Outlasts(a)
  BY <1>28, <1>i, PrepareStageEffect DEF Outlasts, Published, OneRequest, RequestIs, OneRun,
     RunIs, EndsRun
<1>29. ASSUME NEW x \in Attempts, DispatchStage(x) PROVE Outlasts(a)
  BY <1>29, <1>i, DispatchStageEffect DEF Outlasts, Published, OneRequest, RequestIs, OneRun,
     RunIs
<1>30. ASSUME NEW x \in Attempts, AcceptStage(x) PROVE Outlasts(a)
  BY <1>30, <1>i, AcceptStageEffect DEF Outlasts, Published, OneRequest, RequestIs, OneRun,
     RunIs
<1>31. ASSUME NEW x \in Attempts, AcknowledgeStage(x) PROVE Outlasts(a)
  BY <1>31, <1>i, AcknowledgeStageEffect DEF Outlasts, Published, OneRequest, RequestIs, OneRun,
     RunIs
<1>32. ASSUME NEW x \in Attempts, RevokeStage(x) PROVE Outlasts(a)
  BY <1>32, <1>i, RevokeStageEffect DEF Outlasts, Published, OneRequest, RequestIs, OneRun,
     RunIs
<1>33. ASSUME NEW x \in Attempts, RollbackStage(x) PROVE Outlasts(a)
  BY <1>33, <1>i, RollbackStageEffect DEF Outlasts, Published, OneRequest, RequestIs, OneRun,
     RunIs, EndsRun
<1>34. ASSUME NEW x \in Attempts, DriverVanishes(x) PROVE Outlasts(a)
  BY <1>34, <1>i, DriverVanishesEffect DEF Outlasts, Published, OneRequest, RequestIs, OneRun,
     RunIs
<1>35. ASSUME NEW x \in Attempts, ConsumerMoves(x) PROVE Outlasts(a)
  BY <1>35, <1>i, ConsumerMovesEffect DEF Outlasts, Published, OneRequest, RequestIs, OneRun,
     RunIs
<1>36. ASSUME NEW x \in Attempts, NEW g \in Operations, SendResume(x, g) PROVE Outlasts(a)
  BY <1>36, <1>i, SendResumeEffect DEF Outlasts, Published, OneRequest, RequestIs, OneRun, RunIs
<1>37. ASSUME Prune PROVE Outlasts(a)
  <2>1. /\ run' = run
        /\ slot' = slot \/ slot' = Free \/ \E g : slot' = Ambiguous(g)
    BY <1>37, <1>i, PruneEffect
  <2>2. slot' = slot \/ slot'.kind \in {"free", "ambiguous"}
    BY <2>1, SlotKinds
  <2> QED
    BY <2>1, <2>2 DEF Outlasts
<1>38. ASSUME Probe PROVE Outlasts(a)
  <2>1. PICK v \in Attempts :
          /\ slot = Running(v) /\ (slot' = Free \/ \E g : slot' = Ambiguous(g))
          /\ \/ run' = run
             \/ OneRun(v) /\ run'[v].stage = run[v].stage /\ run'[v].next = run[v].next
    BY <1>38, <1>i, ProbeEffect DEF RunIs
  <2>2. slot.kind = "running" /\ slot'.kind \in {"free", "ambiguous"}
    BY <2>1, SlotKinds
  <2> QED
    BY <2>1, <2>2 DEF Outlasts, OneRun
<1>39. ASSUME TakeTerminalError PROVE Outlasts(a)
  <2>1. PICK v \in Attempts :
          /\ slot = Running(v) /\ (slot' = Free \/ \E g : slot' = Ambiguous(g))
          /\ \/ run' = run
             \/ OneRun(v) /\ run'[v].stage = run[v].stage /\ run'[v].next = run[v].next
    BY <1>39, <1>i, TakeTerminalErrorEffect DEF RunIs
  <2>2. slot.kind = "running" /\ slot'.kind \in {"free", "ambiguous"}
    BY <2>1, SlotKinds
  <2> QED
    BY <2>1, <2>2 DEF Outlasts, OneRun
<1>40. ASSUME CancelGeneration PROVE Outlasts(a)
  <2>1. /\ run' = run
        /\ slot' = slot \/ slot' = Free \/ \E g : slot' = Ambiguous(g)
    BY <1>40, <1>i, CancelGenerationEffect
  <2>2. slot' = slot \/ slot'.kind \in {"free", "ambiguous"}
    BY <2>1, SlotKinds
  <2> QED
    BY <2>1, <2>2 DEF Outlasts
<1>41. ASSUME Lapse PROVE Outlasts(a)
  <2>1. /\ run' = run
        /\ slot' = slot \/ slot' = Free \/ \E g : slot' = Ambiguous(g)
    BY <1>41, <1>i, LapseEffect
  <2>2. slot' = slot \/ slot'.kind \in {"free", "ambiguous"}
    BY <2>1, SlotKinds
  <2> QED
    BY <2>1, <2>2 DEF Outlasts
<1>42. ASSUME LapseError PROVE Outlasts(a)
  <2>1. /\ run' = run
        /\ slot' = slot \/ slot' = Free \/ \E g : slot' = Ambiguous(g)
    BY <1>42, <1>i, LapseErrorEffect
  <2>2. slot' = slot \/ slot'.kind \in {"free", "ambiguous"}
    BY <2>1, SlotKinds
  <2> QED
    BY <2>1, <2>2 DEF Outlasts
<1>43. ASSUME NEW w \in writes, Write(w) PROVE Outlasts(a)
  BY <1>43, <1>i, WriteEffect DEF Outlasts, Published, OneRequest, RequestIs, OneRun, RunIs
<1>44. ASSUME Crash PROVE Outlasts(a)
  BY <1>44
<1> QED
  BY <1>1, <1>2, <1>3, <1>4, <1>5, <1>6, <1>7, <1>8, <1>9, <1>10, <1>11, <1>12, <1>13, <1>14,
     <1>15, <1>16, <1>17, <1>18, <1>19, <1>20, <1>21, <1>22, <1>23, <1>24, <1>25, <1>26, <1>27,
     <1>28, <1>29, <1>30, <1>31, <1>32, <1>33, <1>34, <1>35, <1>36, <1>37, <1>38, <1>39, <1>40,
     <1>41, <1>42, <1>43, <1>44 DEF Next, Step, Request, Proceed, Driver, Stage, Registry

\* Requests only go forward; only a dispatch begins an open, and only the
\* ledger's answer ends a seal; an observation or a takeover makes a request
\* depend on a Run.
LEMMA StepMoves == Typed /\ (\A b \in Attempts : SlotSound(b)) /\ Next => \A a \in Attempts : Moves(a)
<1> SUFFICES ASSUME Typed, \A b \in Attempts : SlotSound(b), Next, NEW a \in Attempts
             PROVE  Moves(a)
  OBVIOUS
<1>i. Typed /\ \A b \in Attempts : SlotSound(b)
  OBVIOUS
<1> USE DEF Moves, Proceeds, Opens, Arrives, Unclaimed, OneRequest, RequestIs, OneRun, RunIs,
            Sealing, Publishing
<1>1. ASSUME NEW x \in Attempts, NEW f \in Operations, Claim(x, f) PROVE Moves(a)
  BY <1>1, <1>i, ClaimEffect
<1>2. ASSUME NEW x \in Attempts, NEW f \in Operations, Refuse(x, f) PROVE Moves(a)
  BY <1>2, <1>i, RefuseEffect
<1>3. ASSUME NEW x \in Attempts, NEW f \in Operations, NEW results \in BOOLEAN,
             Observe(x, f, results)
      PROVE Moves(a)
  BY <1>3, <1>i, ObserveEffect DEF Takes
<1>4. ASSUME NEW x \in Attempts, NEW results \in BOOLEAN, ClaimReplacement(x, results)
      PROVE Moves(a)
  <2>1. /\ OneRequest(x) /\ RequestIs(req'[x], "superseding", req[x].op, req[x].victim)
        /\ req[x].at = "waiting"
    BY <1>4, <1>i, ClaimReplacementEffect
  <2>2. PICK v \in Attempts : TakesOver(x, v)
    BY <1>4, <1>i, ClaimReplacementEffect
  <2>3. \A y \in Attempts : run'[y].phase = run[y].phase
    BY <2>2 DEF TakesOver
  <2> QED
    BY <1>4, <2>1, <2>3 DEF Takes
<1>5. ASSUME NEW x \in Attempts, ClaimVacated(x) PROVE Moves(a)
  BY <1>5, <1>i, ClaimVacatedEffect
<1>6. ASSUME NEW x \in Attempts, LoseClaim(x) PROVE Moves(a)
  BY <1>6, <1>i, LoseClaimEffect
<1>7. ASSUME NEW x \in Attempts, FinishReplacement(x) PROVE Moves(a)
  BY <1>7, <1>i, FinishReplacementEffect
<1>8. ASSUME NEW x \in Attempts, AbandonReplacement(x) PROVE Moves(a)
  BY <1>8, <1>i, AbandonReplacementEffect
<1>9. ASSUME NEW x \in Attempts, BeginDurable(x) PROVE Moves(a)
  BY <1>9, <1>i, BeginDurableEffect
<1>10. ASSUME NEW x \in Attempts, Withdraw(x) PROVE Moves(a)
  BY <1>10, <1>i, WithdrawEffect
<1>11. ASSUME NEW x \in Attempts, Dispatch(x) PROVE Moves(a)
  BY <1>11, <1>i, DispatchEffect
<1>12. ASSUME NEW x \in Attempts, OpenRejected(x) PROVE Moves(a)
  BY <1>12, <1>i, OpenRejectedEffect
<1>13. ASSUME NEW x \in Attempts, OpenUnknown(x) PROVE Moves(a)
  BY <1>13, <1>i, OpenUnknownEffect
<1>14. ASSUME NEW x \in Attempts, DropReplacement(x) PROVE Moves(a)
  BY <1>14, <1>i, DropReplacementEffect
<1>15. ASSUME NEW x \in Attempts, OpenSucceeds(x) PROVE Moves(a)
  BY <1>15, <1>i, OpenSucceedsEffect
<1>16. ASSUME NEW x \in Attempts, InsertTransfer(x) PROVE Moves(a)
  BY <1>16, <1>i, InsertTransferEffect
<1>17. ASSUME NEW x \in Attempts, InsertPublish(x) PROVE Moves(a)
  BY <1>17, <1>i, InsertPublishEffect
<1>18. ASSUME NEW x \in Attempts, InsertReseal(x) PROVE Moves(a)
  BY <1>18, <1>i, InsertResealEffect
<1>19. ASSUME NEW x \in Attempts, GiveUp(x) PROVE Moves(a)
  BY <1>19, <1>i, GiveUpEffect
<1>20. ASSUME NEW x \in Attempts, NEW err \in Errors \ {"none"}, DriverFails(x, err)
       PROVE Moves(a)
  BY <1>20, <1>i, DriverFailsEffect DEF EndsRun
<1>21. ASSUME NEW x \in Attempts, NEW err \in {"other", "ambiguous"}, DriverCancelled(x, err)
       PROVE Moves(a)
  BY <1>21, <1>i, DriverCancelledEffect DEF EndsRun
<1>22. ASSUME NEW x \in Attempts, DriverFinishes(x) PROVE Moves(a)
  BY <1>22, <1>i, DriverFinishesEffect DEF EndsRun
<1>23. ASSUME NEW x \in Attempts, SealLookup(x) PROVE Moves(a)
  BY <1>23, <1>i, SealLookupEffect
<1>24. ASSUME NEW x \in Attempts, SealLedger(x) PROVE Moves(a)
  BY <1>24, <1>i, SealLedgerEffect
<1>25. ASSUME NEW x \in Attempts, SealSlot(x) PROVE Moves(a)
  BY <1>25, <1>i, SealSlotEffect
<1>26. ASSUME NEW x \in Attempts, Complete(x) PROVE Moves(a)
  BY <1>26, <1>i, CompleteEffect
<1>27. ASSUME NEW x \in Attempts, SkipResume(x) PROVE Moves(a)
  BY <1>27, <1>i, SkipResumeEffect
<1>28. ASSUME NEW x \in Attempts, PrepareStage(x) PROVE Moves(a)
  BY <1>28, <1>i, PrepareStageEffect DEF EndsRun
<1>29. ASSUME NEW x \in Attempts, DispatchStage(x) PROVE Moves(a)
  BY <1>29, <1>i, DispatchStageEffect
<1>30. ASSUME NEW x \in Attempts, AcceptStage(x) PROVE Moves(a)
  BY <1>30, <1>i, AcceptStageEffect
<1>31. ASSUME NEW x \in Attempts, AcknowledgeStage(x) PROVE Moves(a)
  BY <1>31, <1>i, AcknowledgeStageEffect
<1>32. ASSUME NEW x \in Attempts, RevokeStage(x) PROVE Moves(a)
  BY <1>32, <1>i, RevokeStageEffect
<1>33. ASSUME NEW x \in Attempts, RollbackStage(x) PROVE Moves(a)
  BY <1>33, <1>i, RollbackStageEffect DEF EndsRun
<1>34. ASSUME NEW x \in Attempts, DriverVanishes(x) PROVE Moves(a)
  BY <1>34, <1>i, DriverVanishesEffect
<1>35. ASSUME NEW x \in Attempts, ConsumerMoves(x) PROVE Moves(a)
  BY <1>35, <1>i, ConsumerMovesEffect
<1>36. ASSUME NEW x \in Attempts, NEW g \in Operations, SendResume(x, g) PROVE Moves(a)
  BY <1>36, <1>i, SendResumeEffect
<1>37. ASSUME Prune PROVE Moves(a)
  BY <1>37, <1>i, PruneEffect
<1>38. ASSUME Probe PROVE Moves(a)
  BY <1>38, <1>i, ProbeEffect
<1>39. ASSUME TakeTerminalError PROVE Moves(a)
  BY <1>39, <1>i, TakeTerminalErrorEffect
<1>40. ASSUME CancelGeneration PROVE Moves(a)
  BY <1>40, <1>i, CancelGenerationEffect
<1>41. ASSUME Lapse PROVE Moves(a)
  BY <1>41, <1>i, LapseEffect
<1>42. ASSUME LapseError PROVE Moves(a)
  BY <1>42, <1>i, LapseErrorEffect
<1>43. ASSUME NEW w \in writes, Write(w) PROVE Moves(a)
  BY <1>43, <1>i, WriteEffect
<1>44. ASSUME Crash PROVE Moves(a)
  BY <1>44, <1>i, CrashEffect
<1> QED
  BY <1>1, <1>2, <1>3, <1>4, <1>5, <1>6, <1>7, <1>8, <1>9, <1>10, <1>11, <1>12, <1>13, <1>14,
     <1>15, <1>16, <1>17, <1>18, <1>19, <1>20, <1>21, <1>22, <1>23, <1>24, <1>25, <1>26, <1>27,
     <1>28, <1>29, <1>30, <1>31, <1>32, <1>33, <1>34, <1>35, <1>36, <1>37, <1>38, <1>39, <1>40,
     <1>41, <1>42, <1>43, <1>44 DEF Next, Step, Request, Proceed, Driver, Stage, Registry

\* A takeover stays one of a published Run, and of one that failed if it is for
\* an operation of that Run.
LEMMA StepVictims == RegistryInv /\ Next => \A c \in Attempts : VictimsSound(c)'
<1> SUFFICES ASSUME RegistryInv, Next, NEW c \in Attempts,
                    req'[c].at \in {"waiting", "superseding"}
             PROVE  VictimsSound(c)'
  BY DEF VictimsSound
<1>i. /\ Typed /\ (\A b \in Attempts : AttemptSound(b) /\ SlotSound(b))
      /\ (\A b \in Attempts : VictimsSound(b)) /\ \A b \in Attempts : Follows(b)
  BY StepFollows DEF RegistryInv
<1>1. CASE Crash
  BY <1>i, <1>1, CrashEffect DEF RequestIs
<1>2. CASE ~Crash /\ req'[c] = req[c]
  <2> DEFINE v == req[c].victim
  <2>1. v \in Attempts /\ req[c].op # Unknown
    BY <1>i, <1>2, Types DEF AttemptSound, Unopened
  <2>2. /\ req[v].at \in Published
        /\ req[c].op \in {run[v].stage, run[v].next} =>
             \/ run[v].err # "none"
             \/ req[c].at = "waiting" /\ ~(slot.kind \in {"running", "succeeded"} /\ slot.by = v)
    BY <1>i, <1>2 DEF VictimsSound
  <2>3. Outlasts(v) /\ Follows(v)
    BY <1>i, <1>2, <2>1, <2>2, StepOutlasts
  <2>4. slot.kind # "starting" => req[c].at = "waiting"
    BY <1>i, <1>2, SlotKinds DEF SlotSound, Reserving
  <2> HIDE DEF v
  <2>5. /\ req'[v].at \in Published
        /\ req[c].op \in {run'[v].stage, run'[v].next} =>
             \/ run'[v].err # "none"
             \/ req[c].at = "waiting" /\ ~(slot'.kind \in {"running", "succeeded"} /\ slot'.by = v)
    BY <2>1, <2>2, <2>3, <2>4 DEF Outlasts, Follows
  <2> QED
    BY <1>2, <2>5 DEF VictimsSound, v
<1>3. ASSUME NEW f \in Operations, NEW results \in BOOLEAN, Observe(c, f, results)
      PROVE  VictimsSound(c)'
  <2>1. PICK v \in Attempts :
          /\ slot = Running(v) /\ ~(IsCompleted(v) /\ run[v].err = "none")
          /\ results \/ IsReplaceable(v)
          /\ Visible(v) => f \notin {run[v].stage, run[v].next}
          /\ OneRequest(c) /\ RequestIs(req'[c], "waiting", f, v)
    BY <1>i, <1>3, ObserveEffect
  <2>2. run' = run
    BY <1>i, <1>3, ObserveEffect
  <2>3. req'[v].at \in Published
    BY <1>i, <2>1 DEF SlotSound, Follows
  <2>4. f \in {run[v].stage, run[v].next} => run[v].err # "none"
    BY <1>i, <2>1, Types DEF SlotSound, Visible
  <2> QED
    BY <2>1, <2>2, <2>3, <2>4 DEF VictimsSound, RequestIs
<1>4. ASSUME NEW results \in BOOLEAN, ClaimReplacement(c, results) PROVE VictimsSound(c)'
  <2>1. VictimsSound(c) /\ req[c].at = "waiting"
    BY <1>4, <1>i, Types DEF ClaimReplacement
  <2>2. PICK v \in Attempts : TakesOver(c, v)
    BY <1>4, <2>1, <1>i, ClaimReplacementEffect
  <2>3. RequestIs(req'[c], "superseding", req[c].op, req[c].victim)
    BY <1>4, <2>1, <1>i, ClaimReplacementEffect
  <2>4. slot.kind = "running" /\ slot.by = v
    BY <2>2, SlotsDiffer DEF TakesOver
  <2>5. /\ req[v].at \in Published
        /\ req[c].op \in {run[v].stage, run[v].next} => run[v].err # "none"
    BY <2>1, <2>2, <2>4 DEF TakesOver, VictimsSound
  <2>6. req'[v].at \in Published
    BY <1>i, <2>2, <2>5 DEF Follows
  <2> QED
    BY <2>2, <2>3, <2>5, <2>6 DEF TakesOver, VictimsSound, RequestIs, RunIs
<1> QED
  BY <1>1, <1>2, <1>3, <1>4, StepMoves DEF Takes, Moves, Arrives, RegistryInv

-----------------------------------------------------------------------------
(* The theorems that need no more than the registry.                        *)

\* At the start no request has come and no Run has been opened.
LEMMA RegistryStarts == Init => RegistryInv
<1> SUFFICES ASSUME Init PROVE RegistryInv
  OBVIOUS
<1>1. Typed
  <2>1. ledger \in Record
    BY DEF Init, EmptyRecord, Record, Never
  <2>2. Free \in Slots /\ Arriving \in Requests /\ NoRun \in RunState
    BY LiveRegistryAssumption, NoRunType DEF Slots, Arriving, Requests, Places
  <2>3. /\ req \in [Attempts -> Requests] /\ run \in [Attempts -> RunState]
        /\ \A a \in Attempts : req[a] = Arriving
    BY <2>2 DEF Init
  <2> QED
    BY <2>1, <2>2, <2>3, LiveRegistryAssumption DEF Typed, TypeOK, Init, Arriving
<1>2. /\ \A a \in Attempts : req[a].at = "idle" /\ RunIs(run[a], "none", Unknown, Unknown, "none",
                                                         FALSE)
      /\ slot.kind = "free" /\ slot = Free /\ writes = {}
  BY DEF Init, Arriving, NoRun, RunIs, Free
<1>3. \A a \in Attempts : slot # Starting(a) /\ slot # Running(a)
  BY <1>2, SlotsDiffer
<1> QED
  BY <1>1, <1>2, <1>3 DEF RegistryInv, AttemptSound, SlotSound, Reserving, LiveIsPlaced, VictimsSound,
     EndsSealed, TowardsSeal, RunIs, Unopened, Serving, Rotation, Sealing, Publishing

\* The registry part of the invariant is inductive.
LEMMA RegistrySteps == RegistryInv /\ [Next]_vars => RegistryInv'
<1>1. ASSUME RegistryInv, Next PROVE RegistryInv'
  <2>1. Typed'
    BY <1>1, StepTypes DEF RegistryInv
  <2> QED
    BY <1>1, <2>1, StepAttempts, StepSlot, StepPlaced, StepWrites, StepVictims, StepEnds DEF RegistryInv
<1>2. ASSUME RegistryInv, UNCHANGED vars PROVE RegistryInv'
  BY <1>2 DEF vars, RegistryInv, Typed, TypeOK, AttemptSound, SlotSound, Reserving, LiveIsPlaced, Doomed,
     WriteSound, VictimsSound, EndsSealed, TowardsSeal, EarlyFinish
<1> QED
  BY <1>1, <1>2

\* What the slot, the requests, the Runs and the pending calls know of one
\* another holds at all times.
THEOREM RegistryInvariant == Spec => []RegistryInv
  BY RegistryStarts, RegistrySteps, PTL DEF Spec

\* Type correctness of the slot, the record, the requests, the Runs and the
\* pending calls (LiveRunRegistry, LiveRunHandle, OperationRecord).
THEOREM TypeCorrect == Spec => []TypeOK
<1>1. RegistryInv => TypeOK
  BY DEF RegistryInv, Typed
<1> QED
  BY RegistryInvariant, <1>1, PTL

\* A session has one reservation and one healthy upstream at a time: the
\* exclusive claim of LiveRunReservation holds through replacement,
\* cancellation, probing, publication and restarts.
THEOREM OneRunAtATime == Spec => []OneRunPerSession
<1>1. ASSUME RegistryInv PROVE ReservationExclusive
  BY <1>1 DEF RegistryInv, SlotSound, ReservationExclusive
<1>2. ASSUME RegistryInv PROVE OneLiveUpstream
  <2> SUFFICES ASSUME NEW a \in Attempts, NEW b \in Attempts,
                      run[a].phase \in Serving /\ ~Doomed(a), run[b].phase \in Serving /\ ~Doomed(b)
               PROVE  a = b
    BY DEF OneLiveUpstream
  <2>1. \A x \in {a, b} : slot = Running(x) \/ slot = Starting(x)
    BY <1>2 DEF RegistryInv, LiveIsPlaced, SlotSound, Reserving
  <2>2. \A x \in {a, b} : slot.by = x
    BY <2>1, SlotsDiffer
  <2> QED
    BY <2>2
<1> QED
  BY RegistryInvariant, <1>1, <1>2, PTL DEF OneRunPerSession

\* A Run that is in the slot before its driver is done with it is sealed before
\* `completed` (seal_success_if), in every build: no takeover, failing write or
\* early end leaves a success of its driver behind.
THEOREM SuccessIsSealed == Spec => PublishedIsSealed
<1>1. ASSUME RegistryInv, [Next]_vars, NEW a \in Attempts, ToBeSealed(a)
      PROVE  ToBeSealed(a)' \/ slot' # Running(a) \/ run'[a].err # "none"
  <2>1. TowardsSeal(a) /\ req[a].at \in Published
    BY <1>1 DEF RegistryInv, SlotSound, TowardsSeal, ToBeSealed, Unended, Published
  <2>2. TowardsSeal(a)'
    <3>1. ASSUME Next PROVE TowardsSeal(a)'
      BY <1>1, <2>1, <3>1, StepTowardsSeal DEF Published
    <3>2. ASSUME UNCHANGED vars PROVE TowardsSeal(a)'
      BY <2>1, <3>2 DEF vars, TowardsSeal
    <3> QED
      BY <1>1, <3>1, <3>2
  <2> QED
    BY <2>2 DEF TowardsSeal, ToBeSealed, Unended
<1>2. RegistryInv /\ [Next]_vars =>
        [\A a \in Attempts :
           ToBeSealed(a) => ToBeSealed(a)' \/ slot' # Running(a) \/ run'[a].err # "none"]_vars
  BY <1>1
<1> QED
  BY RegistryInvariant, <1>2, PTL DEF Spec, PublishedIsSealed

\* So no prune finds such a Run as a success that nothing else remembers
\* (prune_finished), however often the slot changes hands meanwhile.
THEOREM SealedForGood == \A a \in Attempts : Spec => NeverUnsealed(a)
<1> SUFFICES ASSUME NEW a \in Attempts PROVE Spec => NeverUnsealed(a)
  OBVIOUS
<1> DEFINE Out == req[a].at \in Published /\ TowardsSeal(a)
<1>1. RegistryInv /\ ToBeSealed(a) => Out
  BY DEF RegistryInv, SlotSound, TowardsSeal, ToBeSealed, Unended, Published
<1>2. RegistryInv /\ Out /\ [Next]_vars => Out'
  <2>1. ASSUME RegistryInv, Out, Next  PROVE Out'
    BY <2>1, StepTowardsSeal, StepFollows DEF Follows, Published
  <2>2. ASSUME Out, UNCHANGED vars  PROVE Out'
    BY <2>2 DEF vars, TowardsSeal
  <2> QED
    BY <2>1, <2>2
<1>3. Out => ~Unsealed(a)
  BY DEF TowardsSeal, Unsealed, Serving
<1> QED
  BY RegistryInvariant, <1>1, <1>2, <1>3, PTL DEF Spec, NeverUnsealed

\* A success tombstone, which replays the answer of its Run, is never of a Run
\* that failed (terminal_error keeps seal_success_if from sealing).
THEOREM SuccessesAreTrue == Spec => []FailureNotSealed
<1>1. ASSUME RegistryInv PROVE FailureNotSealed
  <2> SUFFICES ASSUME slot.kind = "succeeded" PROVE run[slot.by].err = "none"
    BY DEF FailureNotSealed
  <2>1. slot.by \in Attempts
    BY <1>1, SlotCases, Types DEF RegistryInv
  <2> QED
    BY <1>1, <2>1 DEF RegistryInv, SlotSound
<1> QED
  BY RegistryInvariant, <1>1, PTL

-----------------------------------------------------------------------------
(* What the ledger calls do to the record.                                  *)

\* Loading the record changes nothing else, and what it holds it held before.
LEMMA LoadKeeps ==
  ASSUME Sound
  PROVE  /\ Keeps(Load) /\ Keeps(ledger) /\ Load \in Record /\ Load.completed = ledger.completed
         /\ Load.active # NoActive => Load.active = ledger.active /\ Held
         /\ ~(Held /\ ledger.active.state = "Prepared" /\ ledger.active.proc # process)
              => Load.active = ledger.active
<1>1. ledger.active \in ActiveOperation \cup {NoActive}
  BY DEF Sound, Record
<1>2. Held => ledger.active.expires \in Nat
  BY <1>1 DEF Held, ActiveOperation
<1> QED
  BY <1>2, LoadIs DEF Sound, Keeps, Held, Stale

\* A call that answers yes has taken effect; any other may have.
LEMMA AnswerIs ==
  ASSUME NEW applies, NEW results, NEW w \in Answers(applies, results)
  PROVE  /\ \/ LedgerEnabled /\ applies /\ w.rec \in results
            \/ w.ans # "yes" /\ w.rec \in {Load, ledger}
            \/ ~LedgerEnabled /\ w.rec = ledger
         /\ ~LedgerEnabled => w.ans = "yes" /\ w.rec = ledger
         /\ LedgerEnabled /\ applies => w.ans # "no"
  BY DEF Answers

\* Clearing removes a marker that names this operation and owner.
LEMMA ClearIs ==
  ASSUME Sound, NEW f, NEW o, NEW w \in LedgerClear(f, o)
  PROVE  \/ Keeps(w.rec)
         \/ /\ Held /\ ledger.active.fp = f /\ ledger.active.owner = o
            /\ w.rec.active = NoActive /\ w.rec.completed = ledger.completed
<1>1. \/ Owns(Load, f, o) /\ w.rec = Cleared(Load)
      \/ w.rec \in {Load, ledger}
  BY AnswerIs DEF LedgerClear
<1>2. /\ Cleared(Load).active = NoActive /\ Cleared(Load).completed = Load.completed
  BY LoadKeeps DEF Cleared, Record
<1> QED
  BY <1>1, <1>2, LoadKeeps DEF Owns

\* A marker that moves on keeps its operation and owner.
LEMMA MarkerMoves ==
  ASSUME NEW m \in ActiveOperation, NEW st \in ActiveStates
  PROVE  LET n == [m EXCEPT !.state = st, !.expires = 0 + 1] IN
           /\ n # NoActive /\ n.fp = m.fp /\ n.owner = m.owner /\ n.proc = m.proc
           /\ n.state = st /\ n.expires > 0
<1> DEFINE Owner == {"reservation", "run"} \X Attempts
<1>1. ActiveOperation = [fp: Fingerprints, owner: Owner, proc: Nat, state: ActiveStates, expires: Nat]
  BY DEF ActiveOperation
<1> HIDE DEF Owner
<1> DEFINE moved == [m EXCEPT !.state = st]
<1>2. moved \in ActiveOperation /\ moved.fp = m.fp /\ moved.owner = m.owner /\ moved.proc = m.proc
      /\ moved.state = st
  BY <1>1
<1>3. [m EXCEPT !.state = st, !.expires = 0 + 1] = [moved EXCEPT !.expires = 1]
  BY <1>1
<1> HIDE DEF moved
<1>4. /\ [moved EXCEPT !.expires = 1].fp = moved.fp /\ [moved EXCEPT !.expires = 1].owner = moved.owner
      /\ [moved EXCEPT !.expires = 1].proc = moved.proc /\ [moved EXCEPT !.expires = 1].state = moved.state
      /\ [moved EXCEPT !.expires = 1].expires = 1 /\ [moved EXCEPT !.expires = 1] \in ActiveOperation
  BY <1>1, <1>2
<1> QED
  BY <1>2, <1>3, <1>4, NoActiveAssumption

\* A marker that changes hands keeps everything else.
LEMMA MarkerPasses ==
  ASSUME NEW m \in ActiveOperation, NEW o \in {"reservation", "run"} \X Attempts
  PROVE  LET n == [m EXCEPT !.owner = o] IN
           /\ n # NoActive /\ n.fp = m.fp /\ n.owner = o /\ n.proc = m.proc
           /\ n.state = m.state /\ n.expires = m.expires
<1> DEFINE Owner == {"reservation", "run"} \X Attempts
<1>1. ActiveOperation = [fp: Fingerprints, owner: Owner, proc: Nat, state: ActiveStates, expires: Nat]
      /\ o \in Owner
  BY DEF ActiveOperation
<1> HIDE DEF Owner
<1>2. [m EXCEPT !.owner = o] \in ActiveOperation
  BY <1>1
<1> QED
  BY <1>1, <1>2, NoActiveAssumption

\* Marking ambiguous changes the state of a marker that names this operation
\* and owner, and nothing else.
LEMMA AmbiguousIs ==
  ASSUME Sound, NEW f, NEW o, NEW w \in LedgerAmbiguous(f, o)
  PROVE  \/ Keeps(w.rec)
         \/ /\ Held /\ ledger.active.fp = f /\ ledger.active.owner = o
            /\ Marks(w.rec, f, o, "Ambiguous") /\ w.rec.completed = ledger.completed
<1>1. \/ Owns(Load, f, o) /\ w.rec = MarkedAmbiguous(Load, 0)
      \/ w.rec \in {Load, ledger}
  BY AnswerIs DEF LedgerAmbiguous
<1> DEFINE m == [Load.active EXCEPT !.state = "Ambiguous", !.expires = 0 + 1]
<1>2. ASSUME Owns(Load, f, o)
      PROVE  Marks(MarkedAmbiguous(Load, 0), f, o, "Ambiguous")
  <2>1. Load.active \in ActiveOperation
    BY <1>2, LoadKeeps DEF Owns, Record
  <2>2. "Ambiguous" \in ActiveStates
    BY DEF ActiveStates
  <2>3. m # NoActive /\ m.fp = Load.active.fp /\ m.owner = Load.active.owner
        /\ m.state = "Ambiguous" /\ m.expires > 0
    BY <2>1, <2>2, MarkerMoves, Zenon
  <2>4. MarkedAmbiguous(Load, 0).active = m
    BY LoadKeeps DEF MarkedAmbiguous, Record
  <2> HIDE DEF m
  <2> QED
    BY <1>2, <2>3, <2>4 DEF Marks, Owns
<1>3. MarkedAmbiguous(Load, 0).completed = Load.completed
  BY LoadKeeps DEF MarkedAmbiguous, Record
<1> QED
  BY <1>1, <1>2, <1>3, LoadKeeps DEF Owns

\* A dispatch that answers yes leaves a marker that names this operation and
\* owner and is not merely prepared; it moves no other marker.
LEMMA DispatchIs ==
  ASSUME Sound, NEW f, NEW o, NEW w \in LedgerDispatch(f, o)
  PROVE  /\ \/ w.ans # "yes" /\ Keeps(w.rec)
            \/ ~LedgerEnabled /\ w.rec = ledger
            \/ /\ Held /\ ledger.active.fp = f /\ ledger.active.owner = o
               /\ w.rec.completed = ledger.completed
               /\ \E st \in {"Dispatched", "Ambiguous"} : Marks(w.rec, f, o, st)
               /\ ledger.active.state = "Prepared" => Marks(w.rec, f, o, "Dispatched")
<1>1. \/ LedgerEnabled /\ Owns(Load, f, o) /\ w.rec = Dispatched(Load, 0)
      \/ w.ans # "yes" /\ w.rec \in {Load, ledger}
      \/ ~LedgerEnabled /\ w.rec = ledger
  BY AnswerIs DEF LedgerDispatch
<1> DEFINE m == [Load.active EXCEPT !.state = "Dispatched", !.expires = 0 + 1]
<1>2. ASSUME Owns(Load, f, o)
      PROVE  /\ Dispatched(Load, 0).completed = ledger.completed
             /\ \E st \in {"Dispatched", "Ambiguous"} : Marks(Dispatched(Load, 0), f, o, st)
             /\ ledger.active.state = "Prepared" => Marks(Dispatched(Load, 0), f, o, "Dispatched")
  <2>1. Load.active \in ActiveOperation /\ Load.active = ledger.active /\ Held
    BY <1>2, LoadKeeps DEF Owns, Record
  <2>2. CASE Load.active.state = "Prepared"
    <3> "Dispatched" \in ActiveStates
      BY DEF ActiveStates
    <3>1. m # NoActive /\ m.fp = Load.active.fp /\ m.owner = Load.active.owner
          /\ m.state = "Dispatched" /\ m.expires > 0
      BY <2>1, MarkerMoves, Zenon
    <3>2. Dispatched(Load, 0).active = m /\ Dispatched(Load, 0).completed = Load.completed
      BY <2>2, LoadKeeps DEF Dispatched, Record
    <3> HIDE DEF m
    <3> QED
      BY <1>2, <3>1, <3>2, LoadKeeps DEF Marks, Owns
  <2>3. CASE Load.active.state # "Prepared"
    <3>1. Dispatched(Load, 0) = Load
      BY <2>3 DEF Dispatched
    <3>2. Load.active.state \in {"Dispatched", "Ambiguous"} /\ Load.active.expires > 0
      BY <2>1, <2>3 DEF ActiveOperation, ActiveStates, Sound
    <3> QED
      BY <1>2, <2>1, <2>3, <3>1, <3>2, LoadKeeps DEF Marks, Owns
  <2> QED
    BY <2>2, <2>3
<1> QED
  BY <1>1, <1>2, LoadKeeps DEF Owns

\* A transfer hands a marker of this operation and owner over as it is.
LEMMA TransferIs ==
  ASSUME Sound, NEW f, NEW o, NEW n \in {"reservation", "run"} \X Attempts,
         NEW w \in LedgerTransfer(f, o, n)
  PROVE  \/ Keeps(w.rec)
         \/ /\ Held /\ ledger.active.fp = f /\ ledger.active.owner = o
            /\ Marks(w.rec, f, n, ledger.active.state) /\ w.rec.completed = ledger.completed
<1>1. \/ Owns(Load, f, o) /\ w.rec = Transferred(Load, n)
      \/ w.rec \in {Load, ledger}
  BY AnswerIs DEF LedgerTransfer
<1> DEFINE m == [Load.active EXCEPT !.owner = n]
<1>2. ASSUME Owns(Load, f, o)
      PROVE  Marks(Transferred(Load, n), f, n, Load.active.state)
  <2>1. Load.active \in ActiveOperation /\ Load.active.expires > 0
    BY <1>2, LoadKeeps DEF Owns, Record, Sound
  <2>2. m # NoActive /\ m.fp = f /\ m.owner = n /\ m.state = Load.active.state /\ m.expires > 0
    BY <1>2, <2>1, MarkerPasses DEF Owns
  <2>3. Transferred(Load, n).active = m
    BY LoadKeeps DEF Transferred, Record
  <2> HIDE DEF m
  <2> QED
    BY <2>2, <2>3 DEF Marks
<1>3. Transferred(Load, n).completed = Load.completed
  BY LoadKeeps DEF Transferred, Record
<1> QED
  BY <1>1, <1>2, <1>3, LoadKeeps DEF Owns

\* What Active builds.
LEMMA ActiveMarks ==
  ASSUME NEW f \in Fingerprints, NEW o \in {"reservation", "run"} \X Attempts,
         NEW st \in ActiveStates, process \in Nat
  PROVE  LET n == Active(f, o, process, st, 0) IN
           n # NoActive /\ n.fp = f /\ n.owner = o /\ n.state = st /\ n.proc = process /\ n.expires > 0
  BY ActiveType, NoActiveAssumption DEF Active

\* Recording a fingerprint adds it to the history and drops nothing.
LEMMA HistoryGrows ==
  ASSUME NEW r \in Record, NEW f \in Fingerprints, NEW c \in AddCompleted(r.completed, f, 0)
  PROVE  History(c) = History(r.completed) \cup {f}
<1>1. r.completed \in [Fingerprints -> Nat \cup {-1}]
  BY DEF Record, Never
<1>2. c = [r.completed EXCEPT ![f] = 0]
  BY <1>1, AddCompletedIs
<1> QED
  BY <1>1, <1>2 DEF History, Never

\* A claim is admitted when nothing stands in its way, or in the place of an
\* ambiguous marker of another operation.
LEMMA ClaimIs ==
  ASSUME Sound, NEW f \in Fingerprints, NEW o \in {"reservation", "run"} \X Attempts,
         NEW w \in LedgerClaim(f, o)
  PROVE  \/ Keeps(w.rec) /\ (Load.active # NoActive => w.rec.active = ledger.active)
         \/ /\ LedgerEnabled /\ f \notin History(ledger.completed)
            /\ \/ Load.active = NoActive
               \/ Load.active.state = "Ambiguous" /\ Load.active.fp # f
            /\ Marks(w.rec, f, o, "Prepared") /\ w.rec.completed = ledger.completed
<1> DEFINE m == Active(f, o, process, "Prepared", 0)
<1>1. \/ LedgerEnabled /\ Admission(Load, f) = "Allowed" /\ w.rec = Claimed(Load, f, o, 0, process)
      \/ w.rec \in {Load, ledger}
  BY DEF LedgerClaim, Answers
<1>2. Admission(Load, f) = "Allowed" =>
        /\ f \notin History(ledger.completed)
        /\ \/ Load.active = NoActive
           \/ Load.active.state = "Ambiguous" /\ Load.active.fp # f
  BY LoadKeeps DEF Admission, CanRotateAmbiguous
<1>3. /\ Claimed(Load, f, o, 0, process).active = m
      /\ Claimed(Load, f, o, 0, process).completed = Load.completed
  BY LoadKeeps DEF Claimed, Record
<1>4. m # NoActive /\ m.fp = f /\ m.owner = o /\ m.state = "Prepared" /\ m.expires > 0
  BY ActiveMarks DEF Sound, ActiveStates
<1> HIDE DEF m
<1> QED
  BY <1>1, <1>2, <1>3, <1>4, LoadKeeps DEF Marks

\* Preparing a stage records the stage before it, and marks the next one.
LEMMA PrepareStageIs ==
  ASSUME Sound, NEW o \in {"reservation", "run"} \X Attempts, NEW p \in Fingerprints,
         NEW f \in Fingerprints, NEW w \in LedgerPrepareStage(o, p, f)
  PROVE  \/ w.ans # "yes" /\ Keeps(w.rec)
         \/ ~LedgerEnabled /\ w.rec = ledger
         \/ /\ Held /\ ledger.active.fp = p /\ ledger.active.owner = o /\ ledger.active.state # "Prepared"
            /\ Marks(w.rec, f, o, "Prepared") /\ w.rec.active.proc = process
            /\ History(w.rec.completed) = History(ledger.completed) \cup {p}
<1> DEFINE m == Active(f, o, process, "Prepared", 0)
<1>1. \/ /\ CanPrepareStage(Load, o, p)
         /\ \E c \in AddCompleted(Load.completed, p, 0) : w.rec = [active |-> m, completed |-> c]
      \/ w.ans # "yes" /\ w.rec \in {Load, ledger}
      \/ ~LedgerEnabled /\ w.rec = ledger
  BY AnswerIs DEF LedgerPrepareStage, StagePrepared
<1>2. m # NoActive /\ m.fp = f /\ m.owner = o /\ m.state = "Prepared" /\ m.proc = process /\ m.expires > 0
  BY ActiveMarks DEF Sound, ActiveStates
<1> HIDE DEF m
<1>3. ASSUME NEW c \in AddCompleted(Load.completed, p, 0)
      PROVE  History(c) = History(ledger.completed) \cup {p}
  BY <1>3, LoadKeeps, HistoryGrows
<1>4. CanPrepareStage(Load, o, p) =>
        Held /\ ledger.active.fp = p /\ ledger.active.owner = o /\ ledger.active.state # "Prepared"
  BY LoadKeeps DEF CanPrepareStage, Owns
<1>5. \A c : /\ [active |-> m, completed |-> c].active = m
             /\ [active |-> m, completed |-> c].completed = c
  OBVIOUS
<1>6. CASE /\ CanPrepareStage(Load, o, p)
           /\ \E c \in AddCompleted(Load.completed, p, 0) : w.rec = [active |-> m, completed |-> c]
  <2>1. PICK c \in AddCompleted(Load.completed, p, 0) : w.rec = [active |-> m, completed |-> c]
    BY <1>6
  <2>2. w.rec.active = m /\ w.rec.completed = c
    BY <2>1, <1>5
  <2> QED
    BY <1>2, <1>3, <1>4, <1>6, <2>2 DEF Marks
<1> QED
  BY <1>1, <1>6, LoadKeeps

\* A rollback marks the stage before as dispatched again.
LEMMA RollbackIs ==
  ASSUME Sound, NEW o \in {"reservation", "run"} \X Attempts, NEW p \in Fingerprints,
         NEW f, NEW w \in LedgerRollback(o, f, p)
  PROVE  \/ Keeps(w.rec)
         \/ /\ Held /\ ledger.active.fp = f /\ ledger.active.owner = o
            /\ Marks(w.rec, p, o, "Dispatched") /\ w.rec.completed = ledger.completed
<1> DEFINE m == Active(p, o, process, "Dispatched", 0)
<1>1. \/ Owns(Load, f, o) /\ w.rec = StageRolledBack(Load, o, p, 0, process)
      \/ w.rec \in {Load, ledger}
  BY AnswerIs DEF LedgerRollback
<1>2. /\ StageRolledBack(Load, o, p, 0, process).active = m
      /\ StageRolledBack(Load, o, p, 0, process).completed = Load.completed
  BY LoadKeeps DEF StageRolledBack, Record
<1>3. m # NoActive /\ m.fp = p /\ m.owner = o /\ m.state = "Dispatched" /\ m.expires > 0
  BY ActiveMarks DEF Sound, ActiveStates
<1> HIDE DEF m
<1> QED
  BY <1>1, <1>2, <1>3, LoadKeeps DEF Marks, Owns

\* A completion takes the marker away and leaves its operation in the history.
LEMMA CompleteIs ==
  ASSUME Sound, NEW o, NEW f \in Fingerprints, NEW w \in LedgerComplete(f, o)
  PROVE  \/ Keeps(w.rec)
         \/ /\ Held /\ ledger.active.fp = f /\ ledger.active.owner = o
            /\ w.rec.active = NoActive /\ History(w.rec.completed) = History(ledger.completed) \cup {f}
<1>1. \/ CanComplete(Load, f, o) /\ w.rec \in Completed(Load, f, 0)
      \/ w.rec \in {Load, ledger}
  BY AnswerIs DEF LedgerComplete
<1>2. CASE f \notin History(Load.completed) /\ CanComplete(Load, f, o) /\ w.rec \in Completed(Load, f, 0)
  <2>1. PICK c \in AddCompleted(Load.completed, f, 0) : w.rec = [active |-> NoActive, completed |-> c]
    BY <1>2 DEF Completed
  <2> QED
    BY <1>2, <2>1, LoadKeeps, HistoryGrows DEF CanComplete, Owns
<1> QED
  BY <1>1, <1>2, LoadKeeps DEF Completed

-----------------------------------------------------------------------------
(* The record and the guarded operations: what holds with or without a      *)
(* ledger.                                                                  *)

\* Every step treats the record so.
LEMMA StepMarks == RegistryInv /\ MarkerSound /\ Next => Marking
<1> SUFFICES ASSUME RegistryInv, MarkerSound, Next PROVE Marking
  OBVIOUS
<1>i. /\ Typed /\ (\A b \in Attempts : AttemptSound(b) /\ SlotSound(b)) /\ (\A w \in writes : WriteSound(w))
      /\ \A b \in Attempts : VictimsSound(b)
  BY DEF RegistryInv
<1>s. Sound
  BY <1>i, Types DEF Sound, MarkerSound
<1>q. ledger' = ledger => Marking
  BY DEF Marking, Keeps
<1>1. ASSUME NEW x \in Attempts, NEW f \in Operations, Claim(x, f) PROVE Marking
  <2>1. ledger' = ledger
    BY <1>1 DEF Claim
  <2> QED
    BY <1>q, <2>1
<1>2. ASSUME NEW x \in Attempts, NEW f \in Operations, Refuse(x, f) PROVE Marking
  <2>1. ledger' = ledger
    BY <1>2 DEF Refuse
  <2> QED
    BY <1>q, <2>1
<1>3. ASSUME NEW x \in Attempts, NEW f \in Operations, NEW results \in BOOLEAN,
             Observe(x, f, results)
      PROVE Marking
  <2>1. ledger' = ledger
    BY <1>3 DEF Observe
  <2> QED
    BY <1>q, <2>1
<1>4. ASSUME NEW x \in Attempts, NEW results \in BOOLEAN, ClaimReplacement(x, results) PROVE Marking
  <2>1. ledger' = ledger
    BY <1>4 DEF ClaimReplacement
  <2> QED
    BY <1>q, <2>1
<1>5. ASSUME NEW x \in Attempts, ClaimVacated(x) PROVE Marking
  <2>1. ledger' = ledger
    BY <1>5 DEF ClaimVacated
  <2> QED
    BY <1>q, <2>1
<1>6. ASSUME NEW x \in Attempts, LoseClaim(x) PROVE Marking
  <2>1. ledger' = ledger
    BY <1>6 DEF LoseClaim
  <2> QED
    BY <1>q, <2>1
<1>7. ASSUME NEW x \in Attempts, FinishReplacement(x) PROVE Marking
  <2>1. PICK w \in LedgerClear(run[req[x].victim].stage, RunId(req[x].victim)) : ledger' = w.rec
    BY <1>7 DEF FinishReplacement
  <2> QED
    BY <1>s, <2>1, ClearIs DEF Marking
<1>8. ASSUME NEW x \in Attempts, AbandonReplacement(x) PROVE Marking
  <2> DEFINE v == req[x].victim
  <2>1. PICK w \in LedgerAmbiguous(run[v].stage, RunId(v)) : ledger' = w.rec
    BY <1>8 DEF AbandonReplacement
  <2>2. v \in Attempts /\ RunId(v)[2] = v /\ RunId(v) \in {"reservation", "run"} \X Attempts
    BY <1>8, <1>i, TokenType, Tokens DEF AbandonReplacement, Typed
  <2>3. OneRequest(x) /\ req'[x].at = "done" /\ req[v].at \in Published
    BY <1>8, <1>i, <2>2, AbandonReplacementEffect DEF VictimsSound, RequestIs
  <2> HIDE DEF v
  <2>4. req'[v].at \notin Unclaimed
    BY <2>2, <2>3 DEF OneRequest, Unclaimed, Published
  <2>5. Keeps(w.rec) \/ \E f, st : Marks(w.rec, f, RunId(v), st)
    BY <1>s, <2>1, AmbiguousIs
  <2> QED
    BY <2>1, <2>2, <2>4, <2>5 DEF Marking
<1>9. ASSUME NEW x \in Attempts, BeginDurable(x) PROVE Marking
  <2>1. PICK w \in LedgerClaim(req[x].op, Res(x)) : ledger' = w.rec
    BY <1>9 DEF BeginDurable
  <2>2. /\ Res(x) \in {"reservation", "run"} \X Attempts /\ Res(x)[2] = x
        /\ req[x].op \in Fingerprints /\ run[x].stage \in Fingerprints /\ run[x].next \in Fingerprints
    BY <1>i, Types, TokenType, Tokens
  <2>3. \/ Keeps(w.rec) \/ w.rec.active = NoActive
        \/ \E f, st : Marks(w.rec, f, Res(x), st)
    BY <1>s, <2>1, <2>2, ClaimIs
  <2>4. req'[x].at \notin Unclaimed
    BY <1>9, <1>i, BeginDurableEffect DEF Unclaimed, RequestIs
  <2> QED
    BY <2>1, <2>2, <2>3, <2>4 DEF Marking
<1>10. ASSUME NEW x \in Attempts, Withdraw(x) PROVE Marking
  <2>1. ledger' = ledger
    BY <1>10 DEF Withdraw
  <2> QED
    BY <1>q, <2>1
<1>11. ASSUME NEW x \in Attempts, Dispatch(x) PROVE Marking
  <2>1. PICK w \in LedgerDispatch(req[x].op, Res(x)) : ledger' = w.rec
    BY <1>11 DEF Dispatch
  <2>2. /\ Res(x) \in {"reservation", "run"} \X Attempts /\ Res(x)[2] = x
        /\ req[x].op \in Fingerprints /\ run[x].stage \in Fingerprints /\ run[x].next \in Fingerprints
    BY <1>i, Types, TokenType, Tokens
  <2>3. \/ Keeps(w.rec) \/ w.rec.active = NoActive
        \/ \E f, st : Marks(w.rec, f, Res(x), st)
    BY <1>s, <2>1, <2>2, LoadKeeps, DispatchIs
  <2>4. req'[x].at \notin Unclaimed
    BY <1>11, <1>i, DispatchEffect DEF Unclaimed, RequestIs
  <2> QED
    BY <2>1, <2>2, <2>3, <2>4 DEF Marking
<1>12. ASSUME NEW x \in Attempts, OpenRejected(x) PROVE Marking
  <2>1. ledger' = ledger
    BY <1>12 DEF OpenRejected
  <2> QED
    BY <1>q, <2>1
<1>13. ASSUME NEW x \in Attempts, OpenUnknown(x) PROVE Marking
  <2>1. ledger' = ledger
    BY <1>13 DEF OpenUnknown
  <2> QED
    BY <1>q, <2>1
<1>14. ASSUME NEW x \in Attempts, DropReplacement(x) PROVE Marking
  <2>1. ledger' = ledger
    BY <1>14 DEF DropReplacement
  <2> QED
    BY <1>q, <2>1
<1>15. ASSUME NEW x \in Attempts, OpenSucceeds(x) PROVE Marking
  <2>1. ledger' = ledger
    BY <1>15 DEF OpenSucceeds
  <2> QED
    BY <1>q, <2>1
<1>16. ASSUME NEW x \in Attempts, InsertTransfer(x) PROVE Marking
  <2>1. PICK w \in LedgerTransfer(req[x].op, Res(x), RunId(x)) : ledger' = w.rec
    BY <1>16 DEF InsertTransfer
  <2>2. /\ RunId(x) \in {"reservation", "run"} \X Attempts /\ RunId(x)[2] = x
        /\ req[x].op \in Fingerprints /\ run[x].stage \in Fingerprints /\ run[x].next \in Fingerprints
    BY <1>i, Types, TokenType, Tokens
  <2>3. \/ Keeps(w.rec) \/ w.rec.active = NoActive
        \/ \E f, st : Marks(w.rec, f, RunId(x), st)
    BY <1>s, <2>1, <2>2, TransferIs
  <2>4. req'[x].at \notin Unclaimed
    BY <1>16, <1>i, InsertTransferEffect DEF Unclaimed, RequestIs
  <2> QED
    BY <2>1, <2>2, <2>3, <2>4 DEF Marking
<1>17. ASSUME NEW x \in Attempts, InsertPublish(x) PROVE Marking
  <2>1. ledger' = ledger
    BY <1>17 DEF InsertPublish
  <2> QED
    BY <1>q, <2>1
<1>18. ASSUME NEW x \in Attempts, InsertReseal(x) PROVE Marking
  <2>1. ledger' = ledger
    BY <1>18 DEF InsertReseal
  <2> QED
    BY <1>q, <2>1
<1>19. ASSUME NEW x \in Attempts, GiveUp(x) PROVE Marking
  <2>1. ledger' = ledger
    BY <1>19 DEF GiveUp
  <2> QED
    BY <1>q, <2>1
<1>20. ASSUME NEW x \in Attempts, NEW err \in Errors \ {"none"}, DriverFails(x, err) PROVE Marking
  <2>1. ledger' = ledger
    BY <1>20 DEF DriverFails
  <2> QED
    BY <1>q, <2>1
<1>21. ASSUME NEW x \in Attempts, NEW err \in {"other", "ambiguous"}, DriverCancelled(x, err)
       PROVE Marking
  <2>1. ledger' = ledger
    BY <1>21 DEF DriverCancelled
  <2> QED
    BY <1>q, <2>1
<1>22. ASSUME NEW x \in Attempts, DriverFinishes(x) PROVE Marking
  <2>1. ledger' = ledger
    BY <1>22 DEF DriverFinishes
  <2> QED
    BY <1>q, <2>1
<1>23. ASSUME NEW x \in Attempts, SealLookup(x) PROVE Marking
  <2>1. ledger' = ledger
    BY <1>23 DEF SealLookup
  <2> QED
    BY <1>q, <2>1
<1>24. ASSUME NEW x \in Attempts, SealLedger(x) PROVE Marking
  <2>1. PICK w \in LedgerComplete(run[x].stage, RunId(x)) : ledger' = w.rec
    BY <1>24 DEF SealLedger
  <2>2. /\ RunId(x) \in {"reservation", "run"} \X Attempts /\ RunId(x)[2] = x
        /\ req[x].op \in Fingerprints /\ run[x].stage \in Fingerprints /\ run[x].next \in Fingerprints
    BY <1>i, Types, TokenType, Tokens
  <2>3. \/ Keeps(w.rec) \/ w.rec.active = NoActive
        \/ \E f, st : Marks(w.rec, f, RunId(x), st)
    BY <1>s, <2>1, <2>2, CompleteIs
  <2>4. req'[x].at \notin Unclaimed
    <3>1. req' = req /\ run[x].phase # "none"
      BY <1>24 DEF SealLedger, Sealing
    <3> QED
      BY <1>i, <3>1 DEF AttemptSound, Unopened, Unclaimed
  <2> QED
    BY <2>1, <2>2, <2>3, <2>4 DEF Marking
<1>25. ASSUME NEW x \in Attempts, SealSlot(x) PROVE Marking
  <2>1. ledger' = ledger
    BY <1>25 DEF SealSlot
  <2> QED
    BY <1>q, <2>1
<1>26. ASSUME NEW x \in Attempts, Complete(x) PROVE Marking
  <2>1. ledger' = ledger
    BY <1>26 DEF Complete
  <2> QED
    BY <1>q, <2>1
<1>27. ASSUME NEW x \in Attempts, SkipResume(x) PROVE Marking
  <2>1. ledger' = ledger
    BY <1>27 DEF SkipResume
  <2> QED
    BY <1>q, <2>1
<1>28. ASSUME NEW x \in Attempts, PrepareStage(x) PROVE Marking
  <2>1. PICK w \in LedgerPrepareStage(RunId(x), run[x].stage, run[x].next) : ledger' = w.rec
    BY <1>28 DEF PrepareStage
  <2>2. /\ RunId(x) \in {"reservation", "run"} \X Attempts /\ RunId(x)[2] = x
        /\ req[x].op \in Fingerprints /\ run[x].stage \in Fingerprints /\ run[x].next \in Fingerprints
    BY <1>i, Types, TokenType, Tokens
  <2>3. \/ Keeps(w.rec) \/ w.rec.active = NoActive
        \/ \E f, st : Marks(w.rec, f, RunId(x), st)
    BY <1>s, <2>1, <2>2, LoadKeeps, PrepareStageIs
  <2>4. req'[x].at \notin Unclaimed
    <3>1. req' = req /\ run[x].phase # "none"
      BY <1>28 DEF PrepareStage, Sealing
    <3> QED
      BY <1>i, <3>1 DEF AttemptSound, Unopened, Unclaimed
  <2> QED
    BY <2>1, <2>2, <2>3, <2>4 DEF Marking
<1>29. ASSUME NEW x \in Attempts, DispatchStage(x) PROVE Marking
  <2>1. PICK w \in LedgerDispatch(run[x].next, RunId(x)) : ledger' = w.rec
    BY <1>29 DEF DispatchStage
  <2>2. /\ RunId(x) \in {"reservation", "run"} \X Attempts /\ RunId(x)[2] = x
        /\ req[x].op \in Fingerprints /\ run[x].stage \in Fingerprints /\ run[x].next \in Fingerprints
    BY <1>i, Types, TokenType, Tokens
  <2>3. \/ Keeps(w.rec) \/ w.rec.active = NoActive
        \/ \E f, st : Marks(w.rec, f, RunId(x), st)
    BY <1>s, <2>1, <2>2, LoadKeeps, DispatchIs
  <2>4. req'[x].at \notin Unclaimed
    <3>1. req' = req /\ run[x].phase # "none"
      BY <1>29 DEF DispatchStage, Sealing
    <3> QED
      BY <1>i, <3>1 DEF AttemptSound, Unopened, Unclaimed
  <2> QED
    BY <2>1, <2>2, <2>3, <2>4 DEF Marking
<1>30. ASSUME NEW x \in Attempts, AcceptStage(x) PROVE Marking
  <2>1. ledger' = ledger
    BY <1>30 DEF AcceptStage
  <2> QED
    BY <1>q, <2>1
<1>31. ASSUME NEW x \in Attempts, AcknowledgeStage(x) PROVE Marking
  <2>1. ledger' = ledger
    BY <1>31 DEF AcknowledgeStage
  <2> QED
    BY <1>q, <2>1
<1>32. ASSUME NEW x \in Attempts, RevokeStage(x) PROVE Marking
  <2>1. ledger' = ledger
    BY <1>32 DEF RevokeStage
  <2> QED
    BY <1>q, <2>1
<1>33. ASSUME NEW x \in Attempts, RollbackStage(x) PROVE Marking
  <2>1. PICK w \in LedgerRollback(RunId(x), run[x].next, run[x].stage) : ledger' = w.rec
    BY <1>33 DEF RollbackStage
  <2>2. /\ RunId(x) \in {"reservation", "run"} \X Attempts /\ RunId(x)[2] = x
        /\ req[x].op \in Fingerprints /\ run[x].stage \in Fingerprints /\ run[x].next \in Fingerprints
    BY <1>i, Types, TokenType, Tokens
  <2>3. \/ Keeps(w.rec) \/ w.rec.active = NoActive
        \/ \E f, st : Marks(w.rec, f, RunId(x), st)
    BY <1>s, <2>1, <2>2, RollbackIs
  <2>4. req'[x].at \notin Unclaimed
    <3>1. req' = req /\ run[x].phase # "none"
      BY <1>33 DEF RollbackStage, Sealing
    <3> QED
      BY <1>i, <3>1 DEF AttemptSound, Unopened, Unclaimed
  <2> QED
    BY <2>1, <2>2, <2>3, <2>4 DEF Marking
<1>34. ASSUME NEW x \in Attempts, DriverVanishes(x) PROVE Marking
  <2>1. ledger' = ledger
    BY <1>34 DEF DriverVanishes
  <2> QED
    BY <1>q, <2>1
<1>35. ASSUME NEW x \in Attempts, ConsumerMoves(x) PROVE Marking
  <2>1. ledger' = ledger
    BY <1>35 DEF ConsumerMoves
  <2> QED
    BY <1>q, <2>1
<1>36. ASSUME NEW x \in Attempts, NEW g \in Operations, SendResume(x, g) PROVE Marking
  <2>1. ledger' = ledger
    BY <1>36 DEF SendResume
  <2> QED
    BY <1>q, <2>1
<1>37. ASSUME Prune PROVE Marking
  <2>1. ledger' = ledger
    BY <1>37 DEF Prune
  <2> QED
    BY <1>q, <2>1
<1>38. ASSUME Probe PROVE Marking
  <2>1. PICK v \in Attempts :
          ledger' = ledger \/ \E w \in LedgerClear(run[v].stage, RunId(v)) : ledger' = w.rec
    BY <1>38, <1>i, ProbeEffect
  <2> QED
    BY <1>s, <1>q, <2>1, ClearIs DEF Marking
<1>39. ASSUME TakeTerminalError PROVE Marking
  <2>1. ledger' = ledger
    BY <1>39 DEF TakeTerminalError
  <2> QED
    BY <1>q, <2>1
<1>40. ASSUME CancelGeneration PROVE Marking
  <2>1. ledger' = ledger
    BY <1>40 DEF CancelGeneration
  <2> QED
    BY <1>q, <2>1
<1>41. ASSUME Lapse PROVE Marking
  <2>1. ledger' = ledger
    BY <1>41 DEF Lapse
  <2> QED
    BY <1>q, <2>1
<1>42. ASSUME LapseError PROVE Marking
  <2>1. ledger' = ledger
    BY <1>42 DEF LapseError
  <2> QED
    BY <1>q, <2>1
<1>43. ASSUME NEW w \in writes, Write(w) PROVE Marking
  <2>1. PICK f : \E r \in IF w.call = "clear" THEN LedgerClear(f, w.owner)
                         ELSE LedgerAmbiguous(f, w.owner) : ledger' = r.rec
    BY <1>43, <1>i, WriteEffect
  <2>2. \/ Keeps(ledger') \/ ledger'.active = NoActive
        \/ \E st : Marks(ledger', f, w.owner, st)
    BY <1>s, <2>1, ClearIs, AmbiguousIs
  <2>3. w.owner \in {"reservation", "run"} \X Attempts /\ req[w.owner[2]].at \in Published \cup {"orphaned"}
        /\ req' = req
    BY <1>43, <1>i, Types, WriteEffect DEF WriteSound, Writes
  <2> QED
    BY <2>2, <2>3 DEF Marking, Published, Unclaimed
<1>44. ASSUME Crash PROVE Marking
  <2>1. ledger' = ledger
    BY <1>44 DEF Crash
  <2> QED
    BY <1>q, <2>1
<1> QED
  BY <1>1, <1>2, <1>3, <1>4, <1>5, <1>6, <1>7, <1>8, <1>9, <1>10, <1>11, <1>12, <1>13, <1>14,
     <1>15, <1>16, <1>17, <1>18, <1>19, <1>20, <1>21, <1>22, <1>23, <1>24, <1>25, <1>26, <1>27,
     <1>28, <1>29, <1>30, <1>31, <1>32, <1>33, <1>34, <1>35, <1>36, <1>37, <1>38, <1>39, <1>40,
     <1>41, <1>42, <1>43, <1>44 DEF Next, Step, Request, Proceed, Driver, Stage, Registry

\* The marker stays fresh, and its holder stays past its claim.
LEMMA StepMarker == RegistryInv /\ MarkerSound /\ Next => MarkerSound'
<1> SUFFICES ASSUME RegistryInv, MarkerSound, Next, ledger'.active # NoActive
             PROVE  ledger'.active.expires > 0 /\ req'[ledger'.active.owner[2]].at \notin Unclaimed
  BY DEF MarkerSound, Held, Holder
<1>1. Marking /\ \A b \in Attempts : Proceeds(b)
  BY StepMarks, StepMoves DEF RegistryInv, Moves
<1>2. CASE Keeps(ledger')
  <2>1. Held /\ ledger'.active = ledger.active
    BY <1>2 DEF Keeps, Held
  <2>2. ledger.active.owner[2] \in Attempts
    BY <2>1, Types DEF RegistryInv, Record, ActiveOperation, Held
  <2> QED
    BY <1>1, <2>1, <2>2 DEF Proceeds, MarkerSound, Holder
<1>3. CASE \E f, st : \E o \in {"reservation", "run"} \X Attempts :
             Marks(ledger', f, o, st) /\ req'[o[2]].at \notin Unclaimed
  BY <1>3 DEF Marks
<1> QED
  BY <1>1, <1>2, <1>3 DEF Marking

\* Only operations that were dispatched and have not failed stay guarded.
LEMMA StepGuards ==
  RegistryInv /\ (\A b \in Attempts : GuardSound(b)) /\ Next => \A a \in Attempts : GuardSound(a)'
<1> SUFFICES ASSUME RegistryInv, \A b \in Attempts : GuardSound(b), Next, NEW a \in Attempts
             PROVE GuardSound(a)'
  OBVIOUS
<1>i. /\ Typed /\ (\A b \in Attempts : AttemptSound(b) /\ SlotSound(b)) /\ (\A w \in writes : WriteSound(w))
      /\ (\A b \in Attempts : VictimsSound(b)) /\ \A b \in Attempts : GuardSound(b)
  BY DEF RegistryInv
<1>g. a \in guarded =>
        /\ req[a].at \notin Unclaimed \cup {"prepared"} /\ req'[a].at \notin Unclaimed \cup {"prepared"}
        /\ run[a].err \notin {"other", "retry"} /\ run[a].stage # Unknown
        /\ \A w \in writes : w.call = "clear" => w.owner[2] # a
  BY <1>i, StepMoves DEF GuardSound, Moves, Proceeds
<1>1. ASSUME NEW x \in Attempts, NEW f \in Operations, Claim(x, f) PROVE GuardSound(a)'
  <2>1. /\ req[x].at \in Unclaimed /\ OneRun(x) /\ guarded' \subseteq guarded /\ writes' = writes
    BY <1>1, <1>i, ClaimEffect DEF Rotated, Released, Unclaimed
  <2> QED
    BY <1>g, <2>1 DEF GuardSound, OneRun
<1>2. ASSUME NEW x \in Attempts, NEW f \in Operations, Refuse(x, f) PROVE GuardSound(a)'
  BY <1>2, <1>g, <1>i, RefuseEffect DEF GuardSound, OneRun, RunIs
<1>3. ASSUME NEW x \in Attempts, NEW f \in Operations, NEW results \in BOOLEAN,
             Observe(x, f, results)
      PROVE GuardSound(a)'
  BY <1>3, <1>g, <1>i, ObserveEffect DEF GuardSound, OneRun, RunIs
<1>4. ASSUME NEW x \in Attempts, NEW results \in BOOLEAN, ClaimReplacement(x, results)
      PROVE GuardSound(a)'
  <2>1. PICK v \in Attempts : TakesOver(x, v)
    BY <1>4, <1>i, ClaimReplacementEffect
  <2>2. req[x].at \in Unclaimed /\ guarded' = guarded /\ writes' = writes
    BY <1>4, <1>i, ClaimReplacementEffect DEF Unclaimed
  <2>3. a \in guarded => run'[a].stage = run[a].stage /\ run'[a].err = run[a].err
    BY <1>g, <2>1, <2>2 DEF TakesOver, RunIs
  <2> QED
    BY <1>g, <2>2, <2>3 DEF GuardSound
<1>5. ASSUME NEW x \in Attempts, ClaimVacated(x) PROVE GuardSound(a)'
  <2>1. /\ req[x].at \in Unclaimed /\ OneRun(x) /\ guarded' \subseteq guarded /\ writes' = writes
    BY <1>5, <1>i, ClaimVacatedEffect DEF Rotated, Released, Unclaimed
  <2> QED
    BY <1>g, <2>1 DEF GuardSound, OneRun
<1>6. ASSUME NEW x \in Attempts, LoseClaim(x) PROVE GuardSound(a)'
  BY <1>6, <1>g, <1>i, LoseClaimEffect DEF GuardSound, OneRun, RunIs
<1>7. ASSUME NEW x \in Attempts, FinishReplacement(x) PROVE GuardSound(a)'
  <2>1. /\ req[x].at \in Unclaimed /\ OneRun(x) /\ guarded' \subseteq guarded /\ writes' = writes
    BY <1>7, <1>i, FinishReplacementEffect DEF Rotated, Released, Unclaimed
  <2> QED
    BY <1>g, <2>1 DEF GuardSound, OneRun
<1>8. ASSUME NEW x \in Attempts, AbandonReplacement(x) PROVE GuardSound(a)'
  BY <1>8, <1>g, <1>i, AbandonReplacementEffect DEF GuardSound, OneRun, RunIs
<1>9. ASSUME NEW x \in Attempts, BeginDurable(x) PROVE GuardSound(a)'
  <2>1. /\ req[x].at \in Unclaimed \cup {"prepared"} /\ run' = run
        /\ guarded' \subseteq guarded
        /\ \A w \in writes' \ writes : w.owner = Res(x)
    BY <1>9, <1>i, BeginDurableEffect DEF Unclaimed, AfterClaim
  <2>2. Res(x)[2] = x
    BY Tokens
  <2> QED
    BY <1>g, <2>1, <2>2 DEF GuardSound
<1>10. ASSUME NEW x \in Attempts, Withdraw(x) PROVE GuardSound(a)'
  <2>1. /\ req[x].at \in Unclaimed \cup {"prepared"} /\ run' = run
        /\ guarded' \subseteq guarded
        /\ \A w \in writes' \ writes : w.owner = Res(x)
    BY <1>10, <1>i, WithdrawEffect DEF Unclaimed, AfterClaim
  <2>2. Res(x)[2] = x
    BY Tokens
  <2> QED
    BY <1>g, <2>1, <2>2 DEF GuardSound
<1>11. ASSUME NEW x \in Attempts, Dispatch(x) PROVE GuardSound(a)'
  <2>1. /\ req[x].at = "prepared" /\ run' = run
        /\ \/ guarded' = guarded \cup {x} /\ writes' = writes /\ req'[x].at = "dispatched"
           \/ guarded' = guarded /\ \A w \in writes' \ writes : w.owner = Res(x)
    BY <1>11, <1>i, DispatchEffect DEF RequestIs
  <2>2. Res(x)[2] = x
    BY Tokens
  <2>3. /\ run[x].err = "none" /\ run[x].stage # Unknown
        /\ \A w \in writes : w.owner[2] # x
    BY <1>i, <2>1 DEF AttemptSound, Unopened, WriteSound, Published
  <2> QED
    BY <1>g, <2>1, <2>2, <2>3 DEF GuardSound, Unclaimed
<1>12. ASSUME NEW x \in Attempts, OpenRejected(x) PROVE GuardSound(a)'
  <2>1. run' = run /\ guarded' = guarded \ {x} /\ \A w \in writes' \ writes : w.owner = Res(x)
    BY <1>12, <1>i, OpenRejectedEffect
  <2>2. Res(x)[2] = x
    BY Tokens
  <2> QED
    BY <1>g, <2>1, <2>2 DEF GuardSound
<1>13. ASSUME NEW x \in Attempts, OpenUnknown(x) PROVE GuardSound(a)'
  BY <1>13, <1>g, <1>i, OpenUnknownEffect DEF GuardSound, OneRun, RunIs
<1>14. ASSUME NEW x \in Attempts, DropReplacement(x) PROVE GuardSound(a)'
  BY <1>14, <1>g, <1>i, DropReplacementEffect DEF GuardSound, OneRun, RunIs
<1>15. ASSUME NEW x \in Attempts, OpenSucceeds(x) PROVE GuardSound(a)'
  <2>1. req[x].at = "dispatched" /\ OneRun(x) /\ run'[x].stage = req[x].op /\ run'[x].err = "none"
        /\ guarded' = guarded /\ writes' = writes
    BY <1>15, <1>i, OpenSucceedsEffect DEF RunIs
  <2>2. run[x].stage = req[x].op
    BY <1>i, <2>1 DEF AttemptSound
  <2> QED
    BY <1>g, <2>1, <2>2 DEF GuardSound, OneRun
<1>16. ASSUME NEW x \in Attempts, InsertTransfer(x) PROVE GuardSound(a)'
  BY <1>16, <1>g, <1>i, InsertTransferEffect DEF GuardSound, OneRun, RunIs
<1>17. ASSUME NEW x \in Attempts, InsertPublish(x) PROVE GuardSound(a)'
  BY <1>17, <1>g, <1>i, InsertPublishEffect DEF GuardSound, OneRun, RunIs
<1>18. ASSUME NEW x \in Attempts, InsertReseal(x) PROVE GuardSound(a)'
  BY <1>18, <1>g, <1>i, InsertResealEffect DEF GuardSound, OneRun, RunIs
<1>19. ASSUME NEW x \in Attempts, GiveUp(x) PROVE GuardSound(a)'
  BY <1>19, <1>g, <1>i, GiveUpEffect DEF GuardSound, OneRun, RunIs
<1>20. ASSUME NEW x \in Attempts, NEW err \in Errors \ {"none"}, DriverFails(x, err)
       PROVE GuardSound(a)'
  BY <1>20, <1>g, <1>i, DriverFailsEffect DEF GuardSound, OneRun, RunIs, EndsRun
<1>21. ASSUME NEW x \in Attempts, NEW err \in {"other", "ambiguous"}, DriverCancelled(x, err)
       PROVE GuardSound(a)'
  BY <1>21, <1>g, <1>i, DriverCancelledEffect DEF GuardSound, OneRun, RunIs, EndsRun
<1>22. ASSUME NEW x \in Attempts, DriverFinishes(x) PROVE GuardSound(a)'
  BY <1>22, <1>g, <1>i, DriverFinishesEffect DEF GuardSound, OneRun, RunIs, EndsRun
<1>23. ASSUME NEW x \in Attempts, SealLookup(x) PROVE GuardSound(a)'
  BY <1>23, <1>g, <1>i, SealLookupEffect DEF GuardSound, OneRun, RunIs
<1>24. ASSUME NEW x \in Attempts, SealLedger(x) PROVE GuardSound(a)'
  BY <1>24, <1>g, <1>i, SealLedgerEffect DEF GuardSound, OneRun, RunIs
<1>25. ASSUME NEW x \in Attempts, SealSlot(x) PROVE GuardSound(a)'
  BY <1>25, <1>g, <1>i, SealSlotEffect DEF GuardSound, OneRun, RunIs
<1>26. ASSUME NEW x \in Attempts, Complete(x) PROVE GuardSound(a)'
  BY <1>26, <1>g, <1>i, CompleteEffect DEF GuardSound, OneRun, RunIs
<1>27. ASSUME NEW x \in Attempts, SkipResume(x) PROVE GuardSound(a)'
  BY <1>27, <1>g, <1>i, SkipResumeEffect DEF GuardSound, OneRun, RunIs
<1>28. ASSUME NEW x \in Attempts, PrepareStage(x) PROVE GuardSound(a)'
  BY <1>28, <1>g, <1>i, PrepareStageEffect DEF GuardSound, OneRun, RunIs, EndsRun
<1>29. ASSUME NEW x \in Attempts, DispatchStage(x) PROVE GuardSound(a)'
  BY <1>29, <1>g, <1>i, DispatchStageEffect DEF GuardSound, OneRun, RunIs
<1>30. ASSUME NEW x \in Attempts, AcceptStage(x) PROVE GuardSound(a)'
  <2>1. OneRun(x) /\ run'[x].stage = run[x].next /\ run'[x].err = run[x].err /\ run[x].phase \in Rotation
        /\ guarded' = guarded /\ writes' = writes
    BY <1>30, <1>i, AcceptStageEffect DEF RunIs, Rotation
  <2>2. run[x].next # Unknown
    BY <1>i, <2>1 DEF AttemptSound
  <2> QED
    BY <1>g, <2>1, <2>2 DEF GuardSound, OneRun
<1>31. ASSUME NEW x \in Attempts, AcknowledgeStage(x) PROVE GuardSound(a)'
  BY <1>31, <1>g, <1>i, AcknowledgeStageEffect DEF GuardSound, OneRun, RunIs
<1>32. ASSUME NEW x \in Attempts, RevokeStage(x) PROVE GuardSound(a)'
  <2>1. OneRun(x) /\ run'[x].stage = run[x].next /\ run'[x].err = run[x].err /\ run[x].phase \in Rotation
        /\ guarded' = guarded /\ writes' = writes
    BY <1>32, <1>i, RevokeStageEffect DEF RunIs, Rotation
  <2>2. run[x].next # Unknown
    BY <1>i, <2>1 DEF AttemptSound
  <2> QED
    BY <1>g, <2>1, <2>2 DEF GuardSound, OneRun
<1>33. ASSUME NEW x \in Attempts, RollbackStage(x) PROVE GuardSound(a)'
  BY <1>33, <1>g, <1>i, RollbackStageEffect DEF GuardSound, OneRun, RunIs, EndsRun
<1>34. ASSUME NEW x \in Attempts, DriverVanishes(x) PROVE GuardSound(a)'
  BY <1>34, <1>g, <1>i, DriverVanishesEffect DEF GuardSound, OneRun, RunIs
<1>35. ASSUME NEW x \in Attempts, ConsumerMoves(x) PROVE GuardSound(a)'
  BY <1>35, <1>g, <1>i, ConsumerMovesEffect DEF GuardSound, OneRun, RunIs
<1>36. ASSUME NEW x \in Attempts, NEW g \in Operations, SendResume(x, g) PROVE GuardSound(a)'
  BY <1>36, <1>g, <1>i, SendResumeEffect DEF GuardSound, OneRun, RunIs
<1>37. ASSUME Prune PROVE GuardSound(a)'
  BY <1>37, <1>g, <1>i, PruneEffect DEF GuardSound, OneRun, RunIs
<1>38. ASSUME Probe PROVE GuardSound(a)'
  <2>1. PICK v \in Attempts :
          /\ \/ run' = run
             \/ OneRun(v) /\ run'[v].stage = run[v].stage /\ run'[v].err = "none"
          /\ \A w \in writes' \ writes : w.call = "ambiguous"
          /\ guarded' = guarded
    BY <1>38, <1>i, ProbeEffect DEF RunIs
  <2> QED
    BY <1>g, <2>1 DEF GuardSound, OneRun
<1>39. ASSUME TakeTerminalError PROVE GuardSound(a)'
  <2>1. PICK v \in Attempts :
          /\ run[v].err # "none"
          /\ OneRun(v) /\ run'[v].stage = run[v].stage /\ run'[v].err = "none"
          /\ \A w \in writes' \ writes :
               w.call = "clear" => run[v].err # "ambiguous" /\ w.owner = RunId(v)
          /\ guarded' = guarded
    BY <1>39, <1>i, TakeTerminalErrorEffect DEF RunIs
  <2>2. RunId(v)[2] = v
    BY Tokens
  <2>3. run[v].err \in {"none", "other", "retry", "ambiguous"}
    BY <1>i, Types DEF Errors
  <2> QED
    BY <1>g, <2>1, <2>2, <2>3 DEF GuardSound, OneRun
<1>40. ASSUME CancelGeneration PROVE GuardSound(a)'
  BY <1>40, <1>g, <1>i, CancelGenerationEffect DEF GuardSound, OneRun, RunIs
<1>41. ASSUME Lapse PROVE GuardSound(a)'
  BY <1>41, <1>g, <1>i, LapseEffect DEF GuardSound, OneRun, RunIs
<1>42. ASSUME LapseError PROVE GuardSound(a)'
  BY <1>42, <1>g, <1>i, LapseErrorEffect DEF GuardSound, OneRun, RunIs
<1>43. ASSUME NEW w \in writes, Write(w) PROVE GuardSound(a)'
  BY <1>43, <1>g, <1>i, WriteEffect DEF GuardSound, OneRun, RunIs
<1>44. ASSUME Crash PROVE GuardSound(a)'
  BY <1>44, <1>g, <1>i, CrashEffect DEF GuardSound, OneRun, RunIs
<1> QED
  BY <1>1, <1>2, <1>3, <1>4, <1>5, <1>6, <1>7, <1>8, <1>9, <1>10, <1>11, <1>12, <1>13, <1>14,
     <1>15, <1>16, <1>17, <1>18, <1>19, <1>20, <1>21, <1>22, <1>23, <1>24, <1>25, <1>26, <1>27,
     <1>28, <1>29, <1>30, <1>31, <1>32, <1>33, <1>34, <1>35, <1>36, <1>37, <1>38, <1>39, <1>40,
     <1>41, <1>42, <1>43, <1>44 DEF Next, Step, Request, Proceed, Driver, Stage, Registry

\* No late call names a stage that is about to be sent.
LEMMA StepUntouched ==
  RegistryInv /\ (\A b \in Attempts : StageUntouched(b)) /\ Next =>
    \A a \in Attempts : StageUntouched(a)'
<1> SUFFICES ASSUME RegistryInv, \A b \in Attempts : StageUntouched(b), Next, NEW a \in Attempts
             PROVE StageUntouched(a)'
  OBVIOUS
<1>i. /\ Typed /\ (\A b \in Attempts : AttemptSound(b) /\ SlotSound(b)) /\ (\A w \in writes : WriteSound(w))
      /\ \A b \in Attempts : StageUntouched(b)
  BY DEF RegistryInv
<1>t. \A b : /\ Res(b) # RunId(a) /\ (RunId(b) = RunId(a) <=> b = a)
  BY Tokens
<1>c. \A c \in Attempts : req[c].at = "superseding" => run[c].phase = "none"
  BY <1>i DEF AttemptSound, Unopened
<1>a. StageUntouched(a)
  BY <1>i
<1>1. ASSUME NEW x \in Attempts, NEW f \in Operations, Claim(x, f) PROVE StageUntouched(a)'
  <2>1. OneRequest(x) /\ req'[x].at # "superseding" /\ OneRun(x) /\ run'[x].phase = run[x].phase
        /\ run[x].phase = "none" /\ writes' = writes
    BY <1>1, <1>i, ClaimEffect DEF RequestIs, RunIs, AttemptSound, Unopened
  <2> QED
    BY <1>a, <2>1 DEF StageUntouched, OneRequest, OneRun
<1>2. ASSUME NEW x \in Attempts, NEW f \in Operations, Refuse(x, f) PROVE StageUntouched(a)'
  <2>1. OneRequest(x) /\ req'[x].at # "superseding" /\ run' = run
        /\ \A w \in writes' \ writes : w.owner = Res(x)
    BY <1>2, <1>i, RefuseEffect DEF RequestIs
  <2> QED
    BY <1>a, <1>t, <2>1 DEF StageUntouched, OneRequest
<1>3. ASSUME NEW x \in Attempts, NEW f \in Operations, NEW results \in BOOLEAN,
             Observe(x, f, results)
      PROVE StageUntouched(a)'
  <2>1. OneRequest(x) /\ req'[x].at # "superseding" /\ run' = run
        /\ \A w \in writes' \ writes : w.owner = Res(x)
    BY <1>3, <1>i, ObserveEffect DEF RequestIs
  <2> QED
    BY <1>a, <1>t, <2>1 DEF StageUntouched, OneRequest
<1>4. ASSUME NEW x \in Attempts, NEW results \in BOOLEAN, ClaimReplacement(x, results)
      PROVE StageUntouched(a)'
  <2>1. PICK v \in Attempts : TakesOver(x, v)
    BY <1>4, <1>i, ClaimReplacementEffect
  <2>2. /\ OneRequest(x) /\ RequestIs(req'[x], "superseding", req[x].op, req[x].victim)
        /\ req[x].at = "waiting" /\ writes' = writes
    BY <1>4, <1>i, ClaimReplacementEffect
  <2>3. run[x].phase = "none" /\ (run[v].next = run[v].stage => run[v].next = Unknown)
    BY <1>i, <2>2 DEF AttemptSound, Unopened
  <2>4. \A y \in Attempts : run'[y].phase = run[y].phase /\ run'[y].next = run[y].next
    BY <2>1 DEF TakesOver, RunIs
  <2>5. \A y \in Attempts \ {x} : run'[y].stage = run[y].stage
    BY <2>1 DEF TakesOver, RunIs
  <2>6. run'[x].stage = run[v].stage
    BY <2>1 DEF TakesOver, RunIs
  <2> QED
    BY <1>a, <2>1, <2>2, <2>3, <2>4, <2>5, <2>6 DEF TakesOver, StageUntouched, OneRequest, RequestIs
<1>5. ASSUME NEW x \in Attempts, ClaimVacated(x) PROVE StageUntouched(a)'
  <2>1. OneRequest(x) /\ req'[x].at # "superseding" /\ OneRun(x) /\ run'[x].phase = run[x].phase
        /\ run[x].phase = "none" /\ writes' = writes
    BY <1>5, <1>i, ClaimVacatedEffect DEF RequestIs, RunIs, AttemptSound, Unopened
  <2> QED
    BY <1>a, <2>1 DEF StageUntouched, OneRequest, OneRun
<1>6. ASSUME NEW x \in Attempts, LoseClaim(x) PROVE StageUntouched(a)'
  <2>1. OneRequest(x) /\ req'[x].at # "superseding" /\ run' = run
        /\ \A w \in writes' \ writes : w.owner = Res(x)
    BY <1>6, <1>i, LoseClaimEffect DEF RequestIs
  <2> QED
    BY <1>a, <1>t, <2>1 DEF StageUntouched, OneRequest
<1>7. ASSUME NEW x \in Attempts, FinishReplacement(x) PROVE StageUntouched(a)'
  <2>1. OneRequest(x) /\ req'[x].at # "superseding" /\ OneRun(x) /\ run'[x].phase = run[x].phase
        /\ run[x].phase = "none" /\ writes' = writes
    BY <1>7, <1>i, FinishReplacementEffect DEF RequestIs, RunIs, AttemptSound, Unopened
  <2> QED
    BY <1>a, <2>1 DEF StageUntouched, OneRequest, OneRun
<1>8. ASSUME NEW x \in Attempts, AbandonReplacement(x) PROVE StageUntouched(a)'
  <2>1. OneRequest(x) /\ req'[x].at # "superseding" /\ run' = run
        /\ \A w \in writes' \ writes : w.owner = Res(x)
    BY <1>8, <1>i, AbandonReplacementEffect DEF RequestIs
  <2> QED
    BY <1>a, <1>t, <2>1 DEF StageUntouched, OneRequest
<1>9. ASSUME NEW x \in Attempts, BeginDurable(x) PROVE StageUntouched(a)'
  <2>1. OneRequest(x) /\ req'[x].at # "superseding" /\ run' = run
        /\ \A w \in writes' \ writes : w.owner = Res(x)
    BY <1>9, <1>i, BeginDurableEffect DEF RequestIs
  <2> QED
    BY <1>a, <1>t, <2>1 DEF StageUntouched, OneRequest
<1>10. ASSUME NEW x \in Attempts, Withdraw(x) PROVE StageUntouched(a)'
  <2>1. OneRequest(x) /\ req'[x].at # "superseding" /\ run' = run
        /\ \A w \in writes' \ writes : w.owner = Res(x)
    BY <1>10, <1>i, WithdrawEffect DEF RequestIs
  <2> QED
    BY <1>a, <1>t, <2>1 DEF StageUntouched, OneRequest
<1>11. ASSUME NEW x \in Attempts, Dispatch(x) PROVE StageUntouched(a)'
  <2>1. OneRequest(x) /\ req'[x].at # "superseding" /\ run' = run
        /\ \A w \in writes' \ writes : w.owner = Res(x)
    BY <1>11, <1>i, DispatchEffect DEF RequestIs
  <2> QED
    BY <1>a, <1>t, <2>1 DEF StageUntouched, OneRequest
<1>12. ASSUME NEW x \in Attempts, OpenRejected(x) PROVE StageUntouched(a)'
  <2>1. OneRequest(x) /\ req'[x].at # "superseding" /\ run' = run
        /\ \A w \in writes' \ writes : w.owner = Res(x)
    BY <1>12, <1>i, OpenRejectedEffect DEF RequestIs
  <2> QED
    BY <1>a, <1>t, <2>1 DEF StageUntouched, OneRequest
<1>13. ASSUME NEW x \in Attempts, OpenUnknown(x) PROVE StageUntouched(a)'
  <2>1. OneRequest(x) /\ req'[x].at # "superseding" /\ run' = run
        /\ \A w \in writes' \ writes : w.owner = Res(x)
    BY <1>13, <1>i, OpenUnknownEffect DEF RequestIs
  <2> QED
    BY <1>a, <1>t, <2>1 DEF StageUntouched, OneRequest
<1>14. ASSUME NEW x \in Attempts, DropReplacement(x) PROVE StageUntouched(a)'
  <2>1. PICK v \in Attempts : v = req[x].victim
           /\ writes' = writes
                         \cup {[call |-> "ambiguous", fp |-> run[x].stage, owner |-> RunId(v),
                                cancels |-> NoAttempt]}
    BY <1>14, <1>i, DropReplacementEffect
  <2>2. OneRequest(x) /\ req'[x].at # "superseding" /\ run' = run /\ req[x].at = "superseding"
    BY <1>14, <1>i, DropReplacementEffect DEF RequestIs
  <2> QED
    BY <1>a, <1>t, <2>1, <2>2 DEF StageUntouched, OneRequest
<1>15. ASSUME NEW x \in Attempts, OpenSucceeds(x) PROVE StageUntouched(a)'
  <2>1. OneRequest(x) /\ req'[x].at # "superseding" /\ OneRun(x) /\ run'[x].next = Unknown
        /\ writes' = writes
    BY <1>15, <1>i, OpenSucceedsEffect DEF RequestIs, RunIs
  <2> QED
    BY <1>a, <2>1 DEF StageUntouched, OneRequest, OneRun
<1>16. ASSUME NEW x \in Attempts, InsertTransfer(x) PROVE StageUntouched(a)'
  <2>1. OneRequest(x) /\ req'[x].at # "superseding"
        /\ \A w \in writes' \ writes : w.owner = Res(x)
    BY <1>16, <1>i, InsertTransferEffect DEF RequestIs
  <2>2. \A y \in Attempts : run'[y].phase = run[y].phase /\ run'[y].next = run[y].next /\ run'[y].stage = run[y].stage
    BY <1>16, <1>i, InsertTransferEffect DEF RunIs, OneRun
  <2> QED
    BY <1>a, <1>t, <2>1, <2>2 DEF StageUntouched, OneRequest
<1>17. ASSUME NEW x \in Attempts, InsertPublish(x) PROVE StageUntouched(a)'
  <2>1. OneRequest(x) /\ req'[x].at # "superseding" /\ run' = run
        /\ \A w \in writes' \ writes : w.owner = Res(x)
    BY <1>17, <1>i, InsertPublishEffect DEF RequestIs
  <2> QED
    BY <1>a, <1>t, <2>1 DEF StageUntouched, OneRequest
<1>18. ASSUME NEW x \in Attempts, InsertReseal(x) PROVE StageUntouched(a)'
  <2>1. OneRequest(x) /\ req'[x].at # "superseding" /\ writes' = writes
    BY <1>18, <1>i, InsertResealEffect DEF RequestIs
  <2>2. \A y \in Attempts : /\ run'[y].next = run[y].next /\ run'[y].stage = run[y].stage
                             /\ run'[y].phase \in {run[y].phase, "resealing"}
    BY <1>18, <1>i, InsertResealEffect DEF RunIs, OneRun
  <2>3. \A c \in Attempts : req'[c].at = "superseding" => req'[c] = req[c] /\ run'[c].stage = run[c].stage
    BY <2>1, <2>2 DEF OneRequest
  <2>4. run'[a].next = run[a].next /\ run'[a].phase \in {run[a].phase, "resealing"}
    BY <2>2
  <2> QED
    BY <1>a, <2>1, <2>3, <2>4 DEF StageUntouched
<1>19. ASSUME NEW x \in Attempts, GiveUp(x) PROVE StageUntouched(a)'
  <2>1. OneRequest(x) /\ req'[x].at # "superseding" /\ writes' = writes
    BY <1>19, <1>i, GiveUpEffect DEF RequestIs
  <2>2. \A y \in Attempts : /\ run'[y].next = run[y].next /\ run'[y].stage = run[y].stage
                             /\ run'[y].phase \in {run[y].phase, "resealing"}
    BY <1>19, <1>i, GiveUpEffect DEF RunIs, OneRun
  <2>3. \A c \in Attempts : req'[c].at = "superseding" => req'[c] = req[c] /\ run'[c].stage = run[c].stage
    BY <2>1, <2>2 DEF OneRequest
  <2>4. run'[a].next = run[a].next /\ run'[a].phase \in {run[a].phase, "resealing"}
    BY <2>2
  <2> QED
    BY <1>a, <2>1, <2>3, <2>4 DEF StageUntouched
<1>20. ASSUME NEW x \in Attempts, NEW err \in Errors \ {"none"}, DriverFails(x, err)
       PROVE StageUntouched(a)'
  BY <1>20, <1>a, <1>c, <1>i, DriverFailsEffect DEF StageUntouched, OneRequest, RequestIs,
     OneRun, RunIs, EndsRun
<1>21. ASSUME NEW x \in Attempts, NEW err \in {"other", "ambiguous"}, DriverCancelled(x, err)
       PROVE StageUntouched(a)'
  BY <1>21, <1>a, <1>c, <1>i, DriverCancelledEffect DEF StageUntouched, OneRequest, RequestIs,
     OneRun, RunIs, EndsRun
<1>22. ASSUME NEW x \in Attempts, DriverFinishes(x) PROVE StageUntouched(a)'
  BY <1>22, <1>a, <1>c, <1>i, DriverFinishesEffect DEF StageUntouched, OneRequest, RequestIs,
     OneRun, RunIs, EndsRun
<1>23. ASSUME NEW x \in Attempts, SealLookup(x) PROVE StageUntouched(a)'
  BY <1>23, <1>a, <1>c, <1>i, SealLookupEffect DEF StageUntouched, OneRequest, RequestIs,
     OneRun, RunIs
<1>24. ASSUME NEW x \in Attempts, SealLedger(x) PROVE StageUntouched(a)'
  <2>1. req' = req /\ OneRun(x) /\ run'[x].phase \in Publishing \cup {"sealed", "completed"}
        /\ run'[x].stage = run[x].stage /\ \A w \in writes' \ writes : w.owner = RunId(x)
    BY <1>24, <1>i, SealLedgerEffect DEF RunIs
  <2> QED
    BY <1>a, <1>t, <2>1 DEF StageUntouched, OneRun, Publishing
<1>25. ASSUME NEW x \in Attempts, SealSlot(x) PROVE StageUntouched(a)'
  BY <1>25, <1>a, <1>c, <1>i, SealSlotEffect DEF StageUntouched, OneRequest, RequestIs, OneRun,
     RunIs
<1>26. ASSUME NEW x \in Attempts, Complete(x) PROVE StageUntouched(a)'
  BY <1>26, <1>a, <1>c, <1>i, CompleteEffect DEF StageUntouched, OneRequest, RequestIs, OneRun,
     RunIs
<1>27. ASSUME NEW x \in Attempts, SkipResume(x) PROVE StageUntouched(a)'
  BY <1>27, <1>a, <1>c, <1>i, SkipResumeEffect DEF StageUntouched, OneRequest, RequestIs,
     OneRun, RunIs
<1>28. ASSUME NEW x \in Attempts, PrepareStage(x) PROVE StageUntouched(a)'
  BY <1>28, <1>a, <1>c, <1>i, PrepareStageEffect DEF StageUntouched, OneRequest, RequestIs,
     OneRun, RunIs, EndsRun
<1>29. ASSUME NEW x \in Attempts, DispatchStage(x) PROVE StageUntouched(a)'
  BY <1>29, <1>a, <1>c, <1>i, DispatchStageEffect DEF StageUntouched, OneRequest, RequestIs,
     OneRun, RunIs
<1>30. ASSUME NEW x \in Attempts, AcceptStage(x) PROVE StageUntouched(a)'
  <2>1. OneRun(x) /\ run'[x].phase \in {"accepted", "unacked"} /\ run[x].phase # "none" /\ req' = req /\ writes' = writes
    BY <1>30, <1>i, AcceptStageEffect DEF RunIs
  <2> QED
    BY <1>a, <1>c, <2>1 DEF StageUntouched, OneRun
<1>31. ASSUME NEW x \in Attempts, AcknowledgeStage(x) PROVE StageUntouched(a)'
  BY <1>31, <1>a, <1>c, <1>i, AcknowledgeStageEffect DEF StageUntouched, OneRequest, RequestIs,
     OneRun, RunIs
<1>32. ASSUME NEW x \in Attempts, RevokeStage(x) PROVE StageUntouched(a)'
  <2>1. OneRun(x) /\ run'[x].phase \in {"accepted", "unacked"} /\ run[x].phase # "none" /\ req' = req /\ writes' = writes
    BY <1>32, <1>i, RevokeStageEffect DEF RunIs
  <2> QED
    BY <1>a, <1>c, <2>1 DEF StageUntouched, OneRun
<1>33. ASSUME NEW x \in Attempts, RollbackStage(x) PROVE StageUntouched(a)'
  BY <1>33, <1>a, <1>c, <1>i, RollbackStageEffect DEF StageUntouched, OneRequest, RequestIs,
     OneRun, RunIs, EndsRun
<1>34. ASSUME NEW x \in Attempts, DriverVanishes(x) PROVE StageUntouched(a)'
  BY <1>34, <1>a, <1>c, <1>i, DriverVanishesEffect DEF StageUntouched, OneRequest, RequestIs,
     OneRun, RunIs
<1>35. ASSUME NEW x \in Attempts, ConsumerMoves(x) PROVE StageUntouched(a)'
  BY <1>35, <1>a, <1>c, <1>i, ConsumerMovesEffect DEF StageUntouched, OneRequest, RequestIs,
     OneRun, RunIs
<1>36. ASSUME NEW x \in Attempts, NEW g \in Operations, SendResume(x, g) PROVE StageUntouched(a)'
  <2>1. /\ run[x].phase = "live" /\ slot = Running(x)
        /\ \A b \in Attempts : g \notin {run[b].stage, req[b].op}
        /\ OneRun(x) /\ RunIs(run'[x], run[x].phase, run[x].stage, g, run[x].err, run[x].cancel)
        /\ req' = req /\ writes' = writes
    BY <1>36, <1>i, SendResumeEffect
  <2>2. \A w \in writes : w.owner # RunId(x)
    <3>1. RunId(x)[1] = "run" /\ RunId(x)[2] = x
      BY Tokens
    <3> QED
      BY <1>i, <2>1, <3>1 DEF WriteSound, Serving
  <2> QED
    BY <1>a, <1>c, <2>1, <2>2 DEF StageUntouched, OneRun, RunIs
<1>37. ASSUME Prune PROVE StageUntouched(a)'
  BY <1>37, <1>a, <1>c, <1>i, PruneEffect DEF StageUntouched, OneRequest, RequestIs, OneRun,
     RunIs
<1>38. ASSUME Probe PROVE StageUntouched(a)'
  <2>1. PICK v \in Attempts :
          /\ req' = req
          /\ run' = run \/ (/\ OneRun(v) /\ run'[v].phase = run[v].phase
                           /\ run'[v].stage = run[v].stage /\ run'[v].next = run[v].next)
          /\ \A w \in writes' \ writes : w.owner = RunId(v) /\ w.fp = run[v].stage
    BY <1>38, <1>i, ProbeEffect DEF RunIs
  <2>2. run[v].next = run[v].stage => run[v].next = Unknown
    BY <1>i DEF AttemptSound
  <2> QED
    BY <1>a, <1>t, <2>1, <2>2 DEF StageUntouched, OneRun
<1>39. ASSUME TakeTerminalError PROVE StageUntouched(a)'
  <2>1. PICK v \in Attempts :
          /\ req' = req
          /\ run' = run \/ (/\ OneRun(v) /\ run'[v].phase = run[v].phase
                           /\ run'[v].stage = run[v].stage /\ run'[v].next = run[v].next)
          /\ \A w \in writes' \ writes : w.owner = RunId(v) /\ w.fp = run[v].stage
    BY <1>39, <1>i, TakeTerminalErrorEffect DEF RunIs
  <2>2. run[v].next = run[v].stage => run[v].next = Unknown
    BY <1>i DEF AttemptSound
  <2> QED
    BY <1>a, <1>t, <2>1, <2>2 DEF StageUntouched, OneRun
<1>40. ASSUME CancelGeneration PROVE StageUntouched(a)'
  <2>1. PICK v \in Attempts :
          /\ req' = req
          /\ run' = run \/ (/\ OneRun(v) /\ run'[v].phase = run[v].phase
                           /\ run'[v].stage = run[v].stage /\ run'[v].next = run[v].next)
          /\ \A w \in writes' \ writes : w.owner = RunId(v) /\ w.fp = run[v].stage
    BY <1>40, <1>i, CancelGenerationEffect DEF RunIs
  <2>2. run[v].next = run[v].stage => run[v].next = Unknown
    BY <1>i DEF AttemptSound
  <2> QED
    BY <1>a, <1>t, <2>1, <2>2 DEF StageUntouched, OneRun
<1>41. ASSUME Lapse PROVE StageUntouched(a)'
  BY <1>41, <1>a, <1>c, <1>i, LapseEffect DEF StageUntouched, OneRequest, RequestIs, OneRun,
     RunIs
<1>42. ASSUME LapseError PROVE StageUntouched(a)'
  BY <1>42, <1>a, <1>c, <1>i, LapseErrorEffect DEF StageUntouched, OneRequest, RequestIs,
     OneRun, RunIs
<1>43. ASSUME NEW w \in writes, Write(w) PROVE StageUntouched(a)'
  BY <1>43, <1>a, <1>c, <1>i, WriteEffect DEF StageUntouched, OneRequest, RequestIs, OneRun,
     RunIs
<1>44. ASSUME Crash PROVE StageUntouched(a)'
  BY <1>44, <1>a, <1>c, <1>i, CrashEffect DEF StageUntouched, OneRequest, RequestIs, OneRun,
     RunIs
<1> QED
  BY <1>1, <1>2, <1>3, <1>4, <1>5, <1>6, <1>7, <1>8, <1>9, <1>10, <1>11, <1>12, <1>13, <1>14,
     <1>15, <1>16, <1>17, <1>18, <1>19, <1>20, <1>21, <1>22, <1>23, <1>24, <1>25, <1>26, <1>27,
     <1>28, <1>29, <1>30, <1>31, <1>32, <1>33, <1>34, <1>35, <1>36, <1>37, <1>38, <1>39, <1>40,
     <1>41, <1>42, <1>43, <1>44 DEF Next, Step, Request, Proceed, Driver, Stage, Registry

-----------------------------------------------------------------------------
(* With a ledger: the record covers every guarded operation.                *)

\* Every other step is quiet.
LEMMA StepQuiet ==
  RegistryInv /\ MarkerSound /\ (\A b \in Attempts : GuardSound(b)) /\ Next /\ ~Loud => Quiet
<1> SUFFICES ASSUME RegistryInv, MarkerSound, \A b \in Attempts : GuardSound(b), Next, ~Loud
             PROVE Quiet
  OBVIOUS
<1>i. /\ Typed /\ (\A b \in Attempts : AttemptSound(b) /\ SlotSound(b))
  BY DEF RegistryInv
<1>k. /\ \A b \in Attempts : Held /\ b = Holder => req[b].at \notin Unclaimed
      /\ \A b \in guarded : b \in Attempts /\ req[b].at \notin Unclaimed
      /\ ~Loud
  BY <1>i, Types DEF MarkerSound, GuardSound
<1>1. ASSUME NEW x \in Attempts, NEW f \in Operations, Claim(x, f) PROVE Quiet
  <2>1. req[x].at \in Unclaimed /\ OneRun(x) /\ RunIs(run'[x], run[x].phase, run'[x].stage,
                                                      run[x].next, run[x].err, run[x].cancel)
        /\ guarded' \subseteq guarded /\ ledger' = ledger /\ process' = process
    BY <1>1, <1>i, ClaimEffect DEF Rotated, Released, Unclaimed, RunIs
  <2>2. run[x].phase = "none"
    BY <1>i, <2>1 DEF AttemptSound, Unclaimed, Unopened
  <2> QED
    BY <1>k, <2>1, <2>2 DEF Quiet, Steady, Keeps, OneRun, RunIs, Rotation
<1>2. ASSUME NEW x \in Attempts, NEW f \in Operations, Refuse(x, f) PROVE Quiet
  <2>1. run' = run /\ guarded' \subseteq guarded /\ ledger' = ledger /\ process' = process
    BY <1>2, <1>i, RefuseEffect
  <2> QED
    BY <2>1 DEF Quiet, Steady, Keeps
<1>3. ASSUME NEW x \in Attempts, NEW f \in Operations, NEW results \in BOOLEAN,
             Observe(x, f, results)
      PROVE Quiet
  <2>1. run' = run /\ guarded' \subseteq guarded /\ ledger' = ledger /\ process' = process
    BY <1>3, <1>i, ObserveEffect
  <2> QED
    BY <2>1 DEF Quiet, Steady, Keeps
<1>4. ASSUME NEW x \in Attempts, NEW results \in BOOLEAN, ClaimReplacement(x, results) PROVE Quiet
  <2>1. PICK v \in Attempts : TakesOver(x, v)
    BY <1>4, <1>i, ClaimReplacementEffect
  <2>2. /\ req[x].at \in Unclaimed /\ guarded' = guarded /\ ledger' = ledger /\ process' = process
    BY <1>4, <1>i, ClaimReplacementEffect DEF Unclaimed
  <2>3. \A y \in Attempts \ {x} : run'[y].stage = run[y].stage /\ run'[y].next = run[y].next /\ run'[y].phase = run[y].phase
    BY <2>1 DEF TakesOver, RunIs
  <2>4. run'[x].phase = "none"
    BY <1>i, <2>1, <2>2 DEF TakesOver, AttemptSound, Unclaimed, Unopened, RunIs
  <2> QED
    BY <1>k, <2>2, <2>3, <2>4 DEF Quiet, Steady, Keeps, Rotation
<1>5. ASSUME NEW x \in Attempts, ClaimVacated(x) PROVE Quiet
  <2>1. req[x].at \in Unclaimed /\ OneRun(x) /\ RunIs(run'[x], run[x].phase, run'[x].stage,
                                                      run[x].next, run[x].err, run[x].cancel)
        /\ guarded' \subseteq guarded /\ ledger' = ledger /\ process' = process
    BY <1>5, <1>i, ClaimVacatedEffect DEF Rotated, Released, Unclaimed, RunIs
  <2>2. run[x].phase = "none"
    BY <1>i, <2>1 DEF AttemptSound, Unclaimed, Unopened
  <2> QED
    BY <1>k, <2>1, <2>2 DEF Quiet, Steady, Keeps, OneRun, RunIs, Rotation
<1>6. ASSUME NEW x \in Attempts, LoseClaim(x) PROVE Quiet
  <2>1. run' = run /\ guarded' \subseteq guarded /\ ledger' = ledger /\ process' = process
    BY <1>6, <1>i, LoseClaimEffect
  <2> QED
    BY <2>1 DEF Quiet, Steady, Keeps
<1>7. ASSUME NEW x \in Attempts, FinishReplacement(x) PROVE Quiet
  BY <1>7, <1>k DEF Loud
<1>8. ASSUME NEW x \in Attempts, AbandonReplacement(x) PROVE Quiet
  BY <1>8, <1>k DEF Loud
<1>9. ASSUME NEW x \in Attempts, BeginDurable(x) PROVE Quiet
  BY <1>9, <1>k DEF Loud
<1>10. ASSUME NEW x \in Attempts, Withdraw(x) PROVE Quiet
  <2>1. run' = run /\ guarded' \subseteq guarded /\ ledger' = ledger /\ process' = process
    BY <1>10, <1>i, WithdrawEffect
  <2> QED
    BY <2>1 DEF Quiet, Steady, Keeps
<1>11. ASSUME NEW x \in Attempts, Dispatch(x) PROVE Quiet
  BY <1>11, <1>k DEF Loud
<1>12. ASSUME NEW x \in Attempts, OpenRejected(x) PROVE Quiet
  <2>1. run' = run /\ guarded' \subseteq guarded /\ ledger' = ledger /\ process' = process
    BY <1>12, <1>i, OpenRejectedEffect
  <2> QED
    BY <2>1 DEF Quiet, Steady, Keeps
<1>13. ASSUME NEW x \in Attempts, OpenUnknown(x) PROVE Quiet
  <2>1. run' = run /\ guarded' \subseteq guarded /\ ledger' = ledger /\ process' = process
    BY <1>13, <1>i, OpenUnknownEffect
  <2> QED
    BY <2>1 DEF Quiet, Steady, Keeps
<1>14. ASSUME NEW x \in Attempts, DropReplacement(x) PROVE Quiet
  <2>1. run' = run /\ guarded' \subseteq guarded /\ ledger' = ledger /\ process' = process
    BY <1>14, <1>i, DropReplacementEffect
  <2> QED
    BY <2>1 DEF Quiet, Steady, Keeps
<1>15. ASSUME NEW x \in Attempts, OpenSucceeds(x) PROVE Quiet
  <2>1. req[x].at = "dispatched" /\ OneRun(x) /\ RunIs(run'[x], "live", req[x].op, Unknown, "none",
                                                       FALSE)
        /\ guarded' = guarded /\ ledger' = ledger /\ process' = process
    BY <1>15, <1>i, OpenSucceedsEffect
  <2>2. run[x].stage = req[x].op
    BY <1>i, <2>1 DEF AttemptSound
  <2> QED
    BY <1>k, <2>1, <2>2 DEF Quiet, Steady, Keeps, OneRun, RunIs, Rotation
<1>16. ASSUME NEW x \in Attempts, InsertTransfer(x) PROVE Quiet
  BY <1>16, <1>k DEF Loud
<1>17. ASSUME NEW x \in Attempts, InsertPublish(x) PROVE Quiet
  <2>1. run' = run /\ guarded' \subseteq guarded /\ ledger' = ledger /\ process' = process
    BY <1>17, <1>i, InsertPublishEffect
  <2> QED
    BY <2>1 DEF Quiet, Steady, Keeps
<1>18. ASSUME NEW x \in Attempts, InsertReseal(x) PROVE Quiet
  BY <1>18, <1>k, <1>i, InsertResealEffect DEF Quiet, Steady, Keeps, OneRun, RunIs, Rotation, Serving
<1>19. ASSUME NEW x \in Attempts, GiveUp(x) PROVE Quiet
  BY <1>19, <1>k, <1>i, GiveUpEffect DEF Quiet, Steady, Keeps, OneRun, RunIs, Rotation, Serving
<1>20. ASSUME NEW x \in Attempts, NEW err \in Errors \ {"none"}, DriverFails(x, err) PROVE Quiet
  BY <1>20, <1>k, <1>i, DriverFailsEffect DEF Quiet, Steady, Keeps, OneRun, RunIs, Rotation, Serving,
     EndsRun
<1>21. ASSUME NEW x \in Attempts, NEW err \in {"other", "ambiguous"}, DriverCancelled(x, err)
       PROVE Quiet
  BY <1>21, <1>k, <1>i, DriverCancelledEffect DEF Quiet, Steady, Keeps, OneRun, RunIs, Rotation,
     Serving, EndsRun
<1>22. ASSUME NEW x \in Attempts, DriverFinishes(x) PROVE Quiet
  BY <1>22, <1>k, <1>i, DriverFinishesEffect DEF Quiet, Steady, Keeps, OneRun, RunIs, Rotation, Serving,
     EndsRun
<1>23. ASSUME NEW x \in Attempts, SealLookup(x) PROVE Quiet
  BY <1>23, <1>k, <1>i, SealLookupEffect DEF Quiet, Steady, Keeps, OneRun, RunIs, Rotation, Serving
<1>24. ASSUME NEW x \in Attempts, SealLedger(x) PROVE Quiet
  BY <1>24, <1>k DEF Loud
<1>25. ASSUME NEW x \in Attempts, SealSlot(x) PROVE Quiet
  BY <1>25, <1>k, <1>i, SealSlotEffect DEF Quiet, Steady, Keeps, OneRun, RunIs, Rotation, Serving
<1>26. ASSUME NEW x \in Attempts, Complete(x) PROVE Quiet
  BY <1>26, <1>k, <1>i, CompleteEffect DEF Quiet, Steady, Keeps, OneRun, RunIs, Rotation, Serving
<1>27. ASSUME NEW x \in Attempts, SkipResume(x) PROVE Quiet
  BY <1>27, <1>k, <1>i, SkipResumeEffect DEF Quiet, Steady, Keeps, OneRun, RunIs, Rotation, Serving
<1>28. ASSUME NEW x \in Attempts, PrepareStage(x) PROVE Quiet
  BY <1>28, <1>k DEF Loud
<1>29. ASSUME NEW x \in Attempts, DispatchStage(x) PROVE Quiet
  BY <1>29, <1>k DEF Loud
<1>30. ASSUME NEW x \in Attempts, AcceptStage(x) PROVE Quiet
  BY <1>30, <1>k DEF Loud
<1>31. ASSUME NEW x \in Attempts, AcknowledgeStage(x) PROVE Quiet
  BY <1>31, <1>k, <1>i, AcknowledgeStageEffect DEF Quiet, Steady, Keeps, OneRun, RunIs, Rotation,
     Serving
<1>32. ASSUME NEW x \in Attempts, RevokeStage(x) PROVE Quiet
  BY <1>32, <1>k DEF Loud
<1>33. ASSUME NEW x \in Attempts, RollbackStage(x) PROVE Quiet
  BY <1>33, <1>k DEF Loud
<1>34. ASSUME NEW x \in Attempts, DriverVanishes(x) PROVE Quiet
  BY <1>34, <1>k, <1>i, DriverVanishesEffect DEF Quiet, Steady, Keeps, OneRun, RunIs, Rotation, Serving
<1>35. ASSUME NEW x \in Attempts, ConsumerMoves(x) PROVE Quiet
  BY <1>35, <1>k, <1>i, ConsumerMovesEffect DEF Quiet, Steady, Keeps, OneRun, RunIs, Rotation, Serving
<1>36. ASSUME NEW x \in Attempts, NEW g \in Operations, SendResume(x, g) PROVE Quiet
  BY <1>36, <1>k DEF Loud
<1>37. ASSUME Prune PROVE Quiet
  <2>1. run' = run /\ guarded' \subseteq guarded /\ ledger' = ledger /\ process' = process
    BY <1>37, <1>i, PruneEffect
  <2> QED
    BY <2>1 DEF Quiet, Steady, Keeps
<1>38. ASSUME Probe PROVE Quiet
  BY <1>38, <1>k DEF Loud
<1>39. ASSUME TakeTerminalError PROVE Quiet
  BY <1>39, <1>k, <1>i, TakeTerminalErrorEffect DEF Quiet, Steady, Keeps, OneRun, RunIs, Rotation,
     Serving
<1>40. ASSUME CancelGeneration PROVE Quiet
  <2>1. run' = run /\ guarded' \subseteq guarded /\ ledger' = ledger /\ process' = process
    BY <1>40, <1>i, CancelGenerationEffect
  <2> QED
    BY <2>1 DEF Quiet, Steady, Keeps
<1>41. ASSUME Lapse PROVE Quiet
  <2>1. run' = run /\ guarded' \subseteq guarded /\ ledger' = ledger /\ process' = process
    BY <1>41, <1>i, LapseEffect
  <2> QED
    BY <2>1 DEF Quiet, Steady, Keeps
<1>42. ASSUME LapseError PROVE Quiet
  <2>1. run' = run /\ guarded' \subseteq guarded /\ ledger' = ledger /\ process' = process
    BY <1>42, <1>i, LapseErrorEffect
  <2> QED
    BY <2>1 DEF Quiet, Steady, Keeps
<1>43. ASSUME NEW w \in writes, Write(w) PROVE Quiet
  BY <1>43, <1>k DEF Loud
<1>44. ASSUME Crash PROVE Quiet
  BY <1>44, <1>k DEF Loud
<1> QED
  BY <1>1, <1>2, <1>3, <1>4, <1>5, <1>6, <1>7, <1>8, <1>9, <1>10, <1>11, <1>12, <1>13, <1>14,
     <1>15, <1>16, <1>17, <1>18, <1>19, <1>20, <1>21, <1>22, <1>23, <1>24, <1>25, <1>26, <1>27,
     <1>28, <1>29, <1>30, <1>31, <1>32, <1>33, <1>34, <1>35, <1>36, <1>37, <1>38, <1>39, <1>40,
     <1>41, <1>42, <1>43, <1>44 DEF Next, Step, Request, Proceed, Driver, Stage, Registry

\* What the proofs below use of the invariant.
LEMMA RecordedFacts ==
  ASSUME RegistryInv, LedgerInv
  PROVE  /\ Sound /\ Typed
         /\ Held => Holder \in Attempts
         /\ \A b \in guarded : b \in Attempts /\ run[b].stage # Unknown
<1>1. Typed
  BY DEF RegistryInv
<1>2. Held => Holder \in Attempts
  BY <1>1, Types DEF Record, ActiveOperation, Held, Holder
<1> QED
  BY <1>1, <1>2, Types DEF LedgerInv, GuardSound, MarkerSound, Sound

\* A quiet step leaves what is guarded covered.
LEMMA QuietRecorded ==
  ASSUME RegistryInv, LedgerInv, Recorded, Quiet
  PROVE  Recorded'
<1>1. /\ Sound /\ Typed
      /\ Held => Holder \in Attempts
      /\ \A b \in guarded : b \in Attempts /\ run[b].stage # Unknown
  BY RecordedFacts
<1>2. ledger'.completed = ledger.completed
  BY DEF Quiet, Steady, Keeps
<1>3. ASSUME NEW b \in guarded' PROVE Covered(run[b].stage)'
  <2>1. b \in guarded /\ run'[b].stage = run[b].stage /\ Covered(run[b].stage)
    BY <1>3 DEF Quiet, Steady, Recorded
  <2> QED
    BY <1>2, <2>1 DEF Quiet, Steady, Keeps, Covered, Held
<1>4. HolderAlone'
  <2> SUFFICES ASSUME Held', NEW b \in guarded', b # Holder'
               PROVE  /\ run'[b].stage \notin {ledger'.active.fp, run'[Holder'].stage}
                      /\ run'[b].stage # run'[Holder'].next
    BY DEF HolderAlone
  <2>1. Held /\ ledger'.active = ledger.active /\ Holder' = Holder
    BY DEF Quiet, Steady, Keeps, Held, Holder
  <2>2. b \in guarded /\ run'[b].stage = run[b].stage /\ run[b].stage # Unknown /\ Holder \in Attempts
    BY <1>1, <2>1 DEF Quiet, Steady
  <2>3. run'[Holder].stage = run[Holder].stage /\ run'[Holder].next \in {run[Holder].next, Unknown}
    BY <2>1, <2>2 DEF Quiet, Steady
  <2> QED
    BY <2>1, <2>2, <2>3 DEF HolderAlone, Recorded
<1>5. ASSUME NEW v \in Attempts PROVE StageRecorded(v)'
  <2>1. run'[v].phase \in Rotation =>
          run'[v].phase = run[v].phase /\ run'[v].stage = run[v].stage /\ run'[v].next = run[v].next
    BY <1>5 DEF Quiet, Steady
  <2>2. StageRecorded(v)
    BY DEF Recorded
  <2>3. CASE run'[v].phase \notin Rotation
    BY <2>3 DEF StageRecorded, Rotation
  <2>4. CASE run'[v].phase \in Rotation /\ ledger'.active = ledger.active
    BY <1>2, <2>1, <2>2, <2>4 DEF StageRecorded, Rotation, Quiet, Steady, Held
  <2>5. CASE run'[v].phase \in Rotation /\ ledger'.active # ledger.active
    <3>1. Held => ledger.active.state = "Prepared" /\ ledger.active.proc # process
      BY <2>5 DEF Quiet, Steady, Keeps
    <3>2. run[v].phase \notin {"prepared", "unsent", "staged"}
      BY <2>2, <3>1 DEF StageRecorded
    <3>3. ~(run[v].phase = "accepted" /\ v \in guarded)
      BY <2>2, <3>1 DEF StageRecorded
    <3> QED
      BY <1>2, <2>1, <2>2, <3>2, <3>3 DEF StageRecorded, Rotation, Quiet, Steady
  <2> QED
    BY <2>3, <2>4, <2>5
<1>6. \A a, b \in guarded' : run'[a].stage = run'[b].stage => a = b
  BY DEF Quiet, Steady, Recorded
<1> QED
  BY <1>3, <1>4, <1>5, <1>6 DEF Recorded

\* A steady step that takes away the marker of an attempt that is not guarded,
\* and is not rotating, leaves what is guarded covered.
LEMMA ClearRecorded ==
  ASSUME RegistryInv, LedgerInv, Recorded, Steady,
         Held, ledger'.active = NoActive, ledger'.completed = ledger.completed,
         Holder \notin guarded',
         \A u \in Attempts : run[u].phase \in {"prepared", "unsent", "staged"} =>
           ledger.active.owner # RunId(u)
  PROVE  Recorded'
<1>1. ASSUME NEW b \in guarded' PROVE Covered(run[b].stage)'
  <2>1. b \in guarded /\ b # Holder /\ run'[b].stage = run[b].stage /\ Covered(run[b].stage)
    BY <1>1 DEF Steady, Recorded
  <2>2. run[b].stage # ledger.active.fp
    BY <2>1 DEF Recorded, HolderAlone
  <2> QED
    BY <2>1, <2>2 DEF Covered
<1>2. HolderAlone'
  BY DEF HolderAlone, Held
<1>3. ASSUME NEW v \in Attempts PROVE StageRecorded(v)'
  <2>1. run'[v].phase \in Rotation =>
          run'[v].phase = run[v].phase /\ run'[v].stage = run[v].stage /\ run'[v].next = run[v].next
    BY <1>3 DEF Steady
  <2>2. StageRecorded(v)
    BY DEF Recorded
  <2>3. run[v].phase \notin {"prepared", "unsent", "staged"}
    BY <2>2 DEF StageRecorded
  <2>4. ~(run'[v].phase = "accepted" /\ v \in guarded')
    <3>1. SUFFICES ASSUME run'[v].phase = "accepted", v \in guarded' PROVE FALSE
      OBVIOUS
    <3>2. v \in guarded /\ run[v].phase = "accepted"
      BY <2>1, <3>1 DEF Steady, Rotation
    <3>3. ledger.active.owner = RunId(v)
      BY <2>2, <3>2 DEF StageRecorded
    <3> QED
      BY <3>1, <3>3, Tokens DEF Holder
  <2> QED
    BY <2>1, <2>2, <2>3, <2>4 DEF StageRecorded, Rotation
<1>4. \A a, b \in guarded' : run'[a].stage = run'[b].stage => a = b
  BY DEF Steady, Recorded
<1> QED
  BY <1>1, <1>2, <1>3, <1>4 DEF Recorded

\* A steady step that marks the operation of the marker ambiguous, while its
\* holder is not rotating, leaves what is guarded covered.
LEMMA AmbiguousRecorded ==
  ASSUME RegistryInv, LedgerInv, Recorded, Steady,
         Held, Marks(ledger', ledger.active.fp, ledger.active.owner, "Ambiguous"),
         ledger'.completed = ledger.completed,
         \A u \in Attempts : run[u].phase \in {"prepared", "unsent", "staged"} =>
           ledger.active.owner # RunId(u)
  PROVE  Recorded'
<1>1. ASSUME NEW b \in guarded' PROVE Covered(run[b].stage)'
  <2>1. b \in guarded /\ run'[b].stage = run[b].stage /\ Covered(run[b].stage)
    BY <1>1 DEF Steady, Recorded
  <2> QED
    BY <2>1 DEF Covered, Marks, Held
<1>2. HolderAlone'
  <2> SUFFICES ASSUME NEW b \in guarded', b # Holder'
               PROVE  /\ run'[b].stage \notin {ledger'.active.fp, run'[Holder'].stage}
                      /\ run'[b].stage # run'[Holder'].next
    BY DEF HolderAlone
  <2>1. ledger'.active.fp = ledger.active.fp /\ Holder' = Holder
    BY DEF Marks, Holder
  <2>2. b \in guarded /\ run'[b].stage = run[b].stage /\ run[b].stage # Unknown /\ Holder \in Attempts
    BY RecordedFacts DEF Steady
  <2>3. run'[Holder].stage = run[Holder].stage /\ run'[Holder].next \in {run[Holder].next, Unknown}
    BY <2>2 DEF Steady
  <2> QED
    BY <2>1, <2>2, <2>3 DEF HolderAlone, Recorded
<1>3. ASSUME NEW v \in Attempts PROVE StageRecorded(v)'
  <2>1. run'[v].phase \in Rotation =>
          run'[v].phase = run[v].phase /\ run'[v].stage = run[v].stage /\ run'[v].next = run[v].next
    BY <1>3 DEF Steady
  <2>2. StageRecorded(v)
    BY DEF Recorded
  <2>3. run[v].phase \notin {"prepared", "unsent", "staged"}
    BY <2>2 DEF StageRecorded
  <2>4. run'[v].phase = "accepted" /\ v \in guarded' => v \in guarded /\ run[v].phase = "accepted"
    BY <2>1 DEF Steady, Rotation
  <2> QED
    BY <2>1, <2>2, <2>3, <2>4 DEF StageRecorded, Rotation, Marks, Held
<1>4. \A a, b \in guarded' : run'[a].stage = run'[b].stage => a = b
  BY DEF Steady, Recorded
<1> QED
  BY <1>1, <1>2, <1>3, <1>4 DEF Recorded

\* A takeover of an ended Run keeps the record for the attempts still guarded.
LEMMA FinishReplacementRecorded ==
  ASSUME RegistryInv, LedgerInv, Recorded, NEW x \in Attempts, FinishReplacement(x)
  PROVE  Recorded'
<1>1. /\ Sound /\ Typed /\ (Held => Holder \in Attempts)
      /\ \A b \in guarded : b \in Attempts /\ run[b].stage # Unknown
  BY RecordedFacts
<1>2. PICK v \in Attempts :
        /\ v = req[x].victim /\ IsCompleted(v) /\ run[v].err # "ambiguous"
        /\ \E w \in LedgerClear(run[v].stage, RunId(v)) : ledger' = w.rec
        /\ guarded' = IF run[v].err = "none" /\ run[v].stage = req[x].op
                      THEN guarded ELSE guarded \ {v}
  BY <1>1, FinishReplacementEffect
<1>3. /\ req[x].at = "superseding" /\ process' = process /\ OneRun(x)
      /\ RunIs(run'[x], run[x].phase, req[x].op, run[x].next, run[x].err, run[x].cancel)
  BY <1>1, FinishReplacementEffect
<1>4. v \notin guarded'
  BY <1>2, <1>3 DEF RegistryInv, VictimsSound
<1>5. run[x].phase = "none" /\ x \notin guarded /\ (Held => Holder # x)
  BY <1>3 DEF RegistryInv, AttemptSound, Unopened, LedgerInv, GuardSound, MarkerSound, Unclaimed
<1>6. Steady
  BY <1>1, <1>2, <1>3, <1>5 DEF Steady, OneRun, RunIs, Rotation
<1>7. \/ Keeps(ledger')
      \/ /\ Held /\ ledger.active.fp = run[v].stage /\ ledger.active.owner = RunId(v)
         /\ ledger'.active = NoActive /\ ledger'.completed = ledger.completed
  BY <1>1, <1>2, ClearIs
<1>8. CASE Keeps(ledger')
  BY <1>6, <1>8, QuietRecorded DEF Quiet
<1>9. CASE /\ Held /\ ledger.active.fp = run[v].stage /\ ledger.active.owner = RunId(v)
           /\ ledger'.active = NoActive /\ ledger'.completed = ledger.completed
  <2>1. Holder = v /\ \A u : RunId(v) = RunId(u) => u = v
    BY <1>9, Tokens DEF Holder
  <2>2. run[v].phase \notin {"prepared", "unsent", "staged"}
    BY <1>2 DEF IsCompleted
  <2> QED
    BY <1>4, <1>6, <1>9, <2>1, <2>2, ClearRecorded
<1> QED
  BY <1>7, <1>8, <1>9

\* A takeover that is given up marks the operation of the old Run.
LEMMA AbandonReplacementRecorded ==
  ASSUME RegistryInv, LedgerInv, Recorded, NEW x \in Attempts, AbandonReplacement(x)
  PROVE  Recorded'
<1>1. /\ Sound /\ Typed
  BY RecordedFacts
<1>2. PICK v \in Attempts : \E w \in LedgerAmbiguous(run[v].stage, RunId(v)) : ledger' = w.rec
  BY <1>1, AbandonReplacementEffect
<1>3. run' = run /\ guarded' = guarded /\ process' = process
  BY <1>1, AbandonReplacementEffect
<1>4. Steady
  BY <1>3 DEF Steady
<1>5. \/ Keeps(ledger')
      \/ /\ Held /\ ledger.active.fp = run[v].stage /\ ledger.active.owner = RunId(v)
         /\ Marks(ledger', run[v].stage, RunId(v), "Ambiguous") /\ ledger'.completed = ledger.completed
  BY <1>1, <1>2, AmbiguousIs
<1>6. CASE Keeps(ledger')
  BY <1>4, <1>6, QuietRecorded DEF Quiet
<1>7. CASE /\ Held /\ ledger.active.fp = run[v].stage /\ ledger.active.owner = RunId(v)
           /\ Marks(ledger', run[v].stage, RunId(v), "Ambiguous") /\ ledger'.completed = ledger.completed
  <2>1. \A u : RunId(v) = RunId(u) => u = v
    BY Tokens
  <2>2. run[v].phase \notin {"prepared", "unsent", "staged"}
    BY <1>7 DEF Recorded, StageRecorded, RegistryInv, AttemptSound, Rotation
  <2> QED
    BY <1>4, <1>7, <2>1, <2>2, AmbiguousRecorded
<1> QED
  BY <1>5, <1>6, <1>7

\* A probe takes away the marker of a Run that failed safely, which nobody
\* guards any more.
LEMMA ProbeRecorded ==
  ASSUME RegistryInv, LedgerInv, Recorded, Probe
  PROVE  Recorded'
<1>1. /\ Sound /\ Typed
  BY RecordedFacts
<1>2. PICK v \in Attempts :
        /\ \/ ledger' = ledger
           \/ /\ run[v].err \in {"other", "retry"}
              /\ \E w \in LedgerClear(run[v].stage, RunId(v)) : ledger' = w.rec
        /\ run' = run \/ (/\ OneRun(v) /\ run'[v].phase = run[v].phase
                          /\ run'[v].stage = run[v].stage /\ run'[v].next = run[v].next)
        /\ guarded' = guarded /\ process' = process
  BY <1>1, ProbeEffect DEF RunIs
<1>3. Steady
  BY <1>1, <1>2, RecordedFacts DEF Steady, OneRun
<1>4. v \in guarded => run[v].err \notin {"other", "retry"}
  BY DEF LedgerInv, GuardSound
<1>5. \/ Keeps(ledger')
      \/ /\ Held /\ ledger.active.fp = run[v].stage /\ ledger.active.owner = RunId(v)
         /\ run[v].err \in {"other", "retry"}
         /\ ledger'.active = NoActive /\ ledger'.completed = ledger.completed
  <2>1. CASE ledger' = ledger
    BY <2>1 DEF Keeps
  <2> QED
    BY <1>1, <1>2, <2>1, ClearIs
<1>6. CASE Keeps(ledger')
  BY <1>3, <1>6, QuietRecorded DEF Quiet
<1>7. CASE /\ Held /\ ledger.active.fp = run[v].stage /\ ledger.active.owner = RunId(v)
           /\ run[v].err \in {"other", "retry"}
           /\ ledger'.active = NoActive /\ ledger'.completed = ledger.completed
  <2>1. Holder = v /\ \A u : RunId(v) = RunId(u) => u = v
    BY <1>7, Tokens DEF Holder
  <2>2. run[v].phase \notin {"prepared", "unsent", "staged"}
    BY <1>7 DEF Recorded, StageRecorded, RegistryInv, AttemptSound, Rotation
  <2>3. Holder \notin guarded'
    BY <1>2, <1>4, <1>7, <2>1
  <2> QED
    BY <1>3, <1>7, <2>1, <2>2, <2>3, ClearRecorded
<1> QED
  BY <1>5, <1>6, <1>7

\* A late call names no stage that is about to be sent, and clears no marker
\* of a guarded operation.
LEMMA WriteRecorded ==
  ASSUME RegistryInv, LedgerInv, Recorded, NEW w \in writes, Write(w)
  PROVE  Recorded'
<1>1. /\ Sound /\ Typed
  BY RecordedFacts
<1>2. PICK f \in {w.fp} \cup {run[a].stage : a \in Attempts \cap {w.cancels}} :
        \E r \in IF w.call = "clear" THEN LedgerClear(f, w.owner)
                 ELSE LedgerAmbiguous(f, w.owner) : ledger' = r.rec
  BY <1>1, WriteEffect
<1>3. /\ guarded' = guarded /\ process' = process
      /\ \A y \in Attempts :
           RunIs(run'[y], run[y].phase, run[y].stage, run[y].next, run[y].err,
                 run[y].cancel \/ y = w.cancels)
  BY <1>1, WriteEffect
<1>4. Steady
  BY <1>3, RecordedFacts DEF Steady, RunIs
<1>5. \A u \in Attempts : run[u].phase \in {"prepared", "unsent", "staged"} /\ w.owner = RunId(u) =>
        f # run[u].next
  <2> SUFFICES ASSUME NEW u \in Attempts, run[u].phase \in {"prepared", "unsent", "staged"},
                      w.owner = RunId(u)
               PROVE  f # run[u].next
    OBVIOUS
  <2>1. run[u].next # Unknown /\ run[u].next # run[u].stage
    BY DEF RegistryInv, AttemptSound, Rotation
  <2>2. w.fp # run[u].next
    BY <2>1 DEF LedgerInv, StageUntouched
  <2>3. CASE w.cancels = NoAttempt
    BY <1>2, <2>2, <2>3, LiveRegistryAssumption
  <2>4. CASE w.cancels # NoAttempt
    <3>1. RunId(w.cancels) = RunId(u)
      BY <2>4 DEF RegistryInv, WriteSound
    <3>2. w.cancels = u
      BY <3>1, Tokens
    <3> QED
      BY <1>2, <2>1, <2>2, <3>2
  <2> QED
    BY <2>3, <2>4
<1>6. \A u \in Attempts : run[u].phase \in {"prepared", "unsent", "staged"} /\ Held
        /\ ledger.active.owner = RunId(u) => ledger.active.fp = run[u].next
  BY DEF Recorded, StageRecorded
<1>7. \/ Keeps(ledger')
      \/ /\ w.call = "clear" /\ Held /\ ledger.active.fp = f /\ ledger.active.owner = w.owner
         /\ ledger'.active = NoActive /\ ledger'.completed = ledger.completed
      \/ /\ Held /\ ledger.active.fp = f /\ ledger.active.owner = w.owner
         /\ Marks(ledger', f, w.owner, "Ambiguous") /\ ledger'.completed = ledger.completed
  <2>1. CASE w.call = "clear"
    BY <1>1, <1>2, <2>1, ClearIs
  <2>2. CASE w.call # "clear"
    BY <1>1, <1>2, <2>2, AmbiguousIs
  <2> QED
    BY <2>1, <2>2
<1>8. CASE Keeps(ledger')
  BY <1>4, <1>8, QuietRecorded DEF Quiet
<1>9. CASE /\ w.call = "clear" /\ Held /\ ledger.active.fp = f /\ ledger.active.owner = w.owner
           /\ ledger'.active = NoActive /\ ledger'.completed = ledger.completed
  <2>1. Holder = w.owner[2] /\ Holder \in Attempts
    BY <1>9, RecordedFacts DEF Holder
  <2>2. Holder \notin guarded'
    BY <1>3, <1>9, <2>1 DEF LedgerInv, GuardSound
  <2> QED
    BY <1>4, <1>5, <1>6, <1>9, <2>2, ClearRecorded
<1>10. CASE /\ Held /\ ledger.active.fp = f /\ ledger.active.owner = w.owner
            /\ Marks(ledger', f, w.owner, "Ambiguous") /\ ledger'.completed = ledger.completed
  BY <1>4, <1>5, <1>6, <1>10, AmbiguousRecorded
<1> QED
  BY <1>7, <1>8, <1>9, <1>10

\* A crash ends every Run; the record is all that is left, and covers the rest.
LEMMA CrashRecorded ==
  ASSUME RegistryInv, LedgerInv, Recorded, LedgerEnabled, Crash
  PROVE  Recorded'
<1>1. /\ Sound /\ Typed /\ (Held => Holder \in Attempts)
      /\ \A b \in guarded : b \in Attempts /\ run[b].stage # Unknown
  BY RecordedFacts
<1>2. /\ guarded' = guarded /\ ledger' = ledger
      /\ \A y \in Attempts : run'[y].phase = "none" /\ run'[y].stage = run[y].stage /\ run'[y].next = Unknown
  BY <1>1, CrashEffect DEF RunIs
<1>3. HolderAlone'
  BY <1>1, <1>2 DEF Recorded, HolderAlone, Held, Holder
<1>4. \A v \in Attempts : StageRecorded(v)'
  BY <1>2 DEF StageRecorded
<1>5. \A b \in guarded' : Covered(run[b].stage)'
  BY <1>1, <1>2 DEF Recorded, Covered, Held
<1>6. \A a, b \in guarded' : run'[a].stage = run'[b].stage => a = b
  BY <1>1, <1>2 DEF Recorded
<1> QED
  BY <1>3, <1>4, <1>5, <1>6 DEF Recorded

\* A new stage is nobody's operation yet.
LEMMA SendResumeRecorded ==
  ASSUME RegistryInv, LedgerInv, Recorded, NEW x \in Attempts, NEW g \in Operations,
         SendResume(x, g)
  PROVE  Recorded'
<1>1. /\ Sound /\ Typed /\ (Held => Holder \in Attempts)
      /\ \A b \in guarded : b \in Attempts /\ run[b].stage # Unknown
  BY RecordedFacts
<1>2. /\ guarded' = guarded /\ ledger' = ledger /\ process' = process
      /\ \A b \in Attempts : g # run[b].stage
      /\ OneRun(x) /\ RunIs(run'[x], "live", run[x].stage, g, run[x].err, run[x].cancel)
  BY <1>1, SendResumeEffect
<1>3. /\ \A y \in Attempts : run'[y].stage = run[y].stage
      /\ \A y \in Attempts \ {x} : run'[y] = run[y]
      /\ run'[x].phase = "live" /\ run'[x].next = g
  BY <1>2 DEF OneRun, RunIs
<1>4. HolderAlone'
  BY <1>1, <1>2, <1>3 DEF Recorded, HolderAlone, Held, Holder
<1>5. ASSUME NEW v \in Attempts PROVE StageRecorded(v)'
  <2>1. CASE v = x
    BY <1>3, <2>1 DEF StageRecorded
  <2>2. CASE v # x
    BY <1>2, <1>3, <2>2 DEF Recorded, StageRecorded, Held
  <2> QED
    BY <2>1, <2>2
<1>6. \A b \in guarded' : Covered(run[b].stage)'
  BY <1>1, <1>2, <1>3 DEF Recorded, Covered, Held
<1>7. \A a, b \in guarded' : run'[a].stage = run'[b].stage => a = b
  BY <1>1, <1>2, <1>3 DEF Recorded
<1> QED
  BY <1>4, <1>5, <1>6, <1>7 DEF Recorded

\* A claim is admitted only where nothing guarded depends on the marker that it
\* replaces, or gives up the operation of that marker.
LEMMA BeginDurableRecorded ==
  ASSUME RegistryInv, LedgerInv, Recorded, NEW x \in Attempts, BeginDurable(x)
  PROVE  Recorded'
<1>1. /\ Sound /\ Typed /\ (Held => Holder \in Attempts)
      /\ \A b \in guarded : b \in Attempts /\ run[b].stage # Unknown
  BY RecordedFacts
<1>2. PICK w \in LedgerClaim(req[x].op, Res(x)) : ledger' = w.rec /\ guarded' = AfterClaim(w.rec)
  BY <1>1, BeginDurableEffect
<1>3. req[x].at = "reserved" /\ run' = run /\ process' = process
  BY <1>1, BeginDurableEffect
<1>4. /\ x \notin guarded /\ run[x].stage = req[x].op /\ run[x].next = Unknown /\ run[x].phase = "none"
      /\ Res(x) \in {"reservation", "run"} \X Attempts /\ Res(x)[2] = x /\ req[x].op \in Fingerprints
      /\ \A u : Res(x) # RunId(u)
  BY <1>1, <1>3, Types, TokenType, Tokens
     DEF RegistryInv, AttemptSound, Unopened, LedgerInv, GuardSound, Unclaimed
<1>5. guarded' \subseteq guarded
  BY <1>2 DEF AfterClaim
<1>6. CASE Keeps(ledger')
  <2>1. Steady
    BY <1>3, <1>5 DEF Steady
  <2> QED
    BY <1>6, <2>1, QuietRecorded DEF Quiet
<1>7. CASE /\ req[x].op \notin History(ledger.completed)
           /\ \/ Load.active = NoActive
              \/ Load.active.state = "Ambiguous" /\ Load.active.fp # req[x].op
           /\ Marks(ledger', req[x].op, Res(x), "Prepared") /\ ledger'.completed = ledger.completed
  <2>1. Held /\ ledger.active.state # "Prepared" =>
          /\ ledger.active.state = "Ambiguous" /\ ledger.active.fp # req[x].op
          /\ guarded' = {b \in guarded : run[b].stage # ledger.active.fp}
    <3>1. Held /\ ledger.active.state # "Prepared" => Load.active = ledger.active
      BY <1>1, LoadKeeps
    <3> QED
      BY <1>2, <1>7, <3>1 DEF AfterClaim, Held, Marks
  <2>2. \A b \in guarded' : b \in guarded /\ run[b].stage \in History(ledger.completed)
    BY <1>5, <2>1 DEF Recorded, Covered
  <2>3. \A b \in guarded' : Covered(run[b].stage)'
    BY <1>3, <1>7, <2>2 DEF Covered
  <2>4. Holder' = x /\ ledger'.active.fp = req[x].op
    BY <1>4, <1>7 DEF Marks, Holder
  <2>5. HolderAlone'
    BY <1>1, <1>3, <1>4, <1>7, <2>2, <2>4 DEF HolderAlone
  <2>6. ASSUME NEW v \in Attempts PROVE StageRecorded(v)'
    <3>1. StageRecorded(v)
      BY DEF Recorded
    <3>2. ~(Held /\ ledger.active.state = "Prepared" /\ ledger.active.proc = process)
      BY <1>1, <1>7, LoadKeeps DEF Held
    <3>3. run[v].phase \notin {"prepared", "unsent", "staged"}
      <4>1. SUFFICES ASSUME run[v].phase \in {"prepared", "unsent", "staged"} PROVE FALSE
        OBVIOUS
      <4>2. Held /\ ledger.active.state \in {"Prepared", "Dispatched"}
        BY <1>1, <3>1, <4>1, Types DEF StageRecorded, Record, ActiveOperation, ActiveStates, Held
      <4> QED
        BY <2>1, <3>1, <3>2, <4>1, <4>2 DEF StageRecorded
    <3>4. ~(run[v].phase = "accepted" /\ v \in guarded')
      BY <1>5, <2>1, <3>1 DEF StageRecorded
    <3> QED
      BY <1>3, <1>7, <3>1, <3>3, <3>4 DEF StageRecorded
  <2>7. \A a, b \in guarded' : run'[a].stage = run'[b].stage => a = b
    BY <1>3, <1>5 DEF Recorded
  <2> QED
    BY <2>3, <2>5, <2>6, <2>7 DEF Recorded
<1>8. \/ Keeps(ledger')
      \/ /\ req[x].op \notin History(ledger.completed)
         /\ \/ Load.active = NoActive
            \/ Load.active.state = "Ambiguous" /\ Load.active.fp # req[x].op
         /\ Marks(ledger', req[x].op, Res(x), "Prepared") /\ ledger'.completed = ledger.completed
  BY <1>1, <1>2, <1>4, ClaimIs
<1> QED
  BY <1>6, <1>7, <1>8

\* A reservation dispatches the operation that its marker names.
LEMMA DispatchRecorded ==
  ASSUME RegistryInv, LedgerInv, LedgerEnabled, Recorded, NEW x \in Attempts, Dispatch(x)
  PROVE  Recorded'
<1>1. /\ Sound /\ Typed /\ (Held => Holder \in Attempts)
      /\ \A b \in guarded : b \in Attempts /\ run[b].stage # Unknown
  BY RecordedFacts
<1>2. PICK w \in LedgerDispatch(req[x].op, Res(x)) :
        /\ ledger' = w.rec
        /\ \/ w.ans = "yes" /\ guarded' = guarded \cup {x}
           \/ w.ans # "yes" /\ guarded' = guarded
  BY <1>1, DispatchEffect
<1>3. req[x].at = "prepared" /\ run' = run /\ process' = process
  BY <1>1, DispatchEffect
<1>4. /\ run[x].stage = req[x].op
      /\ Res(x)[2] = x /\ \A u : Res(x) # RunId(u)
  BY <1>3, Tokens DEF RegistryInv, AttemptSound
<1>5. CASE guarded' = guarded /\ Keeps(ledger')
  <2>1. Steady
    BY <1>3, <1>5 DEF Steady
  <2> QED
    BY <1>5, <2>1, QuietRecorded DEF Quiet
<1>6. CASE /\ Held /\ ledger.active.fp = req[x].op /\ ledger.active.owner = Res(x)
           /\ ledger'.completed = ledger.completed
           /\ \E st \in {"Dispatched", "Ambiguous"} : Marks(ledger', req[x].op, Res(x), st)
  <2>1. /\ Holder = x /\ Holder' = x /\ Held' /\ ledger'.active.fp = req[x].op
        /\ ledger'.active.state # "Prepared"
    BY <1>4, <1>6 DEF Marks, Holder, Held
  <2>2. guarded \subseteq guarded' /\ guarded' \subseteq guarded \cup {x}
    BY <1>2
  <2>3. \A b \in guarded' : Covered(run[b].stage)'
    BY <1>3, <1>4, <1>6, <2>1, <2>2 DEF Recorded, Covered
  <2>4. HolderAlone'
    BY <1>3, <1>6, <2>1, <2>2 DEF Recorded, HolderAlone
  <2>5. ASSUME NEW v \in Attempts PROVE StageRecorded(v)'
    <3>1. StageRecorded(v) /\ ledger.active.owner # RunId(v)
      BY <1>4, <1>6 DEF Recorded
    <3>2. run[v].phase \notin {"prepared", "unsent", "staged"}
      BY <3>1 DEF StageRecorded
    <3>3. ~(run[v].phase = "accepted" /\ v \in guarded')
      <4>1. run[x].phase = "none"
        BY <1>3 DEF RegistryInv, AttemptSound, Unopened
      <4> QED
        BY <2>2, <3>1, <4>1 DEF StageRecorded
    <3> QED
      BY <1>3, <1>6, <3>1, <3>2, <3>3 DEF StageRecorded
  <2>6. \A a, b \in guarded' : run'[a].stage = run'[b].stage => a = b
    BY <1>3, <1>4, <1>6, <2>1, <2>2 DEF Recorded, HolderAlone
  <2> QED
    BY <2>3, <2>4, <2>5, <2>6 DEF Recorded
<1>7. \/ guarded' = guarded /\ Keeps(ledger')
      \/ /\ Held /\ ledger.active.fp = req[x].op /\ ledger.active.owner = Res(x)
         /\ ledger'.completed = ledger.completed
         /\ \E st \in {"Dispatched", "Ambiguous"} : Marks(ledger', req[x].op, Res(x), st)
  BY <1>1, <1>2, DispatchIs
<1> QED
  BY <1>5, <1>6, <1>7

\* The marker passes from the reservation of an attempt to its Run.
LEMMA InsertTransferRecorded ==
  ASSUME RegistryInv, LedgerInv, Recorded, NEW x \in Attempts, InsertTransfer(x)
  PROVE  Recorded'
<1>1. /\ Sound /\ Typed /\ (Held => Holder \in Attempts)
      /\ \A b \in guarded : b \in Attempts /\ run[b].stage # Unknown
  BY RecordedFacts
<1>2. PICK w \in LedgerTransfer(req[x].op, Res(x), RunId(x)) : ledger' = w.rec
  BY <1>1, InsertTransferEffect
<1>3. /\ guarded' = guarded /\ process' = process
      /\ \A y \in Attempts : /\ run'[y].stage = run[y].stage /\ run'[y].next = run[y].next
                             /\ run'[y].phase = run[y].phase
  BY <1>1, InsertTransferEffect DEF OneRun, RunIs
<1>4. /\ RunId(x) \in {"reservation", "run"} \X Attempts /\ RunId(x)[2] = x /\ Res(x)[2] = x
      /\ \A u : Res(x) # RunId(u)
  BY TokenType, Tokens
<1>5. Steady
  BY <1>1, <1>3 DEF Steady
<1>6. CASE Keeps(ledger')
  BY <1>5, <1>6, QuietRecorded DEF Quiet
<1>7. CASE /\ Held /\ ledger.active.fp = req[x].op /\ ledger.active.owner = Res(x)
           /\ Marks(ledger', req[x].op, RunId(x), ledger.active.state)
           /\ ledger'.completed = ledger.completed
  <2>1. /\ Holder = x /\ Holder' = x /\ Held' /\ ledger'.active.fp = ledger.active.fp
        /\ ledger'.active.state = ledger.active.state
    BY <1>4, <1>7 DEF Marks, Holder, Held
  <2>2. \A b \in guarded' : Covered(run[b].stage)'
    BY <1>1, <1>3, <1>7, <2>1 DEF Recorded, Covered
  <2>3. HolderAlone'
    BY <1>1, <1>3, <1>7, <2>1 DEF Recorded, HolderAlone
  <2>4. ASSUME NEW v \in Attempts PROVE StageRecorded(v)'
    <3>1. StageRecorded(v) /\ ledger.active.owner # RunId(v)
      BY <1>4, <1>7 DEF Recorded
    <3>2. /\ run[v].phase \notin {"prepared", "unsent", "staged"}
          /\ ~(run[v].phase = "accepted" /\ v \in guarded)
      BY <3>1 DEF StageRecorded
    <3> QED
      BY <1>3, <1>7, <3>1, <3>2 DEF StageRecorded
  <2>5. \A a, b \in guarded' : run'[a].stage = run'[b].stage => a = b
    BY <1>1, <1>3 DEF Recorded
  <2> QED
    BY <2>2, <2>3, <2>4, <2>5 DEF Recorded
<1> QED
  BY <1>1, <1>2, <1>4, <1>6, <1>7, TransferIs

\* A completed operation goes from the marker to the history.
LEMMA SealLedgerRecorded ==
  ASSUME RegistryInv, LedgerInv, Recorded, NEW x \in Attempts, SealLedger(x)
  PROVE  Recorded'
<1>1. /\ Sound /\ Typed /\ (Held => Holder \in Attempts)
      /\ \A b \in guarded : b \in Attempts /\ run[b].stage # Unknown
  BY RecordedFacts
<1>2. PICK w \in LedgerComplete(run[x].stage, RunId(x)) : ledger' = w.rec
  BY <1>1, SealLedgerEffect
<1>3. /\ guarded' = guarded /\ process' = process /\ run[x].phase \in Sealing
      /\ \A y \in Attempts : run'[y].stage = run[y].stage /\ run'[y].next = run[y].next
      /\ \A y \in Attempts : run'[y].phase \in Rotation => run'[y].phase = run[y].phase
  BY <1>1, SealLedgerEffect DEF OneRun, RunIs, Rotation, Publishing
<1>4. /\ run[x].stage \in Fingerprints /\ \A u : RunId(x) = RunId(u) => u = x
  <2>1. run[x].stage \in Fingerprints
    BY <1>1, Types
  <2>2. \A u : RunId(x) = RunId(u) => u = x
    BY DEF RunId
  <2> QED
    BY <2>1, <2>2
<1>5. Steady
  BY <1>1, <1>3 DEF Steady
<1>6. CASE Keeps(ledger')
  BY <1>5, <1>6, QuietRecorded DEF Quiet
<1>7. CASE /\ Held /\ ledger.active.fp = run[x].stage /\ ledger.active.owner = RunId(x)
           /\ ledger'.active = NoActive
           /\ History(ledger'.completed) = History(ledger.completed) \cup {run[x].stage}
  <2>1. \A b \in guarded' : Covered(run[b].stage)'
    BY <1>1, <1>3, <1>7 DEF Recorded, Covered
  <2>2. HolderAlone'
    BY <1>7 DEF HolderAlone, Held
  <2>3. ASSUME NEW v \in Attempts PROVE StageRecorded(v)'
    <3>1. StageRecorded(v)
      BY DEF Recorded
    <3>2. v = x => run'[v].phase \notin Rotation
      BY <1>3 DEF Rotation, Sealing
    <3>3. v # x => /\ run[v].phase \notin {"prepared", "unsent", "staged"}
                   /\ ~(run[v].phase = "accepted" /\ v \in guarded)
      BY <1>4, <1>7, <3>1 DEF StageRecorded
    <3> QED
      BY <1>3, <1>7, <3>1, <3>2, <3>3 DEF StageRecorded, Rotation
  <2>4. \A a, b \in guarded' : run'[a].stage = run'[b].stage => a = b
    BY <1>1, <1>3 DEF Recorded
  <2> QED
    BY <2>1, <2>2, <2>3, <2>4 DEF Recorded
<1> QED
  BY <1>1, <1>2, <1>4, <1>6, <1>7, CompleteIs

\* A rotation of a Run whose marker is its own, and a record that moves to one
\* of the two stages of the rotation, leave what is guarded covered.
LEMMA RotationRecorded ==
  ASSUME RegistryInv, LedgerInv, Recorded, NEW x \in Attempts, Held, Holder = x,
         process' = process, guarded' \subseteq guarded, OneRun(x),
         ledger'.active # NoActive, ledger'.active.owner = ledger.active.owner,
         ledger'.active.fp \in {ledger.active.fp, run[x].stage, run[x].next},
         run'[x].stage \in {run[x].stage, run[x].next},
         run'[x].next \in {run[x].stage, run[x].next, Unknown},
         History(ledger.completed) \subseteq History(ledger'.completed),
         x \in guarded' => Covered(run[x].stage)',
         StageRecorded(x)'
  PROVE  Recorded'
<1>1. /\ Sound /\ Typed
      /\ \A b \in guarded : b \in Attempts /\ run[b].stage # Unknown
  BY RecordedFacts
<1>2. \A b \in guarded' : b # x =>
        /\ b \in guarded /\ run'[b] = run[b]
        /\ run[b].stage \notin {ledger.active.fp, run[x].stage, run[x].next, Unknown}
  BY <1>1 DEF OneRun, Recorded, HolderAlone
<1>3. ASSUME NEW b \in guarded' PROVE Covered(run[b].stage)'
  <2>1. CASE b # x
    <3>1. Covered(run[b].stage) /\ run[b].stage # ledger.active.fp /\ run'[b].stage = run[b].stage
      BY <1>2, <2>1 DEF Recorded
    <3> QED
      BY <3>1 DEF Covered
  <2> QED
    BY <1>3, <2>1
<1>4. Holder' = x
  BY DEF Holder
<1>5. HolderAlone'
  BY <1>2, <1>4 DEF HolderAlone
<1>6. ASSUME NEW v \in Attempts PROVE StageRecorded(v)'
  <2>1. CASE v # x
    <3>1. StageRecorded(v) /\ run'[v] = run[v] /\ ledger.active.owner # RunId(v)
      BY <2>1, Tokens DEF Recorded, OneRun, Holder
    <3>2. /\ run[v].phase \notin {"prepared", "unsent", "staged"}
          /\ ~(run[v].phase = "accepted" /\ v \in guarded)
      BY <3>1 DEF StageRecorded
    <3> QED
      BY <3>1, <3>2 DEF StageRecorded
  <2> QED
    BY <2>1
<1>7. \A a, b \in guarded' : run'[a].stage = run'[b].stage => a = b
  <2> SUFFICES ASSUME NEW a \in guarded', NEW b \in guarded', run'[a].stage = run'[b].stage, a # b
               PROVE  FALSE
    OBVIOUS
  <2>1. a # x /\ b # x
    BY <1>2
  <2> QED
    BY <1>2, <2>1 DEF Recorded
<1> QED
  BY <1>3, <1>5, <1>6, <1>7 DEF Recorded

\* A Run whose marker is untouched ends, or gives up its rotation.
LEMMA DriverQuiet ==
  ASSUME RegistryInv, LedgerInv, Recorded, NEW x \in Attempts, Keeps(ledger'), process' = process,
         guarded' \subseteq guarded, OneRun(x), run'[x].stage = run[x].stage,
         run'[x].next \in {run[x].next, Unknown},
         run'[x].phase \notin Rotation
  PROVE  Recorded'
<1>1. Steady
  BY RecordedFacts DEF Steady, OneRun
<1> QED
  BY <1>1, QuietRecorded DEF Quiet

\* The stage before goes into the history when the next one is prepared.
LEMMA PrepareStageRecorded ==
  ASSUME RegistryInv, LedgerInv, LedgerEnabled, Recorded, NEW x \in Attempts, PrepareStage(x)
  PROVE  Recorded'
<1>1. /\ Sound /\ Typed
  BY RecordedFacts
<1>2. PICK w \in LedgerPrepareStage(RunId(x), run[x].stage, run[x].next) :
        /\ ledger' = w.rec
        /\ \/ /\ w.ans = "yes" /\ guarded' = guarded
              /\ OneRun(x)
              /\ RunIs(run'[x], "prepared", run[x].stage, run[x].next, run[x].err, run[x].cancel)
           \/ w.ans = "no" /\ EndsRun(x, "ambiguous")
           \/ /\ w.ans = "error" /\ guarded' = guarded
              /\ OneRun(x)
              /\ RunIs(run'[x], run[x].phase, run[x].stage, Unknown, run[x].err, run[x].cancel)
  BY <1>1, PrepareStageEffect
<1>3. run[x].phase = "live" /\ process' = process
  BY <1>1, PrepareStageEffect
<1>4. /\ RunId(x) \in {"reservation", "run"} \X Attempts /\ RunId(x)[2] = x
      /\ run[x].stage \in Fingerprints /\ run[x].next \in Fingerprints
  BY <1>1, Types, TokenType, Tokens
<1>5. /\ OneRun(x) /\ guarded' \subseteq guarded /\ run'[x].stage = run[x].stage
      /\ run'[x].next \in {run[x].next, Unknown}
      /\ w.ans = "yes" => run'[x].phase = "prepared" /\ run'[x].next = run[x].next
      /\ w.ans # "yes" => run'[x].phase \notin Rotation
  BY <1>2, <1>3 DEF EndsRun, RunIs, Rotation
<1>6. CASE w.ans # "yes" /\ Keeps(ledger')
  BY <1>3, <1>5, <1>6, DriverQuiet
<1>7. CASE /\ Held /\ ledger.active.fp = run[x].stage /\ ledger.active.owner = RunId(x)
           /\ ledger.active.state # "Prepared"
           /\ Marks(ledger', run[x].next, RunId(x), "Prepared") /\ ledger'.active.proc = process
           /\ History(ledger'.completed) = History(ledger.completed) \cup {run[x].stage}
  <2>1. Holder = x /\ ledger'.active.fp = run[x].next /\ ledger'.active # NoActive
        /\ ledger'.active.owner = ledger.active.owner
    BY <1>4, <1>7 DEF Holder, Marks
  <2>2. Covered(run[x].stage)'
    BY <1>5, <1>7 DEF Covered
  <2>3. StageRecorded(x)'
    BY <1>3, <1>5, <1>7, <2>1 DEF StageRecorded, Held, Marks, Rotation
  <2>4. run[x].stage # run[x].next
    BY <1>1, PrepareStageEffect DEF RegistryInv, AttemptSound
  <2> QED
    BY <1>3, <1>5, <1>7, <2>1, <2>2, <2>3, <2>4, RotationRecorded
<1>8. \/ w.ans # "yes" /\ Keeps(ledger')
      \/ /\ Held /\ ledger.active.fp = run[x].stage /\ ledger.active.owner = RunId(x)
         /\ ledger.active.state # "Prepared"
         /\ Marks(ledger', run[x].next, RunId(x), "Prepared") /\ ledger'.active.proc = process
         /\ History(ledger'.completed) = History(ledger.completed) \cup {run[x].stage}
  BY <1>1, <1>2, <1>4, PrepareStageIs
<1> QED
  BY <1>6, <1>7, <1>8

\* A prepared stage is dispatched under its own marker.
LEMMA DispatchStageRecorded ==
  ASSUME RegistryInv, LedgerInv, LedgerEnabled, Recorded, NEW x \in Attempts, DispatchStage(x)
  PROVE  Recorded'
<1>1. /\ Sound /\ Typed
  BY RecordedFacts
<1>2. PICK w \in LedgerDispatch(run[x].next, RunId(x)) :
        /\ ledger' = w.rec
        /\ \/ /\ w.ans = "yes"
              /\ OneRun(x)
              /\ RunIs(run'[x], "staged", run[x].stage, run[x].next, run[x].err, run[x].cancel)
           \/ /\ w.ans # "yes"
              /\ OneRun(x)
              /\ RunIs(run'[x], "unsent", run[x].stage, run[x].next, run[x].err, run[x].cancel)
  BY <1>1, DispatchStageEffect
<1>3. run[x].phase = "prepared" /\ process' = process /\ guarded' = guarded
  BY <1>1, DispatchStageEffect
<1>4. /\ OneRun(x) /\ run'[x].stage = run[x].stage /\ run'[x].next = run[x].next
      /\ IF w.ans = "yes" THEN run'[x].phase = "staged" ELSE run'[x].phase = "unsent"
  BY <1>2 DEF RunIs
<1>5. /\ Held /\ ledger.active.owner = RunId(x) /\ ledger.active.fp = run[x].next
      /\ ledger.active.state = "Prepared" /\ ledger.active.proc = process
      /\ run[x].stage \in History(ledger.completed)
  BY <1>3 DEF Recorded, StageRecorded
<1>6. /\ ledger'.completed = ledger.completed
      /\ ledger'.active # NoActive /\ ledger'.active.fp = run[x].next /\ ledger'.active.owner = RunId(x)
      /\ ledger'.active.state = "Dispatched" \/ (w.ans # "yes" /\ ledger'.active = ledger.active)
  BY <1>1, <1>2, <1>5, DispatchIs DEF Keeps, Marks, Held
<1>7. Holder = x
  BY <1>5, Tokens DEF Holder
<1>8. Covered(run[x].stage)'
  BY <1>4, <1>5, <1>6 DEF Covered
<1>9. StageRecorded(x)'
  BY <1>3, <1>4, <1>5, <1>6 DEF StageRecorded, Held
<1> QED
  BY <1>3, <1>4, <1>5, <1>6, <1>7, <1>8, <1>9, RotationRecorded

\* An accepted stage becomes the operation of the Run, under its marker.
LEMMA AcceptStageRecorded ==
  ASSUME RegistryInv, LedgerInv, Recorded, NEW x \in Attempts, AcceptStage(x)
  PROVE  Recorded'
<1>1. /\ Sound /\ Typed
  BY RecordedFacts
<1>2. /\ run[x].phase = "staged" /\ OneRun(x) /\ guarded' = guarded /\ ledger' = ledger /\ process' = process
      /\ RunIs(run'[x], "accepted", run[x].next, run[x].stage, run[x].err, run[x].cancel)
  BY <1>1, AcceptStageEffect
<1>3. /\ Held /\ ledger.active.owner = RunId(x) /\ ledger.active.fp = run[x].next
      /\ ledger.active.state = "Dispatched" /\ run[x].stage \in History(ledger.completed)
  BY <1>2 DEF Recorded, StageRecorded
<1>4. Holder = x
  BY <1>3, Tokens DEF Holder
<1>5. Covered(run[x].stage)'
  BY <1>2, <1>3 DEF Covered, RunIs, Held
<1>6. StageRecorded(x)'
  BY <1>2, <1>3 DEF StageRecorded, RunIs, Held
<1> QED
  BY <1>2, <1>3, <1>4, <1>5, <1>6, RotationRecorded DEF RunIs, Held

\* A stage that is taken back leaves the Run at an operation of the history.
LEMMA RevokeStageRecorded ==
  ASSUME RegistryInv, LedgerInv, Recorded, NEW x \in Attempts, RevokeStage(x)
  PROVE  Recorded'
<1>1. /\ Sound /\ Typed /\ (Held => Holder \in Attempts)
      /\ \A b \in guarded : b \in Attempts /\ run[b].stage # Unknown
  BY RecordedFacts
<1>2. /\ run[x].phase = "accepted" /\ OneRun(x) /\ guarded' = guarded /\ ledger' = ledger /\ process' = process
      /\ RunIs(run'[x], "unacked", run[x].next, run[x].stage, run[x].err, run[x].cancel)
  BY <1>1, RevokeStageEffect
<1>3. StageRecorded(x) /\ run[x].next \in History(ledger.completed)
  BY <1>2 DEF Recorded, StageRecorded
<1>4. Covered(run[x].stage)'
  BY <1>2, <1>3 DEF Covered, RunIs
<1>5. StageRecorded(x)'
  BY <1>2, <1>3 DEF StageRecorded, RunIs
<1>6. CASE Held /\ Holder = x
  BY <1>2, <1>4, <1>5, <1>6, RotationRecorded DEF RunIs, Held
<1>7. CASE ~(Held /\ Holder = x)
  <2>1. x \notin guarded
    BY <1>2, <1>3, <1>7, Tokens DEF StageRecorded, Holder
  <2>2. \A b \in Attempts \ {x} : run'[b] = run[b]
    BY <1>2 DEF OneRun
  <2>3. \A b \in guarded' : Covered(run[b].stage)'
    BY <1>1, <1>2, <2>1, <2>2 DEF Recorded, Covered, Held
  <2>4. HolderAlone'
    BY <1>1, <1>2, <1>7, <2>1, <2>2 DEF Recorded, HolderAlone, Held, Holder
  <2>5. ASSUME NEW v \in Attempts PROVE StageRecorded(v)'
    <3>1. CASE v # x
      BY <1>2, <2>2, <3>1 DEF Recorded, StageRecorded, Held
    <3> QED
      BY <1>5, <3>1
  <2>6. \A a, b \in guarded' : run'[a].stage = run'[b].stage => a = b
    BY <1>1, <1>2, <2>1, <2>2 DEF Recorded
  <2> QED
    BY <2>3, <2>4, <2>5, <2>6 DEF Recorded
<1> QED
  BY <1>6, <1>7

\* A rollback gives the marker back to the stage before.
LEMMA RollbackStageRecorded ==
  ASSUME RegistryInv, LedgerInv, Recorded, NEW x \in Attempts, RollbackStage(x)
  PROVE  Recorded'
<1>1. /\ Sound /\ Typed
  BY RecordedFacts
<1>2. PICK w \in LedgerRollback(RunId(x), run[x].next, run[x].stage) :
        /\ ledger' = w.rec
        /\ \/ /\ w.ans = "yes" /\ guarded' = guarded
              /\ OneRun(x)
              /\ RunIs(run'[x], "live", run[x].stage, Unknown, run[x].err, run[x].cancel)
           \/ /\ w.ans # "yes"
              /\ EndsRun(x, IF run[x].phase = "unsent" THEN "other" ELSE "ambiguous")
  BY <1>1, RollbackStageEffect
<1>3. run[x].phase \in {"unsent", "unacked"} /\ process' = process
  BY <1>1, RollbackStageEffect
<1>4. /\ RunId(x) \in {"reservation", "run"} \X Attempts /\ RunId(x)[2] = x
      /\ run[x].stage \in Fingerprints /\ run[x].next \in Fingerprints
  BY <1>1, Types, TokenType, Tokens
<1>5. /\ OneRun(x) /\ guarded' \subseteq guarded /\ run'[x].stage = run[x].stage
      /\ run'[x].next \in {run[x].next, Unknown} /\ run'[x].phase \notin Rotation
  BY <1>2 DEF EndsRun, RunIs, Rotation
<1>6. CASE Keeps(ledger')
  BY <1>3, <1>5, <1>6, DriverQuiet
<1>7. CASE /\ Held /\ ledger.active.fp = run[x].next /\ ledger.active.owner = RunId(x)
           /\ Marks(ledger', run[x].stage, RunId(x), "Dispatched") /\ ledger'.completed = ledger.completed
  <2>1. Holder = x /\ ledger'.active.fp = run[x].stage /\ ledger'.active # NoActive
        /\ ledger'.active.owner = ledger.active.owner
    BY <1>4, <1>7 DEF Holder, Marks
  <2>2. Covered(run[x].stage)'
    BY <1>5, <1>7 DEF Covered, Marks, Held
  <2>3. StageRecorded(x)'
    BY <1>5 DEF StageRecorded, Rotation
  <2>4. ledger'.active.state # "Prepared"
    BY <1>7 DEF Marks
  <2> QED
    BY <1>3, <1>5, <1>7, <2>1, <2>2, <2>3, <2>4, RotationRecorded
<1> QED
  BY <1>1, <1>2, <1>4, <1>6, <1>7, RollbackIs

\* With a ledger, the record covers every guarded operation after every step.
LEMMA StepRecorded ==
  ASSUME RegistryInv, LedgerInv, LedgerEnabled, Next
  PROVE  Recorded'
<1>1. Recorded /\ MarkerSound /\ \A b \in Attempts : GuardSound(b)
  BY DEF LedgerInv
<1>2. CASE ~Loud
  BY <1>1, <1>2, StepQuiet, QuietRecorded
<1>3. CASE Loud
  BY <1>1, <1>3, FinishReplacementRecorded, AbandonReplacementRecorded, BeginDurableRecorded,
     DispatchRecorded, InsertTransferRecorded, SealLedgerRecorded, PrepareStageRecorded,
     DispatchStageRecorded, AcceptStageRecorded, RevokeStageRecorded, RollbackStageRecorded,
     SendResumeRecorded, ProbeRecorded, WriteRecorded, CrashRecorded DEF Loud
<1> QED
  BY <1>2, <1>3

\* The part of the invariant about the record is inductive.
LEMMA LedgerSteps == RegistryInv /\ LedgerInv /\ [Next]_vars => LedgerInv'
<1>1. ASSUME RegistryInv, LedgerInv, Next PROVE LedgerInv'
  <2>1. LedgerEnabled' = LedgerEnabled
    BY <1>1 DEF Next, LedgerEnabled
  <2>2. LedgerEnabled => Recorded'
    BY <1>1, StepRecorded
  <2> QED
    BY <1>1, <2>1, <2>2, StepGuards, StepMarker, StepUntouched DEF LedgerInv
<1>2. ASSUME LedgerInv, UNCHANGED vars PROVE LedgerInv'
  BY <1>2 DEF vars, LedgerInv, GuardSound, MarkerSound, StageUntouched, LedgerEnabled, Recorded, Covered,
     HolderAlone, StageRecorded, Held, Holder
<1> QED
  BY <1>1, <1>2

\* Only a dispatch adds a guarded operation, no other step puts a Run or an
\* ambiguity tombstone into the slot, and no tool results are taken back.
LEMMA StepAccounts == Typed /\ (\A b \in Attempts : SlotSound(b)) /\ Next => Accounts
<1> SUFFICES ASSUME Typed, \A b \in Attempts : SlotSound(b), Next PROVE Accounts
  OBVIOUS
<1>i. /\ Typed /\ (\A b \in Attempts : SlotSound(b)) /\ \A b \in Attempts : run[b].stage \in Fingerprints
      /\ resumes \in Nat
  BY Types DEF Typed, TypeOK
<1> USE DEF Accounts, Dispatches, Entries
<1>1. ASSUME NEW x \in Attempts, NEW f \in Operations, Claim(x, f) PROVE Accounts
  BY <1>1, <1>i, ClaimEffect DEF Rotated, Released
<1>2. ASSUME NEW x \in Attempts, NEW f \in Operations, Refuse(x, f) PROVE Accounts
  BY <1>2, <1>i, RefuseEffect
<1>3. ASSUME NEW x \in Attempts, NEW f \in Operations, NEW results \in BOOLEAN,
             Observe(x, f, results)
      PROVE Accounts
  BY <1>3, <1>i, ObserveEffect
<1>4. ASSUME NEW x \in Attempts, NEW results \in BOOLEAN, ClaimReplacement(x, results)
      PROVE Accounts
  <2>1. slot' = Starting(x) /\ writes' = writes /\ guarded' \subseteq guarded /\ resumes' = resumes
    BY <1>4, <1>i, ClaimReplacementEffect
  <2> QED
    BY <1>4, <1>i, <2>1
<1>5. ASSUME NEW x \in Attempts, ClaimVacated(x) PROVE Accounts
  BY <1>5, <1>i, ClaimVacatedEffect DEF Rotated, Released
<1>6. ASSUME NEW x \in Attempts, LoseClaim(x) PROVE Accounts
  BY <1>6, <1>i, LoseClaimEffect
<1>7. ASSUME NEW x \in Attempts, FinishReplacement(x) PROVE Accounts
  BY <1>7, <1>i, FinishReplacementEffect
<1>8. ASSUME NEW x \in Attempts, AbandonReplacement(x) PROVE Accounts
  <2>1. writes' = writes /\ guarded' \subseteq guarded /\ resumes' = resumes
    BY <1>8, <1>i, AbandonReplacementEffect
  <2> QED
    BY <1>8, <1>i, <2>1
<1>9. ASSUME NEW x \in Attempts, BeginDurable(x) PROVE Accounts
  BY <1>9, <1>i, BeginDurableEffect DEF AfterClaim
<1>10. ASSUME NEW x \in Attempts, Withdraw(x) PROVE Accounts
  BY <1>10, <1>i, WithdrawEffect
<1>11. ASSUME NEW x \in Attempts, Dispatch(x) PROVE Accounts
  <2>1. slot' \in {slot, Free} /\ (writes' = writes \/ slot' = Free) /\ resumes' = resumes
    BY <1>11, <1>i, DispatchEffect
  <2> QED
    BY <1>11, <2>1
<1>12. ASSUME NEW x \in Attempts, OpenRejected(x) PROVE Accounts
  BY <1>12, <1>i, OpenRejectedEffect
<1>13. ASSUME NEW x \in Attempts, OpenUnknown(x) PROVE Accounts
  <2>1. (\A w \in writes' \ writes : w.call = "ambiguous") /\ guarded' \subseteq guarded /\ resumes' = resumes
    BY <1>13, <1>i, OpenUnknownEffect
  <2> QED
    BY <1>13, <1>i, <2>1
<1>14. ASSUME NEW x \in Attempts, DropReplacement(x) PROVE Accounts
  <2>1. (\A w \in writes' \ writes : w.call = "ambiguous") /\ guarded' \subseteq guarded /\ resumes' = resumes
    BY <1>14, <1>i, DropReplacementEffect
  <2> QED
    BY <1>14, <1>i, <2>1
<1>15. ASSUME NEW x \in Attempts, OpenSucceeds(x) PROVE Accounts
  BY <1>15, <1>i, OpenSucceedsEffect
<1>16. ASSUME NEW x \in Attempts, InsertTransfer(x) PROVE Accounts
  <2>1. slot' = slot /\ (\A w \in writes' \ writes : w.call = "ambiguous") /\ guarded' \subseteq guarded /\ resumes' = resumes
    BY <1>16, <1>i, InsertTransferEffect
  <2> QED
    BY <1>16, <1>i, <2>1
<1>17. ASSUME NEW x \in Attempts, InsertPublish(x) PROVE Accounts
  BY <1>17, <1>i, InsertPublishEffect
<1>18. ASSUME NEW x \in Attempts, InsertReseal(x) PROVE Accounts
  BY <1>18, <1>i, InsertResealEffect
<1>19. ASSUME NEW x \in Attempts, GiveUp(x) PROVE Accounts
  BY <1>19, <1>i, GiveUpEffect
<1>20. ASSUME NEW x \in Attempts, NEW err \in Errors \ {"none"}, DriverFails(x, err)
       PROVE Accounts
  BY <1>20, <1>i, DriverFailsEffect DEF EndsRun
<1>21. ASSUME NEW x \in Attempts, NEW err \in {"other", "ambiguous"}, DriverCancelled(x, err)
       PROVE Accounts
  BY <1>21, <1>i, DriverCancelledEffect DEF EndsRun
<1>22. ASSUME NEW x \in Attempts, DriverFinishes(x) PROVE Accounts
  BY <1>22, <1>i, DriverFinishesEffect DEF EndsRun
<1>23. ASSUME NEW x \in Attempts, SealLookup(x) PROVE Accounts
  BY <1>23, <1>i, SealLookupEffect
<1>24. ASSUME NEW x \in Attempts, SealLedger(x) PROVE Accounts
  <2>1. slot' = slot /\ (\A w \in writes' \ writes : w.call = "ambiguous") /\ guarded' \subseteq guarded /\ resumes' = resumes
    BY <1>24, <1>i, SealLedgerEffect
  <2> QED
    BY <1>24, <1>i, <2>1
<1>25. ASSUME NEW x \in Attempts, SealSlot(x) PROVE Accounts
  BY <1>25, <1>i, SealSlotEffect DEF Free
<1>26. ASSUME NEW x \in Attempts, Complete(x) PROVE Accounts
  BY <1>26, <1>i, CompleteEffect
<1>27. ASSUME NEW x \in Attempts, SkipResume(x) PROVE Accounts
  BY <1>27, <1>i, SkipResumeEffect
<1>28. ASSUME NEW x \in Attempts, PrepareStage(x) PROVE Accounts
  BY <1>28, <1>i, PrepareStageEffect DEF EndsRun
<1>29. ASSUME NEW x \in Attempts, DispatchStage(x) PROVE Accounts
  BY <1>29, <1>i, DispatchStageEffect
<1>30. ASSUME NEW x \in Attempts, AcceptStage(x) PROVE Accounts
  BY <1>30, <1>i, AcceptStageEffect
<1>31. ASSUME NEW x \in Attempts, AcknowledgeStage(x) PROVE Accounts
  BY <1>31, <1>i, AcknowledgeStageEffect
<1>32. ASSUME NEW x \in Attempts, RevokeStage(x) PROVE Accounts
  BY <1>32, <1>i, RevokeStageEffect
<1>33. ASSUME NEW x \in Attempts, RollbackStage(x) PROVE Accounts
  BY <1>33, <1>i, RollbackStageEffect DEF EndsRun
<1>34. ASSUME NEW x \in Attempts, DriverVanishes(x) PROVE Accounts
  BY <1>34, <1>i, DriverVanishesEffect
<1>35. ASSUME NEW x \in Attempts, ConsumerMoves(x) PROVE Accounts
  BY <1>35, <1>i, ConsumerMovesEffect
<1>36. ASSUME NEW x \in Attempts, NEW g \in Operations, SendResume(x, g) PROVE Accounts
  BY <1>36, <1>i, SendResumeEffect
<1>37. ASSUME Prune PROVE Accounts
  BY <1>37, <1>i, PruneEffect
<1>38. ASSUME Probe PROVE Accounts
  <2>1. (\A w \in writes' \ writes : w.call = "ambiguous") /\ guarded' \subseteq guarded /\ resumes' = resumes
    BY <1>38, <1>i, ProbeEffect
  <2> QED
    BY <1>38, <1>i, <2>1
<1>39. ASSUME TakeTerminalError PROVE Accounts
  <2>1. (\A w \in writes' \ writes : w.call = "clear" => slot' = Free) /\ guarded' \subseteq guarded /\ resumes' = resumes
    BY <1>39, <1>i, TakeTerminalErrorEffect
  <2> QED
    BY <1>39, <1>i, <2>1
<1>40. ASSUME CancelGeneration PROVE Accounts
  <2>1. slot' = Free /\ guarded' \subseteq guarded /\ resumes' = resumes
    BY <1>40, <1>i, CancelGenerationEffect
  <2> QED
    BY <1>40, <1>i, <2>1
<1>41. ASSUME Lapse PROVE Accounts
  BY <1>41, <1>i, LapseEffect
<1>42. ASSUME LapseError PROVE Accounts
  BY <1>42, <1>i, LapseErrorEffect
<1>43. ASSUME NEW w \in writes, Write(w) PROVE Accounts
  BY <1>43, <1>i, WriteEffect
<1>44. ASSUME Crash PROVE Accounts
  BY <1>44, <1>i, CrashEffect
<1> QED
  BY <1>1, <1>2, <1>3, <1>4, <1>5, <1>6, <1>7, <1>8, <1>9, <1>10, <1>11, <1>12, <1>13, <1>14,
     <1>15, <1>16, <1>17, <1>18, <1>19, <1>20, <1>21, <1>22, <1>23, <1>24, <1>25, <1>26, <1>27,
     <1>28, <1>29, <1>30, <1>31, <1>32, <1>33, <1>34, <1>35, <1>36, <1>37, <1>38, <1>39, <1>40,
     <1>41, <1>42, <1>43, <1>44 DEF Next, Step, Request, Proceed, Driver, Stage, Registry

\* No tool results have been delivered while their number is 0.
LEMMA ResumesGrow ==
  Typed /\ (\A b \in Attempts : SlotSound(b)) /\ Next => (resumes' = 0 => resumes = 0 /\ ~Resuming)
<1> SUFFICES ASSUME Typed, \A b \in Attempts : SlotSound(b), Next, resumes' = 0
             PROVE  resumes = 0 /\ ~Resuming
  OBVIOUS
<1>1. resumes = 0
  BY StepAccounts DEF Accounts
<1> QED
  BY <1>1, SendResumeEffect DEF Resuming

\* Without tool results no Run rotates to another stage, and only a claim changes
\* the operation of an attempt.
LEMMA StepSettles ==
  RegistryInv /\ Unstaged /\ Next /\ ~Resuming => Unstaged' /\ \A a \in Attempts : Settles(a)
<1> SUFFICES ASSUME RegistryInv, Unstaged, Next, ~Resuming, NEW a \in Attempts
             PROVE  run'[a].next = Unknown /\ run'[a].phase \notin Rotation /\ Settles(a)
  BY DEF Unstaged
<1> DEFINE Goal == run'[a].next = Unknown /\ run'[a].phase \notin Rotation /\ Settles(a)
<1>i. /\ Typed /\ (\A b \in Attempts : AttemptSound(b) /\ SlotSound(b))
      /\ \A b \in Attempts : run[b].next = Unknown /\ run[b].phase \notin Rotation
      /\ ~Resuming
  BY DEF RegistryInv, Unstaged
<1> USE DEF Settles, Rotation, OneRequest, RequestIs, OneRun, RunIs, Sealing, Publishing
<1>1. ASSUME NEW x \in Attempts, NEW f \in Operations, Claim(x, f) PROVE Goal
  BY <1>1, <1>i, ClaimEffect
<1>2. ASSUME NEW x \in Attempts, NEW f \in Operations, Refuse(x, f) PROVE Goal
  BY <1>2, <1>i, RefuseEffect
<1>3. ASSUME NEW x \in Attempts, NEW f \in Operations, NEW results \in BOOLEAN,
             Observe(x, f, results)
      PROVE Goal
  BY <1>3, <1>i, ObserveEffect
<1>4. ASSUME NEW x \in Attempts, NEW results \in BOOLEAN, ClaimReplacement(x, results) PROVE Goal
  <2>1. PICK v \in Attempts : TakesOver(x, v)
    BY <1>4, <1>i, ClaimReplacementEffect
  <2>2. OneRequest(x) /\ req'[x].at = "superseding" /\ req[x].at = "waiting"
    BY <1>4, <1>i, ClaimReplacementEffect
  <2> QED
    BY <1>i, <2>1, <2>2 DEF TakesOver
<1>5. ASSUME NEW x \in Attempts, ClaimVacated(x) PROVE Goal
  BY <1>5, <1>i, ClaimVacatedEffect
<1>6. ASSUME NEW x \in Attempts, LoseClaim(x) PROVE Goal
  BY <1>6, <1>i, LoseClaimEffect
<1>7. ASSUME NEW x \in Attempts, FinishReplacement(x) PROVE Goal
  BY <1>7, <1>i, FinishReplacementEffect
<1>8. ASSUME NEW x \in Attempts, AbandonReplacement(x) PROVE Goal
  BY <1>8, <1>i, AbandonReplacementEffect
<1>9. ASSUME NEW x \in Attempts, BeginDurable(x) PROVE Goal
  BY <1>9, <1>i, BeginDurableEffect
<1>10. ASSUME NEW x \in Attempts, Withdraw(x) PROVE Goal
  BY <1>10, <1>i, WithdrawEffect
<1>11. ASSUME NEW x \in Attempts, Dispatch(x) PROVE Goal
  BY <1>11, <1>i, DispatchEffect
<1>12. ASSUME NEW x \in Attempts, OpenRejected(x) PROVE Goal
  BY <1>12, <1>i, OpenRejectedEffect
<1>13. ASSUME NEW x \in Attempts, OpenUnknown(x) PROVE Goal
  BY <1>13, <1>i, OpenUnknownEffect
<1>14. ASSUME NEW x \in Attempts, DropReplacement(x) PROVE Goal
  BY <1>14, <1>i, DropReplacementEffect
<1>15. ASSUME NEW x \in Attempts, OpenSucceeds(x) PROVE Goal
  <2>1. /\ req[x].at = "dispatched" /\ OneRun(x) /\ run'[x].stage = req[x].op
        /\ run'[x].next = Unknown /\ run'[x].phase \notin Rotation
    BY <1>15, <1>i, OpenSucceedsEffect
  <2>2. run[x].stage = req[x].op
    BY <2>1, <1>i DEF AttemptSound
  <2> QED
    BY <1>i, <2>1, <2>2
<1>16. ASSUME NEW x \in Attempts, InsertTransfer(x) PROVE Goal
  BY <1>16, <1>i, InsertTransferEffect
<1>17. ASSUME NEW x \in Attempts, InsertPublish(x) PROVE Goal
  BY <1>17, <1>i, InsertPublishEffect
<1>18. ASSUME NEW x \in Attempts, InsertReseal(x) PROVE Goal
  BY <1>18, <1>i, InsertResealEffect
<1>19. ASSUME NEW x \in Attempts, GiveUp(x) PROVE Goal
  BY <1>19, <1>i, GiveUpEffect
<1>20. ASSUME NEW x \in Attempts, NEW err \in Errors \ {"none"}, DriverFails(x, err) PROVE Goal
  BY <1>20, <1>i, DriverFailsEffect DEF EndsRun
<1>21. ASSUME NEW x \in Attempts, NEW err \in {"other", "ambiguous"}, DriverCancelled(x, err)
       PROVE Goal
  BY <1>21, <1>i, DriverCancelledEffect DEF EndsRun
<1>22. ASSUME NEW x \in Attempts, DriverFinishes(x) PROVE Goal
  BY <1>22, <1>i, DriverFinishesEffect DEF EndsRun
<1>23. ASSUME NEW x \in Attempts, SealLookup(x) PROVE Goal
  BY <1>23, <1>i, SealLookupEffect
<1>24. ASSUME NEW x \in Attempts, SealLedger(x) PROVE Goal
  BY <1>24, <1>i, SealLedgerEffect
<1>25. ASSUME NEW x \in Attempts, SealSlot(x) PROVE Goal
  BY <1>25, <1>i, SealSlotEffect
<1>26. ASSUME NEW x \in Attempts, Complete(x) PROVE Goal
  BY <1>26, <1>i, CompleteEffect
<1>27. ASSUME NEW x \in Attempts, SkipResume(x) PROVE Goal
  BY <1>27, <1>i, SkipResumeEffect
<1>28. ASSUME NEW x \in Attempts, PrepareStage(x) PROVE Goal
  BY <1>28, <1>i, PrepareStageEffect DEF EndsRun
<1>29. ASSUME NEW x \in Attempts, DispatchStage(x) PROVE Goal
  BY <1>29, <1>i, DispatchStageEffect
<1>30. ASSUME NEW x \in Attempts, AcceptStage(x) PROVE Goal
  BY <1>30, <1>i, AcceptStageEffect
<1>31. ASSUME NEW x \in Attempts, AcknowledgeStage(x) PROVE Goal
  BY <1>31, <1>i, AcknowledgeStageEffect
<1>32. ASSUME NEW x \in Attempts, RevokeStage(x) PROVE Goal
  BY <1>32, <1>i, RevokeStageEffect
<1>33. ASSUME NEW x \in Attempts, RollbackStage(x) PROVE Goal
  BY <1>33, <1>i, RollbackStageEffect DEF EndsRun
<1>34. ASSUME NEW x \in Attempts, DriverVanishes(x) PROVE Goal
  BY <1>34, <1>i, DriverVanishesEffect
<1>35. ASSUME NEW x \in Attempts, ConsumerMoves(x) PROVE Goal
  BY <1>35, <1>i, ConsumerMovesEffect
<1>36. ASSUME NEW x \in Attempts, NEW g \in Operations, SendResume(x, g) PROVE Goal
  BY <1>36, <1>i DEF Resuming
<1>37. ASSUME Prune PROVE Goal
  BY <1>37, <1>i, PruneEffect
<1>38. ASSUME Probe PROVE Goal
  BY <1>38, <1>i, ProbeEffect
<1>39. ASSUME TakeTerminalError PROVE Goal
  BY <1>39, <1>i, TakeTerminalErrorEffect
<1>40. ASSUME CancelGeneration PROVE Goal
  BY <1>40, <1>i, CancelGenerationEffect
<1>41. ASSUME Lapse PROVE Goal
  BY <1>41, <1>i, LapseEffect
<1>42. ASSUME LapseError PROVE Goal
  BY <1>42, <1>i, LapseErrorEffect
<1>43. ASSUME NEW w \in writes, Write(w) PROVE Goal
  BY <1>43, <1>i, WriteEffect
<1>44. ASSUME Crash PROVE Goal
  BY <1>44, <1>i, CrashEffect
<1> QED
  BY <1>1, <1>2, <1>3, <1>4, <1>5, <1>6, <1>7, <1>8, <1>9, <1>10, <1>11, <1>12, <1>13, <1>14,
     <1>15, <1>16, <1>17, <1>18, <1>19, <1>20, <1>21, <1>22, <1>23, <1>24, <1>25, <1>26, <1>27,
     <1>28, <1>29, <1>30, <1>31, <1>32, <1>33, <1>34, <1>35, <1>36, <1>37, <1>38, <1>39, <1>40,
     <1>41, <1>42, <1>43, <1>44 DEF Next, Step, Request, Proceed, Driver, Stage, Registry

\* A request that takes over a Run stands for its operation.
LEMMA StepStandsFor ==
  RegistryInv /\ AtFirstStage /\ Next /\ ~Resuming => \A c \in Attempts : StandsFor(c)'
<1> SUFFICES ASSUME RegistryInv, AtFirstStage, Next, ~Resuming,
                    NEW c \in Attempts, req'[c].at = "superseding"
             PROVE  run'[c].stage = run'[req'[c].victim].stage
  BY DEF StandsFor
<1>1. req'[c] = req[c] \/ Takes(c)
  BY StepMoves DEF RegistryInv, Moves, Arrives
<1>2. ASSUME req'[c] = req[c] PROVE run'[c].stage = run'[req'[c].victim].stage
  <2>1. PICK v \in Attempts : v = req[c].victim
    BY <1>2 DEF RegistryInv, Typed
  <2>2. run[c].stage = run[v].stage /\ req[v].at \in Published
    BY <1>2, <2>1 DEF RegistryInv, VictimsSound, AtFirstStage, StandsFor
  <2>3. Settles(c) /\ Settles(v)
    BY StepSettles DEF AtFirstStage
  <2> QED
    BY <1>2, <2>1, <2>2, <2>3 DEF Settles, Published
<1>3. ASSUME NEW results \in BOOLEAN, ClaimReplacement(c, results)
      PROVE  run'[c].stage = run'[req'[c].victim].stage
  <2>1. Typed /\ \A b \in Attempts : SlotSound(b)
    BY DEF RegistryInv
  <2>2. PICK v \in Attempts : TakesOver(c, v)
    BY <1>3, <2>1, ClaimReplacementEffect
  <2>3. req'[c].victim = req[c].victim
    BY <1>3, <2>1, ClaimReplacementEffect DEF RequestIs
  <2> QED
    BY <2>2, <2>3 DEF TakesOver, RunIs
<1>4. ASSUME NEW f \in Operations, NEW results \in BOOLEAN, Observe(c, f, results) PROVE FALSE
  <2>1. Typed
    BY DEF RegistryInv
  <2> QED
    BY <1>4, <2>1, ObserveEffect DEF RequestIs
<1> QED
  BY <1>1, <1>2, <1>3, <1>4 DEF Takes

\* A Run that is about to be published keeps the operation it was opened for.
LEMMA StepNamed ==
  RegistryInv /\ AtFirstStage /\ Next /\ ~Resuming => \A a \in Attempts : NamedByRequest(a)'
<1> SUFFICES ASSUME RegistryInv, AtFirstStage, Next, ~Resuming,
                    NEW a \in Attempts, req'[a].at \in {"inserting", "transferred"}
             PROVE  run'[a].stage = req'[a].op
  BY DEF NamedByRequest
<1>1. Settles(a) /\ AttemptSound(a) /\ NamedByRequest(a) /\ Opens(a)
  BY StepSettles, StepMoves DEF AtFirstStage, RegistryInv, Moves
<1> QED
  BY <1>1 DEF Settles, NamedByRequest, AttemptSound, Opens

\* What the slot covers at most: the Run in it, or the one that is taken over.
LEMMA CoveredBySlot ==
  ASSUME RegistryInv, \A b \in Attempts : GuardSound(b), SlotGuards, ~LedgerEnabled, ~EarlyFinish,
         NEW b \in guarded
  PROVE  /\ b \in Attempts /\ SlotCovers(b) /\ req[b].at \notin Unclaimed \cup {"prepared"}
         /\ run[b].err \notin {"other", "retry"} /\ slot # Free
         /\ \A v : slot = Running(v) => v = b
         /\ \A x \in Attempts : slot = Starting(x) =>
              x = b \/ (req[x].at = "superseding" /\ req[x].victim = b)
         /\ slot.kind \in {"ambiguous", "succeeded"} => slot.fp = run[b].stage
<1>1. b \in Attempts /\ SlotCovers(b) /\ GuardSound(b)
  BY Types DEF SlotGuards, RegistryInv
<1> QED
  BY <1>1, SlotKinds DEF SlotCovers, GuardSound

\* A claim guards nothing that the slot covered: a success or ambiguity of its
\* own operation it does not get past.
LEMMA ClaimReleases ==
  ASSUME RegistryInv, \A b \in Attempts : GuardSound(b), SlotGuards, ~LedgerEnabled, ~EarlyFinish,
         NEW f,
         Seen = Free \/ (Seen.kind \in {"ambiguous", "succeeded"} /\ Seen.fp # f)
  PROVE  Rotated(f) = {}
<1>i. Typed /\ \A b \in Attempts : EndsSealed(b)
  BY DEF RegistryInv
<1>1. CASE Seen = slot
  <2>1. slot # Free => Rotated(f) = {b \in guarded : run[b].stage # slot.fp}
    BY <1>1, SlotKinds DEF Rotated, Released
  <2>2. slot = Free => guarded = {} /\ Rotated(f) = guarded
    BY <1>1, CoveredBySlot, SlotKinds DEF Rotated, Released
  <2> QED
    BY <1>1, <2>1, <2>2, CoveredBySlot
<1>2. CASE Seen = Free /\ Vacant /\ slot.kind = "running"
  <2>1. PICK v \in Attempts : slot = Running(v) /\ slot.by = v
    BY <1>2, <1>i, Types, SlotCases
  <2>2. IsCompleted(v) /\ run[v].err = "none"
    BY <1>2, <2>1 DEF Vacant
  <2>3. FALSE
    BY <2>1, <2>2, <1>i DEF EndsSealed, TowardsSeal, IsCompleted, Serving
  <2> QED
    BY <2>3
<1> QED
  BY <1>1, <1>2, <1>i, SeenIs

\* Without a ledger the slot keeps covering every guarded operation.
LEMMA StepCovers ==
  RegistryInv /\ (\A b \in Attempts : GuardSound(b)) /\ AtFirstStage /\ SlotGuards
  /\ ~LedgerEnabled /\ ~EarlyFinish /\ Next /\ ~Resuming =>
    \A b \in guarded' : SlotCovers(b)'
<1> SUFFICES ASSUME RegistryInv, \A b \in Attempts : GuardSound(b), AtFirstStage, SlotGuards,
                    ~LedgerEnabled, ~EarlyFinish,
                    Next, ~Resuming, NEW b \in guarded'
             PROVE  SlotCovers(b)'
  OBVIOUS
<1>i. /\ Typed /\ (\A a \in Attempts : AttemptSound(a) /\ SlotSound(a) /\ VictimsSound(a))
      /\ \A a \in Attempts : EndsSealed(a) /\ Settles(a) /\ StandsFor(a)
      /\ \A a \in Attempts : run[a].next = Unknown /\ run[a].phase \notin Rotation
      /\ ~Resuming
  BY StepSettles DEF RegistryInv, AtFirstStage, Unstaged
<1>g. b \in guarded =>
        /\ b \in Attempts /\ SlotCovers(b) /\ req[b].at \notin Unclaimed \cup {"prepared"}
        /\ run[b].err \notin {"other", "retry"} /\ slot # Free
        /\ \A v : slot = Running(v) => v = b
        /\ \A x \in Attempts : slot = Starting(x) =>
             x = b \/ (req[x].at = "superseding" /\ req[x].victim = b)
        /\ slot.kind \in {"ambiguous", "succeeded"} => slot.fp = run[b].stage
  BY CoveredBySlot
<1>s. b \in guarded => run'[b].stage = run[b].stage
  BY <1>g, <1>i DEF Settles, Unclaimed
<1>r. \A x \in Attempts : Reserving(x) => slot = Starting(x)
  BY <1>i DEF SlotSound
<1>1. ASSUME NEW x \in Attempts, NEW f \in Operations, Claim(x, f) PROVE SlotCovers(b)'
  <2>1. guarded' = {}
    BY <1>1, <1>i, ClaimEffect, ClaimReleases DEF GivesWay, Blocks
  <2> QED
    BY <2>1
<1>2. ASSUME NEW x \in Attempts, NEW f \in Operations, Refuse(x, f) PROVE SlotCovers(b)'
  BY <1>2, <1>g, <1>s, <1>r, <1>i, SlotKinds, RefuseEffect DEF SlotCovers, OneRequest,
     RequestIs, OneRun, RunIs, Reserving
<1>3. ASSUME NEW x \in Attempts, NEW f \in Operations, NEW results \in BOOLEAN,
             Observe(x, f, results)
      PROVE SlotCovers(b)'
  BY <1>3, <1>g, <1>s, <1>r, <1>i, SlotKinds, ObserveEffect DEF SlotCovers, OneRequest,
     RequestIs, OneRun, RunIs, Reserving
<1>4. ASSUME NEW x \in Attempts, NEW results \in BOOLEAN, ClaimReplacement(x, results)
      PROVE SlotCovers(b)'
  <2>1. /\ slot' = Starting(x) /\ guarded' = guarded
        /\ OneRequest(x) /\ RequestIs(req'[x], "superseding", req[x].op, req[x].victim)
    BY <1>4, <1>i, ClaimReplacementEffect
  <2>2. slot = Running(req[x].victim)
    BY <1>4, <1>i, SeenIs, SlotKinds DEF ClaimReplacement
  <2>3. b = req[x].victim
    BY <2>1, <2>2, <1>g
  <2> QED
    BY <2>1, <2>3 DEF SlotCovers, RequestIs
<1>5. ASSUME NEW x \in Attempts, ClaimVacated(x) PROVE SlotCovers(b)'
  <2>1. req[x].at = "waiting" /\ guarded' = Rotated(req[x].op)
    BY <1>5, <1>i, ClaimVacatedEffect
  <2>2. Seen = Free \/ (Seen.kind = "succeeded" /\ Seen.by = req[x].victim)
    BY <1>5 DEF ClaimVacated
  <2>3. ASSUME Seen.kind = "succeeded", Seen.by = req[x].victim PROVE Seen.fp # req[x].op
    <3>1. Seen = slot /\ req[x].victim \in Attempts
      BY <2>1, <2>3, <1>i, SeenIs, SlotKinds DEF Typed
    <3> QED
      BY <2>1, <2>3, <3>1, <1>i DEF SlotSound, VictimsSound
  <2>4. guarded' = {}
    BY <2>1, <2>2, <2>3, ClaimReleases
  <2> QED
    BY <2>4
<1>6. ASSUME NEW x \in Attempts, LoseClaim(x) PROVE SlotCovers(b)'
  BY <1>6, <1>g, <1>s, <1>r, <1>i, SlotKinds, LoseClaimEffect DEF SlotCovers, OneRequest,
     RequestIs, OneRun, RunIs, Reserving
<1>7. ASSUME NEW x \in Attempts, FinishReplacement(x) PROVE SlotCovers(b)'
  <2>1. PICK v \in Attempts :
          /\ v = req[x].victim /\ IsCompleted(v) /\ run[v].err # "ambiguous"
          /\ \E w \in LedgerClear(run[v].stage, RunId(v)) : ledger' = w.rec
          /\ guarded' = IF run[v].err = "none" /\ run[v].stage = req[x].op
                         THEN guarded ELSE guarded \ {v}
    BY <1>7, <1>i, FinishReplacementEffect
  <2>2. req[x].at = "superseding" /\ slot = Starting(x)
    BY <1>7, <1>r DEF FinishReplacement, Reserving
  <2>3. b \in guarded /\ b = v
    BY <2>1, <2>2, <1>g DEF Unclaimed
  <2>4. run[v].err = "none"
    BY <2>1, <2>3, <1>g, <1>i, Types DEF Errors
  <2>5. run[v].stage # req[x].op
    BY <2>1, <2>2, <2>4, <1>i DEF VictimsSound
  <2> QED
    BY <2>1, <2>3, <2>5
<1>8. ASSUME NEW x \in Attempts, AbandonReplacement(x) PROVE SlotCovers(b)'
  <2>1. PICK v \in Attempts :
          /\ v = req[x].victim /\ slot' = Ambiguous(run[v].stage)
          /\ \E w \in LedgerAmbiguous(run[v].stage, RunId(v)) : ledger' = w.rec
    BY <1>8, <1>i, AbandonReplacementEffect
  <2>2. req[x].at = "superseding" /\ slot = Starting(x) /\ guarded' = guarded
    BY <1>8, <1>r DEF AbandonReplacement, Reserving
  <2>3. b = v
    BY <2>1, <2>2, <1>g DEF Unclaimed
  <2> QED
    BY <2>1, <2>2, <2>3, <1>s, SlotKinds DEF SlotCovers
<1>9. ASSUME NEW x \in Attempts, BeginDurable(x) PROVE SlotCovers(b)'
  <2>1. req[x].at = "reserved" /\ slot = Starting(x)
    BY <1>9, <1>r DEF BeginDurable, Reserving
  <2>2. b \notin guarded
    BY <2>1, <1>g DEF Unclaimed
  <2>3. guarded' \subseteq guarded
    BY <1>9, <1>i, BeginDurableEffect DEF AfterClaim
  <2> QED
    BY <2>2, <2>3
<1>10. ASSUME NEW x \in Attempts, Withdraw(x) PROVE SlotCovers(b)'
  <2>1. req[x].at = "prepared" /\ slot = Starting(x)
    BY <1>10, <1>r DEF Withdraw, Reserving
  <2>2. b \notin guarded
    BY <2>1, <1>g DEF Unclaimed
  <2> QED
    BY <1>10, <2>2, <1>i, WithdrawEffect
<1>11. ASSUME NEW x \in Attempts, Dispatch(x) PROVE SlotCovers(b)'
  <2>1. req[x].at = "prepared" /\ slot = Starting(x)
    BY <1>11, <1>r DEF Dispatch, Reserving
  <2>2. b \notin guarded
    BY <2>1, <1>g DEF Unclaimed
  <2>3. guarded' \subseteq guarded \cup {x} /\ (guarded' # guarded => slot' = slot)
    BY <1>11, <1>i, DispatchEffect
  <2> QED
    BY <2>1, <2>2, <2>3 DEF SlotCovers
<1>12. ASSUME NEW x \in Attempts, OpenRejected(x) PROVE SlotCovers(b)'
  BY <1>12, <1>g, <1>s, <1>r, <1>i, SlotKinds, OpenRejectedEffect DEF SlotCovers, OneRequest,
     RequestIs, OneRun, RunIs, Reserving
<1>13. ASSUME NEW x \in Attempts, OpenUnknown(x) PROVE SlotCovers(b)'
  <2>1. /\ req[x].at = "dispatched" /\ slot = Starting(x) /\ guarded' = guarded
        /\ slot' = Ambiguous(req[x].op)
    BY <1>13, <1>r DEF OpenUnknown, Seal, Reserving
  <2>2. b = x /\ run[x].stage = req[x].op
    BY <2>1, <1>g, <1>i DEF AttemptSound
  <2> QED
    BY <2>1, <2>2, <1>s, SlotKinds DEF SlotCovers
<1>14. ASSUME NEW x \in Attempts, DropReplacement(x) PROVE SlotCovers(b)'
  <2>1. /\ req[x].at = "superseding" /\ slot = Starting(x) /\ guarded' = guarded
        /\ slot' = Ambiguous(run[x].stage)
    BY <1>14, <1>r DEF DropReplacement, Seal, Reserving
  <2>2. b = req[x].victim /\ run[x].stage = run[b].stage
    BY <2>1, <1>g, <1>i DEF Unclaimed, StandsFor
  <2> QED
    BY <2>1, <2>2, <1>s, SlotKinds DEF SlotCovers
<1>15. ASSUME NEW x \in Attempts, OpenSucceeds(x) PROVE SlotCovers(b)'
  BY <1>15, <1>g, <1>s, <1>r, <1>i, SlotKinds, OpenSucceedsEffect DEF SlotCovers, OneRequest,
     RequestIs, OneRun, RunIs, Reserving
<1>16. ASSUME NEW x \in Attempts, InsertTransfer(x) PROVE SlotCovers(b)'
  BY <1>16, <1>g, <1>s, <1>r, <1>i, SlotKinds, InsertTransferEffect DEF SlotCovers, OneRequest,
     RequestIs, OneRun, RunIs, Reserving
<1>17. ASSUME NEW x \in Attempts, InsertPublish(x) PROVE SlotCovers(b)'
  BY <1>17, <1>g, <1>s, <1>r, <1>i, SlotKinds, InsertPublishEffect DEF SlotCovers, OneRequest,
     RequestIs, OneRun, RunIs, Reserving
<1>18. ASSUME NEW x \in Attempts, InsertReseal(x) PROVE SlotCovers(b)'
  BY <1>18, <1>g, <1>s, <1>r, <1>i, SlotKinds, InsertResealEffect DEF SlotCovers, OneRequest,
     RequestIs, OneRun, RunIs, Reserving
<1>19. ASSUME NEW x \in Attempts, GiveUp(x) PROVE SlotCovers(b)'
  <2>1. /\ req[x].at \in {"orphaned", "serving"} /\ slot' = slot /\ guarded' = guarded
        /\ OneRequest(x)
    BY <1>19, <1>i, GiveUpEffect
  <2>2. \A c \in Attempts : req[c].at = "superseding" => req'[c] = req[c]
    BY <2>1 DEF OneRequest
  <2> QED
    BY <2>1, <2>2, <1>g, <1>s DEF SlotCovers
<1>20. ASSUME NEW x \in Attempts, NEW err \in Errors \ {"none"}, DriverFails(x, err)
       PROVE SlotCovers(b)'
  BY <1>20, <1>g, <1>s, <1>r, <1>i, SlotKinds, DriverFailsEffect DEF SlotCovers, OneRequest,
     RequestIs, OneRun, RunIs, Reserving, EndsRun
<1>21. ASSUME NEW x \in Attempts, NEW err \in {"other", "ambiguous"}, DriverCancelled(x, err)
       PROVE SlotCovers(b)'
  BY <1>21, <1>g, <1>s, <1>r, <1>i, SlotKinds, DriverCancelledEffect DEF SlotCovers, OneRequest,
     RequestIs, OneRun, RunIs, Reserving, EndsRun
<1>22. ASSUME NEW x \in Attempts, DriverFinishes(x) PROVE SlotCovers(b)'
  BY <1>22, <1>g, <1>s, <1>r, <1>i, SlotKinds, DriverFinishesEffect DEF SlotCovers, OneRequest,
     RequestIs, OneRun, RunIs, Reserving, EndsRun
<1>23. ASSUME NEW x \in Attempts, SealLookup(x) PROVE SlotCovers(b)'
  BY <1>23, <1>g, <1>s, <1>r, <1>i, SlotKinds, SealLookupEffect DEF SlotCovers, OneRequest,
     RequestIs, OneRun, RunIs, Reserving
<1>24. ASSUME NEW x \in Attempts, SealLedger(x) PROVE SlotCovers(b)'
  BY <1>24, <1>g, <1>s, <1>r, <1>i, SlotKinds, SealLedgerEffect DEF SlotCovers, OneRequest,
     RequestIs, OneRun, RunIs, Reserving
<1>25. ASSUME NEW x \in Attempts, SealSlot(x) PROVE SlotCovers(b)'
  BY <1>25, <1>g, <1>s, <1>r, <1>i, SlotKinds, SealSlotEffect DEF SlotCovers, OneRequest,
     RequestIs, OneRun, RunIs, Reserving
<1>26. ASSUME NEW x \in Attempts, Complete(x) PROVE SlotCovers(b)'
  BY <1>26, <1>g, <1>s, <1>r, <1>i, SlotKinds, CompleteEffect DEF SlotCovers, OneRequest,
     RequestIs, OneRun, RunIs, Reserving
<1>27. ASSUME NEW x \in Attempts, SkipResume(x) PROVE SlotCovers(b)'
  BY <1>27, <1>g, <1>s, <1>r, <1>i, SlotKinds, SkipResumeEffect DEF SlotCovers, OneRequest,
     RequestIs, OneRun, RunIs, Reserving
<1>28. ASSUME NEW x \in Attempts, PrepareStage(x) PROVE SlotCovers(b)'
  BY <1>28, <1>g, <1>s, <1>r, <1>i, SlotKinds, PrepareStageEffect DEF SlotCovers, OneRequest,
     RequestIs, OneRun, RunIs, Reserving
<1>29. ASSUME NEW x \in Attempts, DispatchStage(x) PROVE SlotCovers(b)'
  BY <1>29, <1>g, <1>s, <1>r, <1>i, SlotKinds, DispatchStageEffect DEF SlotCovers, OneRequest,
     RequestIs, OneRun, RunIs, Reserving
<1>30. ASSUME NEW x \in Attempts, AcceptStage(x) PROVE SlotCovers(b)'
  BY <1>30, <1>g, <1>s, <1>r, <1>i, SlotKinds, AcceptStageEffect DEF SlotCovers, OneRequest,
     RequestIs, OneRun, RunIs, Reserving
<1>31. ASSUME NEW x \in Attempts, AcknowledgeStage(x) PROVE SlotCovers(b)'
  BY <1>31, <1>g, <1>s, <1>r, <1>i, SlotKinds, AcknowledgeStageEffect DEF SlotCovers,
     OneRequest, RequestIs, OneRun, RunIs, Reserving
<1>32. ASSUME NEW x \in Attempts, RevokeStage(x) PROVE SlotCovers(b)'
  BY <1>32, <1>g, <1>s, <1>r, <1>i, SlotKinds, RevokeStageEffect DEF SlotCovers, OneRequest,
     RequestIs, OneRun, RunIs, Reserving
<1>33. ASSUME NEW x \in Attempts, RollbackStage(x) PROVE SlotCovers(b)'
  BY <1>33, <1>i DEF RollbackStage, Rotation
<1>34. ASSUME NEW x \in Attempts, DriverVanishes(x) PROVE SlotCovers(b)'
  BY <1>34, <1>g, <1>s, <1>r, <1>i, SlotKinds, DriverVanishesEffect DEF SlotCovers, OneRequest,
     RequestIs, OneRun, RunIs, Reserving
<1>35. ASSUME NEW x \in Attempts, ConsumerMoves(x) PROVE SlotCovers(b)'
  BY <1>35, <1>g, <1>s, <1>r, <1>i, SlotKinds, ConsumerMovesEffect DEF SlotCovers, OneRequest,
     RequestIs, OneRun, RunIs, Reserving
<1>36. ASSUME NEW x \in Attempts, NEW g \in Operations, SendResume(x, g) PROVE SlotCovers(b)'
  BY <1>36, <1>i DEF Resuming
<1>37. ASSUME Prune PROVE SlotCovers(b)'
  <2>1. PICK v \in Attempts : slot = Running(v) /\ IsCompleted(v) /\ run[v].err = "none"
    BY <1>37, <1>i, PruneEffect
  <2> QED
    BY <2>1, <1>i DEF EndsSealed, TowardsSeal, IsCompleted, Serving
<1>38. ASSUME Probe PROVE SlotCovers(b)'
  BY <1>38, <1>g, <1>s, <1>r, <1>i, SlotKinds, ProbeEffect DEF SlotCovers, OneRequest,
     RequestIs, OneRun, RunIs, Reserving
<1>39. ASSUME TakeTerminalError PROVE SlotCovers(b)'
  <2>1. PICK v \in Attempts :
          /\ slot = Running(v) /\ IsCompleted(v) /\ run[v].err # "none"
          /\ slot' = IF run[v].err = "ambiguous" THEN Ambiguous(run[v].stage) ELSE Free
          /\ OneRun(v)
          /\ RunIs(run'[v], run[v].phase, run[v].stage, run[v].next, "none", run[v].cancel)
          /\ writes' = writes \cup
              {[call |-> IF run[v].err = "ambiguous" THEN "ambiguous" ELSE "clear",
                fp |-> run[v].stage, owner |-> RunId(v), cancels |-> NoAttempt]}
    BY <1>39, <1>i, TakeTerminalErrorEffect
  <2>2. guarded' = guarded
    BY <1>39, <1>i, TakeTerminalErrorEffect
  <2>3. b = v /\ run[v].err = "ambiguous"
    BY <2>1, <2>2, <1>g, <1>i, Types DEF Errors
  <2> QED
    BY <2>1, <2>2, <2>3, <1>s, SlotKinds DEF SlotCovers
<1>40. ASSUME CancelGeneration PROVE SlotCovers(b)'
  BY <1>40, <1>g, <1>s, <1>r, <1>i, SlotKinds, CancelGenerationEffect DEF SlotCovers,
     OneRequest, RequestIs, OneRun, RunIs, Reserving
<1>41. ASSUME Lapse PROVE SlotCovers(b)'
  BY <1>41, <1>g, <1>s, <1>r, <1>i, SlotKinds, LapseEffect DEF SlotCovers, OneRequest,
     RequestIs, OneRun, RunIs, Reserving
<1>42. ASSUME LapseError PROVE SlotCovers(b)'
  BY <1>42, <1>g, <1>s, <1>r, <1>i, SlotKinds, LapseErrorEffect DEF SlotCovers, OneRequest,
     RequestIs, OneRun, RunIs, Reserving
<1>43. ASSUME NEW w \in writes, Write(w) PROVE SlotCovers(b)'
  BY <1>43, <1>g, <1>s, <1>r, <1>i, SlotKinds, WriteEffect DEF SlotCovers, OneRequest,
     RequestIs, OneRun, RunIs, Reserving
<1>44. ASSUME Crash PROVE SlotCovers(b)'
  BY <1>44, <1>g, <1>s, <1>r, <1>i, SlotKinds, CrashEffect DEF SlotCovers, OneRequest,
     RequestIs, OneRun, RunIs, Reserving
<1> QED
  BY <1>1, <1>2, <1>3, <1>4, <1>5, <1>6, <1>7, <1>8, <1>9, <1>10, <1>11, <1>12, <1>13, <1>14,
     <1>15, <1>16, <1>17, <1>18, <1>19, <1>20, <1>21, <1>22, <1>23, <1>24, <1>25, <1>26, <1>27,
     <1>28, <1>29, <1>30, <1>31, <1>32, <1>33, <1>34, <1>35, <1>36, <1>37, <1>38, <1>39, <1>40,
     <1>41, <1>42, <1>43, <1>44 DEF Next, Step, Request, Proceed, Driver, Stage, Registry

\* Until tool results are delivered, every Run stays at its first stage.
LEMMA StageSteps == RegistryInv /\ StageInv /\ [Next]_vars => StageInv'
<1>1. ASSUME RegistryInv, StageInv, Next, resumes' = 0 PROVE AtFirstStage'
  <2>1. resumes = 0 /\ ~Resuming
    BY <1>1, ResumesGrow DEF RegistryInv
  <2>2. AtFirstStage
    BY <1>1, <2>1 DEF StageInv
  <2> QED
    BY <1>1, <2>1, <2>2, StepSettles, StepStandsFor, StepNamed DEF AtFirstStage
<1>2. ASSUME StageInv, UNCHANGED vars PROVE StageInv'
  BY <1>2 DEF vars, StageInv, AtFirstStage, Unstaged, StandsFor, NamedByRequest
<1> QED
  BY <1>1, <1>2 DEF StageInv

\* The part of the invariant about the slot is inductive.
LEMMA SlotSteps == RegistryInv /\ LedgerInv /\ StageInv /\ SlotInv /\ [Next]_vars => SlotInv'
<1>1. ASSUME RegistryInv, LedgerInv, StageInv, SlotInv, Next PROVE SlotInv'
  <2> SUFFICES ASSUME ~LedgerEnabled, ~EarlyFinish, resumes' = 0 PROVE SlotGuards'
    BY <1>1 DEF SlotInv, Next, LedgerEnabled, EarlyFinish
  <2>1. resumes = 0 /\ ~Resuming
    BY <1>1, ResumesGrow DEF RegistryInv
  <2>2. /\ SlotGuards /\ AtFirstStage /\ (\A b \in Attempts : GuardSound(b))
        /\ Typed /\ guarded \subseteq Attempts
    BY <1>1, <2>1, Types DEF SlotInv, StageInv, LedgerInv, RegistryInv
  <2>3. \A b \in guarded' : SlotCovers(b)'
    BY <1>1, <2>1, <2>2, StepCovers
  <2>4. ASSUME NEW y \in Attempts, Dispatch(y) PROVE \A a, b \in guarded' : a = b
    <3>1. req[y].at = "prepared" /\ slot = Starting(y)
      BY <1>1, <2>4 DEF Dispatch, RegistryInv, SlotSound, Reserving
    <3>2. guarded = {}
      BY <1>1, <2>2, <3>1, CoveredBySlot DEF Unclaimed
    <3>3. guarded' \subseteq guarded \cup {y}
      BY <2>2, <2>4, DispatchEffect
    <3> QED
      BY <3>2, <3>3
  <2>5. \A a, b \in guarded' : a = b
    BY <1>1, <2>2, <2>4, StepAccounts DEF Accounts, Dispatches, SlotGuards, RegistryInv
  <2> QED
    BY <2>3, <2>5 DEF SlotGuards
<1>2. ASSUME SlotInv, UNCHANGED vars PROVE SlotInv'
  BY <1>2 DEF vars, SlotInv, LedgerEnabled, EarlyFinish, SlotGuards, SlotCovers
<1> QED
  BY <1>1, <1>2

\* At the start nothing is guarded, and the record is empty.
LEMMA GuardsStart == Init => LedgerInv /\ StageInv /\ SlotInv /\ StakeInv /\ MarkerInv
<1> SUFFICES ASSUME Init PROVE LedgerInv /\ StageInv /\ SlotInv /\ StakeInv /\ MarkerInv
  OBVIOUS
<1>1. /\ \A a \in Attempts : req[a].at = "idle" /\ RunIs(run[a], "none", Unknown, Unknown, "none",
                                                         FALSE)
      /\ guarded = {} /\ ~Held /\ writes = {}
  BY DEF Init, Arriving, NoRun, RunIs, Held, EmptyRecord
<1>2. LedgerInv
  BY <1>1 DEF LedgerInv, GuardSound, MarkerSound, StageUntouched, Recorded, HolderAlone, StageRecorded, RunIs
<1>3. SlotInv
  BY <1>1 DEF SlotInv, SlotGuards
<1>4. StageInv
  BY <1>1 DEF StageInv, AtFirstStage, Unstaged, StandsFor, NamedByRequest, Rotation, RunIs
<1>5. StakeInv
  <2>1. slot = Free
    BY DEF Init
  <2> QED
    BY <1>1, <2>1, SlotKinds DEF StakeInv, AtStake
<1>6. MarkerInv
  BY <1>1 DEF MarkerInv, MarkerNamed, MarkerInHand, SealsClear, Publishing, RunIs
<1> QED
  BY <1>2, <1>3, <1>4, <1>5, <1>6

-----------------------------------------------------------------------------
(* With a ledger: what the registry still answers for is in the record.     *)

\* What is at stake after a step was at stake before, or is being dispatched.
LEMMA StepStakes ==
  ASSUME RegistryInv, AtFirstStage, Next, ~Resuming, NEW f, AtStake(f)'
  PROVE  \/ AtStake(f)
         \/ \E x \in Attempts : Dispatch(x) /\ f = run[x].stage /\ req'[x].at = "dispatched"
<1>i. /\ Typed /\ (\A b \in Attempts : AttemptSound(b) /\ SlotSound(b) /\ StandsFor(b) /\ Settles(b))
      /\ Entries /\ \A b \in Attempts : Opens(b)
  BY StepSettles, StepMoves, StepAccounts DEF RegistryInv, AtFirstStage, Moves, Accounts
<1>1. ASSUME NEW a \in Attempts, f = run'[a].stage,
             req'[a].at \in {"dispatched", "inserting", "transferred"}
      PROVE  AtStake(f) \/ (Dispatch(a) /\ f = run[a].stage /\ req'[a].at = "dispatched")
  <2>1. Dispatch(a) => run' = run
    BY <1>i, DispatchEffect
  <2>2. req'[a].at = "dispatched" => req'[a] = req[a] \/ Dispatch(a)
    BY <1>i DEF Opens
  <2>3. req'[a].at \in {"inserting", "transferred"} =>
          req[a].at \in {"dispatched", "inserting", "transferred"}
    BY <1>i DEF Opens
  <2>4. req[a].at \in {"dispatched", "inserting", "transferred"} => f = run[a].stage
    BY <1>1, <1>i DEF Settles
  <2> QED
    BY <1>1, <2>1, <2>2, <2>3, <2>4 DEF AtStake
<1>2. ASSUME NEW a \in Attempts, f = run'[a].stage, req'[a].at = "superseding" PROVE AtStake(f)
  <2>1. CASE req'[a] = req[a]
    BY <1>2, <2>1, <1>i DEF Settles, AtStake
  <2>2. ASSUME NEW results \in BOOLEAN, ClaimReplacement(a, results) PROVE AtStake(f)
    <3>1. PICK v \in Attempts : TakesOver(a, v)
      BY <2>2, <1>i, ClaimReplacementEffect
    <3> QED
      BY <1>2, <3>1 DEF TakesOver, AtStake, RunIs
  <2>3. ASSUME NEW g \in Operations, NEW results \in BOOLEAN, Observe(a, g, results) PROVE FALSE
    BY <1>2, <2>3, <1>i, ObserveEffect DEF RequestIs
  <2>4. req'[a] = req[a] \/ Takes(a)
    BY <1>2, StepMoves DEF RegistryInv, Moves, Arrives
  <2> QED
    BY <2>1, <2>2, <2>3, <2>4 DEF Takes
<1>3. ASSUME NEW a \in Attempts, f = run'[a].stage, slot' = Running(a) PROVE AtStake(f)
  <2>1. CASE slot' = slot
    <3>1. req[a].at \in Published
      BY <1>3, <2>1, <1>i DEF SlotSound
    <3> QED
      BY <1>3, <2>1, <3>1, <1>i DEF Settles, AtStake, Published
  <2>2. ASSUME NEW x \in Attempts, InsertPublish(x) PROVE AtStake(f)
    <3>1. slot' = Running(x) /\ req[x].at = "transferred" /\ run' = run
      BY <2>2, <1>i, InsertPublishEffect
    <3>2. Running(x) = Running(a)
      BY <1>3, <3>1
    <3>3. x = a
      BY <3>2 DEF Running
    <3>4. f = run[a].stage /\ req[a].at = "transferred"
      BY <1>3, <3>1, <3>3
    <3> QED
      BY <3>4 DEF AtStake
  <2>3. ~(slot'.kind \in {"free", "starting", "succeeded", "ambiguous"})
    BY <1>3, SlotKinds
  <2>4. \A x \in Attempts : ~(AbandonReplacement(x) \/ OpenUnknown(x) \/ DropReplacement(x))
    BY <2>3, <1>i, SlotKinds, AbandonReplacementEffect, OpenUnknownEffect, DropReplacementEffect
  <2>5. ~Probe /\ ~TakeTerminalError
    BY <2>3, <1>i, SlotKinds, ProbeEffect, TakeTerminalErrorEffect
  <2> QED
    BY <1>i, <2>1, <2>2, <2>3, <2>4, <2>5, SlotKinds DEF Entries
<1>4. ASSUME slot'.kind = "ambiguous", f = slot'.fp PROVE AtStake(f)
  <2>1. CASE slot' = slot
    BY <1>4, <2>1 DEF AtStake
  <2>2. ASSUME NEW x \in Attempts, AbandonReplacement(x) PROVE AtStake(f)
    <3>1. /\ req[x].at = "superseding"
          /\ \E v \in Attempts : v = req[x].victim /\ slot' = Ambiguous(run[v].stage)
      BY <2>2, <1>i, AbandonReplacementEffect
    <3>2. run[x].stage = run[req[x].victim].stage
      BY <3>1, <1>i DEF StandsFor
    <3>3. f = run[x].stage
      BY <1>4, <3>1, <3>2, SlotKinds
    <3> QED
      BY <3>1, <3>3 DEF AtStake
  <2>3. ASSUME NEW x \in Attempts, OpenUnknown(x) PROVE AtStake(f)
    <3>1. req[x].at = "dispatched" /\ slot' = Ambiguous(req[x].op)
      BY <2>3, <1>i, OpenUnknownEffect
    <3>2. run[x].stage = req[x].op
      BY <3>1, <1>i DEF AttemptSound
    <3>3. f = run[x].stage
      BY <1>4, <3>1, <3>2, SlotKinds
    <3> QED
      BY <3>1, <3>3 DEF AtStake
  <2>4. ASSUME NEW x \in Attempts, DropReplacement(x) PROVE AtStake(f)
    <3>1. req[x].at = "superseding" /\ slot' = Ambiguous(run[x].stage)
      BY <2>4, <1>i, DropReplacementEffect
    <3>2. f = run[x].stage
      BY <1>4, <3>1, SlotKinds
    <3> QED
      BY <3>1, <3>2 DEF AtStake
  <2>5. CASE Probe \/ TakeTerminalError
    <3>1. PICK v \in Attempts : slot = Running(v) /\ slot' \in {Ambiguous(run[v].stage), Free}
      BY <2>5, <1>i, ProbeEffect, TakeTerminalErrorEffect
    <3>2. f = run[v].stage
      BY <1>4, <3>1, SlotKinds
    <3> QED
      BY <3>1, <3>2 DEF AtStake
  <2>6. ~(\E x \in Attempts : InsertPublish(x))
    BY <1>4, <1>i, SlotKinds, InsertPublishEffect
  <2> QED
    BY <1>4, <1>i, <2>1, <2>2, <2>3, <2>4, <2>5, <2>6, SlotKinds DEF Entries
<1> QED
  BY <1>1, <1>2, <1>3, <1>4 DEF AtStake

\* What is at stake, and in the record, stays in the record.
LEMMA StepKept ==
  ASSUME RegistryInv, LedgerInv, AtFirstStage, LedgerEnabled, Next, ~Resuming,
         NEW f, AtStake(f)', Kept(f)
  PROVE  Kept(f)'
<1>i. /\ Typed /\ Sound /\ (\A b \in Attempts : SlotSound(b)) /\ (\A b \in Attempts : SlotSound(b)')
      /\ (\A w \in writes : WriteSound(w) /\ w \in Writes) /\ Entries
  BY StepAccounts, StepSlot, RecordedFacts, Types DEF RegistryInv, Accounts
<1>f. /\ slot' # Free
      /\ \A x \in Attempts : slot' = Starting(x) =>
           req'[x].at \in {"dispatched", "inserting", "transferred", "superseding"}
  <2>1. \A a \in Attempts : Reserving(a)' => slot' = Starting(a)
    BY <1>i DEF SlotSound
  <2> QED
    BY <2>1, SlotKinds DEF AtStake, Reserving
<1>w. \A w \in writes' : w.call = "clear" => w \in writes
  BY <1>i, <1>f DEF Entries
<1>s. \A x \in Attempts : Reserving(x) => slot = Starting(x)
  BY <1>i DEF SlotSound
<1>k. ASSUME Keeps(ledger') PROVE Kept(f)'
  BY <1>k, <1>w DEF Kept, Keeps, Held
<1>m. ASSUME Held, NEW st \in {"Dispatched", "Ambiguous"},
             Marks(ledger', ledger.active.fp, ledger.active.owner, st), ledger'.completed = ledger.completed
      PROVE  Kept(f)'
  BY <1>m, <1>w DEF Kept, Marks, Held
<1>1. CASE ~Loud
  BY <1>1, <1>k, StepQuiet DEF LedgerInv, Quiet
<1>2. ASSUME NEW x \in Attempts, FinishReplacement(x) PROVE FALSE
  <2>1. /\ req[x].at = "superseding" /\ req'[x].at = "reserved" /\ slot' = slot
    BY <1>2, <1>i, FinishReplacementEffect DEF RequestIs
  <2> QED
    BY <1>f, <1>s, <2>1 DEF Reserving
<1>3. ASSUME NEW x \in Attempts, AbandonReplacement(x) PROVE Kept(f)'
  <2>1. PICK v \in Attempts : \E w \in LedgerAmbiguous(run[v].stage, RunId(v)) : ledger' = w.rec
    BY <1>3, <1>i, AbandonReplacementEffect
  <2> QED
    BY <1>i, <1>k, <1>m, <2>1, AmbiguousIs
<1>4. ASSUME NEW x \in Attempts, BeginDurable(x) PROVE FALSE
  <2>1. req[x].at = "reserved" /\ (slot' = Free \/ (req'[x].at = "prepared" /\ slot' = slot))
    BY <1>4, <1>i, BeginDurableEffect DEF RequestIs
  <2> QED
    BY <1>f, <1>s, <2>1 DEF Reserving
<1>5. ASSUME NEW x \in Attempts, Dispatch(x) PROVE Kept(f)'
  <2>1. PICK w \in LedgerDispatch(req[x].op, Res(x)) : ledger' = w.rec
    BY <1>5, <1>i, DispatchEffect
  <2>2. \/ Keeps(ledger')
        \/ /\ Held /\ ledger'.completed = ledger.completed
           /\ \E st \in {"Dispatched", "Ambiguous"} :
                Marks(ledger', ledger.active.fp, ledger.active.owner, st)
    BY <1>i, <2>1, DispatchIs
  <2> QED
    BY <1>k, <1>m, <2>2
<1>6. ASSUME NEW x \in Attempts, InsertTransfer(x) PROVE Kept(f)'
  <2>1. /\ req[x].at = "inserting"
        /\ \E w \in LedgerTransfer(req[x].op, Res(x), RunId(x)) : ledger' = w.rec
    BY <1>6, <1>i, InsertTransferEffect
  <2>2. \/ Keeps(ledger')
        \/ /\ Held /\ ledger'.completed = ledger.completed
           /\ Marks(ledger', ledger.active.fp, RunId(x), ledger.active.state)
    BY <1>i, <2>1, TransferIs, TokenType
  <2>3. \A w \in writes : w.owner # RunId(x)
    BY <1>i, <2>1, Tokens DEF WriteSound, Published
  <2>4. CASE Keeps(ledger')
    BY <1>k, <2>4
  <2> QED
    BY <1>w, <2>2, <2>3, <2>4 DEF Kept, Marks, Held
<1>7. ASSUME NEW x \in Attempts, SealLedger(x) PROVE Kept(f)'
  <2>1. \E w \in LedgerComplete(run[x].stage, RunId(x)) : ledger' = w.rec
    BY <1>7, <1>i, SealLedgerEffect
  <2>2. \/ Keeps(ledger')
        \/ /\ Held /\ ledger.active.fp = run[x].stage
           /\ History(ledger'.completed) = History(ledger.completed) \cup {run[x].stage}
    <3>1. run[x].stage \in Fingerprints
      BY <1>i, Types
    <3> QED
      BY <1>i, <2>1, <3>1, CompleteIs
  <2>3. CASE Keeps(ledger')
    BY <1>k, <2>3
  <2> QED
    BY <2>2, <2>3 DEF Kept
<1>8. ASSUME NEW x \in Attempts,
             \/ PrepareStage(x) \/ DispatchStage(x) \/ AcceptStage(x) \/ RevokeStage(x)
             \/ RollbackStage(x)
      PROVE  FALSE
  <2>1. run[x].next = Unknown /\ run[x].phase \notin Rotation
    BY DEF AtFirstStage, Unstaged
  <2> QED
    BY <1>8, <2>1 DEF PrepareStage, DispatchStage, AcceptStage, RevokeStage, RollbackStage, Rotation
<1>9. CASE Probe
  <2>1. ledger' = ledger \/ slot' = Free
    BY <1>9, <1>i, ProbeEffect
  <2> QED
    BY <1>f, <1>k, <2>1 DEF Keeps
<1>10. ASSUME NEW w \in writes, Write(w) PROVE Kept(f)'
  <2>1. PICK g : \E r \in IF w.call = "clear" THEN LedgerClear(g, w.owner)
                           ELSE LedgerAmbiguous(g, w.owner) : ledger' = r.rec
    BY <1>10, <1>i, WriteEffect
  <2>2. CASE w.call = "clear"
    <3>1. \/ Keeps(ledger')
          \/ /\ Held /\ ledger.active.owner = w.owner /\ ledger'.completed = ledger.completed
      BY <1>i, <2>1, <2>2, ClearIs
    <3>2. CASE Keeps(ledger')
      BY <1>k, <3>2
    <3> QED
      BY <2>2, <3>1, <3>2 DEF Kept
  <2>3. CASE w.call # "clear"
    BY <1>i, <1>k, <1>m, <2>1, <2>3, AmbiguousIs
  <2> QED
    BY <2>2, <2>3
<1>11. CASE Crash
  BY <1>11, <1>f, <1>i, CrashEffect
<1> QED
  BY <1>1, <1>2, <1>3, <1>4, <1>5, <1>6, <1>7, <1>8, <1>9, <1>10, <1>11 DEF Loud, Resuming

\* A dispatch that answers yes has its operation in the record.
LEMMA DispatchKept ==
  ASSUME RegistryInv, LedgerInv, LedgerEnabled,
         NEW x \in Attempts, Dispatch(x), req'[x].at = "dispatched", NEW f, f = run[x].stage
  PROVE  Kept(f)'
<1>i. /\ Typed /\ Sound /\ AttemptSound(x) /\ \A w \in writes : WriteSound(w) /\ w \in Writes
  BY RecordedFacts, Types DEF RegistryInv
<1>1. /\ req[x].at = "prepared" /\ run' = run
      /\ \E w \in LedgerDispatch(req[x].op, Res(x)) :
           w.ans = "yes" /\ ledger' = w.rec /\ writes' = writes
  BY <1>i, DispatchEffect DEF RequestIs
<1>2. /\ \E st \in {"Dispatched", "Ambiguous"} : Marks(ledger', req[x].op, Res(x), st)
  BY <1>i, <1>1, DispatchIs
<1>3. req[x].op = f
  BY <1>i, <1>1 DEF AttemptSound
<1>4. \A w \in writes : w.owner # Res(x)
  BY <1>i, <1>1, Tokens DEF WriteSound, Published
<1> QED
  BY <1>1, <1>2, <1>3, <1>4 DEF Kept, Marks, Held

\* With a ledger, what is at stake is in the record.
LEMMA StakeSteps == RegistryInv /\ LedgerInv /\ StageInv /\ StakeInv /\ [Next]_vars => StakeInv'
<1>1. ASSUME RegistryInv, LedgerInv, StageInv, StakeInv, Next PROVE StakeInv'
  <2> SUFFICES ASSUME LedgerEnabled, resumes' = 0, NEW f \in Fingerprints, AtStake(f)'
               PROVE  Kept(f)'
    BY <1>1 DEF StakeInv, Next, LedgerEnabled
  <2>1. resumes = 0 /\ ~Resuming
    BY <1>1, ResumesGrow DEF RegistryInv
  <2>2. AtFirstStage
    BY <1>1, <2>1 DEF StageInv
  <2>3. ASSUME NEW x \in Attempts, Dispatch(x), f = run[x].stage, req'[x].at = "dispatched"
        PROVE  Kept(f)'
    BY <1>1, <2>3, DispatchKept
  <2>4. CASE AtStake(f)
    <3>1. Kept(f)
      BY <1>1, <2>1, <2>4 DEF StakeInv
    <3> QED
      BY <1>1, <2>1, <2>2, <3>1, StepKept
  <2> QED
    BY <1>1, <2>1, <2>2, <2>3, <2>4, StepStakes
<1>2. ASSUME StakeInv, UNCHANGED vars PROVE StakeInv'
  BY <1>2 DEF vars, StakeInv, LedgerEnabled, AtStake, Kept, Held
<1> QED
  BY <1>1, <1>2

-----------------------------------------------------------------------------
(* The marker passes from hand to hand until somebody settles it.           *)

\* Without tool results the marker passes so, and only a restart changes the
\* process.
LEMMA StepPasses ==
  ASSUME RegistryInv, LedgerInv, AtFirstStage, Next, ~Resuming
  PROVE  Passes /\ (process' = process \/ Crash)
<1>i. Typed /\ Sound
  BY RecordedFacts
<1>k. Keeps(ledger') => Passes
  BY DEF Keeps, Passes
<1>c. ledger'.active = NoActive => Passes
  BY DEF Passes
<1>a. Held /\ Marks(ledger', ledger.active.fp, ledger.active.owner, "Ambiguous")
      /\ ledger'.completed = ledger.completed => Passes
  BY DEF Passes
<1>1. CASE ~Loud
  BY <1>1, <1>k, StepQuiet DEF LedgerInv, Quiet, Steady
<1>2. ASSUME NEW x \in Attempts, FinishReplacement(x) PROVE Passes /\ process' = process
  <2>1. PICK v \in Attempts : \E w \in LedgerClear(run[v].stage, RunId(v)) : ledger' = w.rec
    BY <1>2, <1>i, FinishReplacementEffect
  <2>2. process' = process
    BY <1>2, <1>i, FinishReplacementEffect
  <2> QED
    BY <1>i, <1>k, <1>c, <2>1, <2>2, ClearIs
<1>3. ASSUME NEW x \in Attempts, AbandonReplacement(x) PROVE Passes /\ process' = process
  <2>1. PICK v \in Attempts : \E w \in LedgerAmbiguous(run[v].stage, RunId(v)) : ledger' = w.rec
    BY <1>3, <1>i, AbandonReplacementEffect
  <2>2. process' = process
    BY <1>3, <1>i, AbandonReplacementEffect
  <2> QED
    BY <1>i, <1>k, <1>a, <2>1, <2>2, AmbiguousIs
<1>4. ASSUME NEW x \in Attempts, BeginDurable(x) PROVE Passes /\ process' = process
  <2>1. process' = process /\ \E w \in LedgerClaim(req[x].op, Res(x)) : ledger' = w.rec
    BY <1>4, <1>i, BeginDurableEffect
  <2>2. req[x].op \in Fingerprints /\ Res(x) \in {"reservation", "run"} \X Attempts
    BY <1>i, Types, TokenType
  <2>3. \/ Keeps(ledger')
        \/ /\ req[x].op \notin History(ledger.completed) /\ ledger'.completed = ledger.completed
           /\ Marks(ledger', req[x].op, Res(x), "Prepared")
    BY <1>i, <2>1, <2>2, ClaimIs
  <2> QED
    BY <1>4, <1>k, <2>1, <2>3 DEF Passes
<1>5. ASSUME NEW x \in Attempts, Dispatch(x) PROVE Passes /\ process' = process
  <2>1. process' = process /\ \E w \in LedgerDispatch(req[x].op, Res(x)) : ledger' = w.rec
    BY <1>5, <1>i, DispatchEffect
  <2>2. \/ Keeps(ledger')
        \/ /\ Held /\ ledger.active.fp = req[x].op /\ ledger.active.owner = Res(x)
           /\ ledger'.completed = ledger.completed
           /\ \E st \in {"Dispatched", "Ambiguous"} : Marks(ledger', req[x].op, Res(x), st)
    BY <1>i, <2>1, DispatchIs DEF Keeps
  <2> QED
    BY <1>5, <1>k, <2>1, <2>2 DEF Passes
<1>6. ASSUME NEW x \in Attempts, InsertTransfer(x) PROVE Passes /\ process' = process
  <2>1. process' = process /\ \E w \in LedgerTransfer(req[x].op, Res(x), RunId(x)) : ledger' = w.rec
    BY <1>6, <1>i, InsertTransferEffect
  <2>2. \/ Keeps(ledger')
        \/ /\ Held /\ ledger.active.fp = req[x].op /\ ledger.active.owner = Res(x)
           /\ ledger'.completed = ledger.completed
           /\ Marks(ledger', req[x].op, RunId(x), ledger.active.state)
    BY <1>i, <2>1, TransferIs, TokenType
  <2> QED
    BY <1>6, <1>k, <2>1, <2>2 DEF Passes
<1>7. ASSUME NEW x \in Attempts, SealLedger(x) PROVE Passes /\ process' = process
  <2>1. process' = process /\ \E w \in LedgerComplete(run[x].stage, RunId(x)) : ledger' = w.rec
    BY <1>7, <1>i, SealLedgerEffect
  <2>2. run[x].stage \in Fingerprints
    BY <1>i, Types
  <2> QED
    BY <1>i, <1>k, <1>c, <2>1, <2>2, CompleteIs
<1>8. ASSUME NEW x \in Attempts,
             \/ PrepareStage(x) \/ DispatchStage(x) \/ AcceptStage(x) \/ RevokeStage(x)
             \/ RollbackStage(x)
      PROVE  FALSE
  <2>1. run[x].next = Unknown /\ run[x].phase \notin Rotation
    BY DEF AtFirstStage, Unstaged
  <2> QED
    BY <1>8, <2>1 DEF PrepareStage, DispatchStage, AcceptStage, RevokeStage, RollbackStage, Rotation
<1>9. ASSUME Probe PROVE Passes /\ process' = process
  <2>1. PICK v \in Attempts :
          ledger' = ledger \/ \E w \in LedgerClear(run[v].stage, RunId(v)) : ledger' = w.rec
    BY <1>9, <1>i, ProbeEffect
  <2>2. process' = process
    BY <1>9, <1>i, ProbeEffect
  <2>3. ledger' = ledger => Keeps(ledger')
    BY DEF Keeps
  <2> QED
    BY <1>i, <1>k, <1>c, <2>1, <2>2, <2>3, ClearIs
<1>10. ASSUME NEW w \in writes, Write(w) PROVE Passes /\ process' = process
  <2>1. PICK g : \E r \in IF w.call = "clear" THEN LedgerClear(g, w.owner)
                           ELSE LedgerAmbiguous(g, w.owner) : ledger' = r.rec
    BY <1>10, <1>i, WriteEffect
  <2>2. process' = process
    BY <1>10, <1>i, WriteEffect
  <2>3. CASE w.call = "clear"
    BY <1>i, <1>k, <1>c, <2>1, <2>2, <2>3, ClearIs
  <2>4. CASE w.call # "clear"
    BY <1>i, <1>k, <1>a, <2>1, <2>2, <2>4, AmbiguousIs
  <2> QED
    BY <2>3, <2>4
<1>11. ASSUME Crash PROVE Passes
  BY <1>11, <1>i, <1>k, CrashEffect DEF Keeps
<1> QED
  BY <1>1, <1>2, <1>3, <1>4, <1>5, <1>6, <1>7, <1>8, <1>9, <1>10, <1>11 DEF Loud, Resuming

\* Every other step hands on what is in hand.
LEMMA StepInHand ==
  ASSUME RegistryInv, AtFirstStage, Orderly, Next, ~Crash,
         NEW o \in {"reservation", "run"} \X Attempts, NEW fp, fp = run[o[2]].stage, InHand(o, fp),
         \A a \in Attempts : run[a].phase \in Publishing => o # RunId(a)
  PROVE  InHand(o, fp)' \/ Lets(o, fp)
<1> DEFINE Goal == InHand(o, fp)' \/ Lets(o, fp)
<1>i. Typed /\ \A b \in Attempts : SlotSound(b)
  BY DEF RegistryInv
<1>k. \A a \in Attempts : Reserving(a) => slot = Starting(a)
  BY <1>i DEF SlotSound
<1>p. /\ Orderly /\ ~Crash
      /\ \A a \in Attempts : run[a].phase \in Publishing => o # RunId(a)
      /\ \A v \in Attempts : o = RunId(v) => fp = run[v].stage
      /\ \A x \in Attempts : o = Res(x) /\ req[x].at \in {"prepared", "dispatched"} => fp = req[x].op
      /\ \A x \in Attempts : req[x].at = "superseding" /\ o = RunId(req[x].victim) => fp = run[x].stage
  <2>1. \A v \in Attempts : o = RunId(v) \/ o = Res(v) => fp = run[v].stage
    BY Tokens
  <2>2. \A x \in Attempts :
          /\ req[x].at \in {"prepared", "dispatched"} => run[x].stage = req[x].op
          /\ req[x].at = "superseding" =>
               req[x].victim \in Attempts /\ run[x].stage = run[req[x].victim].stage
    BY <1>i, Types DEF RegistryInv, AttemptSound, AtFirstStage, StandsFor
  <2> QED
    BY <2>1, <2>2
<1>e. /\ \A v \in Attempts : slot = Running(v) => ~(IsCompleted(v) /\ run[v].err = "none")
      /\ Vacant => \A v \in Attempts : slot # Running(v)
  <2>1. \A v \in Attempts : slot = Running(v) => ~(IsCompleted(v) /\ run[v].err = "none")
    BY <1>p DEF RegistryInv, EndsSealed, TowardsSeal, IsCompleted, Orderly, Serving
  <2>2. ASSUME NEW v \in Attempts, slot = Running(v), Vacant PROVE FALSE
    <3>1. slot.kind = "running" /\ slot.by = v
      BY <2>2 DEF Running
    <3> QED
      BY <2>1, <2>2, <3>1 DEF Vacant
  <2> QED
    BY <2>1, <2>2
<1>t. \A x, y \in Attempts : (Res(x) = Res(y) <=> x = y) /\ (RunId(x) = RunId(y) <=> x = y)
  BY Tokens
<1>n. InHand(o, fp)
  OBVIOUS
<1>q. UNCHANGED <<slot, req, writes>> => Goal
  BY <1>n DEF InHand
<1> HIDE DEF Goal
<1>1. ASSUME NEW x \in Attempts, NEW f \in Operations, Claim(x, f) PROVE Goal
  <2>1. OneRequest(x) /\ req[x].at = "idle" /\ writes' = writes /\ Vacant
    BY <1>1, <1>i, ClaimEffect
  <2>2. \A h \in Attempts : slot # Running(h)
    BY <1>e, <2>1
  <2> QED
    BY <1>n, <2>1, <2>2 DEF InHand, OneRequest, Goal
<1>2. ASSUME NEW x \in Attempts, NEW f \in Operations, Refuse(x, f) PROVE Goal
  <2>1. OneRequest(x) /\ req[x].at = "idle" /\ writes' = writes /\ slot' = slot
    BY <1>2, <1>i, RefuseEffect
  <2> QED
    BY <1>n, <2>1 DEF InHand, OneRequest, Goal
<1>3. ASSUME NEW x \in Attempts, NEW f \in Operations, NEW results \in BOOLEAN, Observe(x, f,
             results)
      PROVE Goal
  <2>1. OneRequest(x) /\ req[x].at = "idle" /\ writes' = writes /\ slot' = slot
    BY <1>3, <1>i, ObserveEffect
  <2> QED
    BY <1>n, <2>1 DEF InHand, OneRequest, Goal
<1>4. ASSUME NEW x \in Attempts, NEW results \in BOOLEAN, ClaimReplacement(x, results) PROVE Goal
  <2>1. /\ OneRequest(x) /\ RequestIs(req'[x], "superseding", req[x].op, req[x].victim)
        /\ req[x].at = "waiting" /\ writes' = writes
    BY <1>4, <1>i, ClaimReplacementEffect
  <2>2. slot = Running(req[x].victim)
    BY <1>4, <1>i, ClaimReplacementEffect DEF TakesOver
  <2> QED
    BY <1>n, <2>1, <2>2, SlotKinds DEF InHand, OneRequest, RequestIs, Goal
<1>5. ASSUME NEW x \in Attempts, ClaimVacated(x) PROVE Goal
  <2>1. OneRequest(x) /\ req[x].at = "waiting" /\ writes' = writes /\ Vacant
    BY <1>5, <1>i, ClaimVacatedEffect
  <2>2. \A h \in Attempts : slot # Running(h)
    BY <1>e, <2>1
  <2> QED
    BY <1>n, <2>1, <2>2 DEF InHand, OneRequest, Goal
<1>6. ASSUME NEW x \in Attempts, LoseClaim(x) PROVE Goal
  <2>1. OneRequest(x) /\ req[x].at = "waiting" /\ writes' = writes /\ slot' = slot
    BY <1>6, <1>i, LoseClaimEffect
  <2> QED
    BY <1>n, <2>1 DEF InHand, OneRequest, Goal
<1>7. ASSUME NEW x \in Attempts, FinishReplacement(x) PROVE Goal
  <2>1. OneRequest(x) /\ req[x].at = "superseding" /\ writes' = writes /\ slot' = slot
    BY <1>7, <1>i, FinishReplacementEffect
  <2> QED
    BY <1>7, <1>n, <2>1 DEF InHand, OneRequest, Lets, Goal
<1>8. ASSUME NEW x \in Attempts, AbandonReplacement(x) PROVE Goal
  <2>1. OneRequest(x) /\ req[x].at = "superseding" /\ writes' = writes /\ slot = Starting(x)
    BY <1>8, <1>k, <1>i, AbandonReplacementEffect DEF Reserving
  <2> QED
    BY <1>8, <1>n, <2>1, SlotKinds DEF InHand, OneRequest, Lets, Goal
<1>9. ASSUME NEW x \in Attempts, BeginDurable(x) PROVE Goal
  <2>1. OneRequest(x) /\ req[x].at = "reserved" /\ slot = Starting(x) /\ writes \subseteq writes'
    BY <1>9, <1>k, <1>i, BeginDurableEffect DEF Reserving
  <2> QED
    BY <1>n, <2>1, SlotKinds DEF InHand, OneRequest, Goal
<1>10. ASSUME NEW x \in Attempts, Withdraw(x) PROVE Goal
  <2>1. OneRequest(x) /\ req[x].at = "prepared" /\ slot = Starting(x)
    BY <1>10, <1>k, <1>i, WithdrawEffect DEF Reserving
  <2>2. o = Res(x) => fp = req[x].op
    BY <1>p, <2>1
  <2> DEFINE w == [call |-> "clear", fp |-> req[x].op, owner |-> Res(x), cancels |-> NoAttempt]
  <2>3. writes' = writes \cup {w}
    BY <1>10, <1>i, WithdrawEffect
  <2>4. w.owner = Res(x) /\ w.fp = req[x].op
    OBVIOUS
  <2> HIDE DEF w
  <2> QED
    BY <1>n, <1>t, <2>1, <2>2, <2>3, <2>4, SlotKinds DEF InHand, OneRequest, Goal
<1>11. ASSUME NEW x \in Attempts, Dispatch(x) PROVE Goal
  <2>1. OneRequest(x) /\ req[x].at = "prepared" /\ slot = Starting(x)
    BY <1>11, <1>k, <1>i, DispatchEffect DEF Reserving
  <2>2. o = Res(x) => fp = req[x].op
    BY <1>p, <2>1
  <2> DEFINE w == [call |-> "clear", fp |-> req[x].op, owner |-> Res(x), cancels |-> NoAttempt]
  <2>3. (req'[x].at = "dispatched" /\ writes' = writes) \/ writes' = writes \cup {w}
    BY <1>11, <1>i, DispatchEffect DEF RequestIs
  <2>4. w.owner = Res(x) /\ w.fp = req[x].op
    OBVIOUS
  <2> HIDE DEF w
  <2> QED
    BY <1>n, <1>t, <2>1, <2>2, <2>3, <2>4, SlotKinds DEF InHand, OneRequest, Goal
<1>12. ASSUME NEW x \in Attempts, OpenRejected(x) PROVE Goal
  <2>1. OneRequest(x) /\ req[x].at = "dispatched" /\ slot = Starting(x)
    BY <1>12, <1>k, <1>i, OpenRejectedEffect DEF Reserving
  <2>2. o = Res(x) => fp = req[x].op
    BY <1>p, <2>1
  <2> DEFINE w == [call |-> "clear", fp |-> req[x].op, owner |-> Res(x), cancels |-> NoAttempt]
  <2>3. writes' = writes \cup {w}
    BY <1>12, <1>i, OpenRejectedEffect
  <2>4. w.owner = Res(x) /\ w.fp = req[x].op
    OBVIOUS
  <2> HIDE DEF w
  <2> QED
    BY <1>n, <1>t, <2>1, <2>2, <2>3, <2>4, SlotKinds DEF InHand, OneRequest, Goal
<1>13. ASSUME NEW x \in Attempts, OpenUnknown(x) PROVE Goal
  <2>1. OneRequest(x) /\ req[x].at = "dispatched" /\ slot = Starting(x)
    BY <1>13, <1>k, <1>i, OpenUnknownEffect DEF Reserving
  <2>2. o = Res(x) => fp = req[x].op
    BY <1>p, <2>1
  <2> DEFINE w == [call |-> "ambiguous", fp |-> req[x].op, owner |-> Res(x), cancels |-> NoAttempt]
  <2>3. writes' = writes \cup {w}
    BY <1>13, <1>i, OpenUnknownEffect
  <2>4. w.owner = Res(x) /\ w.fp = req[x].op
    OBVIOUS
  <2> HIDE DEF w
  <2> QED
    BY <1>n, <1>t, <2>1, <2>2, <2>3, <2>4, SlotKinds DEF InHand, OneRequest, Goal
<1>14. ASSUME NEW x \in Attempts, DropReplacement(x) PROVE Goal
  <2>1. OneRequest(x) /\ req[x].at = "superseding" /\ slot = Starting(x)
    BY <1>14, <1>k, <1>i, DropReplacementEffect DEF Reserving
  <2>2. o = RunId(req[x].victim) => fp = run[x].stage
    BY <1>p, <2>1
  <2> DEFINE w == [call |-> "ambiguous", fp |-> run[x].stage, owner |-> RunId(req[x].victim), cancels |-> NoAttempt]
  <2>3. writes' = writes \cup {w}
    BY <1>14, <1>i, DropReplacementEffect
  <2>4. w.owner = RunId(req[x].victim) /\ w.fp = run[x].stage
    OBVIOUS
  <2> HIDE DEF w
  <2> QED
    BY <1>n, <1>t, <2>1, <2>2, <2>3, <2>4, SlotKinds DEF InHand, OneRequest, Goal
<1>15. ASSUME NEW x \in Attempts, OpenSucceeds(x) PROVE Goal
  <2>1. /\ OneRequest(x) /\ req[x].at = "dispatched" /\ req'[x].at = "inserting"
        /\ writes' = writes /\ slot' = slot
    BY <1>15, <1>i, OpenSucceedsEffect DEF RequestIs
  <2> QED
    BY <1>n, <1>t, <2>1 DEF InHand, OneRequest, Goal
<1>16. ASSUME NEW x \in Attempts, InsertTransfer(x) PROVE Goal
  <2>1. OneRequest(x) /\ req[x].at = "inserting" /\ writes \subseteq writes' /\ slot' = slot
    BY <1>16, <1>i, InsertTransferEffect
  <2> QED
    BY <1>16, <1>n, <2>1 DEF InHand, OneRequest, Lets, Goal
<1>17. ASSUME NEW x \in Attempts, InsertPublish(x) PROVE Goal
  <2>1. /\ OneRequest(x) /\ req[x].at = "transferred" /\ slot = Starting(x)
        /\ slot' = Running(x) /\ writes' = writes
    BY <1>17, <1>k, <1>i, InsertPublishEffect DEF Reserving
  <2> QED
    BY <1>n, <1>t, <2>1, SlotKinds DEF InHand, OneRequest, Goal
<1>18. ASSUME NEW x \in Attempts, InsertReseal(x) PROVE Goal
  <2>1. OneRequest(x) /\ req[x].at = "published" /\ writes' = writes /\ slot' = slot
    BY <1>18, <1>i, InsertResealEffect
  <2> QED
    BY <1>n, <2>1 DEF InHand, OneRequest, Goal
<1>19. ASSUME NEW x \in Attempts, GiveUp(x) PROVE Goal
  <2>1. OneRequest(x) /\ req[x].at \in {"orphaned", "serving"} /\ writes' = writes /\ slot' = slot
    BY <1>19, <1>i, GiveUpEffect
  <2> QED
    BY <1>n, <2>1 DEF InHand, OneRequest, Goal
<1>20. ASSUME NEW x \in Attempts, NEW err \in Errors \ {"none"}, DriverFails(x, err) PROVE Goal
  BY <1>20, <1>q, <1>i, DriverFailsEffect
<1>21. ASSUME NEW x \in Attempts, NEW err \in {"other", "ambiguous"}, DriverCancelled(x, err)
       PROVE Goal
  BY <1>21, <1>q, <1>i, DriverCancelledEffect
<1>22. ASSUME NEW x \in Attempts, DriverFinishes(x) PROVE Goal
  BY <1>22, <1>q, <1>i, DriverFinishesEffect
<1>23. ASSUME NEW x \in Attempts, SealLookup(x) PROVE Goal
  BY <1>23, <1>q, <1>i, SealLookupEffect
<1>24. ASSUME NEW x \in Attempts, SealLedger(x) PROVE Goal
  <2>1. writes \subseteq writes' /\ slot' = slot /\ req' = req
    BY <1>24, <1>i, SealLedgerEffect
  <2> QED
    BY <1>n, <2>1 DEF InHand, Goal
<1>25. ASSUME NEW x \in Attempts, SealSlot(x) PROVE Goal
  <2>1. /\ run[x].phase \in Publishing /\ writes' = writes /\ req' = req
        /\ slot' = IF slot = Running(x) THEN Succeeded(x, run[x].stage) ELSE slot
    BY <1>25, <1>i, SealSlotEffect
  <2>2. o # RunId(x)
    BY <1>p, <2>1
  <2> QED
    BY <1>n, <2>1, <2>2, SlotKinds DEF InHand, Goal
<1>26. ASSUME NEW x \in Attempts, Complete(x) PROVE Goal
  BY <1>26, <1>q, <1>i, CompleteEffect
<1>27. ASSUME NEW x \in Attempts, SkipResume(x) PROVE Goal
  BY <1>27, <1>q, <1>i, SkipResumeEffect
<1>28. ASSUME NEW x \in Attempts, PrepareStage(x) PROVE Goal
  BY <1>28, <1>q, <1>i, PrepareStageEffect
<1>29. ASSUME NEW x \in Attempts, DispatchStage(x) PROVE Goal
  BY <1>29, <1>q, <1>i, DispatchStageEffect
<1>30. ASSUME NEW x \in Attempts, AcceptStage(x) PROVE Goal
  BY <1>30, <1>q, <1>i, AcceptStageEffect
<1>31. ASSUME NEW x \in Attempts, AcknowledgeStage(x) PROVE Goal
  BY <1>31, <1>q, <1>i, AcknowledgeStageEffect
<1>32. ASSUME NEW x \in Attempts, RevokeStage(x) PROVE Goal
  BY <1>32, <1>q, <1>i, RevokeStageEffect
<1>33. ASSUME NEW x \in Attempts, RollbackStage(x) PROVE Goal
  BY <1>33, <1>q, <1>i, RollbackStageEffect
<1>34. ASSUME NEW x \in Attempts, DriverVanishes(x) PROVE Goal
  BY <1>34, <1>q, <1>i, DriverVanishesEffect
<1>35. ASSUME NEW x \in Attempts, ConsumerMoves(x) PROVE Goal
  BY <1>35, <1>q, <1>i, ConsumerMovesEffect
<1>36. ASSUME NEW x \in Attempts, NEW g \in Operations, SendResume(x, g) PROVE Goal
  BY <1>36, <1>q, <1>i, SendResumeEffect
<1>37. ASSUME Prune PROVE Goal
  <2>1. \E v \in Attempts : slot = Running(v) /\ IsCompleted(v) /\ run[v].err = "none"
    BY <1>37, <1>i, PruneEffect
  <2> QED
    BY <1>e, <2>1
<1>38. ASSUME Probe PROVE Goal
  <2> DEFINE w(v) == [call |-> "ambiguous",
                     fp |-> run[v].stage, owner |-> RunId(v), cancels |-> NoAttempt]
  <2>1. PICK v \in Attempts :
          /\ slot = Running(v) /\ req' = req
          /\ writes' = writes \cup {w(v)} \/ (slot' = Free /\ writes' = writes)
    BY <1>38, <1>i, ProbeEffect
  <2>2. o = RunId(v) => fp = run[v].stage
    BY <1>p, <2>1
  <2>3. w(v).owner = RunId(v) /\ w(v).fp = run[v].stage
    OBVIOUS
  <2> HIDE DEF w
  <2> QED
    BY <1>38, <1>n, <2>1, <2>2, <2>3, SlotKinds DEF InHand, Lets, Goal
<1>39. ASSUME TakeTerminalError PROVE Goal
  <2> DEFINE w(v) == [call |-> IF run[v].err = "ambiguous" THEN "ambiguous" ELSE "clear",
                     fp |-> run[v].stage, owner |-> RunId(v), cancels |-> NoAttempt]
  <2>1. PICK v \in Attempts : slot = Running(v) /\ req' = req /\ writes' = writes \cup {w(v)}
    BY <1>39, <1>i, TakeTerminalErrorEffect
  <2>2. o = RunId(v) => fp = run[v].stage
    BY <1>p, <2>1
  <2>3. w(v).owner = RunId(v) /\ w(v).fp = run[v].stage
    OBVIOUS
  <2> HIDE DEF w
  <2> QED
    BY <1>n, <2>1, <2>2, <2>3, SlotKinds DEF InHand, Goal
<1>40. ASSUME CancelGeneration PROVE Goal
  <2> DEFINE w(v) == [call |-> "ambiguous",
                     fp |-> run[v].stage, owner |-> RunId(v), cancels |-> v]
  <2>1. PICK v \in Attempts : slot = Running(v) /\ req' = req /\ writes' = writes \cup {w(v)}
    BY <1>40, <1>i, CancelGenerationEffect
  <2>2. o = RunId(v) => fp = run[v].stage
    BY <1>p, <2>1
  <2>3. w(v).owner = RunId(v) /\ w(v).fp = run[v].stage
    OBVIOUS
  <2> HIDE DEF w
  <2> QED
    BY <1>n, <2>1, <2>2, <2>3, SlotKinds DEF InHand, Goal
<1>41. ASSUME Lapse PROVE Goal
  <2>1. slot.kind # "running" /\ writes' = writes /\ req' = req
    BY <1>41, <1>i, LapseEffect
  <2> QED
    BY <1>n, <2>1, SlotKinds DEF InHand, Goal
<1>42. ASSUME LapseError PROVE Goal
  BY <1>42, <1>p DEF LapseError, Orderly
<1>43. ASSUME NEW w \in writes, Write(w) PROVE Goal
  <2>1. writes' = writes \ {w} /\ slot' = slot /\ req' = req
    BY <1>43, <1>i, WriteEffect
  <2> QED
    BY <1>43, <1>n, <2>1 DEF InHand, Lets, Goal
<1>44. ASSUME Crash PROVE Goal
  BY <1>44, <1>p
<1> QED
  BY <1>1, <1>2, <1>3, <1>4, <1>5, <1>6, <1>7, <1>8, <1>9, <1>10, <1>11, <1>12, <1>13, <1>14,
     <1>15, <1>16, <1>17, <1>18, <1>19, <1>20, <1>21, <1>22, <1>23, <1>24, <1>25, <1>26, <1>27,
     <1>28, <1>29, <1>30, <1>31, <1>32, <1>33, <1>34, <1>35, <1>36, <1>37, <1>38, <1>39, <1>40,
     <1>41, <1>42, <1>43, <1>44 DEF Next, Step, Request, Proceed, Driver, Stage, Registry, Goal

\* Without failed writes a call that applies takes effect and answers yes, and
\* any other answers no.
LEMMA SteadyAnswers ==
  ASSUME LedgerEnabled, ~LedgerFaults, NEW applies, NEW results, NEW w \in Answers(applies, results)
  PROVE  \/ applies /\ w.ans = "yes" /\ w.rec \in results
         \/ ~applies /\ w.ans = "no" /\ w.rec = Load
  BY DEF Answers

\* So a marker is gone once it has been cleared,
LEMMA ClearTakes ==
  ASSUME Sound, LedgerEnabled, ~LedgerFaults, Held, NEW w \in LedgerClear(ledger.active.fp, ledger.active.owner)
  PROVE  w.rec.active = NoActive
<1>1. Cleared(Load).active = NoActive
  BY LoadKeeps DEF Cleared, Record
<1>2. \/ w.rec = Cleared(Load)
      \/ ~Owns(Load, ledger.active.fp, ledger.active.owner) /\ w.rec = Load
  BY SteadyAnswers DEF LedgerClear
<1> QED
  BY <1>1, <1>2, LoadKeeps DEF Owns

\* ambiguous or gone once it has been marked,
LEMMA AmbiguousTakes ==
  ASSUME Sound, LedgerEnabled, ~LedgerFaults, Held,
         NEW w \in LedgerAmbiguous(ledger.active.fp, ledger.active.owner)
  PROVE  w.rec.active = NoActive \/ w.rec.active.state = "Ambiguous"
<1>1. \/ Owns(Load, ledger.active.fp, ledger.active.owner) /\ w.rec = MarkedAmbiguous(Load, 0)
      \/ ~Owns(Load, ledger.active.fp, ledger.active.owner) /\ w.rec = Load
  BY SteadyAnswers DEF LedgerAmbiguous
<1>2. CASE Owns(Load, ledger.active.fp, ledger.active.owner)
  <2>1. Load.active \in ActiveOperation
    BY <1>2, LoadKeeps DEF Owns, Record
  <2>2. "Ambiguous" \in ActiveStates
    BY DEF ActiveStates
  <2>3. MarkedAmbiguous(Load, 0).active = [Load.active EXCEPT !.state = "Ambiguous", !.expires = 0 + 1]
    BY LoadKeeps DEF MarkedAmbiguous, Record
  <2>4. [Load.active EXCEPT !.state = "Ambiguous", !.expires = 0 + 1].state = "Ambiguous"
    BY <2>1, <2>2, MarkerMoves
  <2> QED
    BY <1>1, <1>2, <2>3, <2>4
<1> QED
  BY <1>1, <1>2, LoadKeeps DEF Owns

\* of the next owner, with a yes, or gone once it has been handed over,
LEMMA TransferTakes ==
  ASSUME Sound, LedgerEnabled, ~LedgerFaults, NEW f, NEW o,
         NEW n \in {"reservation", "run"} \X Attempts, NEW w \in LedgerTransfer(f, o, n)
  PROVE  \/ w.ans = "yes" /\ w.rec.active # NoActive /\ w.rec.active.owner = n
         \/ w.ans = "no" /\ w.rec = Load /\ ~Owns(Load, f, o)
<1>1. \/ Owns(Load, f, o) /\ w.ans = "yes" /\ w.rec = Transferred(Load, n)
      \/ ~Owns(Load, f, o) /\ w.ans = "no" /\ w.rec = Load
  BY SteadyAnswers DEF LedgerTransfer
<1>2. CASE Owns(Load, f, o)
  <2>1. Load.active \in ActiveOperation
    BY <1>2, LoadKeeps DEF Owns, Record
  <2>2. Transferred(Load, n).active = [Load.active EXCEPT !.owner = n]
    BY LoadKeeps DEF Transferred, Record
  <2>3. /\ [Load.active EXCEPT !.owner = n] # NoActive
        /\ [Load.active EXCEPT !.owner = n].owner = n
    BY <2>1, MarkerPasses
  <2> QED
    BY <1>1, <1>2, <2>2, <2>3
<1> QED
  BY <1>1, <1>2

\* and gone once its operation is complete.
LEMMA CompleteTakes ==
  ASSUME Sound, LedgerEnabled, ~LedgerFaults, NEW o, NEW f \in Fingerprints,
         NEW w \in LedgerComplete(f, o), w.ans = "yes"
  PROVE  w.rec.active = NoActive \/ (f \in History(ledger.completed) /\ w.rec = Load)
<1>1. w.rec \in Completed(Load, f, 0)
  BY SteadyAnswers DEF LedgerComplete
<1>2. CASE f \notin History(Load.completed)
  <2>1. PICK c \in AddCompleted(Load.completed, f, 0) : w.rec = [active |-> NoActive, completed |-> c]
    BY <1>1, <1>2 DEF Completed
  <2> QED
    BY <2>1
<1> QED
  BY <1>1, <1>2, LoadKeeps DEF Completed

\* The marker keeps the operation of its holder.
LEMMA StepMarkerNamed ==
  ASSUME RegistryInv, LedgerInv, AtFirstStage, MarkerNamed, Next, ~Resuming
  PROVE  MarkerNamed'
<1> SUFFICES ASSUME Held'
             PROVE  /\ ledger'.active.fp = run'[ledger'.active.owner[2]].stage
                    /\ ledger'.active.fp \notin History(ledger'.completed)
  BY DEF MarkerNamed, Holder
<1>i. Typed /\ Passes /\ (Held => Holder \in Attempts) /\ \A b \in Attempts : AttemptSound(b) /\ Settles(b)
  BY StepPasses, StepSettles, RecordedFacts DEF RegistryInv, AtFirstStage
<1>c. ledger'.completed = ledger.completed
  BY <1>i DEF Passes, Held
<1>h. Held => run'[Holder].stage = run[Holder].stage
  BY <1>i DEF LedgerInv, MarkerSound, Settles, Unclaimed
<1>1. CASE ledger'.active = ledger.active
  BY <1>c, <1>h, <1>1 DEF MarkerNamed, Held, Holder
<1>2. CASE Held /\ Marks(ledger', ledger.active.fp, ledger.active.owner, "Ambiguous")
  BY <1>c, <1>h, <1>2 DEF MarkerNamed, Marks, Holder
<1>3. ASSUME NEW x \in Attempts, Dispatch(x), Held, ledger.active.fp = req[x].op,
             ledger.active.owner = Res(x), Marks(ledger', req[x].op, Res(x), "Dispatched")
      PROVE  /\ ledger'.active.fp = run'[ledger'.active.owner[2]].stage
             /\ ledger'.active.fp \notin History(ledger'.completed)
  BY <1>c, <1>h, <1>3 DEF MarkerNamed, Marks, Holder
<1>4. ASSUME NEW x \in Attempts, InsertTransfer(x), Held, ledger.active.fp = req[x].op,
             ledger.active.owner = Res(x), Marks(ledger', req[x].op, RunId(x), ledger.active.state)
      PROVE  /\ ledger'.active.fp = run'[ledger'.active.owner[2]].stage
             /\ ledger'.active.fp \notin History(ledger'.completed)
  <2>1. ledger'.active.owner[2] = Holder
    BY <1>4, Tokens DEF Marks, Holder
  <2> QED
    BY <1>c, <1>h, <1>4, <2>1 DEF MarkerNamed, Marks
<1>5. ASSUME NEW x \in Attempts, BeginDurable(x), req[x].op \notin History(ledger.completed),
             Marks(ledger', req[x].op, Res(x), "Prepared")
      PROVE  /\ ledger'.active.fp = run'[ledger'.active.owner[2]].stage
             /\ ledger'.active.fp \notin History(ledger'.completed)
  <2>1. req[x].at = "reserved" /\ run' = run
    BY <1>5, <1>i, BeginDurableEffect
  <2>2. run[x].stage = req[x].op
    BY <1>i, <2>1 DEF AttemptSound
  <2>3. ledger'.active.owner[2] = x
    BY <1>5, Tokens DEF Marks
  <2> QED
    BY <1>c, <1>5, <2>1, <2>2, <2>3 DEF Marks
<1> QED
  BY <1>i, <1>1, <1>2, <1>3, <1>4, <1>5 DEF Passes, Held

\* Who lets go of a marker has settled it: it is gone, ambiguous or passed on.
LEMMA LetsSettle ==
  ASSUME RegistryInv, LedgerInv, AtFirstStage, MarkerNamed, LedgerEnabled, ~LedgerFaults,
         Held, ledger.active.state # "Ambiguous",
         Lets(ledger.active.owner, ledger.active.fp)
  PROVE  ledger'.active # ledger.active
<1>i. /\ Typed /\ Sound /\ Holder \in Attempts /\ ledger.active.fp = run[Holder].stage
      /\ \A w \in writes : WriteSound(w)
  BY RecordedFacts DEF MarkerNamed, RegistryInv
<1>n. ledger.active # NoActive
  BY DEF Held
<1>1. ASSUME NEW x \in Attempts, FinishReplacement(x), ledger.active.owner = RunId(req[x].victim)
      PROVE  ledger'.active # ledger.active
  <2>1. \E w \in LedgerClear(run[req[x].victim].stage, RunId(req[x].victim)) : ledger' = w.rec
    BY <1>1, <1>i, FinishReplacementEffect
  <2>2. run[req[x].victim].stage = ledger.active.fp
    BY <1>1, <1>i, Tokens DEF Holder
  <2> QED
    BY <1>1, <1>i, <1>n, <2>1, <2>2, ClearTakes
<1>2. ASSUME NEW x \in Attempts, AbandonReplacement(x), ledger.active.owner = RunId(req[x].victim)
      PROVE  ledger'.active # ledger.active
  <2>1. \E w \in LedgerAmbiguous(run[req[x].victim].stage, RunId(req[x].victim)) : ledger' = w.rec
    BY <1>2, <1>i, AbandonReplacementEffect
  <2>2. run[req[x].victim].stage = ledger.active.fp
    BY <1>2, <1>i, Tokens DEF Holder
  <2> QED
    BY <1>2, <1>i, <1>n, <2>1, <2>2, AmbiguousTakes
<1>3. ASSUME NEW x \in Attempts, InsertTransfer(x), ledger.active.owner = Res(x)
      PROVE  ledger'.active # ledger.active
  <2>1. /\ req[x].at = "inserting"
        /\ \E w \in LedgerTransfer(req[x].op, Res(x), RunId(x)) : ledger' = w.rec
    BY <1>3, <1>i, InsertTransferEffect
  <2>2. req[x].op = ledger.active.fp
    BY <1>3, <1>i, <2>1, Tokens DEF Holder, AtFirstStage, NamedByRequest
  <2>3. PICK w \in LedgerTransfer(req[x].op, Res(x), RunId(x)) : ledger' = w.rec
    BY <2>1
  <2>4. \/ w.rec.active.owner = RunId(x)
        \/ w.rec = Load /\ ~Owns(Load, req[x].op, Res(x))
    BY <1>i, TransferTakes, TokenType
  <2>5. RunId(x) # Res(x)
    BY Tokens
  <2> QED
    BY <1>3, <1>n, <2>2, <2>3, <2>4, <2>5 DEF Owns
<1>4. ASSUME NEW v \in Attempts, Probe, slot = Running(v), slot' = Free, ledger.active.owner = RunId(v)
      PROVE  ledger'.active # ledger.active
  <2>1. PICK u \in Attempts :
          /\ slot = Running(u)
          /\ \/ slot' = Ambiguous(run[u].stage)
             \/ \E w \in LedgerClear(run[u].stage, RunId(u)) : ledger' = w.rec
    BY <1>4, <1>i, ProbeEffect
  <2>2. u = v
    BY <1>4, <2>1 DEF Running
  <2>3. slot' # Ambiguous(run[u].stage)
    BY <1>4 DEF Free, Ambiguous
  <2>4. run[v].stage = ledger.active.fp
    BY <1>4, <1>i, Tokens DEF Holder
  <2> QED
    BY <1>4, <1>i, <1>n, <2>1, <2>2, <2>3, <2>4, ClearTakes
<1>5. ASSUME NEW w \in writes, Write(w), w.owner = ledger.active.owner, w.fp = ledger.active.fp
      PROVE  ledger'.active # ledger.active
  <2>1. PICK g \in {w.fp} \cup {run[a].stage : a \in Attempts \cap {w.cancels}} :
          \E r \in IF w.call = "clear" THEN LedgerClear(g, w.owner)
                   ELSE LedgerAmbiguous(g, w.owner) : ledger' = r.rec
    BY <1>5, <1>i, WriteEffect
  <2>2. ASSUME NEW a \in Attempts, a = w.cancels PROVE run[a].stage = ledger.active.fp
    <3>1. w.owner = RunId(a)
      BY <1>i, <2>2, LiveRegistryAssumption DEF WriteSound
    <3> QED
      BY <1>5, <1>i, <3>1, Tokens DEF Holder
  <2>3. g = ledger.active.fp
    BY <1>5, <2>1, <2>2
  <2>4. CASE w.call = "clear"
    BY <1>5, <1>i, <1>n, <2>1, <2>3, <2>4, ClearTakes
  <2>5. CASE w.call # "clear"
    BY <1>5, <1>i, <1>n, <2>1, <2>3, <2>5, AmbiguousTakes
  <2> QED
    BY <2>4, <2>5
<1> QED
  BY <1>1, <1>2, <1>3, <1>4, <1>5 DEF Lets

\* Without failed writes, early ends and lapsed errors, the marker stays in
\* somebody's hand until it is settled.
LEMMA StepMarkerInHand ==
  ASSUME RegistryInv, LedgerInv, AtFirstStage, MarkerNamed, MarkerInHand, SealsClear,
         LedgerEnabled, Orderly, Next, ~Resuming, ~Crash
  PROVE  MarkerInHand'
<1> SUFFICES ASSUME Held', ledger'.active.state # "Ambiguous"
             PROVE  InHand(ledger.active.owner, ledger.active.fp)'
  BY DEF MarkerInHand
<1>i. Typed /\ Sound /\ Passes /\ ~LedgerFaults /\ (Held => Holder \in Attempts)
  BY StepPasses, RecordedFacts DEF Orderly
<1>1. CASE ledger'.active = ledger.active
  <2>1. PICK o, f : o = ledger.active.owner /\ f = ledger.active.fp
    OBVIOUS
  <2>2. Held /\ ledger.active.state # "Ambiguous"
    BY <1>1 DEF Held
  <2>3. o \in {"reservation", "run"} \X Attempts
    BY <1>i, <2>1, <2>2, Types DEF Record, ActiveOperation, Held
  <2>4. f = run[o[2]].stage /\ InHand(o, f)
    BY <2>1, <2>2 DEF MarkerNamed, MarkerInHand, Holder
  <2>5. \A a \in Attempts : run[a].phase \in Publishing => o # RunId(a)
    BY <2>1, <2>2 DEF SealsClear
  <2>6. InHand(o, f)' \/ Lets(o, f)
    BY <2>3, <2>4, <2>5, StepInHand
  <2>7. ~Lets(o, f)
    BY <1>1, <1>i, <2>1, <2>2, LetsSettle
  <2> QED
    BY <1>1, <2>1, <2>6, <2>7 DEF InHand
<1>2. CASE Held /\ Marks(ledger', ledger.active.fp, ledger.active.owner, "Ambiguous")
  BY <1>2 DEF Marks
<1>3. ASSUME NEW x \in Attempts, Dispatch(x), Marks(ledger', req[x].op, Res(x), "Dispatched")
      PROVE  InHand(ledger.active.owner, ledger.active.fp)'
  <2> DEFINE w == [call |-> "clear", fp |-> req[x].op, owner |-> Res(x), cancels |-> NoAttempt]
  <2>1. req'[x].at = "dispatched" \/ w \in writes'
    BY <1>3, <1>i, DispatchEffect DEF RequestIs
  <2>2. w.owner = Res(x) /\ w.fp = req[x].op
    OBVIOUS
  <2> HIDE DEF w
  <2> QED
    BY <1>3, <2>1, <2>2 DEF Marks, InHand
<1>4. ASSUME NEW x \in Attempts, InsertTransfer(x), ledger.active.owner = Res(x),
             Marks(ledger', req[x].op, RunId(x), ledger.active.state)
      PROVE  InHand(ledger.active.owner, ledger.active.fp)'
  <2>1. PICK w \in LedgerTransfer(req[x].op, Res(x), RunId(x)) :
          ledger' = w.rec /\ (w.ans = "yes" => req'[x].at = "transferred")
    BY <1>4, <1>i, InsertTransferEffect DEF RequestIs
  <2>2. Load.active # NoActive => Load.active.owner = Res(x)
    BY <1>4, <1>i, LoadKeeps
  <2>3. w.ans = "yes"
    BY <1>4, <1>i, <2>1, <2>2, TransferTakes, TokenType, Tokens DEF Marks
  <2> QED
    BY <1>4, <2>1, <2>3 DEF Marks, InHand
<1>5. ASSUME NEW x \in Attempts, BeginDurable(x), Marks(ledger', req[x].op, Res(x), "Prepared")
      PROVE  InHand(ledger.active.owner, ledger.active.fp)'
  <2> DEFINE w == [call |-> "clear", fp |-> req[x].op, owner |-> Res(x), cancels |-> NoAttempt]
  <2>1. req'[x].at = "prepared" \/ w \in writes'
    BY <1>5, <1>i, BeginDurableEffect DEF RequestIs
  <2>2. w.owner = Res(x) /\ w.fp = req[x].op
    OBVIOUS
  <2> HIDE DEF w
  <2> QED
    BY <1>5, <2>1, <2>2 DEF Marks, InHand
<1> QED
  BY <1>i, <1>1, <1>2, <1>3, <1>4, <1>5 DEF Passes, Held

\* A Run whose completion is in the record does not get its marker back.
LEMMA StepSealsClear ==
  ASSUME RegistryInv, LedgerInv, AtFirstStage, MarkerNamed, SealsClear,
         LedgerEnabled, Orderly, Next, ~Resuming
  PROVE  SealsClear'
<1> SUFFICES ASSUME NEW a \in Attempts, run'[a].phase \in Publishing, Held',
                    ledger'.active.owner = RunId(a)
             PROVE  FALSE
  BY DEF SealsClear
<1>i. Typed /\ Sound /\ Passes /\ ~LedgerFaults /\ AttemptSound(a) /\ Opens(a)
  BY StepPasses, StepMoves, RecordedFacts DEF Orderly, RegistryInv, Moves
<1>1. CASE SealLedger(a)
  <2>1. PICK w \in LedgerComplete(run[a].stage, RunId(a)) : ledger' = w.rec /\ w.ans = "yes"
    BY <1>1, <1>i, SealLedgerEffect DEF RunIs, Publishing
  <2>2. run[a].stage \in Fingerprints
    BY <1>i, Types
  <2>3. run[a].stage \in History(ledger.completed) /\ ledger' = Load
    BY <1>i, <2>1, <2>2, CompleteTakes DEF Held
  <2>4. Held /\ ledger.active.owner = RunId(a)
    BY <1>i, <2>3, LoadKeeps DEF Held
  <2> QED
    BY <2>3, <2>4, Tokens DEF MarkerNamed, Holder
<1>2. CASE run[a].phase \in Publishing
  <2>1. ~(Held /\ ledger.active.owner = RunId(a)) /\ req[a].at \in Published
    BY <1>2, <1>i DEF SealsClear, AttemptSound
  <2>2. ASSUME NEW x \in Attempts, InsertTransfer(x) PROVE x # a
    BY <2>1, <2>2, <1>i, InsertTransferEffect DEF Published
  <2>3. \A x : Res(x) # RunId(a) /\ (RunId(x) = RunId(a) => x = a)
    BY Tokens
  <2> QED
    BY <1>i, <2>1, <2>2, <2>3 DEF Passes, Marks, Held
<1> QED
  BY <1>i, <1>1, <1>2 DEF Opens

\* The part of the invariant about the marker is inductive.
LEMMA MarkerSteps == RegistryInv /\ LedgerInv /\ StageInv /\ MarkerInv /\ [Next]_vars => MarkerInv'
<1>1. ASSUME RegistryInv, LedgerInv, StageInv, MarkerInv, Next, resumes' = 0
      PROVE  (MarkerNamed /\ (LedgerEnabled /\ Orderly /\ process = 0 => MarkerInHand /\ SealsClear))'
  <2>1. resumes = 0 /\ ~Resuming
    BY <1>1, ResumesGrow DEF RegistryInv
  <2>2. AtFirstStage /\ MarkerNamed
    BY <1>1, <2>1 DEF StageInv, MarkerInv
  <2>3. MarkerNamed'
    BY <1>1, <2>1, <2>2, StepMarkerNamed
  <2>4. /\ LedgerEnabled' = LedgerEnabled
        /\ Orderly' <=> Orderly
    BY <1>1 DEF Next, LedgerEnabled, Orderly, LedgerFaults, EarlyFinish, ErrorsLapse
  <2>5. ASSUME process' = 0 PROVE process = 0 /\ ~Crash
    <3>1. Typed /\ process \in Nat
      BY <1>1, Types DEF RegistryInv
    <3>2. Crash => process' = process + 1
      BY <3>1, CrashEffect
    <3>3. process' = process \/ Crash
      BY <1>1, <2>1, <2>2, StepPasses
    <3> QED
      BY <2>5, <3>1, <3>2, <3>3
  <2>6. ASSUME LedgerEnabled, Orderly, process' = 0 PROVE MarkerInHand' /\ SealsClear'
    <3>1. MarkerInHand /\ SealsClear /\ ~Crash
      BY <1>1, <2>1, <2>5, <2>6 DEF MarkerInv
    <3> QED
      BY <1>1, <2>1, <2>2, <2>6, <3>1, StepMarkerInHand, StepSealsClear
  <2> QED
    BY <2>3, <2>4, <2>6
<1>2. ASSUME MarkerInv, UNCHANGED vars PROVE MarkerInv'
  BY <1>2 DEF vars, MarkerInv, MarkerNamed, MarkerInHand, InHand, SealsClear, Held, Holder,
     LedgerEnabled, Orderly, LedgerFaults, EarlyFinish, ErrorsLapse
<1> QED
  BY <1>1, <1>2 DEF MarkerInv

-----------------------------------------------------------------------------
(* The theorems about the guarded operations.                               *)

\* Registry, record and slot together are inductive.
THEOREM RegistryGuards == Spec => []IInv
<1>1. Init => IInv
  BY RegistryStarts, GuardsStart DEF IInv
<1>2. IInv /\ [Next]_vars => IInv'
  BY RegistrySteps, LedgerSteps, StageSteps, SlotSteps, StakeSteps, MarkerSteps DEF IInv
<1> QED
  BY <1>1, <1>2, PTL DEF Spec

\* With a ledger, an operation that reached Cursor and has no known safe
\* outcome is in the durable record, as completed or as a marker that is past
\* "Prepared", whatever steps, failed writes and restarts came between
\* (begin_dispatch, transfer_owner_if, prepare_stage_if_owner).
THEOREM GuardedAreRecorded == Spec => [](LedgerEnabled => \A b \in guarded : Covered(run[b].stage))
<1>1. IInv => (LedgerEnabled => \A b \in guarded : Covered(run[b].stage))
  BY DEF IInv, LedgerInv, Recorded
<1> QED
  BY RegistryGuards, <1>1, PTL

\* An operation that reached Cursor is not sent again before its outcome is
\* known to be safe, its tombstone lapsed or another operation rotated it, and
\* no failure is replayed as a success.
THEOREM OutcomesAreRemembered == Spec => []OutcomeRemembered
<1>1. IInv => NoRepeat
  BY DEF IInv, LedgerInv, Recorded, SlotInv, SlotGuards, NoRepeat, Guarding
<1> QED
  BY RegistryGuards, SuccessesAreTrue, <1>1, PTL DEF OutcomeRemembered

\* With a ledger, and until tool results move a Run to another stage, the slot
\* has no ambiguity tombstone without a marker or a completion of its operation
\* in the record, which outlive it, whatever writes fail (live_start_error_
\* seals_tombstone, finish_replacement_after_cancel, probe_run).
THEOREM TombstonesAreRecorded ==
  Spec => [](LedgerEnabled /\ resumes = 0 /\ slot.kind = "ambiguous" => Covered(slot.fp))
<1>1. IInv => (LedgerEnabled /\ resumes = 0 /\ slot.kind = "ambiguous" => Covered(slot.fp))
  <2> SUFFICES ASSUME IInv, LedgerEnabled, resumes = 0, slot.kind = "ambiguous" PROVE Covered(slot.fp)
    OBVIOUS
  <2>1. slot.fp \in Fingerprints /\ AtStake(slot.fp)
    BY Types, SlotCases DEF AtStake, IInv, RegistryInv
  <2> QED
    BY <2>1 DEF IInv, StakeInv, Kept, Covered
<1> QED
  BY RegistryGuards, <1>1, PTL

\* Registry and ledger describe the same operation (live.rs:3322-3326) until
\* tool results move a Run to another stage, as long as no ledger write fails,
\* no driver ends before its Run is published and every terminal error is asked
\* for in time: a marker that nobody is about to settle belongs to the Run in
\* the slot, and a tombstone in the slot has its marker or completion.
THEOREM RegistryAndLedgerAgree == Spec => [](Orderly /\ resumes = 0 => LedgerFollowsRegistry)
<1>1. IInv => (Orderly /\ resumes = 0 => LedgerFollowsRegistry)
  <2> SUFFICES ASSUME IInv, Orderly, resumes = 0, LedgerEnabled, process = 0, Settled
               PROVE  /\ \/ ledger.active = NoActive
                         \/ ledger.active.state = "Ambiguous"
                         \/ \E a \in Attempts :
                              slot = Running(a) /\ Owns(ledger, run[a].stage, RunId(a))
                      /\ slot.kind = "ambiguous" =>
                           \/ slot.fp \in History(ledger.completed)
                           \/ ledger.active # NoActive /\ ledger.active.fp = slot.fp
    BY DEF LedgerFollowsRegistry
  <2>1. MarkerNamed /\ MarkerInHand /\ StakeInv /\ Typed
    BY DEF IInv, MarkerInv, RegistryInv
  <2>2. ASSUME Held, ledger.active.state # "Ambiguous"
        PROVE  \E a \in Attempts : slot = Running(a) /\ Owns(ledger, run[a].stage, RunId(a))
    <3>1. InHand(ledger.active.owner, ledger.active.fp)
      BY <2>1, <2>2 DEF MarkerInHand
    <3>2. PICK a \in Attempts : slot = Running(a) /\ ledger.active.owner = RunId(a)
      BY <3>1 DEF InHand, Settled
    <3>3. ledger.active.fp = run[a].stage
      BY <2>1, <2>2, <3>2, Tokens DEF MarkerNamed, Holder
    <3> QED
      BY <2>2, <3>2, <3>3 DEF Owns, Held
  <2>3. ASSUME slot.kind = "ambiguous"
        PROVE  \/ slot.fp \in History(ledger.completed)
               \/ ledger.active # NoActive /\ ledger.active.fp = slot.fp
    <3>1. slot.fp \in Fingerprints /\ AtStake(slot.fp)
      BY <2>1, <2>3, Types, SlotCases DEF AtStake
    <3> QED
      BY <2>1, <3>1 DEF StakeInv, Kept, Held
  <2> QED
    BY <2>2, <2>3 DEF Held
<1> QED
  BY RegistryGuards, <1>1, PTL
=============================================================================
