---------------------------- MODULE LiveRegistry ----------------------------
(***************************************************************************)
(* The life of one session slot of the live-run registry                   *)
(* (src/src/providers/cursor/live.rs, LiveRunRegistry) together with the   *)
(* durable operation ledger, the requests that compete for the slot        *)
(* (the start loop of src/src/providers/cursor/mod.rs) and the drivers of  *)
(* the upstream Runs they open.                                            *)
(*                                                                         *)
(* An attempt is one pass of a request through the start loop: it holds    *)
(* at most one reservation and opens at most one Run, so the reservation   *)
(* id and the run id are tokens of the attempt.  One action is one         *)
(* critical section: a hold of the LIVE_RUNS lock, a ledger call, a read   *)
(* of a handle's atomics, or the resumption of an await.  A ledger call    *)
(* made after the lock is released is a pending write of its own.          *)
(*                                                                         *)
(* Left out: the other slots (their calls still prune this one), replay    *)
(* logs, the text of errors (three classes matter) and clocks (a tombstone *)
(* lapses at any time).  Ledger records expire in OperationLedger only.    *)
(***************************************************************************)
EXTENDS Integers, FiniteSets

CONSTANTS
  Attempts,       \* passes of requests through the start loop
  Fingerprints,   \* operation fingerprints, the sentinel 0 among them
  Unknown,        \* the sentinel 0
  NoActive,       \* no active stage in the ledger record
  NoAttempt,      \* no victim, nothing to cancel
  Builds,         \* the settings of a process and the faults it meets
  MaxResumes,     \* bound on tool-result stages
  MaxCrashes      \* bound on process restarts

ASSUME LiveRegistryAssumption ==
  /\ IsFiniteSet(Attempts)
  /\ NoAttempt \notin Attempts
  /\ IsFiniteSet(Fingerprints)
  /\ Unknown \in Fingerprints
  /\ Builds \subseteq SUBSET {"ledger", "faults", "early", "lapse"}
  /\ MaxResumes \in Nat
  /\ MaxCrashes \in Nat

Operations == Fingerprints \ {Unknown}

\* Owner tokens: the reservation id and the run id of an attempt.
Res(a) == <<"reservation", a>>
RunId(a) == <<"run", a>>

INSTANCE LedgerRecord WITH
  Owners <- {"reservation", "run"} \X Attempts,
  UnresolvedRetention <- 1, CompletedRetention <- 1,
  MaxCompleted <- Cardinality(Fingerprints)

ASSUME NoActiveAssumption == NoActive \notin ActiveOperation

VARIABLES
  build,    \* one of Builds, chosen once
  slot,     \* the entry of the session in LiveRunMap
  ledger,   \* the durable record of the session
  process,  \* PROCESS_INSTANCE_ID
  req,      \* attempt -> where its request is, its operation, and the Run it
            \* is taking over
  run,      \* attempt -> the Run it opened: handle and driver
  writes,   \* ledger calls that follow a registry change
  resumes,  \* number of tool-result stages so far
  guarded   \* history: attempts whose operation must not be sent again

vars == <<build, slot, ledger, process, req, run, writes, resumes, guarded>>

LedgerEnabled == "ledger" \in build  \* CCP_CURSOR_OPERATION_LEDGER is set
LedgerFaults == "faults" \in build   \* a ledger write may fail
EarlyFinish == "early" \in build     \* a driver may finish before its Run is published
ErrorsLapse == "lapse" \in build     \* a terminal error may outlive CCP_CURSOR_TERMINAL_TTL_SECS

Errors == {"none", "other", "retry", "ambiguous"}

\* A driver serves tool-result stages until it ends; the end seals a success
\* and then completes.  The request that publishes a Run may seal it again.
Serving == {"live", "prepared", "staged", "accepted", "unsent", "unacked"}
Sealing == {"sealing", "resealing"}
Publishing == {"publishing", "republishing"}
Phases == {"none", "ending", "sealed", "completed", "vanished"}
          \cup Serving \cup Sealing \cup Publishing

RunState == [phase: Phases, stage: Fingerprints, next: Fingerprints,
             err: Errors, cancel: BOOLEAN, orphan: BOOLEAN]

NoRun == [phase |-> "none", stage |-> Unknown, next |-> Unknown,
          err |-> "none", cancel |-> FALSE, orphan |-> FALSE]

Free == [kind |-> "free"]
Starting(a) == [kind |-> "starting", by |-> a]
Running(a) == [kind |-> "running", by |-> a]
Ambiguous(f) == [kind |-> "ambiguous", fp |-> f]
Succeeded(a, f) == [kind |-> "succeeded", by |-> a, fp |-> f]

Slots == {Free} \cup {Starting(a) : a \in Attempts} \cup {Running(a) : a \in Attempts}
         \cup {Ambiguous(f) : f \in Fingerprints}
         \cup {Succeeded(a, f) : a \in Attempts, f \in Fingerprints}

Places == {"idle", "waiting", "superseding", "reserved", "prepared",
           "dispatched", "inserting", "transferred", "published", "serving",
           "orphaned", "done"}

Requests == [at: Places, op: Fingerprints, victim: Attempts \cup {NoAttempt}]
Arriving == [at |-> "idle", op |-> Unknown, victim |-> NoAttempt]
Gone == [at |-> "done", op |-> Unknown, victim |-> NoAttempt]

Writes == [call: {"clear", "ambiguous"}, fp: Fingerprints,
           owner: {"reservation", "run"} \X Attempts,
           cancels: Attempts \cup {NoAttempt}]

TypeOK ==
  /\ build \in Builds
  /\ slot \in Slots
  /\ ledger \in Record
  /\ process \in 0..MaxCrashes
  /\ req \in [Attempts -> Requests]
  /\ run \in [Attempts -> RunState]
  /\ writes \subseteq Writes
  /\ resumes \in 0..MaxResumes
  /\ guarded \subseteq Attempts

Init ==
  /\ build \in Builds
  /\ slot = Free
  /\ ledger = EmptyRecord
  /\ process = 0
  /\ req = [a \in Attempts |-> Arriving]
  /\ run = [a \in Attempts |-> NoRun]
  /\ writes = {}
  /\ resumes = 0
  /\ guarded = {}

-----------------------------------------------------------------------------
(* The handle of a Run.                                                     *)

IsCompleted(a) == run[a].phase \in {"completed", "resealing", "republishing"}

IsCommandClosed(a) == run[a].phase = "vanished"

\* get_run: neither completed, nor cancelled, nor failed.
Visible(a) == ~IsCompleted(a) /\ ~run[a].cancel /\ run[a].err = "none"

IsReplaceable(a) ==
  ~IsCompleted(a) /\ (run[a].orphan \/ run[a].cancel \/ IsCommandClosed(a))

\* store_terminal_error: the first error stays.
Failed(r, err) == IF r.err = "none" THEN [r EXCEPT !.err = err] ELSE r

-----------------------------------------------------------------------------
(* The ledger, as the registry calls it.                                    *)

Load == Normalize(ledger, 0, process)

\* What a call can leave and answer: true, false or an I/O error.  Without a
\* ledger directory every claim is allowed and every transition true.
Answers(applies, results) ==
  IF ~LedgerEnabled THEN {[rec |-> ledger, ans |-> "yes"]}
  ELSE {[rec |-> r, ans |-> IF applies THEN "yes" ELSE "no"] :
          r \in IF applies THEN results ELSE {Load}}
       \cup (IF LedgerFaults /\ applies
             THEN {[rec |-> r, ans |-> "error"] : r \in results \cup {ledger}} ELSE {})

LedgerClaim(f, o) ==
  IF Admission(Load, f) = "Allowed" \/ ~LedgerEnabled
  THEN Answers(TRUE, {Claimed(Load, f, o, 0, process)})
  ELSE {[rec |-> Load, ans |-> "no"]}

LedgerDispatch(f, o) == Answers(Owns(Load, f, o), {Dispatched(Load, 0)})
LedgerTransfer(f, o, next) == Answers(Owns(Load, f, o), {Transferred(Load, next)})
LedgerPrepareStage(o, prev, next) ==
  Answers(CanPrepareStage(Load, o, prev), StagePrepared(Load, o, prev, next, 0, process))
LedgerRollback(o, f, prev) ==
  Answers(Owns(Load, f, o), {StageRolledBack(Load, o, prev, 0, process)})
LedgerComplete(f, o) == Answers(CanComplete(Load, f, o), Completed(Load, f, 0))
LedgerAmbiguous(f, o) == Answers(Owns(Load, f, o), {MarkedAmbiguous(Load, 0)})
LedgerClear(f, o) == Answers(Owns(Load, f, o), {Cleared(Load)})

\* A ledger call that follows a registry change, with the lock released.
Queue(call, f, o, cancels) ==
  writes' = writes \cup {[call |-> call, fp |-> f, owner |-> o, cancels |-> cancels]}

-----------------------------------------------------------------------------
(* The slot.                                                                *)

\* prune_finished drops a Running handle that completed without an error.
Prunable == slot.kind = "running" /\ IsCompleted(slot.by) /\ run[slot.by].err = "none"

Seen == IF Prunable THEN Free ELSE slot

\* ambiguous_blocks_operation.
Blocks(stored, incoming) == Unknown \in {stored, incoming} \/ stored = incoming

\* Mutant of GivesWay: a success does not guard its own operation.
GivesWayToRetry(f) ==
  \/ Seen = Free
  \/ Seen.kind = "ambiguous" /\ ~Blocks(Seen.fp, f)
  \/ Seen.kind = "succeeded"

\* The operation in the slot gives way to operation f.
GivesWay(f) ==
  \/ Seen = Free
  \/ Seen.kind = "ambiguous" /\ ~Blocks(Seen.fp, f)
  \/ Seen.kind = "succeeded" /\ Seen.fp # f

\* A tombstone guards an operation until it lapses or another operation
\* rotates it; the attempts it guarded may then be repeated.
Released(entry) ==
  IF entry.kind \in {"ambiguous", "succeeded"}
  THEN {b \in guarded : run[b].stage # entry.fp} ELSE guarded

\* Claiming the slot for operation f rotates the tombstone of another one only.
Rotated(f) == IF Seen # Free /\ Seen.fp = f THEN guarded ELSE Released(Seen)

-----------------------------------------------------------------------------
(* The request.                                                             *)

\* try_claim_run_for_operation, claim_success_release_for_new_operation and
\* claim_ambiguous_release_for_new_operation: one lock acquisition.
Claim(a, f) ==
  /\ req[a].at = "idle"
  /\ GivesWay(f)
  /\ slot' = Starting(a)
  /\ guarded' = Rotated(f)
  /\ req' = [req EXCEPT ![a] = [at |-> "reserved", op |-> f, victim |-> NoAttempt]]
  /\ run' = [run EXCEPT ![a].stage = f]
  /\ UNCHANGED <<ledger, process, writes, resumes>>

\* A duplicate of the operation in a tombstone: replayed or refused.
Refuse(a, f) ==
  /\ req[a].at = "idle"
  /\ Seen.kind \in {"ambiguous", "succeeded"}
  /\ ~GivesWay(f)
  /\ req' = [req EXCEPT ![a] = Gone]
  /\ UNCHANGED <<slot, ledger, process, run, writes, resumes, guarded>>

\* A waiter decides to take over the Run it observes.  Requests that carry
\* tool results may take over a hidden Run, or one that cannot be resumed.
Observe(a, f, results) ==
  /\ req[a].at = "idle"
  /\ Seen.kind = "running"
  /\ LET v == Seen.by IN
       /\ results \/ IsReplaceable(v)
       /\ Visible(v) => f \notin {run[v].stage, run[v].next}
       /\ req' = [req EXCEPT ![a] = [at |-> "waiting", op |-> f, victim |-> v]]
  /\ UNCHANGED <<slot, ledger, process, run, writes, resumes, guarded>>

\* Mutant of ClaimReplacement: the generation fence is not checked again.
ClaimReplacementUnfenced(a, results) ==
  /\ req[a].at = "waiting"
  /\ LET v == req[a].victim IN
       /\ results \/ IsReplaceable(v)
       /\ slot' = Starting(a)
       /\ run' = [run EXCEPT ![a].stage = run[v].stage, ![v].cancel = TRUE]
       /\ req' = [req EXCEPT ![a].at = "superseding"]
  /\ UNCHANGED <<ledger, process, writes, resumes, guarded>>

\* claim_replacement_for_run: the Run that was observed, and for a fresh
\* request only while it is still replaceable.
ClaimReplacement(a, results) ==
  /\ req[a].at = "waiting"
  /\ LET v == req[a].victim IN
       /\ Seen = Running(v)
       /\ results \/ IsReplaceable(v)
       /\ slot' = Starting(a)
       /\ run' = [run EXCEPT ![a].stage = run[v].stage, ![v].cancel = TRUE]
       /\ req' = [req EXCEPT ![a].at = "superseding"]
  /\ UNCHANGED <<ledger, process, writes, resumes, guarded>>

\* The observed Run has gone: its own success tombstone or a free slot is
\* taken (the guards of the vacated operation go with the tombstone).
ClaimVacated(a) ==
  /\ req[a].at = "waiting"
  /\ \/ Seen = Free
     \/ Seen.kind = "succeeded" /\ Seen.by = req[a].victim
  /\ slot' = Starting(a)
  /\ guarded' = Rotated(req[a].op)
  /\ run' = [run EXCEPT ![a].stage = req[a].op]
  /\ req' = [req EXCEPT ![a] = [@ EXCEPT !.at = "reserved", !.victim = NoAttempt]]
  /\ UNCHANGED <<ledger, process, writes, resumes>>

\* Another claimant won the generation fence: probe again.
LoseClaim(a) ==
  /\ req[a].at = "waiting"
  /\ Seen # Running(req[a].victim)
  /\ req' = [req EXCEPT ![a] = Arriving]
  /\ UNCHANGED <<slot, ledger, process, run, writes, resumes, guarded>>

\* finish_replacement_after_cancel, the old Run has ended definitively: its
\* marker is cleared and the reservation gets its own owner token back.
FinishReplacement(a) ==
  /\ req[a].at = "superseding"
  /\ LET v == req[a].victim IN
       /\ IsCompleted(v)
       /\ run[v].err # "ambiguous"
       /\ \E w \in LedgerClear(run[v].stage, RunId(v)) : ledger' = w.rec
       /\ guarded' = IF run[v].err = "none" /\ run[v].stage = req[a].op
                     THEN guarded ELSE guarded \ {v}
  /\ run' = [run EXCEPT ![a].stage = req[a].op]
  /\ req' = [req EXCEPT ![a] = [@ EXCEPT !.at = "reserved", !.victim = NoAttempt]]
  /\ UNCHANGED <<slot, process, writes, resumes>>

\* Mutant of AbandonReplacement: the wait for the old Run has no timeout.
AbandonReplacementPatient(a) ==
  /\ req[a].at = "superseding"
  /\ LET v == req[a].victim IN
       /\ IsCompleted(v) /\ run[v].err = "ambiguous"
       /\ \E w \in LedgerAmbiguous(run[v].stage, RunId(v)) : ledger' = w.rec
       /\ slot' = Ambiguous(run[v].stage)
  /\ req' = [req EXCEPT ![a] = Gone]
  /\ UNCHANGED <<process, run, writes, resumes, guarded>>

\* finish_replacement_after_cancel, the cancellation timed out, its channel
\* closed, or the old Run ended ambiguously: the old operation is sealed.
AbandonReplacement(a) ==
  /\ req[a].at = "superseding"
  /\ LET v == req[a].victim IN
       /\ ~(IsCompleted(v) /\ run[v].err # "ambiguous")
       /\ \E w \in LedgerAmbiguous(run[v].stage, RunId(v)) : ledger' = w.rec
       /\ slot' = Ambiguous(run[v].stage)
  /\ req' = [req EXCEPT ![a] = Gone]
  /\ UNCHANGED <<process, run, writes, resumes, guarded>>

\* Mutant of Release: the entry stays in the map.
ReleaseKeepsEntry(a) ==
  /\ UNCHANGED slot
  /\ Queue("clear", req[a].op, Res(a), NoAttempt)
  /\ req' = [req EXCEPT ![a] = Gone]

\* release: the slot first, the durable marker after the lock.
Release(a) ==
  /\ slot' = Free
  /\ Queue("clear", req[a].op, Res(a), NoAttempt)
  /\ req' = [req EXCEPT ![a] = Gone]

\* Mutant of Seal: an open of unknown acceptance is released.
SealForgets(a, f, o) ==
  /\ slot' = Free
  /\ Queue("clear", f, o, NoAttempt)
  /\ req' = [req EXCEPT ![a] = Gone]

\* seal_ambiguous, and Drop once the open or the teardown has started.
Seal(a, f, o) ==
  /\ slot' = Ambiguous(f)
  /\ Queue("ambiguous", f, o, NoAttempt)
  /\ req' = [req EXCEPT ![a] = Gone]

\* A claim that took the place of an ambiguous marker, whatever it answered,
\* gives up the operation of that marker.
AfterClaim(rec) ==
  IF Load.active # NoActive /\ rec.active.fp # Load.active.fp
  THEN {b \in guarded : run[b].stage # Load.active.fp} ELSE guarded

\* Mutant of BeginDurable: a refused request goes on without its reservation.
BeginDurableGoesOn(a) ==
  /\ req[a].at = "reserved"
  /\ \E w \in LedgerClaim(req[a].op, Res(a)) :
       /\ ledger' = w.rec
       /\ slot' = IF w.ans = "yes" THEN slot ELSE Free
       /\ req' = [req EXCEPT ![a].at = "prepared"]
       /\ guarded' = AfterClaim(w.rec)
  /\ UNCHANGED <<process, run, writes, resumes>>

\* begin_durable_operation; any refusal releases the reservation.
BeginDurable(a) ==
  /\ req[a].at = "reserved"
  /\ \E w \in LedgerClaim(req[a].op, Res(a)) :
       /\ ledger' = w.rec
       /\ IF w.ans = "yes"
          THEN /\ req' = [req EXCEPT ![a].at = "prepared"]
               /\ UNCHANGED <<slot, writes>>
          ELSE Release(a)
       /\ guarded' = AfterClaim(w.rec)
  /\ UNCHANGED <<process, run, resumes>>

\* Policy admission or the preparation of the open fails, or the request is
\* dropped there: nothing has been dispatched.
Withdraw(a) ==
  /\ req[a].at = "prepared"
  /\ Release(a)
  /\ UNCHANGED <<ledger, process, run, resumes, guarded>>

\* LiveUpstreamOpenGuard::begin_dispatch, then the first byte to Cursor.
Dispatch(a) ==
  /\ req[a].at = "prepared"
  /\ \E w \in LedgerDispatch(req[a].op, Res(a)) :
       /\ ledger' = w.rec
       /\ IF w.ans = "yes"
          THEN /\ req' = [req EXCEPT ![a].at = "dispatched"]
               /\ guarded' = guarded \cup {a}
               /\ UNCHANGED <<slot, writes>>
          ELSE Release(a) /\ UNCHANGED guarded
  /\ UNCHANGED <<process, run, resumes>>

\* The open fails definitively, or its acceptance stays unknown
\* (live_start_error_seals_tombstone; a request dropped during the open).
OpenRejected(a) ==
  /\ req[a].at = "dispatched"
  /\ Release(a)
  /\ guarded' = guarded \ {a}
  /\ UNCHANGED <<ledger, process, run, resumes>>

OpenUnknown(a) ==
  /\ req[a].at = "dispatched"
  /\ Seal(a, req[a].op, Res(a))
  /\ UNCHANGED <<ledger, process, run, resumes, guarded>>

\* The request is dropped while it waits for the old Run to end.
DropReplacement(a) ==
  /\ req[a].at = "superseding"
  /\ Seal(a, run[a].stage, RunId(req[a].victim))
  /\ UNCHANGED <<ledger, process, run, resumes, guarded>>

OpenSucceeds(a) ==
  /\ req[a].at = "dispatched"
  /\ run' = [run EXCEPT ![a] = [NoRun EXCEPT !.phase = "live", !.stage = req[a].op]]
  /\ req' = [req EXCEPT ![a].at = "inserting"]
  /\ UNCHANGED <<slot, ledger, process, writes, resumes, guarded>>

\* insert, up to transfer_owner_if.  A Starting entry is removed only by its
\* own reservation, so the slot check before it always passes.
InsertTransfer(a) ==
  /\ req[a].at = "inserting"
  /\ \E w \in LedgerTransfer(req[a].op, Res(a), RunId(a)) :
       /\ ledger' = w.rec
       /\ IF w.ans = "yes"
          THEN /\ req' = [req EXCEPT ![a].at = "transferred"]
               /\ UNCHANGED <<run, writes>>
          ELSE /\ req' = [req EXCEPT ![a].at = "orphaned"]
               /\ run' = [run EXCEPT ![a] = Failed(@, "ambiguous")]
               /\ Queue("ambiguous", req[a].op, Res(a), NoAttempt)
  /\ UNCHANGED <<slot, process, resumes, guarded>>

InsertPublish(a) ==
  /\ req[a].at = "transferred"
  /\ slot' = Running(a)
  /\ req' = [req EXCEPT ![a].at = "published"]
  /\ UNCHANGED <<ledger, process, run, writes, resumes, guarded>>

\* insert seals a Run that had completed before it was published.
InsertReseal(a) ==
  /\ req[a].at = "published"
  /\ run' = IF run[a].phase = "completed" /\ run[a].err = "none" /\ slot = Running(a)
            THEN [run EXCEPT ![a].phase = "resealing"] ELSE run
  /\ req' = [req EXCEPT ![a].at = "serving"]
  /\ UNCHANGED <<slot, ledger, process, writes, resumes, guarded>>

\* The start loop gives up a Run: one it could not insert, or one whose first
\* event is a retryable error (a probe follows).
GiveUp(a) ==
  /\ \/ req[a].at = "orphaned"
     \/ req[a].at = "serving" /\ run[a].err # "none"
  /\ run' = [run EXCEPT ![a].cancel = TRUE]
  /\ req' = [req EXCEPT ![a] = Gone]
  /\ UNCHANGED <<slot, ledger, process, writes, resumes, guarded>>

-----------------------------------------------------------------------------
(* Registry calls of any request, and time.                                 *)

Prune ==
  /\ Prunable
  /\ slot' = Free
  /\ UNCHANGED <<ledger, process, req, run, writes, resumes, guarded>>

\* Mutant of Probe: a safe outcome frees the slot and leaves the marker.
ProbeLeavesMarker ==
  /\ slot.kind = "running"
  /\ LET v == slot.by IN
       /\ IsCompleted(v) \/ run[v].err = "retry"
       /\ run[v].err \in {"other", "retry"}
       /\ slot' = Free
       /\ run' = IF run[v].err = "retry" THEN run ELSE [run EXCEPT ![v].err = "none"]
  /\ UNCHANGED <<ledger, process, req, writes, resumes, guarded>>

\* probe_run: a terminal outcome is consumed, and a safe one clears the
\* durable marker under the registry lock.  A vanished driver is ambiguous.
Probe ==
  /\ slot.kind = "running"
  /\ LET v == slot.by
         err == IF run[v].err = "none" /\ IsCommandClosed(v) THEN "ambiguous"
                ELSE run[v].err
     IN  /\ IsCompleted(v) \/ IsCommandClosed(v) \/ err = "retry"
         /\ err # "none"
         /\ IF err = "ambiguous"
            THEN /\ slot' = Ambiguous(run[v].stage)
                 /\ Queue("ambiguous", run[v].stage, RunId(v), NoAttempt)
                 /\ UNCHANGED ledger
            ELSE /\ slot' = Free
                 /\ \E w \in LedgerClear(run[v].stage, RunId(v)) : ledger' = w.rec
                 /\ UNCHANGED writes
         /\ run' = IF err = "retry" THEN run ELSE [run EXCEPT ![v].err = "none"]
  /\ UNCHANGED <<process, req, resumes, guarded>>

\* take_terminal_error_for_run: the marker is settled after the lock.
TakeTerminalError ==
  /\ slot.kind = "running"
  /\ LET v == slot.by IN
       /\ IsCompleted(v)
       /\ run[v].err # "none"
       /\ slot' = IF run[v].err = "ambiguous" THEN Ambiguous(run[v].stage) ELSE Free
       /\ Queue(IF run[v].err = "ambiguous" THEN "ambiguous" ELSE "clear",
                run[v].stage, RunId(v), NoAttempt)
       /\ run' = [run EXCEPT ![v].err = "none"]
  /\ UNCHANGED <<ledger, process, req, resumes, guarded>>

\* Mutant of CancelGeneration: the Run is removed and never told.
CancelGenerationQuietly ==
  /\ slot.kind = "running"
  /\ ~IsCompleted(slot.by)
  /\ slot' = Free
  /\ Queue("ambiguous", run[slot.by].stage, RunId(slot.by), NoAttempt)
  /\ guarded' = IF LedgerEnabled THEN guarded ELSE guarded \ {slot.by}
  /\ UNCHANGED <<ledger, process, req, run, resumes>>

\* cancel_run_if_generation: the entry goes first, the marker and the
\* cancellation follow.  Without a ledger nothing guards the operation then.
CancelGeneration ==
  /\ slot.kind = "running"
  /\ ~IsCompleted(slot.by)
  /\ slot' = Free
  /\ Queue("ambiguous", run[slot.by].stage, RunId(slot.by), slot.by)
  /\ guarded' = IF LedgerEnabled THEN guarded ELSE guarded \ {slot.by}
  /\ UNCHANGED <<ledger, process, req, run, resumes>>

\* The ledger call that follows a registry change; its failure is only logged.
\* A cancellation reads the handle's fingerprint between the lock and the call.
Write(w) ==
  /\ writes' = writes \ {w}
  /\ \E f \in {w.fp} \cup {run[a].stage : a \in Attempts \cap {w.cancels}} :
       \E r \in IF w.call = "clear" THEN LedgerClear(f, w.owner)
                ELSE LedgerAmbiguous(f, w.owner) : ledger' = r.rec
  /\ run' = [a \in Attempts |-> IF a = w.cancels THEN [run[a] EXCEPT !.cancel = TRUE]
                                ELSE run[a]]
  /\ UNCHANGED <<slot, process, req, guarded, resumes>>

\* A tombstone reaches its TTL.
Lapse ==
  /\ slot.kind \in {"ambiguous", "succeeded"}
  /\ slot' = Free
  /\ guarded' = Released(slot)
  /\ UNCHANGED <<ledger, process, req, run, writes, resumes>>

\* A terminal error nobody asked for is no longer fresh, so the handle is
\* pruned like a success.
LapseError ==
  /\ ErrorsLapse
  /\ slot.kind = "running"
  /\ IsCompleted(slot.by)
  /\ run[slot.by].err # "none"
  /\ slot' = Free
  /\ guarded' = guarded \ {slot.by}
  /\ UNCHANGED <<ledger, process, req, run, writes, resumes>>

\* The process dies; only the ledger survives.
Crash ==
  /\ process < MaxCrashes
  /\ process' = process + 1
  /\ slot' = Free
  /\ req' = [a \in Attempts |-> IF req[a].at = "idle" THEN Arriving ELSE Gone]
  /\ run' = [a \in Attempts |-> [NoRun EXCEPT !.stage = run[a].stage]]
  /\ writes' = {}
  /\ guarded' = IF LedgerEnabled THEN guarded ELSE {}
  /\ UNCHANGED <<ledger, resumes>>

-----------------------------------------------------------------------------
(* The driver.                                                              *)

\* The Run of a ends with this error or, for "none", with turn_ended.
Ends(a, err) ==
  /\ run' = [run EXCEPT ![a] = [Failed(@, err) EXCEPT !.phase = "ending"]]
  /\ guarded' = IF run'[a].err \in {"other", "retry"} THEN guarded \ {a} ELSE guarded

\* report_terminal_error, or a continuation that could not be persisted.
DriverFails(a, err) ==
  /\ run[a].phase = "live"
  /\ Ends(a, err)
  /\ UNCHANGED <<slot, ledger, process, req, writes, resumes>>

DriverFinishes(a) ==
  /\ run[a].phase = "live"
  /\ EarlyFinish \/ req[a].at \notin {"inserting", "transferred"}
  /\ Ends(a, "none")
  /\ UNCHANGED <<slot, ledger, process, req, writes, resumes>>

\* RunCommand::Cancel, behind a queued ResumeBatch.
DriverCancelled(a, err) ==
  /\ run[a].phase = "live"
  /\ run[a].cancel
  /\ run[a].next = Unknown
  /\ Ends(a, err)
  /\ UNCHANGED <<slot, ledger, process, req, writes, resumes>>

\* The driver task is gone without a terminal transition.
DriverVanishes(a) ==
  /\ run[a].phase = "live"
  /\ run' = [run EXCEPT ![a].phase = "vanished"]
  /\ UNCHANGED <<slot, ledger, process, req, writes, resumes, guarded>>

\* set_run_consumer_gone, and client-only tools that tear the driver down.
ConsumerMoves(a) ==
  /\ run[a].phase = "live"
  /\ slot = Running(a)
  /\ run' = [run EXCEPT ![a].orphan = ~@]
  /\ UNCHANGED <<slot, ledger, process, req, writes, resumes, guarded>>

\* Mutant of SealLookup: completed is published before the seal is tried.
SealLookupSkipped(a) ==
  /\ run[a].phase = "ending"
  /\ run' = [run EXCEPT ![a].phase = "sealed"]
  /\ UNCHANGED <<slot, ledger, process, req, writes, resumes, guarded>>

\* Mutant of SealLookup: a terminal error does not prevent the seal.
SealLookupIgnoresError(a) ==
  /\ run[a].phase = "ending"
  /\ run' = [run EXCEPT ![a].phase = IF slot = Running(a) THEN "sealing" ELSE "sealed"]
  /\ UNCHANGED <<slot, ledger, process, req, writes, resumes, guarded>>

\* seal_success_if at the end of the driver: the lookup, the durable
\* completion, the tombstone; then completed is published.
SealLookup(a) ==
  /\ run[a].phase = "ending"
  /\ run' = [run EXCEPT ![a].phase =
       IF run[a].err = "none" /\ slot = Running(a) THEN "sealing" ELSE "sealed"]
  /\ UNCHANGED <<slot, ledger, process, req, writes, resumes, guarded>>

SealLedger(a) ==
  /\ run[a].phase \in Sealing
  /\ LET driver == run[a].phase = "sealing" IN
       \E w \in LedgerComplete(run[a].stage, RunId(a)) :
         /\ ledger' = w.rec
         /\ IF w.ans = "yes"
            THEN /\ run' = [run EXCEPT ![a].phase =
                             IF driver THEN "publishing" ELSE "republishing"]
                 /\ UNCHANGED writes
            ELSE /\ run' = [run EXCEPT ![a] = [Failed(@, "ambiguous") EXCEPT !.phase =
                             IF driver THEN "sealed" ELSE "completed"]]
                 /\ Queue("ambiguous", run[a].stage, RunId(a), NoAttempt)
  /\ UNCHANGED <<slot, process, req, resumes, guarded>>

SealSlot(a) ==
  /\ run[a].phase \in Publishing
  /\ slot' = IF slot = Running(a) THEN Succeeded(a, run[a].stage) ELSE slot
  /\ run' = [run EXCEPT ![a].phase =
       IF run[a].phase = "publishing" THEN "sealed" ELSE "completed"]
  /\ UNCHANGED <<ledger, process, req, writes, resumes, guarded>>

Complete(a) ==
  /\ run[a].phase = "sealed"
  /\ run' = [run EXCEPT ![a].phase = "completed"]
  /\ UNCHANGED <<slot, ledger, process, req, writes, resumes, guarded>>

-----------------------------------------------------------------------------
(* Tool results: a ResumeBatch command rotates the Run to its next stage.   *)

\* A request delivers the results of stage g to the command channel.  They
\* answer tool calls of this Run, so no other attempt has had the operation;
\* two requests of one operation are not both admitted (ResumeAdmission).
SendResume(a, g) ==
  /\ resumes < MaxResumes
  /\ slot = Running(a)
  /\ run[a].phase = "live"
  /\ Visible(a)
  /\ run[a].next = Unknown
  /\ \A b \in Attempts : g \notin {run[b].stage, req[b].op}
  /\ run' = [run EXCEPT ![a].next = g]
  /\ resumes' = resumes + 1
  /\ UNCHANGED <<slot, ledger, process, req, writes, guarded>>

\* The waiter timed out first (RESUME_DISPATCH_CANCELLED): nothing happened.
SkipResume(a) ==
  /\ run[a].phase = "live"
  /\ run[a].next # Unknown
  /\ run' = [run EXCEPT ![a].next = Unknown]
  /\ UNCHANGED <<slot, ledger, process, req, writes, resumes, guarded>>

\* prepare_stage_if_owner: the record moves on; a changed owner ends the Run,
\* an I/O error refuses the results.
PrepareStage(a) ==
  /\ run[a].phase = "live"
  /\ run[a].next # Unknown
  /\ \E w \in LedgerPrepareStage(RunId(a), run[a].stage, run[a].next) :
       /\ ledger' = w.rec
       /\ \/ /\ w.ans = "yes"
             /\ run' = [run EXCEPT ![a].phase = "prepared"]
             /\ UNCHANGED guarded
          \/ w.ans = "no" /\ Ends(a, "ambiguous")
          \/ /\ w.ans = "error"
             /\ run' = [run EXCEPT ![a].next = Unknown]
             /\ UNCHANGED guarded
  /\ UNCHANGED <<slot, process, req, writes, resumes>>

DispatchStage(a) ==
  /\ run[a].phase = "prepared"
  /\ \E w \in LedgerDispatch(run[a].next, RunId(a)) :
       /\ ledger' = w.rec
       /\ run' = [run EXCEPT ![a].phase = IF w.ans = "yes" THEN "staged" ELSE "unsent"]
  /\ UNCHANGED <<slot, process, req, writes, resumes, guarded>>

\* The handle's fingerprint moves to the next stage, and back when the
\* waiter is no longer there to take the acknowledgement.
AcceptStage(a) ==
  /\ run[a].phase = "staged"
  /\ run' = [run EXCEPT ![a] = [@ EXCEPT !.phase = "accepted",
                                        !.stage = run[a].next, !.next = run[a].stage]]
  /\ UNCHANGED <<slot, ledger, process, req, writes, resumes, guarded>>

AcknowledgeStage(a) ==
  /\ run[a].phase = "accepted"
  /\ run' = [run EXCEPT ![a] = [@ EXCEPT !.phase = "live", !.next = Unknown]]
  /\ UNCHANGED <<slot, ledger, process, req, writes, resumes, guarded>>

RevokeStage(a) ==
  /\ run[a].phase = "accepted"
  /\ run' = [run EXCEPT ![a] = [@ EXCEPT !.phase = "unacked",
                                        !.stage = run[a].next, !.next = run[a].stage]]
  /\ UNCHANGED <<slot, ledger, process, req, writes, resumes, guarded>>

\* rollback_stage_if_owner, after a failed dispatch or a lost acknowledgement.
RollbackStage(a) ==
  /\ run[a].phase \in {"unsent", "unacked"}
  /\ \E w \in LedgerRollback(RunId(a), run[a].next, run[a].stage) :
       /\ ledger' = w.rec
       /\ IF w.ans = "yes"
          THEN /\ run' = [run EXCEPT ![a] = [@ EXCEPT !.phase = "live", !.next = Unknown]]
               /\ UNCHANGED guarded
          ELSE Ends(a, IF run[a].phase = "unsent" THEN "other" ELSE "ambiguous")
  /\ UNCHANGED <<slot, process, req, writes, resumes>>

-----------------------------------------------------------------------------
\* What a request does once it has claimed the slot or waits to claim it.
Proceed(a) ==
  \/ \E results \in BOOLEAN : ClaimReplacement(a, results)
  \/ ClaimVacated(a)
  \/ LoseClaim(a)
  \/ FinishReplacement(a)
  \/ AbandonReplacement(a)
  \/ BeginDurable(a)
  \/ Withdraw(a)
  \/ Dispatch(a)
  \/ OpenRejected(a)
  \/ OpenUnknown(a)
  \/ OpenSucceeds(a)
  \/ InsertTransfer(a)
  \/ InsertPublish(a)
  \/ InsertReseal(a)
  \/ GiveUp(a)

Request(a) ==
  \/ \E f \in Operations :
       \/ Claim(a, f)
       \/ Refuse(a, f)
       \/ \E results \in BOOLEAN : Observe(a, f, results)
  \/ Proceed(a)
  \/ DropReplacement(a)

Stage(a) ==
  \/ SkipResume(a)
  \/ PrepareStage(a)
  \/ DispatchStage(a)
  \/ AcceptStage(a)
  \/ AcknowledgeStage(a)
  \/ RevokeStage(a)
  \/ RollbackStage(a)

Driver(a) ==
  \/ \E err \in Errors \ {"none"} : DriverFails(a, err)
  \/ \E err \in {"other", "ambiguous"} : DriverCancelled(a, err)
  \/ DriverFinishes(a)
  \/ SealLookup(a)
  \/ SealLedger(a)
  \/ SealSlot(a)
  \/ Complete(a)
  \/ Stage(a)

Registry ==
  \/ Prune
  \/ Probe
  \/ TakeTerminalError
  \/ CancelGeneration
  \/ Lapse
  \/ LapseError
  \/ \E w \in writes : Write(w)

Step ==
  \/ \E a \in Attempts :
       \/ Request(a)
       \/ Driver(a)
       \/ DriverVanishes(a)
       \/ ConsumerMoves(a)
       \/ \E g \in Operations : SendResume(a, g)
  \/ Registry
  \/ Crash

Next == Step /\ UNCHANGED build

Spec == Init /\ [][Next]_vars

\* A claimed request keeps running: the open and the wait for a cancelled
\* Run are bounded by timeouts, everything else is straight-line code.
FairSpec == Spec /\ \A a \in Attempts : WF_vars(Proceed(a) /\ UNCHANGED build)

-----------------------------------------------------------------------------
Reserving(a) ==
  req[a].at \in {"superseding", "reserved", "prepared", "dispatched", "inserting", "transferred"}

\* A request between its claim and its publication owns the Starting entry,
\* so two requests never establish an upstream for one session at once
\* (LiveRunReservation, "exclusive claim on a session id").
ReservationExclusive ==
  \A a \in Attempts : Reserving(a) => slot = Starting(a)

\* A driver that nobody has cancelled and that has not failed.
Doomed(a) == run[a].cancel \/ run[a].err # "none" \/ \E w \in writes : w.cancels = a

\* A session never has two healthy upstream Runs, through replacement,
\* cancellation, probing and the publication of a Run.
OneLiveUpstream ==
  \A a, b \in Attempts :
    /\ run[a].phase \in Serving /\ ~Doomed(a)
    /\ run[b].phase \in Serving /\ ~Doomed(b)
    => a = b

\* What a session has under way is one Run, at its reservation and upstream.
OneRunPerSession == ReservationExclusive /\ OneLiveUpstream

\* Without a ledger only the tombstone guards an operation.  It names the stage
\* its Run was at: a Run that goes on to its next stage after a takeover was
\* given up escapes it, and so does one that ended before it was published.
Guarding == LedgerEnabled \/ (~EarlyFinish /\ resumes = 0)

\* An operation that reached Cursor is not sent again before its outcome is
\* known to be safe, its tombstone lapsed, or another operation rotated it.
NoRepeat ==
  Guarding => \A a, b \in guarded : run[a].stage = run[b].stage => a = b

\* A Run that failed is never remembered as a success to be replayed.
FailureNotSealed ==
  slot.kind = "succeeded" => run[slot.by].err = "none"

\* What the registry and the ledger remember of an operation is true of it.
OutcomeRemembered == NoRepeat /\ FailureNotSealed

\* The Run of a ended well and is still Running: Prune may drop it, and with it
\* the only thing that knows its operation is done.
Unsealed(a) == slot = Running(a) /\ run[a].phase = "completed" /\ run[a].err = "none"

\* "Seal before `completed` so prune_finished cannot drop a successful Running
\* handle in the gap" (live.rs:10859-10861): no Run that ended well is left
\* unsealed once insert is over.  It fails where a driver may end while insert
\* publishes its Run, which both then leave to the other.
SuccessSealed ==
  \A a \in Attempts : req[a].at \in {"serving", "done"} => ~Unsealed(a)

\* The Run of a is in the slot and has yet to be sealed by its driver.
Unended == Serving \cup {"vanished", "ending", "sealing", "publishing"}
ToBeSealed(a) == slot = Running(a) /\ run[a].phase \in Unended

\* A Run that is in the slot before its driver is done with it is sealed, unless
\* it fails: whatever happens to the slot, the record and the Run between the
\* driver's lookup, the durable completion, the tombstone and `completed`, and
\* while insert looks at the same Run, the driver leaves no success behind it.
PublishedIsSealed ==
  [][\A a \in Attempts :
       ToBeSealed(a) => ToBeSealed(a)' \/ slot' # Running(a) \/ run'[a].err # "none"]_vars

\* What it comes to: such a Run is never an unsealed success.
NeverUnsealed(a) == [](ToBeSealed(a) => []~Unsealed(a))

\* Nobody is in the middle of a step that relates the slot to the record.
Settled ==
  /\ writes = {}
  /\ \A a \in Attempts :
       /\ req[a].at \in {"idle", "waiting", "serving", "done"}
       /\ \/ run[a].phase \in {"none", "completed", "vanished"}
          \/ run[a].phase = "live" /\ ~run[a].cancel

\* Registry and ledger describe the same operation (live.rs:3322-3326): a
\* Dispatched marker belongs to the Run in the slot, and a slot with an
\* ambiguity tombstone has a marker, or the completion, of its operation.
LedgerFollowsRegistry ==
  LedgerEnabled /\ process = 0 /\ Settled =>
    /\ \/ ledger.active = NoActive
       \/ ledger.active.state = "Ambiguous"
       \/ \E a \in Attempts : slot = Running(a) /\ Owns(ledger, run[a].stage, RunId(a))
    /\ slot.kind = "ambiguous" =>
         \/ slot.fp \in History(ledger.completed)
         \/ ledger.active # NoActive /\ ledger.active.fp = slot.fp

\* Every Starting entry is settled: published, sealed or released.
StartingSettles == slot.kind = "starting" ~> slot.kind # "starting"
=============================================================================
