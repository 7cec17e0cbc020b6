------------------------ MODULE LiveRegistryInvariant ------------------------
(***************************************************************************)
(* The inductive invariant of the live-run registry, and what a step may do *)
(* to it.  LiveRegistryProofs proves that every step keeps it.              *)
(***************************************************************************)
EXTENDS LiveRegistry

-----------------------------------------------------------------------------
(* The inductive invariant: requests, slot and drivers.                     *)

Published == {"published", "serving", "done"}
Unopened == {"idle", "waiting", "superseding", "reserved", "prepared", "dispatched"}

\* Nothing of this attempt can have reached the record or Cursor.
Unclaimed == {"idle", "waiting", "superseding", "reserved"}

\* A tool-result stage is between its record and its acknowledgement.
Rotation == {"prepared", "staged", "accepted", "unsent", "unacked"}

\* A request that waits for a Run, or takes one over, names it.
Typed ==
  /\ TypeOK
  /\ \A a \in Attempts : req[a].at \in {"waiting", "superseding"} => req[a].victim \in Attempts

\* What is known of attempt a alone.
AttemptSound(a) ==
  /\ req[a].at \in Unopened =>
       run[a].phase = "none" /\ run[a].err = "none" /\ run[a].next = Unknown
  /\ req[a].at \in Unopened \cup {"inserting", "transferred"} => ~run[a].cancel
  /\ req[a].at \in Unopened \ {"idle"} => req[a].op # Unknown
  /\ req[a].at \in {"reserved", "prepared", "dispatched"} => run[a].stage = req[a].op
  /\ run[a].phase # "none" => run[a].stage # Unknown
  /\ run[a].phase \in Rotation => run[a].next # Unknown
  /\ run[a].next = run[a].stage => run[a].next = Unknown
  /\ run[a].phase \in Sealing \cup Publishing =>
       run[a].err = "none" /\ req[a].at \in Published

\* How the slot follows the requests and Runs.
SlotSound(a) ==
  /\ Reserving(a) => slot = Starting(a)
  /\ slot = Running(a) =>
       /\ req[a].at \in Published
       /\ run[a].cancel => run[a].err # "none"
  /\ slot.kind = "succeeded" /\ slot.by = a =>
       /\ run[a].err = "none" /\ slot.fp = run[a].stage
       /\ req[a].at \in Published /\ run[a].phase \in {"sealed", "completed"}

\* A healthy upstream is in the slot, or about to be published there.
LiveIsPlaced(a) ==
  run[a].phase \in Serving /\ ~Doomed(a) =>
    slot = Running(a) \/ req[a].at \in {"inserting", "transferred"}

\* A ledger call under way is of an attempt that has opened a Run or ended; a
\* cancellation is of a Run that has left the slot.
WriteSound(w) ==
  /\ req[w.owner[2]].at \in Published \cup {"orphaned"}
  /\ w.cancels # NoAttempt =>
       w.owner = RunId(w.cancels) /\ w.call = "ambiguous" /\ slot # Running(w.cancels)
  /\ w.owner[1] = "run" =>
       /\ req[w.owner[2]].at \in Published
       /\ slot = Running(w.owner[2]) => run[w.owner[2]].phase \notin Serving

\* A takeover is of a Run that was published, and an operation that is still
\* the Run's own is taken over from a Run that failed.
VictimsSound(c) ==
  req[c].at \in {"waiting", "superseding"} =>
    LET v == req[c].victim IN
      /\ req[v].at \in Published
      /\ req[c].op \in {run[v].stage, run[v].next} =>
           \/ run[v].err # "none"
           \/ /\ req[c].at = "waiting"
              /\ ~(slot.kind \in {"running", "succeeded"} /\ slot.by = v)

\* What is about to be published has not ended well, and a Run in the slot that
\* ended well is on its way to its seal.
TowardsSeal(a) ==
  run[a].err = "none" =>
    /\ req[a].at \in {"inserting", "transferred"} =>
         run[a].phase \in Serving \cup {"vanished"}
    /\ slot = Running(a) =>
         run[a].phase \in Serving \cup {"vanished", "ending", "sealing", "publishing"}

\* Where drivers end only after their publication, every Run is on that way.
EndsSealed(a) == ~EarlyFinish => TowardsSeal(a)

RegistryInv ==
  /\ Typed
  /\ \A a \in Attempts : AttemptSound(a)
  /\ \A a \in Attempts : SlotSound(a)
  /\ \A a \in Attempts : LiveIsPlaced(a)
  /\ \A w \in writes : WriteSound(w)
  /\ \A c \in Attempts : VictimsSound(c)
  /\ \A a \in Attempts : EndsSealed(a)

-----------------------------------------------------------------------------
(* The inductive invariant: the durable record and the guarded operations.  *)

Holder == ledger.active.owner[2]
Held == ledger.active # NoActive

\* The record says that f is done, or under way and not to be repeated.
Covered(f) ==
  \/ f \in History(ledger.completed)
  \/ Held /\ ledger.active.fp = f /\ ledger.active.state # "Prepared"

\* A guarded operation was dispatched by an attempt that has not failed.
GuardSound(b) ==
  b \in guarded =>
    /\ req[b].at \notin Unclaimed \cup {"prepared"}
    /\ run[b].err \notin {"other", "retry"}
    /\ run[b].stage # Unknown
    /\ \A w \in writes : w.call = "clear" => w.owner[2] # b

\* The marker is fresh and belongs to an attempt that made a claim.
MarkerSound ==
  Held => /\ ledger.active.expires > 0
          /\ req[Holder].at \notin Unclaimed

\* Nobody else is guarded for the marker, or for a stage of its holder.
HolderAlone ==
  Held => \A b \in guarded :
    b # Holder =>
      /\ run[b].stage \notin {ledger.active.fp, run[Holder].stage}
      /\ run[b].stage # run[Holder].next

\* While a stage of v is about to be sent, the record follows it.
StageRecorded(v) ==
  LET m == ledger.active
      own == Held /\ m.owner = RunId(v)
  IN
  /\ run[v].phase \in {"prepared", "unsent", "staged"} =>
       own /\ m.fp = run[v].next /\ m.state # "Ambiguous"
  /\ run[v].phase = "prepared" => m.state = "Prepared"
  /\ run[v].phase = "staged" => m.state = "Dispatched"
  /\ run[v].phase \in {"prepared", "unsent"} /\ m.state = "Prepared" => m.proc = process
  /\ run[v].phase = "accepted" /\ v \in guarded =>
       own /\ m.fp = run[v].stage /\ m.state # "Prepared"
  /\ run[v].phase \in {"prepared", "unsent", "staged", "unacked"} =>
       run[v].stage \in History(ledger.completed)
  /\ run[v].phase = "accepted" => run[v].next \in History(ledger.completed)

\* No late call on behalf of v names the stage it is about to send.
StageUntouched(v) ==
  run[v].phase \in {"live", "prepared", "staged", "unsent"} /\ run[v].next # Unknown =>
    /\ \A w \in writes : w.owner = RunId(v) => w.fp # run[v].next
    /\ \A c \in Attempts : req[c].at = "superseding" /\ req[c].victim = v =>
         run[c].stage # run[v].next

\* With a ledger, the record covers every guarded operation.
Recorded ==
  /\ \A b \in guarded : Covered(run[b].stage)
  /\ HolderAlone
  /\ \A v \in Attempts : StageRecorded(v)
  /\ \A a, b \in guarded : run[a].stage = run[b].stage => a = b

LedgerInv ==
  /\ \A b \in Attempts : GuardSound(b)
  /\ MarkerSound
  /\ \A v \in Attempts : StageUntouched(v)
  /\ LedgerEnabled => Recorded

-----------------------------------------------------------------------------
(* The inductive invariant: before the first tool result.                   *)

\* No Run is on its way to another stage.
Unstaged == \A a \in Attempts : run[a].next = Unknown /\ run[a].phase \notin Rotation

\* A request that takes over a Run stands for the operation of that Run.
StandsFor(c) == req[c].at = "superseding" => run[c].stage = run[req[c].victim].stage

\* A Run that is about to be published has the operation of its request.
NamedByRequest(a) == req[a].at \in {"inserting", "transferred"} => run[a].stage = req[a].op

AtFirstStage ==
  /\ Unstaged
  /\ \A c \in Attempts : StandsFor(c)
  /\ \A a \in Attempts : NamedByRequest(a)

StageInv == resumes = 0 => AtFirstStage

\* Without a ledger the slot is what guards an operation.
SlotCovers(b) ==
  \/ slot \in {Starting(b), Running(b)}
  \/ \E c \in Attempts :
       slot = Starting(c) /\ req[c].at = "superseding" /\ req[c].victim = b
  \/ slot.kind \in {"ambiguous", "succeeded"} /\ slot.fp = run[b].stage

SlotGuards ==
  /\ \A b \in guarded : SlotCovers(b)
  /\ \A a, b \in guarded : a = b

SlotInv == ~LedgerEnabled /\ ~EarlyFinish /\ resumes = 0 => SlotGuards

-----------------------------------------------------------------------------
(* The inductive invariant: the operations the registry still answers for.  *)

\* The registry has sent f to Cursor and has not settled it: its request, its
\* Run or its tombstone is there.
AtStake(f) ==
  \/ \E a \in Attempts :
       /\ f = run[a].stage
       /\ \/ req[a].at \in {"dispatched", "inserting", "transferred", "superseding"}
          \/ slot = Running(a)
  \/ slot.kind = "ambiguous" /\ f = slot.fp

\* The record has completed f, or has a marker of it that nobody is to clear.
Kept(f) ==
  \/ f \in History(ledger.completed)
  \/ /\ Held /\ ledger.active.fp = f /\ ledger.active.state # "Prepared"
     /\ \A w \in writes : w.call = "clear" => w.owner # ledger.active.owner

StakeInv == LedgerEnabled /\ resumes = 0 => \A f \in Fingerprints : AtStake(f) => Kept(f)

-----------------------------------------------------------------------------
(* The inductive invariant: who is to settle the marker.                    *)

\* No ledger write fails, no driver ends before its Run is published, and
\* every terminal error is asked for in time.
Orderly == ~LedgerFaults /\ ~EarlyFinish /\ ~ErrorsLapse

\* The marker is of the operation of its holder, which is not yet complete.
MarkerNamed ==
  Held => ledger.active.fp = run[Holder].stage /\ ledger.active.fp \notin History(ledger.completed)

\* Somebody is about to settle a marker of operation f owned by o: a request
\* between its claim and its publication, the Run in the slot, a request that
\* takes over the Run, or a ledger call under way.
InHand(o, f) ==
  \/ \E h \in Attempts :
       \/ o = Res(h) /\ req[h].at \in {"prepared", "dispatched", "inserting"}
       \/ o = RunId(h) /\ req[h].at = "transferred"
       \/ o = RunId(h) /\ slot = Running(h)
       \/ o = RunId(req[h].victim) /\ req[h].at = "superseding"
  \/ \E w \in writes : w.owner = o /\ w.fp = f

MarkerInHand ==
  Held /\ ledger.active.state # "Ambiguous" => InHand(ledger.active.owner, ledger.active.fp)

\* A Run whose completion is in the record has no marker any more.
SealsClear ==
  \A a \in Attempts : run[a].phase \in Publishing => ~(Held /\ ledger.active.owner = RunId(a))

MarkerInv ==
  resumes = 0 =>
    /\ MarkerNamed
    /\ LedgerEnabled /\ Orderly /\ process = 0 => MarkerInHand /\ SealsClear

IInv == RegistryInv /\ LedgerInv /\ StageInv /\ SlotInv /\ StakeInv /\ MarkerInv

-----------------------------------------------------------------------------
(* What a step may do.                                                      *)

Answer == [rec: Record, ans: {"yes", "no", "error"}]

\* How a step leaves a request and a Run.
RequestIs(r, p, f, v) == r.at = p /\ r.op = f /\ r.victim = v
RunIs(r, p, f, g, e, c) == r.phase = p /\ r.stage = f /\ r.next = g /\ r.err = e /\ r.cancel = c

\* Only the request, or the Run, of x changes.
OneRequest(x) ==
  /\ req' \in [Attempts -> Requests]
  /\ \A y \in Attempts : y # x => req'[y] = req[y]
OneRun(x) ==
  /\ run' \in [Attempts -> RunState]
  /\ \A y \in Attempts : y # x => run'[y] = run[y]

\* The request of x takes over the Run of v.
TakesOver(x, v) ==
  /\ v = req[x].victim /\ v # x
  /\ slot = Running(v) /\ ~(IsCompleted(v) /\ run[v].err = "none")
  /\ run' \in [Attempts -> RunState]
  /\ RunIs(run'[x], run[x].phase, run[v].stage, run[x].next, run[x].err, run[x].cancel)
  /\ RunIs(run'[v], run[v].phase, run[v].stage, run[v].next, run[v].err, TRUE)
  /\ \A y \in Attempts \ {x, v} : run'[y] = run[y]

\* A claim finds the slot free, prunable or holding a tombstone.
Vacant ==
  /\ slot.kind # "starting"
  /\ slot.kind = "running" => IsCompleted(slot.by) /\ run[slot.by].err = "none"

\* The driver of x ends with err, unless it had failed before.
EndsRun(x, err) ==
  /\ OneRun(x)
  /\ RunIs(run'[x], "ending", run[x].stage, run[x].next,
           IF run[x].err = "none" THEN err ELSE run[x].err, run[x].cancel)
  /\ guarded' = IF run'[x].err \in {"other", "retry"} THEN guarded \ {x} ELSE guarded

\* What a ledger call under way relies on outlasts the step: a request that has
\* published or ended stays so, and its Run does not come back into the slot.
Follows(b) ==
  /\ req[b].at \in Published => req'[b].at \in Published
  /\ req[b].at = "orphaned" => req'[b].at \in Published \cup {"orphaned"}
  /\ slot' = Running(b) =>
       \/ req[b].at \notin Published \cup {"orphaned"}
       \/ slot = Running(b) /\ (run[b].phase \notin Serving => run'[b].phase \notin Serving)

\* What a takeover of Run v relies on, once it is published, outlasts the step: it
\* comes by no operation of a request, keeps its error until a probe takes it out
\* of the slot, and does not come back into the slot.
Outlasts(v) ==
  /\ \A b \in Attempts : req[b].op # Unknown /\ req[b].op \in {run'[v].stage, run'[v].next} =>
       req[b].op \in {run[v].stage, run[v].next}
  /\ run[v].err # "none" =>
       \/ run'[v].err # "none"
       \/ slot.kind # "starting" /\ slot'.kind \notin {"running", "succeeded"}
  /\ slot'.kind \in {"running", "succeeded"} /\ slot'.by = v =>
       slot.kind \in {"running", "succeeded"} /\ slot.by = v

\* The two ways in which a request comes to depend on a Run.
Takes(c) ==
  \/ \E f \in Operations, results \in BOOLEAN : Observe(c, f, results)
  \/ \E results \in BOOLEAN : ClaimReplacement(c, results)

\* The record keeps its history and its marker, but for one that a process
\* which is gone had prepared.
Keeps(r) ==
  /\ r.completed = ledger.completed
  /\ \/ r.active = ledger.active
     \/ /\ r.active = NoActive
        /\ Held => ledger.active.state = "Prepared" /\ ledger.active.proc # process

\* The record holds a fresh marker.
Marks(r, f, o, st) ==
  /\ r.active # NoActive /\ r.active.fp = f /\ r.active.owner = o /\ r.active.state = st
  /\ r.active.expires > 0

\* What the lemmas assume of the record.
Sound == ledger \in Record /\ process \in Nat /\ (Held => ledger.active.expires > 0)

\* A request never goes back behind its claim, or behind its dispatch.
Proceeds(b) ==
  /\ req[b].at \notin Unclaimed => req'[b].at \notin Unclaimed
  /\ req[b].at \notin Unclaimed \cup {"prepared"} => req'[b].at \notin Unclaimed \cup {"prepared"}

\* What a step may do to the record: keep it, take the marker away, or leave a
\* fresh marker of an attempt that has made a claim.
Marking ==
  \/ Keeps(ledger')
  \/ ledger'.active = NoActive
  \/ \E f, st : \E o \in {"reservation", "run"} \X Attempts :
       Marks(ledger', f, o, st) /\ req'[o[2]].at \notin Unclaimed

\* A step that guards no more, moves no guarded Run on, leaves the holder of the
\* marker at its stage, and starts or moves no rotation.
Steady ==
  /\ process' = process /\ guarded' \subseteq guarded
  /\ \A b \in guarded' : run'[b].stage = run[b].stage
  /\ \A b \in Attempts : Held /\ b = Holder =>
       run'[b].stage = run[b].stage /\ run'[b].next \in {run[b].next, Unknown}
  /\ \A b \in Attempts : run'[b].phase \in Rotation =>
       run'[b].phase = run[b].phase /\ run'[b].stage = run[b].stage /\ run'[b].next = run[b].next

\* A step that adds nothing to what the record must cover.
Quiet == Keeps(ledger') /\ Steady

\* The steps that may add something.
Loud ==
  \/ \E x \in Attempts :
       \/ FinishReplacement(x)
       \/ AbandonReplacement(x)
       \/ BeginDurable(x)
       \/ Dispatch(x)
       \/ InsertTransfer(x)
       \/ SealLedger(x)
       \/ PrepareStage(x)
       \/ DispatchStage(x)
       \/ AcceptStage(x)
       \/ RevokeStage(x)
       \/ RollbackStage(x)
       \/ \E g \in Operations : SendResume(x, g)
  \/ Probe
  \/ \E w \in writes : Write(w)
  \/ Crash

\* A step that delivers tool results.
Resuming == \E x \in Attempts, g \in Operations : SendResume(x, g)

\* The operation of a Run is that of its request, once this has its reservation.
Settles(a) ==
  \/ run'[a].stage = run[a].stage
  \/ req[a].at \in {"idle", "waiting", "superseding"} /\ req'[a] # req[a]

\* Nothing but a dispatch guards an operation.
Dispatches == guarded' \subseteq guarded \/ \E y \in Attempts : Dispatch(y)

\* How a request comes to have its open under way, and a Run to its seal.
Opens(a) ==
  /\ req'[a].at \in {"inserting", "transferred"} =>
       /\ req[a].at \in {"dispatched", "inserting", "transferred"}
       /\ req'[a].op = req[a].op
  /\ req'[a].at = "dispatched" => req'[a] = req[a] \/ Dispatch(a)
  /\ run'[a].phase \in Publishing => run[a].phase \in Publishing \/ SealLedger(a)

\* How a request comes to depend on a Run.
Arrives(a) == req'[a].at \in {"waiting", "superseding"} => req'[a] = req[a] \/ Takes(a)

\* How a step moves a request, and a Run to its seal.
Moves(a) == Proceeds(a) /\ Opens(a) /\ Arrives(a)

\* How a Run or a tombstone comes into the slot; and a call that clears the
\* marker is queued only when the slot is freed.
Entries ==
  /\ \/ slot' \in {slot, Free}
     \/ \E x \in Attempts : slot' = Starting(x)
     \/ \E x \in Attempts, f \in Fingerprints : slot' = Succeeded(x, f)
     \/ \E x \in Attempts :
          InsertPublish(x) \/ AbandonReplacement(x) \/ OpenUnknown(x) \/ DropReplacement(x)
     \/ Probe \/ TakeTerminalError
  /\ \A w \in writes' \ writes : w.call = "clear" => slot' = Free

\* How the operations a step answers for come about.
Accounts == Dispatches /\ Entries /\ (resumes' = 0 => resumes = 0)

\* What a step may do to the marker while no Run moves to another stage.
Passes ==
  /\ ledger'.active # NoActive => ledger'.completed = ledger.completed
  /\ \/ ledger'.active \in {ledger.active, NoActive}
     \/ Held /\ Marks(ledger', ledger.active.fp, ledger.active.owner, "Ambiguous")
     \/ \E x \in Attempts :
          \/ /\ Dispatch(x) /\ Held /\ ledger.active.fp = req[x].op /\ ledger.active.owner = Res(x)
             /\ Marks(ledger', req[x].op, Res(x), "Dispatched")
          \/ /\ InsertTransfer(x) /\ Held /\ ledger.active.fp = req[x].op
             /\ ledger.active.owner = Res(x)
             /\ Marks(ledger', req[x].op, RunId(x), ledger.active.state)
          \/ /\ BeginDurable(x) /\ req[x].op \notin History(ledger.completed)
             /\ Marks(ledger', req[x].op, Res(x), "Prepared")

\* The steps that let go of a marker: each settles it in the record.
Lets(o, f) ==
  \/ \E x \in Attempts :
       \/ (FinishReplacement(x) \/ AbandonReplacement(x)) /\ o = RunId(req[x].victim)
       \/ InsertTransfer(x) /\ o = Res(x)
  \/ \E v \in Attempts : Probe /\ slot = Running(v) /\ slot' = Free /\ o = RunId(v)
  \/ \E w \in writes : Write(w) /\ w.owner = o /\ w.fp = f
=============================================================================
