# Verification of claude-cursor-proxy

TLA+ models of the concurrent core of this proxy, the TLC runs that check them
and the theorems TLAPS proves about them. Paths are relative to the repository
(`src/src/providers/cursor/` is abbreviated to `cursor/`).

## 1. The system

The proxy accepts Anthropic-style requests over HTTP and serves them from one
of several upstreams. Most of its logic is the Cursor provider: a client
conversation is a *session slot* in an in-memory registry, served by at most
one upstream *Run*, which a driver task keeps open across several HTTP requests
(each tool-result request resumes the Run that issued the tool calls). Clients
retry aggressively, so the provider must never send the same operation to
Cursor twice, never replay a failure as a success, and never leave a session
blocked.

| Component | State | Operations | Interacts with | Model |
| --- | --- | --- | --- | --- |
| Operation ledger (`cursor/operation_ledger.rs`) | one record file per session key: active stage with owner token, replay history | claim, mark_dispatched, transfer_owner_if, prepare/rollback_stage, mark_completed, mark_ambiguous, clear | called by registry, reservations and drivers, under `LEDGER_LOCK` | modelled |
| Live-run registry and reservations (`cursor/live.rs`) | `LIVE_RUNS`: session key -> Starting, Running, Ambiguous, Succeeded | claim, replace, insert, release, seal, probe, cancel, prune, Drop | start loop, drivers, ledger | partly |
| Driver of a Run, tool-result stages (`cursor/live.rs`) | packed admission atomic, pending execs, exposed batch | try_begin, release, expire, ResumeBatch, abort | requests, registry, ledger | partly |
| Driver of a Run, frame loop and reconnect (`cursor/live.rs`) | stream, prefetched items, segment, reconnect context | frames, stall watch, ResumeAction, held turn end, Cancel | upstream, conversation store | partly |
| Live start admission and HTTP/2 circuit (`cursor/live.rs`) | five semaphores; epoch, cooldown, half-open lease | acquire, resume, reopen, route, outcome, release | every start, resume and reopen | modelled |
| Conversation store (`cursor/conversation.rs`) | bindings, eviction order, pins, deferred deletes, snapshot files | get_or_create, rotate, reset, save, merge, clear, pin, flush | driver, start loop | modelled |
| Start loop and policy probe gate (`cursor/mod.rs`) | one breaker and one gate per account and model | admit, settle, publish a policy limit; claim loop, failover | registry, account pool | partly |
| Sand inference (`cursor/sand_*.rs`) | one entry per client request id: owner, replay, subscribers | admit, subscribe, publish, finish, abandon; open, empty-end recovery | start loop | partly |
| Cursor auth and account pool (`cursor/auth.rs`) | tokens, cooldowns | refresh, failover, login | start loop | - |
| Cursor tools, requests, responses, wire | request-local | conversion, encoding, transport | driver | - |
| Codex (`codex/`) | websocket pool, continuations | send, resume, pool | upstream | - |
| Kimi, Grok | tokens | translate, refresh | upstream | - |
| Server, registry, retry, config, CLI, monitor, TUI, logging | configuration, counters | routing, display | providers | - |

Hard behaviour: interleavings of requests, drivers and cancellation across
separate holds of the registry lock and ledger calls; writes that fail before or
after the rename; crashes between prepare and dispatch; retries that race a late
answer; streams lost while an answer to them matters; probes that answer late;
permits, leases and owners whose holder is dropped. `PROJECT.json` lists each
hazard at its line with the properties that cover it.

What makes each component correct:

- ledger: one live owner per key; a completion stays in the replay history for
  its retention; bounded directory and history;
- registry: one establishing request and one healthy upstream per session; no
  operation repeated while its outcome is unknown or its success is remembered;
  failures never sealed as successes; every claim settled; registry and ledger
  agree;
- tool results: one batch in flight per Run, whatever races its TTL; each result
  sent once, a refused one never; requests validated against what the driver
  awaits;
- recovery: no second ResumeAction on one that is unproven; no retry after the
  client has seen something; no plain cancellation with results unanswered; every
  episode ends;
- admission and circuit: permits conserved, reserves kept; one half-open test at
  a time, and late evidence moves the breaker in neither direction;
- conversation store: a checkpoint stays with its conversation and, once saved,
  on disk; a live driver keeps its binding; eviction loses
  sight of none;
- policy probe: one probe of a cold key per window, and nobody left at the gate;
- Sand operation: one invocation, every response a gapless beginning of its
  answer, every channel closed.

## 2. Modules

| Module | Models | State and actions |
| --- | --- | --- |
| `LedgerRecord` | one durable record as pure operators | normalization, admission, the compare-and-set mutations, bounded history |
| `OperationLedger` | `operation_ledger.rs` | `record` is the directory; one action per call; `Tick`, `Restart`, disk outcomes; `lease` and `done` are history variables |
| `OperationLease` | what the ledger promises | leases that are taken, lapse and end, and a memory of completions |
| `LiveRegistry` | one session slot, its requests, drivers and record | `slot` is the entry in `LIVE_RUNS`, `req` the requests, `run` handles and drivers, `writes` ledger calls that follow a lock release |
| `ToolResults` | the resume admission, `PendingExecState` and the `ResumeBatch` arm of one Run | `word` and `permits` are the packed atomic and its guards; `req`, `dispatch`, `channel` the requests; `pending`, `exposed`, `driver` the driver and its shared view; `wire` what Cursor was sent |
| `Recovery` | the upstream side of one driver | `stream`, `prefetched`, `link` and `seg` are its locals; `at` the await it stands at; `truth` what Cursor may have taken and the client has seen |
| `H2Circuit` | `ProcessH2Circuit` as pure operators | the circuit before and after each call |
| `LiveStart` | a start from admission to the end of its Run | `free` are the semaphores, `circuit` the circuit, `start` each request and its driver |
| `ConversationStore` | `conversation.rs` | `map`, `order`, `pins`, `pending`, `lock`, `disk`; `caller` is where each request, driver or reset stands |
| `PolicyProbe` | `policy_rate_limit_*` and its callers in `mod.rs` | `breaker`, `gate`, `attempt` (the openings with their leases) |
| `SandOperation` | `sand_operation.rs` and its callers | `registered`, `entry`, `forwarder`, `upstream`, `req` |
| `LiveRegistryInvariant` | - | the inductive invariant of `LiveRegistry`, part by part, and what each kind of step may do to it |
| `*Proofs` | - | TLAPS proofs about `OperationLedger`, `LiveRegistry`, `ToolResults`, `Recovery`, `LiveStart`, `ConversationStore`, `PolicyProbe` and `SandOperation` |
| `MC*` | - | TLC instances: symmetry sets and state constraints |

Two modules are composed of others: `LiveRegistry` takes `LedgerRecord` by
`INSTANCE`, with time frozen, so the composition is exact about ownership and
admission and leaves expiry to `OperationLedger`; `LiveStart` extends `H2Circuit`.
`OperationLedger` implements `OperationLease` (`ImplementsLease`).

### Correspondence of LiveRegistry

An *attempt* is one pass of a request through the start loop
(`cursor/mod.rs:6053`): it makes at most one reservation and opens at most one
Run, so reservation id and run id are `Res(a)` and `RunId(a)`. `req[a].at`
names the await or statement the request stands at: `waiting` (it observed a
Run it may take over), `superseding` (it holds the slot and waits for the old
Run to end), `reserved`, `prepared` (ledger claimed), `dispatched` (bytes may
have reached Cursor), `inserting`, `transferred`, `published` (the three
critical sections of `insert`), `serving`, `orphaned`, `done`. `run[a].phase`
is the driver: `live`, the stage rotation (`prepared`, `staged`, `accepted`,
`unsent`, `unacked`), `ending`, `sealing`/`publishing`/`sealed` (the parts of
`seal_success_if`), `completed`, `vanished`. Error texts fall into the three
classes the code decides on: `ambiguous`, `retry` (same-request retryable) and
`other`.

Not modelled because only tests call them: `cancel_run`, `cancel_running_only`,
`supersede_run`, `claim_replacement_for_occupied_slot`, `reserve_run`,
`release_success_if_new_request`, `conflict_action`. It follows that a Starting
entry is removed by its own reservation only, and the slot checks inside
`insert` always pass; the model relies on that and `ReservationExclusive`
checks it.

### Correspondence of ToolResults

A request (`resume_batch_within_operation`, `cursor/live.rs:923`) passes
`Arrive` (the batch is validated against the shared view and the instant is
read), `Admit` (the exchange on the packed word; a compare-exchange loop is one
step, at the exchange that succeeds), `GetCapacity` (the await on the
generation gate), `SendCommand`, and waits for its acknowledgement; `Timeout`
and `Disconnect` (its future is dropped) may end each wait, and race the driver
for `dispatch`. A permit lives in the request until the command is sent and in
the command afterwards: `DropPermits` is `LiveResumePermit::drop`, called on
every path on which one of them goes.

The driver is at the top of its loop (`Sweep`: cancellation, lifetime, tool
wait), in its select (`HandlesFrames`, `ExposeNative`, `Receive`), or in a part
of the `ResumeBatch` arm (`driver.at`): `started`, `draining` (the queued
frames, aborts among them, are handled after the batch was encoded), `sending`,
`resending` after a reconnect, `settling`. `Leave` is `break 'driver`,
`Continue` is `continue`: both drop the command in hand. `Finish` withdraws the
batch and drops the channel with the commands left in it.

`overwritten`, `sent` and `aborted` are history variables. The ledger calls of
the arm are abstracted to "the stage was recorded or not"; `LiveRegistry` has
them. What happens to the stream between the sends is in `Recovery`.

### Correspondence of Recovery

A step is what the driver (`drive_live_run`, `cursor/live.rs`) does between two
awaits. `at` names the await: `loop` (the select), `draining` and `absorbing` (the
two drains of a `ResumeBatch`), `sending`, `resending`, `sent`, and
`try_live_reconnect` as `recovering` (backoff and permit) and `opening`. A chunk of
the response body stands for the frames decoded from it; `Chunks` keeps what the
driver tells apart. `doubt` is what the driver knows of unanswered sends, `truth`
what is the case; the properties relate the two.

### Correspondence of LiveStart and H2Circuit

`start[s].at` follows a request through `LiveGenerationGate::acquire` (run, start
and total waits), the route, the HTTP/2 probe, the open with its HTTP/1 fallback,
the drive and the reopens. An action is one semaphore operation, one hold of
the circuit's mutex or one answer of the network. `held` are the permits that go
with whatever owns them: `TimeOut` and `Abandon` may come at every await of a
request, and `Leave` gives back what it holds, the half-open lease among it.

### Correspondence of ConversationStore

An action is one hold of `STORE` or one file operation under
`PERSIST_WRITE_LOCK`. A write is three actions: the snapshot under the write lock,
the outcome on disk, and the rollback in memory, between which other callers
change the map. `saved`, `rebound` and `expired` are history variables.

Every call reads its clock when it is entered (`conversation.rs:655`, `755`, `835`,
`889`, `910`, `941`, `991`), before it waits for the locks, so it judges ages by an
instant that others may have left behind. `get_or_create` keeps that instant in
`caller[c].since`, and the sweep and the lookup use it; a call of one action takes
any instant since the caller's last call returned (`Clock`).

### Correspondence of PolicyProbe

An attempt is one opening for one key: the admission loop (`new`, `gate`, `chosen`,
the second look at the breaker being `Confirm`), the open, a stream held behind a
peek that saw nothing decisive, and the publication of a policy result in its
three steps: the breaker, the reset of the gate, the release of the lease.
Dropping a lease is part of every action on whose path its owner goes. `Age` is
the probe window of a lease, `Cool` the breaker's cooldown, `Forget` the pruning
of gates. `proven` and `fresh` are history.

### Correspondence of SandOperation

Requests are numbered as they come, which is sound because they carry the same
client id and differ in nothing else. An entry is named by its owner: what
`prune_expired` forgets stays reachable for its own forwarder. `publish` is four
steps: replay and snapshot under the lock, the send to the owner, the sends to
the others, the retain. Bytes are not counted; an event may evict older ones, or
be too big, at any time.

## 3. Runs

| Run | Question | Bounds |
| --- | --- | --- |
| `ledger` | leases exclusive and backed, history faithful through capacity reclaim, refinement of `OperationLease` | 1 key, 2 owners, 2 operations and the sentinel, 2 ticks, a restart, failing disk; or 2 keys and one record file |
| `live_registry` | agreement of registry and ledger across a crash; every claim is settled | 2 attempts, 2 operations, ledger on; `FairSpec` |
| `live_registry_faults` | one Run per session, outcomes remembered, published Runs sealed | 2 attempts, 1 tool-result stage, with failing ledger writes and early drivers, or with tombstones alone; or 3 attempts, 1 operation |
| `tool_results` | batches go out whole and once; refused results never | 3 requests, 2 execs, 3 segments, 2 time units; failing sends and stages |
| `tool_results_aborts` | requests validated against what is awaited; every admission ends | 2 requests, 3 execs (1 client-only), 2 segments, aborts; `FairSpec` |
| `recovery` | nothing twice, honest ends, every episode ends | 4 chunks, a channel of 2, 3 streams, 2 ResumeActions per episode, 2 batches; `FairSpec` |
| `live_start` | permits conserved, reserves kept, one half-open test, late evidence ignored | 2 bulk and 1 interactive start, pools of 1, 2 reopens, 3 verdicts of the circuit |
| `conversation_store` | pins, saved checkpoints and the eviction order | 2 sessions and room for 1, 2 callers, 1 blob, failing disk; two of: checkpoint, restart; the idle TTL, with one of them for one conversation |
| `policy_probe` | one probe per window, nobody left at the gate | 2 requests with 3 returns, 2 policy results, both routes; `FairSpec` |
| `sand_operation` | one invocation, faithful answers, closed channels | 3 requests, 2 events and the terminal one, channel of 1, 2 subscribers; `FairSpec` |
| `admission_overwritten`, `sand_partial` | findings, section 3.1 | as `tool_results` with aborts; as `sand_operation` |

Why the bounds are enough. Two attempts make a Run and its rival, three a Run, the
request that takes it over and a bystander. Two operations tell "same" from
"different"; a third is the stage a Run rotates to. In `ToolResults`, two requests
race for one batch and a third brings the next one; two native execs make a
batch that is sent or aborted in part; a TTL of one unit in a lifetime of two puts
the expiry before, between and after the other steps. In `Recovery`, three streams
are a first, one that replaces it and one that replaces that, and a queue of two
holds an item behind the one that decides. In `LiveStart`, a pool of one is full
with one start, and three verdicts trip the circuit, settle it and trip it again.
In `ConversationStore`, room for one of two sessions makes every lookup evict. In
`PolicyProbe`, two policy results put one lease in an older epoch, and four
openings per request a rotated probe beside a current one. In `SandOperation`, the
owner, a subscriber from the start and one from the replay share an answer whose
replay overflows. Artificial are `MaxTime`, `MaxProcesses`, `MaxResumes`,
`MaxCrashes`, `MaxChunks`, `MaxStreams`, `MaxBatches`, `MaxIds`, `MaxSaves`,
`MaxRestarts`, `MaxTries`, `MaxResults`, `MaxRequests`, `MaxEvents` and the
constraints of the `MC` modules; the other bounds are limits of the code, made
small. Where a run is large, its constraint splits it along dimensions the
properties do not relate, and the mutants confirm that each property still
reaches its case. Runs may stop (all requests are done), so deadlock is not
checked.

The `Builds` of `LiveRegistry` name what the process is set to and meets:
`ledger` (`CCP_CURSOR_OPERATION_LEDGER`), `faults`, `early`, `lapse`. The `Faults` of
`ToolResults` are the same for one Run; its passing runs split them in two so that
each part is exhaustive.

Fairness, all weak:

- `LiveRegistry`: what a claimed request does next. The code after a claim is
  straight-line, every await in it has a timeout (the open, `cancel_and_wait`), and
  the runtime polls a ready task;
- `ToolResults`: the driver's own steps, each request's own steps (its waits have
  timeouts, which `ServeRequest` contains) and the clock, which ends the Run at its
  absolute lifetime;
- `Recovery`: the steps of a recovery, whose backoff, permit and open are under
  timers;
- `PolicyProbe`: the admission loop (parked no longer than its timer), the
  publication of a result (no await) and the probe windows;
- `SandOperation`: the opening and the driver (both have deadlines) and the
  forwarder, which waits no longer than `OWNER_SEND_TIMEOUT`.

Nothing is assumed of Cursor or of any client: streams may stay silent and
responses unread.

### 3.1 Findings

Each is a run that expects a violation, with the lines quoted in `PROJECT.json`:

- `admission_overwritten`: a batch exposed after an abort stores its deadline
  over the word of a request still admitted; that request's permit then
  releases the admission of another, whose batch expires beneath it;
- `sand_partial`: the client of an owner leaves in mid-answer, the driver returns
  without a word, and `finish` leaves the partial replay as if it were an answer; a
  retry within the retention gets it and a closed channel, which the JSON
  collector turns into an ordinary `end_turn`.

`OneInFlight` and `InFlightWins` are stated "until a deadline is stored over an
admission" (`overwritten`) because of `admission_overwritten`. It happens without
an abort too: a second request with the results of a batch, validated before
the first was sent and admitted after, holds its permit while the next batch is
exposed.

More departures from what a comment says follow from transitions of the models
and have no run of their own. Three of them TLC finds when the property named is
put in a `.cfg`; what is true instead is checked and proved:

- the drain after the results of a batch processes a `turn_ended` when it comes and
  completes the Run with success, while the END error of the same stream is queued
  behind it (`cursor/live.rs:9252` and `10186` against `9086`: "Holding it prevents a
  later, separately chunked END error from being masked by a fabricated successful
  Anthropic end_turn"): `TurnEndHeld` fails in the bounds of `recovery`.
  `SuccessAtEnd` names this drain as its exception, and says that the loop and the
  drain before the results never let a `turn_ended` through;
- a driver that finishes while `insert` publishes its Run is sealed by neither: it
  looks the Run up before it is in the slot, and `insert` reads `completed` before
  the driver stores it; `prune_finished` may then drop the success with its retry
  fingerprint (`10863` against `10859` and `2547`): `SuccessSealed` fails with `early`
  in `Builds`. `PublishedIsSealed` says, with early drivers too, that a Run which is
  in the slot in time is sealed;
- a lookup reads its clock while its binding is within the idle TTL; before it holds
  `STORE`, a later lookup of another session drops the binding (`touch_and_evict`)
  and queues the delete of its file; the first finds nothing in memory and loads the
  file by its own clock, so the lapsed conversation is back
  (`cursor/conversation.rs:655` against `658`: "must not be resurrected from the older
  JSON snapshot below"): `LapsedStaysDead` fails with `MaxTime = 1`, room for two
  and no checkpoint.

The others:

- a ledger error inside `insert` disarms the reservation and leaves its Starting
  entry for ever (`cursor/live.rs:2496`, `2509`, against `2289`): `StartingSettles`
  fails with `faults` in `Builds`;
- cancelling a generation during a stage rotation leaves a Dispatched marker
  (`3059`), and a terminal error nobody asks for is pruned and leaves its marker
  (`3473`): `LedgerFollowsRegistry` fails with `MaxResumes = 1`, or with `lapse`;
- a takeover that gives up while the results of its Run are being accepted seals a
  tombstone of the next stage (`2934`); when the stage is then revoked or rolled
  back, the marker returns to the previous one and nothing in the record stands for
  the tombstone: with three operations and `MaxResumes = 1` the second part of
  `LedgerFollowsRegistry` fails too;
- without a ledger, a takeover that gives up on its Run seals the stage the Run
  was at when it was taken over (`2934`); a Run that still rotates to its next
  stage escapes the tombstone: `NoRepeat` fails without `Guarding`, which asks
  for a ledger, or for no stage and no early end;
- a request that comes after the deadline marks the word expired itself (`466`);
  the driver claims an idle word only, so the wait it meant to end lasts until the
  lifetime of the Run;
- a rolled-back stage keeps its completion in the replay history
  (`cursor/operation_ledger.rs:806`);
- a stream loss that was read ahead of a failed send stays in `prefetched` and is
  consumed on the stream that replaced it (`cursor/live.rs:9257` against `5000`);
- a resumed stream that closes before its first chunk, with text of the earlier
  stream on screen, ends as a success (`10443` against `6617`);
- a reset replaces the binding in memory before the file; an eviction in between
  leaves the poisoned file, which the next lookup loads (`cursor/conversation.rs:950`
  against `938`), and a reset whose write fails returns after a restart (`954`);
- two overlapping saves that both fail restore the value of the first, which was
  never on disk (`1021`).

Further hazards the models do not reach: the wall clock of the ledger may step
back (`cursor/operation_ledger.rs:146`); text deferred during a send is shown after
text of the drain (`cursor/live.rs:10190`); a checkpoint that was on the wire before
the results counts as evidence that they arrived (`10187`); two Runs of one
conversation end out of order and the older save wins (`10812`).

## 4. Proofs

`OperationLedgerProofs` proves, for any keys, owners, fingerprints, retentions,
bounds and disk behaviour: `TypeCorrect`, `LeasesBacked` and `MutualExclusion`.
`LeaseExclusive` is not inductive: two leases of one key may both look live
unless each is tied to the record. `LeaseBacked` is that tie (a lease that has
not lapsed is the record's active stage, and a lapsed one cannot be mistaken
for a later claim of the same owner), it is inductive together with `TypeOK`,
and exclusiveness follows because a record has one active stage.

On these rest, in the same module:

- `HistoryNeverForgets`: `HistoryFaithful`. It is inductive with `TypeOK`, one key
  at a time (`HistoryAt`) plus the bound on the directory. The step that matters is
  `HistoryRecorded`: an entry that a full history drops is an oldest one
  (`AddedDisplaces`), so the entries that stay and the new one are more than
  `MaxCompleted` completions at its time or later, and it was no longer to be
  remembered. `ClaimFiles` counts the directory through `ensure_capacity`.
- `LedgerIsALease`: `ImplementsLease`. `clock`, `lease` and `done` are the abstract
  variables themselves; each call is `Grant`, `Renew`, `Hand`, `Record`, `Drop` or a
  stutter. A renewal needs that whoever owns the loaded record and holds a lease
  holds a live one (`OwnerIsLive`, from `LeaseBacked`), a grant that an admitted
  claim finds neither a live lease nor a memory of its fingerprint
  (`AdmittedIsFree`, from `LeaseBacked` and `HistoryFaithful`).

`LiveRegistryProofs` proves, for any attempts, operations, builds, stages and
restarts, `TypeCorrect`, `OneRunAtATime` (`OneRunPerSession`), `SuccessIsSealed`
(`PublishedIsSealed`), `GuardedAreRecorded`, `OutcomesAreRemembered` (`OutcomeRemembered`),
`TombstonesAreRecorded` and `RegistryAndLedgerAgree` (`LedgerFollowsRegistry`). None
of them is inductive. `IInv`, in `LiveRegistryInvariant`, has six parts:

- `RegistryInv` says what the slot, the requests, the drivers and the pending
  ledger calls know of one another: a reservation has the slot (`SlotSound`), a
  healthy upstream is in the slot or about to be published (`LiveIsPlaced`), a late
  call is of an attempt that has published or ended and its Run is not coming back
  (`WriteSound`), a Run that is taken over was published and has failed if its
  own operation is taken over (`VictimsSound`), and, where no driver ends before
  its publication, a Run that ends well is on its way to the seal (`EndsSealed`).
  `TowardsSeal`, what `EndsSealed` says of one Run, is kept by every step of every
  build once the Run is published (`StepTowardsSeal`). That gives
  `PublishedIsSealed`, and that such a Run is never an unsealed success
  (`SealedForGood`). `SuccessSealed` asks the same of a Run that ended before its
  publication, and fails there (section 3.1).
- `LedgerInv` says that the record covers every guarded operation (`Covered`: in
  the history, or a marker past `Prepared`). `ledger` and `guarded` are related
  through the holder of the marker: nobody else is guarded for its operation
  or for a stage of its Run (`HolderAlone`), the record follows a Run through the
  six phases of a stage (`StageRecorded`), and no late call names the stage about
  to be sent (`StageUntouched`). Most steps are `Quiet` (`StepQuiet`); each of the
  others has a lemma of its own.
- `StageInv` says that until a stage is delivered a Run has the operation of its
  request, and a request that takes it over stands for the same one. The next
  three parts need it.
- `SlotInv` says that without a ledger, while no stage has been delivered, the
  slot is what guards (`SlotCovers`): the entry is the guarded attempt's, of its
  taker, or a tombstone of its operation, and one attempt at most is guarded.
- `StakeInv` says that with a ledger the record has kept every operation the
  registry still answers for (`AtStake`: a request past its dispatch, a Run in the
  slot, a tombstone): as a completion, or as a marker past `Prepared` that no
  pending call is about to clear (`Kept`). A tombstone alone would not do: it is the
  request and the Run that hand their marker to it. This gives
  `TombstonesAreRecorded`, whatever writes fail and whoever ends early.
- `MarkerInv` says that the marker names the operation of its holder, not yet
  complete (`MarkerNamed`), that somebody is to settle it unless it is already
  `Ambiguous` (`MarkerInHand`: a request before its publication, the Run in the slot,
  its taker, or a ledger call under way), and that a Run whose completion is in the
  record has no marker left (`SealsClear`). When nobody is in the middle of a step
  (`Settled`), the Run in the slot is the only one of these, which is the first part
  of `LedgerFollowsRegistry`; `StakeInv` is the second.

`RegistryAndLedgerAgree` is stated under `Orderly` (no failing ledger write, no
early end, no lapsed error) and until a result is delivered. Each of the four is
needed: lifting one, TLC finds a state that violates the first part (a failed write
leaves the marker it was to remove; the others are in section 3.1). `TombstonesAreRecorded` needs only the last.

The module first derives what each of the 44 actions does to one request and one
Run (`...Effect`) and what each ledger call does to the record (`ClearIs`,
`ClaimIs`, ...), because the provers do not handle the nested `EXCEPT`s; every
invariant is then proved from the effects.

`ToolResultsProofs` proves, for any execs, requests, faults, TTL, lifetime and
segment limit:

- `TypeCorrect`: the types, with "in the `ResumeBatch` arm the driver holds a
  command" (`ServesInArm`), which the arm's assignments need;
- `OneAdmission`: `OneInFlight`, from `Admitted` (no permit and a word that is
  not in flight, or exactly one permit and a word that is), which every step
  keeps because `AdmissionSteps` lists what a step can do to the word;
- `ExpiryYields`: `InFlightWins`, from `Admitted` and `ExpiryFinal` (a driver that
  claimed the expiry is on its way out and the word stays expired);
- `RefusalsHold`: `RefusedNotSent`, from `SentIsAccepted` (past the
  acknowledgement the arm works for a request that was told so, and nothing was
  sent for another) and `AnswersFinal` (an answer never changes);
- `ResultsArriveOnce`, `ViewInLockstep` and `AbortedStayOut`: `EachResultOnce`,
  `InLockstep` and `AbortedNotAccepted`, from `Delivery`. An exec is collected or
  awaited, never both, and neither after an abort (`BatchesSound`); while the Run
  goes on, what was sent is in no batch any more and the frames in the arm are
  not yet sent, although aborts may have taken them out of the awaited batch
  (`WireSound`); an acknowledged batch is sent, or is the one in the arm
  (`AcceptedSound`). `Still`, `LoopSteps`, `AcceptSteps`, `ArmMoves`, `SendSteps` and
  `BatchSteps` say what a step of each kind does.

`RecoveryProofs` proves, for any budget of ResumeActions, channel capacity, number
of streams and batches: `TypeCorrect`, `WorkIsDoneOnce` (`NothingTwice`),
`EndsAreHonest` (`HonestEnd`) and `SuccessIsFinal` (`SuccessAtEnd`). The link knows
nothing of what Cursor does; that its bookkeeping is right rests on the fence of
`fence_live_upstream`: the channel holds only what the current stream delivered and
a drain keeps only losses for later (`ProgressIsOwn`), so whatever clears the
probation or the doubt about results is an answer of the stream that was asked.
With that, a ResumeAction without an answer keeps the link on probation
(`ResumeOnProbation`), results without an answer are in doubt (`ResultsInDoubt`),
and what was shown is recorded in the segment (`ShownIsSeen`). `SuccessIsFinal`
needs what the loop and the drains complete a Run at: the loop holds a
`turn_ended` until what follows it is final (`LoopSuccess`); the drain before the
results of a batch runs while those results are awaited (`DrainIsAwaited`), so a
`turn_ended` there fails the Run and never completes it; the drain after them has
no such reason, which is the exception `SuccessAtEnd` names.

`PolicyProbeProofs` proves, for any requests, retries and policy results:

- `TypeCorrect`: the types with the two leases facts of `TypeOK`: a lease has an
  owner that will settle it, a gate in Probing names a lease that exists;
- `OneProbeAtATime`: `OneProbePerWindow`. It is not inductive: what a gate lets
  through depends on older leases and on where a publication stands. `IInv` adds
  that leases are of the gate's epoch or an older one (`EpochsFollowGate`), that
  between the breaker and the reset nothing admitted before counts
  (`PublicationStales`, `LeasesAreFresh`), that a healthy gate rests on output
  (`HealthIsProven`), and that who opens a key without output is the probe the gate
  names or one whose window is over (`OpenersAreProbes`). `StepOfOne` reduces the
  fourteen steps of a single attempt to conditions on that attempt.

`SandOperationProofs` proves `OneInvocationAtATime` for any number of requests and
events and any capacity: an invocation is that of the registered, live entry
(`ActiveIsRegistered`), and a request that is opening has one (`OpeningIsActive`).
`Shaped` is the part of the types that does not count queues.

The second half of the module proves `TypeCorrect` and `AnswersAreFaithful`
(`AnswersFaithful`), from `Sound`, which adds to `IInv` for each operation and response:

- an untruncated replay is all that was published (`Whole`: the events to `made`,
  and the terminal one once the invocation is over, unless the owner's client
  went);
- the event under way is the last one published, its senders are subscribers, and
  those that failed are gone or slow (`EventSound`);
- a subscriber that the event under way has yet to be offered to has heard just
  what came before it (`Pending`, `Earlier`); any other has heard all (`GivenSound`),
  or is in `failed` and about to be let go.

The replay and the snapshot of the senders change under one lock, so `Subscribe`
puts a request on one side or the other: with the replay it has the event and is
not in the snapshot. `Sound` is checked with TLC, then proved per step: each lemma
gives the operation it is about, and `Elsewhere` keeps what is said of the others.

`LiveStartProofs` proves, for any starts and pool sizes, `TypeCorrect`,
`NoLateVerdict`, `PermitsKept` and `OneHalfOpenTest` (`HalfOpenExclusive`). The
inductive invariant of the last adds what the guards of the probes have in common:
no two starts hold the same probe id and an id is never above `next_probe_id`
(`GuardsAreOwn`), a lease exists only while the breaker is open (`LeaseIsOpen`), and
no open was routed in a later epoch than the circuit's (`RoutesAreOld`), so that a
verdict, which ends the epoch, ends every claim to test HTTP/2 with it. `StepOfOne`
gives the conditions under which a step of one start keeps all of it.

`NoLateVerdict` (`BreakerFollowsEvidence`, an action property) rests on two facts
beside that invariant: an open is reported under the epoch it was routed in
(`OpensAreDated`), and a start that has the lease was routed in the current epoch
(`LeasesAreCurrent`), because whatever ends an epoch ends the lease. `Judged` says
what a call of one start may make of the circuit, `Judgements` that each verdict
of the code is of that kind, and `JudgesKeeps` derives the property.

The last part of the module proves `PermitsKept` (`PermitsHold`) from the types.
Conservation alone is not inductive: giving back a recovery permit needs that the
Run holds it, taking a permit that it is not held yet. `Placed` says which permits
a start holds where it stands; `BalancedStep` shows that a step that takes from
the gates what its start gains conserves every permit, and `KeptPermits` derives
the headrooms by counting: total permits next to a start permit are at most
`Limit + InteractiveReserve`, so what is left belongs to resumes.

`ConversationStoreProofs` proves, for any sessions, callers, blobs, capacity, idle TTL
and disk behaviour, `TypeCorrect`, `CheckpointsStayWithTheirRun` (`CheckpointsBelong`),
`SavedStaysOnDisk` (`SavedSurvives`) and `EvictionSound` (`EvictionKeepsPinned`),
with callers whose clock is older than another's. `IInv` adds to these:

- what a caller knows at each point of its write (`Knows`: only a driver holds a
  lease, conditional writes are a driver's, a checkpoint in hand is of the
  caller's own conversation), that no two callers hold the same checkpoint, that a
  pin counts the leases (`PinsCount`) and that the write lock excludes;
- that the order lists the resident sessions, each once (`Lists`), which the
  rotation of pinned sessions keeps because it moves what it pops and the eviction
  removes what it does not move;
- that an id belongs to one session, in the map, in a file and in a snapshot under
  way, and that each of these has a checkpoint of its own id or none
  (`BindingsSound`);
- why a saved checkpoint stays (`ClaimSound`): the file and every snapshot of its
  session carry it or a newer one; no delete that is still owed matches it while
  its binding is not in the map; and the values that rollbacks can bring back
  (`Restorable`: a set closed under "what this write would restore") are none of
  them older. The last part is the reason `SavedSurvives` is not inductive: two
  saves that fail one after the other undo each other's values.

The order is a recursive function of a sequence. Facts about it are proved by
induction over its length: `SetInduction` states induction for a set of naturals,
from the well-foundedness of `<`, and each such lemma gives its own set.

The assumptions are the named ones of the modules (`LedgerAssumption`,
`OperationLedgerAssumption`, `LiveRegistryAssumption`, `NoActiveAssumption`, `ToolResultsAssumption`, `RecoveryAssumption`,
`LiveStartAssumption`, `PolicyProbeAssumption`, `ConversationStoreAssumption`, `NoEntryAssumption`,
`SandOperationAssumption`): sets, bounds and null values outside them, nothing
about behaviour.

Every invariant and every action property of the passing runs is stated by a
theorem, for the builds its statement names. Only model-checked: liveness, which is
out of the prover's reach.

## 5. Plan

Done: ledger and abstract lease, registry, tool results, recovery, admission and
circuit, conversation store, policy probe, Sand operation. Next, most important
first:

1. The late pump that replays an empty turn and the account failover of the start
   loop (`cursor/mod.rs:7719`), composed with `PolicyProbe`.
2. The replay log and the delta coalescer of a Run (`AttachReplay`).
3. Account pool and token refresh against a concurrent login.
4. Codex continuation and websocket pool; the fetch gate.

The two runs of `ToolResults` cannot be one: with bounds that fit both, mutants of
`EachResultOnce` and `AbortedNotAccepted` go unnoticed.

## 6. Not modelled

Wire formats, translation between APIs, text classification of errors, display,
configuration and installation: data conversion or I/O without concurrent
state. Most of the repository's lines are of this kind, and about half of
`cursor/live.rs` and a third of `cursor/mod.rs` are unit tests. Within the modelled
components: the byte sizes of records, replays and blobs (their effects, a full
record, a truncated replay, an evicted blob, are choices), the length of waits,
the wall clock stepping back, corrupt files, the ids of tool calls, and calls
only tests make.
