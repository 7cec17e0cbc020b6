---------------------------- MODULE ToolResults ----------------------------
(***************************************************************************)
(* How the tool results of one live Run reach its driver                   *)
(* (src/src/providers/cursor/live.rs): the driver exposes a batch of       *)
(* execs, requests bring the results of that batch, the resume admission   *)
(* word lets one of them through, and the driver validates it again,       *)
(* stages it and puts it on the wire, while Cursor may abort an exec, the  *)
(* wait may expire, and either side may go away.                           *)
(*                                                                         *)
(* A compare-exchange loop on the admission word is one step, at the       *)
(* exchange that succeeds; what a request read before it is a step of its  *)
(* own.  An arm of the driver's select is cut where it awaits.  Time is a  *)
(* clock of TTL units; the driver wakes at least once per unit (the 250ms  *)
(* arm) unless it is inside the ResumeBatch arm.                           *)
(*                                                                         *)
(* Left out: payloads, ids that collide, heartbeats, the replay log, and   *)
(* the capacity of the generation gate (a request may wait for it for any  *)
(* time).  A stage that fails to be recorded is one of Faults.             *)
(***************************************************************************)
EXTENDS Integers, FiniteSets, Sequences

CONSTANTS
  Execs,        \* tool executions Cursor asks for, each at most once
  ClientOnly,   \* those the client runs without Cursor waiting for them
  Requests,     \* HTTP requests that bring tool results
  Nobody,       \* the driver is in no ResumeBatch arm
  Never,        \* no instant
  TTL,          \* tool_ttl
  Lifetime,     \* the absolute deadline of the Run
  MaxSegments,  \* max_segments
  Faults        \* what may go wrong: "abort", "drop", "cancel", "send",
                \* "stage", "end"

ASSUME ToolResultsAssumption ==
  /\ IsFiniteSet(Execs) /\ ClientOnly \subseteq Execs
  /\ Nobody \notin Requests
  /\ {TTL, Lifetime, MaxSegments} \subseteq Nat \ {0}
  /\ Never \notin Nat
  /\ Faults \subseteq {"abort", "drop", "cancel", "send", "stage", "end"}

VARIABLES
  clock,    \* Instant::now
  word,     \* ResumeAdmission.packed
  pending,  \* PendingExecState of the driver
  exposed,  \* pending_shared: the batch the client owes
  req,      \* request -> where it is
  permits,  \* requests whose LiveResumePermit is alive
  dispatch, \* request -> its RESUME_DISPATCH state
  channel,  \* commands the driver has not received
  driver,   \* where drive_live_run is
  cancel,   \* cancel_requested
  wire,     \* exec -> how many results for it Cursor was sent
  overwritten, \* history: a deadline was stored over an in-flight word
  sent,     \* history: request -> execs its results were sent for
  aborted   \* history: execs Cursor has cancelled

vars == <<clock, word, pending, exposed, req, permits, dispatch, channel,
          driver, cancel, wire, overwritten, sent, aborted>>

Instants == 0..(Lifetime + TTL)

Word == [deadline: Instants \cup {Never}, state: {"idle", "in_flight", "expired"}]

PendingState == [collecting: SUBSET Execs, awaiting: SUBSET Execs,
                 seen: SUBSET Execs, since: Instants \cup {Never},
                 armed: BOOLEAN]

Answers == {"none", "ok", "invalid", "busy", "expired", "closed", "capacity",
            "retry", "limit", "stage", "gone"}

RequestState ==
  [at: {"away", "checked", "admitted", "dispatch", "waiting", "answered"},
   batch: SUBSET Execs, now: Instants, answer: Answers]

\* The driver is at the top of its loop, in one of the parts of the
\* ResumeBatch arm, leaving its loop, or gone.
Arm == {"started", "draining", "sending", "resending", "settling"}
DriverState ==
  [at: {"loop", "ending", "gone"} \cup Arm, serving: Requests \cup {Nobody},
   frames: SUBSET Execs, segments: 0..MaxSegments, swept: BOOLEAN,
   why: {"running", "expired", "lifetime", "other"}]

TypeOK ==
  /\ clock \in 0..Lifetime
  /\ word \in Word
  /\ pending \in PendingState
  /\ exposed \subseteq Execs
  /\ req \in [Requests -> RequestState]
  /\ permits \subseteq Requests
  /\ dispatch \in [Requests -> {"waiting", "started", "cancelled"}]
  /\ channel \in Seq(Requests)
  /\ driver \in DriverState
  /\ cancel \in BOOLEAN
  /\ wire \in [Execs -> Nat]
  /\ overwritten \in BOOLEAN
  /\ sent \in [Requests -> SUBSET Execs]
  /\ aborted \subseteq Execs

Init ==
  /\ clock = 0
  /\ word = [deadline |-> Never, state |-> "idle"]
  /\ pending = [collecting |-> {}, awaiting |-> {}, seen |-> {},
                since |-> Never, armed |-> FALSE]
  /\ exposed = {}
  /\ req = [r \in Requests |->
              [at |-> "away", batch |-> {}, now |-> 0, answer |-> "none"]]
  /\ permits = {}
  /\ dispatch = [r \in Requests |-> "waiting"]
  /\ channel = <<>>
  /\ driver = [at |-> "loop", serving |-> Nobody, frames |-> {}, segments |-> 1,
               swept |-> FALSE, why |-> "running"]
  /\ cancel = FALSE
  /\ wire = [e \in Execs |-> 0]
  /\ overwritten = FALSE
  /\ sent = [r \in Requests |-> {}]
  /\ aborted = {}

-----------------------------------------------------------------------------
(* ResumeAdmission.                                                         *)

Elapsed(w, now) == w.deadline # Never /\ now >= w.deadline

\* MUTANT: an in-flight word is admitted again.
AdmissionIgnoresFlight(w, now) ==
  IF w.state = "expired" \/ Elapsed(w, now)
  THEN [word |-> [w EXCEPT !.state = "expired"], answer |-> "expired"]
  ELSE [word |-> [w EXCEPT !.state = "in_flight"], answer |-> "none"]

\* The word after try_admit, and what the caller is told.
Admission(w, now) ==
  CASE w.state = "in_flight" -> [word |-> w, answer |-> "busy"]
    [] w.state = "expired" -> [word |-> w, answer |-> "expired"]
    [] w.state = "idle" /\ Elapsed(w, now) ->
         [word |-> [w EXCEPT !.state = "expired"], answer |-> "expired"]
    [] OTHER -> [word |-> [w EXCEPT !.state = "in_flight"], answer |-> "none"]

Released(w) == IF w.state = "in_flight" THEN [w EXCEPT !.state = "idle"] ELSE w

\* MUTANT: the expiry claims an in-flight word too.
ClaimableInFlight(w) == w.state # "expired"

\* claim_expired: only an idle word is claimed.
Claimable(w) == w.state = "idle"

\* set_deadline stores an idle word whatever the word was.
SetDeadline(w, now) == [deadline |-> now + TTL, state |-> "idle"]

\* MUTANT: the permit lives in the request instead of its command.
DropWithRequest(R) ==
  LET dropped == {r \in R : req[r].at # "answered"}
  IN /\ permits' = permits \ dropped
     /\ word' = IF dropped \cap permits = {} THEN word ELSE Released(word)

\* LiveResumePermit::drop, for the requests in R.
DropPermits(R) ==
  /\ permits' = permits \ R
  /\ word' = IF R \cap permits = {} THEN word ELSE Released(word)

-----------------------------------------------------------------------------
(* PendingExecState.                                                        *)

Native(S) == S \ ClientOnly

CanExpose(p) == p.awaiting = {} /\ p.collecting # {}

Queued(p, e) ==
  [p EXCEPT !.collecting = @ \cup {e}, !.seen = @ \cup {e}, !.armed = TRUE]

\* expose_native: the client-only execs wait for the end of the turn.
NativeExposed(p) ==
  [p EXCEPT !.awaiting = Native(p.collecting),
            !.collecting = @ \cap ClientOnly, !.armed = FALSE]

\* expose: a mixed batch is split, and the natives go on collecting.
ClientExposed(p) ==
  [p EXCEPT !.awaiting = p.collecting \cap ClientOnly,
            !.collecting = Native(@),
            !.armed = @ /\ Native(p.collecting) # {}]

Aborted(p, e) ==
  LET kept == p.collecting \ Native({e})
  IN [p EXCEPT !.awaiting = @ \ Native({e}),
               !.collecting = kept,
               !.since = IF p.awaiting \ Native({e}) = {} THEN Never ELSE @,
               !.armed = kept # {}]

\* MUTANT: the batch stays awaited after it was sent.
CompletedStillAwaited(p) == [p EXCEPT !.since = Never]

Completed(p) ==
  [p EXCEPT !.awaiting = {}, !.since = Never,
            !.armed = p.armed \/ p.collecting # {}]

\* drain_collecting_natives, then restore_collecting_natives(unsent).
ControlClosed(p, unsent) ==
  [p EXCEPT !.collecting = (@ \cap ClientOnly) \cup unsent,
            !.armed = @ /\ p.collecting \cap ClientOnly # {}]

\* mark_exposed_at and the publication that follows it without an await.
Publish(p) ==
  /\ pending' = [p EXCEPT !.since = clock]
  /\ word' = SetDeadline(word, clock)
  /\ overwritten' = (overwritten \/ word.state = "in_flight")
  /\ exposed' = p.awaiting

-----------------------------------------------------------------------------
(* Where the driver is.                                                     *)

Served == {driver.serving} \ {Nobody}

\* `break 'driver`: the rest of the arm, and the command it held, are dropped.
Leave(why) ==
  /\ driver' = [driver EXCEPT !.at = "ending", !.serving = Nobody,
                              !.frames = {}, !.why = why]
  /\ DropPermits(Served)

\* `continue`: back to the loop; the command is dropped.
Continue ==
  /\ driver' = [driver EXCEPT !.at = "loop", !.serving = Nobody,
                              !.frames = {}, !.swept = FALSE]
  /\ DropPermits(Served)

Answered(r, answer) == [req EXCEPT ![r].at = "answered", ![r].answer = answer]

\* A request whose future was dropped no longer hears its acknowledgement.
Listening(r) == req[r].at = "waiting"

Acknowledge(r, answer) ==
  req' = IF Listening(r) THEN Answered(r, answer) ELSE req

-----------------------------------------------------------------------------
(* The requests.                                                            *)

\* collect_live_tool_results, validate_tool_result_batch and the instant the
\* admission is asked for.
Arrive(r) ==
  /\ req[r].at = "away"
  /\ \E batch \in (SUBSET pending.seen) \ {{}} :
       req' = IF batch = exposed
              THEN [req EXCEPT ![r].at = "checked", ![r].batch = batch,
                               ![r].now = clock]
              ELSE Answered(r, "invalid")
  /\ UNCHANGED <<clock, word, pending, exposed, permits, dispatch, channel,
                 driver, cancel, wire, sent, overwritten, aborted>>

Admit(r) ==
  /\ req[r].at = "checked"
  /\ LET admission == Admission(word, req[r].now)
     IN /\ word' = admission.word
        /\ \/ /\ admission.answer = "none"
              /\ req' = [req EXCEPT ![r].at = "admitted"]
              /\ permits' = permits \cup {r}
           \/ /\ admission.answer # "none"
              /\ req' = Answered(r, admission.answer)
              /\ UNCHANGED permits
  /\ UNCHANGED <<clock, pending, exposed, dispatch, channel, driver, cancel,
                 wire, sent, overwritten, aborted>>

\* acquire_live_generation_resume_permit and the check after it.
GetCapacity(r) ==
  /\ req[r].at = "admitted"
  /\ \/ /\ ~cancel /\ driver.at # "gone"
        /\ req' = [req EXCEPT ![r].at = "dispatch"]
        /\ UNCHANGED <<word, permits>>
     \/ /\ cancel \/ driver.at = "gone"
        /\ req' = Answered(r, "closed")
        /\ DropPermits({r})
     \/ /\ req' = Answered(r, "capacity")
        /\ DropPermits({r})
  /\ UNCHANGED <<clock, pending, exposed, dispatch, channel, driver, cancel,
                 wire, sent, overwritten, aborted>>

SendCommand(r) ==
  /\ req[r].at = "dispatch"
  /\ \/ /\ driver.at # "gone"
        /\ req' = [req EXCEPT ![r].at = "waiting"]
        /\ channel' = Append(channel, r)
        /\ UNCHANGED <<word, permits>>
     \/ /\ driver.at = "gone"
        /\ req' = Answered(r, "closed")
        /\ DropPermits({r})
        /\ UNCHANGED channel
  /\ UNCHANGED <<clock, pending, exposed, dispatch, driver, cancel, wire, sent,
                 overwritten, aborted>>

\* await_resume_dispatch times out; a started dispatch is waited for instead.
\* The command, once sent, stays with the driver and keeps its permit.
Timeout(r) ==
  /\ req[r].at \in {"dispatch", "waiting"}
  /\ dispatch[r] = "waiting"
  /\ dispatch' = [dispatch EXCEPT ![r] = "cancelled"]
  /\ req' = Answered(r, "retry")
  /\ DropPermits(IF req[r].at = "dispatch" THEN {r} ELSE {})
  /\ UNCHANGED <<clock, pending, exposed, channel, driver, cancel, wire, sent,
                 overwritten, aborted>>

\* The request's future is dropped: LiveResumeWaitGuard cancels a dispatch
\* that has not started.
Disconnect(r) ==
  /\ "drop" \in Faults
  /\ req[r].at \in {"admitted", "dispatch", "waiting"}
  /\ dispatch' = [dispatch EXCEPT ![r] = IF @ = "waiting" THEN "cancelled" ELSE @]
  /\ req' = Answered(r, "gone")
  /\ DropPermits(IF req[r].at = "waiting" THEN {} ELSE {r})
  /\ UNCHANGED <<clock, pending, exposed, channel, driver, cancel, wire, sent,
                 overwritten, aborted>>

Cancel ==
  /\ "cancel" \in Faults
  /\ ~cancel /\ driver.at # "gone"
  /\ cancel' = TRUE
  /\ UNCHANGED <<clock, word, pending, exposed, req, permits, dispatch,
                 channel, driver, wire, sent, overwritten, aborted>>

-----------------------------------------------------------------------------
(* The driver.                                                              *)

\* The top of the loop: cancellation, the absolute deadline, the tool wait.
Sweep ==
  /\ driver.at = "loop" /\ ~driver.swept
  /\ LET lapsed == pending.since # Never /\ clock - pending.since >= TTL
     IN \/ /\ cancel \/ clock >= Lifetime
           /\ Leave(IF cancel THEN "other" ELSE "lifetime")
        \/ /\ ~cancel /\ clock < Lifetime
           /\ lapsed /\ Claimable(word)
           /\ word' = [word EXCEPT !.state = "expired"]
           /\ driver' = [driver EXCEPT !.at = "ending", !.why = "expired"]
           /\ UNCHANGED permits
        \/ /\ ~cancel /\ clock < Lifetime
           /\ ~(lapsed /\ Claimable(word))
           /\ driver' = [driver EXCEPT !.swept = TRUE]
           /\ UNCHANGED <<word, permits>>
  /\ UNCHANGED <<clock, pending, exposed, req, dispatch, channel, cancel, wire,
                 sent, overwritten, aborted>>

\* The driver handles frames in its loop and while it drains the queued ones.
HandlesFrames ==
  driver.at \in {"draining", "settling"} \/ (driver.at = "loop" /\ driver.swept)

\* The loop goes back to its top after an event; a drain goes on.
Resumed(d) == IF d.at = "loop" THEN [d EXCEPT !.swept = FALSE] ELSE d

\* PendingExecState::queue: a repeated exec is dropped.
QueueExec(e) ==
  /\ HandlesFrames
  /\ e \notin pending.seen
  /\ pending' = Queued(pending, e)
  /\ driver' = Resumed(driver)
  /\ UNCHANGED <<clock, word, exposed, req, permits, dispatch, channel, cancel,
                 wire, sent, overwritten, aborted>>

\* MUTANT: the shared view keeps the aborted exec.
AbortUnpublished(e) ==
  /\ "abort" \in Faults
  /\ HandlesFrames
  /\ e \in Native(pending.collecting \cup pending.awaiting)
  /\ pending' = Aborted(pending, e)
  /\ aborted' = aborted \cup {e}
  /\ driver' = Resumed(driver)
  /\ UNCHANGED <<clock, word, exposed, req, permits, dispatch, channel, cancel,
                 wire, sent, overwritten>>

\* exec_server_control_message.abort
Abort(e) ==
  /\ "abort" \in Faults
  /\ HandlesFrames
  /\ e \in Native(pending.collecting \cup pending.awaiting)
  /\ pending' = Aborted(pending, e)
  /\ exposed' = pending'.awaiting
  /\ aborted' = aborted \cup {e}
  /\ driver' = Resumed(driver)
  /\ UNCHANGED <<clock, word, req, permits, dispatch, channel, cancel, wire,
                 sent, overwritten>>

\* The quiet window of a native batch closes.  When the client does not take
\* the batch in time the driver stops.
ExposeNative ==
  /\ driver.at = "loop" /\ driver.swept
  /\ CanExpose(pending) /\ pending.armed /\ Native(pending.collecting) # {}
  /\ \/ /\ Publish(NativeExposed(pending))
        /\ driver' = Resumed(driver)
        /\ UNCHANGED permits
     \/ /\ "drop" \in Faults
        /\ pending' = NativeExposed(pending)
        /\ Leave("other")
        /\ UNCHANGED <<exposed, overwritten>>
  /\ UNCHANGED <<clock, req, dispatch, channel, cancel, wire, sent, aborted>>

\* A client-only batch is handed to the client and ends the driver.
ExposeClientOnly ==
  /\ "end" \in Faults
  /\ HandlesFrames
  /\ CanExpose(pending) /\ pending.collecting \cap ClientOnly # {}
  /\ pending' = [ClientExposed(pending) EXCEPT !.since = clock]
  /\ exposed' = pending'.awaiting
  /\ word' = IF Served \cap permits = {} THEN SetDeadline(word, clock)
             ELSE Released(SetDeadline(word, clock))
  /\ permits' = permits \ Served
  /\ driver' = [driver EXCEPT !.at = "ending", !.serving = Nobody,
                              !.frames = {}, !.why = "other"]
  /\ overwritten' = (overwritten \/ word.state = "in_flight")
  /\ UNCHANGED <<clock, req, dispatch, channel, cancel, wire, sent, aborted>>

\* Connect END, EOF or an error of the upstream.
UpstreamEnds ==
  /\ "end" \in Faults
  /\ HandlesFrames
  /\ Leave("other")
  /\ UNCHANGED <<clock, pending, exposed, req, dispatch, channel, cancel, wire,
                 sent, overwritten, aborted>>

\* A ResumeBatch command is received: the exchange on its dispatch state.
Receive ==
  /\ driver.at = "loop" /\ driver.swept /\ channel # <<>>
  /\ LET r == Head(channel)
     IN /\ channel' = Tail(channel)
        /\ \/ /\ dispatch[r] = "waiting"
              /\ dispatch' = [dispatch EXCEPT ![r] = "started"]
              /\ driver' = [driver EXCEPT !.at = "started", !.serving = r]
              /\ UNCHANGED <<permits, word>>
           \/ /\ dispatch[r] # "waiting"
              /\ driver' = Resumed(driver)
              /\ DropPermits({r})
              /\ UNCHANGED dispatch
  /\ UNCHANGED <<clock, pending, exposed, req, cancel, wire, sent, overwritten,
                 aborted>>

\* MUTANT: the validation made before the admission is trusted.
EncodableUnchecked(r) == pending.awaiting # {}

\* encode_tool_result_batch validates the batch against what is awaited now.
Encodable(r) == req[r].batch = pending.awaiting /\ pending.awaiting # {}

\* MUTANT: one segment too many.
AtSegmentLimitLate == driver.segments > MaxSegments

AtSegmentLimit == driver.segments >= MaxSegments

\* MUTANT: the refused batch is sent all the same.
StageFailsOpen ==
  /\ driver' = [driver EXCEPT !.at = "draining", !.segments = @ + 1,
                              !.frames = req[driver.serving].batch]
  /\ UNCHANGED <<permits, word>>

\* The ledger did not record the stage: before or after its owner changed.
StageFails == Continue \/ Leave("other")

\* From the segment limit to the acknowledgement.
Accept ==
  /\ driver.at = "started"
  /\ LET r == driver.serving
     IN \/ /\ AtSegmentLimit
           /\ Acknowledge(r, "limit")
           /\ Leave("other")
        \/ /\ ~AtSegmentLimit /\ ~Encodable(r)
           /\ Acknowledge(r, "invalid")
           /\ Continue
        \/ /\ ~AtSegmentLimit /\ Encodable(r)
           /\ "stage" \in Faults
           /\ Acknowledge(r, "stage")
           /\ StageFails
        \/ /\ ~AtSegmentLimit /\ Encodable(r) /\ ~Listening(r)
           /\ Continue \/ ("stage" \in Faults /\ Leave("other"))
           /\ UNCHANGED req
        \/ /\ ~AtSegmentLimit /\ Encodable(r) /\ Listening(r)
           /\ Acknowledge(r, "ok")
           /\ driver' = [driver EXCEPT !.at = "draining", !.segments = @ + 1,
                                       !.frames = req[r].batch]
           /\ UNCHANGED <<permits, word>>
  /\ UNCHANGED <<clock, pending, exposed, dispatch, channel, cancel, wire,
                 sent, overwritten, aborted>>

\* The frames queued before the submission have been handled.
EndDrain ==
  /\ driver.at = "draining"
  /\ driver' = [driver EXCEPT !.at = "sending"]
  /\ UNCHANGED <<clock, word, pending, exposed, req, permits, dispatch,
                 channel, cancel, wire, sent, overwritten, aborted>>

\* The frames in S reach the wire.
PutOnWire(S) ==
  /\ wire' = [e \in Execs |-> IF e \in S THEN wire[e] + 1 ELSE wire[e]]
  /\ sent' = [sent EXCEPT ![driver.serving] = @ \cup S]

\* All frames were sent: complete_awaiting, and the batch is no longer owed.
SendAll ==
  /\ driver.at \in {"sending", "resending"}
  /\ PutOnWire(driver.frames)
  /\ \/ /\ cancel
        /\ Leave("other")
        /\ UNCHANGED <<pending, exposed>>
     \/ /\ ~cancel
        /\ pending' = Completed(pending)
        /\ exposed' = {}
        /\ driver' = [driver EXCEPT !.at = "settling"]
        /\ UNCHANGED <<permits, word>>
  /\ UNCHANGED <<clock, req, dispatch, channel, cancel, overwritten, aborted>>

\* MUTANT: a batch sent in part is taken for sent.
SendFailsOpen ==
  /\ "send" \in Faults
  /\ driver.at \in {"sending", "resending"}
  /\ \E S \in (SUBSET driver.frames) \ {driver.frames} : PutOnWire(S)
  /\ driver' = [driver EXCEPT !.at = "settling"]
  /\ UNCHANGED <<clock, word, pending, exposed, req, permits, dispatch, channel,
                 cancel, overwritten, aborted>>

\* A send fails after some frames, or for good, or again: the Run ends.
SendFails ==
  /\ "send" \in Faults
  /\ driver.at \in {"sending", "resending"}
  /\ \E S \in (SUBSET driver.frames) \ {driver.frames} : PutOnWire(S)
  /\ Leave("other")
  /\ UNCHANGED <<clock, pending, exposed, req, dispatch, channel, cancel,
                 overwritten, aborted>>

\* No frame was sent and the failure is not final: the Run is reconnected and
\* the frames are sent again.  The reconnect closes the collecting natives.
Reconnect ==
  /\ "send" \in Faults
  /\ driver.at = "sending"
  /\ \E unsent \in SUBSET Native(pending.collecting) :
       pending' = ControlClosed(pending, unsent)
  /\ \/ /\ driver' = [driver EXCEPT !.at = "resending"]
        /\ UNCHANGED <<word, permits>>
     \/ Leave("other")
  /\ UNCHANGED <<clock, exposed, req, dispatch, channel, cancel, wire, sent,
                 overwritten, aborted>>

\* The end of the arm: deferred events go to the client, which may have left.
Settle ==
  /\ driver.at = "settling"
  /\ Continue \/ ("drop" \in Faults /\ Leave("other"))
  /\ UNCHANGED <<clock, pending, exposed, req, dispatch, channel, cancel, wire,
                 sent, overwritten, aborted>>

\* The end of drive_live_run: the batch is withdrawn, and the channel goes,
\* with the commands still in it.
Finish ==
  LET left == {channel[i] : i \in DOMAIN channel}
  IN /\ driver.at = "ending"
     /\ driver' = [driver EXCEPT !.at = "gone"]
     /\ exposed' = {}
     /\ channel' = <<>>
     /\ req' = [r \in Requests |->
                  IF r \in left /\ Listening(r)
                  THEN [req[r] EXCEPT !.at = "answered", !.answer = "closed"]
                  ELSE req[r]]
     /\ DropPermits(left)
     /\ UNCHANGED <<clock, pending, dispatch, cancel, wire, sent, overwritten,
                    aborted>>

\* The driver has looked at the clock since it last moved.
Tick ==
  /\ clock < Lifetime
  /\ driver.at = "loop" => driver.swept
  /\ driver.at # "gone"
  /\ clock' = clock + 1
  /\ driver' = Resumed(driver)
  /\ UNCHANGED <<word, pending, exposed, req, permits, dispatch, channel,
                 cancel, wire, sent, overwritten, aborted>>

-----------------------------------------------------------------------------
ServeRequest(r) ==
  \/ Admit(r) \/ GetCapacity(r) \/ SendCommand(r) \/ Timeout(r)

Drive ==
  \/ Sweep \/ Receive \/ Accept \/ EndDrain \/ SendAll \/ SendFails
  \/ Reconnect \/ Settle \/ Finish

Next ==
  \/ \E r \in Requests : Arrive(r) \/ ServeRequest(r) \/ Disconnect(r)
  \/ \E e \in Execs : QueueExec(e) \/ Abort(e)
  \/ Cancel \/ ExposeNative \/ ExposeClientOnly \/ UpstreamEnds
  \/ Drive \/ Tick

Spec == Init /\ [][Next]_vars

\* A request's future and the driver are polled; Cursor and the client owe
\* nothing.  The arms that send are bounded by the transport's own timeouts.
FairSpec ==
  /\ Spec
  /\ WF_vars(Drive) /\ WF_vars(Tick)
  /\ \A r \in Requests : WF_vars(ServeRequest(r))

-----------------------------------------------------------------------------
(* Safety.                                                                  *)

\* "Another tool-result resume is already in flight" (live.rs:939): at
\* most one permit is alive, and the word says so, until the deadline of a new
\* batch is stored over the word (set_deadline does not look at it).  Holding
\* it takes the exchange in try_admit and every path on which a permit is
\* dropped, those after its request is gone too.
OneInFlight ==
  ~overwritten =>
    /\ Cardinality(permits) <= 1
    /\ word.state = "in_flight" <=> permits # {}

\* The wait does not expire under a request whose permit is alive, whether it
\* waits for capacity, for the driver or for nothing any more
\* (pending_tool_wait_timed_out against resume_batch_within_operation), until
\* a deadline is stored over the word.
InFlightWins == driver.why = "expired" /\ ~overwritten => permits = {}

\* An answer other than success promises that no result of the request was,
\* or will be, put on the wire: the client may send the results again.  The
\* timeout and the driver race for the dispatch state.
RefusedNotSent ==
  \A r \in Requests :
    req[r].answer \in Answers \ {"none", "ok", "gone"} => sent[r] = {}

\* Cursor is sent at most one result for an exec, through lost
\* acknowledgements, failed sends, reconnects and repeated requests.
SentOnce == \A e \in Execs : wire[e] <= 1

\* Back in its loop the driver has sent every result of each batch it
\* acknowledged; a batch sent in part ends the Run.
AcceptedWhole ==
  driver.at = "loop" =>
    \A r \in Requests : req[r].answer = "ok" => sent[r] = req[r].batch

\* What Cursor gets of the batches a Run acknowledged: each result, and once.
EachResultOnce == SentOnce /\ AcceptedWhole

\* "Keep it in lockstep with awaiting" (live.rs:11186): outside the
\* ResumeBatch arm requests are validated against what the driver awaits.
InLockstep == driver.at = "loop" => exposed = pending.awaiting

\* A delayed result for an exec aborted before the driver accepted the batch
\* fails validation: no aborted exec is among the frames of a new batch.
AbortedNotAccepted ==
  [][driver.at = "started" => driver'.frames \cap aborted = {}]_vars

-----------------------------------------------------------------------------
(* Liveness.                                                                *)

\* An admission ends, whatever happens to its request and its Run: a permit
\* that stayed alive would refuse every later result and hold off the expiry.
PermitsReturned == \A r \in Requests : r \in permits ~> r \notin permits

-----------------------------------------------------------------------------
(* What the code says of itself and does not do.                            *)

\* "a tool-result POST already admitted by the handle must reach the driver
\* before expiry" (live.rs, a test): the wait for a batch does not expire while
\* a request with the results of that batch is admitted.
AdmittedReachesDriver ==
  driver.why = "expired" => \A r \in permits : req[r].batch # pending.awaiting
=============================================================================
