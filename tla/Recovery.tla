------------------------------ MODULE Recovery ------------------------------
(***************************************************************************)
(* The upstream side of one Run's driver (drive_live_run,                   *)
(* try_live_reconnect, src/src/providers/cursor/live.rs): it takes frames    *)
(* off a channel a pump fills from the response body, holds a turn_ended     *)
(* until the stream ends, replaces a lost stream with a ResumeAction, and    *)
(* sends a batch of tool results over whatever stream it has.               *)
(*                                                                         *)
(* A chunk of the body stands for the frames decoded from it, a step of the  *)
(* driver for what it does between two awaits.  Time may pass at any moment. *)
(* Left out: KV quota errors, client-only tools, Workflow synthesis,         *)
(* checkpoints (which of the two retry markers a hollow Run gets), the       *)
(* breakers' counts, a client that leaves, and the admission of a batch      *)
(* (ToolResults).  The driver cannot tell bytes that are on the network when *)
(* its drains run from answers to the batch, and the model does not either.  *)
(***************************************************************************)
EXTENDS Naturals, Sequences, SequencesExt

CONSTANTS
  MaxOpens,    \* ResumeActions per episode: LIVE_RECOVERY_MAX_OPENS, CCP_CURSOR_RECONNECT_MAX
  MaxQueue,    \* capacity of the channel: LIVE_EVENT_CHANNEL_CAP
  MaxChunks,   \* bound: items Cursor sends in all
  MaxStreams,  \* bound: streams of the Run
  MaxBatches   \* bound: tool batches of the Run

ASSUME RecoveryAssumption ==
  /\ {MaxOpens, MaxQueue, MaxChunks} \subseteq Nat
  /\ MaxStreams \in Nat \ {0} /\ MaxBatches \in Nat

VARIABLES
  at,         \* where the driver is
  cause,      \* why it is recovering: what follows a failure
  stream,     \* the channel of the current stream
  prefetched, \* prefetched_upstream
  link,       \* LiveReconnectContext
  seg,        \* the downstream segment
  doubt,      \* what was sent to Cursor without an answer yet
  truth,      \* what Cursor may have taken, and the client has seen
  outcome,    \* terminal_error, or success
  left        \* what remains of the bounds

vars == <<at, cause, stream, prefetched, link, seg, doubt, truth, outcome, left>>

\* "think" is any progress but text, tool or turn_ended; "beat" a heartbeat or
\* other frames without progress; "ok", "bad" and "lost" a Connect END without
\* error, with one, and with one that reports missing conversation data.
Ends == {"ok", "bad", "lost"}
Turns == {"ended", "ended ok", "ended bad"}
Chunks == {"beat", "think", "text", "tool"} \cup Ends \cup Turns

\* A body ends cleanly, in the middle of a frame, or with a transport error.
Losses == {"eof", "cut", "error"}

Item == [of: 1..MaxStreams, what: Chunks \cup Losses]

Places == {"loop", "draining", "sending", "resending", "sent", "absorbing",
           "recovering", "opening", "done"}

TypeOK ==
  /\ at \in Places
  /\ cause \in {"none", "eof", "error", "stall", "send"}
  /\ stream \in [of: 1..MaxStreams, open: BOOLEAN, queue: Seq(Item)]
  /\ prefetched \in Seq(Item)
  /\ link \in [sand: BOOLEAN, h1: BOOLEAN, rejected: BOOLEAN, opens: 0..MaxOpens,
               probation: BOOLEAN, got: BOOLEAN]
  /\ seg \in [saw: BOOLEAN, held: BOOLEAN, deferred: BOOLEAN,
              pending: SUBSET {"collecting", "awaiting"}]
  /\ doubt \in [accepted: BOOLEAN, sent: BOOLEAN]
  /\ truth \in [resume: BOOLEAN, results: BOOLEAN, carrier: 0..MaxStreams, shown: BOOLEAN]
  /\ outcome \in {"none", "success", "retry", "lost", "failed", "cancelled"}
  /\ left \in [chunks: 0..MaxChunks, batches: 0..MaxBatches]

Stream(n) == [of |-> n, open |-> TRUE, queue |-> <<>>]

Init ==
  /\ at = "loop" /\ cause = "none" /\ outcome = "none"
  /\ stream = Stream(1) /\ prefetched = <<>>
  /\ \E sand \in BOOLEAN, h1 \in BOOLEAN :
       /\ sand => ~h1
       /\ link = [sand |-> sand, h1 |-> h1, rejected |-> FALSE, opens |-> 0,
                  probation |-> FALSE, got |-> FALSE]
  /\ seg = [saw |-> FALSE, held |-> FALSE, deferred |-> FALSE, pending |-> {}]
  /\ doubt = [accepted |-> FALSE, sent |-> FALSE]
  /\ truth = [resume |-> FALSE, results |-> FALSE, carrier |-> 0, shown |-> FALSE]
  /\ left = [chunks |-> MaxChunks, batches |-> MaxBatches]

-----------------------------------------------------------------------------
(* Ends of the Run.                                                         *)

\* Nothing of the segment was shown, and no tool of it is pending:
\* hollow_resume_can_rotate.
Hollow == ~seg.saw /\ seg.pending = {}

End(how) == at' = "done" /\ outcome' = how

\* hollow_resume_terminal_message: a hollow Run may be retried; otherwise the
\* message of the failure stands, with the marker a lost conversation put in it.
HollowMessage(how) == IF Hollow THEN "retry" ELSE how

\* turn_ended or an END without error is processed.
Finish ==
  End(IF seg.pending # {} THEN "failed" ELSE IF seg.saw THEN "success" ELSE "retry")

\* live_cancel_is_ambiguous, with live_acceptance_unresolved
Unresolved == seg.held \/ doubt.accepted \/ (link.probation /\ ~link.got)
CancelAmbiguous == doubt.sent \/ (Unresolved /\ ~Hollow)

\* A Cancel command, or the flag: the flag is looked at in every round of the
\* loop and after the sends of a batch, whether they failed or not.
Cancel ==
  /\ at \in {"loop", "sending", "resending", "sent"}
  /\ End(IF CancelAmbiguous THEN "failed" ELSE "cancelled")
  /\ UNCHANGED <<cause, stream, prefetched, link, seg, doubt, truth, left>>

-----------------------------------------------------------------------------
(* Cursor and the pump of the stream.                                       *)

Receive(what) ==
  /\ at # "done" /\ stream.open /\ Len(stream.queue) < MaxQueue /\ left.chunks > 0
  /\ stream' = [stream EXCEPT !.open = what \notin Losses,
                              !.queue = Append(@, [of |-> stream.of, what |-> what])]
  /\ left' = [left EXCEPT !.chunks = @ - 1]
  /\ UNCHANGED <<at, cause, prefetched, link, seg, doubt, truth, outcome>>

-----------------------------------------------------------------------------
(* Frames.                                                                  *)

\* The segment has no sink while the client runs the tools of a batch; the
\* arm of a batch has installed the next one.
Deferring == at = "loop" /\ "awaiting" \in seg.pending

\* process_driver_frames for frames that do not end the turn.
Process(what, t) ==
  /\ seg' = [seg EXCEPT !.saw = @ \/ what = "text",
                        !.deferred = @ \/ (what = "text" /\ Deferring),
                        !.pending = IF what = "tool" THEN @ \cup {"collecting"} ELSE @]
  /\ truth' = [t EXCEPT !.shown = @ \/ (what = "text" /\ ~Deferring)]

\* live_reconnect_should_reset_budget
Progress == {"think", "text", "tool"} \cup Turns

\* A replacement stream has answered: LiveRecoveryEpisode::reset.
Answered == [link EXCEPT !.got = TRUE, !.opens = 0, !.probation = FALSE]

\* What the answer proves, if it is of the stream that was asked.
Proven(item, t) ==
  IF item.of = stream.of THEN [t EXCEPT !.resume = FALSE, !.results = FALSE] ELSE t

\* Mutant of Held: turn_ended is processed when it comes.
HeldNever(what) == FALSE

\* The turn_ended is held until the stream says how it ended.
Held(what) == what = "ended"

\* Frames of a chunk in the loop.  An END error is looked for first.
TakeChunk(item) ==
  LET what == item.what
      clears == what \in Progress
      t == IF clears THEN Proven(item, truth) ELSE truth
  IN IF what \in {"bad", "ended bad"} THEN End("failed") /\ UNCHANGED <<link, doubt, seg, truth>>
     ELSE IF what = "lost" THEN End("lost") /\ UNCHANGED <<link, doubt, seg, truth>>
     ELSE /\ link' = IF clears THEN Answered ELSE link
          /\ doubt' = IF clears THEN [accepted |-> FALSE, sent |-> FALSE] ELSE doubt
          /\ IF what \in {"ok", "ended ok"} \/ (what = "ended" /\ ~seg.held /\ ~Held(what))
               THEN Finish /\ seg' = seg /\ truth' = t
             ELSE IF seg.held \/ Held(what)
               THEN seg' = [seg EXCEPT !.held = TRUE] /\ truth' = t /\ UNCHANGED <<at, outcome>>
             ELSE Process(what, t) /\ UNCHANGED <<at, outcome>>

-----------------------------------------------------------------------------
(* Losses and their recovery.                                               *)

\* What the caller of try_live_reconnect does when it failed.
Fail(why, how) ==
  End(CASE why = "eof" -> IF seg.pending # {} THEN "failed"
                          ELSE IF seg.saw THEN "success" ELSE HollowMessage(how)
        [] why \in {"error", "stall"} -> HollowMessage(how)
        [] why = "send" -> "failed")

\* Mutant of ShouldResume: probation does not hold back a ResumeAction.
ShouldResumeAlways == TRUE

\* live_should_resume_after_drop
ShouldResume == ~link.probation \/ link.got

\* prepare_live_reconnect: a reset of an HTTP/2 stream moves the Run to HTTP/1.
Prepared(why) ==
  {IF link.sand THEN [link EXCEPT !.h1 = FALSE, !.rejected = FALSE]
   ELSE [link EXCEPT !.h1 = @ \/ (~link.rejected /\ (reset \/ (~link.got /\ link.opens > 0)))] :
     reset \in IF why = "error" THEN BOOLEAN ELSE {FALSE}}

Lose(why) ==
  /\ IF ShouldResume
     THEN at' = "recovering" /\ cause' = why /\ outcome' = outcome /\ link' \in Prepared(why)
     ELSE Fail(why, "failed") /\ UNCHANGED <<cause, link>>
  /\ UNCHANGED <<seg, doubt, truth>>

\* The end of the body.  The decoder of a replaced stream is empty.
TakeLoss(item) ==
  IF item.what = "error"
  THEN IF seg.held THEN End("failed") /\ UNCHANGED <<cause, link, seg, doubt, truth>> ELSE Lose("error")
  ELSE IF item.what = "cut" /\ item.of = stream.of
  THEN End("failed") /\ UNCHANGED <<cause, link, seg, doubt, truth>>
  ELSE IF seg.held THEN Finish /\ UNCHANGED <<cause, link, seg, doubt, truth>>
  ELSE IF seg.saw /\ seg.pending = {}
  THEN End("success") /\ UNCHANGED <<cause, link, seg, doubt, truth>>
  ELSE Lose("eof")

\* The item the upstream arm takes: a prefetched one, or the channel's next.
Offered == prefetched \o stream.queue

Take ==
  /\ at = "loop" /\ Offered # <<>>
  /\ IF prefetched # <<>>
     THEN prefetched' = Tail(prefetched) /\ UNCHANGED stream
     ELSE stream' = [stream EXCEPT !.queue = Tail(@)] /\ UNCHANGED prefetched
  /\ IF Head(Offered).what \in Losses
     THEN TakeLoss(Head(Offered))
     ELSE TakeChunk(Head(Offered)) /\ UNCHANGED cause
  /\ UNCHANGED left

\* apply_transport_breakers; barred: the breaker of HTTP/1 is open, that of
\* HTTP/2 is not.
ApplyBreakers(l, barred) ==
  IF l.sand THEN [l EXCEPT !.h1 = FALSE, !.rejected = FALSE]
  ELSE [l EXCEPT !.h1 = @ /\ ~l.rejected /\ ~barred]

\* Mutant of Opens: an open is not counted.
OpensUncounted(l) == l

Opens(l) == [l EXCEPT !.opens = @ + 1]

\* Mutant of Retry: the budget is not looked at.
RetryUnbounded ==
  /\ at = "recovering"
  /\ \E barred \in BOOLEAN : link' = Opens(ApplyBreakers(link, barred))
  /\ seg' = [seg EXCEPT !.pending = @ \ {"collecting"}]
  /\ at' = "opening"
  /\ UNCHANGED <<cause, stream, prefetched, doubt, truth, outcome, left>>

\* The loop of try_live_reconnect up to the open: the execs being collected are
\* refused on the old stream first.
Retry ==
  /\ at = "recovering" /\ link.opens < MaxOpens
  /\ \E barred \in BOOLEAN : link' = Opens(ApplyBreakers(link, barred))
  /\ seg' = [seg EXCEPT !.pending = @ \ {"collecting"}]
  /\ at' = "opening"
  /\ UNCHANGED <<cause, stream, prefetched, doubt, truth, outcome, left>>

\* The budget or the deadline of the episode is spent, or an exec cannot be
\* refused.
GiveUp ==
  /\ at = "recovering"
  /\ Fail(cause, "failed")
  /\ UNCHANGED <<cause, stream, prefetched, link, seg, doubt, truth, left>>

\* Mutant of Replacement: the channel is not replaced.
ReplacementUnfenced == [Stream(stream.of + 1) EXCEPT !.queue = stream.queue]

\* fence_live_upstream
Replacement == Stream(stream.of + 1)

\* Mutant of Replaced: the batch is forgotten with its stream.
ReplacedClean == doubt' = [accepted |-> FALSE, sent |-> FALSE]

Replaced == doubt' = doubt

\* Cursor took the ResumeAction, and its stream did not end at once.  An HTTP/1
\* open that could not connect is tried on HTTP/2.
Resumed ==
  /\ at = "opening" /\ stream.of < MaxStreams
  /\ stream' = Replacement
  /\ \E h1 \in {link.h1} \cup {FALSE} :
       link' = [link EXCEPT !.h1 = h1, !.probation = TRUE, !.got = FALSE]
  /\ truth' = [truth EXCEPT !.resume = TRUE]
  /\ at' = IF cause = "send" THEN "resending" ELSE "loop"
  /\ cause' = "none"
  /\ Replaced
  /\ UNCHANGED <<prefetched, seg, outcome, left>>

\* live_reconnect_on_open_error, for a refusal: HTTP/1 is rejected by a proxy
\* (464, 421), HTTP/1 is required, or any other.
Refused(why) ==
  /\ at = "opening"
  /\ why = "rejected" => link.h1
  /\ why = "required" => ~link.h1
  /\ IF why = "rejected" /\ link.rejected
     THEN Fail(cause, "failed") /\ UNCHANGED link
     ELSE /\ at' = "recovering" /\ outcome' = outcome
          /\ link' = CASE why = "rejected" -> [link EXCEPT !.h1 = FALSE, !.rejected = TRUE]
                       [] why = "required" -> [link EXCEPT !.h1 = ~link.sand]
                       [] why = "other" -> link
  /\ UNCHANGED <<cause, stream, prefetched, seg, doubt, truth, left>>

\* A refusal that cannot be retried, no answer at all, or an answer without a
\* body: Cursor may have taken the ResumeAction.
OpenFails(how) ==
  /\ at = "opening"
  /\ Fail(cause, how)
  /\ UNCHANGED <<cause, stream, prefetched, link, seg, doubt, truth, left>>

\* A cancelled recovery is always ambiguous.
CancelRecovery ==
  /\ at \in {"recovering", "opening"}
  /\ End("failed")
  /\ UNCHANGED <<cause, stream, prefetched, link, seg, doubt, truth, left>>

-----------------------------------------------------------------------------
(* A batch of tools and its results.                                        *)

\* The quiet window of the execs passes: the client runs the tools.
Expose ==
  /\ at = "loop" /\ seg.pending = {"collecting"}
  /\ seg' = [seg EXCEPT !.pending = {"awaiting"}]
  /\ UNCHANGED <<at, cause, stream, prefetched, link, doubt, truth, outcome, left>>

\* A ResumeBatch is accepted: a new segment begins.
AcceptBatch ==
  /\ at = "loop" /\ "awaiting" \in seg.pending /\ left.batches > 0
  /\ at' = "draining"
  /\ seg' = [seg EXCEPT !.saw = FALSE]
  /\ truth' = [truth EXCEPT !.shown = FALSE]
  /\ left' = [left EXCEPT !.batches = @ - 1]
  /\ UNCHANGED <<cause, stream, prefetched, link, doubt, outcome>>

\* Mutant of Flush: text that is flushed is not recorded as seen.
FlushUnrecorded == seg' = [seg EXCEPT !.deferred = FALSE]

\* Text that came while there was no sink is shown after the drains.
Flush == seg' = [seg EXCEPT !.saw = @ \/ seg.deferred, !.deferred = FALSE]

\* The drain has nothing more to take.
EndDrain ==
  IF at = "draining" THEN at' = "sending" /\ UNCHANGED <<seg, truth>>
  ELSE at' = "loop" /\ Flush /\ truth' = [truth EXCEPT !.shown = @ \/ seg.deferred]

\* drain_queued_upstream: a loss is kept for the loop; a turn_ended is not held.
DrainOne ==
  /\ at \in {"draining", "absorbing"} /\ stream.queue # <<>>
  /\ stream' = [stream EXCEPT !.queue = Tail(@)]
  /\ LET item == Head(stream.queue) IN
       IF item.what \in Losses
       THEN prefetched' = Append(prefetched, item) /\ EndDrain /\ outcome' = outcome
       ELSE /\ prefetched' = prefetched
            /\ IF item.what \in {"bad", "ended bad"} THEN End("failed") /\ UNCHANGED <<seg, truth>>
               ELSE IF item.what = "lost" THEN End("lost") /\ UNCHANGED <<seg, truth>>
               ELSE IF item.what \in Ends \cup Turns THEN Finish /\ UNCHANGED <<seg, truth>>
               ELSE Process(item.what, truth) /\ UNCHANGED <<at, outcome>>
  /\ UNCHANGED <<cause, link, doubt, left>>

DrainEmpty ==
  /\ at \in {"draining", "absorbing"} /\ stream.queue = <<>>
  /\ EndDrain
  /\ UNCHANGED <<cause, stream, prefetched, link, doubt, outcome, left>>

\* Every frame of the batch goes out.
Send ==
  /\ at \in {"sending", "resending"}
  /\ at' = "sent"
  /\ doubt' = [doubt EXCEPT !.sent = TRUE]
  /\ truth' = [truth EXCEPT !.results = TRUE, !.carrier = stream.of]
  /\ UNCHANGED <<cause, stream, prefetched, link, seg, outcome, left>>

\* Mutant of SendFails: a batch that did not go out may be taken as sent.
SendFailsSettled ==
  /\ at = "sending"
  /\ \/ Lose("send")
     \/ at' = "sent" /\ UNCHANGED <<cause, link, seg, doubt, truth, outcome>>
  /\ UNCHANGED <<stream, prefetched, left>>

\* The first frame does not go out.
SendFails ==
  /\ at = "sending"
  /\ Lose("send")
  /\ UNCHANGED <<stream, prefetched, left>>

\* A part of the batch went out, the failure is final, or the batch fails again.
SendEnds(how) ==
  /\ at \in {"sending", "resending"}
  /\ End(how)
  /\ UNCHANGED <<cause, stream, prefetched, link, seg, doubt, truth, left>>

\* complete_awaiting
Settle ==
  /\ at = "sent"
  /\ at' = "absorbing"
  /\ seg' = [seg EXCEPT !.pending = @ \ {"awaiting"}]
  /\ doubt' = [doubt EXCEPT !.accepted = TRUE]
  /\ UNCHANGED <<cause, stream, prefetched, link, truth, outcome, left>>

-----------------------------------------------------------------------------
(* Time.                                                                    *)

\* hard_timeout_can_synthesize_terminal and hard_timeout_can_rotate: a Run that
\* sent a batch is post_tool_continuation.
HardTimeout ==
  /\ at = "loop"
  /\ End(IF seg.held THEN "failed"
         ELSE IF Hollow THEN "retry"
         ELSE IF seg.pending = {} /\ ~doubt.accepted /\ ~doubt.sent THEN "success"
         ELSE "failed")
  /\ UNCHANGED <<cause, stream, prefetched, link, seg, doubt, truth, left>>

\* live_probation_expired
ProbationExpires ==
  /\ at = "loop" /\ "awaiting" \notin seg.pending
  /\ link.probation /\ ~link.got
  /\ End(HollowMessage("failed"))
  /\ UNCHANGED <<cause, stream, prefetched, link, seg, doubt, truth, left>>

\* The wait for the end of the stream or for the results is over.
WaitExpires ==
  /\ at = "loop"
  /\ (seg.held /\ seg.pending = {}) \/ "awaiting" \in seg.pending
  /\ End("failed")
  /\ UNCHANGED <<cause, stream, prefetched, link, seg, doubt, truth, left>>

\* The stream is silent (live_idle_stall_message), or delivers heartbeats only.
Stall(silent) ==
  /\ at = "loop" /\ ~seg.held /\ seg.pending = {}
  /\ IF silent THEN Lose("stall")
     ELSE End(HollowMessage("failed")) /\ UNCHANGED <<cause, link, seg, doubt, truth>>
  /\ UNCHANGED <<stream, prefetched, left>>

-----------------------------------------------------------------------------
Recover ==
  \/ Retry \/ GiveUp \/ Resumed
  \/ \E why \in {"rejected", "required", "other"} : Refused(why)
  \/ \E how \in {"failed", "lost"} : OpenFails(how)

Batch ==
  \/ Expose \/ AcceptBatch \/ DrainOne \/ DrainEmpty
  \/ Send \/ SendFails \/ Settle
  \/ \E how \in {"failed", "lost"} : SendEnds(how)

Next ==
  \/ \E what \in Chunks \cup Losses : Receive(what)
  \/ Take \/ Recover \/ Batch
  \/ Cancel \/ CancelRecovery
  \/ HardTimeout \/ ProbationExpires \/ WaitExpires
  \/ \E silent \in BOOLEAN : Stall(silent)

Spec == Init /\ [][Next]_vars

\* Every wait of a recovery is under a timer: the backoff, the permit, the open.
FairSpec == Spec /\ WF_vars(Recover)

-----------------------------------------------------------------------------
(* Properties.                                                              *)

\* "another ResumeAction is only safe once this stream has produced a body
\* chunk": none is sent while Cursor may be working on an earlier one that
\* never answered, whatever the losses, stalls and failed sends in between.
OneUnprovenResume == at \in {"recovering", "opening"} => ~truth.resume

\* Tool results are accepted only when the stream the Run goes on with carried
\* all of them, also when another one replaced the stream between two sends.
AcceptedOnStream == at \in {"sent", "absorbing"} => truth.carrier = stream.of

\* Neither a turn nor a batch of results is worked on twice.
NothingTwice == OneUnprovenResume /\ AcceptedOnStream

\* A Run that asks for a silent retry has shown nothing of its segment: not in
\* the loop, not during a drain, not in the flush of deferred text.
RetryIsUnseen == outcome = "retry" => ~truth.shown

\* A plain cancellation, after which the operation may be repeated, never
\* leaves results behind that Cursor was sent and has not answered.
CancelHonest == outcome = "cancelled" => ~truth.results

\* The outcome a client may act on by repeating the turn is a true one.
HonestEnd == RetryIsUnseen /\ CancelHonest

\* What the next step can take: the loop looks at the prefetched items first, a
\* drain takes from the channel only.
Supply == IF at = "loop" THEN Offered ELSE stream.queue

\* The step takes the first item of the supply, in the loop or in a drain.
Takes ==
  /\ Supply # <<>>
  /\ \/ at = "loop" /\ prefetched' \o stream'.queue = Tail(Supply)
     \/ at \in {"draining", "absorbing"} /\ stream'.queue = Tail(Supply)

\* A frame completes the Run only at an END without error or at the end of the
\* body.  The turn_ended that an END error may follow in a later chunk
\* completes it nowhere but in the drain after the results of a batch
\* (live.rs:10186), which does not hold it: the loop and the drain before the
\* results never let it.
SuccessAtEnd ==
  [][Takes /\ outcome' = "success" =>
       \/ Head(Supply).what \in {"ok", "ended ok", "eof", "cut"}
       \/ at = "absorbing" /\ Head(Supply).what = "ended"]_vars

\* "Holding it prevents a later, separately chunked END error from being masked
\* by a fabricated successful Anthropic end_turn" (live.rs:9086-9088): no
\* turn_ended completes the Run while an END error is queued behind it.  It
\* fails: drain_queued_upstream processes the turn_ended when it comes (9252).
TurnEndHeld ==
  [][Takes /\ Head(Supply).what = "ended" /\ outcome' = "success" =>
       \A i \in DOMAIN stream'.queue : stream'.queue[i].what \notin {"bad", "lost"}]_vars

\* An episode ends: with a stream or with the Run.
EpisodeEnds == at \in {"recovering", "opening"} ~> at \notin {"recovering", "opening"}
=============================================================================
