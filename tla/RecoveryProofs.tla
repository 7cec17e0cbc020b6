--------------------------- MODULE RecoveryProofs ---------------------------
(***************************************************************************)
(* Theorems about Recovery, for every budget of ResumeActions, capacity of *)
(* the channel, number of streams and batches.                             *)
(***************************************************************************)
EXTENDS Recovery, SequenceTheorems, TLAPS

-----------------------------------------------------------------------------
(* The inductive invariant.                                                 *)

LinkType == [sand: BOOLEAN, h1: BOOLEAN, rejected: BOOLEAN, opens: 0..MaxOpens,
             probation: BOOLEAN, got: BOOLEAN]
SegType == [saw: BOOLEAN, held: BOOLEAN, deferred: BOOLEAN,
            pending: SUBSET {"collecting", "awaiting"}]
DoubtType == [accepted: BOOLEAN, sent: BOOLEAN]
TruthType == [resume: BOOLEAN, results: BOOLEAN, carrier: 0..MaxStreams, shown: BOOLEAN]
Outcomes == {"success", "retry", "lost", "failed", "cancelled"}
Failures == {"eof", "error", "stall", "send"}

\* A Run without an outcome goes on, and a recovery has a cause.
Ongoing ==
  /\ at # "done" => outcome = "none"
  /\ at \in {"recovering", "opening"} => cause \in Failures

\* The channel of a stream holds only what that stream delivered, and a drain
\* keeps nothing but losses for the loop: progress is always progress of the
\* stream that was asked.
ProgressIsOwn ==
  /\ stream.queue \in Seq([of: {stream.of}, what: Chunks \cup Losses])
  /\ prefetched \in Seq([of: 1..MaxStreams, what: Losses])

\* A ResumeAction that Cursor may be working on keeps the link on probation.
ResumeOnProbation ==
  truth.resume => link.probation /\ ~link.got /\ at \notin {"recovering", "opening"}

\* What the client was shown is recorded in the segment.
ShownIsSeen == truth.shown => seg.saw

\* Results without an answer are in doubt.
ResultsInDoubt == truth.results => doubt.sent

IInv ==
  /\ TypeOK
  /\ Ongoing
  /\ ProgressIsOwn
  /\ ResumeOnProbation
  /\ AcceptedOnStream
  /\ ShownIsSeen /\ RetryIsUnseen
  /\ ResultsInDoubt /\ CancelHonest

\* A step ends the Run, with a retry only if the segment was not seen.
Closes ==
  /\ at' = "done" /\ outcome' \in {"success", "retry", "failed", "lost"}
  /\ outcome' = "retry" => ~seg.saw

-----------------------------------------------------------------------------
(* Ends and losses.                                                         *)

\* A processed turn_ended or END ends the Run.
LEMMA FinishCloses ==
  ASSUME Finish
  PROVE  Closes
  BY DEF Finish, End, Closes

\* What follows a failed recovery.
LEMMA FailCloses ==
  ASSUME NEW why \in Failures, NEW how \in {"failed", "lost"}, Fail(why, how)
  PROVE  Closes
  BY DEF Fail, End, HollowMessage, Hollow, Closes, Failures

\* A loss starts a recovery, if the stream has answered, or ends the Run.
LEMMA LossSteps ==
  ASSUME IInv, at \notin {"recovering", "opening", "done"}, NEW why \in Failures, Lose(why)
  PROVE  /\ UNCHANGED <<seg, doubt, truth>>
         /\ \/ /\ at' = "recovering" /\ cause' = why /\ outcome' = outcome /\ ~truth.resume
               /\ link' \in LinkType /\ link'.probation = link.probation /\ link'.got = link.got
            \/ Closes /\ UNCHANGED <<cause, link>>
<1>1. CASE ShouldResume
  <2>1. link \in LinkType
    BY DEF IInv, TypeOK, LinkType
  <2>2. link' \in Prepared(why)
    BY <1>1 DEF Lose
  <2>3. link' \in LinkType /\ link'.probation = link.probation /\ link'.got = link.got
    BY <2>1, <2>2 DEF Prepared, LinkType
  <2>4. ~truth.resume
    BY <1>1 DEF IInv, ResumeOnProbation, ShouldResume
  <2> QED
    BY <1>1, <2>3, <2>4 DEF Lose
<1>2. CASE ~ShouldResume
  BY <1>2, FailCloses DEF Lose
<1> QED
  BY <1>1, <1>2

\* The link after an answer.
LEMMA AnsweredType ==
  ASSUME link \in LinkType
  PROVE  Answered \in LinkType /\ Answered.got /\ ~Answered.probation
<1>1. 0 \in 0..MaxOpens
  BY RecoveryAssumption
<1>2. [link EXCEPT !.got = TRUE] \in LinkType
  BY DEF LinkType
<1>3. [[link EXCEPT !.got = TRUE] EXCEPT !.opens = 0] \in LinkType
  BY <1>1, <1>2 DEF LinkType
<1>4. Answered = [[[link EXCEPT !.got = TRUE] EXCEPT !.opens = 0] EXCEPT !.probation = FALSE]
  BY DEF Answered
<1> QED
  BY <1>3, <1>4 DEF LinkType

\* A chunk of the current stream in the loop.
LEMMA ChunkSteps ==
  ASSUME IInv, at = "loop", NEW item \in [of: {stream.of}, what: Chunks], TakeChunk(item)
  PROVE  /\ link' \in LinkType /\ doubt' \in DoubtType /\ seg' \in SegType /\ truth' \in TruthType
         /\ (at' = "loop" /\ outcome' = "none") \/ Closes
         /\ truth'.resume => link'.probation /\ ~link'.got
         /\ truth'.results => doubt'.sent
         /\ truth'.shown => seg'.saw
         /\ at' = "done" => truth'.shown = truth.shown
<1> DEFINE what == item.what
           t == IF what \in Progress THEN Proven(item, truth) ELSE truth
<1>1. /\ link \in LinkType /\ doubt \in DoubtType /\ seg \in SegType /\ truth \in TruthType
      /\ outcome = "none" /\ item.of = stream.of
      /\ truth.resume => link.probation /\ ~link.got
      /\ truth.results => doubt.sent
      /\ truth.shown => seg.saw
  BY DEF IInv, TypeOK, LinkType, DoubtType, SegType, TruthType, Ongoing, ResumeOnProbation,
     ResultsInDoubt, ShownIsSeen
<1>2. CASE what \in {"bad", "ended bad", "lost"}
  BY <1>1, <1>2 DEF TakeChunk, End, Closes
<1>3. CASE what \notin {"bad", "ended bad", "lost"}
  <2>1. /\ t \in TruthType /\ t.shown = truth.shown
        /\ t.resume => truth.resume /\ what \notin Progress
        /\ t.results => truth.results /\ what \notin Progress
    BY <1>1 DEF Proven, TruthType
  <2>2. /\ link' = IF what \in Progress THEN Answered ELSE link
        /\ doubt' = IF what \in Progress THEN [accepted |-> FALSE, sent |-> FALSE] ELSE doubt
        /\ \/ Finish /\ seg' = seg /\ truth' = t
           \/ seg' = [seg EXCEPT !.held = TRUE] /\ truth' = t /\ at' = at /\ outcome' = outcome
           \/ Process(what, t) /\ at' = at /\ outcome' = outcome
    BY <1>3 DEF TakeChunk
  <2>3. link' \in LinkType /\ doubt' \in DoubtType
    <3>2. Answered \in LinkType
      BY <1>1, AnsweredType
    <3> QED
      BY <1>1, <2>2, <3>2 DEF DoubtType
  <2> HIDE DEF t, what
  <2>4. CASE Finish /\ seg' = seg /\ truth' = t
    BY <1>1, <2>1, <2>2, <2>3, <2>4, FinishCloses DEF Closes
  <2>5. CASE seg' = [seg EXCEPT !.held = TRUE] /\ truth' = t /\ at' = at /\ outcome' = outcome
    <3>1. seg' \in SegType /\ seg'.saw = seg.saw
      BY <1>1, <2>5 DEF SegType
    <3> QED
      BY <1>1, <2>1, <2>2, <2>3, <2>5, <3>1
  <2>6. CASE Process(what, t) /\ at' = at /\ outcome' = outcome
    <3>1. /\ seg' \in SegType /\ truth' \in TruthType
          /\ truth'.resume = t.resume /\ truth'.results = t.results
          /\ truth'.shown => seg'.saw
      BY <1>1, <2>1, <2>6 DEF Process, SegType, TruthType
    <3> QED
      BY <1>1, <2>1, <2>2, <2>3, <2>6, <3>1
  <2> QED
    BY <2>2, <2>4, <2>5, <2>6
<1> QED
  BY <1>2, <1>3

\* The end of a body in the loop.
LEMMA EndOfBodySteps ==
  ASSUME IInv, at = "loop", NEW item, TakeLoss(item)
  PROVE  /\ UNCHANGED <<seg, doubt, truth>>
         /\ \/ /\ at' = "recovering" /\ cause' \in Failures /\ outcome' = outcome /\ ~truth.resume
               /\ link' \in LinkType /\ link'.probation = link.probation /\ link'.got = link.got
            \/ Closes /\ UNCHANGED <<cause, link>>
<1>1. CASE Lose("eof") \/ Lose("error")
  BY <1>1, LossSteps DEF Failures
<1>2. CASE UNCHANGED <<cause, link, seg, doubt, truth>> /\ (End("failed") \/ End("success") \/ Finish)
  BY <1>2, FinishCloses DEF End, Closes
<1> QED
  BY <1>1, <1>2 DEF TakeLoss

-----------------------------------------------------------------------------
(* Steps that keep the invariant.                                           *)

\* A queue of the current stream is one of items.
LEMMA OwnItems ==
  ASSUME NEW n \in 1..MaxStreams, NEW q \in Seq([of: {n}, what: Chunks \cup Losses])
  PROVE  q \in Seq(Item)
<1>1. [of: {n}, what: Chunks \cup Losses] \subseteq Item
  BY DEF Item
<1> QED
  BY <1>1, SeqMonotonic

\* What a drain keeps is made of items.
LEMMA LossItems ==
  ASSUME NEW q \in Seq([of: 1..MaxStreams, what: Losses])
  PROVE  q \in Seq(Item)
<1>1. [of: 1..MaxStreams, what: Losses] \subseteq Item
  BY DEF Item
<1> QED
  BY <1>1, SeqMonotonic

\* A step that only ends the Run.
LEMMA ClosingKeeps ==
  ASSUME IInv, Closes, UNCHANGED <<stream, prefetched, link, seg, doubt, truth, left, cause>>
  PROVE  IInv'
<1>1. TypeOK'
  BY DEF IInv, TypeOK, Closes, Places
<1>2. Ongoing' /\ ResumeOnProbation' /\ AcceptedOnStream'
  BY DEF IInv, Ongoing, ResumeOnProbation, AcceptedOnStream, Closes
<1>3. ProgressIsOwn'
  BY DEF IInv, ProgressIsOwn
<1>4. ShownIsSeen' /\ RetryIsUnseen' /\ ResultsInDoubt' /\ CancelHonest'
  BY DEF IInv, ShownIsSeen, RetryIsUnseen, ResultsInDoubt, CancelHonest, Closes
<1> QED
  BY <1>1, <1>2, <1>3, <1>4 DEF IInv

\* A step that loses the stream.
LEMMA LosingKeeps ==
  ASSUME IInv, at \notin {"recovering", "opening", "done"},
         stream' \in [of: {stream.of}, open: BOOLEAN, queue: Seq(Item)], ProgressIsOwn',
         left' = left, UNCHANGED <<seg, doubt, truth>>,
         \/ /\ at' = "recovering" /\ cause' \in Failures /\ outcome' = outcome /\ ~truth.resume
            /\ link' \in LinkType /\ link'.probation = link.probation /\ link'.got = link.got
         \/ Closes /\ UNCHANGED <<cause, link>>
  PROVE  IInv'
<1>0. prefetched' \in Seq(Item)
  BY LossItems DEF ProgressIsOwn
<1>1. TypeOK'
  BY <1>0 DEF IInv, TypeOK, Closes, Places, Failures, LinkType
<1>2. Ongoing' /\ ResumeOnProbation' /\ AcceptedOnStream'
  BY DEF IInv, Ongoing, ResumeOnProbation, AcceptedOnStream, Closes
<1>4. ShownIsSeen' /\ RetryIsUnseen' /\ ResultsInDoubt' /\ CancelHonest'
  BY DEF IInv, ShownIsSeen, RetryIsUnseen, ResultsInDoubt, CancelHonest, Closes, Ongoing
<1> QED
  BY <1>1, <1>2, <1>4 DEF IInv

\* What the channels hold.
LEMMA Channels ==
  ASSUME IInv
  PROVE  /\ stream.of \in 1..MaxStreams /\ stream.open \in BOOLEAN
         /\ stream = [of |-> stream.of, open |-> stream.open, queue |-> stream.queue]
         /\ stream.queue \in Seq([of: {stream.of}, what: Chunks \cup Losses])
         /\ prefetched \in Seq([of: 1..MaxStreams, what: Losses])
         /\ stream.queue # <<>> =>
              /\ Head(stream.queue) \in [of: {stream.of}, what: Chunks \cup Losses]
              /\ Tail(stream.queue) \in Seq([of: {stream.of}, what: Chunks \cup Losses])
         /\ prefetched # <<>> =>
              /\ Head(prefetched) \in [of: 1..MaxStreams, what: Losses]
              /\ Tail(prefetched) \in Seq([of: 1..MaxStreams, what: Losses])
<1>1. /\ stream.of \in 1..MaxStreams /\ stream.open \in BOOLEAN
      /\ stream = [of |-> stream.of, open |-> stream.open, queue |-> stream.queue]
  BY DEF IInv, TypeOK
<1>2. /\ stream.queue \in Seq([of: {stream.of}, what: Chunks \cup Losses])
      /\ prefetched \in Seq([of: 1..MaxStreams, what: Losses])
  BY DEF IInv, ProgressIsOwn
<1>3. \A T, q : q \in Seq(T) /\ q # <<>> => Head(q) \in T /\ Tail(q) \in Seq(T)
  BY HeadTailProperties
<1> QED
  BY <1>1, <1>2, <1>3

\* What the loop is offered: a loss, or what the current stream delivered.
LEMMA OfferedIs ==
  ASSUME IInv, Offered # <<>>
  PROVE  /\ prefetched # <<>> => Head(Offered) = Head(prefetched)
         /\ prefetched = <<>> => Offered = stream.queue /\ stream.queue # <<>>
<1>1. prefetched \in Seq(Item) /\ stream.queue \in Seq(Item)
  BY Channels, OwnItems, LossItems
<1>2. CASE prefetched = <<>>
  BY <1>1, <1>2, ConcatEmptySeq DEF Offered
<1>3. CASE prefetched # <<>>
  <2>1. Len(prefetched) \in Nat \ {0} /\ Len(stream.queue) \in Nat
    BY <1>1, <1>3, EmptySeq, LenProperties
  <2>2. /\ Offered \in Seq(Item) /\ Len(Offered) = Len(prefetched) + Len(stream.queue)
        /\ \A j \in 1 .. Len(prefetched) + Len(stream.queue) :
             Offered[j] = IF j <= Len(prefetched) THEN prefetched[j]
                          ELSE stream.queue[j - Len(prefetched)]
    BY <1>1, ConcatProperties DEF Offered
  <2>3. Offered[1] = prefetched[1]
    BY <2>1, <2>2
  <2> QED
    BY <1>3, <2>3 DEF Head
<1> QED
  BY <1>2, <1>3

\* The upstream arm of the loop.
LEMMA TakeKeeps ==
  ASSUME IInv, Take
  PROVE  IInv'
<1> DEFINE item == Head(Offered)
<1>1. /\ at = "loop" /\ Offered # <<>> /\ left' = left /\ outcome = "none"
  BY DEF Take, IInv, Ongoing
<1>2. /\ stream' \in [of: {stream.of}, open: BOOLEAN, queue: Seq(Item)] /\ stream'.of = stream.of
      /\ ProgressIsOwn'
      /\ item \in [of: {stream.of}, what: Chunks] \/ item.what \in Losses
  <2>1. CASE prefetched # <<>>
    <3>1. prefetched' = Tail(prefetched) /\ stream' = stream
      BY <2>1 DEF Take
    <3>2. stream.queue \in Seq(Item)
      BY Channels, OwnItems
    <3> QED
      BY <1>1, <2>1, <3>1, <3>2, Channels, OfferedIs DEF ProgressIsOwn
  <2>2. CASE prefetched = <<>>
    <3>1. prefetched' = prefetched /\ stream' = [stream EXCEPT !.queue = Tail(@)]
      BY <2>2 DEF Take
    <3>2. stream' = [of |-> stream.of, open |-> stream.open, queue |-> Tail(stream.queue)]
      BY <3>1, Channels
    <3>3. Offered = stream.queue /\ stream.queue # <<>>
      BY <1>1, <2>2, OfferedIs
    <3>4. Tail(stream.queue) \in Seq([of: {stream.of}, what: Chunks \cup Losses])
      BY <3>3, Channels
    <3>5. Tail(stream.queue) \in Seq(Item)
      BY <3>4, Channels, OwnItems
    <3>6. item \in [of: {stream.of}, what: Chunks] \/ item.what \in Losses
      BY <3>3, Channels
    <3> QED
      BY <3>1, <3>2, <3>4, <3>5, <3>6, Channels DEF ProgressIsOwn
  <2> QED
    BY <2>1, <2>2
<1>3. CASE item.what \in Losses
  <2>1. TakeLoss(item)
    BY <1>3 DEF Take
  <2> HIDE DEF item
  <2> QED
    BY <1>1, <1>2, <2>1, EndOfBodySteps, LosingKeeps
<1>4. CASE item.what \notin Losses
  <2>1. TakeChunk(item) /\ cause' = cause
    BY <1>4 DEF Take
  <2> HIDE DEF item
  <2>2. /\ link' \in LinkType /\ doubt' \in DoubtType /\ seg' \in SegType /\ truth' \in TruthType
        /\ (at' = "loop" /\ outcome' = "none") \/ Closes
        /\ truth'.resume => link'.probation /\ ~link'.got
        /\ truth'.results => doubt'.sent
        /\ truth'.shown => seg'.saw
        /\ at' = "done" => truth'.shown = truth.shown
    BY <1>1, <1>2, <1>4, <2>1, ChunkSteps
  <2>3. TypeOK'
    <3>1. prefetched' \in Seq(Item)
      BY <1>2, LossItems DEF ProgressIsOwn
    <3> QED
      BY <1>1, <1>2, <2>1, <2>2, <3>1
         DEF IInv, TypeOK, Closes, Places, LinkType, DoubtType, SegType, TruthType
  <2>4. Ongoing' /\ ResumeOnProbation' /\ AcceptedOnStream'
    BY <1>1, <2>1, <2>2 DEF Ongoing, ResumeOnProbation, AcceptedOnStream, Closes
  <2>5. ShownIsSeen' /\ RetryIsUnseen' /\ ResultsInDoubt' /\ CancelHonest'
    BY <2>2 DEF IInv, ShownIsSeen, RetryIsUnseen, ResultsInDoubt, CancelHonest, Closes
  <2> QED
    BY <1>2, <2>3, <2>4, <2>5 DEF IInv
<1> QED
  BY <1>3, <1>4

\* The pump.
LEMMA ReceiveKeeps ==
  ASSUME IInv, NEW what \in Chunks \cup Losses, Receive(what)
  PROVE  IInv'
<1> DEFINE new == [of |-> stream.of, what |-> what]
<1>1. /\ stream' = [stream EXCEPT !.open = what \notin Losses, !.queue = Append(@, new)]
      /\ left.chunks > 0 /\ left' = [left EXCEPT !.chunks = @ - 1]
      /\ UNCHANGED <<at, cause, prefetched, link, seg, doubt, truth, outcome>>
  BY DEF Receive
<1>2. stream' = [of |-> stream.of, open |-> what \notin Losses, queue |-> Append(stream.queue, new)]
  BY <1>1, Channels
<1>3. Append(stream.queue, new) \in Seq([of: {stream.of}, what: Chunks \cup Losses])
  BY Channels
<1>4. Append(stream.queue, new) \in Seq(Item)
  BY <1>3, Channels, OwnItems
<1>5. stream' \in [of: 1..MaxStreams, open: BOOLEAN, queue: Seq(Item)] /\ ProgressIsOwn'
  BY <1>1, <1>2, <1>3, <1>4, Channels DEF ProgressIsOwn
<1>6. left' \in [chunks: 0..MaxChunks, batches: 0..MaxBatches]
  BY <1>1, RecoveryAssumption DEF IInv, TypeOK
<1>7. TypeOK'
  BY <1>1, <1>5, <1>6 DEF IInv, TypeOK
<1>8. stream'.of = stream.of
  BY <1>2
<1> QED
  BY <1>1, <1>5, <1>7, <1>8 DEF IInv, Ongoing, ResumeOnProbation, AcceptedOnStream, ShownIsSeen,
     RetryIsUnseen, ResultsInDoubt, CancelHonest

\* The loop of try_live_reconnect up to the open.
LEMMA RetryKeeps ==
  ASSUME IInv, Retry
  PROVE  IInv'
<1>1. /\ at = "recovering" /\ at' = "opening" /\ link.opens < MaxOpens
      /\ seg' = [seg EXCEPT !.pending = @ \ {"collecting"}]
      /\ UNCHANGED <<cause, stream, prefetched, doubt, truth, outcome, left>>
  BY DEF Retry
<1>2. PICK barred \in BOOLEAN : link' = Opens(ApplyBreakers(link, barred))
  BY DEF Retry
<1>3. link \in LinkType /\ seg \in SegType
  BY DEF IInv, TypeOK, LinkType, SegType
<1>4. ApplyBreakers(link, barred) \in LinkType /\ ApplyBreakers(link, barred).opens = link.opens
  BY <1>3 DEF ApplyBreakers, LinkType
<1>5. link' \in LinkType
  <2> DEFINE l == ApplyBreakers(link, barred)
  <2>1. l.opens + 1 \in 0..MaxOpens
    BY <1>1, <1>3, <1>4, RecoveryAssumption DEF LinkType
  <2> HIDE DEF l
  <2> QED
    BY <1>2, <1>4, <2>1 DEF Opens, LinkType, l
<1>6. seg' \in SegType /\ seg'.saw = seg.saw
  BY <1>1, <1>3 DEF SegType
<1>7. TypeOK'
  BY <1>1, <1>5, <1>6 DEF IInv, TypeOK, Places, LinkType, SegType
<1> QED
  BY <1>1, <1>6, <1>7 DEF IInv, Ongoing, ProgressIsOwn, ResumeOnProbation, AcceptedOnStream,
     ShownIsSeen, RetryIsUnseen, ResultsInDoubt, CancelHonest

\* A recovery that ends without a stream ends the Run.
LEMMA FailedRecoveryKeeps ==
  ASSUME IInv, at \in {"recovering", "opening"}, NEW how \in {"failed", "lost"}, Fail(cause, how),
         UNCHANGED <<cause, stream, prefetched, link, seg, doubt, truth, left>>
  PROVE  IInv'
<1>1. Closes
  BY FailCloses DEF IInv, Ongoing
<1> QED
  BY <1>1, ClosingKeeps

\* A ResumeAction that is taken puts the link on probation.
LEMMA ResumedKeeps ==
  ASSUME IInv, Resumed
  PROVE  IInv'
<1>1. /\ at = "opening" /\ stream.of < MaxStreams /\ stream' = Stream(stream.of + 1)
      /\ truth' = [truth EXCEPT !.resume = TRUE]
      /\ at' \in {"resending", "loop"} /\ cause' = "none" /\ doubt' = doubt
      /\ UNCHANGED <<prefetched, seg, outcome, left>>
  BY DEF Resumed, Replacement, Replaced
<1>2. PICK h1 \in {link.h1} \cup {FALSE} :
        link' = [link EXCEPT !.h1 = h1, !.probation = TRUE, !.got = FALSE]
  BY DEF Resumed
<1>3. link \in LinkType /\ truth \in TruthType
  BY DEF IInv, TypeOK, LinkType, TruthType
<1>4. link' \in LinkType /\ link'.probation /\ ~link'.got
  <2>1. [link EXCEPT !.h1 = h1] \in LinkType
    BY <1>3 DEF LinkType
  <2>2. [[link EXCEPT !.h1 = h1] EXCEPT !.probation = TRUE] \in LinkType
    BY <2>1 DEF LinkType
  <2>3. link' = [[[link EXCEPT !.h1 = h1] EXCEPT !.probation = TRUE] EXCEPT !.got = FALSE]
    BY <1>2
  <2> QED
    BY <2>2, <2>3 DEF LinkType
<1>5. /\ truth' \in TruthType /\ truth'.shown = truth.shown /\ truth'.results = truth.results
  BY <1>1, <1>3 DEF TruthType
<1>6. stream.of + 1 \in 1..MaxStreams
  BY <1>1, Channels, RecoveryAssumption
<1>7. stream' \in [of: 1..MaxStreams, open: BOOLEAN, queue: Seq(Item)] /\ ProgressIsOwn'
  BY <1>1, <1>6, Channels, EmptySeq DEF Stream, ProgressIsOwn
<1>8. TypeOK'
  BY <1>1, <1>4, <1>5, <1>7 DEF IInv, TypeOK, Places, LinkType, TruthType
<1> QED
  BY <1>1, <1>4, <1>5, <1>7, <1>8 DEF IInv, Ongoing, ResumeOnProbation, AcceptedOnStream,
     ShownIsSeen, RetryIsUnseen, ResultsInDoubt, CancelHonest

\* A refused open goes back to the loop of the episode or ends it.
LEMMA RefusedKeeps ==
  ASSUME IInv, NEW why \in {"rejected", "required", "other"}, Refused(why)
  PROVE  IInv'
<1>1. at = "opening" /\ UNCHANGED <<cause, stream, prefetched, seg, doubt, truth, left>>
  BY DEF Refused
<1>2. CASE Fail(cause, "failed") /\ link' = link
  BY <1>1, <1>2, FailedRecoveryKeeps
<1>3. CASE /\ at' = "recovering" /\ outcome' = outcome
           /\ link' \in {[link EXCEPT !.h1 = FALSE, !.rejected = TRUE],
                         [link EXCEPT !.h1 = ~link.sand], link}
  <2>1. link' \in LinkType
    <3>1. link \in LinkType
      BY DEF IInv, TypeOK, LinkType
    <3> QED
      BY <1>3, <3>1 DEF LinkType
  <2>2. TypeOK'
    BY <1>1, <1>3, <2>1 DEF IInv, TypeOK, Places, LinkType
  <2> QED
    BY <1>1, <1>3, <2>2 DEF IInv, Ongoing, ProgressIsOwn, ResumeOnProbation, AcceptedOnStream,
       ShownIsSeen, RetryIsUnseen, ResultsInDoubt, CancelHonest
<1> QED
  BY <1>2, <1>3 DEF Refused

\* Every step of an episode.
LEMMA RecoverKeeps ==
  ASSUME IInv, Recover
  PROVE  IInv'
<1>1. CASE GiveUp
  BY <1>1, FailedRecoveryKeeps DEF GiveUp
<1>2. ASSUME NEW how \in {"failed", "lost"}, OpenFails(how)  PROVE IInv'
  BY <1>2, FailedRecoveryKeeps DEF OpenFails
<1> QED
  BY <1>1, <1>2, RetryKeeps, ResumedKeeps, RefusedKeeps DEF Recover

\* The segment and the evidence, while the stream and the link stay.
LEMMA SegmentKeeps ==
  ASSUME IInv, at \notin {"recovering", "opening", "done"},
         at' \in Places \ {"recovering", "opening", "done"},
         UNCHANGED <<cause, link, outcome>>,
         stream' \in [of: {stream.of}, open: BOOLEAN, queue: Seq(Item)], ProgressIsOwn',
         seg' \in SegType, doubt' \in DoubtType, truth' \in TruthType,
         left' \in [chunks: 0..MaxChunks, batches: 0..MaxBatches],
         truth'.resume = truth.resume, truth'.results => doubt'.sent,
         truth'.shown => seg'.saw,
         at' \in {"sent", "absorbing"} => truth'.carrier = stream.of
  PROVE  IInv'
<1>1. prefetched' \in Seq(Item)
  BY LossItems DEF ProgressIsOwn
<1>2. TypeOK'
  BY <1>1 DEF IInv, TypeOK, SegType, DoubtType, TruthType
<1>3. stream'.of = stream.of
  OBVIOUS
<1> QED
  BY <1>2, <1>3 DEF IInv, Ongoing, ResumeOnProbation, AcceptedOnStream, ShownIsSeen,
     RetryIsUnseen, ResultsInDoubt, CancelHonest

\* What the invariant says of the segment and the evidence.
LEMMA Evidence ==
  ASSUME IInv
  PROVE  /\ seg \in SegType /\ doubt \in DoubtType /\ truth \in TruthType
         /\ stream \in [of: {stream.of}, open: BOOLEAN, queue: Seq(Item)] /\ ProgressIsOwn
         /\ left \in [chunks: 0..MaxChunks, batches: 0..MaxBatches]
         /\ truth.results => doubt.sent
         /\ truth.shown => seg.saw
         /\ at \in {"sent", "absorbing"} => truth.carrier = stream.of
         /\ at # "done" => outcome = "none"
  BY DEF IInv, TypeOK, SegType, DoubtType, TruthType, ResultsInDoubt, ShownIsSeen, AcceptedOnStream, Ongoing

\* The end of a drain.
LEMMA EndDrainSteps ==
  ASSUME IInv, at \in {"draining", "absorbing"}, EndDrain
  PROVE  /\ at' \in {"sending", "loop"} /\ seg' \in SegType /\ truth' \in TruthType
         /\ truth'.resume = truth.resume /\ truth'.results = truth.results
         /\ truth'.shown => seg'.saw
<1>1. CASE at = "draining"
  BY <1>1, Evidence DEF EndDrain
<1>2. CASE at = "absorbing"
  <2>1. /\ at' = "loop" /\ seg' = [seg EXCEPT !.saw = @ \/ seg.deferred, !.deferred = FALSE]
        /\ truth' = [truth EXCEPT !.shown = @ \/ seg.deferred]
    BY <1>2 DEF EndDrain, Flush
  <2>2. seg \in SegType /\ truth \in TruthType /\ (truth.shown => seg.saw)
    BY Evidence
  <2>3. seg' \in SegType /\ (seg'.saw <=> seg.saw \/ seg.deferred)
    BY <2>1, <2>2 DEF SegType
  <2>4. /\ truth' \in TruthType /\ truth'.resume = truth.resume /\ truth'.results = truth.results
        /\ (truth'.shown <=> truth.shown \/ seg.deferred)
    BY <2>1, <2>2 DEF TruthType, SegType
  <2> QED
    BY <2>1, <2>2, <2>3, <2>4
<1> QED
  BY <1>1, <1>2

\* A drain processes chunks and keeps a loss for the loop.
LEMMA DrainOneKeeps ==
  ASSUME IInv, DrainOne
  PROVE  IInv'
<1> DEFINE item == Head(stream.queue)
<1>1. /\ at \in {"draining", "absorbing"} /\ stream.queue # <<>>
      /\ stream' = [stream EXCEPT !.queue = Tail(@)]
      /\ UNCHANGED <<cause, link, doubt, left>>
  BY DEF DrainOne
<1>2. stream' = [of |-> stream.of, open |-> stream.open, queue |-> Tail(stream.queue)]
  BY <1>1, Channels
<1>3. Tail(stream.queue) \in Seq([of: {stream.of}, what: Chunks \cup Losses])
  BY <1>1, Channels
<1>4. /\ stream' \in [of: {stream.of}, open: BOOLEAN, queue: Seq(Item)]
      /\ stream'.queue \in Seq([of: {stream'.of}, what: Chunks \cup Losses])
  BY <1>2, <1>3, Channels, OwnItems
<1>5. item \in [of: {stream.of}, what: Chunks \cup Losses] /\ stream.of \in 1..MaxStreams
  BY <1>1, Channels
<1>6. CASE item.what \in Losses
  <2>1. prefetched' = Append(prefetched, item) /\ EndDrain /\ outcome' = outcome
    BY <1>6 DEF DrainOne
  <2>2. item \in [of: 1..MaxStreams, what: Losses]
    BY <1>5, <1>6
  <2> HIDE DEF item
  <2>3. prefetched' \in Seq([of: 1..MaxStreams, what: Losses])
    BY <2>1, <2>2, Channels
  <2>4. ProgressIsOwn'
    BY <1>4, <2>3 DEF ProgressIsOwn
  <2> QED
    BY <1>1, <1>4, <2>1, <2>4, Evidence, EndDrainSteps, SegmentKeeps DEF Places
<1>7. CASE item.what \notin Losses
  <2>1. prefetched' = prefetched
    BY <1>7 DEF DrainOne
  <2>2. ProgressIsOwn'
    BY <1>4, <2>1, Channels DEF ProgressIsOwn
  <2>3. \/ UNCHANGED <<seg, truth>> /\ (Finish \/ End("failed") \/ End("lost"))
        \/ Process(item.what, truth) /\ UNCHANGED <<at, outcome>>
    BY <1>7 DEF DrainOne
  <2> HIDE DEF item
  <2>4. CASE UNCHANGED <<seg, truth>> /\ (Finish \/ End("failed") \/ End("lost"))
    <3>1. Closes
      BY <2>4, FinishCloses DEF End, Closes
    <3> QED
      BY <1>1, <1>4, <2>2, <2>4, <3>1, LosingKeeps
  <2>5. CASE Process(item.what, truth) /\ UNCHANGED <<at, outcome>>
    <3>1. seg \in SegType /\ truth \in TruthType /\ (truth.shown => seg.saw)
      BY Evidence
    <3>2. /\ seg' \in SegType /\ truth' \in TruthType
          /\ truth'.resume = truth.resume /\ truth'.results = truth.results
          /\ truth'.carrier = truth.carrier
          /\ truth'.shown => seg'.saw
      BY <2>5, <3>1 DEF Process, SegType, TruthType
    <3> QED
      BY <1>1, <1>4, <2>2, <2>5, <3>2, Evidence, SegmentKeeps DEF Places
  <2> QED
    BY <2>3, <2>4, <2>5
<1> QED
  BY <1>6, <1>7

\* A batch that does not go out loses the stream.
LEMMA SendFailsKeeps ==
  ASSUME IInv, SendFails
  PROVE  IInv'
  BY Evidence, LossSteps, LosingKeeps DEF SendFails, Failures, ProgressIsOwn

\* The other steps of a batch.
LEMMA BatchKeeps ==
  ASSUME IInv, Batch
  PROVE  IInv'
<1>0. /\ seg \in SegType /\ doubt \in DoubtType /\ truth \in TruthType
      /\ stream \in [of: {stream.of}, open: BOOLEAN, queue: Seq(Item)] /\ ProgressIsOwn
      /\ left \in [chunks: 0..MaxChunks, batches: 0..MaxBatches]
      /\ truth.results => doubt.sent
      /\ truth.shown => seg.saw
      /\ at \in {"sent", "absorbing"} => truth.carrier = stream.of
      /\ stream.of \in 1..MaxStreams
  BY Evidence, Channels
<1>1. CASE Expose
  <2>1. seg' \in SegType /\ seg'.saw = seg.saw
    BY <1>0, <1>1 DEF Expose, SegType
  <2> QED
    BY <1>0, <1>1, <2>1, SegmentKeeps DEF Expose, ProgressIsOwn, Places
<1>2. CASE AcceptBatch
  <2>1. seg' \in SegType
    BY <1>0, <1>2 DEF AcceptBatch, SegType
  <2>2. truth' \in TruthType /\ ~truth'.shown /\ truth'.resume = truth.resume /\ truth'.results = truth.results
    BY <1>0, <1>2 DEF AcceptBatch, TruthType
  <2>3. left' \in [chunks: 0..MaxChunks, batches: 0..MaxBatches]
    BY <1>0, <1>2, RecoveryAssumption DEF AcceptBatch
  <2> QED
    BY <1>0, <1>2, <2>1, <2>2, <2>3, SegmentKeeps DEF AcceptBatch, ProgressIsOwn, Places
<1>3. CASE DrainEmpty
  BY <1>0, <1>3, EndDrainSteps, SegmentKeeps DEF DrainEmpty, ProgressIsOwn, Places
<1>4. CASE Send
  <2>1. doubt' \in DoubtType /\ doubt'.sent
    BY <1>0, <1>4 DEF Send, DoubtType
  <2>2. /\ truth' \in TruthType /\ truth'.shown = truth.shown /\ truth'.resume = truth.resume
        /\ truth'.carrier = stream.of
    <3>1. truth' = [[truth EXCEPT !.results = TRUE] EXCEPT !.carrier = stream.of]
      BY <1>4 DEF Send
    <3>2. stream.of \in 0..MaxStreams
      BY <1>0, RecoveryAssumption
    <3>3. [truth EXCEPT !.results = TRUE] \in TruthType
      BY <1>0 DEF TruthType
    <3> QED
      BY <3>1, <3>2, <3>3, <1>0 DEF TruthType
  <2> QED
    BY <1>0, <1>4, <2>1, <2>2, SegmentKeeps DEF Send, ProgressIsOwn, Places
<1>5. CASE Settle
  <2>1. seg' \in SegType /\ seg'.saw = seg.saw
    BY <1>0, <1>5 DEF Settle, SegType
  <2>2. doubt' \in DoubtType /\ doubt'.sent = doubt.sent
    BY <1>0, <1>5 DEF Settle, DoubtType
  <2> QED
    BY <1>0, <1>5, <2>1, <2>2, SegmentKeeps DEF Settle, ProgressIsOwn, Places
<1>6. ASSUME NEW how \in {"failed", "lost"}, SendEnds(how)  PROVE IInv'
  BY <1>6, ClosingKeeps DEF SendEnds, End, Closes
<1> QED
  BY <1>1, <1>2, <1>3, <1>4, <1>5, <1>6, DrainOneKeeps, SendFailsKeeps DEF Batch

-----------------------------------------------------------------------------
(* Cancellation and time.                                                   *)

\* A cancellation is plain only when nothing is in doubt.
LEMMA CancelKeeps ==
  ASSUME IInv, Cancel
  PROVE  IInv'
<1>1. /\ at' = "done" /\ outcome' \in {"failed", "cancelled"}
      /\ outcome' = "cancelled" => ~doubt.sent
      /\ UNCHANGED <<cause, stream, prefetched, link, seg, doubt, truth, left>>
  BY DEF Cancel, End, CancelAmbiguous
<1>2. TypeOK'
  BY <1>1 DEF IInv, TypeOK, Places
<1> QED
  BY <1>1, <1>2 DEF IInv, Ongoing, ProgressIsOwn, ResumeOnProbation, AcceptedOnStream,
     ShownIsSeen, RetryIsUnseen, ResultsInDoubt, CancelHonest

\* Timeouts and stalls.
LEMMA TimeKeeps ==
  ASSUME IInv, \/ HardTimeout \/ ProbationExpires \/ WaitExpires \/ CancelRecovery
               \/ \E silent \in BOOLEAN : Stall(silent)
  PROVE  IInv'
<1>1. CASE HardTimeout
  BY <1>1, ClosingKeeps DEF HardTimeout, End, Closes, Hollow
<1>2. CASE ProbationExpires
  BY <1>2, ClosingKeeps DEF ProbationExpires, End, Closes, HollowMessage, Hollow
<1>3. CASE WaitExpires \/ CancelRecovery
  BY <1>3, ClosingKeeps DEF WaitExpires, CancelRecovery, End, Closes
<1>4. ASSUME NEW silent \in BOOLEAN, Stall(silent)  PROVE IInv'
  <2>1. at = "loop" /\ UNCHANGED <<stream, prefetched, left>>
    BY <1>4 DEF Stall
  <2>2. CASE silent
    <3>1. Lose("stall")
      BY <1>4, <2>2 DEF Stall
    <3> QED
      BY <2>1, <3>1, Evidence, LossSteps, LosingKeeps DEF Failures, ProgressIsOwn
  <2>3. CASE ~silent
    BY <1>4, <2>1, <2>3, ClosingKeeps DEF Stall, End, Closes, HollowMessage, Hollow
  <2> QED
    BY <2>2, <2>3
<1> QED
  BY <1>1, <1>2, <1>3, <1>4

-----------------------------------------------------------------------------
(* Theorems.                                                                *)

\* The first stream is empty and nothing is in doubt.
LEMMA Initially == Init => IInv
<1> SUFFICES ASSUME Init  PROVE IInv
  OBVIOUS
<1>0. 1 \in 1..MaxStreams /\ 0 \in 0..MaxOpens /\ 0 \in 0..MaxStreams
      /\ MaxChunks \in 0..MaxChunks /\ MaxBatches \in 0..MaxBatches
  BY RecoveryAssumption
<1>1. stream \in [of: 1..MaxStreams, open: BOOLEAN, queue: Seq(Item)] /\ prefetched \in Seq(Item)
  BY <1>0, EmptySeq DEF Init, Stream
<1>2. link \in LinkType
  BY <1>0 DEF Init, LinkType
<1>3. TypeOK
  BY <1>0, <1>1, <1>2 DEF Init, TypeOK, Places, LinkType
<1>4. ProgressIsOwn
  BY EmptySeq DEF Init, Stream, ProgressIsOwn
<1> QED
  BY <1>3, <1>4 DEF Init, IInv, Ongoing, ResumeOnProbation, AcceptedOnStream, ShownIsSeen,
     RetryIsUnseen, ResultsInDoubt, CancelHonest

\* IInv is inductive.
LEMMA Invariance == Spec => []IInv
<1>1. IInv /\ [Next]_vars => IInv'
  <2> SUFFICES ASSUME IInv, [Next]_vars  PROVE IInv'
    OBVIOUS
  <2>1. CASE UNCHANGED vars
    BY <2>1 DEF vars, IInv, TypeOK, Ongoing, ProgressIsOwn, ResumeOnProbation, AcceptedOnStream,
       ShownIsSeen, RetryIsUnseen, ResultsInDoubt, CancelHonest
  <2> QED
    BY <2>1, ReceiveKeeps, TakeKeeps, RecoverKeeps, BatchKeeps, CancelKeeps, TimeKeeps DEF Next
<1> QED
  BY Initially, <1>1, PTL DEF Spec

\* The driver, its stream, its segment and its evidence keep their types.
THEOREM TypeCorrect == Spec => []TypeOK
<1>1. IInv => TypeOK
  BY DEF IInv
<1> QED
  BY <1>1, Invariance, PTL

\* No ResumeAction is sent while Cursor may be working on an earlier one, and
\* results are accepted only on the stream that carried all of them.
THEOREM WorkIsDoneOnce == Spec => []NothingTwice
<1>1. IInv => NothingTwice
  BY DEF IInv, NothingTwice, OneUnprovenResume, ResumeOnProbation
<1> QED
  BY <1>1, Invariance, PTL

\* A silent retry has shown nothing, a plain cancellation leaves nothing behind.
THEOREM EndsAreHonest == Spec => []HonestEnd
<1>1. IInv => HonestEnd
  BY DEF IInv, HonestEnd
<1> QED
  BY <1>1, Invariance, PTL

\* While the drain before the results of a batch runs, the batch is awaited: its
\* ends are failures.
DrainIsAwaited == at = "draining" => "awaiting" \in seg.pending

\* Only the acceptance of a batch starts that drain.
LEMMA DrainStarts ==
  ASSUME at # "draining", Next, at' = "draining"
  PROVE  AcceptBatch
<1>1. ~End("failed") /\ ~End("lost") /\ ~End("success") /\ ~End("retry") /\ ~End("cancelled")
  BY DEF End
<1>2. ~Finish /\ \A why \in Failures, how \in {"failed", "lost"} : ~Fail(why, how)
  BY FinishCloses, FailCloses DEF Closes
<1>3. \A why \in Failures : ~Lose(why)
  BY <1>2 DEF Lose
<1>4. ~Take
  <2> SUFFICES ASSUME Take  PROVE FALSE
    OBVIOUS
  <2>1. at = "loop"
    BY DEF Take
  <2>2. CASE TakeLoss(Head(Offered))
    BY <1>1, <1>2, <1>3, <2>2 DEF TakeLoss, Failures
  <2>3. CASE TakeChunk(Head(Offered))
    BY <1>1, <1>2, <2>1, <2>3 DEF TakeChunk
  <2> QED
    BY <2>2, <2>3 DEF Take
<1>5. ~Recover
  BY <1>1, <1>2 DEF Recover, Retry, GiveUp, Fail, End, Resumed, Refused, OpenFails
<1>6. Batch => AcceptBatch
  <2>1. ~SendFails
    BY <1>3 DEF SendFails, Failures
  <2>2. ~DrainOne /\ ~DrainEmpty
    BY <1>1, <1>2 DEF DrainOne, DrainEmpty, EndDrain
  <2> QED
    BY <2>1, <2>2 DEF Batch, Expose, Send, Settle, SendEnds, End
<1>7. ~(\E silent \in BOOLEAN : Stall(silent))
  BY <1>3 DEF Stall, End, Failures
<1> QED
  BY <1>4, <1>5, <1>6, <1>7
     DEF Next, Receive, Cancel, CancelRecovery, HardTimeout, ProbationExpires, WaitExpires, End

\* No step of it takes an exec out of the batch.
LEMMA DrainKeepsPending ==
  ASSUME at = "draining", at' = "draining", [Next]_vars
  PROVE  seg' = seg \/ \E item \in {Head(stream.queue)} : Process(item.what, truth)
<1>1. CASE Next
  BY <1>1 DEF Next, Receive, Take, Recover, Batch, Retry, GiveUp, Resumed, Refused, OpenFails,
     Expose, AcceptBatch, DrainOne, DrainEmpty, EndDrain, Send, SendFails, Settle, SendEnds,
     Cancel, CancelRecovery, HardTimeout, ProbationExpires, WaitExpires, Stall
<1>2. CASE UNCHANGED vars
  BY <1>2 DEF vars
<1> QED
  BY <1>1, <1>2

LEMMA DrainsAwaited == Spec => []DrainIsAwaited
<1>1. Init => DrainIsAwaited
  BY DEF Init, DrainIsAwaited
<1>2. IInv /\ DrainIsAwaited /\ [Next]_vars => DrainIsAwaited'
  <2> SUFFICES ASSUME IInv, DrainIsAwaited, [Next]_vars, at' = "draining"
               PROVE  "awaiting" \in seg'.pending
    BY DEF DrainIsAwaited
  <2>1. seg \in SegType
    BY DEF IInv, TypeOK, SegType
  <2>2. CASE at # "draining"
    <3>1. AcceptBatch
      BY <2>2, DrainStarts DEF vars
    <3> QED
      BY <2>1, <3>1 DEF AcceptBatch, SegType
  <2>3. CASE at = "draining"
    <3>1. "awaiting" \in seg.pending
      BY <2>3 DEF DrainIsAwaited
    <3>2. CASE \E item \in {Head(stream.queue)} : Process(item.what, truth)
      <4>1. PICK item \in {Head(stream.queue)} : Process(item.what, truth)
        BY <3>2
      <4>2. seg'.pending = IF item.what = "tool" THEN seg.pending \cup {"collecting"} ELSE seg.pending
        BY <2>1, <4>1 DEF Process, SegType
      <4> QED
        BY <3>1, <4>2
    <3> QED
      BY <2>3, <3>1, <3>2, DrainKeepsPending
  <2> QED
    BY <2>2, <2>3
<1> QED
  BY <1>1, <1>2, Invariance, PTL DEF Spec

\* The items a Run may be completed at.
Final == {"ok", "ended ok", "eof", "cut"}

\* The loop completes a Run at a final item only: it holds a turn_ended.
LEMMA LoopSuccess ==
  ASSUME IInv, Next, at = "loop", Takes, outcome' = "success"
  PROVE  Head(Offered).what \in Final
<1> DEFINE item == Head(Offered)
<1>1. Offered # <<>> /\ outcome = "none" /\ prefetched' \o stream'.queue = Tail(Offered)
  BY DEF Takes, Supply, IInv, Ongoing
<1>2. ~Lose("stall") /\ ~Lose("error")
  BY <1>1 DEF Lose, Fail, End, HollowMessage
<1>3. Take \/ HardTimeout
  BY <1>1, <1>2 DEF Next, Receive, Recover, Batch, Retry, GiveUp, Resumed, Refused, OpenFails,
     Expose, AcceptBatch, DrainOne, DrainEmpty, Send, SendFails, Settle, SendEnds, Cancel,
     CancelRecovery, ProbationExpires, WaitExpires, Stall, End, HollowMessage
<1>4. CASE HardTimeout
  <2>1. Offered \in Seq(Item)
    BY Channels, OwnItems, LossItems, ConcatProperties DEF Offered
  <2>2. Offered = Tail(Offered)
    BY <1>1, <1>4 DEF HardTimeout, Offered
  <2>3. Len(Tail(Offered)) = Len(Offered) - 1 /\ Len(Offered) \in Nat
    BY <1>1, <2>1, HeadTailProperties, LenProperties
  <2>4. \A m \in Nat : m # m - 1
    OBVIOUS
  <2> QED
    BY <2>2, <2>3, <2>4, Zenon
<1>5. CASE Take
  <2>1. CASE item.what \in Losses
    <3>1. TakeLoss(item)
      BY <1>5, <2>1 DEF Take
    <3>2. item.what # "error"
      BY <1>2, <3>1 DEF TakeLoss, End
    <3> QED
      BY <2>1, <3>2 DEF Losses, Final
  <2>2. CASE item.what \notin Losses
    <3>1. TakeChunk(item)
      BY <1>5, <2>2 DEF Take
    <3> HIDE DEF item
    <3>2. item.what \notin {"bad", "ended bad", "lost"}
      BY <3>1 DEF TakeChunk, End
    <3>3. ~(at' = at /\ outcome' = outcome)
      BY <1>1
    <3>4. item.what \in {"ok", "ended ok"} \/ (item.what = "ended" /\ ~Held(item.what))
      BY <3>1, <3>2, <3>3 DEF TakeChunk
    <3> QED
      BY <3>4 DEF Held, item, Final
  <2> QED
    BY <2>1, <2>2
<1> QED
  BY <1>3, <1>4, <1>5

\* A drain completes a Run at an END without error or at a turn_ended, and only
\* when no batch is awaited: after the results.
LEMMA DrainSuccess ==
  ASSUME IInv, DrainIsAwaited, Next, at \in {"draining", "absorbing"}, outcome' = "success"
  PROVE  at = "absorbing" /\ Head(stream.queue).what \in {"ok", "ended ok", "ended"}
<1> DEFINE item == Head(stream.queue)
<1>1. outcome = "none"
  BY DEF IInv, Ongoing
<1>2. DrainOne
  BY <1>1 DEF Next, Receive, Take, Recover, Batch, Retry, GiveUp, Resumed, Refused, OpenFails,
     Expose, AcceptBatch, DrainEmpty, Send, SendFails, Settle, SendEnds, Cancel, CancelRecovery,
     HardTimeout, ProbationExpires, WaitExpires, Stall
<1>3. item.what \in {"ok", "ended ok", "ended"} /\ Finish
  BY <1>1, <1>2 DEF DrainOne, End, Ends, Turns
<1>4. seg.pending = {}
  BY <1>3 DEF Finish, End
<1> QED
  BY <1>3, <1>4 DEF DrainIsAwaited

\* A Run completes at the end of its stream; at a turn_ended that an END error
\* may still follow it completes in no other place than the drain after the
\* results of a batch.
THEOREM SuccessIsFinal == Spec => SuccessAtEnd
<1> DEFINE Ending == \/ Head(Supply).what \in {"ok", "ended ok", "eof", "cut"}
                     \/ at = "absorbing" /\ Head(Supply).what = "ended"
<1>1. ASSUME IInv, DrainIsAwaited, Next, Takes, outcome' = "success"
      PROVE  Ending
  <2>1. at = "loop" \/ at \in {"draining", "absorbing"}
    BY <1>1 DEF Takes
  <2>2. CASE at = "loop"
    BY <1>1, <2>2, LoopSuccess DEF Supply, Final
  <2>3. CASE at \in {"draining", "absorbing"}
    BY <1>1, <2>3, DrainSuccess DEF Supply
  <2> QED
    BY <2>1, <2>2, <2>3
<1>2. IInv /\ DrainIsAwaited /\ [Next]_vars => [Takes /\ outcome' = "success" => Ending]_vars
  BY <1>1
<1> QED
  BY <1>2, Invariance, DrainsAwaited, PTL DEF Spec, SuccessAtEnd
=============================================================================
