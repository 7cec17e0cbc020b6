------------------------- MODULE ToolResultsProofs -------------------------
(***************************************************************************)
(* Proofs about ToolResults, for every set of execs and requests and every *)
(* bound: the types, the exclusiveness of the admission, the expiry that   *)
(* gives way to it, and the promise behind a refusal.                      *)
(***************************************************************************)
EXTENDS ToolResults, FiniteSetTheorems, TLAPS

-----------------------------------------------------------------------------
(* Types.                                                                   *)

\* Dropping permits keeps the types of the two variables it changes.
LEMMA DropPermitsType ==
  ASSUME word \in Word, permits \subseteq Requests, NEW R, DropPermits(R)
  PROVE  word' \in Word /\ permits' \subseteq Requests
  BY DEF DropPermits, Released, Word

\* Leaving the loop keeps the driver's type.
LEMMA LeaveType ==
  ASSUME TypeOK, NEW why \in {"expired", "lifetime", "other"}, Leave(why)
  PROVE  driver' \in DriverState /\ word' \in Word /\ permits' \subseteq Requests
  BY DropPermitsType DEF Leave, TypeOK, DriverState

\* So does going back to the loop.
LEMMA ContinueType ==
  ASSUME TypeOK, Continue
  PROVE  driver' \in DriverState /\ word' \in Word /\ permits' \subseteq Requests
  BY DropPermitsType DEF Continue, TypeOK, DriverState

\* And waking up in it.
LEMMA ResumedType ==
  ASSUME NEW d \in DriverState
  PROVE  Resumed(d) \in DriverState
  BY DEF Resumed, DriverState

\* An answer is a state of a request.
LEMMA AnsweredType ==
  ASSUME TypeOK, NEW r \in Requests, NEW answer \in Answers
  PROVE  Answered(r, answer) \in [Requests -> RequestState]
<1> DEFINE q == [req[r] EXCEPT !.at = "answered", !.answer = answer]
<1>1. req[r] \in RequestState
  BY DEF TypeOK
<1>2. q \in RequestState
  BY <1>1 DEF RequestState
<1>3. Answered(r, answer) = [req EXCEPT ![r] = q]
  BY <1>1 DEF Answered, TypeOK, RequestState
<1> QED
  BY <1>2, <1>3 DEF TypeOK

\* An acknowledgement answers its request, or nobody.
LEMMA AcknowledgeType ==
  ASSUME TypeOK, NEW r \in Requests, NEW answer \in Answers, Acknowledge(r, answer)
  PROVE  req' \in [Requests -> RequestState]
<1>1. CASE Listening(r)
  BY <1>1, AnsweredType DEF Acknowledge
<1>2. CASE ~Listening(r)
  BY <1>2 DEF Acknowledge, TypeOK
<1> QED
  BY <1>1, <1>2

\* A deadline set before the Run's lifetime ends is an instant of the model.
LEMMA SetDeadlineType ==
  ASSUME TypeOK
  PROVE  SetDeadline(word, clock) \in Word /\ clock \in Instants
  BY ToolResultsAssumption DEF SetDeadline, Word, TypeOK, Instants

\* What PendingExecState's methods return.
LEMMA PendingTypes ==
  ASSUME TypeOK, NEW e \in Execs, NEW S \in SUBSET Execs
  PROVE  /\ Queued(pending, e) \in PendingState
         /\ NativeExposed(pending) \in PendingState
         /\ ClientExposed(pending) \in PendingState
         /\ Aborted(pending, e) \in PendingState
         /\ Completed(pending) \in PendingState
         /\ ControlClosed(pending, S) \in PendingState
  BY DEF TypeOK, PendingState, Queued, NativeExposed, ClientExposed, Aborted,
         Completed, ControlClosed, Native


\* What try_admit leaves in the word, and its answers.
LEMMA AdmissionType ==
  ASSUME NEW w \in Word, NEW now
  PROVE  Admission(w, now).word \in Word /\ Admission(w, now).answer \in Answers
  BY DEF Admission, Word, Answers

\* A request's own steps keep the types.
LEMMA RequestTypes ==
  ASSUME TypeOK, NEW r \in Requests,
         Arrive(r) \/ ServeRequest(r) \/ Disconnect(r)
  PROVE  TypeOK'
<1>0. /\ req[r] \in RequestState
      /\ req \in [Requests -> RequestState]
      /\ clock \in Instants
      /\ word \in Word /\ permits \subseteq Requests
      /\ dispatch \in [Requests -> {"waiting", "started", "cancelled"}]
  BY SetDeadlineType DEF TypeOK
<1>1. \A answer \in Answers : Answered(r, answer) \in [Requests -> RequestState]
  BY AnsweredType
<1>2. \A at \in {"admitted", "dispatch", "waiting"} :
        [req EXCEPT ![r].at = at] \in [Requests -> RequestState]
  <2> TAKE at \in {"admitted", "dispatch", "waiting"}
  <2>1. [req[r] EXCEPT !.at = at] \in RequestState
    BY <1>0 DEF RequestState
  <2> QED
    BY <1>0, <2>1 DEF RequestState
<1>3. CASE Arrive(r)
  <2>1. PICK batch \in (SUBSET pending.seen) \ {{}} :
          req' = IF batch = exposed
                 THEN [req EXCEPT ![r].at = "checked", ![r].batch = batch,
                                  ![r].now = clock]
                 ELSE Answered(r, "invalid")
    BY <1>3 DEF Arrive
  <2>2. batch \in SUBSET Execs
    BY <2>1 DEF TypeOK, PendingState
  <2>3. [req[r] EXCEPT !.at = "checked", !.batch = batch, !.now = clock]
          \in RequestState
    BY <1>0, <2>2 DEF RequestState
  <2>4. [req EXCEPT ![r].at = "checked", ![r].batch = batch, ![r].now = clock]
          \in [Requests -> RequestState]
    BY <1>0, <2>3 DEF RequestState
  <2>5. req' \in [Requests -> RequestState]
    BY <1>1, <2>1, <2>4 DEF Answers
  <2> QED
    BY <1>3, <2>5 DEF Arrive, TypeOK
<1>4. CASE Admit(r)
  <2>1. word' \in Word
    BY <1>0, <1>4, AdmissionType DEF Admit
  <2>2. permits' \subseteq Requests
    BY <1>0, <1>4 DEF Admit
  <2>3. req' \in [Requests -> RequestState]
    BY <1>0, <1>1, <1>2, <1>4, AdmissionType DEF Admit
  <2> QED
    BY <1>4, <2>1, <2>2, <2>3 DEF Admit, TypeOK
<1>5. CASE GetCapacity(r)
  <2>1. word' \in Word /\ permits' \subseteq Requests
    BY <1>0, <1>5, DropPermitsType DEF GetCapacity
  <2>2. req' \in [Requests -> RequestState]
    BY <1>1, <1>2, <1>5 DEF GetCapacity, Answers
  <2> QED
    BY <1>5, <2>1, <2>2 DEF GetCapacity, TypeOK
<1>6. CASE SendCommand(r)
  <2>1. word' \in Word /\ permits' \subseteq Requests
    BY <1>0, <1>6, DropPermitsType DEF SendCommand
  <2>2. req' \in [Requests -> RequestState]
    BY <1>1, <1>2, <1>6 DEF SendCommand, Answers
  <2>3. channel' \in Seq(Requests)
    <3>1. channel \in Seq(Requests)
      BY DEF TypeOK
    <3>2. Append(channel, r) \in Seq(Requests)
      BY <3>1
    <3> QED
      BY <1>6, <3>1, <3>2 DEF SendCommand
  <2> QED
    BY <1>6, <2>1, <2>2, <2>3 DEF SendCommand, TypeOK
<1>7. CASE Timeout(r)
  <2>1. word' \in Word /\ permits' \subseteq Requests
    BY <1>0, <1>7, DropPermitsType DEF Timeout
  <2>2. req' \in [Requests -> RequestState]
    BY <1>1, <1>7 DEF Timeout, Answers
  <2>3. dispatch' \in [Requests -> {"waiting", "started", "cancelled"}]
    BY <1>0, <1>7 DEF Timeout
  <2> QED
    BY <1>7, <2>1, <2>2, <2>3 DEF Timeout, TypeOK
<1>8. CASE Disconnect(r)
  <2>1. word' \in Word /\ permits' \subseteq Requests
    BY <1>0, <1>8, DropPermitsType DEF Disconnect
  <2>2. req' \in [Requests -> RequestState]
    BY <1>1, <1>8 DEF Disconnect, Answers
  <2>3. dispatch' \in [Requests -> {"waiting", "started", "cancelled"}]
    BY <1>0, <1>8 DEF Disconnect
  <2> QED
    BY <1>8, <2>1, <2>2, <2>3 DEF Disconnect, TypeOK
<1> QED
  BY <1>3, <1>4, <1>5, <1>6, <1>7, <1>8 DEF ServeRequest


\* In the ResumeBatch arm the driver holds a command.
ServesInArm == driver.at \in Arm => driver.serving \in Requests

\* The types, with the command the arm works on.
Typed == TypeOK /\ ServesInArm

\* What Cursor and the quiet window do keeps the types.
LEMMA UpstreamTypes ==
  ASSUME Typed,
         \/ \E e \in Execs : QueueExec(e) \/ Abort(e)
         \/ ExposeNative \/ ExposeClientOnly \/ UpstreamEnds
  PROVE  Typed'
<1>0. /\ TypeOK /\ ServesInArm
      /\ driver \in DriverState /\ pending \in PendingState
      /\ Resumed(driver) \in DriverState
      /\ Resumed(driver).at = driver.at /\ Resumed(driver).serving = driver.serving
  BY ResumedType DEF Typed, TypeOK, Resumed, DriverState
<1>1. ASSUME NEW e \in Execs, QueueExec(e)
      PROVE  Typed'
  BY <1>0, <1>1, PendingTypes DEF QueueExec, Typed, TypeOK, ServesInArm
<1>2. ASSUME NEW e \in Execs, Abort(e)
      PROVE  Typed'
  <2>1. pending' \in PendingState
    BY <1>0, <1>2, PendingTypes DEF Abort
  <2>2. exposed' \subseteq Execs /\ aborted' \subseteq Execs
    BY <1>0, <1>2, <2>1 DEF Abort, TypeOK, PendingState
  <2> QED
    BY <1>0, <1>2, <2>1, <2>2 DEF Abort, Typed, TypeOK, ServesInArm
<1>a. \A p \in {NativeExposed(pending), ClientExposed(pending)} :
        /\ p \in PendingState
        /\ [p EXCEPT !.since = clock] \in PendingState
        /\ p.awaiting \subseteq Execs
  <2>1. NativeExposed(pending) \in PendingState /\ ClientExposed(pending) \in PendingState
    BY <1>0, PendingTypes DEF TypeOK, NativeExposed, ClientExposed, Native, PendingState
  <2>2. clock \in Instants
    BY <1>0, SetDeadlineType
  <2> QED
    BY <2>1, <2>2 DEF PendingState
<1>b. SetDeadline(word, clock) \in Word
  BY <1>0, SetDeadlineType
<1>3. CASE ExposeNative
  <2>1. CASE /\ Publish(NativeExposed(pending))
             /\ driver' = Resumed(driver)
             /\ UNCHANGED permits
    <3>1. /\ pending' \in PendingState /\ word' \in Word
          /\ overwritten' \in BOOLEAN /\ exposed' \subseteq Execs
      BY <1>0, <1>a, <1>b, <2>1 DEF Publish, TypeOK
    <3> QED
      BY <1>0, <1>3, <2>1, <3>1 DEF ExposeNative, Typed, TypeOK, ServesInArm
  <2>2. CASE /\ pending' = NativeExposed(pending)
             /\ Leave("other")
             /\ UNCHANGED <<exposed, overwritten>>
    <3>1. driver' \in DriverState /\ word' \in Word /\ permits' \subseteq Requests
      BY <1>0, <2>2, LeaveType
    <3>2. driver'.at = "ending"
      BY <1>0, <2>2 DEF Leave, DriverState
    <3> QED
      BY <1>0, <1>3, <1>a, <2>2, <3>1, <3>2
      DEF ExposeNative, Typed, TypeOK, ServesInArm, Arm
  <2> QED
    BY <1>3, <2>1, <2>2 DEF ExposeNative
<1>4. CASE ExposeClientOnly
  <2>1. /\ pending' \in PendingState /\ exposed' \subseteq Execs
    BY <1>4, <1>a DEF ExposeClientOnly, PendingState
  <2>2. word' \in Word
    BY <1>4, <1>b DEF ExposeClientOnly, Released, Word
  <2>3. driver' \in DriverState /\ driver'.at = "ending"
    BY <1>0, <1>4 DEF ExposeClientOnly, DriverState
  <2>4. permits' \subseteq Requests /\ overwritten' \in BOOLEAN
    BY <1>0, <1>4 DEF ExposeClientOnly, TypeOK
  <2> QED
    BY <1>0, <1>4, <2>1, <2>2, <2>3, <2>4
    DEF ExposeClientOnly, Typed, TypeOK, ServesInArm, Arm
<1>5. CASE UpstreamEnds
  <2>1. driver' \in DriverState /\ word' \in Word /\ permits' \subseteq Requests
    BY <1>0, <1>5, LeaveType DEF UpstreamEnds
  <2>2. driver'.at = "ending"
    BY <1>0, <1>5 DEF UpstreamEnds, Leave, DriverState
  <2> QED
    BY <1>0, <1>5, <2>1, <2>2 DEF UpstreamEnds, Typed, TypeOK, ServesInArm, Arm
<1> QED
  BY <1>1, <1>2, <1>3, <1>4, <1>5

\* Out of the arm the driver holds no command.
LEMMA OutOfArm ==
  ASSUME Typed, (\E why \in {"expired", "lifetime", "other"} : Leave(why)) \/ Continue
  PROVE  /\ driver' \in DriverState /\ word' \in Word /\ permits' \subseteq Requests
         /\ driver'.at \in {"loop", "ending"}
<1>0. TypeOK /\ driver \in DriverState
  BY DEF Typed, TypeOK
<1>1. ASSUME NEW why \in {"expired", "lifetime", "other"}, Leave(why)
      PROVE  /\ driver' \in DriverState /\ word' \in Word /\ permits' \subseteq Requests
             /\ driver'.at = "ending"
  <2>1. driver' \in DriverState /\ word' \in Word /\ permits' \subseteq Requests
    BY <1>0, <1>1, LeaveType
  <2> QED
    BY <1>0, <1>1, <2>1 DEF Leave, DriverState
<1>2. CASE Continue
  <2>1. driver' \in DriverState /\ word' \in Word /\ permits' \subseteq Requests
    BY <1>0, <1>2, ContinueType
  <2> QED
    BY <1>0, <1>2, <2>1 DEF Continue, DriverState
<1> QED
  BY <1>1, <1>2

\* What reaches the wire keeps the types.
LEMMA PutOnWireType ==
  ASSUME Typed, NEW S \in SUBSET Execs, driver.at \in Arm, PutOnWire(S)
  PROVE  wire' \in [Execs -> Nat] /\ sent' \in [Requests -> SUBSET Execs]
  BY DEF Typed, TypeOK, ServesInArm, PutOnWire

\* So do the arms of the driver's select.
LEMMA DriverTypes ==
  ASSUME Typed, Drive
  PROVE  Typed'
<1>0. /\ TypeOK /\ ServesInArm
      /\ driver \in DriverState /\ pending \in PendingState /\ word \in Word
      /\ permits \subseteq Requests /\ channel \in Seq(Requests)
      /\ req \in [Requests -> RequestState]
  BY DEF Typed, TypeOK
<1> DEFINE Out == (\E why \in {"expired", "lifetime", "other"} : Leave(why)) \/ Continue
           Lands == /\ driver' \in DriverState /\ word' \in Word
                    /\ permits' \subseteq Requests
                    /\ driver'.at \in Arm => driver'.serving \in Requests
<1>l. Out => Lands
  BY OutOfArm DEF Arm
<1>1. CASE Sweep
  <2>1. Lands
    <3>1. CASE Leave(IF cancel THEN "other" ELSE "lifetime")
      BY <1>l, <3>1
    <3>2. CASE /\ word' = [word EXCEPT !.state = "expired"]
               /\ driver' = [driver EXCEPT !.at = "ending", !.why = "expired"]
               /\ UNCHANGED permits
      BY <1>0, <3>2 DEF Word, DriverState, Arm
    <3>3. CASE /\ driver' = [driver EXCEPT !.swept = TRUE]
               /\ UNCHANGED <<word, permits>>
      BY <1>0, <3>3 DEF DriverState, ServesInArm
    <3> QED
      BY <1>1, <3>1, <3>2, <3>3 DEF Sweep
  <2> HIDE DEF Lands
  <2>2. driver' \in DriverState /\ word' \in Word /\ permits' \subseteq Requests
        /\ ServesInArm'
    BY <2>1 DEF Lands, ServesInArm
  <2> QED
    BY <1>0, <1>1, <2>2 DEF Sweep, Typed, TypeOK
<1>2. CASE Receive
  <2>1. channel' \in Seq(Requests) /\ Head(channel) \in Requests
    BY <1>0, <1>2 DEF Receive
  <2>2. CASE /\ dispatch' = [dispatch EXCEPT ![Head(channel)] = "started"]
             /\ driver' = [driver EXCEPT !.at = "started", !.serving = Head(channel)]
             /\ UNCHANGED <<permits, word>>
    <3>1. driver' \in DriverState /\ driver'.serving \in Requests
      BY <1>0, <2>1, <2>2 DEF DriverState, Arm
    <3>2. dispatch' \in [Requests -> {"waiting", "started", "cancelled"}]
      BY <1>0, <2>1, <2>2 DEF TypeOK
    <3> QED
      BY <1>0, <1>2, <2>1, <2>2, <3>1, <3>2 DEF Receive, Typed, TypeOK, ServesInArm
  <2>3. CASE /\ driver' = Resumed(driver)
             /\ DropPermits({Head(channel)})
             /\ UNCHANGED dispatch
    <3>1. word' \in Word /\ permits' \subseteq Requests
      BY <1>0, <2>3, DropPermitsType
    <3>2. driver' \in DriverState /\ driver'.at = "loop"
      BY <1>0, <1>2, <2>3, ResumedType DEF Receive, Resumed, DriverState
    <3> QED
      BY <1>0, <1>2, <2>1, <2>3, <3>1, <3>2
      DEF Receive, Typed, TypeOK, ServesInArm, Arm
  <2> QED
    BY <1>2, <2>2, <2>3 DEF Receive
<1>3. CASE Accept
  <2>0. driver.serving \in Requests
    BY <1>0, <1>3 DEF Accept, ServesInArm, Arm
  <2>1. req' \in [Requests -> RequestState]
    <3>1. \/ UNCHANGED req
          \/ \E answer \in Answers : Acknowledge(driver.serving, answer)
      BY <1>3 DEF Accept, Answers
    <3> QED
      BY <1>0, <2>0, <3>1, AcknowledgeType
  <2>2. Out \/ (/\ ~AtSegmentLimit
                /\ driver' = [driver EXCEPT !.at = "draining", !.segments = @ + 1,
                                            !.frames = req[driver.serving].batch]
                /\ UNCHANGED <<permits, word>>)
    BY <1>3 DEF Accept, StageFails
  <2>3. Lands
    <3>1. CASE /\ ~AtSegmentLimit
               /\ driver' = [driver EXCEPT !.at = "draining", !.segments = @ + 1,
                                           !.frames = req[driver.serving].batch]
               /\ UNCHANGED <<permits, word>>
      <4>1. driver.segments + 1 \in 0..MaxSegments
        BY <1>0, <3>1, ToolResultsAssumption DEF AtSegmentLimit, DriverState
      <4> QED
        BY <1>0, <2>0, <3>1, <4>1 DEF DriverState, RequestState, Arm
    <3> QED
      BY <1>l, <2>2, <3>1
  <2> HIDE DEF Lands
  <2>4. driver' \in DriverState /\ word' \in Word /\ permits' \subseteq Requests
        /\ ServesInArm'
    BY <2>3 DEF Lands, ServesInArm
  <2> QED
    BY <1>0, <1>3, <2>1, <2>4 DEF Accept, Typed, TypeOK
<1>4. CASE EndDrain
  BY <1>0, <1>4 DEF EndDrain, Typed, TypeOK, ServesInArm, DriverState, Arm
<1>5. CASE SendAll
  <2>1. wire' \in [Execs -> Nat] /\ sent' \in [Requests -> SUBSET Execs]
    BY <1>0, <1>5, PutOnWireType DEF SendAll, DriverState, Arm, Typed
  <2>2. pending' \in PendingState /\ exposed' \subseteq Execs
    BY <1>0, <1>5 DEF SendAll, Completed, PendingState, TypeOK
  <2>3. Lands
    <3>1. CASE driver' = [driver EXCEPT !.at = "settling"] /\ UNCHANGED <<permits, word>>
      BY <1>0, <1>5, <3>1 DEF SendAll, DriverState, Arm, ServesInArm
    <3> QED
      BY <1>l, <1>5, <3>1 DEF SendAll
  <2> HIDE DEF Lands
  <2>4. driver' \in DriverState /\ word' \in Word /\ permits' \subseteq Requests
        /\ ServesInArm'
    BY <2>3 DEF Lands, ServesInArm
  <2> QED
    BY <1>0, <1>5, <2>1, <2>2, <2>4 DEF SendAll, Typed, TypeOK
<1>6. CASE SendFails
  <2>1. wire' \in [Execs -> Nat] /\ sent' \in [Requests -> SUBSET Execs]
    BY <1>0, <1>6, PutOnWireType DEF SendFails, DriverState, Arm, Typed
  <2>2. Lands
    BY <1>l, <1>6 DEF SendFails
  <2> HIDE DEF Lands
  <2>3. driver' \in DriverState /\ word' \in Word /\ permits' \subseteq Requests
        /\ ServesInArm'
    BY <2>2 DEF Lands, ServesInArm
  <2> QED
    BY <1>0, <1>6, <2>1, <2>3 DEF SendFails, Typed, TypeOK
<1>7. CASE Reconnect
  <2>1. pending' \in PendingState
    BY <1>0, <1>7 DEF Reconnect, ControlClosed, Native, PendingState
  <2>2. Lands
    <3>1. CASE driver' = [driver EXCEPT !.at = "resending"] /\ UNCHANGED <<word, permits>>
      BY <1>0, <1>7, <3>1 DEF Reconnect, DriverState, Arm, ServesInArm
    <3> QED
      BY <1>l, <1>7, <3>1 DEF Reconnect
  <2> HIDE DEF Lands
  <2>3. driver' \in DriverState /\ word' \in Word /\ permits' \subseteq Requests
        /\ ServesInArm'
    BY <2>2 DEF Lands, ServesInArm
  <2> QED
    BY <1>0, <1>7, <2>1, <2>3 DEF Reconnect, Typed, TypeOK
<1>8. CASE Settle
  <2>1. Lands
    BY <1>l, <1>8 DEF Settle
  <2> HIDE DEF Lands
  <2>2. driver' \in DriverState /\ word' \in Word /\ permits' \subseteq Requests
        /\ ServesInArm'
    BY <2>1 DEF Lands, ServesInArm
  <2> QED
    BY <1>0, <1>8, <2>2 DEF Settle, Typed, TypeOK
<1>9. CASE Finish
  <2>1. word' \in Word /\ permits' \subseteq Requests
    BY <1>0, <1>9, DropPermitsType DEF Finish
  <2>2. driver' \in DriverState /\ driver'.at = "gone"
    BY <1>0, <1>9 DEF Finish, DriverState
  <2>3. req' \in [Requests -> RequestState]
    <3>1. \A r \in Requests :
            [req[r] EXCEPT !.at = "answered", !.answer = "closed"] \in RequestState
      BY <1>0 DEF RequestState, Answers
    <3> QED
      BY <1>0, <1>9, <3>1 DEF Finish
  <2>4. channel' \in Seq(Requests) /\ exposed' \subseteq Execs
    <3>1. channel' = <<>> /\ exposed' = {}
      BY <1>9 DEF Finish
    <3>2. <<>> \in Seq(Requests)
      OBVIOUS
    <3> QED
      BY <3>1, <3>2
  <2> QED
    BY <1>0, <1>9, <2>1, <2>2, <2>3, <2>4
    DEF Finish, Typed, TypeOK, ServesInArm, Arm
<1> QED
  BY <1>1, <1>2, <1>3, <1>4, <1>5, <1>6, <1>7, <1>8, <1>9 DEF Drive

\* Every step keeps the types.
LEMMA TypedStep ==
  ASSUME Typed, [Next]_vars
  PROVE  Typed'
<1>1. ASSUME NEW r \in Requests, Arrive(r) \/ ServeRequest(r) \/ Disconnect(r)
      PROVE  Typed'
  <2>1. TypeOK'
    BY <1>1, RequestTypes DEF Typed
  <2>2. driver' = driver
    BY <1>1 DEF Arrive, ServeRequest, Disconnect, Admit, GetCapacity, SendCommand,
                Timeout
  <2> QED
    BY <2>1, <2>2 DEF Typed, ServesInArm
<1>2. CASE \/ \E e \in Execs : QueueExec(e) \/ Abort(e)
           \/ ExposeNative \/ ExposeClientOnly \/ UpstreamEnds
  BY <1>2, UpstreamTypes
<1>3. CASE Cancel
  BY <1>3 DEF Cancel, Typed, TypeOK, ServesInArm
<1>4. CASE Drive
  BY <1>4, DriverTypes
<1>5. CASE Tick
  <2>1. clock' \in 0..Lifetime
    BY <1>5, ToolResultsAssumption DEF Tick, Typed, TypeOK
  <2>2. driver' \in DriverState /\ driver'.at = driver.at /\ driver'.serving = driver.serving
    BY <1>5, ResumedType DEF Tick, Typed, TypeOK, Resumed, DriverState
  <2> QED
    BY <1>5, <2>1, <2>2 DEF Tick, Typed, TypeOK, ServesInArm
<1>6. CASE UNCHANGED vars
  BY <1>6 DEF vars, Typed, TypeOK, ServesInArm
<1> QED
  BY <1>1, <1>2, <1>3, <1>4, <1>5, <1>6 DEF Next

\* The initial state has the types: nothing is pending, admitted or sent.
LEMMA TypedInit ==
  ASSUME Init
  PROVE  Typed
<1>1. 1 \in 0..MaxSegments /\ 0 \in 0..Lifetime /\ 0 \in Instants
  BY ToolResultsAssumption DEF Instants
<1>2. word \in Word /\ pending \in PendingState
  BY DEF Init, Word, PendingState
<1>3. req \in [Requests -> RequestState]
  BY <1>1 DEF Init, RequestState, Answers
<1>4. driver \in DriverState /\ driver.at \notin Arm
  BY <1>1 DEF Init, DriverState, Arm
<1>5. channel \in Seq(Requests)
  BY DEF Init
<1> QED
  BY <1>1, <1>2, <1>3, <1>4, <1>5 DEF Init, Typed, TypeOK, ServesInArm

\* Whatever the interleaving, the state keeps its types; in the ResumeBatch arm
\* the driver holds the command of a request.
THEOREM TypeCorrect == Spec => []TypeOK
<1>1. Init => Typed
  BY TypedInit
<1>2. Typed /\ [Next]_vars => Typed'
  BY TypedStep
<1>3. Typed => TypeOK
  BY DEF Typed
<1> QED
  BY <1>1, <1>2, <1>3, PTL DEF Spec

-----------------------------------------------------------------------------
(* The admission.                                                           *)

\* OneInFlight without cardinalities: who holds the permit the word tells of.
Admitted ==
  ~overwritten =>
    \/ permits = {} /\ word.state # "in_flight"
    \/ word.state = "in_flight" /\ \E r \in Requests : permits = {r}

\* Dropping permits returns the word they hold, and touches no other.
LEMMA DropKeepsAdmitted ==
  ASSUME Typed, Admitted, NEW R, DropPermits(R), overwritten' = overwritten
  PROVE  /\ Admitted'
         /\ ~overwritten /\ word.state # "in_flight" => word' = word
<1>0. word \in Word
  BY DEF Typed, TypeOK
<1>1. CASE R \cap permits = {}
  <2>1. permits' = permits /\ word' = word
    BY <1>1 DEF DropPermits
  <2> QED
    BY <2>1 DEF Admitted
<1>2. CASE R \cap permits # {}
  <2>1. permits' = permits \ R /\ word' = Released(word)
    BY <1>2 DEF DropPermits
  <2>2. CASE overwritten
    BY <2>2 DEF Admitted
  <2>3. CASE ~overwritten
    <3>1. PICK r \in Requests : permits = {r}
      BY <1>2, <2>3 DEF Admitted
    <3>2. word.state = "in_flight"
      BY <2>3, <3>1 DEF Admitted
    <3>3. permits' = {} /\ word'.state = "idle"
      BY <1>0, <1>2, <2>1, <3>1, <3>2 DEF Released, Word
    <3> QED
      BY <3>2, <3>3 DEF Admitted
  <2> QED
    BY <2>2, <2>3
<1> QED
  BY <1>1, <1>2

\* What a step may do to the word and the permits: nothing, drop some, admit
\* one, store a deadline, or claim an idle word for the expiry.
LEMMA AdmissionSteps ==
  ASSUME Typed, [Next]_vars
  PROVE  \/ UNCHANGED <<word, permits, overwritten>>
         \/ overwritten' = overwritten /\ \E R : DropPermits(R)
         \/ \E r \in Requests : Admit(r)
         \/ /\ driver.at \in {"loop", "draining", "settling"}
            /\ overwritten' = (overwritten \/ word.state = "in_flight")
            /\ permits = {} => word' = SetDeadline(word, clock) /\ permits' = {}
         \/ /\ driver.at = "loop" /\ overwritten' = overwritten
            /\ word.state = "idle" /\ permits' = permits
            /\ word' = [word EXCEPT !.state = "expired"]
<1> DEFINE Drops == overwritten' = overwritten /\ \E R : DropPermits(R)
           Keeps == UNCHANGED <<word, permits, overwritten>>
<1>l. /\ \A why : Leave(why) => \E R : DropPermits(R)
      /\ Continue => \E R : DropPermits(R)
  BY DEF Leave, Continue
<1>1. ASSUME NEW r \in Requests, Arrive(r) \/ ServeRequest(r) \/ Disconnect(r)
      PROVE  Keeps \/ Drops \/ Admit(r)
  <2>1. CASE Arrive(r)
    BY <2>1 DEF Arrive
  <2>2. CASE GetCapacity(r)
    BY <2>2 DEF GetCapacity
  <2>3. CASE SendCommand(r)
    BY <2>3 DEF SendCommand
  <2>4. CASE Timeout(r)
    BY <2>4 DEF Timeout
  <2>5. CASE Disconnect(r)
    BY <2>5 DEF Disconnect
  <2> QED
    BY <1>1, <2>1, <2>2, <2>3, <2>4, <2>5 DEF ServeRequest
<1>2. ASSUME NEW e \in Execs, QueueExec(e) \/ Abort(e)
      PROVE  Keeps
  BY <1>2 DEF QueueExec, Abort
<1>3. CASE Cancel \/ Tick \/ EndDrain \/ UNCHANGED vars
  BY <1>3 DEF Cancel, Tick, EndDrain, vars
<1>4. CASE ExposeNative
  BY <1>4, <1>l DEF ExposeNative, Publish
<1>5. CASE ExposeClientOnly
  BY <1>5 DEF ExposeClientOnly, HandlesFrames
<1>6. CASE UpstreamEnds
  BY <1>6, <1>l DEF UpstreamEnds
<1>7. CASE Drive
  <2>1. CASE Sweep
    BY <2>1, <1>l DEF Sweep, Claimable
  <2>2. CASE Receive
    BY <2>2 DEF Receive
  <2>3. CASE Accept
    BY <2>3, <1>l DEF Accept, StageFails
  <2>4. CASE SendAll
    BY <2>4, <1>l DEF SendAll
  <2>5. CASE SendFails
    BY <2>5, <1>l DEF SendFails
  <2>6. CASE Reconnect
    BY <2>6, <1>l DEF Reconnect
  <2>7. CASE Settle
    BY <2>7, <1>l DEF Settle
  <2>8. CASE Finish
    BY <2>8 DEF Finish
  <2> QED
    BY <1>3, <1>7, <2>1, <2>2, <2>3, <2>4, <2>5, <2>6, <2>7, <2>8 DEF Drive
<1> QED
  BY <1>1, <1>2, <1>3, <1>4, <1>5, <1>6, <1>7 DEF Next

\* A request is admitted on an idle word only.
LEMMA AdmitKeepsAdmitted ==
  ASSUME Typed, Admitted, NEW r \in Requests, Admit(r)
  PROVE  /\ Admitted'
         /\ word.state = "expired" => word' = word /\ permits' = permits
         /\ overwritten' = overwritten
<1>0. word \in Word /\ overwritten' = overwritten
  BY DEF Typed, TypeOK, Admit
<1>1. CASE Admission(word, req[r].now).answer = "none"
  <2>1. word.state = "idle" /\ word' = [word EXCEPT !.state = "in_flight"]
    BY <1>0, <1>1 DEF Admit, Admission, Word
  <2>2. permits' = permits \cup {r}
    BY <1>1 DEF Admit
  <2>3. word'.state = "in_flight"
    BY <1>0, <2>1 DEF Word
  <2>4. ~overwritten => permits = {}
    BY <2>1 DEF Admitted
  <2> QED
    BY <1>0, <2>1, <2>2, <2>3, <2>4 DEF Admitted
<1>2. CASE Admission(word, req[r].now).answer # "none"
  <2>1. permits' = permits
    BY <1>2 DEF Admit
  <2>2. \/ word' = word
        \/ word.state = "idle" /\ word' = [word EXCEPT !.state = "expired"]
    BY <1>0, <1>2 DEF Admit, Admission, Word
  <2>a. [word EXCEPT !.state = "expired"].state = "expired"
    BY <1>0 DEF Word
  <2>3. word' = word \/ (word.state = "idle" /\ word'.state = "expired")
    BY <2>2, <2>a
  <2> QED
    BY <1>0, <2>1, <2>3 DEF Admitted
<1> QED
  BY <1>1, <1>2

\* Every step keeps the word and the permits in agreement.
LEMMA AdmittedStep ==
  ASSUME Typed, Admitted, [Next]_vars
  PROVE  Admitted'
<1>0. word \in Word /\ overwritten \in BOOLEAN
  BY DEF Typed, TypeOK
<1>1. CASE UNCHANGED <<word, permits, overwritten>>
  BY <1>1 DEF Admitted
<1>2. CASE overwritten' = overwritten /\ \E R : DropPermits(R)
  BY <1>2, DropKeepsAdmitted
<1>3. CASE \E r \in Requests : Admit(r)
  BY <1>3, AdmitKeepsAdmitted
<1>4. CASE /\ overwritten' = (overwritten \/ word.state = "in_flight")
           /\ permits = {} => word' = SetDeadline(word, clock) /\ permits' = {}
  <2>1. CASE overwritten'
    BY <2>1 DEF Admitted
  <2>2. CASE ~overwritten'
    <3>1. permits = {} /\ word.state # "in_flight"
      BY <1>4, <2>2 DEF Admitted
    <3>2. permits' = {} /\ word'.state = "idle"
      BY <1>4, <3>1 DEF SetDeadline
    <3> QED
      BY <3>2 DEF Admitted
  <2> QED
    BY <2>1, <2>2
<1>5. CASE /\ overwritten' = overwritten /\ word.state = "idle"
           /\ permits' = permits /\ word' = [word EXCEPT !.state = "expired"]
  <2>1. word'.state = "expired"
    BY <1>0, <1>5 DEF Word
  <2> QED
    BY <1>5, <2>1 DEF Admitted
<1> QED
  BY <1>1, <1>2, <1>3, <1>4, <1>5, AdmissionSteps

\* At most one request is past the admission and the word says so, through
\* timeouts, disconnects, refusals, aborts and the end of the driver, as long as
\* no batch is exposed over an admission.
THEOREM OneAdmission == Spec => []OneInFlight
<1>1. Init => Typed /\ Admitted
  <2>1. Init => permits = {} /\ word.state # "in_flight"
    BY DEF Init
  <2> QED
    BY <2>1, TypedInit DEF Admitted
<1>2. Typed /\ Admitted /\ [Next]_vars => Typed' /\ Admitted'
  BY TypedStep, AdmittedStep
<1>3. Admitted => OneInFlight
  <2>1. Cardinality({}) = 0 /\ \A r : Cardinality({r}) = 1
    BY FS_EmptySet, FS_Singleton
  <2> QED
    BY <2>1 DEF Admitted, OneInFlight
<1> QED
  BY <1>1, <1>2, <1>3, PTL DEF Spec

-----------------------------------------------------------------------------
(* The expiry.                                                              *)

\* Once the driver has claimed the expiry it is on its way out, and the word
\* admits nobody.
ExpiryFinal ==
  driver.why = "expired" =>
    /\ driver.at \in {"ending", "gone"}
    /\ ~overwritten => word.state = "expired"

\* The reason the driver leaves for is final, and only the sweep's claim makes
\* it the expiry.
LEMMA WhySteps ==
  ASSUME Typed, [Next]_vars, driver'.why = "expired"
  PROVE  \/ /\ driver.why = "expired"
            /\ driver'.at = driver.at \/ driver.at \notin {"ending", "gone"}
               \/ driver'.at = "gone"
         \/ /\ driver.why # "expired" /\ driver'.at = "ending"
            /\ word' = [word EXCEPT !.state = "expired"]
            /\ overwritten' = overwritten
<1>0. driver \in DriverState
  BY DEF Typed, TypeOK
<1> DEFINE Goal ==
      \/ /\ driver.why = "expired"
         /\ driver'.at = driver.at \/ driver.at \notin {"ending", "gone"}
            \/ driver'.at = "gone"
      \/ /\ driver.why # "expired" /\ driver'.at = "ending"
         /\ word' = [word EXCEPT !.state = "expired"]
         /\ overwritten' = overwritten
<1>a. ASSUME NEW why \in {"lifetime", "other"}, Leave(why)
      PROVE  FALSE
  BY <1>0, <1>a DEF Leave, DriverState
<1>b. Continue => driver'.why = driver.why
  BY <1>0 DEF Continue, DriverState
<1>c. Resumed(driver).why = driver.why /\ Resumed(driver).at = driver.at
  BY <1>0 DEF Resumed, DriverState
<1>1. ASSUME NEW r \in Requests, Arrive(r) \/ ServeRequest(r) \/ Disconnect(r)
      PROVE  Goal
  <2>1. driver' = driver
    BY <1>1 DEF Arrive, ServeRequest, Disconnect, Admit, GetCapacity, SendCommand,
                Timeout
  <2> QED
    BY <2>1
<1>2. ASSUME NEW e \in Execs, QueueExec(e) \/ Abort(e)
      PROVE  Goal
  BY <1>2, <1>c DEF QueueExec, Abort
<1>3. CASE Cancel \/ Tick \/ UNCHANGED vars
  BY <1>3, <1>c DEF Cancel, Tick, vars
<1>4. CASE ExposeNative
  BY <1>4, <1>a, <1>c DEF ExposeNative
<1>5. CASE ExposeClientOnly
  BY <1>0, <1>5 DEF ExposeClientOnly, DriverState
<1>6. CASE UpstreamEnds
  BY <1>6, <1>a DEF UpstreamEnds
<1>7. CASE Drive
  <2>1. CASE Sweep
    <3>1. CASE Leave(IF cancel THEN "other" ELSE "lifetime")
      BY <1>a, <3>1
    <3>2. CASE /\ word' = [word EXCEPT !.state = "expired"]
               /\ driver' = [driver EXCEPT !.at = "ending", !.why = "expired"]
      BY <1>0, <2>1, <3>2 DEF Sweep, DriverState
    <3>3. CASE driver' = [driver EXCEPT !.swept = TRUE]
      BY <1>0, <3>3 DEF DriverState
    <3> QED
      BY <2>1, <3>1, <3>2, <3>3 DEF Sweep
  <2>2. CASE Receive
    BY <1>0, <2>2, <1>c DEF Receive, DriverState
  <2>3. CASE Accept
    BY <1>0, <2>3, <1>a, <1>b DEF Accept, StageFails, DriverState
  <2>4. CASE EndDrain
    BY <1>0, <2>4 DEF EndDrain, DriverState
  <2>5. CASE SendAll
    BY <1>0, <2>5, <1>a DEF SendAll, DriverState
  <2>6. CASE SendFails
    BY <2>6, <1>a DEF SendFails
  <2>7. CASE Reconnect
    BY <1>0, <2>7, <1>a DEF Reconnect, DriverState
  <2>8. CASE Settle
    BY <2>8, <1>a, <1>b DEF Settle
  <2>9. CASE Finish
    BY <1>0, <2>9 DEF Finish, DriverState
  <2> QED
    BY <1>7, <2>1, <2>2, <2>3, <2>4, <2>5, <2>6, <2>7, <2>8, <2>9 DEF Drive
<1> QED
  BY <1>1, <1>2, <1>3, <1>4, <1>5, <1>6, <1>7 DEF Next

\* No step reopens an expired word behind the driver that claimed it.
LEMMA ExpiryStep ==
  ASSUME Typed, Admitted, ExpiryFinal, [Next]_vars
  PROVE  ExpiryFinal'
<1>0. word \in Word
  BY DEF Typed, TypeOK
<1> SUFFICES ASSUME driver'.why = "expired"
             PROVE  /\ driver'.at \in {"ending", "gone"}
                    /\ ~overwritten' => word'.state = "expired"
  BY DEF ExpiryFinal
<1>1. CASE /\ driver.why # "expired" /\ driver'.at = "ending"
           /\ word' = [word EXCEPT !.state = "expired"]
           /\ overwritten' = overwritten
  BY <1>0, <1>1 DEF Word
<1>2. CASE driver.why = "expired"
  <2>1. /\ driver.at \in {"ending", "gone"}
        /\ ~overwritten => word.state = "expired"
    BY <1>2 DEF ExpiryFinal
  <2>2. driver'.at \in {"ending", "gone"}
    BY <1>2, <2>1, WhySteps
  <2>3. \/ UNCHANGED <<word, permits, overwritten>>
        \/ overwritten' = overwritten /\ \E R : DropPermits(R)
        \/ \E r \in Requests : Admit(r)
    BY <2>1, AdmissionSteps
  <2>4. ASSUME ~overwritten'
        PROVE  word'.state = "expired"
    BY <2>1, <2>3, <2>4, DropKeepsAdmitted, AdmitKeepsAdmitted
  <2> QED
    BY <2>2, <2>4
<1> QED
  BY <1>1, <1>2, WhySteps

\* The wait for a batch never expires under a request that was admitted, until
\* a batch is exposed over an admission.
THEOREM ExpiryYields == Spec => []InFlightWins
<1>1. Init => Typed /\ Admitted /\ ExpiryFinal
  <2>1. Init => permits = {} /\ word.state # "in_flight" /\ driver.why # "expired"
    BY DEF Init
  <2> QED
    BY <2>1, TypedInit DEF Admitted, ExpiryFinal
<1>2. Typed /\ Admitted /\ ExpiryFinal /\ [Next]_vars
        => Typed' /\ Admitted' /\ ExpiryFinal'
  BY TypedStep, AdmittedStep, ExpiryStep
<1>3. Admitted /\ ExpiryFinal => InFlightWins
  BY DEF Admitted, ExpiryFinal, InFlightWins
<1> QED
  BY <1>1, <1>2, <1>3, PTL DEF Spec

-----------------------------------------------------------------------------
(* The promise behind a refusal.                                            *)

IsAccepted(r) == req[r].at = "answered" /\ req[r].answer = "ok"

\* Past the acknowledgement the arm works for a request that was told so, and
\* nothing was ever sent for another.
SentIsAccepted ==
  /\ \A r \in Requests : sent[r] # {} => IsAccepted(r)
  /\ driver.at \in Arm \ {"started"} => IsAccepted(driver.serving)

\* Changing one request leaves the others.
LEMMA OthersUnchanged ==
  ASSUME Typed, NEW s \in Requests, NEW q, req' = [req EXCEPT ![s] = q],
         req[s].at # "answered"
  PROVE  \A r \in Requests : req[r].at = "answered" => req'[r] = req[r]
  BY DEF Typed, TypeOK

\* An answer is final: nothing reaches a request that has had one.
LEMMA AnswersFinal ==
  ASSUME Typed, [Next]_vars
  PROVE  \A r \in Requests : req[r].at = "answered" => req'[r] = req[r]
<1>0. req \in [Requests -> RequestState] /\ driver \in DriverState
  BY DEF Typed, TypeOK
<1>1. ASSUME NEW s \in Requests, Arrive(s) \/ ServeRequest(s) \/ Disconnect(s)
      PROVE  \A r \in Requests : req[r].at = "answered" => req'[r] = req[r]
  <2>1. req[s].at # "answered"
    BY <1>1 DEF Arrive, ServeRequest, Disconnect, Admit, GetCapacity, SendCommand,
                Timeout
  <2>2. CASE Arrive(s)
    BY <1>0, <2>1, <2>2 DEF Arrive, Answered
  <2>3. CASE Admit(s)
    BY <1>0, <2>1, <2>3 DEF Admit, Answered
  <2>4. CASE GetCapacity(s)
    BY <1>0, <2>1, <2>4 DEF GetCapacity, Answered
  <2>5. CASE SendCommand(s)
    BY <1>0, <2>1, <2>5 DEF SendCommand, Answered
  <2>6. CASE Timeout(s)
    BY <1>0, <2>1, <2>6 DEF Timeout, Answered
  <2>7. CASE Disconnect(s)
    BY <1>0, <2>1, <2>7 DEF Disconnect, Answered
  <2> QED
    BY <1>1, <2>2, <2>3, <2>4, <2>5, <2>6, <2>7 DEF ServeRequest
<1>2. ASSUME NEW e \in Execs, QueueExec(e) \/ Abort(e)
      PROVE  req' = req
  BY <1>2 DEF QueueExec, Abort
<1>3. CASE Cancel \/ Tick \/ ExposeNative \/ ExposeClientOnly \/ UpstreamEnds
           \/ UNCHANGED vars
  BY <1>3 DEF Cancel, Tick, ExposeNative, ExposeClientOnly, UpstreamEnds, vars
<1>4. CASE Sweep \/ Receive \/ EndDrain \/ SendAll \/ SendFails \/ Reconnect \/ Settle
  BY <1>4 DEF Sweep, Receive, EndDrain, SendAll, SendFails, Reconnect, Settle
<1>5. CASE Accept
  <2>1. driver.serving \in Requests
    BY <1>0, <1>5 DEF Accept, Typed, ServesInArm, Arm
  <2>2. \/ req' = req
        \/ \E answer : Acknowledge(driver.serving, answer)
    BY <1>5 DEF Accept
  <2>3. ASSUME NEW answer, Acknowledge(driver.serving, answer)
        PROVE  \A r \in Requests : req[r].at = "answered" => req'[r] = req[r]
    BY <1>0, <2>1, <2>3 DEF Acknowledge, Listening, Answered
  <2> QED
    BY <2>2, <2>3
<1>6. CASE Finish
  BY <1>0, <1>6 DEF Finish, Listening
<1> QED
  BY <1>1, <1>2, <1>3, <1>4, <1>5, <1>6 DEF Next, Drive

\* Only the sending parts of the arm send, and for the request they serve.
LEMMA SentSteps ==
  ASSUME Typed, [Next]_vars
  PROVE  \/ sent' = sent
         \/ /\ driver.at \in Arm \ {"started"}
            /\ \A r \in Requests : r # driver.serving => sent'[r] = sent[r]
<1>1. ASSUME NEW r \in Requests, Arrive(r) \/ ServeRequest(r) \/ Disconnect(r)
      PROVE  sent' = sent
  BY <1>1 DEF Arrive, ServeRequest, Disconnect, Admit, GetCapacity, SendCommand,
              Timeout
<1>2. ASSUME NEW e \in Execs, QueueExec(e) \/ Abort(e)
      PROVE  sent' = sent
  BY <1>2 DEF QueueExec, Abort
<1>3. CASE Cancel \/ Tick \/ ExposeNative \/ ExposeClientOnly \/ UpstreamEnds
           \/ UNCHANGED vars
  BY <1>3 DEF Cancel, Tick, ExposeNative, ExposeClientOnly, UpstreamEnds, vars
<1>4. CASE Sweep \/ Receive \/ Accept \/ EndDrain \/ Reconnect \/ Settle \/ Finish
  BY <1>4 DEF Sweep, Receive, Accept, EndDrain, Reconnect, Settle, Finish
<1>5. ASSUME NEW S, PutOnWire(S)
      PROVE  \A r \in Requests : r # driver.serving => sent'[r] = sent[r]
  BY <1>5 DEF PutOnWire, Typed, TypeOK
<1>6. CASE SendAll \/ SendFails
  BY <1>5, <1>6 DEF SendAll, SendFails, Arm
<1> QED
  BY <1>1, <1>2, <1>3, <1>4, <1>6 DEF Next, Drive

\* The arm is past the acknowledgement only of the request it has told so.
LEMMA ArmSteps ==
  ASSUME Typed, [Next]_vars, driver'.at \in Arm \ {"started"}
  PROVE  \/ /\ driver.at \in Arm \ {"started"}
            /\ driver'.serving = driver.serving
         \/ \E r \in Requests : driver'.serving = r /\ IsAccepted(r)'
<1>0. req \in [Requests -> RequestState] /\ driver \in DriverState
  BY DEF Typed, TypeOK
<1> DEFINE Goal == \/ /\ driver.at \in Arm \ {"started"}
                      /\ driver'.serving = driver.serving
                   \/ \E r \in Requests : driver'.serving = r /\ IsAccepted(r)'
<1>a. /\ \A why : ~Leave(why)
      /\ ~Continue
  BY <1>0 DEF Leave, Continue, DriverState, Arm
<1>b. Resumed(driver).at = driver.at /\ Resumed(driver).serving = driver.serving
  BY <1>0 DEF Resumed, DriverState
<1>1. ASSUME NEW r \in Requests, Arrive(r) \/ ServeRequest(r) \/ Disconnect(r)
      PROVE  Goal
  <2>1. driver' = driver
    BY <1>1 DEF Arrive, ServeRequest, Disconnect, Admit, GetCapacity, SendCommand,
                Timeout
  <2> QED
    BY <2>1
<1>2. ASSUME NEW e \in Execs, QueueExec(e) \/ Abort(e)
      PROVE  Goal
  BY <1>2, <1>b DEF QueueExec, Abort
<1>3. CASE Cancel \/ Tick \/ UNCHANGED vars
  BY <1>3, <1>b DEF Cancel, Tick, vars
<1>4. CASE ExposeNative \/ UpstreamEnds
  BY <1>4, <1>a, <1>b DEF ExposeNative, UpstreamEnds
<1>5. CASE ExposeClientOnly \/ Finish
  BY <1>0, <1>5 DEF ExposeClientOnly, Finish, DriverState, Arm
<1>6. CASE Sweep
  <2>1. CASE driver' = [driver EXCEPT !.swept = TRUE]
    BY <1>0, <2>1 DEF DriverState
  <2>2. CASE driver' = [driver EXCEPT !.at = "ending", !.why = "expired"]
    BY <1>0, <2>2 DEF DriverState, Arm
  <2> QED
    BY <1>6, <1>a, <2>1, <2>2 DEF Sweep
<1>7. CASE Receive
  <2>1. driver'.at \in {"started", "loop"}
    BY <1>0, <1>7, <1>b DEF Receive, DriverState
  <2> QED
    BY <2>1 DEF Arm
<1>8. CASE Accept
  <2>1. driver.serving \in Requests
    BY <1>0, <1>8 DEF Accept, Typed, ServesInArm, Arm
  <2>2. /\ Listening(driver.serving) /\ Acknowledge(driver.serving, "ok")
        /\ driver'.serving = driver.serving
    BY <1>0, <1>8, <1>a DEF Accept, StageFails, DriverState
  <2>3. req' = Answered(driver.serving, "ok")
    BY <2>2 DEF Acknowledge
  <2>4. req[driver.serving] \in RequestState
    BY <1>0, <2>1
  <2>5. req'[driver.serving] = [req[driver.serving] EXCEPT !.at = "answered",
                                                          !.answer = "ok"]
    BY <1>0, <2>1, <2>3, <2>4 DEF Answered, RequestState
  <2>6. PICK r \in Requests : r = driver.serving
    BY <2>1
  <2>7. IsAccepted(r)'
    BY <2>4, <2>5, <2>6 DEF IsAccepted, RequestState
  <2> QED
    BY <2>2, <2>6, <2>7
<1>9. CASE EndDrain \/ SendAll \/ SendFails \/ Reconnect \/ Settle
  BY <1>0, <1>9, <1>a DEF EndDrain, SendAll, SendFails, Reconnect, Settle,
                          DriverState, Arm
<1> QED
  BY <1>1, <1>2, <1>3, <1>4, <1>5, <1>6, <1>7, <1>8, <1>9 DEF Next, Drive

\* Results are only ever sent for a request that was told they are accepted.
LEMMA SentIsAcceptedStep ==
  ASSUME Typed, SentIsAccepted, [Next]_vars
  PROVE  SentIsAccepted'
<1>1. \A r \in Requests : IsAccepted(r) => IsAccepted(r)'
  BY AnswersFinal DEF IsAccepted
<1>2. driver.at \in Arm => driver.serving \in Requests
  BY DEF Typed, ServesInArm
<1>3. ASSUME NEW r \in Requests, sent'[r] # {}
      PROVE  IsAccepted(r)'
  <2>1. IsAccepted(r)
    BY <1>3, SentSteps DEF SentIsAccepted
  <2> QED
    BY <1>1, <2>1
<1>4. ASSUME driver'.at \in Arm \ {"started"}
      PROVE  \E r \in Requests : driver'.serving = r /\ IsAccepted(r)'
  <2>1. CASE driver.at \in Arm \ {"started"} /\ driver'.serving = driver.serving
    <3>1. PICK r \in Requests : r = driver.serving
      BY <1>2, <2>1
    <3>2. IsAccepted(r)
      BY <2>1, <3>1 DEF SentIsAccepted
    <3> QED
      BY <1>1, <2>1, <3>1, <3>2
  <2> QED
    BY <1>4, <2>1, ArmSteps
<1> QED
  BY <1>3, <1>4 DEF SentIsAccepted, IsAccepted

\* A request that is told to retry, or of any failure, may bring its results
\* again: none of them was, or will be, put on the wire for it.
THEOREM RefusalsHold == Spec => []RefusedNotSent
<1>1. Init => Typed /\ SentIsAccepted
  <2>1. Init => /\ \A r \in Requests : sent[r] = {}
                /\ driver.at \notin Arm
    BY DEF Init, Arm
  <2> QED
    BY <2>1, TypedInit DEF SentIsAccepted
<1>2. Typed /\ SentIsAccepted /\ [Next]_vars => Typed' /\ SentIsAccepted'
  BY TypedStep, SentIsAcceptedStep
<1>3. Typed /\ SentIsAccepted => RefusedNotSent
  BY DEF SentIsAccepted, IsAccepted, RefusedNotSent, Answers
<1> QED
  BY <1>1, <1>2, <1>3, PTL DEF Spec
-----------------------------------------------------------------------------
(* What reaches the wire.                                                   *)

\* An exec is collected or awaited, never both, once it was seen, and until it
\* is aborted.
BatchesSound ==
  /\ pending.collecting \cap pending.awaiting = {}
  /\ pending.collecting \cup pending.awaiting \subseteq pending.seen \ aborted
  /\ aborted \subseteq pending.seen

\* In these parts of the arm the accepted frames are not yet on the wire.
Carrying == driver.at \in {"draining", "sending", "resending"}
Running == driver.at \notin {"ending", "gone"}

\* While the Run goes on, what was sent is neither collected nor awaited again,
\* and the frames the arm holds were not sent.
WireSound ==
  /\ driver.at \in {"loop", "started"} => driver.frames = {}
  /\ Running => \A e \in Execs : wire[e] > 0 =>
                  e \in pending.seen \ (pending.collecting \cup pending.awaiting)
  /\ Carrying => \A e \in driver.frames :
                   wire[e] = 0 /\ e \in pending.seen \ pending.collecting

\* The shared view is what the driver awaits, the ResumeBatch arm included.
ViewSound == Running => exposed = pending.awaiting

\* Only a request that was answered has an answer.
AnswersGiven == \A r \in Requests : req[r].at # "answered" => req[r].answer = "none"

\* Each batch that was acknowledged is sent, or is the one in the arm.
AcceptedSound ==
  Running => \A r \in Requests : IsAccepted(r) =>
    IF Carrying /\ r = driver.serving
    THEN driver.frames = req[r].batch /\ sent[r] = {}
    ELSE sent[r] = req[r].batch

Delivery ==
  /\ BatchesSound /\ WireSound /\ ViewSound /\ AnswersGiven /\ AcceptedSound /\ SentOnce

\* Where the driver is after an exit of the arm or an event in its loop.
LEMMA DriverMoves ==
  ASSUME Typed
  PROVE  /\ \A why : Leave(why) => driver'.at = "ending" /\ driver'.frames = {}
         /\ Continue => driver'.at = "loop" /\ driver'.frames = {}
         /\ Resumed(driver).at = driver.at /\ Resumed(driver).frames = driver.frames
         /\ Resumed(driver).serving = driver.serving
<1>1. driver \in DriverState
  BY DEF Typed, TypeOK
<1> QED
  BY <1>1 DEF Leave, Continue, Resumed, DriverState

\* A step that neither queues, exposes, sends nor accepts anything.
Still ==
  /\ UNCHANGED <<pending, exposed, wire, sent, aborted>>
  /\ driver'.at = driver.at /\ driver'.frames = driver.frames
  /\ driver'.serving = driver.serving

\* The requests, the clock and a cancellation take such steps.
LEMMA StillSteps ==
  ASSUME Typed,
         \/ \E r \in Requests : Arrive(r) \/ ServeRequest(r) \/ Disconnect(r)
         \/ Cancel \/ Tick \/ UNCHANGED vars
  PROVE  Still
<1>1. CASE \E r \in Requests : Arrive(r) \/ ServeRequest(r) \/ Disconnect(r)
  BY <1>1 DEF Arrive, ServeRequest, Disconnect, Admit, GetCapacity, SendCommand,
              Timeout, Still
<1>2. CASE Cancel \/ Tick \/ UNCHANGED vars
  BY <1>2, DriverMoves DEF Cancel, Tick, vars, Still
<1> QED
  BY <1>1, <1>2

\* The top of the loop and a command that came too late leave the batch alone
\* as well; a command that is received opens the arm.
LEMMA LoopSteps ==
  ASSUME Typed, Sweep \/ Receive
  PROVE  /\ UNCHANGED <<pending, exposed, wire, sent, aborted>>
         /\ driver.at = "loop"
         /\ \/ Still
            \/ driver'.at = "ending"
            \/ driver'.at = "started" /\ driver'.frames = driver.frames
<1>0. driver \in DriverState
  BY DEF Typed, TypeOK
<1>1. CASE Sweep
  <2>1. UNCHANGED <<pending, exposed, wire, sent, aborted>> /\ driver.at = "loop"
    BY <1>1 DEF Sweep
  <2>2. \/ driver'.at = "ending"
        \/ driver' = [driver EXCEPT !.swept = TRUE]
    BY <1>0, <1>1, DriverMoves DEF Sweep, DriverState
  <2> QED
    BY <1>0, <2>1, <2>2 DEF Still, DriverState
<1>2. CASE Receive
  <2>1. UNCHANGED <<pending, exposed, wire, sent, aborted>> /\ driver.at = "loop"
    BY <1>2 DEF Receive
  <2>2. \/ driver' = [driver EXCEPT !.at = "started", !.serving = Head(channel)]
        \/ driver' = Resumed(driver)
    BY <1>2 DEF Receive
  <2> QED
    BY <1>0, <2>1, <2>2, DriverMoves DEF Still, DriverState
<1> QED
  BY <1>1, <1>2

\* What a ResumeBatch arm does with its command when it does not accept it.
LEMMA AcceptSteps ==
  ASSUME Typed, Accept
  PROVE  /\ UNCHANGED <<pending, exposed, wire, sent, aborted>>
         /\ driver.at = "started" /\ driver.serving \in Requests
         /\ \/ /\ driver'.at \in {"ending", "loop"} /\ driver'.frames = {}
               /\ req' = req \/ \E answer \in Answers \ {"ok"} :
                                  Acknowledge(driver.serving, answer)
            \/ /\ Encodable(driver.serving) /\ Listening(driver.serving)
               /\ req' = Answered(driver.serving, "ok")
               /\ driver'.at = "draining" /\ driver'.serving = driver.serving
               /\ driver'.frames = req[driver.serving].batch
<1>0. driver \in DriverState
  BY DEF Typed, TypeOK
<1>1. UNCHANGED <<pending, exposed, wire, sent, aborted>> /\ driver.at = "started"
  BY DEF Accept
<1>2. driver.serving \in Requests
  BY <1>1 DEF Typed, ServesInArm, Arm
<1>3. {"limit", "invalid", "stage"} \subseteq Answers \ {"ok"}
  BY DEF Answers
<1>4. CASE AtSegmentLimit /\ Acknowledge(driver.serving, "limit") /\ Leave("other")
  BY <1>1, <1>2, <1>3, <1>4, DriverMoves
<1>5. CASE Acknowledge(driver.serving, "invalid") /\ Continue
  BY <1>1, <1>2, <1>3, <1>5, DriverMoves
<1>6. CASE Acknowledge(driver.serving, "stage") /\ StageFails
  BY <1>1, <1>2, <1>3, <1>6, DriverMoves DEF StageFails
<1>7. CASE (Continue \/ Leave("other")) /\ UNCHANGED req
  BY <1>1, <1>2, <1>7, DriverMoves
<1>8. CASE /\ Encodable(driver.serving) /\ Listening(driver.serving)
           /\ Acknowledge(driver.serving, "ok")
           /\ driver' = [driver EXCEPT !.at = "draining", !.segments = @ + 1,
                                       !.frames = req[driver.serving].batch]
  <2>1. req' = Answered(driver.serving, "ok")
    BY <1>8 DEF Acknowledge
  <2>2. /\ driver'.at = "draining" /\ driver'.serving = driver.serving
        /\ driver'.frames = req[driver.serving].batch
    BY <1>0, <1>8 DEF DriverState
  <2> QED
    BY <1>1, <1>2, <1>8, <2>1, <2>2
<1> QED
  BY <1>4, <1>5, <1>6, <1>7, <1>8 DEF Accept

\* Between the acceptance of a batch and the end of the arm.
LEMMA ArmMoves ==
  ASSUME Typed, EndDrain \/ Settle \/ Finish
  PROVE  /\ UNCHANGED <<pending, wire, sent, aborted>>
         /\ \/ driver'.at \in {"ending", "gone"}
            \/ /\ driver.at = "settling" /\ driver'.at = "loop" /\ driver'.frames = {}
               /\ UNCHANGED exposed
            \/ /\ driver.at = "draining" /\ driver'.at = "sending"
               /\ driver'.frames = driver.frames /\ driver'.serving = driver.serving
               /\ UNCHANGED exposed
<1>0. driver \in DriverState
  BY DEF Typed, TypeOK
<1>1. CASE EndDrain
  BY <1>0, <1>1 DEF EndDrain, DriverState
<1>2. CASE Settle
  BY <1>2, DriverMoves DEF Settle
<1>3. CASE Finish
  BY <1>0, <1>3 DEF Finish, DriverState
<1> QED
  BY <1>1, <1>2, <1>3

\* The frames the arm holds, or some of them, reach the wire once.
LEMMA SendSteps ==
  ASSUME Typed, SendAll \/ SendFails
  PROVE  /\ UNCHANGED aborted /\ driver.at \in {"sending", "resending"}
         /\ driver.serving \in Requests /\ driver.frames \in SUBSET Execs
         /\ \E S \in SUBSET driver.frames :
              /\ \A e \in Execs : wire'[e] = IF e \in S THEN wire[e] + 1 ELSE wire[e]
              /\ sent' = [sent EXCEPT ![driver.serving] = @ \cup S]
              /\ \/ driver'.at = "ending" /\ UNCHANGED pending
                 \/ /\ S = driver.frames /\ driver'.at = "settling"
                    /\ pending' = Completed(pending) /\ exposed' = {}
<1>0. driver \in DriverState
  BY DEF Typed, TypeOK
<1>1. UNCHANGED aborted /\ driver.at \in {"sending", "resending"}
  BY DEF SendAll, SendFails
<1>2. driver.serving \in Requests /\ driver.frames \in SUBSET Execs
  BY <1>0, <1>1 DEF Typed, ServesInArm, Arm, DriverState
<1>3. CASE SendAll
  <2>1. PutOnWire(driver.frames)
    BY <1>3 DEF SendAll
  <2>2. \/ driver'.at = "ending" /\ UNCHANGED pending
        \/ /\ driver'.at = "settling"
           /\ pending' = Completed(pending) /\ exposed' = {}
    BY <1>0, <1>3, DriverMoves DEF SendAll, DriverState
  <2> QED
    BY <1>1, <1>2, <2>1, <2>2 DEF PutOnWire
<1>4. CASE SendFails
  <2>1. PICK S \in SUBSET driver.frames : PutOnWire(S)
    BY <1>4 DEF SendFails
  <2>2. driver'.at = "ending" /\ UNCHANGED pending
    BY <1>4, DriverMoves DEF SendFails
  <2> QED
    BY <1>1, <1>2, <2>1, <2>2 DEF PutOnWire
<1> QED
  BY <1>3, <1>4

\* What the frames of Cursor, the quiet window and a reconnect do to a batch.
LEMMA BatchSteps ==
  ASSUME Typed,
         \/ \E e \in Execs : QueueExec(e) \/ Abort(e)
         \/ ExposeNative \/ ExposeClientOnly \/ UpstreamEnds \/ Reconnect
  PROVE  /\ UNCHANGED <<wire, sent, req>>
         /\ driver'.at # driver.at =>
              driver'.at = "ending" \/ (driver.at = "sending" /\ driver'.at = "resending")
         /\ driver'.at # "ending" => /\ driver'.frames = driver.frames
                                     /\ driver'.serving = driver.serving
         /\ \/ /\ UNCHANGED aborted
               /\ \E e \in Execs \ pending.seen : pending' = Queued(pending, e)
               /\ UNCHANGED exposed /\ HandlesFrames
            \/ /\ \E e \in Native(pending.collecting \cup pending.awaiting) :
                    pending' = Aborted(pending, e) /\ aborted' = aborted \cup {e}
               /\ exposed' = pending'.awaiting
            \/ /\ UNCHANGED aborted /\ CanExpose(pending) /\ driver.at = "loop"
               /\ \E i \in Instants \cup {Never} :
                    pending' = [NativeExposed(pending) EXCEPT !.since = i]
               /\ exposed' = pending'.awaiting \/ driver'.at = "ending"
            \/ /\ UNCHANGED aborted /\ driver'.at = "ending" /\ CanExpose(pending)
               /\ pending' = [ClientExposed(pending) EXCEPT !.since = clock]
            \/ UNCHANGED <<aborted, pending>> /\ driver'.at = "ending"
            \/ /\ UNCHANGED <<aborted, exposed>>
               /\ \E unsent \in SUBSET Native(pending.collecting) :
                    pending' = ControlClosed(pending, unsent)
<1>0. driver \in DriverState /\ pending \in PendingState
  BY DEF Typed, TypeOK
<1>1. ASSUME NEW e \in Execs, QueueExec(e)
      PROVE  /\ UNCHANGED <<wire, sent, req, aborted, exposed>> /\ HandlesFrames
             /\ driver' = Resumed(driver)
             /\ e \in Execs \ pending.seen /\ pending' = Queued(pending, e)
  BY <1>1 DEF QueueExec
<1>2. ASSUME NEW e \in Execs, Abort(e)
      PROVE  /\ UNCHANGED <<wire, sent, req>> /\ driver' = Resumed(driver)
             /\ e \in Native(pending.collecting \cup pending.awaiting)
             /\ pending' = Aborted(pending, e) /\ aborted' = aborted \cup {e}
             /\ exposed' = pending'.awaiting
  BY <1>2 DEF Abort
<1>3. ASSUME ExposeNative
      PROVE  /\ UNCHANGED <<wire, sent, req, aborted>> /\ CanExpose(pending)
             /\ driver.at = "loop"
             /\ \E i \in Instants \cup {Never} :
                  pending' = [NativeExposed(pending) EXCEPT !.since = i]
             /\ \/ driver' = Resumed(driver) /\ exposed' = pending'.awaiting
                \/ driver'.at = "ending"
  <2>1. UNCHANGED <<wire, sent, req, aborted>> /\ CanExpose(pending) /\ driver.at = "loop"
    BY <1>3 DEF ExposeNative
  <2>2. NativeExposed(pending) \in PendingState /\ clock \in Instants
    BY <1>0, SetDeadlineType DEF Typed, NativeExposed, PendingState, Native
  <2>3. CASE Publish(NativeExposed(pending)) /\ driver' = Resumed(driver)
    BY <2>1, <2>2, <2>3 DEF Publish, PendingState
  <2>4. CASE pending' = NativeExposed(pending) /\ Leave("other")
    <3>1. pending' = [NativeExposed(pending) EXCEPT !.since = pending.since]
      BY <1>0, <2>4 DEF NativeExposed, PendingState
    <3>2. pending.since \in Instants \cup {Never}
      BY <1>0 DEF PendingState
    <3> QED
      BY <2>1, <2>4, <3>1, <3>2, DriverMoves
  <2> QED
    BY <1>3, <2>3, <2>4 DEF ExposeNative
<1>4. ASSUME ExposeClientOnly
      PROVE  /\ UNCHANGED <<wire, sent, req, aborted>> /\ CanExpose(pending)
             /\ driver'.at = "ending"
             /\ pending' = [ClientExposed(pending) EXCEPT !.since = clock]
  BY <1>0, <1>4 DEF ExposeClientOnly, DriverState
<1>5. ASSUME UpstreamEnds
      PROVE  UNCHANGED <<wire, sent, req, aborted, pending>> /\ driver'.at = "ending"
  BY <1>5, DriverMoves DEF UpstreamEnds
<1>6. ASSUME Reconnect
      PROVE  /\ UNCHANGED <<wire, sent, req, aborted, exposed>>
             /\ \E unsent \in SUBSET Native(pending.collecting) :
                  pending' = ControlClosed(pending, unsent)
             /\ \/ driver'.at = "ending"
                \/ /\ driver.at = "sending" /\ driver'.at = "resending"
                   /\ driver'.frames = driver.frames /\ driver'.serving = driver.serving
  BY <1>0, <1>6, DriverMoves DEF Reconnect, DriverState
<1> QED
  BY <1>1, <1>2, <1>3, <1>4, <1>5, <1>6, DriverMoves

\* What one step does to the batch, the execs seen and the execs aborted.
LEMMA BatchesStep ==
  ASSUME Typed, BatchesSound, [Next]_vars
  PROVE  BatchesSound'
<1>0. pending \in PendingState /\ aborted \subseteq Execs
  BY DEF Typed, TypeOK
<1>1. CASE UNCHANGED <<pending, aborted>>
  BY <1>1 DEF BatchesSound
<1>2. CASE Sweep \/ Receive \/ Accept \/ EndDrain \/ Settle \/ Finish
  BY <1>1, <1>2, LoopSteps, AcceptSteps, ArmMoves
<1>3. CASE SendAll \/ SendFails
  <2>1. UNCHANGED aborted /\ (UNCHANGED pending \/ pending' = Completed(pending))
    BY <1>3, SendSteps
  <2> QED
    BY <1>0, <2>1 DEF BatchesSound, Completed, PendingState
<1>4. CASE \/ \E e \in Execs : QueueExec(e) \/ Abort(e)
           \/ ExposeNative \/ ExposeClientOnly \/ UpstreamEnds \/ Reconnect
  <2>1. ASSUME NEW e \in Execs \ pending.seen, pending' = Queued(pending, e),
               UNCHANGED aborted
        PROVE  BatchesSound'
    BY <1>0, <2>1 DEF BatchesSound, Queued, PendingState
  <2>2. ASSUME NEW e \in Native(pending.collecting \cup pending.awaiting),
               pending' = Aborted(pending, e), aborted' = aborted \cup {e}
        PROVE  BatchesSound'
    <3>1. Native({e}) = {e} /\ e \in pending.seen
      BY <2>2 DEF Native, BatchesSound
    <3>2. /\ pending'.collecting = pending.collecting \ {e}
          /\ pending'.awaiting = pending.awaiting \ {e}
          /\ pending'.seen = pending.seen
      BY <1>0, <2>2, <3>1 DEF Aborted, PendingState
    <3> QED
      BY <2>2, <3>1, <3>2 DEF BatchesSound
  <2>3. ASSUME NEW i \in Instants \cup {Never}, CanExpose(pending), UNCHANGED aborted,
               pending' = [NativeExposed(pending) EXCEPT !.since = i]
        PROVE  BatchesSound'
    BY <1>0, <2>3 DEF BatchesSound, CanExpose, NativeExposed, Native, PendingState
  <2>4. ASSUME CanExpose(pending), UNCHANGED aborted,
               pending' = [ClientExposed(pending) EXCEPT !.since = clock]
        PROVE  BatchesSound'
    BY <1>0, <2>4 DEF BatchesSound, CanExpose, ClientExposed, Native, PendingState
  <2>5. ASSUME NEW unsent \in SUBSET Native(pending.collecting), UNCHANGED aborted,
               pending' = ControlClosed(pending, unsent)
        PROVE  BatchesSound'
    BY <1>0, <2>5 DEF BatchesSound, ControlClosed, Native, PendingState
  <2> QED
    BY <1>1, <1>4, <2>1, <2>2, <2>3, <2>4, <2>5, BatchSteps
<1>5. CASE \/ \E r \in Requests : Arrive(r) \/ ServeRequest(r) \/ Disconnect(r)
           \/ Cancel \/ Tick \/ UNCHANGED vars
  BY <1>1, <1>5, StillSteps DEF Still
<1> QED
  BY <1>2, <1>3, <1>4, <1>5 DEF Next, Drive

\* While the Run goes on, what was sent stays out of the batches.
LEMMA WireStep ==
  ASSUME Typed, BatchesSound, WireSound, SentOnce, ViewSound, [Next]_vars
  PROVE  WireSound' /\ SentOnce' /\ ViewSound'
<1>0. /\ pending \in PendingState /\ aborted \subseteq Execs
      /\ wire \in [Execs -> Nat] /\ driver \in DriverState
  BY DEF Typed, TypeOK
<1>1. CASE Still
  BY <1>1 DEF Still, WireSound, SentOnce, ViewSound, Running, Carrying
<1>2. ASSUME driver'.at \in {"ending", "gone"}, UNCHANGED wire
      PROVE  WireSound' /\ SentOnce' /\ ViewSound'
  BY <1>2 DEF WireSound, SentOnce, ViewSound, Running, Carrying
<1>3. CASE Sweep \/ Receive
  BY <1>1, <1>2, <1>3, LoopSteps DEF WireSound, SentOnce, ViewSound, Running, Carrying
<1>4. CASE Accept
  <2>1. CASE driver'.at = "loop" /\ driver'.frames = {}
    BY <1>4, <2>1, AcceptSteps DEF WireSound, SentOnce, ViewSound, Running, Carrying
  <2>2. CASE /\ Encodable(driver.serving) /\ driver'.at = "draining"
             /\ driver'.frames = req[driver.serving].batch
    <3>1. driver'.frames = pending.awaiting
      BY <2>2 DEF Encodable
    <3>2. \A e \in pending.awaiting : wire[e] = 0 /\ e \in pending.seen \ pending.collecting
      <4> TAKE e \in pending.awaiting
      <4>1. e \in Execs /\ wire[e] \in Nat /\ ~(wire[e] > 0)
        BY <1>0, <1>4, AcceptSteps DEF WireSound, Running, PendingState
      <4> QED
        BY <4>1 DEF BatchesSound
    <3> QED
      BY <1>4, <2>2, <3>1, <3>2, AcceptSteps
         DEF WireSound, SentOnce, ViewSound, Running, Carrying
  <2> QED
    BY <1>2, <1>4, <2>1, <2>2, AcceptSteps
<1>5. CASE EndDrain \/ Settle \/ Finish
  BY <1>2, <1>5, ArmMoves DEF WireSound, SentOnce, ViewSound, Running, Carrying
<1>6. CASE SendAll \/ SendFails
  <2>1. PICK S \in SUBSET driver.frames :
          /\ \A e \in Execs : wire'[e] = IF e \in S THEN wire[e] + 1 ELSE wire[e]
          /\ \/ driver'.at = "ending" /\ UNCHANGED pending
             \/ /\ S = driver.frames /\ driver'.at = "settling"
                /\ pending' = Completed(pending) /\ exposed' = {}
    BY <1>6, SendSteps
  <2>2. /\ Carrying /\ Running
    BY <1>6, SendSteps DEF Carrying, Running
  <2>3. SentOnce'
    <3> SUFFICES ASSUME NEW e \in Execs PROVE wire'[e] <= 1
      BY DEF SentOnce
    <3>1. wire[e] \in Nat /\ wire[e] <= 1
      BY <1>0 DEF SentOnce
    <3>2. e \in S => wire[e] = 0
      BY <2>1, <2>2 DEF WireSound
    <3> QED
      BY <2>1, <3>1, <3>2
  <2>4. CASE driver'.at = "ending"
    BY <2>3, <2>4 DEF WireSound, ViewSound, Running, Carrying
  <2>5. CASE /\ S = driver.frames /\ driver'.at = "settling"
             /\ pending' = Completed(pending) /\ exposed' = {}
    <3>1. /\ pending'.awaiting = {} /\ pending'.collecting = pending.collecting
          /\ pending'.seen = pending.seen
      BY <1>0, <2>5 DEF Completed, PendingState
    <3>2. ASSUME NEW e \in Execs, wire'[e] > 0
          PROVE  e \in pending.seen \ pending.collecting
      <4>1. CASE e \in S
        BY <2>2, <4>1 DEF WireSound
      <4>2. CASE e \notin S
        BY <2>1, <2>2, <3>2, <4>2 DEF WireSound
      <4> QED
        BY <4>1, <4>2
    <3> QED
      BY <2>3, <2>5, <3>1, <3>2 DEF WireSound, ViewSound, Running, Carrying
  <2> QED
    BY <2>1, <2>4, <2>5
<1>7. CASE \/ \E e \in Execs : QueueExec(e) \/ Abort(e)
           \/ ExposeNative \/ ExposeClientOnly \/ UpstreamEnds \/ Reconnect
  <2>0. UNCHANGED wire
    BY <1>7, BatchSteps
  <2>1. CASE driver'.at = "ending"
    BY <1>2, <2>0, <2>1
  <2> DEFINE Same == /\ driver'.frames = driver.frames
                     /\ \/ driver'.at = driver.at
                        \/ driver.at = "sending" /\ driver'.at = "resending"
  <2>2. driver'.at # "ending" => Same
    BY <1>7, BatchSteps
  <2>3. ASSUME Same, exposed' = pending'.awaiting \/ (exposed' = exposed /\
                 pending'.awaiting = pending.awaiting),
               pending.seen \subseteq pending'.seen,
               (pending'.collecting \cup pending'.awaiting) \cap pending.seen
                  \subseteq pending.collecting \cup pending.awaiting,
               Carrying => pending'.collecting \cap pending.seen \subseteq pending.collecting
        PROVE  WireSound' /\ SentOnce' /\ ViewSound'
    <3>1. Carrying' => Carrying
      BY <2>3 DEF Carrying
    <3>2. Running' => Running
      BY <2>3 DEF Running
    <3>3. SentOnce'
      BY <2>0 DEF SentOnce
    <3>4. ViewSound'
      BY <2>3, <3>2 DEF ViewSound
    <3>5. WireSound'
      BY <2>0, <2>3, <3>1, <3>2 DEF WireSound
    <3> QED
      BY <3>3, <3>4, <3>5
  <2> HIDE DEF Same
  <2>4. ASSUME NEW e \in Execs \ pending.seen, pending' = Queued(pending, e),
               UNCHANGED exposed, Same
        PROVE  WireSound' /\ SentOnce' /\ ViewSound'
    <3>1. /\ pending'.awaiting = pending.awaiting /\ pending.seen \subseteq pending'.seen
          /\ pending'.collecting \cap pending.seen \subseteq pending.collecting
      BY <1>0, <2>4 DEF Queued, PendingState
    <3> QED
      BY <2>3, <2>4, <3>1
  <2>5. ASSUME NEW e, pending' = Aborted(pending, e),
               exposed' = pending'.awaiting, Same
        PROVE  WireSound' /\ SentOnce' /\ ViewSound'
    <3>1. /\ pending'.awaiting \subseteq pending.awaiting /\ pending.seen = pending'.seen
          /\ pending'.collecting \subseteq pending.collecting
      BY <1>0, <2>5 DEF Aborted, PendingState
    <3> QED
      BY <2>3, <2>5, <3>1
  <2>6. ASSUME NEW i \in Instants \cup {Never}, driver.at = "loop", Same,
               pending' = [NativeExposed(pending) EXCEPT !.since = i],
               exposed' = pending'.awaiting
        PROVE  WireSound' /\ SentOnce' /\ ViewSound'
    <3>1. /\ pending'.awaiting \subseteq pending.collecting /\ pending.seen = pending'.seen
          /\ pending'.collecting \subseteq pending.collecting
      BY <1>0, <2>6 DEF NativeExposed, Native, PendingState
    <3> QED
      BY <2>3, <2>6, <3>1
  <2>7. ASSUME NEW unsent \in SUBSET Native(pending.collecting), Same, UNCHANGED exposed,
               pending' = ControlClosed(pending, unsent)
        PROVE  WireSound' /\ SentOnce' /\ ViewSound'
    <3>1. /\ pending'.awaiting = pending.awaiting /\ pending.seen = pending'.seen
          /\ pending'.collecting \subseteq pending.collecting
      BY <1>0, <2>7 DEF ControlClosed, Native, PendingState
    <3> QED
      BY <2>3, <2>7, <3>1
  <2> QED
    BY <1>7, <2>1, <2>2, <2>4, <2>5, <2>6, <2>7, BatchSteps
<1>8. CASE \/ \E r \in Requests : Arrive(r) \/ ServeRequest(r) \/ Disconnect(r)
           \/ Cancel \/ Tick \/ UNCHANGED vars
  BY <1>1, <1>8, StillSteps
<1> QED
  BY <1>3, <1>4, <1>5, <1>6, <1>7, <1>8 DEF Next, Drive

\* A step answers a request, or leaves its answer alone.
LEMMA AnswersStep ==
  ASSUME Typed, AnswersGiven, [Next]_vars
  PROVE  AnswersGiven'
<1>0. req \in [Requests -> RequestState]
  BY DEF Typed, TypeOK
<1>1. ASSUME NEW r \in Requests, NEW q,
             req' = [req EXCEPT ![r] = q] \/ req' = req,
             q.at = "answered" \/ (req[r].at # "answered" /\ q.answer = req[r].answer)
      PROVE  AnswersGiven'
  BY <1>0, <1>1 DEF AnswersGiven
<1>2. ASSUME NEW r \in Requests, NEW answer, req' = Answered(r, answer)
      PROVE  AnswersGiven'
  <2> DEFINE q == [req[r] EXCEPT !.at = "answered", !.answer = answer]
  <2>1. q.at = "answered" /\ Answered(r, answer) = [req EXCEPT ![r] = q]
    BY <1>0 DEF Answered, RequestState
  <2> HIDE DEF q
  <2> QED
    BY <1>1, <1>2, <2>1
<1>3. ASSUME NEW r \in Requests, Arrive(r) \/ ServeRequest(r) \/ Disconnect(r)
      PROVE  AnswersGiven'
  <2>1. req[r].at # "answered" /\ req[r] \in RequestState
    BY <1>0, <1>3 DEF Arrive, ServeRequest, Disconnect, Admit, GetCapacity, SendCommand,
                Timeout
  <2>2. ASSUME NEW at \in {"admitted", "dispatch", "waiting"}, req' = [req EXCEPT ![r].at = at]
        PROVE  AnswersGiven'
    <3> DEFINE q == [req[r] EXCEPT !.at = at]
    <3>1. q.answer = req[r].answer /\ req' = [req EXCEPT ![r] = q]
      BY <2>1, <2>2 DEF RequestState
    <3> HIDE DEF q
    <3> QED
      BY <1>1, <2>1, <3>1
  <2>3. ASSUME NEW batch, NEW now,
               req' = [req EXCEPT ![r].at = "checked", ![r].batch = batch, ![r].now = now]
        PROVE  AnswersGiven'
    <3> DEFINE q == [req[r] EXCEPT !.at = "checked", !.batch = batch, !.now = now]
    <3>1. q.answer = req[r].answer /\ req' = [req EXCEPT ![r] = q]
      BY <1>0, <2>1, <2>3 DEF RequestState
    <3> HIDE DEF q
    <3> QED
      BY <1>1, <2>1, <3>1
  <2>4. CASE Arrive(r)
    BY <1>2, <2>3, <2>4 DEF Arrive
  <2>5. CASE ServeRequest(r) \/ Disconnect(r)
    BY <1>2, <2>2, <2>5
       DEF ServeRequest, Disconnect, Admit, GetCapacity, SendCommand, Timeout
  <2> QED
    BY <1>3, <2>4, <2>5
<1>4. CASE req' = req
  BY <1>4 DEF AnswersGiven
<1>5. CASE Accept
  BY <1>2, <1>4, <1>5, AcceptSteps DEF Acknowledge
<1>6. CASE Finish
  BY <1>0, <1>6 DEF Finish, AnswersGiven, RequestState
<1>7. CASE Sweep \/ Receive \/ EndDrain \/ SendAll \/ SendFails \/ Reconnect \/ Settle
  BY <1>4, <1>7 DEF Sweep, Receive, EndDrain, SendAll, SendFails, Reconnect, Settle
<1>8. ASSUME NEW e \in Execs, QueueExec(e) \/ Abort(e)
      PROVE  AnswersGiven'
  BY <1>4, <1>8 DEF QueueExec, Abort
<1>9. CASE Cancel \/ Tick \/ ExposeNative \/ ExposeClientOnly \/ UpstreamEnds
           \/ UNCHANGED vars
  BY <1>4, <1>9 DEF Cancel, Tick, ExposeNative, ExposeClientOnly, UpstreamEnds, vars
<1> QED
  BY <1>3, <1>5, <1>6, <1>7, <1>8, <1>9 DEF Next, Drive

\* Only the arm tells a request that its results are accepted, one at a time.
LEMMA AcceptedBy ==
  ASSUME Typed, [Next]_vars, NEW r \in Requests, IsAccepted(r)', ~IsAccepted(r)
  PROVE  /\ Accept /\ r = driver.serving
         /\ driver'.at = "draining" /\ driver'.serving = r /\ driver'.frames = req[r].batch
         /\ req' = Answered(r, "ok")
<1>0. req \in [Requests -> RequestState]
  BY DEF Typed, TypeOK
<1>1. ASSUME NEW s \in Requests, NEW answer, answer # "ok", req' = Answered(s, answer)
      PROVE  FALSE
  BY <1>0, <1>1 DEF Answered, IsAccepted, RequestState
<1>2. req' # req
  BY DEF IsAccepted
<1>3. ASSUME NEW s \in Requests, NEW at, at # "answered", req' = [req EXCEPT ![s].at = at]
      PROVE  FALSE
  BY <1>0, <1>3 DEF IsAccepted, RequestState
<1>4. ASSUME NEW s \in Requests, Arrive(s) \/ ServeRequest(s) \/ Disconnect(s)
      PROVE  FALSE
  <2>1. CASE Arrive(s)
    <3>1. ASSUME NEW batch, req' = [req EXCEPT ![s].at = "checked", ![s].batch = batch,
                                               ![s].now = clock]
          PROVE  FALSE
      BY <1>0, <3>1 DEF IsAccepted, RequestState
    <3> QED
      BY <1>1, <2>1, <3>1 DEF Arrive
  <2>2. CASE Admit(s)
    <3>1. Admission(word, req[s].now).answer # "ok"
      BY DEF Admission
    <3> QED
      BY <1>1, <1>3, <2>2, <3>1 DEF Admit
  <2>3. CASE GetCapacity(s) \/ SendCommand(s) \/ Timeout(s) \/ Disconnect(s)
    BY <1>1, <1>3, <2>3 DEF GetCapacity, SendCommand, Timeout, Disconnect
  <2> QED
    BY <1>4, <2>1, <2>2, <2>3 DEF ServeRequest
<1>5. ASSUME NEW e \in Execs, QueueExec(e) \/ Abort(e)
      PROVE  FALSE
  BY <1>2, <1>5 DEF QueueExec, Abort
<1>6. ~(\/ Cancel \/ Tick \/ ExposeNative \/ ExposeClientOnly \/ UpstreamEnds
        \/ UNCHANGED vars)
  BY <1>2 DEF Cancel, Tick, ExposeNative, ExposeClientOnly, UpstreamEnds, vars
<1>7. ~(Sweep \/ Receive \/ EndDrain \/ SendAll \/ SendFails \/ Reconnect \/ Settle)
  BY <1>2 DEF Sweep, Receive, EndDrain, SendAll, SendFails, Reconnect, Settle
<1>8. ~Finish
  BY <1>0 DEF Finish, IsAccepted, RequestState
<1>9. Accept
  BY <1>4, <1>5, <1>6, <1>7, <1>8 DEF Next, Drive
<1>10. /\ driver.serving \in Requests /\ req' = Answered(driver.serving, "ok")
       /\ driver'.at = "draining" /\ driver'.serving = driver.serving
       /\ driver'.frames = req[driver.serving].batch
  BY <1>1, <1>2, <1>9, AcceptSteps DEF Acknowledge
<1>11. r = driver.serving
  <2> SUFFICES ASSUME r # driver.serving PROVE req'[r] = req[r]
    BY DEF IsAccepted
  <2> QED
    BY <1>0, <1>10 DEF Answered
<1> QED
  BY <1>9, <1>10, <1>11

\* Each acknowledged batch is sent whole before the driver is back in its loop.
LEMMA AcceptedStep ==
  ASSUME Typed, SentIsAccepted, AcceptedSound, [Next]_vars
  PROVE  AcceptedSound'
<1>0. /\ driver \in DriverState /\ sent \in [Requests -> SUBSET Execs]
      /\ req \in [Requests -> RequestState]
  BY DEF Typed, TypeOK
<1> SUFFICES ASSUME Running', NEW r \in Requests, IsAccepted(r)'
             PROVE  IF Carrying' /\ r = driver'.serving
                    THEN driver'.frames = req'[r].batch /\ sent'[r] = {}
                    ELSE sent'[r] = req'[r].batch
  BY DEF AcceptedSound
<1>1. CASE ~IsAccepted(r)
  <2>1. /\ Accept /\ driver'.at = "draining" /\ driver'.serving = r
        /\ driver'.frames = req[r].batch /\ req' = Answered(r, "ok")
    BY <1>1, AcceptedBy
  <2>2. sent'[r] = {}
    BY <1>1, <2>1, AcceptSteps DEF SentIsAccepted
  <2>3. req'[r].batch = req[r].batch
    BY <1>0, <2>1 DEF Answered, RequestState
  <2> QED
    BY <2>1, <2>2, <2>3 DEF Carrying
<1>2. CASE IsAccepted(r)
  <2>0. req'[r] = req[r]
    BY <1>2, AnswersFinal DEF IsAccepted
  <2>1. Running => IF Carrying /\ r = driver.serving
                   THEN driver.frames = req[r].batch /\ sent[r] = {}
                   ELSE sent[r] = req[r].batch
    BY <1>2 DEF AcceptedSound
  <2>2. CASE /\ Running /\ sent'[r] = sent[r]
             /\ IF Carrying /\ r = driver.serving
                THEN /\ Carrying' /\ driver'.serving = driver.serving
                     /\ driver'.frames = driver.frames
                ELSE ~(Carrying' /\ r = driver'.serving)
    BY <2>0, <2>1, <2>2
  <2>3. CASE Still
    BY <2>2, <2>3 DEF Still, Running, Carrying
  <2>4. CASE Sweep \/ Receive
    BY <2>2, <2>3, <2>4, LoopSteps DEF Running, Carrying
  <2>5. CASE Accept
    <3>1. Listening(driver.serving) => r # driver.serving
      BY <1>2 DEF Listening, IsAccepted
    <3> QED
      BY <2>2, <2>5, <3>1, AcceptSteps DEF Running, Carrying
  <2>6. CASE EndDrain \/ Settle \/ Finish
    BY <2>2, <2>6, ArmMoves DEF Running, Carrying
  <2>7. CASE SendAll \/ SendFails
    <3>1. /\ Running /\ Carrying
          /\ sent' = [sent EXCEPT ![driver.serving] = @ \cup driver.frames]
          /\ ~Carrying'
      BY <2>7, SendSteps DEF Running, Carrying
    <3>2. CASE r = driver.serving
      BY <1>0, <2>0, <2>1, <3>1, <3>2
    <3>3. CASE r # driver.serving
      BY <1>0, <2>0, <2>1, <3>1, <3>3
    <3> QED
      BY <3>2, <3>3
  <2>8. CASE \/ \E e \in Execs : QueueExec(e) \/ Abort(e)
             \/ ExposeNative \/ ExposeClientOnly \/ UpstreamEnds \/ Reconnect
    BY <2>2, <2>8, BatchSteps DEF Running, Carrying
  <2> QED
    BY <2>3, <2>4, <2>5, <2>6, <2>7, <2>8, StillSteps DEF Next, Drive
<1> QED
  BY <1>1, <1>2

\* The invariant behind delivery.
LEMMA DeliveryStep ==
  ASSUME Typed, SentIsAccepted, Delivery, [Next]_vars
  PROVE  Delivery'
<1>1. BatchesSound' /\ WireSound' /\ SentOnce' /\ ViewSound'
  BY BatchesStep, WireStep DEF Delivery
<1>2. AnswersGiven' /\ AcceptedSound'
  BY AnswersStep, AcceptedStep DEF Delivery
<1> QED
  BY <1>1, <1>2 DEF Delivery

\* It holds of every state, with the types and the promise behind a refusal.
LEMMA DeliveryInvariant == Spec => [](Typed /\ SentIsAccepted /\ Delivery)
<1>1. Init => Typed /\ SentIsAccepted /\ Delivery
  <2>1. ASSUME Init PROVE SentIsAccepted
    BY <2>1 DEF Init, Arm, SentIsAccepted
  <2>2. ASSUME Init PROVE Delivery
    BY <2>2 DEF Init, Delivery, BatchesSound, WireSound, ViewSound, AnswersGiven,
                AcceptedSound, SentOnce, IsAccepted, Carrying, Running
  <2> QED
    BY <2>1, <2>2, TypedInit
<1>2. Typed /\ SentIsAccepted /\ Delivery /\ [Next]_vars
        => Typed' /\ SentIsAccepted' /\ Delivery'
  BY TypedStep, SentIsAcceptedStep, DeliveryStep
<1> QED
  BY <1>1, <1>2, PTL DEF Spec

\* Cursor gets each result of an acknowledged batch, and no exec's result
\* twice, through failed sends, reconnects, aborts and repeated requests.
THEOREM ResultsArriveOnce == Spec => []EachResultOnce
<1>1. Typed /\ Delivery => EachResultOnce
  <2> SUFFICES ASSUME Typed, Delivery PROVE AcceptedWhole
    BY DEF Delivery, EachResultOnce
  <2> SUFFICES ASSUME driver.at = "loop", NEW r \in Requests, req[r].answer = "ok"
               PROVE  sent[r] = req[r].batch
    BY DEF AcceptedWhole
  <2>1. IsAccepted(r)
    BY DEF Delivery, AnswersGiven, IsAccepted
  <2> QED
    BY <2>1 DEF Delivery, AcceptedSound, Running, Carrying
<1> QED
  BY <1>1, DeliveryInvariant, PTL

\* Requests are validated against what the driver awaits, however Cursor's
\* aborts, new batches and reconnects change it.
THEOREM ViewInLockstep == Spec => []InLockstep
<1>1. Delivery => InLockstep
  BY DEF Delivery, ViewSound, InLockstep, Running
<1> QED
  BY <1>1, DeliveryInvariant, PTL

\* A result that comes after its exec was aborted is not accepted: no aborted
\* exec is among the frames of a batch that is.
THEOREM AbortedStayOut == Spec => AbortedNotAccepted
<1>1. Typed /\ Delivery /\ [Next]_vars
        => [driver.at = "started" => driver'.frames \cap aborted = {}]_vars
  <2> SUFFICES ASSUME Typed, Delivery, Next, driver.at = "started"
               PROVE  driver'.frames \cap aborted = {}
    OBVIOUS
  <2>1. driver.frames = {}
    BY DEF Delivery, WireSound
  <2>2. pending.awaiting \cap aborted = {}
    BY DEF Delivery, BatchesSound
  <2>3. CASE Still
    BY <2>1, <2>3 DEF Still
  <2>4. CASE Accept
    <3>1. CASE driver'.frames = {}
      BY <3>1
    <3>2. CASE Encodable(driver.serving) /\ driver'.frames = req[driver.serving].batch
      BY <2>2, <3>2 DEF Encodable
    <3> QED
      BY <2>4, <3>1, <3>2, AcceptSteps
  <2>5. ~(\/ Sweep \/ Receive \/ EndDrain \/ Settle \/ Finish \/ SendAll \/ SendFails
          \/ ExposeNative \/ ExposeClientOnly \/ UpstreamEnds \/ Reconnect
          \/ \E e \in Execs : QueueExec(e) \/ Abort(e))
    BY DEF Sweep, Receive, EndDrain, Settle, Finish, SendAll, SendFails, ExposeNative,
           ExposeClientOnly, UpstreamEnds, Reconnect, QueueExec, Abort, HandlesFrames
  <2> QED
    BY <2>3, <2>4, <2>5, StillSteps DEF Next, Drive
<1> QED
  BY <1>1, DeliveryInvariant, PTL DEF Spec, AbortedNotAccepted

=============================================================================
