------------------------ MODULE SandOperationProofs ------------------------
(***************************************************************************)
(* Proofs about SandOperation, for every number of requests and events and *)
(* every capacity: one invocation of a logical operation is alive at most, *)
(* the replay, the queues and the fan-out keep their bounds, and what a    *)
(* response is given are the events of one invocation, in order.           *)
(***************************************************************************)
EXTENDS SandOperation, FiniteSetTheorems, TLAPS

-----------------------------------------------------------------------------
(* Shapes: the types without the bounds of the queues.                      *)

EntryShape ==
  [replay : Seq(Events), truncated : BOOLEAN, subscribers : SUBSET Requests,
   life : {"none", "live", "finished", "aged"}]

RequestShape ==
  [at : {"new", "opening", "failing", "attached", "over"},
   of : Requests \cup {None}, heard : Seq(Events), read : Nat, replayed : Nat,
   late : BOOLEAN, slow : BOOLEAN]

Shaped ==
  /\ registered \in Requests \cup {None}
  /\ entry \in [Requests -> EntryShape]
  /\ forwarder \in [Requests -> Forwarder]
  /\ upstream \in [Requests -> {"none", "opening", "driving", "done"}]
  /\ made \in [Requests -> Nat]
  /\ req \in [Requests -> RequestShape]

LEMMA ConstantShapes ==
  /\ \A life \in {"none", "live", "finished", "aged"} :
       Empty(life) \in EntryShape /\ Empty(life).life = life
  /\ Idle \in Forwarder
  /\ New \in RequestShape /\ New.at = "new"
  /\ Over \in RequestShape /\ Over.at = "over"
<1>1. <<>> \in Seq(Events) /\ Terminal \in Events
  BY DEF Events, Terminal
<1> QED
  BY <1>1 DEF Empty, EntryShape, Idle, Forwarder, New, Over, RequestShape, None

\* Publishing an event leaves every entry as live as it was.
LEMMA PublishKeeps ==
  ASSUME Shaped, NEW o \in Requests, NEW e \in Events, Publish(o, e)
  PROVE  /\ entry' \in [Requests -> EntryShape] /\ forwarder' \in [Requests -> Forwarder]
         /\ \A x \in Requests : entry'[x].life = entry[x].life
<1>1. PICK to \in Replays(o, e) :
        entry' = [entry EXCEPT ![o].replay = to.replay, ![o].truncated = to.truncated]
  BY DEF Publish
<1>2. to.replay \in Seq(Events) /\ to.truncated \in BOOLEAN
  <2>1. entry[o].replay \in Seq(Events) /\ entry[o].truncated \in BOOLEAN
    BY DEF Shaped, EntryShape
  <2>2. CASE to = Giant
    BY <2>2 DEF Giant
  <2>3. CASE to = Kept(o, e)
    BY <2>1, <2>3 DEF Kept
  <2>4. CASE to = Popped(o, e) /\ entry[o].replay # <<>>
    BY <2>1, <2>4 DEF Popped
  <2> QED
    BY <2>2, <2>3, <2>4 DEF Replays
<1> DEFINE n == [entry[o] EXCEPT !.replay = to.replay, !.truncated = to.truncated]
           f == [at |-> "owner", event |-> e, to |-> entry[o].subscribers, failed |-> {}]
<1>3. n \in EntryShape /\ n.life = entry[o].life /\ entry' = [entry EXCEPT ![o] = n]
  <2>1. entry[o] \in EntryShape
    BY DEF Shaped
  <2>2. n \in EntryShape /\ n.life = entry[o].life
    BY <1>2, <2>1 DEF EntryShape
  <2> QED
    BY <1>1, <2>2
<1>4. f \in Forwarder /\ forwarder' = [forwarder EXCEPT ![o] = f]
  BY DEF Publish, Shaped, EntryShape, Forwarder
<1> QED
  BY <1>3, <1>4 DEF Shaped

\* Hearing an event moves no request.
LEMMA HearsKeeps ==
  ASSUME Shaped, NEW o \in Requests, NEW reached, NEW senders, Hears(o, reached, senders)
  PROVE  req' \in [Requests -> RequestShape] /\ \A r \in Requests : req'[r].at = req[r].at
<1>1. forwarder[o].event \in Events
  BY DEF Shaped, Forwarder
<1>2. ASSUME NEW r \in Requests
      PROVE  req'[r] \in RequestShape /\ req'[r].at = req[r].at
  <2>1. req[r] \in RequestShape
    BY DEF Shaped
  <2>2. CASE r \in reached
    <3>1. req'[r] = [req[r] EXCEPT !.heard = Append(@, forwarder[o].event)]
      BY <2>2 DEF Hears
    <3>2. Append(req[r].heard, forwarder[o].event) \in Seq(Events)
      BY <1>1, <2>1 DEF RequestShape
    <3> QED
      BY <2>1, <3>1, <3>2 DEF RequestShape
  <2>3. CASE r \notin reached
    <3> DEFINE slow == req[r].slow \/ (r \in senders /\ Receiving(r))
    <3>1. req'[r] = [req[r] EXCEPT !.slow = slow]
      BY <2>3 DEF Hears
    <3>2. slow \in BOOLEAN
      OBVIOUS
    <3> HIDE DEF slow
    <3> QED
      BY <2>1, <3>1, <3>2 DEF RequestShape
  <2> QED
    BY <2>2, <2>3
<1>3. req' = [r \in Requests |-> req'[r]]
  BY DEF Hears
<1> QED
  BY <1>2, <1>3

-----------------------------------------------------------------------------
(* The inductive invariant.                                                 *)

Active(o) == upstream[o] \in {"opening", "driving"}

\* An invocation is that of the registered entry, which is live.
ActiveIsRegistered == \A o \in Requests : Active(o) => registered = o /\ entry[o].life = "live"

\* A request whose future is opening has an invocation to open.
OpeningIsActive == \A o \in Requests : req[o].at = "opening" => upstream[o] = "opening"

IInv == Shaped /\ ActiveIsRegistered /\ OpeningIsActive

LEMMA InitInvariant == Init => IInv
  BY ConstantShapes DEF Init, IInv, Shaped, ActiveIsRegistered, OpeningIsActive, Active, None

\* The shape of a step that sets upstream[o], the life of o's entry and the place
\* of one request at most.
LEMMA EndingKeeps ==
  ASSUME IInv, Shaped', NEW o \in Requests, registered' = registered,
         \A x \in Requests \ {o} : upstream'[x] = upstream[x] /\ entry'[x].life = entry[x].life,
         Active(o)' => Active(o) /\ entry'[o].life = entry[o].life,
         \A r \in Requests : req'[r].at = "opening" => req[r].at = "opening",
         req'[o].at = "opening" => upstream'[o] = upstream[o]
  PROVE  IInv'
<1>1. ActiveIsRegistered'
  BY DEF IInv, ActiveIsRegistered, Active
<1>2. OpeningIsActive'
  BY DEF IInv, OpeningIsActive
<1> QED
  BY <1>1, <1>2 DEF IInv

\* A request becomes the owner when no entry is registered or the one that is has
\* been forgotten; it subscribes to an entry without changing who owns it.
LEMMA AdmitKeepsInvariant ==
  ASSUME IInv, NEW r \in Requests, Admit(r)
  PROVE  IInv'
<1>1. UNCHANGED <<forwarder, made>>
  BY DEF Admit
<1>2. CASE Current = None /\ Own(r)
  <2>1. \A o \in Requests : ~Active(o)
    BY <1>2 DEF IInv, ActiveIsRegistered, Current, Forgotten, None, Requests
  <2> DEFINE e == [entry[r] EXCEPT !.life = "live", !.subscribers = {r}]
             n == [req[r] EXCEPT !.at = "opening", !.of = r]
  <2>2. e \in EntryShape /\ e.life = "live"
    <3>1. entry[r] \in EntryShape
      BY DEF IInv, Shaped
    <3> QED
      BY <3>1 DEF EntryShape
  <2>3. n \in RequestShape /\ n.at = "opening"
    BY DEF IInv, Shaped, RequestShape
  <2>4. entry' = [entry EXCEPT ![r] = e] /\ req' = [req EXCEPT ![r] = n]
    BY <1>2 DEF Own
  <2> HIDE DEF e, n
  <2>5. registered' = r /\ upstream' = [upstream EXCEPT ![r] = "opening"]
    BY <1>2 DEF Own
  <2>6. Shaped'
    BY <1>1, <2>2, <2>3, <2>4, <2>5 DEF IInv, Shaped
  <2>7. ActiveIsRegistered'
    BY <2>1, <2>2, <2>4, <2>5 DEF IInv, Shaped, ActiveIsRegistered, Active
  <2>8. OpeningIsActive'
    BY <2>3, <2>4, <2>5 DEF IInv, Shaped, OpeningIsActive
  <2> QED
    BY <2>6, <2>7, <2>8 DEF IInv
<1>3. CASE Current = None /\ Crowded(r)
  <2>1. \A o \in Requests : ~Active(o)
    BY <1>3 DEF IInv, ActiveIsRegistered, Current, Forgotten, None, Requests
  <2>2. registered' = None /\ req' = [req EXCEPT ![r] = Over] /\ UNCHANGED <<entry, upstream>>
    BY <1>3 DEF Crowded
  <2>3. Shaped'
    BY <1>1, <2>2, ConstantShapes DEF IInv, Shaped
  <2>4. ActiveIsRegistered'
    BY <2>1, <2>2 DEF ActiveIsRegistered, Active
  <2>5. OpeningIsActive'
    BY <2>2, ConstantShapes DEF IInv, Shaped, OpeningIsActive
  <2> QED
    BY <2>3, <2>4, <2>5 DEF IInv
<1>4. CASE Current # None /\ Subscribe(Current, r)
  <2> DEFINE o == registered
  <2>1. o = Current /\ o \in Requests
    BY <1>4 DEF Current, IInv, Shaped
  <2>2. registered' = registered /\ upstream' = upstream
    BY <1>4, <2>1 DEF Subscribe
  <2>3. entry[o] \in EntryShape
    BY <2>1 DEF IInv, Shaped
  <2> DEFINE open == {s \in entry[o].subscribers : Receiving(s)}
             refused == entry[o].truncated \/ Full(o, open) \/ Len(entry[o].replay) >= MaxQueue
             S == IF entry[o].truncated THEN entry[o].subscribers
                  ELSE IF refused THEN open ELSE open \cup Joins(o, r)
             e == [entry[o] EXCEPT !.subscribers = S]
             late == entry[o].life # "live"
             a == [New EXCEPT !.at = "attached", !.of = o, !.heard = entry[o].replay,
                              !.replayed = Len(entry[o].replay), !.late = late]
  <2>4. entry' = [entry EXCEPT ![o].subscribers = S]
    BY <1>4, <2>1 DEF Subscribe
  <2>5. S \subseteq Requests
    BY <2>3 DEF Joins, EntryShape
  <2>6. req' = [req EXCEPT ![r] = Over] \/ req' = [req EXCEPT ![r] = a]
    BY <1>4, <2>1 DEF Subscribe
  <2>7. a \in RequestShape /\ a.at = "attached"
    <3>1. late \in BOOLEAN /\ entry[o].replay \in Seq(Events) /\ Len(entry[o].replay) \in Nat
      BY <2>3 DEF EntryShape
    <3> HIDE DEF late
    <3> QED
      BY <2>1, <3>1, ConstantShapes DEF RequestShape, New
  <2> HIDE DEF S, a
  <2>8. e \in EntryShape /\ e.life = entry[o].life /\ entry' = [entry EXCEPT ![o] = e]
    BY <2>3, <2>4, <2>5 DEF EntryShape
  <2> HIDE DEF e
  <2>9. Shaped'
    BY <1>1, <2>1, <2>2, <2>6, <2>7, <2>8, ConstantShapes DEF IInv, Shaped
  <2>10. ActiveIsRegistered'
    BY <2>1, <2>2, <2>8 DEF IInv, Shaped, ActiveIsRegistered, Active
  <2>11. OpeningIsActive'
    BY <2>2, <2>6, <2>7, ConstantShapes DEF IInv, Shaped, OpeningIsActive
  <2> QED
    BY <2>9, <2>10, <2>11 DEF IInv
<1> QED
  BY <1>2, <1>3, <1>4 DEF Admit

\* A request that gives up ends its invocation with its entry.
LEMMA AbandonKeepsInvariant ==
  ASSUME IInv, NEW o \in Requests, Abandon(o), UNCHANGED <<registered, made>>
  PROVE  IInv'
<1>1. entry[o] \in EntryShape
  BY DEF IInv, Shaped
<1> DEFINE e == [entry[o] EXCEPT !.life = "finished", !.truncated = TRUE, !.subscribers = {}]
<1>2. e \in EntryShape /\ entry' = [entry EXCEPT ![o] = e]
  BY <1>1 DEF Abandon, Abandoned, EntryShape
<1> HIDE DEF e
<1>3. /\ forwarder' = [forwarder EXCEPT ![o] = Idle]
      /\ upstream' = [upstream EXCEPT ![o] = "done"]
      /\ req' = [req EXCEPT ![o] = Over]
  BY DEF Abandon
<1>4. Shaped'
  BY <1>2, <1>3, ConstantShapes DEF IInv, Shaped
<1>5. /\ \A x \in Requests \ {o} : upstream'[x] = upstream[x] /\ entry'[x] = entry[x] /\ req'[x] = req[x]
      /\ upstream'[o] = "done" /\ req'[o].at = "over"
  BY <1>2, <1>3, ConstantShapes DEF IInv, Shaped
<1> QED
  BY <1>4, <1>5, EndingKeeps DEF Active

\* Only the future of the owner takes its opening on to a driver.
LEMMA OwnerKeepsInvariant ==
  ASSUME IInv, NEW o \in Requests, OpenReturns(o) \/ DriverLeaves(o) \/ Emit(o)
  PROVE  IInv'
<1>1. req[o] \in RequestShape /\ entry[o] \in EntryShape
  BY DEF IInv, Shaped
<1>2. CASE AnsweredEarly(o)
  BY <1>2, AbandonKeepsInvariant DEF AnsweredEarly
<1>3. CASE ForwardFrom(o)
  <2> DEFINE n == [req[o] EXCEPT !.at = "attached"]
  <2>1. n \in RequestShape /\ n.at = "attached" /\ req' = [req EXCEPT ![o] = n]
    BY <1>1, <1>3 DEF ForwardFrom, RequestShape
  <2> HIDE DEF n
  <2>2. upstream' = [upstream EXCEPT ![o] = "driving"] /\ UNCHANGED <<registered, entry, forwarder, made>>
    BY <1>3 DEF ForwardFrom
  <2>3. Shaped'
    BY <2>1, <2>2 DEF IInv, Shaped
  <2>4. Active(o)
    BY <1>3 DEF ForwardFrom, IInv, OpeningIsActive, Active
  <2> QED
    BY <2>1, <2>2, <2>3, <2>4, EndingKeeps DEF IInv, Shaped
<1>4. CASE OpenFails(o)
  <2>1. Publish(o, Terminal) /\ Terminal \in Events
    BY <1>4 DEF OpenFails, Events
  <2>2. /\ entry' \in [Requests -> EntryShape] /\ forwarder' \in [Requests -> Forwarder]
        /\ \A x \in Requests : entry'[x].life = entry[x].life
    BY <2>1, PublishKeeps DEF IInv
  <2> DEFINE n == [req[o] EXCEPT !.at = "failing"]
  <2>3. n \in RequestShape /\ n.at = "failing" /\ req' = [req EXCEPT ![o] = n]
    BY <1>1, <1>4 DEF OpenFails, RequestShape
  <2> HIDE DEF n
  <2>4. upstream' = [upstream EXCEPT ![o] = "done"] /\ UNCHANGED <<registered, made>>
    BY <1>4 DEF OpenFails
  <2>5. Shaped'
    BY <2>2, <2>3, <2>4 DEF IInv, Shaped
  <2>6. upstream'[o] = "done" /\ \A x \in Requests \ {o} : upstream'[x] = upstream[x] /\ req'[x] = req[x]
    BY <2>3, <2>4 DEF IInv, Shaped
  <2>7. req'[o].at = "failing"
    BY <2>3 DEF IInv, Shaped
  <2> QED
    BY <2>2, <2>4, <2>5, <2>6, <2>7, EndingKeeps DEF Active
<1>5. CASE DriverLeaves(o)
  <2>1. upstream' = [upstream EXCEPT ![o] = "done"] /\ UNCHANGED <<registered, entry, forwarder, made, req>>
    BY <1>5 DEF DriverLeaves
  <2>2. Shaped'
    BY <2>1 DEF IInv, Shaped
  <2>3. req[o].at # "opening"
    BY <1>5 DEF DriverLeaves, IInv, OpeningIsActive
  <2>4. upstream'[o] = "done" /\ \A x \in Requests \ {o} : upstream'[x] = upstream[x]
    BY <2>1 DEF IInv, Shaped
  <2> QED
    BY <2>1, <2>2, <2>3, <2>4, EndingKeeps DEF Active
<1>6. CASE Emit(o)
  <2>1. PICK e \in Events : Publish(o, e)
    <3>1. made[o] \in Nat
      BY DEF IInv, Shaped
    <3>2. made[o] < MaxEvents => made[o] + 1 \in Events
      BY <3>1, SandOperationAssumption DEF Events
    <3> QED
      BY <1>6, <3>2 DEF Emit, Events
  <2>2. /\ entry' \in [Requests -> EntryShape] /\ forwarder' \in [Requests -> Forwarder]
        /\ \A x \in Requests : entry'[x].life = entry[x].life
    BY <2>1, PublishKeeps DEF IInv
  <2>3. /\ upstream' = upstream \/ upstream' = [upstream EXCEPT ![o] = "done"]
        /\ UNCHANGED <<registered, req>>
    BY <1>6 DEF Emit
  <2>4. Shaped'
    <3>1. made' \in [Requests -> Nat]
      BY <1>6 DEF Emit, IInv, Shaped
    <3> QED
      BY <2>2, <2>3, <3>1 DEF IInv, Shaped
  <2>5. upstream[o] = "driving" /\ req[o].at # "opening"
    BY <1>6 DEF Emit, IInv, OpeningIsActive
  <2>6. /\ \A x \in Requests \ {o} : upstream'[x] = upstream[x]
        /\ upstream'[o] \in {"driving", "done"}
    BY <2>3, <2>5 DEF IInv, Shaped
  <2> QED
    BY <2>2, <2>3, <2>4, <2>5, <2>6, EndingKeeps DEF Active
<1> QED
  BY <1>2, <1>3, <1>4, <1>5, <1>6 DEF OpenReturns

\* Nothing the forwarder does touches an invocation; it finishes what has none.
LEMMA ForwardKeepsInvariant ==
  ASSUME IInv, NEW o \in Requests, Forward(o)
  PROVE  IInv'
<1>1. forwarder[o] \in Forwarder /\ entry[o] \in EntryShape
  BY DEF IInv, Shaped
<1>2. CASE SendOwner(o) \/ SendRetries(o)
  <2>1. req' \in [Requests -> RequestShape] /\ \A r \in Requests : req'[r].at = req[r].at
    <3>1. PICK reached, senders : Hears(o, reached, senders)
      BY <1>2 DEF SendOwner, SendRetries
    <3> QED
      BY <3>1, HearsKeeps DEF IInv
  <2>2. UNCHANGED <<registered, entry, upstream, made>>
    BY <1>2 DEF SendOwner, SendRetries
  <2>3. forwarder' \in [Requests -> Forwarder]
    <3>1. CASE SendOwner(o)
      <4>1. PICK failed \in SUBSET Requests :
              forwarder' = [forwarder EXCEPT ![o].at = "retries", ![o].failed = failed]
        BY <1>1, <3>1 DEF SendOwner, Forwarder
      <4> DEFINE f == [forwarder[o] EXCEPT !.at = "retries", !.failed = failed]
      <4>2. f \in Forwarder /\ forwarder' = [forwarder EXCEPT ![o] = f]
        BY <1>1, <4>1 DEF Forwarder
      <4> QED
        BY <4>2 DEF IInv, Shaped
    <3>2. CASE SendRetries(o)
      <4>1. PICK failed \in SUBSET Requests :
              forwarder' = [forwarder EXCEPT ![o].at = "retain", ![o].failed = @ \cup failed]
        BY <1>1, <3>2 DEF SendRetries, Retries, Forwarder
      <4> DEFINE f == [forwarder[o] EXCEPT !.at = "retain", !.failed = @ \cup failed]
      <4>2. f \in Forwarder /\ forwarder' = [forwarder EXCEPT ![o] = f]
        BY <1>1, <4>1 DEF Forwarder
      <4> QED
        BY <4>2 DEF IInv, Shaped
    <3> QED
      BY <1>2, <3>1, <3>2
  <2>4. Shaped'
    BY <2>1, <2>2, <2>3 DEF IInv, Shaped
  <2> QED
    BY <2>1, <2>2, <2>4, EndingKeeps DEF Active
<1>3. CASE Retain(o)
  <2>1. PICK S \in SUBSET Requests : entry' = [entry EXCEPT ![o].subscribers = S]
    BY <1>1, <1>3 DEF Retain, EntryShape
  <2> DEFINE e == [entry[o] EXCEPT !.subscribers = S]
  <2>2. e \in EntryShape /\ e.life = entry[o].life /\ entry' = [entry EXCEPT ![o] = e]
    BY <1>1, <2>1 DEF EntryShape
  <2> HIDE DEF e
  <2>3. forwarder' = [forwarder EXCEPT ![o] = Idle] /\ UNCHANGED <<registered, upstream, made, req>>
    BY <1>3 DEF Retain
  <2>4. Shaped'
    BY <2>2, <2>3, ConstantShapes DEF IInv, Shaped
  <2>5. \A x \in Requests : entry'[x].life = entry[x].life
    BY <2>2 DEF IInv, Shaped
  <2> QED
    BY <2>3, <2>4, <2>5, EndingKeeps DEF Active
<1>4. CASE Finish(o)
  <2> DEFINE e == [entry[o] EXCEPT !.life = "finished", !.subscribers = {}]
  <2>1. e \in EntryShape /\ entry' = [entry EXCEPT ![o] = e]
    BY <1>1, <1>4 DEF Finish, EntryShape
  <2> HIDE DEF e
  <2>2. /\ req' = req \/ req' = [req EXCEPT ![o] = Over]
        /\ upstream[o] = "done" /\ UNCHANGED <<registered, forwarder, upstream, made>>
    BY <1>4 DEF Finish, IInv, Shaped
  <2>3. Shaped'
    BY <2>1, <2>2, ConstantShapes DEF IInv, Shaped
  <2>4. \A x \in Requests \ {o} : entry'[x] = entry[x]
    BY <2>1 DEF IInv, Shaped
  <2>5. \A r \in Requests : req'[r].at = "opening" => req[r].at = "opening"
    BY <2>2, ConstantShapes DEF IInv, Shaped
  <2> QED
    BY <2>2, <2>3, <2>4, <2>5, EndingKeeps DEF Active
<1> QED
  BY <1>2, <1>3, <1>4 DEF Forward

\* Nor does anything a client does once its answer has begun.
LEMMA ClientKeepsInvariant ==
  ASSUME IInv, NEW r \in Requests, Read(r) \/ EndOfEvents(r) \/ Leave(r) \/ Age(r)
  PROVE  IInv'
<1>1. req[r] \in RequestShape /\ entry[r] \in EntryShape
  BY DEF IInv, Shaped
<1>2. CASE /\ req' = [req EXCEPT ![r] = Over] /\ UNCHANGED <<registered, entry, forwarder, upstream, made>>
  <2>1. Shaped'
    BY <1>2, ConstantShapes DEF IInv, Shaped
  <2>2. \A x \in Requests : req'[x].at = "opening" => req[x].at = "opening"
    BY <1>2, ConstantShapes DEF IInv, Shaped
  <2> QED
    BY <1>2, <2>1, <2>2, EndingKeeps DEF Active
<1>3. CASE Read(r)
  <2>1. CASE req' = [req EXCEPT ![r] = Over]
    BY <1>2, <1>3, <2>1 DEF Read
  <2> DEFINE n == [req[r] EXCEPT !.read = @ + 1]
  <2>2. CASE req' = [req EXCEPT ![r] = n]
    <3>1. n \in RequestShape /\ n.at = req[r].at
      BY <1>1 DEF RequestShape
    <3> HIDE DEF n
    <3>2. UNCHANGED <<registered, entry, forwarder, upstream, made>>
      BY <1>3 DEF Read
    <3>3. Shaped'
      BY <2>2, <3>1, <3>2 DEF IInv, Shaped
    <3>4. \A x \in Requests : req'[x].at = req[x].at
      BY <2>2, <3>1 DEF IInv, Shaped
    <3> QED
      BY <3>2, <3>3, <3>4, EndingKeeps DEF Active
  <2> DEFINE ends == req[r].heard[req[r].read + 1] = Terminal
  <2>3. req' = [req EXCEPT ![r] = IF ends THEN Over ELSE n]
    BY <1>3 DEF Read
  <2> HIDE DEF ends, n
  <2>4. req' = [req EXCEPT ![r] = Over] \/ req' = [req EXCEPT ![r] = n]
    BY <2>3
  <2> QED
    BY <2>1, <2>2, <2>4 DEF n
<1>4. CASE EndOfEvents(r)
  BY <1>2, <1>4 DEF EndOfEvents
<1>5. CASE Leave(r)
  BY <1>2, <1>5, AbandonKeepsInvariant DEF Leave
<1>6. CASE Age(r)
  <2>1. /\ entry' = [entry EXCEPT ![r] = Empty("aged")] /\ entry[r].life = "finished"
        /\ UNCHANGED <<registered, forwarder, upstream, made, req>>
    BY <1>6 DEF Age
  <2>2. Shaped'
    BY <2>1, ConstantShapes DEF IInv, Shaped
  <2>3. \A x \in Requests \ {r} : entry'[x] = entry[x]
    BY <2>1 DEF IInv, Shaped
  <2>4. ~Active(r)
    BY <2>1 DEF IInv, ActiveIsRegistered
  <2> QED
    BY <2>1, <2>2, <2>3, <2>4, EndingKeeps DEF Active
<1> QED
  BY <1>3, <1>4, <1>5, <1>6

LEMMA StepInvariant == IInv /\ [Next]_vars => IInv'
<1> SUFFICES ASSUME IInv, [Next]_vars PROVE IInv'
  OBVIOUS
<1>1. CASE UNCHANGED vars
  BY <1>1 DEF vars, IInv, Shaped, ActiveIsRegistered, OpeningIsActive, Active
<1>2. ASSUME NEW r \in Requests, Admit(r) PROVE IInv'
  BY <1>2, AdmitKeepsInvariant
<1>3. ASSUME NEW r \in Requests, OpenReturns(r) \/ DriverLeaves(r) \/ Emit(r) PROVE IInv'
  BY <1>3, OwnerKeepsInvariant
<1>4. ASSUME NEW r \in Requests, Forward(r) PROVE IInv'
  BY <1>4, ForwardKeepsInvariant
<1>5. ASSUME NEW r \in Requests, Read(r) \/ EndOfEvents(r) \/ Leave(r) \/ Age(r) PROVE IInv'
  BY <1>5, ClientKeepsInvariant
<1> QED
  BY <1>1, <1>2, <1>3, <1>4, <1>5 DEF Next

\* Two invocations would both be the registered one.
LEMMA InvariantSuffices == IInv => OneInvocation
<1> SUFFICES ASSUME IInv PROVE OneInvocation
  OBVIOUS
<1> DEFINE A == {o \in Requests : upstream[o] \in {"opening", "driving"}}
<1>1. A = {} \/ A = {registered}
  BY DEF IInv, ActiveIsRegistered, Active
<1>2. Cardinality({}) = 0 /\ Cardinality({registered}) = 1
  BY FS_EmptySet, FS_Singleton
<1> QED
  BY <1>1, <1>2 DEF OneInvocation

\* "This registry gives a stable client operation one owner": one invocation of
\* a logical operation is alive at most, for every number of requests and every
\* capacity, however they come, go and find an operation over or forgotten.
THEOREM OneInvocationAtATime == Spec => []OneInvocation
<1>1. Init => IInv
  BY InitInvariant
<1>2. IInv /\ [Next]_vars => IInv'
  BY StepInvariant
<1>3. IInv => OneInvocation
  BY InvariantSuffices
<1> QED
  BY <1>1, <1>2, <1>3, PTL DEF Spec

-----------------------------------------------------------------------------
(* What the responses are given.                                            *)

\* The events 1 to n, and the same with the terminal one behind them.
Exact(s, n) == Len(s) = n /\ \A i \in 1..n : s[i] = i
Closed(s, n) == Len(s) = n + 1 /\ s[n + 1] = Terminal /\ \A i \in 1..n : s[i] = i

\* All that operation o has published; without the terminal event only while
\* more may come, or when the owner's client went away.
Whole(s, o) ==
  \/ Exact(s, made[o]) /\ (upstream[o] = "done" => req[o].at = "over")
  \/ Closed(s, made[o]) /\ upstream[o] = "done"

\* The event under way has not been offered to r, and what came before it.
Pending(o, r) ==
  /\ r \in forwarder[o].to
  /\ forwarder[o].at = "owner" \/ (forwarder[o].at = "retries" /\ r # o)
Earlier(o) == IF forwarder[o].event = Terminal THEN made[o] ELSE made[o] - 1

\* The entry, the forwarder and the upstream of an owner.
EntrySound(o) ==
  /\ made[o] <= MaxEvents /\ Len(entry[o].replay) <= ReplayCapacity
  /\ Cardinality(entry[o].subscribers) <= SubscriberLimit
  /\ entry[o].life # "live" =>
       /\ forwarder[o] = Idle /\ upstream[o] \in {"none", "done"}
       /\ entry[o].subscribers = {}
  /\ upstream[o] = "none" <=> entry[o].life = "none"
  /\ req[o].at = "new" \/ upstream[o] = "none" =>
       /\ entry[o] = Empty("none") /\ forwarder[o] = Idle
       /\ upstream[o] = "none" /\ made[o] = 0
  /\ upstream[o] = "opening" => forwarder[o] = Idle /\ made[o] = 0
  /\ req[o].at = "opening" => upstream[o] = "opening" /\ o \in entry[o].subscribers
  /\ req[o].at = "failing" => upstream[o] = "done"
  /\ entry[o].life # "aged" /\ ~entry[o].truncated => Whole(entry[o].replay, o)

\* The event under way is the last one, and its senders are subscribers.
EventSound(o) ==
  /\ forwarder[o].at = "idle" => forwarder[o] = Idle
  /\ forwarder[o].at = "owner" => forwarder[o].failed = {}
  /\ forwarder[o].at # "idle" =>
       IF forwarder[o].event = Terminal THEN upstream[o] = "done"
       ELSE /\ forwarder[o].event = made[o]
            /\ upstream[o] = "done" => req[o].at = "over"
  /\ \A r \in entry[o].subscribers \cup forwarder[o].to \cup forwarder[o].failed :
       req[r].at # "new" /\ (Receiving(r) => req[r].of = o)
  /\ \A r \in forwarder[o].to : Receiving(r) => r \in entry[o].subscribers
  /\ \A r \in forwarder[o].failed : Receiving(r) => req[r].slow

\* What a response was given, what it is still owed, and why it may be closed.
GivenSound(r) ==
  LET s == req[r].heard  o == req[r].of IN
  /\ o \in Requests /\ entry[o].life # "none"
  /\ \/ Exact(s, Len(s)) /\ Len(s) <= made[o]
     \/ Closed(s, made[o]) /\ upstream[o] = "done"
  /\ req[r].read <= Len(s) /\ Len(s) - req[r].read <= MaxQueue
  /\ req[r].replayed <= MaxEvents + 1
  /\ r \in entry[o].subscribers =>
       IF Pending(o, r) THEN Exact(s, Earlier(o))
       ELSE Whole(s, o) \/ (r \in forwarder[o].failed /\ req[r].slow)
  /\ req[r].at \in {"opening", "failing"} => o = r
  /\ req[r].at = "attached" =>
       req[r].slow \/ req[o].at = "over" \/ HasTerminal(r) \/ r \in entry[o].subscribers

ResponseSound(r) == IF Receiving(r) THEN GivenSound(r) ELSE req[r] \in {New, Over}

\* What is proved of each step, beside IInv.
Parts ==
  /\ registered \in Requests => entry[registered].life # "none"
  /\ \A o \in Requests : EntrySound(o) /\ EventSound(o)
  /\ \A r \in Requests : ResponseSound(r)

\* The inductive invariant of the answers.
Sound ==
  /\ IInv
  /\ registered \in Requests => entry[registered].life # "none"
  /\ \A o \in Requests : EntrySound(o) /\ EventSound(o)
  /\ \A r \in Requests : ResponseSound(r)

-----------------------------------------------------------------------------
(* What a step leaves alone.                                                *)

\* A step that is not about operation o.
Same(o) ==
  /\ entry'[o] = entry[o] /\ forwarder'[o] = forwarder[o]
  /\ upstream'[o] = upstream[o] /\ made'[o] = made[o]

\* A request that has come stays with its operation, or is over.
Later(r) ==
  /\ req[r].at # "new" =>
       /\ req'[r].at # "new"
       /\ Receiving(r)' => /\ Receiving(r) /\ req'[r].of = req[r].of
                           /\ req[r].slow => req'[r].slow
  /\ req[r].at = "over" => req'[r].at = "over"
Calm(r) == req'[r].at \in {req[r].at, "attached", "over"}

\* An operation is not touched by what its requests do elsewhere.
LEMMA EntryKept ==
  ASSUME NEW o \in Requests, EntrySound(o), Same(o), Later(o), Calm(o)
  PROVE  EntrySound(o)'
  BY DEF EntrySound, Same, Later, Calm, Whole

LEMMA EventKept ==
  ASSUME NEW o \in Requests, EventSound(o), Same(o), Later(o), Shaped,
         \A r \in Requests : Later(r)
  PROVE  EventSound(o)'
<1>1. entry[o].subscribers \cup forwarder[o].to \cup forwarder[o].failed \subseteq Requests
  BY DEF Shaped, EntryShape, Forwarder
<1> QED
  BY <1>1 DEF EventSound, Same, Later

\* A response whose operation is not touched.
LEMMA ResponseKept ==
  ASSUME NEW r \in Requests, ResponseSound(r), req'[r] = req[r],
         Receiving(r) => Same(req[r].of) /\ Later(req[r].of)
  PROVE  ResponseSound(r)'
<1>1. Receiving(r)' <=> Receiving(r)
  BY DEF Receiving
<1>2. CASE ~Receiving(r)
  BY <1>1, <1>2 DEF ResponseSound
<1>3. CASE Receiving(r)
  <2>1. GivenSound(r)'
    BY <1>3 DEF ResponseSound, GivenSound, Same, Later, Whole, Pending, Earlier, HasTerminal
  <2> QED
    BY <1>1, <1>3, <2>1 DEF ResponseSound
<1> QED
  BY <1>2, <1>3

\* A request that is over, or has not come, has been given nothing.
LEMMA OverSound ==
  ASSUME NEW r \in Requests, req'[r] = Over
  PROVE  ResponseSound(r)'
  BY ConstantShapes DEF ResponseSound, Receiving, Over, New

\* A step about operation o keeps what it says of the others.
LEMMA Elsewhere ==
  ASSUME Sound, NEW o \in Requests,
         \A x \in Requests \ {o} : Same(x) /\ Calm(x),
         \A r \in Requests : Later(r),
         \A r \in Requests : ResponseSound(r)' \/
                             (req'[r] = req[r] /\ (Receiving(r) => req[r].of # o)),
         EntrySound(o)', EventSound(o)',
         registered' \in Requests => entry'[registered'].life # "none"
  PROVE  Parts'
<1>1. ASSUME NEW x \in Requests \ {o}
      PROVE  EntrySound(x)' /\ EventSound(x)'
  BY EntryKept, EventKept DEF Sound, IInv
<1>2. ASSUME NEW r \in Requests
      PROVE  ResponseSound(r)'
  BY ResponseKept DEF Sound, ResponseSound, GivenSound
<1> QED
  BY <1>1, <1>2 DEF Parts

-----------------------------------------------------------------------------
(* Admission.                                                               *)

\* The null values, field by field.
LEMMA NullFields ==
  /\ Empty("none").life = "none" /\ Empty("none").replay = <<>>
  /\ ~Empty("none").truncated /\ Empty("none").subscribers = {}
  /\ Idle.at = "idle" /\ Idle.to = {} /\ Idle.failed = {} /\ Idle.event = Terminal
  /\ New.heard = <<>> /\ New.read = 0 /\ New.replayed = 0 /\ ~New.slow
  /\ Len(<<>>) = 0
  BY DEF Empty, Idle, New

\* A request that has not come owns nothing.
LEMMA NewFacts ==
  ASSUME Sound, NEW r \in Requests, req[r].at = "new"
  PROVE  /\ req[r] = New /\ entry[r] = Empty("none") /\ forwarder[r] = Idle
         /\ upstream[r] = "none" /\ made[r] = 0 /\ ~Receiving(r)
         /\ \A o \in Requests : r \notin entry[o].subscribers \cup forwarder[o].to
                                           \cup forwarder[o].failed
         /\ \A s \in Requests : Receiving(s) => req[s].of # r
<1>1. ~Receiving(r)
  BY DEF Receiving
<1>2. req[r] = New
  BY <1>1, ConstantShapes DEF Sound, ResponseSound
<1>3. entry[r] = Empty("none") /\ forwarder[r] = Idle /\ upstream[r] = "none" /\ made[r] = 0
  BY DEF Sound, EntrySound
<1>4. \A o \in Requests : r \notin entry[o].subscribers \cup forwarder[o].to
                                    \cup forwarder[o].failed
  BY DEF Sound, EventSound
<1>5. \A s \in Requests : Receiving(s) => req[s].of # r
  BY <1>3, NullFields DEF Sound, ResponseSound, GivenSound
<1> QED
  BY <1>1, <1>2, <1>3, <1>4, <1>5

\* The first request of an operation owns it.
LEMMA OwnSound ==
  ASSUME Sound, NEW r \in Requests, req[r].at = "new", Own(r), UNCHANGED <<forwarder, made>>
  PROVE  Parts'
<1>0. Shaped
  BY DEF Sound, IInv
<1> DEFINE e == [entry[r] EXCEPT !.life = "live", !.subscribers = {r}]
           n == [req[r] EXCEPT !.at = "opening", !.of = r]
<1>1. /\ entry' = [entry EXCEPT ![r] = e] /\ req' = [req EXCEPT ![r] = n]
      /\ upstream' = [upstream EXCEPT ![r] = "opening"] /\ registered' = r
  BY DEF Own
<1>2. /\ req[r] = New /\ entry[r] = Empty("none") /\ forwarder[r] = Idle
      /\ upstream[r] = "none" /\ made[r] = 0 /\ ~Receiving(r)
  BY NewFacts
<1>3. /\ e.life = "live" /\ e.subscribers = {r} /\ e.replay = <<>> /\ ~e.truncated
  BY <1>2, NullFields DEF Empty
<1>4. /\ n.at = "opening" /\ n.of = r /\ n.heard = <<>> /\ n.read = 0 /\ n.replayed = 0
      /\ ~n.slow
  BY <1>2, NullFields DEF New
<1> HIDE DEF e, n
<1>5. /\ entry'[r] = e /\ req'[r] = n /\ upstream'[r] = "opening"
      /\ forwarder'[r] = Idle /\ made'[r] = 0
      /\ \A x \in Requests \ {r} : Same(x) /\ req'[x] = req[x]
  BY <1>0, <1>1, <1>2 DEF Shaped, Same
<1>6. Exact(<<>>, 0)
  BY NullFields DEF Exact
<1>7. EntrySound(r)'
  <2>1. Cardinality({r}) <= SubscriberLimit /\ 0 <= ReplayCapacity /\ 0 <= MaxEvents
    <3>1. Cardinality({r}) = 1
      BY FS_Singleton
    <3> QED
      BY <3>1, SandOperationAssumption
  <2>2. /\ entry'[r].life = "live" /\ entry'[r].subscribers = {r} /\ entry'[r].replay = <<>>
        /\ upstream'[r] = "opening" /\ req'[r].at = "opening"
        /\ forwarder'[r] = Idle /\ made'[r] = 0
    BY <1>3, <1>4, <1>5
  <2>3. Whole(entry[r].replay, r)'
    BY <1>6, <2>2 DEF Whole
  <2> QED
    BY <2>1, <2>2, <2>3, NullFields DEF EntrySound
<1>8. EventSound(r)'
  BY <1>3, <1>4, <1>5, NullFields DEF EventSound
<1>9. ResponseSound(r)'
  <2>1. GivenSound(r)'
    <3>1. ~Pending(r, r)' /\ Whole(<<>>, r)'
      BY <1>5, <1>6, NullFields DEF Pending, Whole
    <3>2. 0 <= MaxQueue /\ 0 <= MaxEvents + 1 /\ 0 - 0 <= MaxQueue
      BY SandOperationAssumption
    <3> QED
      BY <1>3, <1>4, <1>5, <1>6, <3>1, <3>2, NullFields DEF GivenSound
  <2> QED
    BY <1>4, <1>5, <2>1 DEF ResponseSound, Receiving
<1>10. \A s \in Requests : Later(s)
  BY <1>2, <1>5, NullFields DEF Later, New, Receiving
<1>11. \A s \in Requests : s # r => req'[s] = req[s] /\ (Receiving(s) => req[s].of # r)
  BY <1>5, NewFacts
<1> QED
  BY <1>1, <1>3, <1>5, <1>7, <1>8, <1>9, <1>10, <1>11, Elsewhere DEF Calm

\* A step that touches one request, and no operation.
LEMMA OneRequestSound ==
  ASSUME Sound, NEW r \in Requests, UNCHANGED <<entry, forwarder, upstream, made>>,
         registered' \in {registered, None}, \A s \in Requests \ {r} : req'[s] = req[s],
         Later(r), Calm(r), ResponseSound(r)'
  PROVE  Parts'
<1>1. \A o \in Requests : Same(o)
  BY DEF Same
<1>2. \A s \in Requests : Later(s) /\ Calm(s)
  BY DEF Later, Calm, Receiving
<1>3. \A o \in Requests : EntrySound(o)' /\ EventSound(o)'
  BY <1>1, <1>2, EntryKept, EventKept DEF Sound, IInv
<1>4. \A s \in Requests : ResponseSound(s)'
  BY <1>1, <1>2, ResponseKept DEF Sound, ResponseSound, GivenSound
<1>5. None \notin Requests
  BY DEF None, Requests
<1> QED
  BY <1>3, <1>4, <1>5 DEF Parts, Sound

\* One of the answers to an admission, and the end of any response.
LEMMA EndsSound ==
  ASSUME Sound, NEW r \in Requests, UNCHANGED <<entry, forwarder, upstream, made>>,
         registered' \in {registered, None}, req' = [req EXCEPT ![r] = Over]
  PROVE  Parts'
<1>1. Shaped
  BY DEF Sound, IInv
<1>2. req'[r] = Over /\ \A s \in Requests \ {r} : req'[s] = req[s]
  BY <1>1 DEF Shaped
<1>3. Later(r) /\ Calm(r)
  BY <1>2, ConstantShapes DEF Later, Calm, Receiving
<1> QED
  BY <1>2, <1>3, OverSound, OneRequestSound

\* A whole answer is no longer than its bound, and has the terminal event
\* unless more may come or the owner's client has gone.
LEMMA WholeFacts ==
  ASSUME Sound, NEW o \in Requests, NEW s \in Seq(Events), Whole(s, o)
  PROVE  /\ \/ Exact(s, Len(s)) /\ Len(s) <= made[o]
            \/ Closed(s, made[o]) /\ upstream[o] = "done"
         /\ Len(s) \in Nat /\ Len(s) <= MaxEvents + 1
         /\ upstream[o] = "done" /\ req[o].at # "over" =>
              Terminal \in {s[i] : i \in DOMAIN s}
<1>1. made[o] \in Nat /\ MaxEvents \in Nat /\ made[o] <= MaxEvents /\ Len(s) \in Nat
  BY SandOperationAssumption DEF Sound, IInv, Shaped, EntrySound
<1>2. CASE Exact(s, made[o]) /\ (upstream[o] = "done" => req[o].at = "over")
  BY <1>1, <1>2 DEF Exact
<1>3. CASE Closed(s, made[o]) /\ upstream[o] = "done"
  <2>1. made[o] + 1 \in DOMAIN s /\ s[made[o] + 1] = Terminal
    BY <1>1, <1>3 DEF Closed
  <2> QED
    BY <1>1, <1>3, <2>1 DEF Closed
<1> QED
  BY <1>2, <1>3 DEF Whole

\* A set of requests is finite, and one more request is one more.
LEMMA RequestSets ==
  ASSUME NEW S \in SUBSET Requests
  PROVE  /\ IsFiniteSet(S) /\ Cardinality(S) \in Nat
         /\ \A T \in SUBSET S : Cardinality(T) <= Cardinality(S)
         /\ \A r \in Requests : Cardinality(S \cup {r}) <= Cardinality(S) + 1
<1>1. IsFiniteSet(Requests)
  BY FS_Interval, SandOperationAssumption DEF Requests
<1>2. IsFiniteSet(S)
  BY <1>1, FS_Subset
<1> QED
  BY <1>2, FS_Subset, FS_CardinalityType, FS_AddElement

\* A later request is refused, or joins with all that was published.
LEMMA SubscribeSound ==
  ASSUME Sound, NEW r \in Requests, req[r].at = "new",
         Current # None, Subscribe(Current, r), UNCHANGED <<forwarder, made>>
  PROVE  Parts'
<1>0. Shaped
  BY DEF Sound, IInv
<1>1. PICK o \in Requests :
        o = registered /\ o = Current /\ entry[o].life # "aged" /\ entry[o].life # "none"
  <2>1. /\ registered = Current /\ registered \in Requests
        /\ entry[registered].life # "aged" /\ entry[registered].life # "none"
    BY <1>0 DEF Current, Shaped, Sound, Forgotten
  <2> QED
    BY <2>1
<1> DEFINE open == {s \in entry[o].subscribers : Receiving(s)}
           refused == entry[o].truncated \/ Full(o, open) \/ Len(entry[o].replay) >= MaxQueue
           S == IF entry[o].truncated THEN entry[o].subscribers
                ELSE IF refused THEN open ELSE open \cup Joins(o, r)
           late == entry[o].life # "live"
           a == [New EXCEPT !.at = "attached", !.of = o, !.heard = entry[o].replay,
                            !.replayed = Len(entry[o].replay), !.late = late]
           e == [entry[o] EXCEPT !.subscribers = S]
<1>2. /\ registered' = o /\ upstream' = upstream /\ entry' = [entry EXCEPT ![o].subscribers = S]
      /\ req' = [req EXCEPT ![r] = IF refused THEN Over ELSE a]
  BY <1>1 DEF Subscribe
<1>3. entry[o] \in EntryShape
  BY <1>0, <1>1 DEF Shaped
<1>4. /\ req[r] = New /\ entry[r] = Empty("none") /\ ~Receiving(r)
      /\ \A x \in Requests : r \notin entry[x].subscribers \cup forwarder[x].to
                                        \cup forwarder[x].failed
      /\ \A s \in Requests : Receiving(s) => req[s].of # r
  BY NewFacts
<1>5. o # r
  BY <1>1, <1>4, NullFields
<1>6. /\ S \subseteq entry[o].subscribers \cup {r}
      /\ \A s \in entry[o].subscribers : Receiving(s) => s \in S
      /\ entry[o].life # "live" => S \subseteq entry[o].subscribers
      /\ ~refused => (r \in S <=> entry[o].life = "live")
  BY <1>4 DEF Joins
<1>7. Cardinality(S) <= SubscriberLimit
  <2>1. /\ entry[o].subscribers \in SUBSET Requests
        /\ Cardinality(entry[o].subscribers) <= SubscriberLimit
    BY <1>1, <1>3 DEF EntryShape, Sound, EntrySound
  <2>2. Cardinality(open) <= Cardinality(entry[o].subscribers)
    BY <2>1, RequestSets
  <2>3. /\ Cardinality(open) \in Nat /\ Cardinality(entry[o].subscribers) \in Nat
        /\ SubscriberLimit \in Nat
        /\ Cardinality(open \cup {r}) \in Nat
        /\ Cardinality(open \cup {r}) <= Cardinality(open) + 1
    <3>1. open \in SUBSET Requests /\ open \cup {r} \in SUBSET Requests
      BY <2>1
    <3> QED
      BY <2>1, <3>1, RequestSets, SandOperationAssumption
  <2>4. /\ ~refused => ~Full(o, open)
        /\ S \in {open, entry[o].subscribers} \/
           (~refused /\ S = open \cup {r} /\ entry[o].life = "live")
    BY DEF Joins
  <2> HIDE DEF S, open, refused
  <2>5. CASE S \in {open, entry[o].subscribers}
    BY <2>1, <2>2, <2>3, <2>5
  <2>6. CASE ~refused /\ S = open \cup {r} /\ entry[o].life = "live"
    BY <2>3, <2>4, <2>6 DEF Full
  <2> QED
    BY <2>4, <2>5, <2>6
<1> HIDE DEF S
<1>8. /\ e.subscribers = S /\ e.life = entry[o].life /\ e.replay = entry[o].replay
      /\ e.truncated = entry[o].truncated /\ entry' = [entry EXCEPT ![o] = e]
  BY <1>2, <1>3 DEF EntryShape
<1> HIDE DEF e
<1>9. /\ a.at = "attached" /\ a.of = o /\ a.heard = entry[o].replay /\ a.read = 0
      /\ a.replayed = Len(entry[o].replay) /\ ~a.slow
  BY DEF New
<1>10. req'[r] = Over \/ (req'[r] = a /\ ~refused)
  BY <1>0, <1>2 DEF Shaped
<1> HIDE DEF a
<1>11. /\ \A x \in Requests \ {o} : Same(x)
       /\ entry'[o] = e /\ forwarder'[o] = forwarder[o] /\ upstream'[o] = upstream[o]
       /\ made'[o] = made[o]
       /\ \A s \in Requests \ {r} : req'[s] = req[s]
  BY <1>0, <1>1, <1>2, <1>8 DEF Shaped, Same
<1>12. \A s \in Requests : Later(s) /\ Calm(s)
  BY <1>4, <1>9, <1>10, <1>11, ConstantShapes, NullFields DEF Later, Calm, Receiving
<1>13. EntrySound(o) /\ EventSound(o) /\ req'[o] = req[o]
  BY <1>1, <1>5, <1>11 DEF Sound
<1>14. EntrySound(o)'
  <2>1. entry[o].life # "live" => S = {}
    BY <1>6, <1>13 DEF EntrySound
  <2>2. upstream[o] # "none" /\ req[o].at # "new"
    BY <1>1, <1>13, NullFields DEF EntrySound
  <2>3. req[o].at = "opening" => o \in S
    BY <1>6, <1>13 DEF EntrySound, Receiving
  <2>4. \A s : Whole(s, o) => Whole(s, o)'
    BY <1>11, <1>13 DEF Whole
  <2> QED
    BY <1>7, <1>8, <1>11, <1>13, <2>1, <2>2, <2>3, <2>4 DEF EntrySound
<1>15. EventSound(o)'
  <2>1. req'[r].at # "new" /\ (Receiving(r)' => req'[r].of = o)
    BY <1>9, <1>10, ConstantShapes DEF Receiving
  <2>2. \A s \in Requests \ {r} : Receiving(s)' <=> Receiving(s)
    BY <1>11 DEF Receiving
  <2>3. /\ forwarder[o].to \subseteq Requests \ {r} /\ forwarder[o].failed \subseteq Requests \ {r}
        /\ entry[o].subscribers \subseteq Requests \ {r}
    BY <1>0, <1>1, <1>3, <1>4 DEF Shaped, Forwarder, EntryShape
  <2> QED
    BY <1>1, <1>6, <1>8, <1>11, <1>13, <2>1, <2>2, <2>3 DEF EventSound
<1>16. ASSUME NEW s \in Requests \ {r}, Receiving(s), req[s].of = o
       PROVE  ResponseSound(s)'
  <2>1. GivenSound(s)
    BY <1>16 DEF Sound, ResponseSound
  <2>2. /\ req'[s] = req[s] /\ Receiving(s)' /\ Pending(o, s)' = Pending(o, s)
        /\ s \in S <=> s \in entry[o].subscribers
    BY <1>6, <1>11, <1>16 DEF Receiving, Pending
  <2>3. GivenSound(s)'
    BY <1>8, <1>11, <1>13, <1>16, <2>1, <2>2 DEF GivenSound, Whole, Earlier, HasTerminal
  <2> QED
    BY <2>2, <2>3 DEF ResponseSound
<1>17. ASSUME req'[r] = a, ~refused
       PROVE  ResponseSound(r)'
  <2>1. Whole(entry[o].replay, o) /\ entry[o].replay \in Seq(Events)
    BY <1>1, <1>3, <1>13, <1>17 DEF EntrySound, EntryShape
  <2>2. Whole(entry[o].replay, o)'
    BY <1>8, <1>11, <1>13, <2>1 DEF Whole
  <2>3. ~Pending(o, r)'
    BY <1>1, <1>4, <1>11 DEF Pending
  <2>4. upstream[o] = "done" \/ r \in S
    BY <1>1, <1>6, <1>13, <1>17 DEF EntrySound
  <2>5. 0 <= Len(entry[o].replay) /\ Len(entry[o].replay) - 0 <= MaxQueue
    BY <1>17, <2>1, SandOperationAssumption
  <2>6. /\ \/ Exact(entry[o].replay, Len(entry[o].replay)) /\ Len(entry[o].replay) <= made[o]
           \/ Closed(entry[o].replay, made[o]) /\ upstream[o] = "done"
        /\ Len(entry[o].replay) <= MaxEvents + 1
        /\ upstream[o] = "done" /\ req[o].at # "over" =>
             Terminal \in {entry[o].replay[i] : i \in DOMAIN entry[o].replay}
    BY <1>1, <2>1, WholeFacts
  <2>7. GivenSound(r)'
    <3>1. /\ req'[r].at = "attached" /\ req'[r].of = o /\ req'[r].heard = entry[o].replay
          /\ req'[r].read = 0 /\ req'[r].replayed = Len(entry[o].replay)
      BY <1>9, <1>17
    <3>2. /\ entry'[o].life # "none" /\ entry'[o].subscribers = S
          /\ entry'[o].replay = entry[o].replay
      BY <1>1, <1>8, <1>11
    <3>3. \/ Exact(entry[o].replay, Len(entry[o].replay)) /\ Len(entry[o].replay) <= made'[o]
          \/ Closed(entry[o].replay, made'[o]) /\ upstream'[o] = "done"
      BY <1>11, <2>6
    <3>4. req'[o].at = "over" \/ HasTerminal(r)' \/ r \in S
      BY <1>13, <2>4, <2>6, <3>1 DEF HasTerminal
    <3> QED
      BY <1>1, <2>2, <2>3, <2>5, <2>6, <3>1, <3>2, <3>3, <3>4 DEF GivenSound
  <2> QED
    BY <1>9, <1>17, <2>7 DEF ResponseSound, Receiving
<1>18. \A s \in Requests : ResponseSound(s)' \/
                              (req'[s] = req[s] /\ (Receiving(s) => req[s].of # o))
  BY <1>10, <1>11, <1>16, <1>17, OverSound
<1> QED
  BY <1>1, <1>2, <1>8, <1>11, <1>12, <1>14, <1>15, <1>18, Elsewhere

\* An admission keeps what the responses are owed.
LEMMA AdmitSound ==
  ASSUME Sound, NEW r \in Requests, Admit(r)
  PROVE  Parts'
<1>1. req[r].at = "new" /\ UNCHANGED <<forwarder, made>>
  BY DEF Admit
<1>2. CASE Crowded(r)
  BY <1>1, <1>2, EndsSound DEF Crowded
<1> QED
  BY <1>1, <1>2, OwnSound, SubscribeSound DEF Admit

-----------------------------------------------------------------------------
(* The owner.                                                               *)

\* An owner that gives up closes its operation.
LEMMA AbandonSound ==
  ASSUME Sound, NEW o \in Requests, req[o].at \in {"opening", "failing"},
         Abandon(o), UNCHANGED <<registered, made>>
  PROVE  Parts'
<1>0. Shaped /\ entry[o] \in EntryShape
  BY DEF Sound, IInv, Shaped
<1> DEFINE e == [entry[o] EXCEPT !.life = "finished", !.truncated = TRUE, !.subscribers = {}]
<1>1. /\ e.life = "finished" /\ e.truncated /\ e.subscribers = {} /\ e.replay = entry[o].replay
      /\ entry' = [entry EXCEPT ![o] = e]
  BY <1>0 DEF Abandon, Abandoned, EntryShape
<1> HIDE DEF e
<1>2. /\ entry'[o] = e /\ forwarder'[o] = Idle /\ upstream'[o] = "done" /\ made'[o] = made[o]
      /\ req'[o] = Over
      /\ \A x \in Requests \ {o} : Same(x) /\ req'[x] = req[x]
      /\ registered' = registered
  BY <1>0, <1>1 DEF Abandon, Shaped, Same
<1>3. EntrySound(o) /\ req'[o].at = "over" /\ req[o].at \notin {"new", "over"}
  BY <1>2, ConstantShapes DEF Sound
<1>4. EntrySound(o)'
  <2>1. Cardinality({}) <= SubscriberLimit
    BY FS_EmptySet, SandOperationAssumption
  <2> QED
    BY <1>1, <1>2, <1>3, <2>1 DEF EntrySound
<1>5. EventSound(o)'
  BY <1>1, <1>2, NullFields DEF EventSound
<1>6. ASSUME NEW s \in Requests \ {o}, Receiving(s), req[s].of = o
      PROVE  ResponseSound(s)'
  <2>1. GivenSound(s) /\ req'[s] = req[s] /\ Receiving(s)'
    BY <1>2, <1>6 DEF Sound, ResponseSound, Receiving
  <2>2. GivenSound(s)'
    BY <1>1, <1>2, <1>3, <1>6, <2>1 DEF GivenSound, HasTerminal
  <2> QED
    BY <2>1, <2>2 DEF ResponseSound
<1>7. \A s \in Requests : Later(s) /\ Calm(s)
  BY <1>2, <1>3, ConstantShapes DEF Later, Calm, Receiving
<1>8. registered' \in Requests => entry'[registered'].life # "none"
  BY <1>1, <1>2 DEF Sound, Same
<1> QED
  BY <1>2, <1>4, <1>5, <1>6, <1>7, <1>8, OverSound, Elsewhere

\* The driver takes over what the owner has opened.
LEMMA ForwardFromSound ==
  ASSUME Sound, NEW o \in Requests, ForwardFrom(o)
  PROVE  Parts'
<1>0. Shaped /\ req[o] \in RequestShape
  BY DEF Sound, IInv, Shaped
<1> DEFINE n == [req[o] EXCEPT !.at = "attached"]
<1>1. /\ n.at = "attached" /\ n.of = req[o].of /\ n.heard = req[o].heard /\ n.read = req[o].read
      /\ n.replayed = req[o].replayed /\ n.slow = req[o].slow
      /\ req' = [req EXCEPT ![o] = n]
  BY <1>0 DEF ForwardFrom, RequestShape
<1> HIDE DEF n
<1>2. /\ entry' = entry /\ forwarder' = forwarder /\ made' = made /\ registered' = registered
      /\ upstream'[o] = "driving" /\ req'[o] = n /\ req[o].at = "opening"
      /\ \A x \in Requests \ {o} : Same(x) /\ req'[x] = req[x]
  BY <1>0, <1>1 DEF ForwardFrom, Shaped, Same
<1>3. EntrySound(o) /\ EventSound(o) /\ upstream[o] = "opening" /\ o \in entry[o].subscribers
  BY <1>2 DEF Sound, EntrySound
<1>4. \A s : Whole(s, o) => Whole(s, o)'
  BY <1>2, <1>3 DEF Whole
<1>5. \A s \in Requests : Receiving(s)' <=> Receiving(s)
  BY <1>1, <1>2 DEF Receiving
<1>6. EntrySound(o)'
  BY <1>1, <1>2, <1>3, <1>4 DEF EntrySound
<1>7. EventSound(o)'
  <2>1. /\ entry[o].subscribers \cup forwarder[o].to \cup forwarder[o].failed \subseteq Requests
        /\ forwarder[o] = Idle
    BY <1>0, <1>3 DEF Shaped, EntryShape, Forwarder, EntrySound
  <2> QED
    BY <1>1, <1>2, <1>3, <1>5, <2>1, NullFields DEF EventSound
<1>8. ASSUME NEW s \in Requests, Receiving(s), req[s].of = o
      PROVE  ResponseSound(s)'
  <2>1. GivenSound(s) /\ Pending(o, s)' = Pending(o, s) /\ Earlier(o)' = Earlier(o)
    BY <1>2, <1>8 DEF Sound, ResponseSound, Pending, Earlier
  <2>2. CASE s = o
    <3>1. GivenSound(o)'
      BY <1>1, <1>2, <1>3, <1>4, <1>8, <2>1, <2>2 DEF GivenSound
    <3> QED
      BY <1>5, <1>8, <2>2, <3>1 DEF ResponseSound
  <2>3. CASE s # o
    <3>1. GivenSound(s)'
      BY <1>2, <1>3, <1>4, <1>8, <2>1, <2>3 DEF GivenSound, HasTerminal
    <3> QED
      BY <1>5, <1>8, <3>1 DEF ResponseSound
  <2> QED
    BY <2>2, <2>3
<1>9. \A s \in Requests : Later(s) /\ Calm(s)
  BY <1>1, <1>2 DEF Later, Calm, Receiving
<1>10. GivenSound(o) /\ Receiving(o) /\ req[o].of = o
  BY <1>2 DEF Sound, ResponseSound, Receiving, GivenSound
<1> QED
  BY <1>2, <1>6, <1>7, <1>8, <1>9, <1>10, Elsewhere DEF Sound

\* The driver leaves without a word, behind an owner whose client has gone.
LEMMA DriverLeavesSound ==
  ASSUME Sound, NEW o \in Requests, DriverLeaves(o)
  PROVE  Parts'
<1>0. Shaped
  BY DEF Sound, IInv
<1>1. /\ UNCHANGED <<registered, entry, forwarder, made, req>>
      /\ upstream'[o] = "done" /\ upstream[o] = "driving" /\ ~Receiving(o)
      /\ \A x \in Requests \ {o} : Same(x)
  BY <1>0 DEF DriverLeaves, Shaped, Same
<1>2. EntrySound(o) /\ EventSound(o) /\ req[o].at = "over"
  <2>1. EntrySound(o) /\ EventSound(o) /\ req[o].at # "new"
    BY <1>1 DEF Sound, EntrySound
  <2> QED
    BY <1>1, <2>1, ConstantShapes DEF Sound, ResponseSound
<1>3. \A s : Whole(s, o) => Whole(s, o)'
  BY <1>1, <1>2 DEF Whole
<1>4. EntrySound(o)'
  BY <1>1, <1>2, <1>3 DEF EntrySound
<1>5. EventSound(o)'
  BY <1>1, <1>2 DEF EventSound, Receiving
<1>6. ASSUME NEW s \in Requests, Receiving(s), req[s].of = o
      PROVE  ResponseSound(s)'
  <2>1. GivenSound(s) /\ Receiving(s)' /\ Pending(o, s)' = Pending(o, s) /\ Earlier(o)' = Earlier(o)
    BY <1>1, <1>6 DEF Sound, ResponseSound, Receiving, Pending, Earlier
  <2>2. GivenSound(s)'
    BY <1>1, <1>2, <1>3, <1>6, <2>1 DEF GivenSound, HasTerminal
  <2> QED
    BY <2>1, <2>2 DEF ResponseSound
<1>7. \A s \in Requests : Later(s) /\ Calm(s)
  BY <1>1 DEF Later, Calm, Receiving
<1> QED
  BY <1>1, <1>4, <1>5, <1>6, <1>7, Elsewhere DEF Sound

-----------------------------------------------------------------------------
(* publish.                                                                 *)

\* The next event behind those before it, and the terminal one behind all.
LEMMA AppendFacts ==
  ASSUME NEW s \in Seq(Events), NEW n \in Nat, NEW e \in Events, Exact(s, n)
  PROVE  /\ e = n + 1 => Exact(Append(s, e), n + 1)
         /\ e = Terminal => Closed(Append(s, e), n)
<1>1. /\ Len(Append(s, e)) = n + 1 /\ Append(s, e)[n + 1] = e
      /\ \A i \in 1..n : Append(s, e)[i] = s[i]
  BY DEF Exact
<1> QED
  BY <1>1 DEF Exact, Closed

\* A replay keeps its capacity; untruncated, it is the one there was and the event.
LEMMA ReplayFacts ==
  ASSUME Shaped, NEW o \in Requests, NEW e \in Events, NEW to \in Replays(o, e),
         Len(entry[o].replay) <= ReplayCapacity
  PROVE  /\ Len(to.replay) <= ReplayCapacity
         /\ ~to.truncated => ~entry[o].truncated /\ to.replay = Append(entry[o].replay, e)
<1>1. entry[o].replay \in Seq(Events) /\ ReplayCapacity \in Nat /\ 0 <= ReplayCapacity
  BY SandOperationAssumption DEF Shaped, EntryShape
<1>2. CASE to = Giant
  BY <1>1, <1>2, NullFields DEF Giant
<1>3. CASE to = Kept(o, e) /\ Len(entry[o].replay) < ReplayCapacity
  <2>1. Len(Append(entry[o].replay, e)) = Len(entry[o].replay) + 1
    BY <1>1
  <2> QED
    BY <1>1, <1>3, <2>1 DEF Kept
<1>4. CASE to = Popped(o, e) /\ entry[o].replay # <<>>
  <2>1. Len(Append(Tail(entry[o].replay), e)) = Len(entry[o].replay)
    BY <1>1, <1>4
  <2> QED
    BY <1>1, <1>4, <2>1 DEF Popped
<1> QED
  BY <1>2, <1>3, <1>4 DEF Replays

\* What an invocation publishes: its next event, or the terminal one and its end.
Publishes(o, e) ==
  /\ Publish(o, e) /\ registered' = registered
  /\ forwarder[o].at = "idle" /\ upstream[o] \in {"opening", "driving"}
  /\ \/ /\ e = made[o] + 1 /\ e <= MaxEvents /\ upstream[o] = "driving"
        /\ made' = [made EXCEPT ![o] = e] /\ UNCHANGED <<upstream, req>>
     \/ /\ e = Terminal /\ made' = made /\ upstream' = [upstream EXCEPT ![o] = "done"]
        /\ \/ upstream[o] = "driving" /\ req' = req
           \/ req[o].at = "opening" /\ req' = [req EXCEPT ![o].at = "failing"]

\* Every subscriber is owed the event that is published, after all before it.
LEMMA PublishSound ==
  ASSUME Sound, NEW o \in Requests, NEW e \in Events, Publishes(o, e)
  PROVE  Parts'
<1>0. /\ Shaped /\ entry[o] \in EntryShape /\ req[o] \in RequestShape /\ entry[o].life = "live"
      /\ EntrySound(o) /\ EventSound(o) /\ forwarder[o] = Idle
      /\ made[o] \in Nat /\ MaxEvents \in Nat
  BY SandOperationAssumption
     DEF Publishes, Sound, IInv, Shaped, ActiveIsRegistered, Active, EventSound
<1>1. PICK to \in Replays(o, e) :
        entry' = [entry EXCEPT ![o].replay = to.replay, ![o].truncated = to.truncated]
  BY DEF Publishes, Publish
<1> DEFINE n == [entry[o] EXCEPT !.replay = to.replay, !.truncated = to.truncated]
           f == [at |-> "owner", event |-> e, to |-> entry[o].subscribers, failed |-> {}]
           q == [req[o] EXCEPT !.at = "failing"]
<1>2. /\ n.replay = to.replay /\ n.truncated = to.truncated /\ n.life = "live"
      /\ n.subscribers = entry[o].subscribers /\ entry' = [entry EXCEPT ![o] = n]
  BY <1>0, <1>1 DEF EntryShape
<1>3. /\ f.at = "owner" /\ f.event = e /\ f.to = entry[o].subscribers /\ f.failed = {}
      /\ forwarder' = [forwarder EXCEPT ![o] = f]
  BY DEF Publishes, Publish
<1>4. /\ q.at = "failing" /\ q.of = req[o].of /\ q.heard = req[o].heard /\ q.read = req[o].read
      /\ q.replayed = req[o].replayed /\ q.slow = req[o].slow
  BY <1>0 DEF RequestShape
<1> HIDE DEF n, f
<1>5. /\ entry'[o] = n /\ forwarder'[o] = f /\ registered' = registered
      /\ \A x \in Requests \ {o} : Same(x) /\ req'[x] = req[x]
  BY <1>0, <1>2, <1>3 DEF Publishes, Shaped, Same
<1>6. \/ e = made[o] + 1 /\ made'[o] = e /\ made'[o] <= MaxEvents /\ upstream'[o] = "driving"
      \/ e = Terminal /\ made'[o] = made[o] /\ upstream'[o] = "done"
  BY <1>0 DEF Publishes, Shaped
<1>7. \/ req'[o] = req[o] /\ upstream[o] = "driving"
      \/ req'[o] = q /\ req[o].at = "opening" /\ upstream'[o] = "done"
  BY <1>0 DEF Publishes, Shaped
<1> HIDE DEF q
<1>8. /\ \A r \in Requests : Receiving(r)' <=> Receiving(r)
      /\ \A r \in Requests : /\ req'[r].of = req[r].of /\ req'[r].heard = req[r].heard
                             /\ req'[r].read = req[r].read /\ req'[r].replayed = req[r].replayed
                             /\ req'[r].slow = req[r].slow
      /\ \A r \in Requests : req'[r].at = req[r].at \/
                             (r = o /\ req[r].at = "opening" /\ req'[r].at = "failing")
  BY <1>4, <1>5, <1>7 DEF Receiving
<1>9. upstream[o] \in {"opening", "driving"}
  BY DEF Publishes
<1>10. EntrySound(o)'
  <2>1. Len(to.replay) <= ReplayCapacity
    BY <1>0, ReplayFacts DEF EntrySound
  <2>2. ASSUME ~to.truncated
        PROVE  Whole(to.replay, o)'
    <3>1. ~entry[o].truncated /\ to.replay = Append(entry[o].replay, e)
      BY <1>0, <2>2, ReplayFacts DEF EntrySound
    <3>2. entry[o].replay \in Seq(Events) /\ Exact(entry[o].replay, made[o])
      BY <1>0, <1>9, <3>1 DEF EntrySound, EntryShape, Whole
    <3> QED
      BY <1>0, <1>6, <3>1, <3>2, AppendFacts DEF Whole
  <2>3. /\ req'[o].at \notin {"new", "opening"}
        /\ (req'[o].at = "failing" => upstream'[o] = "done")
    BY <1>0, <1>4, <1>7, <1>9 DEF EntrySound
  <2>4. made'[o] <= MaxEvents
    BY <1>0, <1>6 DEF EntrySound
  <2> QED
    BY <1>0, <1>2, <1>5, <1>6, <2>1, <2>2, <2>3, <2>4 DEF EntrySound
<1>11. EventSound(o)'
  <2>1. e = made[o] + 1 => e # Terminal
    BY <1>0 DEF Terminal
  <2>2. entry[o].subscribers \subseteq Requests
    BY <1>0 DEF EntryShape
  <2> QED
    BY <1>0, <1>2, <1>3, <1>5, <1>6, <1>8, <2>1, <2>2 DEF EventSound
<1>12. ASSUME NEW r \in Requests, Receiving(r), req[r].of = o
       PROVE  ResponseSound(r)'
  <2>1. GivenSound(r) /\ ~Pending(o, r) /\ r \notin forwarder[o].failed
    BY <1>0, <1>12, NullFields DEF Sound, ResponseSound, Pending
  <2>2. Exact(req[r].heard, Len(req[r].heard)) /\ Len(req[r].heard) <= made[o]
    BY <1>9, <1>12, <2>1 DEF GivenSound
  <2>3. Len(req[r].heard) <= made'[o]
    <3>1. Len(req[r].heard) \in Nat
      BY <1>0 DEF Shaped, RequestShape
    <3> QED
      BY <1>0, <1>6, <2>2, <3>1
  <2>4. r \in entry[o].subscribers => Exact(req[r].heard, made[o])
    BY <1>9, <1>12, <2>1 DEF GivenSound, Whole
  <2>5. Earlier(o)' = made[o]
    BY <1>0, <1>3, <1>5, <1>6 DEF Earlier, Terminal
  <2>6. r \in entry[o].subscribers => Pending(o, r)'
    BY <1>3, <1>5 DEF Pending
  <2>7. /\ req'[o].at = "over" <=> req[o].at = "over"
        /\ HasTerminal(r) => HasTerminal(r)'
    BY <1>8 DEF HasTerminal
  <2>8. req'[r].at \in {"opening", "failing"} => req[r].at \in {"opening", "failing"}
    BY <1>8
  <2>9. req'[r].at = "attached" => req[r].at = "attached"
    BY <1>8
  <2>10. entry'[o].life # "none" /\ entry'[o].subscribers = entry[o].subscribers
    BY <1>2, <1>5
  <2>11. GivenSound(r)'
    BY <1>8, <1>12, <2>1, <2>2, <2>3, <2>4, <2>5, <2>6, <2>7, <2>8, <2>9, <2>10 DEF GivenSound
  <2> QED
    BY <1>8, <1>12, <2>11 DEF ResponseSound
<1>13. \A r \in Requests : Later(r)
  BY <1>8 DEF Later
<1>14. \A x \in Requests \ {o} : Same(x) /\ Calm(x)
  BY <1>5 DEF Calm
<1>15. \A r \in Requests : ResponseSound(r)' \/
                              (req'[r] = req[r] /\ (Receiving(r) => req[r].of # o))
  <2>1. ASSUME NEW r \in Requests, ~(Receiving(r) /\ req[r].of = o)
        PROVE  req'[r] = req[r]
    <3>1. CASE r # o
      BY <1>5, <3>1
    <3>2. CASE r = o
      <4>1. req[o].at = "opening" => Receiving(o) /\ req[o].of = o
        BY <1>8 DEF Receiving, Sound, ResponseSound, GivenSound
      <4> QED
        BY <1>7, <2>1, <3>2, <4>1
    <3> QED
      BY <3>1, <3>2
  <2> QED
    BY <1>12, <2>1
<1>16. registered' \in Requests => entry'[registered'].life # "none"
  BY <1>2, <1>5 DEF Sound, Same
<1> QED
  BY <1>10, <1>11, <1>13, <1>14, <1>15, <1>16, Elsewhere

\* A failed opening publishes the terminal event.
LEMMA OpenFailsSound ==
  ASSUME Sound, NEW o \in Requests, OpenFails(o)
  PROVE  Parts'
<1>1. Terminal \in Events /\ EntrySound(o)
  BY DEF Events, Sound
<1>2. Publishes(o, Terminal)
  BY <1>1, NullFields DEF OpenFails, Publishes, EntrySound
<1> QED
  BY <1>1, <1>2, PublishSound

\* So does a driver, or its next event.
LEMMA EmitSound ==
  ASSUME Sound, NEW o \in Requests, Emit(o)
  PROVE  Parts'
<1>0. made \in [Requests -> Nat] /\ made[o] \in Nat /\ MaxEvents \in Nat
  BY SandOperationAssumption DEF Sound, IInv, Shaped
<1>1. CASE Publish(o, Terminal) /\ upstream' = [upstream EXCEPT ![o] = "done"] /\ UNCHANGED made
  <2>1. Terminal \in Events /\ Publishes(o, Terminal)
    BY <1>1 DEF Emit, Publishes, Events
  <2> QED
    BY <2>1, PublishSound
<1>2. CASE /\ made[o] < MaxEvents /\ made' = [made EXCEPT ![o] = @ + 1]
           /\ Publish(o, made[o] + 1) /\ UNCHANGED upstream
  <2>1. made[o] + 1 \in Events /\ made[o] + 1 <= MaxEvents
    BY <1>0, <1>2 DEF Events
  <2>2. Publishes(o, made[o] + 1)
    BY <1>0, <1>2, <2>1 DEF Emit, Publishes
  <2> QED
    BY <2>1, <2>2, PublishSound
<1> QED
  BY <1>1, <1>2 DEF Emit

\* The senders are offered the event under way, as far as it was not yet.
Offers(o, reached, senders) ==
  /\ forwarder[o].at \in {"owner", "retries"}
  /\ senders \subseteq forwarder[o].to /\ \A r \in senders : Pending(o, r)
  /\ reached \subseteq {r \in senders : Receiving(r) /\ HasRoom(r)}
  /\ Hears(o, reached, senders)
  /\ UNCHANGED <<registered, entry, upstream, made>>
  /\ \A x \in Requests \ {o} : forwarder'[x] = forwarder[x]
  /\ forwarder'[o].at \in {"retries", "retain"}
  /\ forwarder'[o].event = forwarder[o].event /\ forwarder'[o].to = forwarder[o].to
  /\ forwarder'[o].failed = forwarder[o].failed \cup (senders \ reached)
  /\ \A r \in Requests : Pending(o, r)' <=> Pending(o, r) /\ r \notin senders

\* What a request keeps when it is not offered the event, and what it hears.
LEMMA HearsFacts ==
  ASSUME Shaped, NEW o \in Requests, NEW reached, NEW senders,
         reached \subseteq {r \in senders : Receiving(r) /\ HasRoom(r)},
         Hears(o, reached, senders), NEW r \in Requests
  PROVE  /\ req'[r].at = req[r].at /\ req'[r].of = req[r].of /\ req'[r].read = req[r].read
         /\ req'[r].replayed = req[r].replayed
         /\ req[r].slow => req'[r].slow
         /\ r \in reached => req'[r].heard = Append(req[r].heard, forwarder[o].event)
         /\ r \notin reached => req'[r].heard = req[r].heard
         /\ r \in senders \ reached /\ Receiving(r) => req'[r].slow
         /\ r \notin senders \/ ~Receiving(r) => req'[r] = req[r]
<1>1. req[r] \in RequestShape
  BY DEF Shaped
<1>2. CASE r \in reached
  <2>1. req'[r] = [req[r] EXCEPT !.heard = Append(@, forwarder[o].event)]
    BY <1>2 DEF Hears
  <2> QED
    BY <1>1, <1>2, <2>1 DEF RequestShape
<1>3. CASE r \notin reached
  <2> DEFINE slow == req[r].slow \/ (r \in senders /\ Receiving(r))
             n == [req[r] EXCEPT !.slow = slow]
  <2>1. req'[r] = n
    BY <1>3 DEF Hears
  <2>2. r \notin senders \/ ~Receiving(r) => slow = req[r].slow
    BY <1>1 DEF RequestShape
  <2>3. slow = req[r].slow => n = req[r]
    <3> HIDE DEF slow
    <3> QED
      BY <1>1 DEF RequestShape
  <2>4. /\ n.at = req[r].at /\ n.of = req[r].of /\ n.read = req[r].read
        /\ n.replayed = req[r].replayed /\ n.heard = req[r].heard /\ n.slow = slow
    <3> HIDE DEF slow
    <3> QED
      BY <1>1 DEF RequestShape
  <2>5. (req[r].slow => slow) /\ (r \in senders \ reached /\ Receiving(r) => slow)
    OBVIOUS
  <2> HIDE DEF n, slow
  <2> QED
    BY <1>3, <2>1, <2>2, <2>3, <2>4, <2>5
<1> QED
  BY <1>2, <1>3

\* Who is reached has all there is; who is not, and is still there, is slow.
LEMMA OffersSound ==
  ASSUME Sound, NEW o \in Requests, NEW reached, NEW senders, Offers(o, reached, senders)
  PROVE  Parts'
<1>0. /\ Shaped /\ EntrySound(o) /\ EventSound(o) /\ forwarder[o].event \in Events
      /\ made[o] \in Nat /\ senders \subseteq Requests /\ reached \subseteq senders
      /\ forwarder[o].to \cup forwarder[o].failed \cup entry[o].subscribers \subseteq Requests
  BY DEF Offers, Sound, IInv, Shaped, Forwarder, EntryShape
<1>1. /\ forwarder[o].at # "idle" /\ forwarder[o] # Idle /\ entry[o].life = "live"
      /\ upstream[o] \notin {"none", "opening"} /\ req[o].at \notin {"new", "opening"}
  BY <1>0, NullFields DEF Offers, EntrySound
<1>2. \A r \in Requests :
         /\ req'[r].at = req[r].at /\ req'[r].of = req[r].of /\ req'[r].read = req[r].read
         /\ req'[r].replayed = req[r].replayed
         /\ req[r].slow => req'[r].slow
         /\ r \in reached => req'[r].heard = Append(req[r].heard, forwarder[o].event)
         /\ r \notin reached => req'[r].heard = req[r].heard
         /\ r \in senders \ reached /\ Receiving(r) => req'[r].slow
         /\ r \notin senders \/ ~Receiving(r) => req'[r] = req[r]
  BY <1>0, HearsFacts DEF Offers
<1>3. /\ \A x \in Requests \ {o} : Same(x) /\ Calm(x)
      /\ \A r \in Requests : Receiving(r)' <=> Receiving(r)
      /\ \A r \in Requests : Later(r)
  BY <1>2 DEF Offers, Same, Calm, Receiving, Later
<1>4. EntrySound(o)'
  BY <1>0, <1>1, <1>2 DEF EntrySound, Whole, Offers
<1>5. EventSound(o)'
  <2>1. \A r \in forwarder'[o].failed : r \in forwarder[o].failed \/ r \in senders \ reached
    BY DEF Offers
  <2>2. \A r \in forwarder'[o].failed : Receiving(r)' => req'[r].slow
    BY <1>0, <1>2, <1>3, <2>1 DEF EventSound
  <2>3. /\ entry' = entry /\ upstream' = upstream /\ made' = made
        /\ forwarder'[o].at \in {"retries", "retain"} /\ forwarder'[o].event = forwarder[o].event
        /\ forwarder'[o].to = forwarder[o].to
        /\ forwarder'[o].failed \subseteq forwarder[o].failed \cup forwarder[o].to
    BY DEF Offers
  <2> QED
    BY <1>0, <1>1, <1>2, <1>3, <2>2, <2>3 DEF EventSound
<1>6. ASSUME NEW r \in Requests, Receiving(r), req[r].of = o
      PROVE  ResponseSound(r)'
  <2> DEFINE s == req[r].heard
  <2>1. /\ GivenSound(r) /\ s \in Seq(Events) /\ Len(s) \in Nat /\ req[r].read \in Nat
        /\ MaxQueue \in Nat
    BY <1>0, <1>6, SandOperationAssumption DEF Sound, ResponseSound, Shaped, RequestShape
  <2>2. /\ entry' = entry /\ upstream' = upstream /\ made' = made
        /\ Pending(o, r)' <=> Pending(o, r) /\ r \notin senders
        /\ Earlier(o)' = Earlier(o) /\ \A t : Whole(t, o)' <=> Whole(t, o)
    BY <1>2 DEF Offers, Earlier, Whole
  <2>3. CASE r \in reached
    <3> DEFINE e == forwarder[o].event
               t == Append(s, e)
    <3>1. Pending(o, r) /\ r \in entry[o].subscribers /\ HasRoom(r)
      BY <1>0, <1>6, <2>3 DEF Offers, EventSound
    <3>2. Exact(s, Earlier(o))
      BY <1>6, <2>1, <3>1 DEF GivenSound
    <3>3. IF e = Terminal THEN Closed(t, made[o]) /\ upstream[o] = "done"
          ELSE Exact(t, made[o]) /\ (upstream[o] = "done" => req[o].at = "over")
      <4>1. CASE e = Terminal
        <5>1. Exact(s, made[o]) /\ upstream[o] = "done"
          BY <1>0, <1>1, <3>2, <4>1 DEF Earlier, EventSound
        <5> QED
          BY <1>0, <2>1, <4>1, <5>1, AppendFacts
      <4>2. CASE e # Terminal
        <5>1. /\ e = made[o] /\ made[o] - 1 \in Nat
              /\ upstream[o] = "done" => req[o].at = "over"
          BY <1>0, <1>1, <4>2, SandOperationAssumption DEF EventSound, Events
        <5>2. Exact(s, made[o] - 1)
          BY <3>2, <4>2 DEF Earlier
        <5>3. Exact(t, (made[o] - 1) + 1) /\ (made[o] - 1) + 1 = made[o]
          BY <1>0, <2>1, <5>1, <5>2, AppendFacts
        <5> QED
          BY <4>2, <5>1, <5>3
      <4> QED
        BY <4>1, <4>2
    <3>4. Len(t) = Len(s) + 1
      BY <1>0, <2>1
    <3>5. Len(s) - req[r].read < MaxQueue
      <4>1. Capacity(r) \in Nat
        BY <1>0, <1>6, SandOperationAssumption DEF Capacity, Shaped, RequestShape
      <4> QED
        BY <2>1, <3>1, <4>1 DEF HasRoom
    <3>6. /\ req[r].read <= Len(t) /\ Len(t) - req[r].read <= MaxQueue
      <4>1. req[r].read <= Len(s)
        BY <2>1 DEF GivenSound
      <4> QED
        BY <2>1, <3>4, <3>5, <4>1
    <3> HIDE DEF s, e, t
    <3>7. /\ \/ Exact(t, Len(t)) /\ Len(t) <= made[o]
             \/ Closed(t, made[o]) /\ upstream[o] = "done"
          /\ Whole(t, o)
      BY <1>0, <3>3 DEF Exact, Whole
    <3>8. req'[r].heard = t
      BY <1>2, <2>3 DEF t, s, e
    <3>9. /\ req'[r].at = req[r].at /\ req'[r].of = o /\ req'[r].read = req[r].read
          /\ req'[r].replayed = req[r].replayed /\ ~Pending(o, r)'
      BY <1>0, <1>2, <1>6, <2>2, <2>3
    <3>10. Whole(req[r].heard, o)'
      <4>1. /\ Exact(req'[r].heard, made'[o]) <=> Exact(t, made[o])
            /\ Closed(req'[r].heard, made'[o]) <=> Closed(t, made[o])
        BY <2>2, <3>8
      <4> QED
        BY <1>2, <2>2, <3>7, <3>8 DEF Whole
    <3>11. GivenSound(r)'
      <4>1. /\ o \in Requests /\ entry'[o].life # "none" /\ r \in entry'[o].subscribers
        BY <1>1, <2>2, <3>1
      <4>2. /\ \/ Exact(t, Len(t)) /\ Len(t) <= made'[o]
               \/ Closed(t, made'[o]) /\ upstream'[o] = "done"
        BY <2>2, <3>7
      <4>3. req[r].replayed <= MaxEvents + 1 /\ (req[r].at \in {"opening", "failing"} => o = r)
        BY <1>6, <2>1 DEF GivenSound
      <4> QED
        BY <3>6, <3>8, <3>9, <3>10, <4>1, <4>2, <4>3 DEF GivenSound
    <3> QED
      BY <1>3, <1>6, <3>11 DEF ResponseSound
  <2>4. CASE r \in senders \ reached
    <3>1. /\ r \in entry[o].subscribers /\ r \in forwarder'[o].failed /\ req'[r].slow
          /\ req'[r].heard = s /\ ~Pending(o, r)'
      BY <1>0, <1>2, <1>6, <2>2, <2>4 DEF Offers, EventSound
    <3>2. GivenSound(r)'
      BY <1>2, <1>6, <2>1, <2>2, <3>1 DEF GivenSound
    <3> QED
      BY <1>3, <1>6, <3>2 DEF ResponseSound
  <2>5. CASE r \notin senders
    <3>1. req'[r] = req[r] /\ (Pending(o, r)' <=> Pending(o, r))
      BY <1>2, <2>2, <2>5
    <3>2. r \in forwarder[o].failed => r \in forwarder'[o].failed
      BY DEF Offers
    <3>3. GivenSound(r)'
      BY <1>2, <1>6, <2>1, <2>2, <3>1, <3>2 DEF GivenSound, HasTerminal
    <3> QED
      BY <1>3, <1>6, <3>3 DEF ResponseSound
  <2> QED
    BY <1>0, <2>3, <2>4, <2>5
<1>7. \A r \in Requests : ResponseSound(r)' \/
                              (req'[r] = req[r] /\ (Receiving(r) => req[r].of # o))
  <2>1. ASSUME NEW r \in Requests, Receiving(r), req[r].of # o
        PROVE  req'[r] = req[r]
    <3>1. r \notin senders
      BY <1>0, <2>1 DEF Offers, EventSound
    <3> QED
      BY <1>2, <3>1
  <2> QED
    BY <1>2, <1>6, <2>1
<1>8. registered' \in Requests => entry'[registered'].life # "none"
  BY DEF Offers, Sound
<1> QED
  BY <1>3, <1>4, <1>5, <1>7, <1>8, Elsewhere

\* The owner is offered the event first.
LEMMA SendOwnerSound ==
  ASSUME Sound, NEW o \in Requests, SendOwner(o)
  PROVE  Parts'
<1>0. Shaped /\ forwarder[o] \in Forwarder /\ EventSound(o)
  BY DEF Sound, IInv, Shaped
<1> DEFINE senders == forwarder[o].to \cap {o}
           reached == {r \in senders : Receiving(r) /\ HasRoom(r)}
           f == [forwarder[o] EXCEPT !.at = "retries", !.failed = senders \ reached]
<1>1. /\ forwarder[o].at = "owner" /\ forwarder' = [forwarder EXCEPT ![o] = f]
      /\ Hears(o, reached, senders) /\ UNCHANGED <<registered, entry, upstream, made>>
  BY <1>0 DEF SendOwner, Shaped
<1>2. /\ f.at = "retries" /\ f.failed = senders \ reached /\ f.to = forwarder[o].to
      /\ f.event = forwarder[o].event
  BY <1>0 DEF Forwarder
<1>3. /\ senders \subseteq forwarder[o].to /\ senders \subseteq {o}
      /\ o \in forwarder[o].to => o \in senders
      /\ reached \subseteq {r \in senders : Receiving(r) /\ HasRoom(r)}
  OBVIOUS
<1> HIDE DEF senders, reached, f
<1>4. forwarder'[o] = f /\ \A x \in Requests \ {o} : forwarder'[x] = forwarder[x]
  BY <1>0, <1>1 DEF Shaped
<1>5. forwarder[o].failed = {}
  BY <1>0, <1>1 DEF EventSound
<1>6. /\ \A r \in senders : Pending(o, r)
      /\ \A r \in Requests : Pending(o, r)' <=> Pending(o, r) /\ r \notin senders
  BY <1>1, <1>2, <1>3, <1>4 DEF Pending
<1>7. Offers(o, reached, senders)
  BY <1>1, <1>2, <1>3, <1>4, <1>5, <1>6 DEF Offers
<1> QED
  BY <1>7, OffersSound

\* Then the others.
LEMMA SendRetriesSound ==
  ASSUME Sound, NEW o \in Requests, SendRetries(o)
  PROVE  Parts'
<1>0. Shaped /\ forwarder[o] \in Forwarder
  BY DEF Sound, IInv, Shaped
<1> DEFINE senders == Retries(o)
           reached == {r \in senders : Receiving(r) /\ HasRoom(r)}
           f == [forwarder[o] EXCEPT !.at = "retain", !.failed = @ \cup (senders \ reached)]
<1>1. /\ forwarder[o].at = "retries" /\ forwarder' = [forwarder EXCEPT ![o] = f]
      /\ Hears(o, reached, senders) /\ UNCHANGED <<registered, entry, upstream, made>>
  BY <1>0 DEF SendRetries, Shaped
<1>2. /\ f.at = "retain" /\ f.failed = forwarder[o].failed \cup (senders \ reached)
      /\ f.to = forwarder[o].to /\ f.event = forwarder[o].event
  BY <1>0 DEF Forwarder
<1>3. /\ senders = forwarder[o].to \ {o}
      /\ reached \subseteq {r \in senders : Receiving(r) /\ HasRoom(r)}
  BY DEF Retries
<1> HIDE DEF senders, reached, f
<1>4. forwarder'[o] = f /\ \A x \in Requests \ {o} : forwarder'[x] = forwarder[x]
  BY <1>0, <1>1 DEF Shaped
<1>5. /\ \A r \in senders : Pending(o, r)
      /\ \A r \in Requests : Pending(o, r)' <=> Pending(o, r) /\ r \notin senders
  BY <1>1, <1>2, <1>3, <1>4 DEF Pending
<1>6. Offers(o, reached, senders)
  BY <1>1, <1>2, <1>3, <1>4, <1>5 DEF Offers
<1> QED
  BY <1>6, OffersSound

\* Those that failed are let go, and those that have gone.
LEMMA RetainSound ==
  ASSUME Sound, NEW o \in Requests, Retain(o)
  PROVE  Parts'
<1>0. /\ Shaped /\ entry[o] \in EntryShape /\ EntrySound(o) /\ EventSound(o)
  BY DEF Sound, IInv, Shaped
<1> DEFINE S == {r \in entry[o].subscribers \ forwarder[o].failed : Receiving(r)}
           n == [entry[o] EXCEPT !.subscribers = S]
<1>1. /\ n.subscribers = S /\ n.life = entry[o].life /\ n.replay = entry[o].replay
      /\ n.truncated = entry[o].truncated /\ entry' = [entry EXCEPT ![o] = n]
  BY <1>0 DEF Retain, EntryShape, Shaped
<1>2. /\ S \subseteq entry[o].subscribers /\ entry[o].subscribers \subseteq Requests
      /\ \A r \in entry[o].subscribers : Receiving(r) => r \in S \/ r \in forwarder[o].failed
  BY <1>0 DEF EntryShape
<1> HIDE DEF S, n
<1>3. /\ entry'[o] = n /\ forwarder'[o] = Idle /\ forwarder[o].at = "retain"
      /\ UNCHANGED <<registered, upstream, made, req>>
      /\ \A x \in Requests \ {o} : Same(x)
  BY <1>0, <1>1 DEF Retain, Shaped, Same
<1>4. /\ entry[o].life = "live"
      /\ upstream[o] \notin {"none", "opening"} /\ req[o].at \notin {"new", "opening"}
  BY <1>0, <1>3, NullFields DEF EntrySound
<1>5. EntrySound(o)'
  <2>1. /\ Cardinality(S) <= Cardinality(entry[o].subscribers)
        /\ Cardinality(S) \in Nat /\ Cardinality(entry[o].subscribers) \in Nat
        /\ SubscriberLimit \in Nat
    <3>1. S \in SUBSET Requests /\ entry[o].subscribers \in SUBSET Requests
      BY <1>2
    <3> QED
      BY <1>2, <3>1, RequestSets, SandOperationAssumption
  <2>2. Cardinality(S) <= SubscriberLimit
    BY <1>0, <2>1 DEF EntrySound
  <2> QED
    BY <1>0, <1>1, <1>3, <1>4, <2>2 DEF EntrySound, Whole
<1>6. EventSound(o)'
  BY <1>0, <1>1, <1>2, <1>3, NullFields DEF EventSound, Receiving
<1>7. ASSUME NEW r \in Requests, Receiving(r), req[r].of = o
      PROVE  ResponseSound(r)'
  <2>1. GivenSound(r) /\ Receiving(r)' /\ ~Pending(o, r) /\ ~Pending(o, r)'
    BY <1>3, <1>7, NullFields DEF Sound, ResponseSound, Receiving, Pending
  <2>2. /\ \A t : Whole(t, o)' <=> Whole(t, o)
        /\ r \in entry'[o].subscribers => r \in entry[o].subscribers /\ r \notin forwarder[o].failed
        /\ r \in entry[o].subscribers => r \in entry'[o].subscribers \/ req[r].slow
    <3>1. r \in S => r \notin forwarder[o].failed
      BY DEF S
    <3> QED
      BY <1>0, <1>1, <1>2, <1>3, <1>7, <3>1 DEF Whole, EventSound
  <2>3. GivenSound(r)'
    BY <1>1, <1>3, <1>4, <1>7, <2>1, <2>2 DEF GivenSound, HasTerminal, Whole
  <2> QED
    BY <2>1, <2>3 DEF ResponseSound
<1>8. \A r \in Requests : Later(r) /\ Calm(r)
  BY <1>3 DEF Later, Calm, Receiving
<1>9. registered' \in Requests => entry'[registered'].life # "none"
  BY <1>1, <1>3, <1>4 DEF Sound, Same
<1>10. \A r \in Requests : ResponseSound(r)' \/
                              (req'[r] = req[r] /\ (Receiving(r) => req[r].of # o))
  BY <1>3, <1>7
<1> QED
  BY <1>3, <1>5, <1>6, <1>8, <1>9, <1>10, Elsewhere

\* All that was published is given out before the channels close.
LEMMA FinishSound ==
  ASSUME Sound, NEW o \in Requests, Finish(o)
  PROVE  Parts'
<1>0. /\ Shaped /\ entry[o] \in EntryShape /\ EntrySound(o) /\ EventSound(o)
  BY DEF Sound, IInv, Shaped
<1> DEFINE n == [entry[o] EXCEPT !.life = "finished", !.subscribers = {}]
<1>1. /\ n.subscribers = {} /\ n.life = "finished" /\ n.replay = entry[o].replay
      /\ n.truncated = entry[o].truncated /\ entry' = [entry EXCEPT ![o] = n]
  BY <1>0 DEF Finish, EntryShape
<1> HIDE DEF n
<1>2. /\ entry'[o] = n /\ entry[o].life = "live" /\ upstream[o] = "done" /\ forwarder[o] = Idle
      /\ UNCHANGED <<registered, forwarder, upstream, made>>
      /\ req'[o] = IF req[o].at = "failing" THEN Over ELSE req[o]
      /\ \A x \in Requests \ {o} : Same(x) /\ req'[x] = req[x]
  BY <1>0, <1>1 DEF Finish, EventSound, Shaped, Same
<1>3. /\ req[o].at \notin {"new", "opening"} /\ Over.at = "over"
      /\ req'[o].at \notin {"new", "opening", "failing"}
      /\ req[o].at = "over" => req'[o].at = "over"
  BY <1>0, <1>2, NullFields, ConstantShapes DEF EntrySound
<1>4. EntrySound(o)'
  <2>1. Cardinality({}) <= SubscriberLimit
    BY FS_EmptySet, SandOperationAssumption
  <2> QED
    BY <1>0, <1>1, <1>2, <1>3, <2>1 DEF EntrySound, Whole
<1>5. EventSound(o)'
  BY <1>1, <1>2, NullFields DEF EventSound
<1>6. ASSUME NEW r \in Requests, Receiving(r), req[r].of = o
      PROVE  ResponseSound(r)'
  <2>1. CASE req'[r] = Over
    BY <2>1, OverSound
  <2>2. CASE req'[r] = req[r]
    <3>1. GivenSound(r) /\ Receiving(r)' /\ ~Pending(o, r) /\ r \notin forwarder[o].failed
      BY <1>2, <1>6, <2>2, NullFields DEF Sound, ResponseSound, Receiving, Pending
    <3>2. r \in entry[o].subscribers => req[o].at = "over" \/ HasTerminal(r)
      <4>1. Closed(req[r].heard, made[o]) => HasTerminal(r)
        <5>1. made[o] \in Nat /\ req[r].heard \in Seq(Events)
          BY <1>0 DEF Shaped, RequestShape
        <5>2. Closed(req[r].heard, made[o]) =>
                made[o] + 1 \in DOMAIN req[r].heard /\ req[r].heard[made[o] + 1] = Terminal
          BY <5>1 DEF Closed
        <5> QED
          BY <5>2 DEF HasTerminal
      <4> QED
        BY <1>2, <1>6, <3>1, <4>1 DEF GivenSound, Whole
    <3>3. req'[r].at = "attached" =>
            req'[r].slow \/ req'[o].at = "over" \/ HasTerminal(r)' \/ r \in entry'[o].subscribers
      BY <1>3, <1>6, <2>2, <3>1, <3>2 DEF GivenSound, HasTerminal
    <3>4. GivenSound(r)'
      BY <1>1, <1>2, <1>6, <2>2, <3>1, <3>3 DEF GivenSound
    <3> QED
      BY <3>1, <3>4 DEF ResponseSound
  <2> QED
    BY <1>2, <2>1, <2>2
<1>7. \A r \in Requests : Later(r) /\ Calm(r)
  BY <1>2, <1>3 DEF Later, Calm, Receiving
<1>8. registered' \in Requests => entry'[registered'].life # "none"
  BY <1>1, <1>2 DEF Sound, Same
<1>9. \A r \in Requests : ResponseSound(r)' \/
                              (req'[r] = req[r] /\ (Receiving(r) => req[r].of # o))
  <2>1. req'[o] = Over \/ req'[o] = req[o]
    BY <1>2
  <2> QED
    BY <1>2, <1>6, <2>1, OverSound
<1> QED
  BY <1>2, <1>4, <1>5, <1>7, <1>8, <1>9, Elsewhere

\* The forwarder keeps what the responses are owed.
LEMMA ForwardSound ==
  ASSUME Sound, NEW o \in Requests, Forward(o)
  PROVE  Parts'
  BY SendOwnerSound, SendRetriesSound, RetainSound, FinishSound DEF Forward

-----------------------------------------------------------------------------
(* The clients, and time.                                                   *)

\* A response takes its next event, or ends with the terminal one.
LEMMA ReadSound ==
  ASSUME Sound, NEW r \in Requests, Read(r)
  PROVE  Parts'
<1>0. /\ Shaped /\ req[r] \in RequestShape /\ Receiving(r) /\ GivenSound(r)
      /\ req[r].at = "attached" /\ req[r].read < Len(req[r].heard)
      /\ UNCHANGED <<registered, entry, forwarder, upstream, made>>
  BY DEF Read, Sound, IInv, Shaped, ResponseSound, Receiving
<1> DEFINE n == [req[r] EXCEPT !.read = @ + 1]
           ends == req[r].heard[req[r].read + 1] = Terminal
<1>1. req' = [req EXCEPT ![r] = IF ends THEN Over ELSE n]
  BY DEF Read
<1>2. /\ n.at = "attached" /\ n.of = req[r].of /\ n.heard = req[r].heard
      /\ n.read = req[r].read + 1 /\ n.replayed = req[r].replayed /\ n.slow = req[r].slow
  BY <1>0 DEF RequestShape
<1> HIDE DEF n, ends
<1>3. CASE ends
  BY <1>0, <1>1, <1>3, EndsSound
<1>4. CASE ~ends
  <2>1. req'[r] = n /\ \A s \in Requests \ {r} : req'[s] = req[s]
    BY <1>0, <1>1, <1>4 DEF Shaped
  <2>2. Later(r) /\ Calm(r) /\ Receiving(r)'
    BY <1>0, <1>2, <2>1 DEF Later, Calm, Receiving
  <2>3. \A o \in Requests : req'[o].at = req[o].at
    BY <1>0, <1>2, <2>1
  <2>4. req[r].read + 1 <= Len(req[r].heard) /\ Len(req[r].heard) - (req[r].read + 1) <= MaxQueue
    <3>1. Len(req[r].heard) \in Nat /\ req[r].read \in Nat /\ MaxQueue \in Nat
      BY <1>0, SandOperationAssumption DEF RequestShape
    <3> QED
      BY <1>0, <3>1 DEF GivenSound
  <2>5. GivenSound(r)'
    BY <1>0, <1>2, <2>1, <2>3, <2>4 DEF GivenSound, Whole, Pending, Earlier, HasTerminal
  <2>6. ResponseSound(r)'
    BY <2>2, <2>5 DEF ResponseSound
  <2> QED
    BY <1>0, <2>1, <2>2, <2>6, OneRequestSound
<1> QED
  BY <1>3, <1>4

\* A client goes, and an opening goes with it.
LEMMA LeaveSound ==
  ASSUME Sound, NEW r \in Requests, Leave(r)
  PROVE  Parts'
<1>1. CASE req[r].at = "attached"
  BY <1>1, EndsSound DEF Leave
<1>2. CASE req[r].at # "attached"
  <2>1. Abandon(r) /\ UNCHANGED <<registered, made>> /\ req[r].at \in {"opening", "failing"}
    BY <1>2 DEF Leave, Receiving
  <2> QED
    BY <2>1, AbandonSound
<1> QED
  BY <1>1, <1>2

\* An operation that is over is forgotten with all it kept.
LEMMA AgeSound ==
  ASSUME Sound, NEW o \in Requests, Age(o)
  PROVE  Parts'
<1>0. Shaped /\ EntrySound(o) /\ EventSound(o)
  BY DEF Sound, IInv
<1>1. /\ Empty("aged").life = "aged" /\ Empty("aged").subscribers = {}
      /\ Empty("aged").replay = <<>>
  BY DEF Empty
<1>2. /\ entry'[o] = Empty("aged") /\ entry[o].life = "finished"
      /\ UNCHANGED <<registered, forwarder, upstream, made, req>>
      /\ \A x \in Requests \ {o} : Same(x)
  BY <1>0 DEF Age, Shaped, Same
<1>3. /\ forwarder[o] = Idle /\ upstream[o] = "done" /\ entry[o].subscribers = {}
      /\ req[o].at \notin {"new", "opening"}
  BY <1>0, <1>2, NullFields DEF EntrySound
<1>4. EntrySound(o)'
  <2>1. Cardinality({}) <= SubscriberLimit /\ 0 <= ReplayCapacity
    BY FS_EmptySet, SandOperationAssumption
  <2> QED
    BY <1>0, <1>1, <1>2, <1>3, <2>1, NullFields DEF EntrySound
<1>5. EventSound(o)'
  BY <1>1, <1>2, <1>3, NullFields DEF EventSound
<1>6. ASSUME NEW r \in Requests, Receiving(r), req[r].of = o
      PROVE  ResponseSound(r)'
  <2>1. GivenSound(r) /\ Receiving(r)'
    BY <1>2, <1>6 DEF Sound, ResponseSound, Receiving
  <2>2. GivenSound(r)'
    BY <1>1, <1>2, <1>3, <1>6, <2>1 DEF GivenSound, HasTerminal
  <2> QED
    BY <2>1, <2>2 DEF ResponseSound
<1>7. \A r \in Requests : Later(r) /\ Calm(r)
  BY <1>2 DEF Later, Calm, Receiving
<1>8. registered' \in Requests => entry'[registered'].life # "none"
  BY <1>1, <1>2 DEF Sound, Same
<1>9. \A r \in Requests : ResponseSound(r)' \/
                              (req'[r] = req[r] /\ (Receiving(r) => req[r].of # o))
  BY <1>2, <1>6
<1> QED
  BY <1>2, <1>4, <1>5, <1>7, <1>8, <1>9, Elsewhere

-----------------------------------------------------------------------------
(* Types, and faithful answers.                                             *)

\* Nobody has come, and nothing was given.
LEMMA InitSound == Init => Sound
<1> SUFFICES ASSUME Init PROVE Sound
  OBVIOUS
<1>1. IInv
  BY InitInvariant
<1>2. Exact(<<>>, 0) /\ Cardinality({}) = 0 /\ None \notin Requests
  BY NullFields, FS_EmptySet DEF Exact, None, Requests
<1>3. 0 <= MaxEvents /\ 0 <= ReplayCapacity /\ 0 <= SubscriberLimit
  BY SandOperationAssumption
<1>4. ASSUME NEW o \in Requests
      PROVE  EntrySound(o) /\ EventSound(o) /\ ResponseSound(o)
  <2>1. /\ entry[o] = Empty("none") /\ forwarder[o] = Idle /\ upstream[o] = "none"
        /\ made[o] = 0 /\ req[o] = New /\ New.at = "new"
    BY <1>4, ConstantShapes DEF Init
  <2>2. EntrySound(o)
    BY <1>2, <1>3, <2>1, NullFields DEF EntrySound, Whole
  <2>3. EventSound(o)
    BY <2>1, NullFields DEF EventSound
  <2> QED
    BY <2>1, <2>2, <2>3 DEF ResponseSound, Receiving
<1> QED
  BY <1>1, <1>2, <1>4 DEF Init, Sound

\* Every step keeps what the responses are owed.
LEMMA StepSound == Sound /\ [Next]_vars => Sound'
<1> SUFFICES ASSUME Sound, [Next]_vars PROVE Sound'
  OBVIOUS
<1>1. IInv'
  BY StepInvariant DEF Sound
<1>2. CASE UNCHANGED vars
  <2>1. \A o \in Requests : Same(o) /\ Later(o) /\ Calm(o) /\ req'[o] = req[o]
    BY <1>2 DEF vars, Same, Later, Calm, Receiving
  <2>2. \A o \in Requests : EntrySound(o)' /\ EventSound(o)'
    BY <2>1, EntryKept, EventKept DEF Sound, IInv
  <2>3. \A r \in Requests : ResponseSound(r)'
    BY <2>1, ResponseKept DEF Sound, ResponseSound, GivenSound
  <2> QED
    BY <1>1, <1>2, <2>2, <2>3 DEF Sound, vars
<1>3. ASSUME NEW r \in Requests, Admit(r) PROVE Parts'
  BY <1>3, AdmitSound
<1>4. ASSUME NEW r \in Requests, OpenReturns(r) PROVE Parts'
  <2>1. CASE AnsweredEarly(r)
    BY <2>1, AbandonSound DEF AnsweredEarly
  <2> QED
    BY <1>4, <2>1, OpenFailsSound, ForwardFromSound DEF OpenReturns
<1>5. ASSUME NEW r \in Requests, Emit(r) \/ DriverLeaves(r) \/ Forward(r) PROVE Parts'
  BY <1>5, EmitSound, DriverLeavesSound, ForwardSound
<1>6. ASSUME NEW r \in Requests, Read(r) \/ EndOfEvents(r) \/ Leave(r) \/ Age(r) PROVE Parts'
  <2>1. CASE EndOfEvents(r)
    BY <2>1, EndsSound DEF EndOfEvents
  <2> QED
    BY <1>6, <2>1, ReadSound, LeaveSound, AgeSound
<1>7. CASE Next
  <2>1. Parts'
    BY <1>3, <1>4, <1>5, <1>6, <1>7 DEF Next
  <2> QED
    BY <1>1, <2>1 DEF Sound, Parts
<1> QED
  BY <1>2, <1>7

\* A sequence within its bound.
LEMMA BoundedSequence ==
  ASSUME NEW S, NEW s \in Seq(S), NEW n \in Nat, Len(s) <= n
  PROVE  s \in BoundedSeq(S, n)
<1>1. Len(s) \in 0..n /\ s \in [1..Len(s) -> S]
  OBVIOUS
<1> QED
  BY <1>1 DEF BoundedSeq, SeqOf

\* An answer is no longer than the events of its operation and the terminal one.
LEMMA SoundHasTypes == Sound => TypeOK
<1> SUFFICES ASSUME Sound PROVE TypeOK
  OBVIOUS
<1>1. Shaped /\ {MaxEvents, MaxEvents + 1, ReplayCapacity, MaxQueue} \subseteq Nat
  BY SandOperationAssumption DEF Sound, IInv
<1>2. ASSUME NEW o \in Requests
      PROVE  entry[o] \in Entry /\ made[o] \in 0..MaxEvents
  <2>1. entry[o] \in EntryShape /\ made[o] \in Nat /\ made[o] <= MaxEvents
        /\ Len(entry[o].replay) <= ReplayCapacity
    BY <1>1 DEF Sound, EntrySound, Shaped
  <2>2. entry[o].replay \in BoundedSeq(Events, ReplayCapacity)
    BY <1>1, <2>1, BoundedSequence DEF EntryShape
  <2> QED
    BY <1>1, <2>1, <2>2 DEF Entry, EntryShape
<1>3. ASSUME NEW r \in Requests
      PROVE  req[r] \in Request /\ Len(req[r].heard) - req[r].read <= MaxQueue
  <2>1. /\ req[r] \in RequestShape /\ req[r].heard \in Seq(Events) /\ Len(req[r].heard) \in Nat
        /\ req[r].read \in Nat /\ req[r].replayed \in Nat
    BY <1>1 DEF Shaped, RequestShape
  <2>2. /\ Len(req[r].heard) <= MaxEvents + 1 /\ req[r].read <= MaxEvents + 1
        /\ req[r].replayed <= MaxEvents + 1 /\ Len(req[r].heard) - req[r].read <= MaxQueue
    <3>1. CASE ~Receiving(r)
      <4>1. req[r].heard = <<>> /\ req[r].read = 0 /\ req[r].replayed = 0
        BY <3>1 DEF Sound, ResponseSound, New, Over
      <4> QED
        BY <1>1, <4>1
    <3>2. CASE Receiving(r)
      <4>1. GivenSound(r)
        BY <3>2 DEF Sound, ResponseSound
      <4>2. PICK o \in Requests : o = req[r].of
        BY <4>1 DEF GivenSound
      <4>3. made[o] \in Nat /\ made[o] <= MaxEvents
        BY <1>2
      <4>4. Len(req[r].heard) <= made[o] \/ Len(req[r].heard) = made[o] + 1
        BY <4>1, <4>2 DEF GivenSound, Closed
      <4> QED
        BY <1>1, <2>1, <4>1, <4>3, <4>4 DEF GivenSound
    <3> QED
      BY <3>1, <3>2
  <2>3. req[r].heard \in BoundedSeq(Events, MaxEvents + 1)
    BY <1>1, <2>1, <2>2, BoundedSequence
  <2>4. req[r].read \in 0..MaxEvents + 1 /\ req[r].replayed \in 0..MaxEvents + 1
    BY <1>1, <2>1, <2>2
  <2> QED
    BY <2>1, <2>2, <2>3, <2>4 DEF Request, RequestShape
<1>4. \A o \in Requests : Cardinality(entry[o].subscribers) <= SubscriberLimit
  BY DEF Sound, EntrySound
<1> QED
  BY <1>1, <1>2, <1>3, <1>4 DEF TypeOK, Shaped

\* A response that nobody can send to has the terminal event, or a reason.
LEMMA SoundIsFaithful == Sound => AnswersFaithful
<1> SUFFICES ASSUME Sound, NEW r \in Requests
             PROVE  LET heard == req[r].heard  o == req[r].of IN
                    /\ \A i \in DOMAIN heard :
                         heard[i] = i \/ (heard[i] = Terminal /\ i = Len(heard) /\ i = made[o] + 1)
                    /\ req[r].at = "attached" /\ ~Open(r) /\ ~HasTerminal(r)
                         => req[r].slow \/ req[o].at = "over"
  BY DEF AnswersFaithful
<1>1. CASE ~Receiving(r)
  <2>1. DOMAIN req[r].heard = {} /\ req[r].at # "attached"
    BY <1>1 DEF Sound, ResponseSound, New, Over, Receiving
  <2> QED
    BY <2>1
<1>2. CASE Receiving(r)
  <2>1. GivenSound(r)
    BY <1>2 DEF Sound, ResponseSound
  <2>2. PICK o \in Requests : o = req[r].of
    BY <2>1 DEF GivenSound
  <2>3. req[r].heard \in Seq(Events) /\ made[o] \in Nat
    BY DEF Sound, IInv, Shaped, RequestShape
  <2>4. \A i \in DOMAIN req[r].heard :
          \/ req[r].heard[i] = i
          \/ req[r].heard[i] = Terminal /\ i = Len(req[r].heard) /\ i = made[o] + 1
    <3>1. CASE Exact(req[r].heard, Len(req[r].heard))
      BY <2>3, <3>1 DEF Exact
    <3>2. CASE Closed(req[r].heard, made[o])
      BY <2>3, <3>2 DEF Closed
    <3> QED
      BY <2>1, <2>2, <3>1, <3>2 DEF GivenSound
  <2>5. req[r].at = "attached" /\ ~Open(r) /\ ~HasTerminal(r) => req[r].slow \/ req[o].at = "over"
    BY <2>1, <2>2 DEF GivenSound, Open
  <2> QED
    BY <2>2, <2>4, <2>5
<1> QED
  BY <1>1, <1>2

\* So it is in every state.
LEMMA AlwaysSound == Spec => []Sound
<1>1. Init => Sound
  BY InitSound
<1>2. Sound /\ [Next]_vars => Sound'
  BY StepSound
<1> QED
  BY <1>1, <1>2, PTL DEF Spec

\* The replay keeps its capacity, a response's queue MAX_SUBSCRIBER_REPLAY_QUEUE,
\* an operation its subscriber limit, whatever the capacities are and however the
\* replay, the sends and the departures of clients interleave.
THEOREM TypeCorrect == Spec => []TypeOK
<1>1. Sound => TypeOK
  BY SoundHasTypes
<1> QED
  BY <1>1, AlwaysSound, PTL

\* What a response is given are the events of one invocation from its first, each
\* once, in order, the terminal one last, although some come from the replay and
\* some from a snapshot of the senders taken before it subscribed; and it ends
\* without the terminal one only when it did not read or the owner's client went.
THEOREM AnswersAreFaithful == Spec => []AnswersFaithful
<1>1. Sound => AnswersFaithful
  BY SoundIsFaithful
<1> QED
  BY <1>1, AlwaysSound, PTL

=============================================================================
