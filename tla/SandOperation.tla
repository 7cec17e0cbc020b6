--------------------------- MODULE SandOperation ---------------------------
(***************************************************************************)
(* One logical Sand operation and the HTTP requests that carry its client  *)
(* request id (cursor/sand_operation.rs and its callers in mod.rs).  The   *)
(* first request owns the upstream invocation; the others subscribe to its *)
(* events, of which a bounded replay is kept, for a while also after the   *)
(* end.                                                                    *)
(*                                                                         *)
(* The events of an operation are 1, 2, ... and Terminal.  Bytes are not   *)
(* counted: an event may push older ones out of the replay, or be too big  *)
(* for it.  The channel between the driver and the forwarder is left out:  *)
(* the driver hands an event over when it is published.                    *)
(***************************************************************************)
EXTENDS Naturals, Sequences, FiniteSets, SequencesExt

CONSTANTS
  MaxRequests,    \* requests, numbered as they come
  MaxEvents,      \* events before the terminal one
  ReplayCapacity, \* replay_capacity
  MaxQueue,       \* MAX_SUBSCRIBER_REPLAY_QUEUE
  ChannelCapacity,\* SUBSCRIBER_CHANNEL_CAPACITY
  SubscriberLimit \* subscriber_limit

ASSUME SandOperationAssumption ==
  /\ {MaxRequests, MaxEvents} \subseteq Nat
  /\ {ReplayCapacity, MaxQueue, ChannelCapacity, SubscriberLimit} \subseteq Nat \ {0}
  /\ ChannelCapacity <= MaxQueue

Requests == 1..MaxRequests
None == 0

VARIABLES
  registered, \* SAND_OPERATIONS[key]: the owner of the entry, or None
  entry,      \* owner -> its SandOperationEntry
  forwarder,  \* owner -> where publish is, in the forwarder or in fail
  upstream,   \* owner -> the opening and then the driver
  made,       \* owner -> events its driver has emitted
  req         \* the requests
vars == <<registered, entry, forwarder, upstream, made, req>>

Terminal == 0
Events == 1..MaxEvents \cup {Terminal}

Entry ==
  [replay : BoundedSeq(Events, ReplayCapacity), truncated : BOOLEAN,
   subscribers : SUBSET Requests, life : {"none", "live", "finished", "aged"}]

Empty(life) == [replay |-> <<>>, truncated |-> FALSE, subscribers |-> {}, life |-> life]

\* to: the senders of the snapshot; failed: those that could not be sent to.
Forwarder ==
  [at : {"idle", "owner", "retries", "retain"}, event : Events,
   to : SUBSET Requests, failed : SUBSET Requests]

Idle == [at |-> "idle", event |-> Terminal, to |-> {}, failed |-> {}]

\* of: the owner of the operation; heard: all that was sent to it, of which it has
\* read the first; replayed: how much of it came from the replay.  late: it came
\* when the operation was over; slow: it was dropped because it did not read
\* (histories).
Request ==
  [at : {"new", "opening", "failing", "attached", "over"},
   of : Requests \cup {None}, heard : BoundedSeq(Events, MaxEvents + 1),
   read : 0..MaxEvents + 1, replayed : 0..MaxEvents + 1,
   late : BOOLEAN, slow : BOOLEAN]

New == [at |-> "new", of |-> None, heard |-> <<>>, read |-> 0, replayed |-> 0,
        late |-> FALSE, slow |-> FALSE]

\* Refused, answered, or its client has gone.
Over == [New EXCEPT !.at = "over"]

Init ==
  /\ registered = None
  /\ entry = [o \in Requests |-> Empty("none")]
  /\ forwarder = [o \in Requests |-> Idle]
  /\ upstream = [o \in Requests |-> "none"]
  /\ made = [o \in Requests |-> 0]
  /\ req = [r \in Requests |-> New]

\* The receiver of r is alive.
Receiving(r) == req[r].at \in {"opening", "failing", "attached"}

\* Somebody holds a sender of r: the entry, a publication, or the driver of r
\* (owner_sender).
Open(r) ==
  LET o == req[r].of IN
  \/ r \in entry[o].subscribers
  \/ r \in forwarder[o].to
  \/ r = o /\ upstream[o] = "driving"

Capacity(r) == IF req[r].replayed < ChannelCapacity THEN ChannelCapacity ELSE req[r].replayed + 1

HasRoom(r) ==
  Len(req[r].heard) - req[r].read
    < IF Capacity(r) < MaxQueue THEN Capacity(r) ELSE MaxQueue

-----------------------------------------------------------------------------
(* admit_sand_operation.                                                    *)

\* Mutant of Forgotten: an entry nobody can attach to makes room for an owner.
ForgottenTruncated(o) == entry[o].life = "aged" \/ entry[o].truncated

\* prune_expired
Forgotten(o) == entry[o].life = "aged"

Current == IF registered = None \/ Forgotten(registered) THEN None ELSE registered

\* The owner is subscribed before anything is opened.
Own(r) ==
  /\ registered' = r
  /\ entry' = [entry EXCEPT ![r].life = "live", ![r].subscribers = {r}]
  /\ upstream' = [upstream EXCEPT ![r] = "opening"]
  /\ req' = [req EXCEPT ![r].at = "opening", ![r].of = r]

\* Mutant of Joins: a subscriber that came after the end waits for more.
JoinsAlways(o, r) == {r}

Joins(o, r) == IF entry[o].life = "live" THEN {r} ELSE {}

\* Mutant of Full: off by one.
FullLate(o, open) == entry[o].life = "live" /\ Cardinality(open) > SubscriberLimit

Full(o, open) == entry[o].life = "live" /\ Cardinality(open) >= SubscriberLimit

\* subscribe: the closed senders go first, then the limits are looked at.
Subscribe(o, r) ==
  LET open == {s \in entry[o].subscribers : Receiving(s)}
      refused == entry[o].truncated \/ Full(o, open) \/ Len(entry[o].replay) >= MaxQueue
  IN
  /\ registered' = o
  /\ entry' = [entry EXCEPT ![o].subscribers =
                 IF entry[o].truncated THEN @ ELSE IF refused THEN open ELSE open \cup Joins(o, r)]
  /\ req' = [req EXCEPT ![r] =
               IF refused THEN Over
               ELSE [New EXCEPT !.at = "attached", !.of = o,
                                !.heard = entry[o].replay, !.replayed = Len(entry[o].replay),
                                !.late = entry[o].life # "live"]]
  /\ UNCHANGED upstream

\* CapacityExceeded: the entries of other operations fill the registry.
Crowded(r) ==
  /\ registered' = None
  /\ req' = [req EXCEPT ![r] = Over]
  /\ UNCHANGED <<entry, upstream>>

Admit(r) ==
  /\ req[r].at = "new"
  /\ \A s \in Requests : s < r => req[s].at # "new"
  /\ IF Current = None THEN Own(r) \/ Crowded(r) ELSE Subscribe(Current, r)
  /\ UNCHANGED <<forwarder, made>>

-----------------------------------------------------------------------------
(* The owner.                                                               *)

\* Mutant of Abandoned: the subscribers stay.
AbandonedKept(o) == [entry EXCEPT ![o].life = "finished", ![o].truncated = TRUE]

\* Drop for SandOperationOwner, before the forwarder runs.
Abandoned(o) ==
  [entry EXCEPT ![o].life = "finished", ![o].truncated = TRUE, ![o].subscribers = {}]

\* The owner's future ends before it opened anything: an early answer, or the
\* client went.
Abandon(o) ==
  /\ entry' = Abandoned(o)
  /\ forwarder' = [forwarder EXCEPT ![o] = Idle]
  /\ upstream' = [upstream EXCEPT ![o] = "done"]
  /\ req' = [req EXCEPT ![o] = Over]

\* An invalid request, a hosted search or fetch: the answer needs no upstream.
AnsweredEarly(o) ==
  /\ req[o].at = "opening"
  /\ Abandon(o)
  /\ UNCHANGED <<registered, made>>

\* take_subscription and forward_from, then the driver is spawned.
ForwardFrom(o) ==
  /\ req[o].at = "opening"
  /\ upstream' = [upstream EXCEPT ![o] = "driving"]
  /\ req' = [req EXCEPT ![o].at = "attached"]
  /\ UNCHANGED <<registered, entry, forwarder, made>>

\* The driver sees the owner's receiver closed and returns without a word.
DriverLeaves(o) ==
  /\ upstream[o] = "driving" /\ ~Receiving(o)
  /\ upstream' = [upstream EXCEPT ![o] = "done"]
  /\ UNCHANGED <<registered, entry, forwarder, made, req>>

-----------------------------------------------------------------------------
(* publish.                                                                 *)

Kept(o, e) == [replay |-> Append(entry[o].replay, e), truncated |-> entry[o].truncated]

\* Mutant of Popped: the replay loses its beginning unnoticed.
PoppedQuietly(o, e) ==
  [replay |-> Append(Tail(entry[o].replay), e), truncated |-> entry[o].truncated]

\* The oldest event makes room for e.  More of them may go: a replay without its
\* beginning is never read.
Popped(o, e) == [replay |-> Append(Tail(entry[o].replay), e), truncated |-> TRUE]

\* e alone exceeds the byte capacity.
Giant == [replay |-> <<>>, truncated |-> TRUE]

Replays(o, e) ==
  {Giant}
    \cup (IF Len(entry[o].replay) < ReplayCapacity THEN {Kept(o, e)} ELSE {})
    \cup (IF entry[o].replay # <<>> THEN {Popped(o, e)} ELSE {})

\* The replay and the snapshot of the senders change under one lock.
Publish(o, e) ==
  \E to \in Replays(o, e) :
    /\ entry' = [entry EXCEPT ![o].replay = to.replay, ![o].truncated = to.truncated]
    /\ forwarder' = [forwarder EXCEPT ![o] =
         [at |-> "owner", event |-> e, to |-> entry[o].subscribers, failed |-> {}]]

\* An event of the driver; it returns after the terminal one.
Emit(o) ==
  /\ upstream[o] = "driving" /\ forwarder[o].at = "idle"
  /\ \/ /\ made[o] < MaxEvents
        /\ made' = [made EXCEPT ![o] = @ + 1]
        /\ Publish(o, made[o] + 1)
        /\ UNCHANGED upstream
     \/ /\ Publish(o, Terminal)
        /\ upstream' = [upstream EXCEPT ![o] = "done"]
        /\ UNCHANGED made
  /\ UNCHANGED <<registered, req>>

\* fail: the error is published like an event.
OpenFails(o) ==
  /\ req[o].at = "opening"
  /\ upstream' = [upstream EXCEPT ![o] = "done"]
  /\ req' = [req EXCEPT ![o].at = "failing"]
  /\ Publish(o, Terminal)
  /\ UNCHANGED <<registered, made>>

\* The opening takes no longer than its deadline.
OpenReturns(o) == AnsweredEarly(o) \/ OpenFails(o) \/ ForwardFrom(o)

\* Of the senders, those reached have the event; the others are gone or slow.
Hears(o, reached, senders) ==
  req' = [r \in Requests |->
    IF r \in reached THEN [req[r] EXCEPT !.heard = Append(@, forwarder[o].event)]
    ELSE [req[r] EXCEPT !.slow = @ \/ (r \in senders /\ Receiving(r))]]

\* Mutant of SendOwner: the owner's response is awaited for as long as it takes.
SendOwnerForever(o) ==
  /\ forwarder[o].at = "owner"
  /\ o \in forwarder[o].to /\ Receiving(o) => HasRoom(o)
  /\ forwarder' = [forwarder EXCEPT ![o].at = "retries"]
  /\ Hears(o, {r \in forwarder[o].to \cap {o} : Receiving(r)}, {})
  /\ UNCHANGED <<registered, entry, upstream, made>>

\* The owner's response is awaited for OWNER_SEND_TIMEOUT.
SendOwner(o) ==
  LET reached == {r \in forwarder[o].to \cap {o} : Receiving(r) /\ HasRoom(r)} IN
  /\ forwarder[o].at = "owner"
  /\ forwarder' = [forwarder EXCEPT ![o].at = "retries",
                                    ![o].failed = (forwarder[o].to \cap {o}) \ reached]
  /\ Hears(o, reached, forwarder[o].to \cap {o})
  /\ UNCHANGED <<registered, entry, upstream, made>>

\* Mutant of Retries: whoever subscribes now.
RetriesNow(o) == entry[o].subscribers \ {o}

Retries(o) == forwarder[o].to \ {o}

\* try_send: the others get it at once or not at all.
SendRetries(o) ==
  LET reached == {r \in Retries(o) : Receiving(r) /\ HasRoom(r)} IN
  /\ forwarder[o].at = "retries"
  /\ forwarder' = [forwarder EXCEPT ![o].at = "retain", ![o].failed = @ \cup (Retries(o) \ reached)]
  /\ Hears(o, reached, Retries(o))
  /\ UNCHANGED <<registered, entry, upstream, made>>

\* Those that came after the snapshot have the event from the replay.
Retain(o) ==
  /\ forwarder[o].at = "retain"
  /\ entry' = [entry EXCEPT ![o].subscribers = {r \in @ \ forwarder[o].failed : Receiving(r)}]
  /\ forwarder' = [forwarder EXCEPT ![o] = Idle]
  /\ UNCHANGED <<registered, upstream, made, req>>

\* finish, once nobody can send another event.
Finish(o) ==
  /\ entry[o].life = "live" /\ upstream[o] = "done" /\ forwarder[o].at = "idle"
  /\ entry' = [entry EXCEPT ![o].life = "finished", ![o].subscribers = {}]
  /\ req' = [req EXCEPT ![o] = IF req[o].at = "failing" THEN Over ELSE @]
  /\ UNCHANGED <<registered, forwarder, upstream, made>>

Forward(o) == SendOwner(o) \/ SendRetries(o) \/ Retain(o) \/ Finish(o)

-----------------------------------------------------------------------------
(* The clients, and time.                                                   *)

\* A response takes its next event and is complete with the terminal one.
Read(r) ==
  /\ req[r].at = "attached" /\ req[r].read < Len(req[r].heard)
  /\ req' = [req EXCEPT ![r] = IF req[r].heard[req[r].read + 1] = Terminal THEN Over
                              ELSE [req[r] EXCEPT !.read = @ + 1]]
  /\ UNCHANGED <<registered, entry, forwarder, upstream, made>>

\* A response whose channel is closed ends with what it has.
EndOfEvents(r) ==
  /\ req[r].at = "attached" /\ req[r].read = Len(req[r].heard) /\ ~Open(r)
  /\ req' = [req EXCEPT ![r] = Over]
  /\ UNCHANGED <<registered, entry, forwarder, upstream, made>>

\* The client goes away; the future of an owner that is opening goes with it.
Leave(r) ==
  /\ Receiving(r)
  /\ IF req[r].at = "attached"
     THEN /\ req' = [req EXCEPT ![r] = Over]
          /\ UNCHANGED <<entry, forwarder, upstream>>
     ELSE Abandon(r)
  /\ UNCHANGED <<registered, made>>

\* terminal_replay_ttl: the next admission forgets the entry, whatever it holds.
Age(o) ==
  /\ entry[o].life = "finished"
  /\ entry' = [entry EXCEPT ![o] = Empty("aged")]
  /\ UNCHANGED <<registered, forwarder, upstream, made, req>>

Next ==
  \E r \in Requests :
    \/ Admit(r) \/ OpenReturns(r)
    \/ Emit(r) \/ DriverLeaves(r) \/ Forward(r)
    \/ Read(r) \/ EndOfEvents(r) \/ Leave(r) \/ Age(r)

Spec == Init /\ [][Next]_vars

\* Openings and drivers have deadlines and a forwarder is never kept waiting;
\* no client has to read or to go.
FairSpec ==
  Spec /\ \A o \in Requests :
    WF_vars(OpenReturns(o)) /\ WF_vars(Emit(o) \/ DriverLeaves(o)) /\ WF_vars(Forward(o))

-----------------------------------------------------------------------------
(* Properties.                                                              *)

\* The replay, the queues and the fan-out keep their bounds, and a sender in a
\* snapshot is one of the operation.
TypeOK ==
  /\ registered \in Requests \cup {None}
  /\ \A o \in Requests : entry[o] \in Entry
  /\ \A o \in Requests : forwarder[o] \in Forwarder
  /\ upstream \in [Requests -> {"none", "opening", "driving", "done"}]
  /\ made \in [Requests -> 0..MaxEvents]
  /\ \A r \in Requests : req[r] \in Request
  /\ \A r \in Requests : Len(req[r].heard) - req[r].read <= MaxQueue
  /\ \A o \in Requests : Cardinality(entry[o].subscribers) <= SubscriberLimit

\* "This registry gives a stable client operation one owner": however requests
\* come, go and find an operation over, one invocation of it is alive at most.
OneInvocation ==
  Cardinality({o \in Requests : upstream[o] \in {"opening", "driving"}}) <= 1

HasTerminal(r) == Terminal \in {req[r].heard[i] : i \in DOMAIN req[r].heard}

\* What a response is given are the events of one invocation from its first, each
\* once and in order, and the terminal one only after all others, whether they
\* came from the replay or as they happened.  A response that ends without it
\* did not read, or the owner's client went away.
AnswersFaithful ==
  \A r \in Requests :
    LET heard == req[r].heard  o == req[r].of IN
    /\ \A i \in DOMAIN heard : heard[i] = i \/ (heard[i] = Terminal /\ i = Len(heard) /\ i = made[o] + 1)
    /\ req[r].at = "attached" /\ ~Open(r) /\ ~HasTerminal(r)
         => req[r].slow \/ req[o].at = "over"

\* Every response ends, also one behind an owner that stopped reading: it has the
\* whole answer, or its channel is closed.
ResponsesEnd ==
  \A r \in Requests : req[r].at = "attached" ~> req[r].at # "attached" \/ ~Open(r)

\* sand_operation.rs:210: "Replaying a truncated prefix would turn an ordinary
\* transport retry into a syntactically valid but semantically partial Claude
\* answer": what a request gets from an operation that is over is whole.
ReplayIsWhole ==
  \A r \in Requests : req[r].late => HasTerminal(r)
=============================================================================
