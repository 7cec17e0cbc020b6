------------------------------ MODULE LiveStart ------------------------------
(***************************************************************************)
(* A live start, from its admission to the end of its Run, as far as the    *)
(* process-wide gates and the HTTP/2 circuit are concerned                  *)
(* (src/src/providers/cursor/live.rs).                                      *)
(*                                                                         *)
(* A request takes a run permit, a start permit and a total permit, asks    *)
(* the circuit for a route, may have to probe HTTP/2 first, opens the Run   *)
(* and hands its permits to a driver.  The driver gives the start and total *)
(* permits back while the client runs tools; the request that resumes it    *)
(* brings a total permit only.  A reset stream is reopened under a permit   *)
(* of the recovery gate.                                                    *)
(*                                                                         *)
(* An action is one hold of the circuit's mutex, one semaphore operation or *)
(* one answer of the network.  Queues in front of a semaphore are not       *)
(* ordered, and a deadline may pass at any moment of a wait.  Left out: the *)
(* registry, the conversation and the frames of a Run (modules of their     *)
(* own), and the backoff between reopens.                                   *)
(***************************************************************************)
EXTENDS H2Circuit, FiniteSets

CONSTANTS
  Starts,             \* requests, each with the Run it starts
  Interactive,        \* those whose model is not in the bulk class
  MaybeSand,          \* those whose model may select the Sand client, on HTTP/2 only
  RunMax,             \* permits of LIVE_RUN_GATE
  Limit,              \* ordinary start permits
  InteractiveReserve, \* start permits for interactive starts only
  ResumeReserve,      \* total permits above all start permits
  RecoveryMax,        \* permits of LIVE_RECOVERY_OPEN_GATE
  MaxOpens            \* LIVE_RECOVERY_MAX_OPENS; bound on reopens of a Run

ASSUME LiveStartAssumption ==
  /\ IsFiniteSet(Starts) /\ Interactive \subseteq Starts /\ MaybeSand \subseteq Starts
  /\ {RunMax, Limit, RecoveryMax} \subseteq Nat \ {0}
  /\ {InteractiveReserve, ResumeReserve, MaxOpens} \subseteq Nat

VARIABLES
  free,    \* gate -> free permits
  circuit, \* PROCESS_H2_CIRCUIT
  start    \* what each request and its Run are doing

vars == <<free, circuit, start>>

Gates == {"run", "ordinary", "reserve", "total", "recovery"}

\* Mutant of Capacity: the total budget forgets the interactive reserve.
CapacityShort == [run |-> RunMax, ordinary |-> Limit, reserve |-> InteractiveReserve,
                  total |-> Limit + ResumeReserve, recovery |-> RecoveryMax]

\* LiveGenerationGate::new_with_interactive_reserve
Capacity == [run |-> RunMax, ordinary |-> Limit, reserve |-> InteractiveReserve,
             total |-> Limit + InteractiveReserve + ResumeReserve,
             recovery |-> RecoveryMax]

Queues == {"run wait", "start wait", "total wait"}
Opens == {"probing", "opening", "fallback"}
Drives == {"driving", "recovery wait", "reopening"}
Places == {"route", "opened", "done"} \cup Queues \cup Opens \cup Drives

\* held are the permits of the request or its driver, probe the id of its
\* ProcessH2ProbeGuard, epoch the one its next outcome is reported under: that
\* of the open and, once it drives, h2_epoch.  routed is the circuit's epoch
\* when its last open began, or the one that open itself started by closing the
\* breaker; the code does not keep it.  client is the request that resumes the Run.
Start == [at: Places, sand: BOOLEAN, held: SUBSET Gates, h2: BOOLEAN, probe: Nat,
          epoch: Nat, routed: Nat, opens: 0..MaxOpens,
          client: {"reading", "tools", "queued", "resuming"}]

TypeOK ==
  /\ free \in [Gates -> Nat]
  /\ circuit \in Circuit
  /\ start \in [Starts -> Start]

New == [at |-> "run wait", sand |-> FALSE, held |-> {}, h2 |-> FALSE, probe |-> 0, epoch |-> 0, routed |-> 0,
        opens |-> 0, client |-> "reading"]
Done == [New EXCEPT !.at = "done"]

Init ==
  /\ free = Capacity
  /\ circuit = Closed
  /\ \E sand \in SUBSET MaybeSand :
       start = [s \in Starts |-> [New EXCEPT !.sand = s \in sand]]

-----------------------------------------------------------------------------
(* Permits.                                                                 *)

\* Mutant of Take: the acquisition does not wait.
TakeBlindly(s, g, at) ==
  /\ free' = [free EXCEPT ![g] = @ - 1]
  /\ start' = [start EXCEPT ![s].held = @ \cup {g}, ![s].at = at]

Take(s, g, at) ==
  /\ free[g] > 0
  /\ free' = [free EXCEPT ![g] = @ - 1]
  /\ start' = [start EXCEPT ![s].held = @ \cup {g}, ![s].at = at]

\* The permits of a dropped LiveGenerationPermit go back.
GiveBack(gates) == free' = [g \in Gates |-> IF g \in gates THEN free[g] + 1 ELSE free[g]]

\* Mutant of Leave: the recovery permit of a failed reopen is forgotten.
LeaveRecovering(s, c) ==
  /\ free' = [g \in Gates |->
       free[g] + (IF g \in start[s].held \ {"recovery"} THEN 1 ELSE 0)
               + (IF g = "total" /\ start[s].client = "resuming" THEN 1 ELSE 0)]
  /\ circuit' = Released(c, start[s].probe)
  /\ start' = [start EXCEPT ![s] = Done]

\* The request or the driver returns: permits and guard are dropped.
Leave(s, c) ==
  /\ free' = [g \in Gates |->
       free[g] + (IF g \in start[s].held THEN 1 ELSE 0)
               + (IF g = "total" /\ start[s].client = "resuming" THEN 1 ELSE 0)]
  /\ circuit' = Released(c, start[s].probe)
  /\ start' = [start EXCEPT ![s] = Done]

-----------------------------------------------------------------------------
(* Admission.                                                               *)

AdmitRun(s) ==
  /\ start[s].at = "run wait"
  /\ Take(s, "run", "start wait")
  /\ UNCHANGED circuit

\* Mutant of AdmitStart: any start may fall back to the reserve.
AdmitStartAnyPool(s) ==
  /\ start[s].at = "start wait"
  /\ \/ Take(s, "ordinary", "total wait")
     \/ free["ordinary"] = 0 /\ Take(s, "reserve", "total wait")
  /\ UNCHANGED circuit

\* acquire_one, or acquire_one_of for an interactive start: the ordinary pool
\* is asked first.
AdmitStart(s) ==
  /\ start[s].at = "start wait"
  /\ \/ Take(s, "ordinary", "total wait")
     \/ /\ s \in Interactive
        /\ free["ordinary"] = 0
        /\ Take(s, "reserve", "total wait")
  /\ UNCHANGED circuit

AdmitTotal(s) ==
  /\ start[s].at = "total wait"
  /\ Take(s, "total", "route")
  /\ UNCHANGED circuit

\* The deadline passes: 503, and the permits taken so far are dropped.
TimeOut(s) ==
  /\ start[s].at \in Queues
  /\ Leave(s, circuit)

\* The start is superseded, its client disconnects, or a step between the
\* route and the open fails: the future and all it owns are dropped.
Abandon(s) ==
  /\ start[s].at \in Queues \cup Opens \cup {"route"}
  /\ Leave(s, circuit)

-----------------------------------------------------------------------------
(* Route and open.                                                          *)

Goto(s, at) == start' = [start EXCEPT ![s].at = at]

\* live_open_circuit_route_for_client
Route(s) ==
  /\ start[s].at = "route"
  /\ LET half == ~start[s].sand /\ HalfOpens(circuit)
         h2 == half \/ start[s].sand \/ ~circuit.open
     IN /\ circuit' = IF half THEN Probed(circuit) ELSE circuit
        /\ start' = [start EXCEPT ![s].at = IF half THEN "probing" ELSE "opening",
                       ![s].h2 = h2, ![s].epoch = circuit.epoch,
                       ![s].routed = circuit.epoch,
                       ![s].probe = IF half THEN circuit'.probe.id ELSE 0]
  /\ UNCHANGED free

\* probe_h2_transport answers: the owner of the lease opens on HTTP/2, any
\* other outcome drops the guard and takes HTTP/1.
ProbeAnswers(s, ok) ==
  /\ start[s].at = "probing"
  /\ LET id == start[s].probe
         tested == OnProbeTransport(circuit, id, ok)
         owner == ok /\ Owns(circuit, id, "transport")
     IN /\ circuit' = IF owner THEN tested ELSE Released(tested, id)
        /\ start' = [start EXCEPT ![s].at = "opening", ![s].h2 = owner,
                                  ![s].probe = IF owner THEN id ELSE 0]
  /\ UNCHANGED free

\* The circuit after an HTTP/2 open: Sand takes no part in it.
Noted(s, c) == IF start[s].sand THEN circuit ELSE c

\* open_live_transport on HTTP/2: the Run is accepted.
Accepted(s) ==
  /\ start[s].at = "opening" /\ start[s].h2
  /\ circuit' = Noted(s, OnOpenSuccess(circuit, start[s].probe))
  /\ start' = [start EXCEPT ![s].at = "opened",
                            ![s].routed = IF circuit' = circuit THEN @ ELSE circuit'.epoch]
  /\ UNCHANGED free

\* The open timed out: nothing else is tried.
OpenTimedOut(s) ==
  /\ start[s].at = "opening" /\ start[s].h2
  /\ Leave(s, Noted(s, OnH2Failure(circuit, start[s].epoch)))

\* HTTP/2 failed before Cursor took the Run: HTTP/1 is tried within the same
\* open, unless this is Sand.
Unreachable(s) ==
  /\ start[s].at = "opening" /\ start[s].h2
  /\ IF start[s].sand THEN Leave(s, circuit)
     ELSE /\ circuit' = OnProbeRunFailure(circuit, start[s].probe)
          /\ start' = [start EXCEPT ![s].at = "fallback", ![s].h2 = FALSE]
          /\ UNCHANGED free

\* Cursor refused the Run: HTTP/2 works.
Rejected(s) ==
  /\ start[s].at = "opening" /\ start[s].h2
  /\ Leave(s, Noted(s, OnOpenSuccess(circuit, start[s].probe)))

\* HTTP/1 answers, asked for by the route or as a fallback.
Http1Answers(s, ok) ==
  /\ start[s].at \in {"opening", "fallback"} /\ ~start[s].h2
  /\ IF ok THEN Goto(s, "opened") /\ UNCHANGED <<free, circuit>>
     ELSE Leave(s, circuit)

\* start_live_agent hands its permits to a driver, which reads the epoch
\* anew, and drops the guard.
Spawn(s) ==
  /\ start[s].at = "opened"
  /\ circuit' = Released(circuit, start[s].probe)
  /\ start' = [start EXCEPT ![s].at = "driving", ![s].probe = 0,
                            ![s].epoch = IF start[s].h2 THEN circuit.epoch ELSE 0]
  /\ UNCHANGED free

-----------------------------------------------------------------------------
(* The Run.                                                                 *)

\* release_generation gives these back.
BetweenSegments == {"ordinary", "reserve", "total"}

\* A tool batch was exposed: the client runs its tools.
Pause(s) ==
  /\ start[s].at = "driving" /\ start[s].client = "reading"
  /\ GiveBack(start[s].held \cap BetweenSegments)
  /\ start' = [start EXCEPT ![s].held = @ \ BetweenSegments, ![s].client = "tools"]
  /\ UNCHANGED circuit

BringResults(s) ==
  /\ start[s].at \in Drives /\ start[s].client = "tools"
  /\ start' = [start EXCEPT ![s].client = "queued"]
  /\ UNCHANGED <<free, circuit>>

\* acquire_resume: resumes pass by the start gates.
AdmitResume(s) ==
  /\ start[s].client = "queued"
  /\ free["total"] > 0
  /\ free' = [free EXCEPT !["total"] = @ - 1]
  /\ start' = [start EXCEPT ![s].client = "resuming"]
  /\ UNCHANGED circuit

\* No permit in time, or the client leaves, before the driver takes the batch.
DropResume(s) ==
  /\ start[s].client \in {"queued", "resuming"}
  /\ GiveBack(IF start[s].client = "resuming" THEN {"total"} ELSE {})
  /\ start' = [start EXCEPT ![s].client = "tools"]
  /\ UNCHANGED circuit

\* replace_generation: the driver owns the permit of the resume, and drops
\* what it still had.
Resume(s) ==
  /\ start[s].at = "driving" /\ start[s].client = "resuming"
  /\ GiveBack(start[s].held \cap BetweenSegments)
  /\ start' = [start EXCEPT ![s].held = (@ \ BetweenSegments) \cup {"total"},
                            ![s].client = "reading"]
  /\ UNCHANGED circuit

\* prepare_live_reconnect after a lost stream.  A reset, or a second loss in a
\* row without a chunk in between, moves an HTTP/2 Run to HTTP/1 and is noted;
\* Sand stays on HTTP/2.
LoseStream(s, moves) ==
  /\ start[s].at = "driving"
  /\ start[s].opens < MaxOpens
  /\ moves => start[s].h2 /\ ~start[s].sand
  /\ circuit' = IF moves THEN OnH2Failure(circuit, start[s].epoch) ELSE circuit
  /\ start' = [start EXCEPT ![s].at = "recovery wait", ![s].opens = @ + 1,
                            ![s].h2 = @ /\ ~moves, ![s].epoch = 0]
  /\ UNCHANGED free

\* try_live_reconnect: a reopen asks for no route; it reads the epoch a timeout
\* of it is reported under.
AdmitRecovery(s) ==
  /\ start[s].at = "recovery wait" /\ free["recovery"] > 0
  /\ free' = [free EXCEPT !["recovery"] = @ - 1]
  /\ start' = [start EXCEPT ![s].at = "reopening", ![s].held = @ \cup {"recovery"},
                            ![s].epoch = circuit.epoch, ![s].routed = circuit.epoch]
  /\ UNCHANGED circuit

\* A reopen on HTTP/1 that failed before it connected is tried on HTTP/2.
ReopensOn(s) == IF start[s].h2 THEN {TRUE} ELSE BOOLEAN

\* The reopen is accepted, and h2_epoch read again.
Reopen(s) ==
  /\ start[s].at = "reopening"
  /\ free' = [free EXCEPT !["recovery"] = @ + 1]
  /\ \E h2 \in ReopensOn(s) :
       start' = [start EXCEPT ![s].at = "driving", ![s].held = @ \ {"recovery"},
                              ![s].h2 = h2, ![s].epoch = IF h2 THEN circuit.epoch ELSE 0]
  /\ UNCHANGED circuit

\* The reopen timed out on HTTP/2: acceptance is ambiguous and the Run ends.
ReopenTimedOut(s) ==
  /\ start[s].at = "reopening" /\ TRUE \in ReopensOn(s)
  /\ Leave(s, Noted(s, OnH2Failure(circuit, start[s].epoch)))

\* Another failure is retried, on the transport live_reconnect_on_open_error
\* picks.
ReopenFailed(s) ==
  /\ start[s].at = "reopening"
  /\ start[s].opens < MaxOpens
  /\ free' = [free EXCEPT !["recovery"] = @ + 1]
  /\ \E h2 \in IF start[s].sand THEN {TRUE} ELSE BOOLEAN :
       start' = [start EXCEPT ![s].at = "recovery wait", ![s].held = @ \ {"recovery"},
                              ![s].opens = @ + 1, ![s].h2 = h2, ![s].epoch = 0]
  /\ UNCHANGED circuit

\* The Run ends: completed, failed, cancelled or out of time.
End(s) ==
  /\ start[s].at \in Drives
  /\ Leave(s, circuit)

-----------------------------------------------------------------------------
\* TRANSPORT_BREAKER_COOLDOWN passes.
Cool ==
  /\ circuit.open /\ ~circuit.cooled
  /\ circuit' = [circuit EXCEPT !.cooled = TRUE]
  /\ UNCHANGED <<free, start>>

Opening(s) ==
  \/ \E ok \in BOOLEAN : ProbeAnswers(s, ok) \/ Http1Answers(s, ok)
  \/ Accepted(s) \/ OpenTimedOut(s) \/ Unreachable(s) \/ Rejected(s)

Recovering(s) ==
  AdmitRecovery(s) \/ Reopen(s) \/ ReopenTimedOut(s) \/ ReopenFailed(s)

Next ==
  \/ Cool
  \/ \E s \in Starts :
       \/ AdmitRun(s) \/ AdmitStart(s) \/ AdmitTotal(s)
       \/ TimeOut(s) \/ Abandon(s)
       \/ Route(s) \/ Opening(s) \/ Spawn(s)
       \/ Pause(s) \/ BringResults(s) \/ AdmitResume(s) \/ DropResume(s) \/ Resume(s)
       \/ \E moves \in BOOLEAN : LoseStream(s, moves)
       \/ Recovering(s)
       \/ End(s)

Spec == Init /\ [][Next]_vars

-----------------------------------------------------------------------------
(* Properties.                                                              *)

\* The total permit of a resume counts from its admission on.
Holders(g) ==
  Cardinality({s \in Starts : g \in start[s].held})
    + (IF g = "total" THEN Cardinality({s \in Starts : start[s].client = "resuming"}) ELSE 0)

\* Every permit is free or held once: an admission that times out between two
\* stages, a superseded start, a Run that fails while reopening and a resume
\* the driver never takes leak none, and none is given back twice.
PermitsConserved == \A g \in Gates : free[g] + Holders(g) = Capacity[g]

\* Runs on a resume's total permit, that is, without a start permit.
Resumed ==
  {s \in Starts : "total" \in start[s].held /\ start[s].held \cap {"ordinary", "reserve"} = {}}
    \cup {s \in Starts : start[s].client = "resuming"}

\* "resumes ... always find resume_reserve headroom inside total": no number
\* of starts, bulk or interactive, takes the total permits kept for resumes.
ResumeHeadroom ==
  Cardinality(Resumed) < ResumeReserve => free["total"] > 0

\* A start that got its start permit is not held up at the second stage by
\* other starts, but only by more resumes than the reserve was made for.
SecondStageOpen ==
  Cardinality(Resumed) <= ResumeReserve =>
    \A s \in Starts : start[s].at = "total wait" => free["total"] > 0

\* Bulk starts never hold a permit of the interactive reserve, so an arriving
\* interactive start finds one unless interactive starts hold them all.
BulkheadHolds ==
  \A s \in Starts : start[s].at = "start wait" /\ s \in Interactive =>
    \/ free["ordinary"] + free["reserve"] > 0
    \/ Cardinality({x \in Interactive : "reserve" \in start[x].held}) = InteractiveReserve

\* No permit is lost, and whatever mix of starts and resumes holds them, each
\* kind finds what is kept for it.
PermitsHold == PermitsConserved /\ ResumeHeadroom /\ SecondStageOpen /\ BulkheadHolds

\* A lease is always in the hands of a start under way: however that start
\* ends, HTTP/2 is not locked out by a lease nobody will give back.
ProbeOwned ==
  circuit.probe # NoProbe =>
    \E s \in Starts : start[s].probe = circuit.probe.id /\ start[s].at \in Opens \cup {"opened"}

\* While the breaker is open, of the opens routed since only the owner of the
\* lease sends a Run over HTTP/2, and only after its transport probe answered.
OneHalfOpen ==
  circuit.open =>
    \A s \in Starts :
      ~start[s].sand /\ start[s].at = "opening" /\ start[s].h2 /\ start[s].epoch = circuit.epoch =>
        Owns(circuit, start[s].probe, "run")

\* At most one start tries HTTP/2 while the breaker is half open, and its lease
\* ends with it.
HalfOpenExclusive == ProbeOwned /\ OneHalfOpen

\* The breaker closes only when a Run that its lease covers is answered by
\* Cursor over HTTP/2: a late success of an older probe or a plain open does not
\* close it.
ClosedByOwnRun ==
  [][circuit.open /\ ~circuit'.open =>
       \E s \in Starts :
         /\ start[s].at = "opening" /\ start[s].h2 /\ start'[s].at # "opening"
         /\ start[s].epoch = circuit.epoch /\ circuit.probe.id = start[s].probe]_vars

\* The open that trips a closed breaker began after its last recovery.
TrippedByFreshOpen ==
  [][~circuit.open /\ circuit'.open =>
       \A s \in Starts :
         start[s].at \in {"opening", "reopening"} /\ start'[s].at \in {"fallback", "done"} =>
           start[s].routed = circuit.epoch]_vars

\* Late evidence moves the breaker in neither direction.
BreakerFollowsEvidence == ClosedByOwnRun /\ TrippedByFreshOpen
=============================================================================
