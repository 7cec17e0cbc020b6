-------------------------- MODULE LiveStartProofs --------------------------
(***************************************************************************)
(* Proofs about LiveStart and H2Circuit, for every set of starts and every *)
(* size of the pools: the types (no gate is overdrawn), the half-open test *)
(* of HTTP/2 in the hands of one start, verdicts that rest on no late      *)
(* evidence, and permits that are neither lost nor given back twice.       *)
(***************************************************************************)
EXTENDS LiveStart, FiniteSetTheorems, TLAPS

-----------------------------------------------------------------------------
(* The circuit's operators.                                                 *)

LEMMA NoProbeType == NoProbe \in Lease
  BY DEF NoProbe, Lease

LEMMA ReopenedFields ==
  ASSUME NEW c \in Circuit
  PROVE  /\ Reopened(c) \in Circuit /\ Reopened(c).epoch = c.epoch + 1
         /\ Reopened(c).probe = NoProbe /\ Reopened(c).ids = c.ids /\ Reopened(c).open
<1> DEFINE e == c.epoch + 1
<1>1. e \in Nat /\ Reopened(c) = [c EXCEPT !.open = TRUE, !.cooled = FALSE, !.epoch = e, !.probe = NoProbe]
  BY DEF Circuit, Reopened
<1> HIDE DEF e
<1>2. /\ Reopened(c) \in Circuit /\ Reopened(c).epoch = e /\ Reopened(c).probe = NoProbe
      /\ Reopened(c).ids = c.ids /\ Reopened(c).open
  BY <1>1, NoProbeType DEF Circuit
<1> QED
  BY <1>2 DEF e

LEMMA RecoveredFields ==
  ASSUME NEW c \in Circuit
  PROVE  /\ Recovered(c) \in Circuit /\ Recovered(c).epoch = c.epoch + 1
         /\ Recovered(c).probe = NoProbe /\ Recovered(c).ids = c.ids /\ ~Recovered(c).open
<1> DEFINE e == c.epoch + 1
<1>1. e \in Nat /\ Recovered(c) = [c EXCEPT !.open = FALSE, !.cooled = FALSE, !.epoch = e, !.probe = NoProbe]
  BY DEF Circuit, Recovered
<1> HIDE DEF e
<1>2. /\ Recovered(c) \in Circuit /\ Recovered(c).epoch = e /\ Recovered(c).probe = NoProbe
      /\ Recovered(c).ids = c.ids /\ ~Recovered(c).open
  BY <1>1, NoProbeType DEF Circuit
<1> QED
  BY <1>2 DEF e

LEMMA ProbedFields ==
  ASSUME NEW c \in Circuit
  PROVE  /\ Probed(c) \in Circuit /\ Probed(c).epoch = c.epoch /\ Probed(c).open = c.open
         /\ Probed(c).probe = [id |-> c.ids + 1, phase |-> "transport"]
         /\ Probed(c).ids = c.ids + 1
<1> DEFINE e == c.ids + 1
           p == [id |-> e, phase |-> "transport"]
<1>1. e \in Nat /\ p \in Lease /\ Probed(c) = [c EXCEPT !.ids = e, !.probe = p]
  BY DEF Circuit, Probed, Lease
<1> HIDE DEF e, p
<1>2. /\ Probed(c) \in Circuit /\ Probed(c).epoch = c.epoch /\ Probed(c).open = c.open
      /\ Probed(c).probe = p /\ Probed(c).ids = e
  BY <1>1 DEF Circuit
<1> QED
  BY <1>2 DEF e, p

LEMMA ReleasedFields ==
  ASSUME NEW c \in Circuit, NEW id \in Nat
  PROVE  /\ Released(c, id) \in Circuit /\ Released(c, id).epoch = c.epoch
         /\ Released(c, id).open = c.open /\ Released(c, id).ids = c.ids
         /\ Released(c, id).probe = IF id # 0 /\ c.probe.id = id THEN NoProbe ELSE c.probe
<1>1. CASE id # 0 /\ c.probe.id = id
  <2>1. Released(c, id) = [c EXCEPT !.probe = NoProbe]
    BY <1>1 DEF Released
  <2> QED
    BY <1>1, <2>1, NoProbeType DEF Circuit
<1>2. CASE ~(id # 0 /\ c.probe.id = id)
  BY <1>2 DEF Released
<1> QED
  BY <1>1, <1>2

\* A lease that passed its transport test goes on to the Run.
LEMMA TestedFields ==
  ASSUME NEW c \in Circuit, NEW id \in Nat, Owns(c, id, "transport")
  PROVE  LET d == OnProbeTransport(c, id, TRUE) IN
         /\ d \in Circuit /\ d.epoch = c.epoch /\ d.open = c.open /\ d.ids = c.ids
         /\ d.probe = [id |-> id, phase |-> "run"]
<1> DEFINE p == [id |-> id, phase |-> "run"]
<1>1. OnProbeTransport(c, id, TRUE) = [c EXCEPT !.probe = [c.probe EXCEPT !.phase = "run"]]
  BY DEF OnProbeTransport
<1>2. p \in Lease /\ [c.probe EXCEPT !.phase = "run"] = p
  BY DEF Owns, Lease
<1> HIDE DEF p
<1>3. LET d == OnProbeTransport(c, id, TRUE) IN
      /\ d \in Circuit /\ d.epoch = c.epoch /\ d.open = c.open /\ d.ids = c.ids /\ d.probe = p
  BY <1>1, <1>2 DEF Circuit
<1> QED
  BY <1>3 DEF p

\* Every verdict ends an epoch and the lease with it.
Turned(c, d) == d.epoch = c.epoch + 1 /\ d.probe = NoProbe /\ d.ids = c.ids

LEMMA Verdicts ==
  ASSUME NEW c \in Circuit, NEW id \in Nat, NEW epoch \in Nat
  PROVE  \A d \in {OnH2Failure(c, epoch), OnOpenSuccess(c, id), OnProbeRunFailure(c, id)} :
           d \in Circuit /\ (d = c \/ Turned(c, d))
  BY ReopenedFields, RecoveredFields DEF OnH2Failure, OnOpenSuccess, OnProbeRunFailure, Turned

-----------------------------------------------------------------------------
(* The inductive invariant.                                                 *)

UnderWay == Opens \cup {"opened"}

\* A lease exists while the breaker is open, and its id was handed out.
LeaseIsOpen(c) == c.probe = NoProbe \/ (c.open /\ c.probe.id # 0 /\ c.probe.id <= c.ids)

\* A guard is held by a start under way, and no two have the same id.
GuardsAreOwn ==
  /\ \A s \in Starts : start[s].probe # 0 =>
       start[s].at \in UnderWay /\ start[s].probe <= circuit.ids
  /\ \A s, t \in Starts : start[s].probe = start[t].probe /\ start[s].probe # 0 => s = t

\* An open was routed in this epoch or an earlier one.
RoutesAreOld ==
  \A s \in Starts : start[s].at \in {"probing", "opening"} => start[s].epoch <= circuit.epoch

IInv == LeaseIsOpen(circuit) /\ GuardsAreOwn /\ RoutesAreOld /\ ProbeOwned /\ OneHalfOpen

\* Is an open of a start over HTTP/2 the half-open test, if there is one?
Tests(n, c) ==
  c.open /\ ~n.sand /\ n.at = "opening" /\ n.h2 /\ n.epoch = c.epoch => Owns(c, n.probe, "run")

\* A step of one start s, to n, that takes no other start's lease away.
LEMMA StepOfOne ==
  ASSUME TypeOK, IInv, NEW s \in Starts, NEW n \in Start,
         start' = [start EXCEPT ![s] = n],
         free' \in [Gates -> Nat], circuit' \in Circuit,
         LeaseIsOpen(circuit'), circuit.ids <= circuit'.ids,
         circuit'.epoch = circuit.epoch \/ circuit'.epoch = circuit.epoch + 1,
         circuit'.open /\ circuit'.epoch = circuit.epoch =>
           /\ circuit.open
           /\ \A id \in Nat \ {start[s].probe} : Owns(circuit, id, "run") => Owns(circuit', id, "run"),
         circuit'.probe # NoProbe =>
           \/ circuit'.probe.id = n.probe
           \/ /\ circuit.probe # NoProbe /\ circuit'.probe.id = circuit.probe.id
              /\ circuit.probe.id # start[s].probe,
         n.probe # 0 => /\ n.at \in UnderWay /\ n.probe <= circuit'.ids
                        /\ n.probe = start[s].probe \/ n.probe > circuit.ids,
         n.at \in {"probing", "opening"} => n.epoch <= circuit'.epoch,
         Tests(n, circuit')
  PROVE  TypeOK' /\ IInv'
<1>1. start'[s] = n /\ \A t \in Starts \ {s} : start'[t] = start[t]
  BY DEF TypeOK
<1>2. TypeOK'
  BY DEF TypeOK
<1>3. /\ circuit.epoch \in Nat /\ circuit.ids \in Nat /\ circuit'.ids \in Nat /\ circuit'.epoch \in Nat
      /\ \A t \in Starts : start[t].probe \in Nat /\ start[t].epoch \in Nat
      /\ n.probe \in Nat
  BY DEF TypeOK, Circuit, Start
<1>4. GuardsAreOwn'
  <2>1. \A t \in Starts \ {s} : start[t].probe # 0 =>
          start[t].at \in UnderWay /\ start[t].probe <= circuit.ids /\ start[t].probe # n.probe
    BY <1>3 DEF IInv, GuardsAreOwn
  <2>2. \A t \in Starts : start'[t].probe # 0 =>
          start'[t].at \in UnderWay /\ start'[t].probe <= circuit'.ids
    BY <1>1, <1>3, <2>1
  <2>3. \A t, u \in Starts : start'[t].probe = start'[u].probe /\ start'[t].probe # 0 => t = u
    BY <1>1, <2>1 DEF IInv, GuardsAreOwn
  <2> QED
    BY <2>2, <2>3 DEF GuardsAreOwn, UnderWay
<1>5. RoutesAreOld'
  BY <1>1, <1>3 DEF IInv, RoutesAreOld
<1>6. ProbeOwned'
  <2> SUFFICES ASSUME circuit'.probe # NoProbe
               PROVE  \E t \in Starts : start'[t].probe = circuit'.probe.id /\ start'[t].at \in UnderWay
    BY DEF ProbeOwned, UnderWay
  <2>1. CASE circuit'.probe.id = n.probe
    BY <1>1, <2>1 DEF LeaseIsOpen
  <2>2. CASE /\ circuit.probe # NoProbe /\ circuit'.probe.id = circuit.probe.id
             /\ circuit.probe.id # start[s].probe
    <3>1. PICK t \in Starts : start[t].probe = circuit.probe.id /\ start[t].at \in UnderWay
      BY <2>2 DEF IInv, ProbeOwned, UnderWay
    <3> QED
      BY <1>1, <2>2, <3>1
  <2> QED
    BY <2>1, <2>2
<1>7. OneHalfOpen'
  <2> SUFFICES ASSUME circuit'.open, NEW t \in Starts, ~start'[t].sand, start'[t].at = "opening",
                      start'[t].h2, start'[t].epoch = circuit'.epoch
               PROVE  Owns(circuit', start'[t].probe, "run")
    BY DEF OneHalfOpen
  <2>1. CASE t = s
    BY <1>1, <2>1 DEF Tests
  <2>2. CASE t # s
    <3>1. start'[t] = start[t]
      BY <1>1, <2>2
    <3>2. circuit'.epoch = circuit.epoch
      BY <1>3, <3>1 DEF IInv, RoutesAreOld
    <3>3. Owns(circuit, start[t].probe, "run")
      BY <3>1, <3>2 DEF IInv, OneHalfOpen
    <3>4. start[t].probe # start[s].probe
      BY <2>2, <3>3 DEF Owns, IInv, GuardsAreOwn
    <3> QED
      BY <1>3, <3>1, <3>2, <3>3, <3>4
  <2> QED
    BY <2>1, <2>2
<1> QED
  BY <1>2, <1>4, <1>5, <1>6, <1>7 DEF IInv

LEMMA DoneFields == New \in Start /\ Done \in Start /\ New.at = "run wait" /\ Done.at = "done" /\ New.probe = 0 /\ Done.probe = 0
<1>1. New \in Start /\ New.at = "run wait" /\ New.probe = 0
  BY LiveStartAssumption DEF New, Start, Places, Queues
<1> QED
  BY <1>1 DEF Done, Start, Places

\* The guard of s is dropped, perhaps after a verdict.
LEMMA GuardGoes ==
  ASSUME TypeOK, IInv, NEW s \in Starts, NEW n \in Start, NEW c \in Circuit,
         c = circuit \/ Turned(circuit, c), circuit' = Released(c, start[s].probe),
         start' = [start EXCEPT ![s] = n], free' \in [Gates -> Nat],
         n.probe = 0, n.at = "opening" => ~n.h2,
         n.at \in {"probing", "opening"} => n.epoch <= circuit.epoch
  PROVE  TypeOK' /\ IInv'
<1> DEFINE id == start[s].probe
<1>1. /\ id \in Nat /\ circuit \in Circuit /\ circuit.epoch \in Nat /\ circuit.ids \in Nat
      /\ n.epoch \in Nat
  BY DEF TypeOK, Start, Circuit
<1>2. /\ circuit' \in Circuit /\ circuit'.epoch = c.epoch /\ circuit'.open = c.open /\ circuit'.ids = c.ids
      /\ circuit'.probe = IF id # 0 /\ c.probe.id = id THEN NoProbe ELSE c.probe
  BY <1>1, ReleasedFields
<1> HIDE DEF id
<1>3. LeaseIsOpen(circuit')
  BY <1>2 DEF IInv, LeaseIsOpen, Turned
<1>4. circuit'.probe # NoProbe =>
        circuit.probe # NoProbe /\ circuit'.probe.id = circuit.probe.id /\ circuit.probe.id # id
  BY <1>2 DEF IInv, LeaseIsOpen, Turned
<1>5. circuit.ids <= circuit'.ids /\ (circuit'.epoch = circuit.epoch \/ circuit'.epoch = circuit.epoch + 1)
  BY <1>1, <1>2 DEF Turned
<1>6. circuit'.open /\ circuit'.epoch = circuit.epoch =>
        /\ circuit.open
        /\ \A i \in Nat \ {id} : Owns(circuit, i, "run") => Owns(circuit', i, "run")
  <2>1. CASE c = circuit
    BY <1>2, <2>1 DEF Owns
  <2>2. CASE Turned(circuit, c)
    BY <1>1, <1>2, <2>2 DEF Turned
  <2> QED
    BY <2>1, <2>2
<1>7. Tests(n, circuit')
  BY DEF Tests
<1>8. n.at \in {"probing", "opening"} => n.epoch <= circuit'.epoch
  BY <1>1, <1>5
<1> QED
  BY <1>2, <1>3, <1>4, <1>5, <1>6, <1>7, <1>8, StepOfOne DEF id

\* Whoever returns gives its permits and its guard back.
LEMMA LeaveKeeps ==
  ASSUME TypeOK, IInv, NEW s \in Starts, NEW c \in Circuit, c = circuit \/ Turned(circuit, c), Leave(s, c)
  PROVE  TypeOK' /\ IInv'
<1>1. free' \in [Gates -> Nat] /\ start' = [start EXCEPT ![s] = Done]
  BY DEF Leave, TypeOK
<1> QED
  BY <1>1, GuardGoes, DoneFields DEF Leave

\* A verdict while the guard stays.
LEMMA VerdictKeeps ==
  ASSUME TypeOK, IInv, NEW s \in Starts, NEW n \in Start, circuit' \in Circuit,
         circuit' = circuit \/ Turned(circuit, circuit'),
         start' = [start EXCEPT ![s] = n], free' \in [Gates -> Nat],
         n.probe = start[s].probe, n.probe # 0 => n.at \in UnderWay,
         n.at \notin {"probing", "opening"}
  PROVE  TypeOK' /\ IInv'
<1>1. /\ circuit.epoch \in Nat /\ circuit.ids \in Nat
      /\ circuit.ids <= circuit'.ids
      /\ circuit'.epoch = circuit.epoch \/ circuit'.epoch = circuit.epoch + 1
  BY DEF TypeOK, Circuit, Turned
<1>2. LeaseIsOpen(circuit') /\ Tests(n, circuit')
  BY DEF IInv, LeaseIsOpen, Turned, Tests
<1>3. n.probe # 0 => n.probe <= circuit'.ids
  BY DEF IInv, GuardsAreOwn, Turned
<1>4. circuit'.open /\ circuit'.epoch = circuit.epoch => circuit' = circuit
  BY <1>1 DEF Turned
<1>5. circuit'.probe # NoProbe => circuit' = circuit
  BY DEF Turned
<1>6. circuit'.open /\ circuit'.epoch = circuit.epoch =>
        /\ circuit.open
        /\ \A id \in Nat \ {start[s].probe} : Owns(circuit, id, "run") => Owns(circuit', id, "run")
  BY <1>4
<1> QED
  BY <1>1, <1>2, <1>3, <1>5, <1>6, StepOfOne

LEMMA InPlaces ==
  /\ "probing" \in Places /\ "opening" \in Places /\ "fallback" \in Places /\ "opened" \in Places
  /\ "driving" \in Places /\ "recovery wait" \in Places /\ "reopening" \in Places
  BY DEF Places, Opens, Drives

\* A step that leaves the circuit alone.
LEMMA PlainKeeps ==
  ASSUME TypeOK, IInv, NEW s \in Starts, NEW n \in Start,
         start' = [start EXCEPT ![s] = n], free' \in [Gates -> Nat], circuit' = circuit,
         n.probe = start[s].probe, n.probe # 0 => n.at \in UnderWay,
         \/ n.at \notin {"probing", "opening"}
         \/ /\ n.at = start[s].at /\ n.sand = start[s].sand
            /\ n.h2 = start[s].h2 /\ n.epoch = start[s].epoch
  PROVE  TypeOK' /\ IInv'
<1>1. circuit.epoch \in Nat /\ circuit.ids \in Nat /\ circuit' \in Circuit /\ LeaseIsOpen(circuit')
  BY DEF TypeOK, Circuit, IInv
<1>2. n.probe # 0 => n.probe <= circuit.ids
  BY DEF IInv, GuardsAreOwn
<1>3. n.at \in {"probing", "opening"} => n.epoch <= circuit.epoch
  BY DEF IInv, RoutesAreOld
<1>4. Tests(n, circuit')
  BY DEF Tests, IInv, OneHalfOpen
<1>5. \A id \in Nat \ {start[s].probe} : Owns(circuit, id, "run") => Owns(circuit', id, "run")
  OBVIOUS
<1>6. circuit.ids <= circuit'.ids /\ circuit'.epoch = circuit.epoch
  BY <1>1
<1>7. n.probe # 0 => n.probe <= circuit'.ids
  BY <1>2
<1>8. n.at \in {"probing", "opening"} => n.epoch <= circuit'.epoch
  BY <1>3
<1> QED
  BY <1>1, <1>4, <1>5, <1>6, <1>7, <1>8, StepOfOne

\* Nobody but a start under way has a guard.
LEMMA IdleHasNoGuard ==
  ASSUME TypeOK, IInv, NEW s \in Starts, start[s].at \notin UnderWay
  PROVE  start[s].probe = 0
  BY DEF IInv, GuardsAreOwn

LEMMA InitInvariant == Init => TypeOK /\ IInv
<1> SUFFICES ASSUME Init
             PROVE  TypeOK /\ IInv
  OBVIOUS
<1>1. PICK sand \in SUBSET MaybeSand : start = [s \in Starts |-> [New EXCEPT !.sand = s \in sand]]
  BY DEF Init
<1>2. /\ start \in [Starts -> Start]
      /\ \A s \in Starts : start[s].at = "run wait" /\ start[s].probe = 0
  <2> DEFINE n(b) == [New EXCEPT !.sand = b]
  <2>1. \A b \in BOOLEAN : n(b) \in Start /\ n(b).at = "run wait" /\ n(b).probe = 0
    BY DoneFields DEF Start
  <2>2. start = [s \in Starts |-> n(s \in sand)]
    BY <1>1
  <2> HIDE DEF n
  <2>3. \A s \in Starts : (s \in sand) \in BOOLEAN
    OBVIOUS
  <2>4. \A s \in Starts : n(s \in sand) \in Start /\ n(s \in sand).at = "run wait" /\ n(s \in sand).probe = 0
    BY <2>1, <2>3
  <2> QED
    BY <2>2, <2>4
<1>3. Capacity \in [Gates -> Nat]
  BY LiveStartAssumption DEF Capacity, Gates
<1>4. Closed \in Circuit /\ Closed.probe = NoProbe /\ ~Closed.open
  BY NoProbeType DEF Closed, Circuit
<1>5. TypeOK
  BY <1>2, <1>3, <1>4 DEF TypeOK, Init
<1>6. circuit.probe = NoProbe /\ ~circuit.open
  BY <1>4 DEF Init
<1>7. LeaseIsOpen(circuit) /\ GuardsAreOwn /\ RoutesAreOld /\ ProbeOwned /\ OneHalfOpen
  BY <1>2, <1>6 DEF LeaseIsOpen, GuardsAreOwn, RoutesAreOld, ProbeOwned, OneHalfOpen
<1> QED
  BY <1>5, <1>7 DEF IInv

-----------------------------------------------------------------------------
(* The actions that leave the circuit alone.                                *)

LEMMA TakeKeeps ==
  ASSUME TypeOK, IInv, NEW s \in Starts, NEW g \in Gates,
         NEW at \in Places \ {"probing", "opening"}, start[s].at \in Queues,
         Take(s, g, at), circuit' = circuit
  PROVE  TypeOK' /\ IInv'
<1> DEFINE n == [start[s] EXCEPT !.held = start[s].held \cup {g}, !.at = at]
<1>1. n \in Start /\ n.probe = start[s].probe /\ n.at = at
  BY DEF TypeOK, Start
<1>2. start' = [start EXCEPT ![s] = n]
  BY DEF Take, TypeOK, Start
<1>3. free' \in [Gates -> Nat]
  BY DEF Take, TypeOK
<1>4. start[s].probe = 0
  BY IdleHasNoGuard DEF Queues, UnderWay, Opens
<1> HIDE DEF n
<1> QED
  BY <1>1, <1>2, <1>3, <1>4, PlainKeeps

\* A step of a Run or of the client that resumes it.
LEMMA RunKeeps ==
  ASSUME TypeOK, IInv, NEW s \in Starts, NEW n \in Start, start' = [start EXCEPT ![s] = n],
         free' \in [Gates -> Nat], circuit' = circuit, n.probe = start[s].probe,
         start[s].at \in Drives, n.at \in Drives
  PROVE  TypeOK' /\ IInv'
<1>1. n.at \notin {"probing", "opening"}
  BY DEF Drives
<1>2. n.probe = 0
  BY IdleHasNoGuard DEF Drives, UnderWay, Opens
<1> QED
  BY <1>1, <1>2, PlainKeeps

LEMMA ClientKeeps ==
  ASSUME TypeOK, IInv, NEW s \in Starts, NEW client \in {"reading", "tools", "queued", "resuming"},
         start' = [start EXCEPT ![s].client = client], free' \in [Gates -> Nat], circuit' = circuit
  PROVE  TypeOK' /\ IInv'
<1> DEFINE n == [start[s] EXCEPT !.client = client]
<1>1. /\ n \in Start /\ n.probe = start[s].probe /\ n.at = start[s].at /\ n.sand = start[s].sand
      /\ n.h2 = start[s].h2 /\ n.epoch = start[s].epoch
  BY DEF TypeOK, Start
<1>2. start' = [start EXCEPT ![s] = n]
  BY DEF TypeOK, Start
<1>3. start[s].probe # 0 => start[s].at \in UnderWay
  BY DEF IInv, GuardsAreOwn
<1> HIDE DEF n
<1> QED
  BY <1>1, <1>2, <1>3, PlainKeeps


LEMMA GiveBackType ==
  ASSUME TypeOK, NEW gates, GiveBack(gates)
  PROVE  free' \in [Gates -> Nat]
  BY DEF GiveBack, TypeOK

LEMMA AdmissionKeeps ==
  ASSUME TypeOK, IInv, NEW s \in Starts, AdmitRun(s) \/ AdmitStart(s) \/ AdmitTotal(s)
  PROVE  TypeOK' /\ IInv'
<1>1. {"start wait", "total wait", "route"} \subseteq Places \ {"probing", "opening"}
  BY DEF Places, Queues
<1>2. start[s].at \in Queues /\ circuit' = circuit
  BY DEF AdmitRun, AdmitStart, AdmitTotal, Queues
<1>3. \E g \in Gates, at \in {"start wait", "total wait", "route"} : Take(s, g, at)
  BY DEF AdmitRun, AdmitStart, AdmitTotal, Gates
<1> QED
  BY <1>1, <1>2, <1>3, TakeKeeps

LEMMA SegmentKeeps ==
  ASSUME TypeOK, IInv, NEW s \in Starts, Pause(s) \/ Resume(s)
  PROVE  TypeOK' /\ IInv'
<1>1. CASE Pause(s)
  <2> DEFINE n == [start[s] EXCEPT !.held = start[s].held \ BetweenSegments, !.client = "tools"]
  <2>1. n \in Start /\ n.probe = start[s].probe /\ n.at = start[s].at
    BY DEF TypeOK, Start
  <2>2. start' = [start EXCEPT ![s] = n]
    BY <1>1 DEF Pause, TypeOK, Start
  <2>3. free' \in [Gates -> Nat] /\ circuit' = circuit /\ start[s].at \in Drives
    BY <1>1, GiveBackType DEF Pause, Drives
  <2> HIDE DEF n
  <2> QED
    BY <2>1, <2>2, <2>3, RunKeeps
<1>2. CASE Resume(s)
  <2> DEFINE n == [start[s] EXCEPT !.held = (start[s].held \ BetweenSegments) \cup {"total"},
                                   !.client = "reading"]
  <2>1. n \in Start /\ n.probe = start[s].probe /\ n.at = start[s].at
    BY DEF TypeOK, Start, Gates
  <2>2. start' = [start EXCEPT ![s] = n]
    BY <1>2 DEF Resume, TypeOK, Start
  <2>3. free' \in [Gates -> Nat] /\ circuit' = circuit /\ start[s].at \in Drives
    BY <1>2, GiveBackType DEF Resume, Drives
  <2> HIDE DEF n
  <2> QED
    BY <2>1, <2>2, <2>3, RunKeeps
<1> QED
  BY <1>1, <1>2

LEMMA ResumeQueueKeeps ==
  ASSUME TypeOK, IInv, NEW s \in Starts, BringResults(s) \/ AdmitResume(s) \/ DropResume(s)
  PROVE  TypeOK' /\ IInv'
<1>1. free' \in [Gates -> Nat]
  <2>1. CASE BringResults(s)
    BY <2>1 DEF BringResults, TypeOK
  <2>2. CASE AdmitResume(s)
    BY <2>2 DEF AdmitResume, TypeOK, Gates
  <2>3. CASE DropResume(s)
    BY <2>3, GiveBackType DEF DropResume
  <2> QED
    BY <2>1, <2>2, <2>3
<1>2. circuit' = circuit /\ \E client \in {"queued", "resuming", "tools"} :
        start' = [start EXCEPT ![s].client = client]
  BY DEF BringResults, AdmitResume, DropResume
<1> QED
  BY <1>1, <1>2, ClientKeeps

LEMMA AdmitRecoveryKeeps ==
  ASSUME TypeOK, IInv, NEW s \in Starts, AdmitRecovery(s)
  PROVE  TypeOK' /\ IInv'
<1> DEFINE held == start[s].held \cup {"recovery"}
           n == [start[s] EXCEPT !.at = "reopening", !.held = held,
                                 !.epoch = circuit.epoch, !.routed = circuit.epoch]
<1>0. held \in SUBSET Gates /\ circuit.epoch \in Nat
  BY DEF TypeOK, Start, Gates, Circuit
<1>1. n \in Start /\ n.probe = start[s].probe /\ n.at = "reopening"
  <2> HIDE DEF held
  <2> QED
    BY <1>0, InPlaces DEF TypeOK, Start
<1>2. start' = [start EXCEPT ![s] = n]
  BY DEF AdmitRecovery, TypeOK, Start
<1>3. /\ free["recovery"] > 0 /\ free' = [free EXCEPT !["recovery"] = @ - 1]
      /\ circuit' = circuit /\ start[s].at \in Drives
  BY DEF AdmitRecovery, Drives
<1>4. free' \in [Gates -> Nat]
  BY <1>3 DEF TypeOK, Gates
<1> HIDE DEF n
<1> QED
  BY <1>1, <1>2, <1>3, <1>4, RunKeeps DEF Drives

LEMMA ReopenFields ==
  ASSUME TypeOK, NEW s \in Starts, Reopen(s) \/ ReopenFailed(s)
  PROVE  /\ start[s].at = "reopening" /\ circuit' = circuit
         /\ free' = [free EXCEPT !["recovery"] = @ + 1]
         /\ \E n \in Start : /\ start' = [start EXCEPT ![s] = n] /\ n.at \in {"driving", "recovery wait"}
                             /\ n.held = start[s].held \ {"recovery"}
                             /\ n.client = start[s].client /\ n.probe = start[s].probe
<1>1. CASE Reopen(s)
  <2>1. PICK h2 \in BOOLEAN : start' = [start EXCEPT ![s].at = "driving", ![s].held = @ \ {"recovery"},
                                ![s].h2 = h2, ![s].epoch = IF h2 THEN circuit.epoch ELSE 0]
    BY <1>1 DEF Reopen, ReopensOn
  <2> DEFINE e == IF h2 THEN circuit.epoch ELSE 0
             n == [start[s] EXCEPT !.at = "driving", !.held = start[s].held \ {"recovery"},
                                   !.h2 = h2, !.epoch = e]
  <2>2. e \in Nat
    BY DEF TypeOK, Circuit
  <2>3. start' = [start EXCEPT ![s] = n]
    BY <2>1 DEF TypeOK, Start
  <2> HIDE DEF e
  <2>4. /\ n \in Start /\ n.probe = start[s].probe /\ n.at = "driving" /\ n.client = start[s].client
        /\ n.held = start[s].held \ {"recovery"}
    BY <2>2, InPlaces DEF TypeOK, Start
  <2> HIDE DEF n
  <2> QED
    BY <1>1, <2>3, <2>4 DEF Reopen
<1>2. CASE ReopenFailed(s)
  <2>1. PICK h2 \in BOOLEAN : start' = [start EXCEPT ![s].at = "recovery wait", ![s].held = @ \ {"recovery"},
                                ![s].opens = @ + 1, ![s].h2 = h2, ![s].epoch = 0]
    BY <1>2 DEF ReopenFailed
  <2> DEFINE o == start[s].opens + 1
             n == [start[s] EXCEPT !.at = "recovery wait", !.held = start[s].held \ {"recovery"},
                                   !.opens = o, !.h2 = h2, !.epoch = 0]
  <2>2. o \in 0..MaxOpens
    <3>1. start[s].opens \in 0..MaxOpens /\ start[s].opens < MaxOpens /\ MaxOpens \in Nat
      BY <1>2, LiveStartAssumption DEF ReopenFailed, TypeOK, Start
    <3> QED
      BY <3>1
  <2>3. start' = [start EXCEPT ![s] = n]
    BY <2>1 DEF TypeOK, Start
  <2> HIDE DEF o
  <2>4. /\ n \in Start /\ n.probe = start[s].probe /\ n.at = "recovery wait" /\ n.client = start[s].client
        /\ n.held = start[s].held \ {"recovery"}
    BY <2>2, InPlaces DEF TypeOK, Start
  <2> HIDE DEF n
  <2> QED
    BY <1>2, <2>3, <2>4 DEF ReopenFailed
<1> QED
  BY <1>1, <1>2

LEMMA ReopenKeeps ==
  ASSUME TypeOK, IInv, NEW s \in Starts, Reopen(s) \/ ReopenFailed(s)
  PROVE  TypeOK' /\ IInv'
<1>1. free' = [free EXCEPT !["recovery"] = @ + 1] /\ circuit' = circuit /\ start[s].at \in Drives
  BY ReopenFields DEF Drives
<1>2. free' \in [Gates -> Nat]
  BY <1>1 DEF TypeOK, Gates
<1>3. PICK n \in Start : /\ start' = [start EXCEPT ![s] = n] /\ n.at \in {"driving", "recovery wait"}
                         /\ n.probe = start[s].probe
  BY ReopenFields
<1> QED
  BY <1>1, <1>2, <1>3, RunKeeps DEF Drives

-----------------------------------------------------------------------------
(* The ends of a start, and the steps that give or take the lease.          *)

LEMMA EndingKeeps ==
  ASSUME TypeOK, IInv, NEW s \in Starts,
         \/ TimeOut(s) \/ Abandon(s) \/ OpenTimedOut(s) \/ Rejected(s)
         \/ ReopenTimedOut(s) \/ End(s)
  PROVE  TypeOK' /\ IInv'
<1>1. circuit \in Circuit /\ start[s].probe \in Nat /\ start[s].epoch \in Nat
  BY DEF TypeOK, Start
<1>2. \A d \in {OnH2Failure(circuit, start[s].epoch), OnOpenSuccess(circuit, start[s].probe)} :
        Noted(s, d) \in Circuit /\ (Noted(s, d) = circuit \/ Turned(circuit, Noted(s, d)))
  BY <1>1, Verdicts DEF Noted
<1>3. PICK c \in {circuit, Noted(s, OnH2Failure(circuit, start[s].epoch)),
                  Noted(s, OnOpenSuccess(circuit, start[s].probe))} : Leave(s, c)
  BY DEF TimeOut, Abandon, OpenTimedOut, Rejected, ReopenTimedOut, End
<1> QED
  BY <1>1, <1>2, <1>3, LeaveKeeps

LEMMA Http1Keeps ==
  ASSUME TypeOK, IInv, NEW s \in Starts, NEW ok \in BOOLEAN, Http1Answers(s, ok)
  PROVE  TypeOK' /\ IInv'
<1>1. CASE ok
  <2> DEFINE n == [start[s] EXCEPT !.at = "opened"]
  <2>1. n \in Start /\ n.probe = start[s].probe /\ n.at = "opened"
    BY InPlaces DEF TypeOK, Start
  <2>2. start' = [start EXCEPT ![s] = n] /\ free' \in [Gates -> Nat] /\ circuit' = circuit
    BY <1>1 DEF Http1Answers, Goto, TypeOK, Start
  <2> HIDE DEF n
  <2> QED
    BY <2>1, <2>2, PlainKeeps DEF UnderWay
<1>2. CASE ~ok
  <2>1. Leave(s, circuit) /\ circuit \in Circuit
    BY <1>2 DEF Http1Answers, TypeOK
  <2> QED
    BY <2>1, LeaveKeeps
<1> QED
  BY <1>1, <1>2

LEMMA CoolKeeps ==
  ASSUME TypeOK, IInv, Cool
  PROVE  TypeOK' /\ IInv'
<1>1. /\ circuit' \in Circuit /\ circuit'.open = circuit.open /\ circuit'.epoch = circuit.epoch
      /\ circuit'.ids = circuit.ids /\ circuit'.probe = circuit.probe
  BY DEF Cool, TypeOK, Circuit
<1>2. free' = free /\ start' = start
  BY DEF Cool
<1> QED
  BY <1>1, <1>2 DEF TypeOK, IInv, LeaseIsOpen, GuardsAreOwn, RoutesAreOld, ProbeOwned, OneHalfOpen, Owns


LEMMA RouteKeeps ==
  ASSUME TypeOK, IInv, NEW s \in Starts, Route(s)
  PROVE  TypeOK' /\ IInv'
<1>1. start[s].probe = 0
  BY IdleHasNoGuard DEF Route, UnderWay, Opens
<1>2. free' \in [Gates -> Nat] /\ circuit \in Circuit /\ circuit.epoch \in Nat /\ circuit.ids \in Nat
  BY DEF Route, TypeOK, Circuit
<1>3. CASE ~start[s].sand /\ HalfOpens(circuit)
  <2> DEFINE i == circuit.ids + 1
             n == [start[s] EXCEPT !.at = "probing", !.h2 = TRUE, !.epoch = circuit.epoch,
                                   !.routed = circuit.epoch, !.probe = i]
  <2>1. i \in Nat /\ i > circuit.ids /\ i # 0
    BY <1>2
  <2>2. /\ circuit' = Probed(circuit) /\ circuit' \in Circuit /\ circuit'.epoch = circuit.epoch
        /\ circuit'.open = circuit.open /\ circuit'.ids = i
        /\ circuit'.probe = [id |-> i, phase |-> "transport"]
    BY <1>2, <1>3, ProbedFields DEF Route
  <2> HIDE DEF i
  <2>3. start' = [start EXCEPT ![s] = n]
    <3>1. circuit'.probe.id = i
      BY <2>2
    <3>2. start' = [start EXCEPT ![s].at = "probing", ![s].h2 = TRUE, ![s].epoch = circuit.epoch,
                                 ![s].routed = circuit.epoch, ![s].probe = i]
      BY <1>3, <3>1 DEF Route
    <3> QED
      BY <3>2 DEF TypeOK, Start
  <2>4. /\ n \in Start /\ n.probe = i /\ n.at = "probing" /\ n.epoch = circuit.epoch
    BY <1>2, <2>1, InPlaces DEF TypeOK, Start
  <2> HIDE DEF n
  <2>5. circuit.open /\ circuit.probe = NoProbe
    BY <1>3 DEF HalfOpens
  <2>6. \A id \in Nat \ {start[s].probe} : Owns(circuit, id, "run") => Owns(circuit', id, "run")
    BY <2>5 DEF Owns, NoProbe
  <2>7. LeaseIsOpen(circuit') /\ Tests(n, circuit') /\ circuit.ids <= circuit'.ids
    BY <1>2, <2>1, <2>2, <2>4, <2>5 DEF LeaseIsOpen, Tests
  <2>8. n.at \in UnderWay /\ n.probe <= circuit'.ids /\ n.epoch <= circuit'.epoch
    BY <1>2, <2>1, <2>2, <2>4 DEF UnderWay, Opens
  <2>9. circuit'.probe.id = n.probe /\ n.probe > circuit.ids
    BY <2>1, <2>2, <2>4
  <2> QED
    BY <1>2, <2>2, <2>3, <2>4, <2>5, <2>6, <2>7, <2>8, <2>9, StepOfOne
<1>4. CASE ~(~start[s].sand /\ HalfOpens(circuit))
  <2> DEFINE h2 == start[s].sand \/ ~circuit.open
             n == [start[s] EXCEPT !.at = "opening", !.h2 = h2, !.epoch = circuit.epoch,
                                   !.routed = circuit.epoch, !.probe = 0]
  <2>1. h2 \in BOOLEAN /\ circuit' = circuit
    BY <1>4 DEF Route, TypeOK, Start, Circuit
  <2>2. start' = [start EXCEPT ![s] = n]
    BY <1>4 DEF Route, TypeOK, Start
  <2>0. h2 => start[s].sand \/ ~circuit.open
    OBVIOUS
  <2> HIDE DEF h2
  <2>3. /\ n \in Start /\ n.probe = 0 /\ n.at = "opening" /\ n.epoch = circuit.epoch
        /\ n.h2 = h2 /\ n.sand = start[s].sand
    BY <1>2, <2>1, InPlaces DEF TypeOK, Start
  <2> HIDE DEF n
  <2>4. Tests(n, circuit')
    BY <2>1, <2>3, <2>0 DEF Tests
  <2>5. circuit'.probe # NoProbe => circuit.probe.id # start[s].probe
    BY <1>1, <2>1 DEF IInv, LeaseIsOpen
  <2>6. /\ LeaseIsOpen(circuit') /\ circuit'.epoch = circuit.epoch /\ circuit.ids <= circuit'.ids
        /\ n.epoch <= circuit'.epoch
    BY <1>2, <2>1, <2>3 DEF IInv
  <2>7. \A id \in Nat \ {start[s].probe} : Owns(circuit, id, "run") => Owns(circuit', id, "run")
    BY <2>1
  <2> QED
    BY <1>2, <2>1, <2>2, <2>3, <2>4, <2>5, <2>6, <2>7, StepOfOne
<1> QED
  BY <1>3, <1>4

LEMMA SpawnKeeps ==
  ASSUME TypeOK, IInv, NEW s \in Starts, Spawn(s)
  PROVE  TypeOK' /\ IInv'
<1> DEFINE e == IF start[s].h2 THEN circuit.epoch ELSE 0
           n == [start[s] EXCEPT !.at = "driving", !.probe = 0, !.epoch = e]
<1>1. e \in Nat
  BY DEF TypeOK, Circuit
<1>2. start' = [start EXCEPT ![s] = n]
  BY DEF Spawn, TypeOK, Start
<1> HIDE DEF e
<1>3. n \in Start /\ n.probe = 0 /\ n.at = "driving"
  BY <1>1, InPlaces DEF TypeOK, Start
<1>4. free' \in [Gates -> Nat] /\ circuit' = Released(circuit, start[s].probe) /\ circuit \in Circuit
  BY DEF Spawn, TypeOK
<1> HIDE DEF n
<1> QED
  BY <1>2, <1>3, <1>4, GuardGoes


LEMMA UnreachableKeeps ==
  ASSUME TypeOK, IInv, NEW s \in Starts, Unreachable(s)
  PROVE  TypeOK' /\ IInv'
<1>1. CASE start[s].sand
  <2>1. Leave(s, circuit) /\ circuit \in Circuit
    BY <1>1 DEF Unreachable, TypeOK
  <2> QED
    BY <2>1, LeaveKeeps
<1>2. CASE ~start[s].sand
  <2> DEFINE n == [start[s] EXCEPT !.at = "fallback", !.h2 = FALSE]
  <2>1. n \in Start /\ n.probe = start[s].probe /\ n.at = "fallback"
    BY InPlaces DEF TypeOK, Start
  <2>2. /\ start' = [start EXCEPT ![s] = n] /\ free' \in [Gates -> Nat]
        /\ circuit' = OnProbeRunFailure(circuit, start[s].probe)
    BY <1>2 DEF Unreachable, TypeOK, Start
  <2> HIDE DEF n
  <2>3. circuit' \in Circuit /\ (circuit' = circuit \/ Turned(circuit, circuit'))
    <3>1. circuit \in Circuit /\ start[s].probe \in Nat /\ start[s].epoch \in Nat
      BY DEF TypeOK, Start
    <3> QED
      BY <2>2, <3>1, Verdicts
  <2> QED
    BY <2>1, <2>2, <2>3, VerdictKeeps DEF UnderWay, Opens
<1> QED
  BY <1>1, <1>2

LEMMA AcceptedKeeps ==
  ASSUME TypeOK, IInv, NEW s \in Starts, Accepted(s)
  PROVE  TypeOK' /\ IInv'
<1>1. circuit' \in Circuit /\ (circuit' = circuit \/ Turned(circuit, circuit'))
  <2>1. circuit \in Circuit /\ start[s].probe \in Nat /\ start[s].epoch \in Nat
    BY DEF TypeOK, Start
  <2> QED
    BY <2>1, Verdicts DEF Accepted, Noted
<1> DEFINE r == IF circuit' = circuit THEN start[s].routed ELSE circuit'.epoch
           n == [start[s] EXCEPT !.at = "opened", !.routed = r]
<1>2. r \in Nat
  BY <1>1 DEF TypeOK, Start, Circuit
<1>3. start' = [start EXCEPT ![s] = n] /\ free' \in [Gates -> Nat]
  BY DEF Accepted, TypeOK, Start
<1> HIDE DEF r
<1>4. n \in Start /\ n.probe = start[s].probe /\ n.at = "opened"
  BY <1>2, InPlaces DEF TypeOK, Start
<1> HIDE DEF n
<1> QED
  BY <1>1, <1>3, <1>4, VerdictKeeps DEF UnderWay

LEMMA LoseFields ==
  ASSUME TypeOK, NEW s \in Starts, NEW moves \in BOOLEAN, LoseStream(s, moves)
  PROVE  /\ start[s].at = "driving" /\ free' = free
         /\ \E n \in Start : /\ start' = [start EXCEPT ![s] = n] /\ n.at = "recovery wait"
                             /\ n.held = start[s].held /\ n.client = start[s].client
                             /\ n.probe = start[s].probe
<1> DEFINE o == start[s].opens + 1
           h2 == start[s].h2 /\ ~moves
           n == [start[s] EXCEPT !.at = "recovery wait", !.opens = o, !.h2 = h2, !.epoch = 0]
<1>1. o \in 0..MaxOpens /\ h2 \in BOOLEAN
  <2>1. start[s].opens \in 0..MaxOpens /\ start[s].opens < MaxOpens /\ MaxOpens \in Nat
    BY LiveStartAssumption DEF LoseStream, TypeOK, Start
  <2> QED
    BY <2>1 DEF TypeOK, Start
<1>2. start' = [start EXCEPT ![s] = n]
  BY DEF LoseStream, TypeOK, Start
<1> HIDE DEF o, h2
<1>3. /\ n \in Start /\ n.probe = start[s].probe /\ n.at = "recovery wait"
      /\ n.held = start[s].held /\ n.client = start[s].client
  BY <1>1, InPlaces DEF TypeOK, Start
<1> HIDE DEF n
<1> QED
  BY <1>2, <1>3 DEF LoseStream

LEMMA LoseStreamKeeps ==
  ASSUME TypeOK, IInv, NEW s \in Starts, NEW moves \in BOOLEAN, LoseStream(s, moves)
  PROVE  TypeOK' /\ IInv'
<1>1. circuit' \in Circuit /\ (circuit' = circuit \/ Turned(circuit, circuit'))
  <2>1. circuit \in Circuit /\ start[s].probe \in Nat /\ start[s].epoch \in Nat
    BY DEF TypeOK, Start
  <2> QED
    BY <2>1, Verdicts DEF LoseStream
<1>2. start[s].probe = 0
  BY IdleHasNoGuard DEF LoseStream, UnderWay, Opens
<1>3. PICK n \in Start : /\ start' = [start EXCEPT ![s] = n] /\ n.at = "recovery wait"
                         /\ n.probe = start[s].probe
  BY LoseFields
<1>4. free' \in [Gates -> Nat]
  BY LoseFields DEF TypeOK
<1> QED
  BY <1>1, <1>2, <1>3, <1>4, VerdictKeeps

LEMMA ProbeAnswersKeeps ==
  ASSUME TypeOK, IInv, NEW s \in Starts, NEW ok \in BOOLEAN, ProbeAnswers(s, ok)
  PROVE  TypeOK' /\ IInv'
<1> DEFINE id == start[s].probe
           tested == OnProbeTransport(circuit, id, ok)
<1>1. /\ circuit \in Circuit /\ circuit.epoch \in Nat /\ circuit.ids \in Nat /\ id \in Nat
      /\ start[s].epoch \in Nat /\ start[s].at = "probing" /\ free' \in [Gates -> Nat]
  BY DEF TypeOK, Start, Circuit, ProbeAnswers
<1>2. start[s].epoch <= circuit.epoch /\ id <= circuit.ids
  BY <1>1 DEF IInv, RoutesAreOld, GuardsAreOwn, LeaseIsOpen
<1>3. CASE ok /\ Owns(circuit, id, "transport")
  <2> DEFINE n == [start[s] EXCEPT !.at = "opening", !.h2 = TRUE]
  <2>1. /\ n \in Start /\ n.probe = id /\ n.at = "opening" /\ n.epoch = start[s].epoch
    BY <1>1, InPlaces DEF TypeOK, Start
  <2>2. circuit' = tested /\ start' = [start EXCEPT ![s].at = "opening", ![s].h2 = TRUE, ![s].probe = id]
    BY <1>3 DEF ProbeAnswers
  <2>3. start' = [start EXCEPT ![s] = n]
    BY <2>2 DEF TypeOK, Start
  <2>4. /\ circuit' \in Circuit /\ circuit'.epoch = circuit.epoch /\ circuit'.open = circuit.open
        /\ circuit'.ids = circuit.ids /\ circuit'.probe = [id |-> id, phase |-> "run"]
    BY <1>1, <1>3, <2>2, TestedFields
  <2> HIDE DEF n, tested
  <2>5. circuit.open /\ circuit.probe = [id |-> id, phase |-> "transport"] /\ id # 0
    BY <1>3 DEF IInv, LeaseIsOpen, Owns, NoProbe
  <2>6. LeaseIsOpen(circuit') /\ circuit'.probe.id = n.probe /\ Tests(n, circuit')
    BY <1>2, <2>1, <2>4, <2>5 DEF LeaseIsOpen, Tests, Owns
  <2>7. \A i \in Nat \ {start[s].probe} : Owns(circuit, i, "run") => Owns(circuit', i, "run")
    BY <2>5 DEF Owns
  <2>8. /\ n.at \in UnderWay /\ n.probe <= circuit'.ids /\ n.epoch <= circuit'.epoch
        /\ n.probe = start[s].probe /\ circuit.ids <= circuit'.ids
    BY <1>1, <1>2, <2>1, <2>4 DEF UnderWay, Opens
  <2> QED
    BY <1>1, <2>3, <2>1, <2>4, <2>5, <2>6, <2>7, <2>8, StepOfOne
<1>4. CASE ~(ok /\ Owns(circuit, id, "transport"))
  <2> DEFINE n == [start[s] EXCEPT !.at = "opening", !.h2 = FALSE, !.probe = 0]
  <2>1. n \in Start /\ n.probe = 0 /\ n.h2 = FALSE /\ n.epoch = start[s].epoch
    BY InPlaces DEF TypeOK, Start
  <2>2. /\ circuit' = Released(tested, id)
        /\ start' = [start EXCEPT ![s].at = "opening", ![s].h2 = FALSE, ![s].probe = 0]
    BY <1>4 DEF ProbeAnswers
  <2>3. start' = [start EXCEPT ![s] = n]
    BY <2>2 DEF TypeOK, Start
  <2>4. tested \in Circuit /\ (tested = circuit \/ Turned(circuit, tested))
    BY <1>1, <1>4, ReopenedFields DEF OnProbeTransport, Turned
  <2> HIDE DEF n, tested
  <2> QED
    BY <1>1, <1>2, <2>1, <2>2, <2>3, <2>4, GuardGoes
<1> QED
  BY <1>3, <1>4

-----------------------------------------------------------------------------
(* The theorems.                                                            *)

LEMMA StepKeeps == TypeOK /\ IInv /\ [Next]_vars => TypeOK' /\ IInv'
<1> SUFFICES ASSUME TypeOK, IInv, [Next]_vars
             PROVE  TypeOK' /\ IInv'
  OBVIOUS
<1>1. CASE Cool
  BY <1>1, CoolKeeps
<1>2. ASSUME NEW s \in Starts, AdmitRun(s) \/ AdmitStart(s) \/ AdmitTotal(s)
      PROVE  TypeOK' /\ IInv'
  BY <1>2, AdmissionKeeps
<1>3. ASSUME NEW s \in Starts, \/ TimeOut(s) \/ Abandon(s) \/ OpenTimedOut(s) \/ Rejected(s)
                               \/ ReopenTimedOut(s) \/ End(s)
      PROVE  TypeOK' /\ IInv'
  BY <1>3, EndingKeeps
<1>4. ASSUME NEW s \in Starts, Route(s) \/ Spawn(s)
      PROVE  TypeOK' /\ IInv'
  BY <1>4, RouteKeeps, SpawnKeeps
<1>5. ASSUME NEW s \in Starts, NEW ok \in BOOLEAN, ProbeAnswers(s, ok) \/ Http1Answers(s, ok)
      PROVE  TypeOK' /\ IInv'
  BY <1>5, ProbeAnswersKeeps, Http1Keeps
<1>6. ASSUME NEW s \in Starts, Accepted(s) \/ Unreachable(s)
      PROVE  TypeOK' /\ IInv'
  BY <1>6, AcceptedKeeps, UnreachableKeeps
<1>7. ASSUME NEW s \in Starts, \/ Pause(s) \/ Resume(s) \/ BringResults(s) \/ AdmitResume(s) \/ DropResume(s)
      PROVE  TypeOK' /\ IInv'
  BY <1>7, SegmentKeeps, ResumeQueueKeeps
<1>8. ASSUME NEW s \in Starts, NEW moves \in BOOLEAN, LoseStream(s, moves)
      PROVE  TypeOK' /\ IInv'
  BY <1>8, LoseStreamKeeps
<1>9. ASSUME NEW s \in Starts, AdmitRecovery(s) \/ Reopen(s) \/ ReopenFailed(s)
      PROVE  TypeOK' /\ IInv'
  BY <1>9, AdmitRecoveryKeeps, ReopenKeeps
<1>10. CASE UNCHANGED vars
  BY <1>10 DEF vars, TypeOK, IInv, LeaseIsOpen, GuardsAreOwn, RoutesAreOld, ProbeOwned, OneHalfOpen, Owns
<1> QED
  BY <1>1, <1>2, <1>3, <1>4, <1>5, <1>6, <1>7, <1>8, <1>9, <1>10 DEF Next, Opening, Recovering

\* The circuit and the gates keep their types: no permit is taken from an empty
\* gate, and no Run is reopened more often than the recovery budget allows.
THEOREM TypeCorrect == Spec => []TypeOK
<1> QED
  BY InitInvariant, StepKeeps, PTL DEF Spec

\* However starts, probes, failures and dropped guards interleave, at most one
\* start tests HTTP/2 while the breaker is open, and its lease goes with it.
THEOREM OneHalfOpenTest == Spec => []HalfOpenExclusive
<1>1. IInv => HalfOpenExclusive
  BY DEF IInv, HalfOpenExclusive
<1> QED
  BY <1>1, InitInvariant, StepKeeps, PTL DEF Spec

-----------------------------------------------------------------------------
(* Late evidence.                                                           *)

Asked == {"probing", "opening", "reopening"}

\* An open is reported under the epoch it began in.
OpensAreDated == \A s \in Starts : start[s].at \in Asked => start[s].epoch = start[s].routed

\* The lease ends with its epoch: a start that still has it began in this one.
Current(n, c) ==
  n.at \in {"probing", "opening"} /\ n.probe # 0 /\ c.probe.id = n.probe => n.epoch = c.epoch
LeasesAreCurrent == \A s \in Starts : Current(start[s], circuit)

Dated == OpensAreDated /\ LeasesAreCurrent

\* What a call of start s may make of the circuit: only its own Run closes the
\* breaker, and only an open of this epoch trips it.
Judged(s, c) ==
  /\ c \in Circuit /\ (c.epoch = circuit.epoch \/ c.probe = NoProbe)
  /\ c.probe = NoProbe \/ c.probe.id = circuit.probe.id
  /\ circuit.open /\ ~c.open =>
       start[s].at = "opening" /\ start[s].h2 /\ Owns(circuit, start[s].probe, "run")
  /\ ~circuit.open /\ c.open => start[s].epoch = circuit.epoch

\* A verdict of start s, or none, and the place it goes to.
Judges(s) ==
  /\ \A t \in Starts \ {s} : start'[t] = start[t]
  /\ \E c : /\ Judged(s, c) /\ circuit'.open = c.open /\ circuit'.epoch = c.epoch
            /\ circuit'.probe \in {c.probe, NoProbe}
  /\ circuit.open /\ ~circuit'.open => start'[s].at # "opening"
  /\ start'[s].at \in Asked => start'[s].epoch = start'[s].routed
  /\ Current(start'[s], circuit')

\* The route alone hands out a new lease.
Leases(s) ==
  /\ \A t \in Starts \ {s} : start'[t] = start[t]
  /\ circuit'.open = circuit.open /\ circuit'.epoch = circuit.epoch
  /\ circuit'.probe.id = start'[s].probe
  /\ start'[s].epoch = circuit.epoch /\ start'[s].routed = circuit.epoch

\* Neither direction of the verdict rests on late evidence.
ClosedByOwn ==
  circuit.open /\ ~circuit'.open =>
    \E s \in Starts :
      /\ start[s].at = "opening" /\ start[s].h2 /\ start'[s].at # "opening"
      /\ start[s].epoch = circuit.epoch /\ circuit.probe.id = start[s].probe

TrippedByFresh ==
  ~circuit.open /\ circuit'.open =>
    \A s \in Starts :
      start[s].at \in {"opening", "reopening"} /\ start'[s].at \in {"fallback", "done"} =>
        start[s].routed = circuit.epoch

Kept == Dated' /\ ClosedByOwn /\ TrippedByFresh

\* The guards of two starts differ after the step as well, so a lease that stays
\* is that of a start whose epoch is the circuit's.
LEMMA JudgesKeeps ==
  ASSUME TypeOK, TypeOK', IInv, Dated, NEW s \in Starts, Judges(s)
  PROVE  Kept
<1>1. PICK c : /\ Judged(s, c) /\ circuit'.open = c.open /\ circuit'.epoch = c.epoch
               /\ circuit'.probe \in {c.probe, NoProbe}
  BY DEF Judges
<1>2. OpensAreDated'
  BY DEF Judges, Dated, OpensAreDated, Asked
<1>3. LeasesAreCurrent'
  <2> SUFFICES ASSUME NEW t \in Starts, t # s PROVE Current(start'[t], circuit')
    BY DEF LeasesAreCurrent, Judges
  <2>1. start'[t] = start[t] /\ Current(start[t], circuit)
    BY DEF Judges, Dated, LeasesAreCurrent
  <2>2. NoProbe.id = 0
    BY DEF NoProbe
  <2>3. circuit'.probe.id # 0 =>
          circuit'.epoch = circuit.epoch /\ circuit'.probe.id = circuit.probe.id
    BY <1>1, <2>2 DEF Judged
  <2> QED
    BY <2>1, <2>3 DEF Current
<1>4. ClosedByOwn
  <2> SUFFICES ASSUME circuit.open, ~circuit'.open PROVE ClosedByOwn
    BY DEF ClosedByOwn
  <2>1. /\ start[s].at = "opening" /\ start[s].h2 /\ Owns(circuit, start[s].probe, "run")
        /\ start'[s].at # "opening"
    BY <1>1 DEF Judged, Judges
  <2>2. circuit.probe.id = start[s].probe /\ start[s].probe # 0
    BY <2>1 DEF Owns
  <2>3. start[s].epoch = circuit.epoch
    BY <2>1, <2>2 DEF Dated, LeasesAreCurrent, Current
  <2> QED
    BY <2>1, <2>2, <2>3 DEF ClosedByOwn
<1>5. TrippedByFresh
  <2> SUFFICES ASSUME ~circuit.open, circuit'.open, NEW t \in Starts,
                      start[t].at \in {"opening", "reopening"}, start'[t].at \in {"fallback", "done"}
               PROVE  start[t].routed = circuit.epoch
    BY DEF TrippedByFresh
  <2>1. t = s
    BY DEF Judges
  <2>2. start[s].epoch = circuit.epoch
    BY <1>1 DEF Judged, TypeOK, Circuit
  <2> QED
    BY <2>1, <2>2 DEF Dated, OpensAreDated, Asked
<1> QED
  BY <1>2, <1>3, <1>4, <1>5 DEF Kept, Dated

\* A lease that was just handed out is of this epoch, and nobody else's.
LEMMA LeasesKeeps ==
  ASSUME TypeOK, IInv', Dated, NEW s \in Starts, Leases(s)
  PROVE  Kept
<1>1. OpensAreDated'
  BY DEF Leases, Dated, OpensAreDated, Asked
<1>2. LeasesAreCurrent'
  <2> SUFFICES ASSUME NEW t \in Starts PROVE Current(start'[t], circuit')
    BY DEF LeasesAreCurrent
  <2>1. CASE t = s
    BY <2>1 DEF Leases, Current
  <2>2. CASE t # s
    <3>1. start'[t].probe # 0 => start'[t].probe # start'[s].probe
      BY <2>2 DEF IInv, GuardsAreOwn
    <3> QED
      BY <3>1 DEF Leases, Current
  <2> QED
    BY <2>1, <2>2
<1>3. ClosedByOwn /\ TrippedByFresh
  BY DEF Leases, ClosedByOwn, TrippedByFresh
<1> QED
  BY <1>1, <1>2, <1>3 DEF Kept, Dated

\* No evidence is late: a failure names the epoch of its open, a success the
\* lease of its Run, and a failed test Run had the lease of an open breaker.
LEMMA Judgements ==
  ASSUME TypeOK, IInv, NEW s \in Starts
  PROVE  /\ Judged(s, circuit)
         /\ Judged(s, OnH2Failure(circuit, start[s].epoch))
         /\ Judged(s, OnProbeRunFailure(circuit, start[s].probe))
         /\ start[s].at = "opening" /\ start[s].h2 =>
              Judged(s, OnOpenSuccess(circuit, start[s].probe))
<1>1. circuit \in Circuit /\ circuit.open \in BOOLEAN
  BY DEF TypeOK, Circuit
<1>2. Judged(s, circuit)
  BY <1>1 DEF Judged
<1>3. ASSUME start[s].epoch = circuit.epoch \/ circuit.open PROVE Judged(s, Reopened(circuit))
  BY <1>1, <1>3, ReopenedFields DEF Judged
<1>4. Owns(circuit, start[s].probe, "run") => circuit.open
  BY DEF Owns, IInv, LeaseIsOpen, NoProbe
<1>5. ASSUME start[s].at = "opening", start[s].h2, Owns(circuit, start[s].probe, "run")
      PROVE  Judged(s, Recovered(circuit))
  BY <1>1, <1>5, RecoveredFields DEF Judged
<1> QED
  BY <1>2, <1>3, <1>4, <1>5 DEF OnH2Failure, OnProbeRunFailure, OnOpenSuccess

\* A start that goes where nothing is asked of Cursor.
LEMMA Answered ==
  ASSUME NEW s \in Starts, NEW c, Judged(s, c),
         \A t \in Starts \ {s} : start'[t] = start[t], start'[s].at \notin Asked,
         circuit'.open = c.open, circuit'.epoch = c.epoch, circuit'.probe \in {c.probe, NoProbe}
  PROVE  Judges(s)
  BY DEF Judges, Current, Asked

\* Whoever returns drops its guard after the verdict.
LEMMA LeaveJudges ==
  ASSUME TypeOK, NEW s \in Starts, NEW c, Judged(s, c), Leave(s, c)
  PROVE  Judges(s)
<1>1. /\ start'[s] = Done /\ \A t \in Starts \ {s} : start'[t] = start[t]
      /\ circuit' = Released(c, start[s].probe) /\ start[s].probe \in Nat /\ c \in Circuit
  BY DEF Leave, TypeOK, Start, Judged
<1>2. Done.at \notin Asked
  BY DoneFields DEF Asked
<1>3. circuit'.open = c.open /\ circuit'.epoch = c.epoch /\ circuit'.probe \in {c.probe, NoProbe}
  BY <1>1, ReleasedFields
<1> QED
  BY <1>1, <1>2, <1>3, Answered

LEMMA EndingJudges ==
  ASSUME TypeOK, IInv, NEW s \in Starts,
         \/ TimeOut(s) \/ Abandon(s) \/ OpenTimedOut(s) \/ Rejected(s)
         \/ ReopenTimedOut(s) \/ End(s)
  PROVE  Judges(s)
<1>1. PICK c \in {circuit, OnH2Failure(circuit, start[s].epoch), OnOpenSuccess(circuit, start[s].probe)} :
        Leave(s, c) /\ Judged(s, c)
  <2>1. CASE TimeOut(s) \/ Abandon(s) \/ End(s)
    BY <2>1, Judgements DEF TimeOut, Abandon, End
  <2>2. CASE OpenTimedOut(s) \/ ReopenTimedOut(s)
    BY <2>2, Judgements DEF OpenTimedOut, ReopenTimedOut, Noted
  <2>3. CASE Rejected(s)
    BY <2>3, Judgements DEF Rejected, Noted
  <2> QED
    BY <2>1, <2>2, <2>3
<1> QED
  BY <1>1, LeaveJudges

\* The steps that leave the circuit alone and end an open, or are none.
LEMMA PlainJudges ==
  ASSUME TypeOK, IInv, Dated, NEW s \in Starts, circuit' = circuit,
         \A t \in Starts \ {s} : start'[t] = start[t],
         \/ start'[s].at \notin Asked
         \/ /\ start'[s].at = start[s].at /\ start'[s].probe = start[s].probe
            /\ start'[s].epoch = start[s].epoch /\ start'[s].routed = start[s].routed
         \/ /\ start'[s].at = "reopening" /\ start'[s].epoch = start'[s].routed
  PROVE  Judges(s)
<1>1. Judged(s, circuit)
  BY Judgements
<1>2. start'[s].at \in Asked => start'[s].epoch = start'[s].routed
  BY DEF Dated, OpensAreDated
<1>3. Current(start'[s], circuit')
  BY DEF Dated, LeasesAreCurrent, Current, Asked
<1> QED
  BY <1>1, <1>2, <1>3 DEF Judges

LEMMA AdmissionJudges ==
  ASSUME TypeOK, IInv, Dated, NEW s \in Starts,
         \/ AdmitRun(s) \/ AdmitStart(s) \/ AdmitTotal(s)
         \/ Pause(s) \/ BringResults(s) \/ AdmitResume(s) \/ DropResume(s) \/ Resume(s)
         \/ AdmitRecovery(s) \/ Reopen(s) \/ ReopenFailed(s)
  PROVE  Judges(s)
<1>1. CASE AdmitRun(s) \/ AdmitStart(s) \/ AdmitTotal(s)
  <2>1. PICK g \in Gates, at \in {"start wait", "total wait", "route"} :
          Take(s, g, at) /\ circuit' = circuit
    BY <1>1 DEF AdmitRun, AdmitStart, AdmitTotal, Gates
  <2>2. start'[s].at = at /\ \A t \in Starts \ {s} : start'[t] = start[t]
    BY <2>1 DEF Take, TypeOK, Start
  <2>3. start'[s].at \notin Asked
    BY <2>2 DEF Asked
  <2> QED
    BY <2>1, <2>2, <2>3, PlainJudges
<1>2. CASE Pause(s) \/ BringResults(s) \/ AdmitResume(s) \/ DropResume(s) \/ Resume(s)
  <2>1. /\ start'[s].at = start[s].at /\ start'[s].probe = start[s].probe
        /\ start'[s].epoch = start[s].epoch /\ start'[s].routed = start[s].routed
        /\ \A t \in Starts \ {s} : start'[t] = start[t]
    BY <1>2 DEF Pause, BringResults, AdmitResume, DropResume, Resume, TypeOK, Start
  <2>2. circuit' = circuit
    BY <1>2 DEF Pause, BringResults, AdmitResume, DropResume, Resume
  <2> QED
    BY <2>1, <2>2, PlainJudges
<1>3. CASE AdmitRecovery(s)
  <2>1. /\ start'[s].at = "reopening" /\ start'[s].epoch = circuit.epoch
        /\ start'[s].routed = circuit.epoch /\ \A t \in Starts \ {s} : start'[t] = start[t]
        /\ circuit' = circuit
    BY <1>3 DEF AdmitRecovery, TypeOK, Start
  <2> QED
    BY <2>1, PlainJudges
<1>4. CASE Reopen(s) \/ ReopenFailed(s)
  <2>1. PICK n \in Start : start' = [start EXCEPT ![s] = n] /\ n.at \in {"driving", "recovery wait"}
    BY <1>4, ReopenFields
  <2>2. /\ start'[s].at \notin Asked /\ circuit' = circuit
        /\ \A t \in Starts \ {s} : start'[t] = start[t]
    BY <1>4, <2>1, ReopenFields DEF TypeOK, Asked
  <2> QED
    BY <2>2, PlainJudges
<1> QED
  BY <1>1, <1>2, <1>3, <1>4

\* The steps that bring a verdict and keep the start.
LEMMA VerdictJudges ==
  ASSUME TypeOK, IInv, Dated, NEW s \in Starts,
         \/ Accepted(s) \/ Unreachable(s) \/ Spawn(s)
         \/ \E ok \in BOOLEAN : Http1Answers(s, ok)
         \/ \E moves \in BOOLEAN : LoseStream(s, moves)
  PROVE  Judges(s)
<1>1. CASE Accepted(s)
  <2>1. /\ Judged(s, circuit') /\ start'[s].at = "opened"
        /\ \A t \in Starts \ {s} : start'[t] = start[t]
    BY <1>1, Judgements DEF Accepted, Noted, TypeOK, Start
  <2> QED
    BY <2>1, Answered DEF Asked
<1>2. CASE Unreachable(s)
  <2>1. CASE start[s].sand
    BY <1>2, <2>1, Judgements, LeaveJudges DEF Unreachable
  <2>2. CASE ~start[s].sand
    <3>1. /\ Judged(s, circuit') /\ start'[s].at = "fallback"
          /\ \A t \in Starts \ {s} : start'[t] = start[t]
      BY <1>2, <2>2, Judgements DEF Unreachable, TypeOK, Start
    <3> QED
      BY <3>1, Answered DEF Asked
  <2> QED
    BY <2>1, <2>2
<1>3. CASE Spawn(s)
  <2>1. /\ circuit' = Released(circuit, start[s].probe) /\ start'[s].at = "driving"
        /\ \A t \in Starts \ {s} : start'[t] = start[t]
        /\ circuit \in Circuit /\ start[s].probe \in Nat
    BY <1>3 DEF Spawn, TypeOK, Start
  <2>2. /\ circuit'.open = circuit.open /\ circuit'.epoch = circuit.epoch
        /\ circuit'.probe \in {circuit.probe, NoProbe}
    BY <2>1, ReleasedFields
  <2>3. Judged(s, circuit) /\ start'[s].at \notin Asked
    BY <2>1, Judgements DEF Asked
  <2> QED
    BY <2>1, <2>2, <2>3, Answered
<1>4. ASSUME NEW ok \in BOOLEAN, Http1Answers(s, ok) PROVE Judges(s)
  <2>1. CASE ok
    <3>1. /\ circuit' = circuit /\ start'[s].at = "opened"
          /\ \A t \in Starts \ {s} : start'[t] = start[t]
      BY <1>4, <2>1 DEF Http1Answers, Goto, TypeOK, Start
    <3> QED
      BY <3>1, PlainJudges DEF Asked
  <2>2. CASE ~ok
    BY <1>4, <2>2, Judgements, LeaveJudges DEF Http1Answers
  <2> QED
    BY <2>1, <2>2
<1>5. ASSUME NEW moves \in BOOLEAN, LoseStream(s, moves) PROVE Judges(s)
  <2>1. PICK n \in Start : start' = [start EXCEPT ![s] = n] /\ n.at = "recovery wait"
    BY <1>5, LoseFields
  <2>2. start'[s].at \notin Asked /\ \A t \in Starts \ {s} : start'[t] = start[t]
    BY <2>1 DEF TypeOK, Asked
  <2>3. Judged(s, circuit')
    BY <1>5, Judgements DEF LoseStream
  <2> QED
    BY <2>2, <2>3, Answered
<1> QED
  BY <1>1, <1>2, <1>3, <1>4, <1>5

\* The transport test passes the lease on within its epoch, or ends it.
LEMMA ProbeJudges ==
  ASSUME TypeOK, IInv, Dated, NEW s \in Starts, NEW ok \in BOOLEAN, ProbeAnswers(s, ok)
  PROVE  Judges(s)
<1>1. PICK i \in Nat : i = start[s].probe
  BY DEF TypeOK, Start
<1>2. PICK d : d = OnProbeTransport(circuit, i, ok)
  OBVIOUS
<1> DEFINE owner == ok /\ Owns(circuit, i, "transport")
<1>3. /\ circuit \in Circuit /\ start[s].at = "probing"
      /\ start[s].epoch = start[s].routed
  BY DEF TypeOK, ProbeAnswers, Dated, OpensAreDated, Asked
<1>4. /\ start'[s].at = "opening" /\ start'[s].epoch = start[s].epoch
      /\ start'[s].routed = start[s].routed /\ start'[s].probe = IF owner THEN i ELSE 0
      /\ \A t \in Starts \ {s} : start'[t] = start[t]
      /\ circuit' = IF owner THEN d ELSE Released(d, i)
  BY <1>1, <1>2 DEF ProbeAnswers, TypeOK, Start
<1>5. CASE owner
  <2>1. Owns(circuit, i, "transport") /\ d = OnProbeTransport(circuit, i, TRUE)
    BY <1>2, <1>5
  <2>2. /\ d \in Circuit /\ d.epoch = circuit.epoch /\ d.open = circuit.open
        /\ d.probe = [id |-> i, phase |-> "run"]
    BY <1>3, <2>1, TestedFields
  <2>3. circuit.probe.id = i /\ i # 0 /\ d.probe.id = i
    <3>1. circuit.probe = [id |-> i, phase |-> "transport"] /\ i # 0
      BY <2>1 DEF Owns
    <3> QED
      BY <2>2, <3>1
  <2>4. Judged(s, d)
    BY <1>3, <2>2, <2>3 DEF Judged, Circuit
  <2>5. start[s].epoch = circuit.epoch
    BY <1>1, <1>3, <2>3 DEF Dated, LeasesAreCurrent, Current
  <2>6. Current(start'[s], circuit') /\ circuit'.open = circuit.open
    BY <1>4, <1>5, <2>2, <2>5 DEF Current
  <2> QED
    BY <1>3, <1>4, <1>5, <2>4, <2>6 DEF Judges
<1>6. CASE ~owner
  <2>1. Judged(s, d) /\ d \in Circuit /\ (circuit.open => d.open)
    <3>1. CASE d = circuit
      BY <1>3, <3>1, Judgements
    <3>2. CASE d = Reopened(circuit) /\ Owns(circuit, i, "transport")
      <4>1. circuit.open
        BY <3>2 DEF Owns, IInv, LeaseIsOpen, NoProbe
      <4> QED
        BY <1>3, <3>2, <4>1, ReopenedFields DEF Judged
    <3> QED
      BY <1>2, <1>6, <3>1, <3>2 DEF OnProbeTransport
  <2>2. /\ circuit'.open = d.open /\ circuit'.epoch = d.epoch
        /\ circuit'.probe \in {d.probe, NoProbe}
    BY <1>4, <1>6, <2>1, ReleasedFields
  <2>3. Current(start'[s], circuit')
    BY <1>4, <1>6 DEF Current
  <2> QED
    BY <1>3, <1>4, <2>1, <2>2, <2>3 DEF Judges
<1> QED
  BY <1>5, <1>6

\* A route is of the circuit's epoch, with a new lease or without one.
LEMMA RouteDated ==
  ASSUME TypeOK, TypeOK', IInv, IInv', Dated, NEW s \in Starts, Route(s)
  PROVE  Kept
<1>1. /\ start'[s].epoch = circuit.epoch /\ start'[s].routed = circuit.epoch
      /\ \A t \in Starts \ {s} : start'[t] = start[t]
      /\ circuit \in Circuit
  BY DEF Route, TypeOK, Start
<1>2. CASE ~start[s].sand /\ HalfOpens(circuit)
  <2>1. circuit' = Probed(circuit) /\ start'[s].probe = circuit'.probe.id
    BY <1>2 DEF Route, TypeOK, Start
  <2> QED
    BY <1>1, <2>1, ProbedFields, LeasesKeeps DEF Leases
<1>3. CASE ~(~start[s].sand /\ HalfOpens(circuit))
  <2>1. circuit' = circuit /\ start'[s].probe = 0
    BY <1>3 DEF Route, TypeOK, Start
  <2>2. Judged(s, circuit) /\ Current(start'[s], circuit')
    BY <2>1, Judgements DEF Current
  <2>3. Judges(s)
    BY <1>1, <2>1, <2>2 DEF Judges
  <2> QED
    BY <2>3, JudgesKeeps
<1> QED
  BY <1>2, <1>3

\* A step without a start: time passes, or nothing happens.
LEMMA IdleDated ==
  ASSUME TypeOK, Dated, Cool \/ UNCHANGED vars
  PROVE  Kept
<1>1. /\ start' = start /\ circuit'.open = circuit.open /\ circuit'.epoch = circuit.epoch
      /\ circuit'.probe = circuit.probe
  BY DEF Cool, vars, TypeOK, Circuit
<1> QED
  BY <1>1 DEF Kept, Dated, OpensAreDated, LeasesAreCurrent, Current, ClosedByOwn, TrippedByFresh

LEMMA StepDated ==
  ASSUME TypeOK, TypeOK', IInv, IInv', Dated, [Next]_vars
  PROVE  Kept
<1>1. ASSUME NEW s \in Starts, Judges(s) PROVE Kept
  BY <1>1, JudgesKeeps
<1>2. CASE Cool \/ UNCHANGED vars
  BY <1>2, IdleDated
<1>3. ASSUME NEW s \in Starts,
             \/ AdmitRun(s) \/ AdmitStart(s) \/ AdmitTotal(s)
             \/ Pause(s) \/ BringResults(s) \/ AdmitResume(s) \/ DropResume(s) \/ Resume(s)
             \/ AdmitRecovery(s) \/ Reopen(s) \/ ReopenFailed(s)
      PROVE  Kept
  BY <1>1, <1>3, AdmissionJudges
<1>4. ASSUME NEW s \in Starts,
             \/ TimeOut(s) \/ Abandon(s) \/ OpenTimedOut(s) \/ Rejected(s)
             \/ ReopenTimedOut(s) \/ End(s)
      PROVE  Kept
  BY <1>1, <1>4, EndingJudges
<1>5. ASSUME NEW s \in Starts,
             \/ Accepted(s) \/ Unreachable(s) \/ Spawn(s)
             \/ \E ok \in BOOLEAN : Http1Answers(s, ok)
             \/ \E moves \in BOOLEAN : LoseStream(s, moves)
      PROVE  Kept
  BY <1>1, <1>5, VerdictJudges
<1>6. ASSUME NEW s \in Starts, NEW ok \in BOOLEAN, ProbeAnswers(s, ok) PROVE Kept
  BY <1>1, <1>6, ProbeJudges
<1>7. ASSUME NEW s \in Starts, Route(s) PROVE Kept
  BY <1>7, RouteDated
<1> QED
  BY <1>2, <1>3, <1>4, <1>5, <1>6, <1>7 DEF Next, Opening, Recovering

LEMMA InitDated == Init => Dated
<1> SUFFICES ASSUME Init PROVE Dated
  OBVIOUS
<1>1. PICK sand \in SUBSET MaybeSand : start = [s \in Starts |-> [New EXCEPT !.sand = s \in sand]]
  BY DEF Init
<1>2. ASSUME NEW s \in Starts
      PROVE  start[s].at = "run wait" /\ start[s].probe = 0
  <2> DEFINE b == s \in sand
  <2>1. start[s] = [New EXCEPT !.sand = b]
    BY <1>1
  <2> HIDE DEF b
  <2> QED
    BY <2>1 DEF New
<1> QED
  BY <1>2 DEF Dated, OpensAreDated, LeasesAreCurrent, Current, Asked

\* Late evidence moves the breaker in neither direction: what closes it is the
\* answer to a Run under the lease of this epoch, what trips it an open that
\* began in this epoch, however opens, resets, probes and verdicts interleave.
THEOREM NoLateVerdict == Spec => BreakerFollowsEvidence
<1>1. Init => TypeOK /\ IInv /\ Dated
  BY InitInvariant, InitDated
<1>2. TypeOK /\ IInv /\ Dated /\ [Next]_vars => TypeOK' /\ IInv' /\ Dated'
  BY StepKeeps, StepDated DEF Kept
<1>3. TypeOK /\ IInv /\ Dated /\ [Next]_vars => [ClosedByOwn]_vars /\ [TrippedByFresh]_vars
  BY StepKeeps, StepDated DEF Kept
<1>4. Spec => [][ClosedByOwn]_vars /\ [][TrippedByFresh]_vars
  BY <1>1, <1>2, <1>3, PTL DEF Spec
<1> QED
  BY <1>4 DEF BreakerFollowsEvidence, ClosedByOwnRun, TrippedByFreshOpen, ClosedByOwn,
              TrippedByFresh

-----------------------------------------------------------------------------
(* Counting.                                                                *)

One(b) == IF b THEN 1 ELSE 0

\* Only the membership of x may differ between S and T.
LEMMA CountOne ==
  ASSUME NEW S, NEW T, NEW x, IsFiniteSet(S), IsFiniteSet(T), S \ {x} = T \ {x}
  PROVE  Cardinality(T) + One(x \in S) = Cardinality(S) + One(x \in T)
<1>1. Cardinality(S) \in Nat /\ Cardinality(T) \in Nat
  BY FS_CardinalityType
<1>2. Cardinality(S \ {x}) = Cardinality(S) - One(x \in S)
  BY <1>1, FS_RemoveElement DEF One
<1>3. Cardinality(T \ {x}) = Cardinality(T) - One(x \in T)
  BY <1>1, FS_RemoveElement DEF One
<1> QED
  BY <1>1, <1>2, <1>3 DEF One

LEMMA SmallerCount ==
  ASSUME NEW S, IsFiniteSet(S), NEW T, NEW x \in S, T \subseteq S \ {x}
  PROVE  Cardinality(T) < Cardinality(S)
<1>1. T \in SUBSET S /\ T # S
  OBVIOUS
<1>2. Cardinality(T) <= Cardinality(S) /\ Cardinality(T) # Cardinality(S) /\ IsFiniteSet(T)
  BY <1>1, FS_Subset
<1>3. Cardinality(T) \in Nat /\ Cardinality(S) \in Nat
  BY <1>2, FS_CardinalityType
<1> QED
  BY <1>2, <1>3

\* The permits of gate g that start n and the resume of its Run hold.
Weight(n, g) == One(g \in n.held) + One(g = "total" /\ n.client = "resuming")

LEMMA WeightAdds ==
  ASSUME NEW n, NEW m, NEW p, p \notin n.held, m.held = n.held \cup {p}, m.client = n.client,
         NEW g \in Gates
  PROVE  Weight(n, g) \in Nat /\ Weight(m, g) = IF g = p THEN Weight(n, g) + 1 ELSE Weight(n, g)
<1> DEFINE r == One(g = "total" /\ n.client = "resuming")
<1>1. /\ Weight(n, g) = One(g \in n.held) + r /\ Weight(m, g) = One(g \in m.held) + r
      /\ r \in Nat
  BY DEF Weight, One
<1> HIDE DEF r
<1>2. CASE g = p
  <2>1. One(g \in n.held) = 0 /\ One(g \in m.held) = 1
    BY <1>2 DEF One
  <2> QED
    BY <1>1, <1>2, <2>1
<1>3. CASE g # p
  <2>1. One(g \in n.held) = One(g \in m.held) /\ One(g \in n.held) \in Nat
    BY <1>3 DEF One
  <2> QED
    BY <1>1, <1>3, <2>1
<1> QED
  BY <1>2, <1>3

Resuming == {t \in Starts : start[t].client = "resuming"}

Having(g) == {t \in Starts : g \in start[t].held}

LEMMA HoldersStep ==
  ASSUME NEW s \in Starts, \A t \in Starts \ {s} : start'[t] = start[t], NEW g \in Gates
  PROVE  /\ Holders(g) \in Nat /\ Holders(g)' \in Nat
         /\ Holders(g)' + Weight(start[s], g) = Holders(g) + Weight(start'[s], g)
<1>1. IsFiniteSet(Having(g)) /\ IsFiniteSet(Having(g)') /\ IsFiniteSet(Resuming) /\ IsFiniteSet(Resuming')
  BY LiveStartAssumption, FS_Subset DEF Having, Resuming
<1>2. /\ Cardinality(Having(g)) \in Nat /\ Cardinality(Having(g)') \in Nat
      /\ Cardinality(Resuming) \in Nat /\ Cardinality(Resuming') \in Nat
  BY <1>1, FS_CardinalityType
<1>3. Cardinality(Having(g)') + One(s \in Having(g)) = Cardinality(Having(g)) + One(s \in Having(g)')
  <2>1. Having(g) \ {s} = Having(g)' \ {s}
    BY DEF Having
  <2> QED
    BY <1>1, <2>1, CountOne
<1>4. Cardinality(Resuming') + One(s \in Resuming) = Cardinality(Resuming) + One(s \in Resuming')
  <2>1. Resuming \ {s} = Resuming' \ {s}
    BY DEF Resuming
  <2> QED
    BY <1>1, <2>1, CountOne
<1>5. /\ One(s \in Having(g)) = One(g \in start[s].held)
      /\ One(s \in Having(g)') = One(g \in start'[s].held)
      /\ One(s \in Resuming) = One(start[s].client = "resuming")
      /\ One(s \in Resuming') = One(start'[s].client = "resuming")
  BY DEF Having, Resuming, One
<1>6. /\ Holders(g) = Cardinality(Having(g)) + (IF g = "total" THEN Cardinality(Resuming) ELSE 0)
      /\ Holders(g)' = Cardinality(Having(g)') + (IF g = "total" THEN Cardinality(Resuming') ELSE 0)
  BY DEF Holders, Having, Resuming
<1> HIDE DEF Having, Resuming
<1>7. CASE g = "total"
  BY <1>2, <1>3, <1>4, <1>5, <1>6, <1>7 DEF Weight, One
<1>8. CASE g # "total"
  BY <1>2, <1>3, <1>5, <1>6, <1>8 DEF Weight, One
<1> QED
  BY <1>7, <1>8

-----------------------------------------------------------------------------
(* The inductive invariant.                                                 *)

StartPermits == {"ordinary", "reserve"}

\* Which permits a start or its Run holds where it stands.
Placed(s, n) ==
  /\ n.at = "run wait" => "run" \notin n.held
  /\ n.at \in {"run wait", "start wait"} => n.held \cap StartPermits = {}
  /\ n.at = "total wait" => n.held \cap StartPermits # {}
  /\ n.at \in Queues => "total" \notin n.held
  /\ "recovery" \in n.held <=> n.at = "reopening"
  /\ n.client # "reading" => n.at \in Drives /\ n.held \cap BetweenSegments = {}
  /\ "reserve" \in n.held => s \in Interactive

PInv == PermitsConserved /\ \A s \in Starts : Placed(s, start[s])

\* A step of one start that takes from the gates what the start gains.
LEMMA BalancedStep ==
  ASSUME TypeOK, TypeOK', PInv, NEW s \in Starts,
         \A t \in Starts \ {s} : start'[t] = start[t], Placed(s, start'[s]),
         \A g \in Gates : free'[g] + Weight(start'[s], g) = free[g] + Weight(start[s], g)
  PROVE  PInv'
<1>1. \A t \in Starts : Placed(t, start'[t])
  BY DEF PInv
<1>2. PermitsConserved'
  <2> SUFFICES ASSUME NEW g \in Gates
               PROVE  free'[g] + Holders(g)' = Capacity[g]
    BY DEF PermitsConserved
  <2>1. free[g] \in Nat /\ free'[g] \in Nat /\ free[g] + Holders(g) = Capacity[g]
    BY DEF TypeOK, PInv, PermitsConserved
  <2>2. Weight(start[s], g) \in Nat /\ Weight(start'[s], g) \in Nat
    BY DEF Weight, One
  <2>3. /\ Holders(g) \in Nat /\ Holders(g)' \in Nat
        /\ Holders(g)' + Weight(start[s], g) = Holders(g) + Weight(start'[s], g)
    BY HoldersStep
  <2>4. free'[g] + Weight(start'[s], g) = free[g] + Weight(start[s], g)
    OBVIOUS
  <2> QED
    BY <2>1, <2>2, <2>3, <2>4
<1> QED
  BY <1>1, <1>2 DEF PInv

\* A step that takes and gives back nothing.
LEMMA MoveKeeps ==
  ASSUME TypeOK, TypeOK', PInv, NEW s \in Starts,
         \A t \in Starts \ {s} : start'[t] = start[t], free' = free,
         start'[s].held = start[s].held,
         start'[s].client = "resuming" <=> start[s].client = "resuming",
         Placed(s, start'[s])
  PROVE  PInv'
<1>1. \A g \in Gates : Weight(start'[s], g) = Weight(start[s], g)
  BY DEF Weight, One
<1> QED
  BY <1>1, BalancedStep

-----------------------------------------------------------------------------
(* The steps.                                                               *)

LEMMA TakeFields ==
  ASSUME TypeOK, NEW s \in Starts, NEW g, NEW at, Take(s, g, at)
  PROVE  /\ \A t \in Starts \ {s} : start'[t] = start[t]
         /\ start'[s].at = at /\ start'[s].held = start[s].held \cup {g}
         /\ start'[s].client = start[s].client
<1>1. start' = [start EXCEPT ![s] = [start[s] EXCEPT !.held = start[s].held \cup {g}, !.at = at]]
  BY DEF Take, TypeOK, Start
<1>2. start'[s] = [start[s] EXCEPT !.held = start[s].held \cup {g}, !.at = at]
  BY <1>1 DEF TypeOK
<1> QED
  BY <1>1, <1>2 DEF TypeOK, Start

LEMMA TakeBalances ==
  ASSUME TypeOK, TypeOK', PInv, NEW s \in Starts, NEW g \in Gates, NEW at,
         Take(s, g, at), g \notin start[s].held, start[s].client = "reading",
         Placed(s, start'[s])
  PROVE  PInv'
<1>1. /\ \A t \in Starts \ {s} : start'[t] = start[t]
      /\ start'[s].held = start[s].held \cup {g} /\ start'[s].client = "reading"
  BY TakeFields
<1>2. \A x \in Gates : free[x] \in Nat /\ free'[x] = IF x = g THEN free[x] - 1 ELSE free[x]
  BY DEF Take, TypeOK
<1>3. \A x \in Gates : Weight(start'[s], x) = Weight(start[s], x) + One(x = g)
  BY <1>1 DEF Weight, One
<1>4. \A x \in Gates : Weight(start[s], x) \in Nat
  BY DEF Weight, One
<1>5. \A x \in Gates : free'[x] + Weight(start'[s], x) = free[x] + Weight(start[s], x)
  BY <1>2, <1>3, <1>4 DEF One
<1> QED
  BY <1>1, <1>5, BalancedStep

LEMMA AdmissionBalances ==
  ASSUME TypeOK, TypeOK', PInv, NEW s \in Starts, AdmitRun(s) \/ AdmitStart(s) \/ AdmitTotal(s)
  PROVE  PInv'
<1>1. Placed(s, start[s]) /\ start[s].at \in Queues
  BY DEF PInv, AdmitRun, AdmitStart, AdmitTotal, Queues
<1>2. start[s].client = "reading" /\ "recovery" \notin start[s].held /\ "total" \notin start[s].held
  BY <1>1 DEF Placed, Queues, Drives
<1>3. CASE AdmitRun(s)
  <2>1. Take(s, "run", "start wait") /\ start[s].at = "run wait"
    BY <1>3 DEF AdmitRun
  <2>2. /\ start'[s].at = "start wait" /\ start'[s].held = start[s].held \cup {"run"}
        /\ start'[s].client = start[s].client
    BY <2>1, TakeFields
  <2>3. "run" \notin start[s].held /\ Placed(s, start'[s])
    BY <1>1, <1>2, <2>1, <2>2 DEF Placed, StartPermits, Queues
  <2> QED
    BY <1>2, <2>1, <2>3, TakeBalances DEF Gates
<1>4. CASE AdmitStart(s)
  <2>1. PICK g \in StartPermits : Take(s, g, "total wait") /\ (g = "reserve" => s \in Interactive)
    BY <1>4 DEF AdmitStart, StartPermits
  <2>2. /\ start'[s].at = "total wait" /\ start'[s].held = start[s].held \cup {g}
        /\ start'[s].client = start[s].client
    BY <2>1, TakeFields
  <2>3. g \notin start[s].held /\ Placed(s, start'[s])
    BY <1>1, <1>2, <1>4, <2>1, <2>2 DEF AdmitStart, Placed, StartPermits, Queues
  <2> QED
    BY <1>2, <2>1, <2>3, TakeBalances DEF Gates, StartPermits
<1>5. CASE AdmitTotal(s)
  <2>1. Take(s, "total", "route") /\ start[s].at = "total wait"
    BY <1>5 DEF AdmitTotal
  <2>2. /\ start'[s].at = "route" /\ start'[s].held = start[s].held \cup {"total"}
        /\ start'[s].client = start[s].client
    BY <2>1, TakeFields
  <2>3. Placed(s, start'[s])
    BY <1>1, <1>2, <2>1, <2>2 DEF Placed, StartPermits, Queues
  <2> QED
    BY <1>2, <2>1, <2>3, TakeBalances DEF Gates
<1> QED
  BY <1>3, <1>4, <1>5

LEMMA LeaveBalances ==
  ASSUME TypeOK, TypeOK', PInv, NEW s \in Starts, NEW c, Leave(s, c)
  PROVE  PInv'
<1>1. \A t \in Starts \ {s} : start'[t] = start[t]
  BY DEF Leave, TypeOK
<1>2. start'[s] = Done /\ Done.at = "done" /\ Done.held = {} /\ Done.client = "reading"
  BY DEF Leave, TypeOK, Done, New
<1>3. Placed(s, start'[s])
  BY <1>2 DEF Placed, Queues
<1>4. \A g \in Gates : free[g] \in Nat /\ free'[g] = free[g] + Weight(start[s], g)
  BY DEF Leave, TypeOK, Weight, One
<1>5. \A g \in Gates : Weight(start'[s], g) = 0 /\ Weight(start[s], g) \in Nat
  BY <1>2 DEF Weight, One
<1>6. \A g \in Gates : free'[g] + Weight(start'[s], g) = free[g] + Weight(start[s], g)
  BY <1>4, <1>5
<1> QED
  BY <1>1, <1>3, <1>6, BalancedStep

LEMMA EndingBalances ==
  ASSUME TypeOK, TypeOK', PInv, NEW s \in Starts,
         \/ TimeOut(s) \/ Abandon(s) \/ OpenTimedOut(s) \/ Rejected(s)
         \/ ReopenTimedOut(s) \/ End(s)
         \/ Http1Answers(s, FALSE) \/ (Unreachable(s) /\ start[s].sand)
  PROVE  PInv'
<1>1. \E c : Leave(s, c)
  BY DEF TimeOut, Abandon, OpenTimedOut, Rejected, ReopenTimedOut, End, Http1Answers, Unreachable
<1> QED
  BY <1>1, LeaveBalances

\* The steps of an open take no permit.
LEMMA OpenBalances ==
  ASSUME TypeOK, TypeOK', PInv, NEW s \in Starts,
         \/ Route(s) \/ ProbeAnswers(s, TRUE) \/ ProbeAnswers(s, FALSE) \/ Http1Answers(s, TRUE)
         \/ Accepted(s) \/ (Unreachable(s) /\ ~start[s].sand) \/ Spawn(s)
  PROVE  PInv'
<1>1. free' = free /\ \A t \in Starts \ {s} : start'[t] = start[t]
  BY DEF Route, ProbeAnswers, Http1Answers, Goto, Accepted, Unreachable, Spawn, TypeOK
<1>2. /\ start'[s].held = start[s].held /\ start'[s].client = start[s].client
      /\ start[s].at \in Opens \cup {"route", "opened"}
      /\ start'[s].at \in Opens \cup {"opened", "driving"}
  <2>1. CASE Route(s)
    BY <2>1 DEF Route, TypeOK, Start, Opens
  <2>2. CASE ProbeAnswers(s, TRUE) \/ ProbeAnswers(s, FALSE)
    <3>1. start[s].at = "probing" /\ \E h2, id :
            start' = [start EXCEPT ![s].at = "opening", ![s].h2 = h2, ![s].probe = id]
      BY <2>2 DEF ProbeAnswers
    <3>2. /\ start'[s].held = start[s].held /\ start'[s].client = start[s].client
          /\ start'[s].at = "opening"
      BY <3>1 DEF TypeOK, Start
    <3> QED
      BY <3>1, <3>2 DEF Opens
  <2>3. CASE Http1Answers(s, TRUE)
    BY <2>3 DEF Http1Answers, Goto, TypeOK, Start, Opens
  <2>4. CASE Accepted(s)
    BY <2>4 DEF Accepted, TypeOK, Start, Opens
  <2>5. CASE Unreachable(s) /\ ~start[s].sand
    BY <2>5 DEF Unreachable, TypeOK, Start, Opens
  <2>6. CASE Spawn(s)
    BY <2>6 DEF Spawn, TypeOK, Start, Opens
  <2> QED
    BY <2>1, <2>2, <2>3, <2>4, <2>5, <2>6
<1>3. Placed(s, start'[s])
  BY <1>2 DEF PInv, Placed, Opens, Queues, Drives
<1> QED
  BY <1>1, <1>2, <1>3, MoveKeeps


\* The steps between the segments of a Run.
LEMMA SegmentBalances ==
  ASSUME TypeOK, TypeOK', PInv, NEW s \in Starts,
         \/ Pause(s) \/ Resume(s) \/ AdmitResume(s) \/ DropResume(s) \/ BringResults(s)
  PROVE  PInv'
<1>1. Placed(s, start[s]) /\ \A g \in Gates : free[g] \in Nat
  BY DEF PInv, TypeOK
<1>2. \A t \in Starts \ {s} : start'[t] = start[t]
  BY DEF Pause, Resume, AdmitResume, DropResume, BringResults, TypeOK
<1>3. CASE Pause(s)
  <2>1. /\ start[s].at = "driving" /\ start[s].client = "reading" /\ start'[s].at = "driving"
        /\ start'[s].held = start[s].held \ BetweenSegments /\ start'[s].client = "tools"
    BY <1>3 DEF Pause, TypeOK, Start
  <2>2. Placed(s, start'[s])
    BY <1>1, <2>1 DEF Placed, Drives, Queues, BetweenSegments
  <2>3. \A g \in Gates : free'[g] = free[g] + One(g \in start[s].held \cap BetweenSegments)
    BY <1>1, <1>3 DEF Pause, GiveBack, One
  <2>4. \A g \in Gates : /\ Weight(start[s], g) = One(g \in start[s].held)
                         /\ Weight(start'[s], g) = One(g \in start[s].held \ BetweenSegments)
    BY <2>1 DEF Weight, One
  <2>5. \A g \in Gates : free'[g] + Weight(start'[s], g) = free[g] + Weight(start[s], g)
    BY <1>1, <2>3, <2>4 DEF One
  <2> QED
    BY <1>2, <2>2, <2>5, BalancedStep
<1>4. CASE Resume(s)
  <2>1. /\ start[s].at = "driving" /\ start[s].client = "resuming" /\ start'[s].at = "driving"
        /\ start'[s].held = (start[s].held \ BetweenSegments) \cup {"total"}
        /\ start'[s].client = "reading"
    BY <1>4 DEF Resume, TypeOK, Start
  <2>2. start[s].held \cap BetweenSegments = {}
    BY <1>1, <2>1 DEF Placed
  <2>3. Placed(s, start'[s])
    BY <1>1, <2>1, <2>2 DEF Placed, Drives, Queues, BetweenSegments
  <2>4. \A g \in Gates : free'[g] = free[g]
    BY <1>4, <2>2 DEF Resume, GiveBack
  <2>5. \A g \in Gates : Weight(start'[s], g) = Weight(start[s], g)
    BY <2>1, <2>2 DEF Weight, One, BetweenSegments
  <2>6. \A g \in Gates : free'[g] + Weight(start'[s], g) = free[g] + Weight(start[s], g)
    BY <2>4, <2>5
  <2> QED
    BY <1>2, <2>3, <2>6, BalancedStep
<1>5. CASE AdmitResume(s)
  <2>1. /\ start[s].client = "queued" /\ start'[s].client = "resuming"
        /\ start'[s].at = start[s].at /\ start'[s].held = start[s].held
    BY <1>5 DEF AdmitResume, TypeOK, Start
  <2>2. Placed(s, start'[s])
    BY <1>1, <2>1 DEF Placed
  <2>3. \A g \in Gates : free'[g] = free[g] - One(g = "total")
    BY <1>1, <1>5 DEF AdmitResume, One, TypeOK
  <2>4. \A g \in Gates : /\ Weight(start[s], g) = One(g \in start[s].held)
                         /\ Weight(start'[s], g) = Weight(start[s], g) + One(g = "total")
    BY <2>1 DEF Weight, One
  <2>5. \A g \in Gates : free'[g] + Weight(start'[s], g) = free[g] + Weight(start[s], g)
    BY <1>1, <2>3, <2>4 DEF One
  <2> QED
    BY <1>2, <2>2, <2>5, BalancedStep
<1>6. CASE DropResume(s)
  <2>1. /\ start[s].client \in {"queued", "resuming"} /\ start'[s].client = "tools"
        /\ start'[s].at = start[s].at /\ start'[s].held = start[s].held
    BY <1>6 DEF DropResume, TypeOK, Start
  <2>2. Placed(s, start'[s])
    BY <1>1, <2>1 DEF Placed
  <2>3. \A g \in Gates : free'[g] = free[g] + One(g = "total" /\ start[s].client = "resuming")
    BY <1>1, <1>6 DEF DropResume, GiveBack, One
  <2>4. \A g \in Gates :
          /\ Weight(start'[s], g) = One(g \in start[s].held)
          /\ Weight(start[s], g) = Weight(start'[s], g) + One(g = "total" /\ start[s].client = "resuming")
    BY <2>1 DEF Weight, One
  <2>5. \A g \in Gates : free'[g] + Weight(start'[s], g) = free[g] + Weight(start[s], g)
    BY <1>1, <2>3, <2>4 DEF One
  <2> QED
    BY <1>2, <2>2, <2>5, BalancedStep
<1>7. CASE BringResults(s)
  <2>1. /\ start[s].client = "tools" /\ start'[s].client = "queued" /\ free' = free
        /\ start'[s].at = start[s].at /\ start'[s].held = start[s].held
    BY <1>7 DEF BringResults, TypeOK, Start
  <2>2. Placed(s, start'[s])
    BY <1>1, <2>1 DEF Placed
  <2> QED
    BY <1>2, <2>1, <2>2, MoveKeeps
<1> QED
  BY <1>3, <1>4, <1>5, <1>6, <1>7

\* The steps of a reopen.
LEMMA ReopenBalances ==
  ASSUME TypeOK, TypeOK', PInv, NEW s \in Starts,
         \/ \E moves \in BOOLEAN : LoseStream(s, moves)
         \/ AdmitRecovery(s) \/ Reopen(s) \/ ReopenFailed(s)
  PROVE  PInv'
<1>1. Placed(s, start[s]) /\ \A g \in Gates : free[g] \in Nat
  BY DEF PInv, TypeOK
<1>2. CASE \E moves \in BOOLEAN : LoseStream(s, moves)
  <2>1. /\ \A t \in Starts \ {s} : start'[t] = start[t]
        /\ start[s].at = "driving" /\ start'[s].at = "recovery wait" /\ free' = free
        /\ start'[s].held = start[s].held /\ start'[s].client = start[s].client
    <3>1. PICK n \in Start : /\ start' = [start EXCEPT ![s] = n] /\ n.at = "recovery wait"
                             /\ n.held = start[s].held /\ n.client = start[s].client
      BY <1>2, LoseFields
    <3>2. start'[s] = n /\ \A t \in Starts \ {s} : start'[t] = start[t]
      BY <3>1 DEF TypeOK
    <3>3. start[s].at = "driving" /\ free' = free
      BY <1>2, LoseFields
    <3> QED
      BY <3>1, <3>2, <3>3
  <2>2. Placed(s, start'[s])
    BY <1>1, <2>1 DEF Placed, Drives, Queues
  <2> QED
    BY <2>1, <2>2, MoveKeeps
<1>3. CASE AdmitRecovery(s)
  <2>1. /\ \A t \in Starts \ {s} : start'[t] = start[t]
        /\ start[s].at = "recovery wait" /\ start'[s].at = "reopening"
        /\ start'[s].held = start[s].held \cup {"recovery"} /\ start'[s].client = start[s].client
    BY <1>3 DEF AdmitRecovery, TypeOK, Start
  <2>2. Placed(s, start'[s]) /\ "recovery" \notin start[s].held
    BY <1>1, <2>1 DEF Placed, Drives, Queues, BetweenSegments
  <2>3. \A g \in Gates : free'[g] = free[g] - One(g = "recovery")
    <3>1. free' = [free EXCEPT !["recovery"] = @ - 1]
      BY <1>3 DEF AdmitRecovery
    <3> QED
      BY <1>1, <3>1 DEF One, TypeOK
  <2>4. \A g \in Gates : /\ Weight(start[s], g) \in Nat
                         /\ Weight(start'[s], g) = IF g = "recovery" THEN Weight(start[s], g) + 1 ELSE Weight(start[s], g)
    <3>1. /\ "recovery" \notin start[s].held /\ start'[s].held = start[s].held \cup {"recovery"}
          /\ start'[s].client = start[s].client
      BY <2>1, <2>2
    <3> DEFINE m == start[s]
               n == start'[s]
    <3>2. "recovery" \notin m.held /\ n.held = m.held \cup {"recovery"} /\ n.client = m.client
      BY <3>1
    <3> HIDE DEF m, n
    <3>3. \A g \in Gates : /\ Weight(m, g) \in Nat
                           /\ Weight(n, g) = IF g = "recovery" THEN Weight(m, g) + 1 ELSE Weight(m, g)
      BY <3>2, WeightAdds
    <3> QED
      BY <3>3 DEF m, n
  <2>5. \A g \in Gates : free'[g] + Weight(start'[s], g) = free[g] + Weight(start[s], g)
    BY <1>1, <2>3, <2>4 DEF One
  <2> QED
    BY <2>1, <2>2, <2>5, BalancedStep
<1>4. CASE Reopen(s) \/ ReopenFailed(s)
  <2>1. /\ \A t \in Starts \ {s} : start'[t] = start[t]
        /\ start[s].at = "reopening" /\ start'[s].at \in {"driving", "recovery wait"}
        /\ start'[s].held = start[s].held \ {"recovery"} /\ start'[s].client = start[s].client
    BY <1>4, ReopenFields DEF TypeOK
  <2>2. Placed(s, start'[s]) /\ "recovery" \in start[s].held
    BY <1>1, <2>1 DEF Placed, Drives, Queues, BetweenSegments
  <2>3. \A g \in Gates : free'[g] = free[g] + One(g = "recovery")
    <3>1. free' = [free EXCEPT !["recovery"] = @ + 1]
      BY <1>4 DEF Reopen, ReopenFailed
    <3> QED
      BY <1>1, <3>1 DEF One, TypeOK
  <2>4. \A g \in Gates : /\ Weight(start'[s], g) \in Nat
                         /\ Weight(start[s], g) = IF g = "recovery" THEN Weight(start'[s], g) + 1 ELSE Weight(start'[s], g)
    <3>1. /\ "recovery" \notin start'[s].held /\ start[s].held = start'[s].held \cup {"recovery"}
          /\ start[s].client = start'[s].client
      BY <2>1, <2>2
    <3> DEFINE m == start'[s]
               n == start[s]
    <3>2. "recovery" \notin m.held /\ n.held = m.held \cup {"recovery"} /\ n.client = m.client
      BY <3>1
    <3> HIDE DEF m, n
    <3>3. \A g \in Gates : /\ Weight(m, g) \in Nat
                           /\ Weight(n, g) = IF g = "recovery" THEN Weight(m, g) + 1 ELSE Weight(m, g)
      BY <3>2, WeightAdds
    <3> QED
      BY <3>3 DEF m, n
  <2>5. \A g \in Gates : free'[g] + Weight(start'[s], g) = free[g] + Weight(start[s], g)
    BY <1>1, <2>3, <2>4 DEF One
  <2> QED
    BY <2>1, <2>2, <2>5, BalancedStep
<1> QED
  BY <1>2, <1>3, <1>4


LEMMA InitBalanced == Init => PInv
<1> SUFFICES ASSUME Init
             PROVE  PInv
  OBVIOUS
<1>1. PICK sand \in SUBSET MaybeSand : start = [s \in Starts |-> [New EXCEPT !.sand = s \in sand]]
  BY DEF Init
<1>2. \A s \in Starts : start[s].at = "run wait" /\ start[s].held = {} /\ start[s].client = "reading"
  BY <1>1 DEF New
<1>3. \A s \in Starts : Placed(s, start[s])
  BY <1>2 DEF Placed, Drives, StartPermits
<1>4. \A g \in Gates : Having(g) = {} /\ Resuming = {}
  BY <1>2 DEF Having, Resuming
<1>5. \A g \in Gates : Holders(g) = 0
  BY <1>4, FS_EmptySet DEF Holders, Having, Resuming
<1>6. \A g \in Gates : Capacity[g] \in Nat
  BY LiveStartAssumption DEF Capacity, Gates
<1>7. PermitsConserved
  BY <1>5, <1>6 DEF PermitsConserved, Init
<1> QED
  BY <1>3, <1>7 DEF PInv

LEMMA StepBalances == TypeOK /\ TypeOK' /\ PInv /\ [Next]_vars => PInv'
<1> SUFFICES ASSUME TypeOK, TypeOK', PInv, [Next]_vars
             PROVE  PInv'
  OBVIOUS
<1>1. CASE Cool
  <2>1. free' = free /\ start' = start
    BY <1>1 DEF Cool
  <2> QED
    BY <2>1 DEF PInv, PermitsConserved, Holders
<1>2. ASSUME NEW s \in Starts, AdmitRun(s) \/ AdmitStart(s) \/ AdmitTotal(s)
      PROVE  PInv'
  BY <1>2, AdmissionBalances
<1>3. ASSUME NEW s \in Starts,
             \/ TimeOut(s) \/ Abandon(s) \/ OpenTimedOut(s) \/ Rejected(s) \/ ReopenTimedOut(s) \/ End(s)
             \/ Http1Answers(s, FALSE)
      PROVE  PInv'
  BY <1>3, EndingBalances
<1>4. ASSUME NEW s \in Starts,
             \/ Route(s) \/ ProbeAnswers(s, TRUE) \/ ProbeAnswers(s, FALSE) \/ Http1Answers(s, TRUE)
             \/ Accepted(s) \/ Spawn(s)
      PROVE  PInv'
  BY <1>4, OpenBalances
<1>5. ASSUME NEW s \in Starts, Unreachable(s)
      PROVE  PInv'
  BY <1>5, OpenBalances, EndingBalances
<1>6. ASSUME NEW s \in Starts, \/ Pause(s) \/ Resume(s) \/ AdmitResume(s) \/ DropResume(s) \/ BringResults(s)
      PROVE  PInv'
  BY <1>6, SegmentBalances
<1>7. ASSUME NEW s \in Starts, \/ \E moves \in BOOLEAN : LoseStream(s, moves)
                               \/ AdmitRecovery(s) \/ Reopen(s) \/ ReopenFailed(s)
      PROVE  PInv'
  BY <1>7, ReopenBalances
<1>8. CASE UNCHANGED vars
  <2>1. free' = free /\ start' = start
    BY <1>8 DEF vars
  <2> QED
    BY <2>1 DEF PInv, PermitsConserved, Holders
<1> QED
  BY <1>1, <1>2, <1>3, <1>4, <1>5, <1>6, <1>7, <1>8 DEF Next, Opening, Recovering

-----------------------------------------------------------------------------
(* What conservation means for a start or a resume that waits.              *)

\* Runs that hold a total permit next to a start permit.
Started == {s \in Starts : "total" \in start[s].held /\ start[s].held \cap StartPermits # {}}

Starters == Having("ordinary") \cup Having("reserve")

LEMMA TotalSplits ==
  ASSUME TypeOK, PInv
  PROVE  /\ Cardinality(Started) \in Nat /\ Cardinality(Resumed) \in Nat /\ free["total"] \in Nat
         /\ free["total"] + Cardinality(Started) + Cardinality(Resumed)
              = Limit + InteractiveReserve + ResumeReserve
<1> DEFINE B == {s \in Starts : "total" \in start[s].held /\ start[s].held \cap StartPermits = {}}
<1>1. IsFiniteSet(Started) /\ IsFiniteSet(B) /\ IsFiniteSet(Resuming) /\ IsFiniteSet(Resumed)
  BY LiveStartAssumption, FS_Subset DEF Started, Resuming, Resumed
<1>2. /\ Cardinality(Started) \in Nat /\ Cardinality(B) \in Nat /\ Cardinality(Resuming) \in Nat
      /\ Cardinality(Resumed) \in Nat /\ Cardinality({}) = 0
  BY <1>1, FS_CardinalityType, FS_EmptySet
<1>3. B \cap Resuming = {}
  BY DEF PInv, Placed, Resuming, BetweenSegments
<1>4. Started \cap B = {} /\ Having("total") = Started \cup B /\ Resumed = B \cup Resuming
  BY DEF Started, Having, Resumed, Resuming, StartPermits
<1> HIDE DEF B
<1>5. Cardinality(Having("total")) = Cardinality(Started) + Cardinality(B)
  BY <1>1, <1>2, <1>4, FS_Union
<1>6. Cardinality(Resumed) = Cardinality(B) + Cardinality(Resuming)
  <2>1. Cardinality(B \cup Resuming) = Cardinality(B) + Cardinality(Resuming) - Cardinality(B \cap Resuming)
    BY <1>1, FS_Union
  <2>2. Cardinality(B \cap Resuming) = 0
    BY <1>2, <1>3
  <2>3. Cardinality(Resumed) = Cardinality(B \cup Resuming)
    BY <1>4
  <2> QED
    BY <1>2, <2>1, <2>2, <2>3
<1>7. /\ free["total"] \in Nat
      /\ free["total"] + Holders("total") = Limit + InteractiveReserve + ResumeReserve
  BY DEF TypeOK, PInv, PermitsConserved, Gates, Capacity
<1>8. Holders("total") = Cardinality(Having("total")) + Cardinality(Resuming)
  BY DEF Holders, Having, Resuming
<1> QED
  BY <1>2, <1>5, <1>6, <1>7, <1>8

LEMMA StartersBounded ==
  ASSUME TypeOK, PInv
  PROVE  /\ IsFiniteSet(Starters) /\ Cardinality(Starters) \in Nat
         /\ Cardinality(Starters) <= Limit + InteractiveReserve
<1>1. IsFiniteSet(Having("ordinary")) /\ IsFiniteSet(Having("reserve"))
  BY LiveStartAssumption, FS_Subset DEF Having
<1>2. /\ IsFiniteSet(Starters)
      /\ Cardinality(Starters) = Cardinality(Having("ordinary")) + Cardinality(Having("reserve"))
                                   - Cardinality(Having("ordinary") \cap Having("reserve"))
  BY <1>1, FS_Union DEF Starters
<1>3. /\ Cardinality(Having("ordinary")) \in Nat /\ Cardinality(Having("reserve")) \in Nat
      /\ Cardinality(Having("ordinary") \cap Having("reserve")) \in Nat /\ Cardinality(Starters) \in Nat
  BY <1>1, <1>2, FS_CardinalityType, FS_Intersection
<1>4. /\ free["ordinary"] + Holders("ordinary") = Limit /\ free["ordinary"] \in Nat
      /\ free["reserve"] + Holders("reserve") = InteractiveReserve /\ free["reserve"] \in Nat
  BY DEF TypeOK, PInv, PermitsConserved, Gates, Capacity
<1>5. Holders("ordinary") = Cardinality(Having("ordinary")) /\ Holders("reserve") = Cardinality(Having("reserve"))
  BY <1>3 DEF Holders, Having
<1> QED
  BY <1>2, <1>3, <1>4, <1>5, LiveStartAssumption

LEMMA KeptPermits == TypeOK /\ PInv => PermitsHold
<1> SUFFICES ASSUME TypeOK, PInv
             PROVE  PermitsHold
  OBVIOUS
<1>1. /\ IsFiniteSet(Starters) /\ Cardinality(Starters) \in Nat
      /\ Cardinality(Starters) <= Limit + InteractiveReserve
  BY StartersBounded
<1>2. /\ Cardinality(Started) \in Nat /\ Cardinality(Resumed) \in Nat /\ free["total"] \in Nat
      /\ free["total"] + Cardinality(Started) + Cardinality(Resumed)
              = Limit + InteractiveReserve + ResumeReserve
  BY TotalSplits
<1>3. Limit \in Nat /\ InteractiveReserve \in Nat /\ ResumeReserve \in Nat
  BY LiveStartAssumption
<1>4. Started \subseteq Starters
  BY DEF Started, Starters, Having, StartPermits
<1>5. ResumeHeadroom
  <2>1. Cardinality(Started) <= Cardinality(Starters)
    BY <1>1, <1>4, FS_Subset
  <2> QED
    BY <1>1, <1>2, <1>3, <2>1 DEF ResumeHeadroom
<1>6. Cardinality(Started) < Cardinality(Starters) /\ Cardinality(Resumed) <= ResumeReserve
        => free["total"] > 0
  BY <1>1, <1>2, <1>3
<1>7. SecondStageOpen
  <2> SUFFICES ASSUME Cardinality(Resumed) <= ResumeReserve, NEW s \in Starts, start[s].at = "total wait"
               PROVE  free["total"] > 0
    BY DEF SecondStageOpen
  <2>1. s \in Starters /\ Started \subseteq Starters \ {s}
    BY <1>4 DEF PInv, Placed, Queues, Starters, Started, Having, StartPermits
  <2>2. Cardinality(Started) < Cardinality(Starters)
    BY <1>1, <2>1, SmallerCount
  <2> QED
    BY <1>6, <2>2
<1>8. BulkheadHolds
  <2>1. free["ordinary"] \in Nat /\ free["reserve"] \in Nat
    BY DEF TypeOK, Gates
  <2>2. {x \in Interactive : "reserve" \in start[x].held} = {x \in Starts : "reserve" \in start[x].held}
    BY LiveStartAssumption DEF PInv, Placed
  <2>3. free["reserve"] + Holders("reserve") = InteractiveReserve
    BY DEF PInv, PermitsConserved, Gates, Capacity
  <2>4. Holders("reserve") = Cardinality({x \in Interactive : "reserve" \in start[x].held}) + 0
    BY <2>2 DEF Holders
  <2>5. Cardinality({x \in Interactive : "reserve" \in start[x].held}) \in Nat
    <3>1. IsFiniteSet({x \in Starts : "reserve" \in start[x].held})
      BY LiveStartAssumption, FS_Subset
    <3> QED
      BY <2>2, <3>1, FS_CardinalityType
  <2>6. free["ordinary"] + free["reserve"] > 0
          \/ Cardinality({x \in Interactive : "reserve" \in start[x].held}) = InteractiveReserve
    BY <2>1, <2>3, <2>4, <2>5
  <2> QED
    BY <2>6 DEF BulkheadHolds
<1> QED
  BY <1>5, <1>7, <1>8 DEF PermitsHold, PInv

\* Every permit is free or held once, however admissions, resumes, reopens and
\* ends of Runs interleave; hence resumes find their headroom, a start with a
\* start permit is not held up by starts, and bulk starts leave the interactive
\* reserve alone.
THEOREM PermitsKept == Spec => []PermitsHold
<1> QED
  BY TypeCorrect, InitBalanced, StepBalances, KeptPermits, PTL DEF Spec

=============================================================================
