------------------------- MODULE PolicyProbeProofs -------------------------
(***************************************************************************)
(* Proofs about PolicyProbe, for every set of requests and every bound: a  *)
(* gate in Probing names a lease somebody will settle, and a quiet key is  *)
(* opened by one probe per window.                                         *)
(***************************************************************************)
EXTENDS PolicyProbe, FiniteSetTheorems, TLAPS

-----------------------------------------------------------------------------
(* The inductive invariant.                                                 *)

NobodyPublishes == \A a \in Attempts : attempt[a].at # "published"

\* A lease is of the gate's epoch or of an older one; a publisher that has reset
\* the gate holds one of an older epoch.
EpochsFollowGate ==
  \A a \in Attempts :
    attempt[a].leased => /\ attempt[a].epoch <= gate.epoch
                         /\ attempt[a].at = "releasing" => attempt[a].epoch < gate.epoch

\* Between the breaker and the reset of the gate nothing is fresh, and nobody
\* that has published is.
PublicationStales ==
  /\ ~NobodyPublishes => breaker /\ \A a \in Attempts : ~attempt[a].fresh
  /\ \A a \in Attempts : attempt[a].at \in {"published", "releasing", "late"} => ~attempt[a].fresh

\* A lease of the current epoch, once it has been confirmed, was confirmed since
\* the last policy result.
LeasesAreFresh ==
  NobodyPublishes =>
    \A a \in Attempts :
      /\ attempt[a].leased /\ attempt[a].epoch = gate.epoch
      /\ attempt[a].at # "chosen"
      => attempt[a].fresh

\* The gate is healthy only on the strength of somebody's output.
HealthIsProven == NobodyPublishes /\ gate.phase = "healthy" => proven

Current(a) ==
  attempt[a].leased /\ (attempt[a].aged \/ gate = Probing(attempt[a].epoch, a))

\* Who may open a key that is not proven is its current probe, or was one whose
\* window is over.
OpenersAreProbes ==
  NobodyPublishes /\ ~proven =>
    \A a \in Attempts :
      \/ attempt[a].at = "chosen" /\ ~breaker
      \/ attempt[a].at \in {"open", "held", "hollow", "limited", "served"} /\ attempt[a].fresh
      => Current(a)

IInv ==
  /\ EpochsFollowGate
  /\ PublicationStales
  /\ LeasesAreFresh
  /\ HealthIsProven
  /\ OpenersAreProbes
-----------------------------------------------------------------------------
(* Types, and leases that are settled.                                      *)

Typed ==
  /\ sand \in BOOLEAN /\ breaker \in BOOLEAN /\ proven \in BOOLEAN
  /\ gate \in Gate
  /\ attempt \in [Attempts -> Attempt]
  /\ results \in 0..MaxResults

\* A lease has an owner; a gate in Probing has the lease it names.
Leases ==
  /\ \A a \in Attempts : attempt[a].leased => attempt[a].at \notin {"new", "gate", "late", "served", "done"}
  /\ gate.phase = "probing" =>
       gate.by \in Attempts /\ attempt[gate.by].leased /\ attempt[gate.by].epoch = gate.epoch

LEMMA TypeOKParts == TypeOK <=> Typed /\ Leases
  BY DEF TypeOK, Typed, Leases

\* Settling a lease leaves a gate that is free or names another lease.
LEMMA LeaveKeepsTypes ==
  ASSUME Typed, Leases, NEW a \in Attempts, NEW place \in Places \ {"chosen"}, Leave(a, place)
  PROVE  /\ gate' \in Gate /\ attempt' \in [Attempts -> Attempt] /\ Leases'
<1>1. gate' \in Gate
  BY DEF Typed, Leave, Dropped, Gate, Unknown
<1>2. attempt' \in [Attempts -> Attempt]
  BY DEF Typed, Leave, Moved, Attempt
<1>3. ~attempt'[a].leased
  BY DEF Typed, Leave, Moved, Attempt
<1>4. \A b \in Attempts \ {a} : attempt'[b] = attempt[b]
  BY DEF Typed, Leave, Moved
<1>5. gate'.phase = "probing" => gate' = gate /\ gate.by # a
  <2>1. CASE gate.phase = "probing" /\ gate.by = a
    <3>1. gate = Probing(attempt[a].epoch, a) /\ attempt[a].leased
      BY <2>1 DEF Typed, Leases, Gate, Probing
    <3> QED
      BY <3>1 DEF Leave, Dropped, Unknown
  <2>2. CASE ~(gate.phase = "probing" /\ gate.by = a)
    BY <2>2 DEF Leave, Dropped, Unknown
  <2> QED
    BY <2>1, <2>2
<1> QED
  BY <1>1, <1>2, <1>3, <1>4, <1>5 DEF Leases

\* An attempt that takes no part in a lease changes hands with nobody.
LEMMA AttemptKeepsTypes ==
  ASSUME Typed, Leases, NEW a \in Attempts, NEW n \in Attempt,
         attempt' = [attempt EXCEPT ![a] = n], gate' = gate,
         n.leased = attempt[a].leased, n.leased => n.epoch = attempt[a].epoch,
         n.leased => n.at \notin {"new", "gate", "late", "served", "done"}
  PROVE  attempt' \in [Attempts -> Attempt] /\ Leases'
<1>1. attempt' \in [Attempts -> Attempt]
  BY DEF Typed
<1>2. \A b \in Attempts : /\ attempt'[b].leased = attempt[b].leased
                          /\ attempt[b].leased => attempt'[b].epoch = attempt[b].epoch
                          /\ b # a => attempt'[b] = attempt[b]
  BY DEF Typed
<1> QED
  BY <1>1, <1>2 DEF Leases, Typed

\* A new lease takes the gate; its predecessor's no longer counts.
LEMMA AcquireKeepsTypes ==
  ASSUME Typed, Leases, NEW a \in Attempts, Acquire(a)
  PROVE  gate' \in Gate /\ attempt' \in [Attempts -> Attempt] /\ Leases'
<1>1. gate' \in Gate /\ gate'.by = a /\ gate'.epoch = gate.epoch /\ gate'.phase = "probing"
  BY DEF Typed, Acquire, Gate, Probing
<1> DEFINE n == [attempt[a] EXCEPT !.at = "chosen", !.leased = TRUE,
                                   !.epoch = gate.epoch, !.aged = FALSE]
<1>0. n \in Attempt /\ attempt' = [attempt EXCEPT ![a] = n]
  BY DEF Typed, Acquire, Attempt, Places, Gate
<1>2. attempt' \in [Attempts -> Attempt]
  BY <1>0 DEF Typed
<1>3. attempt'[a].leased /\ attempt'[a].epoch = gate.epoch /\ attempt'[a].at = "chosen"
  BY DEF Typed, Acquire, Attempt
<1>4. \A b \in Attempts \ {a} : attempt'[b] = attempt[b]
  BY DEF Typed, Acquire
<1> QED
  BY <1>1, <1>2, <1>3, <1>4 DEF Leases

\* An attempt that waits at the gate holds no lease.
LEMMA AdmitKeepsTypes ==
  ASSUME Typed, Leases, NEW a \in Attempts, Admit(a)
  PROVE  Typed' /\ Leases'
<1> USE DEF Typed
<1>1. CASE Preflight(a)
  <2> DEFINE n == [attempt[a] EXCEPT !.at = IF breaker THEN "done" ELSE "gate"]
  <2>1. n \in Attempt /\ attempt' = [attempt EXCEPT ![a] = n] /\ ~attempt[a].leased /\ ~n.leased
    BY <1>1 DEF Preflight, Attempt, Places, Leases
  <2>2. n.leased = attempt[a].leased /\ n.epoch = attempt[a].epoch
    BY <2>1 DEF Attempt
  <2> QED
    BY <1>1, <2>1, <2>2, AttemptKeepsTypes DEF Preflight
<1>2. CASE Decide(a)
  <2>1. ~attempt[a].leased /\ attempt[a].at = "gate"
    BY <1>2 DEF Decide, Leases
  <2>2. CASE Acquire(a)
    BY <1>2, <2>2, AcquireKeepsTypes DEF Decide, Acquire
  <2>3. CASE Promote(a)
    <3>1. gate' \in Gate /\ gate'.phase = "healthy"
      BY <2>3 DEF Promote, Healthy, Gate
    <3> DEFINE n == [attempt[a] EXCEPT !.at = "chosen", !.aged = FALSE]
    <3>0. n \in Attempt /\ attempt' = [attempt EXCEPT ![a] = n]
      BY <2>3 DEF Promote, Attempt, Places
    <3>2. attempt' \in [Attempts -> Attempt]
      BY <3>0
    <3>3. /\ ~attempt'[a].leased
          /\ \A b \in Attempts \ {a} : attempt'[b] = attempt[b]
      BY <2>1, <2>3 DEF Promote, Attempt
    <3> QED
      BY <1>2, <2>3, <3>1, <3>2, <3>3 DEF Decide, Promote, Leases
  <2>4. CASE /\ gate' = gate /\ proven' = proven
             /\ \/ attempt' = [attempt EXCEPT ![a].at = "chosen", ![a].aged = FALSE]
                \/ attempt' = [attempt EXCEPT ![a].at = "new"]
    <3> DEFINE n == [attempt[a] EXCEPT !.at = "chosen", !.aged = FALSE]
               m == [attempt[a] EXCEPT !.at = "new"]
    <3>1. n \in Attempt /\ m \in Attempt
      BY DEF Attempt, Places
    <3>2. /\ n.leased = attempt[a].leased /\ n.epoch = attempt[a].epoch /\ ~n.leased
          /\ m.leased = attempt[a].leased /\ m.epoch = attempt[a].epoch /\ ~m.leased
      BY <2>1 DEF Attempt
    <3>3. attempt' = [attempt EXCEPT ![a] = n] \/ attempt' = [attempt EXCEPT ![a] = m]
      BY <2>4
    <3>4. attempt' \in [Attempts -> Attempt] /\ Leases'
      BY <2>4, <3>1, <3>2, <3>3, AttemptKeepsTypes
    <3> QED
      BY <1>2, <2>4, <3>4 DEF Decide
  <2> QED
    BY <1>2, <2>2, <2>3, <2>4 DEF Decide, Expired
<1>3. CASE Confirm(a)
  <2>1. CASE breaker
    BY <1>3, <2>1, LeaveKeepsTypes DEF Confirm, Refuse, Places
  <2>2. CASE ~breaker
    <3> DEFINE n == [attempt[a] EXCEPT !.at = "open", !.fresh = TRUE]
    <3>1. n \in Attempt /\ attempt' = [attempt EXCEPT ![a] = n] /\ gate' = gate
      BY <1>3, <2>2 DEF Confirm, Attempt, Places
    <3>2. n.leased = attempt[a].leased /\ n.epoch = attempt[a].epoch /\ n.at = "open"
      BY DEF Attempt
    <3> QED
      BY <1>3, <3>1, <3>2, AttemptKeepsTypes DEF Confirm
  <2> QED
    BY <2>1, <2>2
<1> QED
  BY <1>1, <1>2, <1>3 DEF Admit

\* What a stream shows opens the gate; what fails frees it.
LEMMA StreamKeepsTypes ==
  ASSUME Typed, Leases, NEW a \in Attempts,
         Commits(a) \/ Fails(a) \/ Return(a) \/ Quiet(a) \/ EndsEmpty(a) \/ WindowEnds(a) \/ ClientGone(a)
  PROVE  Typed' /\ Leases'
<1> USE DEF Typed
<1>1. CASE Commits(a)
  <2> DEFINE n == [attempt[a] EXCEPT !.at = IF sand THEN "served" ELSE "done", !.leased = FALSE]
  <2>1. n \in Attempt /\ attempt' = [attempt EXCEPT ![a] = n] /\ ~n.leased
    BY <1>1 DEF Commits, Moved, Attempt, Places
  <2>2. attempt' \in [Attempts -> Attempt]
    BY <2>1
  <2>3. gate' \in Gate /\ (gate' = gate \/ gate'.phase = "healthy")
    BY <1>1 DEF Commits, Marked, Gate, Healthy
  <2>4. gate'.phase = "probing" => gate' = gate /\ gate.by # a
    BY <1>1 DEF Commits, Marked, Healthy, Leases
  <2>5. \A b \in Attempts \ {a} : attempt'[b] = attempt[b]
    BY <2>1
  <2>6. ~attempt'[a].leased
    BY <2>1
  <2>7. Leases'
    BY <2>4, <2>5, <2>6 DEF Leases
  <2> QED
    BY <1>1, <2>2, <2>3, <2>7 DEF Commits, Attempt
<1>2. CASE Fails(a)
  BY <1>2, LeaveKeepsTypes DEF Fails, Places
<1>3. CASE Return(a)
  <2> DEFINE n == [New EXCEPT !.tries = attempt[a].tries + 1]
  <2>1. attempt[a].tries + 1 \in 0..MaxTries
    BY <1>3, PolicyProbeAssumption DEF Return, Attempt
  <2>2. n \in Attempt /\ attempt' = [attempt EXCEPT ![a] = n] /\ n.leased = FALSE
    BY <1>3, <2>1 DEF Return, Attempt, New, Places
  <2>3. attempt[a].leased = FALSE
    BY <1>3 DEF Return, Leases, Attempt
  <2> QED
    BY <1>3, <2>2, <2>3, AttemptKeepsTypes DEF Return
<1>4. CASE Quiet(a)
  <2> DEFINE n == [attempt[a] EXCEPT !.at = IF attempt[a].leased THEN "held" ELSE "served",
                                     !.relayed = ~sand /\ attempt[a].leased]
  <2>1. n \in Attempt /\ attempt' = [attempt EXCEPT ![a] = n]
    BY <1>4 DEF Quiet, Attempt, Places
  <2>2. /\ n.leased = attempt[a].leased /\ n.epoch = attempt[a].epoch
        /\ n.leased => n.at = "held"
    BY DEF Attempt
  <2> HIDE DEF n
  <2> QED
    BY <1>4, <2>1, <2>2, AttemptKeepsTypes DEF Quiet
<1>5. CASE EndsEmpty(a)
  <2> DEFINE n == [attempt[a] EXCEPT !.at = "hollow"]
  <2>1. n \in Attempt /\ attempt' = [attempt EXCEPT ![a] = n]
    BY <1>5 DEF EndsEmpty, Attempt, Places
  <2>2. n.leased = attempt[a].leased /\ n.epoch = attempt[a].epoch /\ n.at = "hollow"
    BY DEF Attempt
  <2> QED
    BY <1>5, <2>1, <2>2, AttemptKeepsTypes DEF EndsEmpty
<1>6. CASE WindowEnds(a)
  BY <1>6, LeaveKeepsTypes DEF WindowEnds, Places
<1>7. CASE ClientGone(a)
  BY <1>7, LeaveKeepsTypes DEF ClientGone, Places
<1> QED
  BY <1>1, <1>2, <1>3, <1>4, <1>5, <1>6, <1>7

\* A policy result resets the gate while its reporter still owns the lease.
LEMMA ResultKeepsTypes ==
  ASSUME Typed, Leases, NEW a \in Attempts, IsLimited(a) \/ Note(a) \/ LateNote(a) \/ Age(a)
  PROVE  Typed' /\ Leases'
<1> USE DEF Typed
<1>1. CASE IsLimited(a)
  <2> DEFINE n == [attempt[a] EXCEPT !.at = "limited"]
  <2>1. n \in Attempt /\ attempt' = [attempt EXCEPT ![a] = n]
    BY <1>1 DEF IsLimited, Limited, Attempt, Places
  <2>2. n.leased = attempt[a].leased /\ n.epoch = attempt[a].epoch /\ n.at = "limited"
    BY DEF Attempt
  <2>3. results' \in 0..MaxResults
    BY <1>1, PolicyProbeAssumption DEF IsLimited
  <2> QED
    BY <1>1, <2>1, <2>2, <2>3, AttemptKeepsTypes DEF IsLimited, Limited
<1>2. CASE Publish(a)
  <2> DEFINE n(x) == [attempt[x] EXCEPT !.fresh = FALSE, !.at = IF x = a THEN "published" ELSE @]
  <2>1. \A x \in Attempts : n(x) \in Attempt
    BY DEF Attempt, Places
  <2>2. attempt' = [x \in Attempts |-> n(x)] /\ gate' = gate
    BY <1>2 DEF Publish
  <2>3. \A x \in Attempts : /\ attempt'[x].leased = attempt[x].leased
                            /\ attempt'[x].epoch = attempt[x].epoch
                            /\ attempt'[x].at = IF x = a THEN "published" ELSE attempt[x].at
    BY <2>2 DEF Attempt
  <2>4. attempt' \in [Attempts -> Attempt]
    BY <2>1, <2>2
  <2> HIDE DEF n
  <2>5. \A x \in Attempts : attempt'[x].leased =>
          attempt'[x].at \notin {"new", "gate", "late", "served", "done"}
    BY <2>3 DEF Leases
  <2>6. gate'.phase = "probing" =>
          gate'.by \in Attempts /\ attempt'[gate'.by].leased /\ attempt'[gate'.by].epoch = gate'.epoch
    BY <2>2, <2>3 DEF Leases
  <2>7. Leases'
    BY <2>5, <2>6 DEF Leases
  <2> QED
    BY <1>2, <2>4, <2>7 DEF Publish
<1>3. CASE ResetGate(a)
  <2> DEFINE n == [attempt[a] EXCEPT !.at = "releasing"]
  <2>1. n \in Attempt /\ attempt' = [attempt EXCEPT ![a] = n]
    BY <1>3 DEF ResetGate, Attempt, Places
  <2>2. gate' \in Gate /\ gate'.phase = "unknown"
    BY <1>3 DEF ResetGate, Unknown, Gate
  <2>3. \A b \in Attempts : /\ attempt'[b].leased = attempt[b].leased
                            /\ attempt'[b].at = IF b = a THEN "releasing" ELSE attempt[b].at
    BY <2>1 DEF Attempt
  <2>4. Leases'
    BY <2>2, <2>3 DEF Leases
  <2> QED
    BY <1>3, <2>1, <2>2, <2>4 DEF ResetGate
<1>4. CASE Release(a)
  BY <1>4, LeaveKeepsTypes DEF Release, Places
<1>5. CASE LateNote(a)
  <2> DEFINE n == [attempt[a] EXCEPT !.at = "limited", !.relayed = FALSE]
  <2>1. n \in Attempt /\ attempt' = [attempt EXCEPT ![a] = n]
    BY <1>5 DEF LateNote, Attempt, Places
  <2>2. n.leased = attempt[a].leased /\ n.epoch = attempt[a].epoch /\ n.at = "limited"
    BY DEF Attempt
  <2> QED
    BY <1>5, <2>1, <2>2, AttemptKeepsTypes DEF LateNote
<1>6. CASE Age(a)
  <2> DEFINE n == [attempt[a] EXCEPT !.aged = TRUE]
  <2>1. n \in Attempt /\ attempt' = [attempt EXCEPT ![a] = n]
    BY <1>6 DEF Age, Attempt
  <2>2. n.leased = attempt[a].leased /\ n.epoch = attempt[a].epoch /\ n.at = attempt[a].at
    BY DEF Attempt
  <2> QED
    BY <1>6, <2>1, <2>2, AttemptKeepsTypes DEF Age, Leases
<1> QED
  BY <1>1, <1>2, <1>3, <1>4, <1>5, <1>6 DEF Note

LEMMA InitTypes == Init => Typed /\ Leases
<1> SUFFICES ASSUME Init PROVE Typed /\ Leases
  OBVIOUS
<1>1. New \in Attempt /\ New.leased = FALSE
  BY PolicyProbeAssumption DEF New, Attempt, Places
<1>2. attempt \in [Attempts -> Attempt] /\ \A a \in Attempts : attempt[a].leased = FALSE
  BY <1>1 DEF Init
<1>3. gate \in Gate /\ gate.phase = "unknown"
  BY DEF Init, Unknown, Gate
<1>4. results \in 0..MaxResults
  BY PolicyProbeAssumption DEF Init
<1> QED
  BY <1>2, <1>3, <1>4 DEF Init, Typed, Leases

LEMMA StepTypes == TypeOK /\ [Next]_vars => TypeOK'
<1> SUFFICES ASSUME Typed, Leases, [Next]_vars PROVE Typed' /\ Leases'
  BY DEF TypeOK, Typed, Leases
<1>1. ASSUME NEW a \in Attempts, Admit(a) PROVE Typed' /\ Leases'
  BY <1>1, AdmitKeepsTypes
<1>2. ASSUME NEW a \in Attempts,
             Commits(a) \/ Fails(a) \/ Return(a) \/ Quiet(a) \/ EndsEmpty(a) \/ WindowEnds(a) \/ ClientGone(a)
      PROVE  Typed' /\ Leases'
  BY <1>2, StreamKeepsTypes
<1>3. ASSUME NEW a \in Attempts, IsLimited(a) \/ Note(a) \/ LateNote(a) \/ Age(a)
      PROVE  Typed' /\ Leases'
  BY <1>3, ResultKeepsTypes
<1>4. CASE Cool
  BY <1>4 DEF Cool, Typed, Leases
<1>5. CASE Forget
  BY <1>5 DEF Forget, Typed, Leases, Unknown, Gate
<1>6. CASE UNCHANGED vars
  BY <1>6 DEF vars, Typed, Leases
<1> QED
  BY <1>1, <1>2, <1>3, <1>4, <1>5, <1>6 DEF Next

\* Every lease has an owner that will settle it, and a gate in Probing names a
\* lease that exists: nothing leaves a key probing for nobody.
THEOREM TypeCorrect == Spec => []TypeOK
<1>1. Init => TypeOK
  BY InitTypes, TypeOKParts
<1>2. TypeOK /\ [Next]_vars => TypeOK'
  BY StepTypes
<1> QED
  BY <1>1, <1>2, PTL DEF Spec
-----------------------------------------------------------------------------
(* One probe per window.                                                    *)

LEMMA InitInvariant == Init => IInv
<1> SUFFICES ASSUME Init PROVE IInv
  OBVIOUS
<1>1. /\ \A a \in Attempts : attempt[a].at = "new" /\ ~attempt[a].leased /\ ~attempt[a].fresh
      /\ gate.phase = "unknown"
  BY DEF Init, New, Unknown
<1> QED
  BY <1>1 DEF IInv, EpochsFollowGate, PublicationStales, LeasesAreFresh, HealthIsProven,
              OpenersAreProbes, NobodyPublishes

\* A step of one attempt a, to n, that takes the gate from nobody whose window
\* is not over and that moves neither the epoch nor the breaker.
LEMMA StepOfOne ==
  ASSUME TypeOK, TypeOK', IInv, NEW a \in Attempts, NEW n \in Attempt,
         attempt' = [attempt EXCEPT ![a] = n],
         attempt[a].at # "published", n.at # "published",
         breaker' = breaker, gate'.epoch = gate.epoch, proven => proven',
         \A b \in Attempts \ {a} :
           NobodyPublishes /\ gate = Probing(attempt[b].epoch, b) =>
             proven' \/ attempt[b].aged \/ gate' = gate,
         NobodyPublishes /\ gate'.phase = "healthy" => proven',
         n.leased => n.epoch <= gate.epoch /\ n.at # "releasing",
         n.fresh => NobodyPublishes,
         n.at \in {"releasing", "late"} => ~n.fresh,
         NobodyPublishes /\ n.leased /\ n.epoch = gate.epoch /\ n.at # "chosen" => n.fresh,
         /\ NobodyPublishes /\ ~proven'
         /\ \/ n.at = "chosen" /\ ~breaker
            \/ n.at \in {"open", "held", "hollow", "limited", "served"} /\ n.fresh
         => n.leased /\ (n.aged \/ gate' = Probing(n.epoch, a))
  PROVE  IInv'
<1> USE DEF IInv
<1>1. attempt'[a] = n /\ \A b \in Attempts \ {a} : attempt'[b] = attempt[b]
  BY DEF TypeOK
<1>2. NobodyPublishes' <=> NobodyPublishes
  BY <1>1 DEF NobodyPublishes
<1>3. EpochsFollowGate'
  BY <1>1 DEF EpochsFollowGate
<1>4. PublicationStales'
  BY <1>1, <1>2 DEF PublicationStales
<1>5. LeasesAreFresh'
  BY <1>1, <1>2 DEF LeasesAreFresh
<1>6. HealthIsProven'
  BY <1>2 DEF HealthIsProven
<1>7. OpenersAreProbes'
  <2> SUFFICES ASSUME NobodyPublishes, ~proven', NEW b \in Attempts,
                      \/ attempt'[b].at = "chosen" /\ ~breaker
                      \/ /\ attempt'[b].at \in {"open", "held", "hollow", "limited", "served"}
                         /\ attempt'[b].fresh
               PROVE  Current(b)'
    BY <1>2 DEF OpenersAreProbes
  <2>1. CASE b = a
    BY <2>1, <1>1 DEF Current, Probing
  <2>2. CASE b # a
    <3>1. attempt'[b] = attempt[b] /\ Current(b)
      BY <2>2, <1>1 DEF OpenersAreProbes
    <3> QED
      BY <2>2, <3>1 DEF Current, Probing
  <2> QED
    BY <2>1, <2>2
<1> QED
  BY <1>3, <1>4, <1>5, <1>6, <1>7

\* Settling a lease never ends another attempt's window.
LEMMA LeaveKeepsInvariant ==
  ASSUME TypeOK, TypeOK', IInv, NEW a \in Attempts, NEW place \in {"done", "late"}, Leave(a, place),
         attempt[a].at # "published", place = "late" => attempt[a].at = "releasing",
         UNCHANGED <<breaker, proven>>
  PROVE  IInv'
<1> DEFINE n == [attempt[a] EXCEPT !.at = place, !.leased = FALSE]
<1>1. n \in Attempt /\ attempt' = [attempt EXCEPT ![a] = n]
  BY DEF TypeOK, Leave, Moved, Attempt, Places
<1>2. n.at = place /\ n.leased = FALSE /\ n.fresh = attempt[a].fresh
  BY DEF TypeOK, Attempt
<1>3. gate'.epoch = gate.epoch /\ (gate'.phase = "healthy" => gate' = gate)
  BY DEF TypeOK, Leave, Dropped, Unknown, Gate
<1>4. \A b \in Attempts \ {a} : gate = Probing(attempt[b].epoch, b) => gate' = gate
  BY DEF Leave, Dropped, Probing
<1>5. n.fresh => NobodyPublishes
  BY <1>2 DEF IInv, PublicationStales
<1>6. n.at \in {"releasing", "late"} => ~n.fresh
  BY <1>2 DEF IInv, PublicationStales
<1>7. NobodyPublishes /\ gate'.phase = "healthy" => proven'
  BY <1>3 DEF IInv, HealthIsProven
<1> HIDE DEF n
<1> QED
  BY <1>1, <1>2, <1>3, <1>4, <1>5, <1>6, <1>7, StepOfOne
\* Only the gate's decision admits, and it admits one probe or a proven key.
LEMMA AdmitKeepsInvariant ==
  ASSUME TypeOK, TypeOK', IInv, NEW a \in Attempts, Admit(a)
  PROVE  IInv'
<1> USE DEF IInv
<1>1. CASE Preflight(a)
  <2> DEFINE n == [attempt[a] EXCEPT !.at = IF breaker THEN "done" ELSE "gate"]
  <2>1. n \in Attempt /\ attempt' = [attempt EXCEPT ![a] = n]
    BY <1>1 DEF Preflight, TypeOK, Attempt, Places
  <2>2. /\ n.at \in {"done", "gate"} /\ n.fresh = attempt[a].fresh
        /\ n.leased = attempt[a].leased /\ ~attempt[a].leased
    BY <1>1 DEF Preflight, TypeOK, Attempt
  <2>3. n.fresh => NobodyPublishes
    BY <2>2 DEF PublicationStales
  <2> HIDE DEF n
  <2> QED
    BY <1>1, <2>1, <2>2, <2>3, StepOfOne DEF Preflight, HealthIsProven
<1>2. CASE Decide(a)
  <2>1. attempt[a].at = "gate" /\ ~attempt[a].leased /\ breaker' = breaker
    BY <1>2 DEF Decide, TypeOK
  <2>2. attempt[a].fresh => NobodyPublishes
    BY DEF PublicationStales
  <2> DEFINE c == [attempt[a] EXCEPT !.at = "chosen", !.aged = FALSE]
             w == [attempt[a] EXCEPT !.at = "new"]
             l == [attempt[a] EXCEPT !.at = "chosen", !.leased = TRUE, !.epoch = gate.epoch, !.aged = FALSE]
  <2>3. /\ c \in Attempt /\ c.at = "chosen" /\ ~c.leased /\ c.fresh = attempt[a].fresh
        /\ w \in Attempt /\ w.at = "new" /\ ~w.leased /\ w.fresh = attempt[a].fresh
        /\ l \in Attempt /\ l.at = "chosen" /\ l.leased /\ l.fresh = attempt[a].fresh /\ l.epoch = gate.epoch
    <3>1. attempt[a] \in Attempt /\ gate.epoch \in Nat
      BY DEF TypeOK, Gate
    <3>2. c \in Attempt /\ c.at = "chosen" /\ ~c.leased /\ c.fresh = attempt[a].fresh
      BY <2>1, <3>1 DEF Attempt, Places
    <3>3. w \in Attempt /\ w.at = "new" /\ ~w.leased /\ w.fresh = attempt[a].fresh
      BY <2>1, <3>1 DEF Attempt, Places
    <3>4. l \in Attempt /\ l.at = "chosen" /\ l.leased /\ l.fresh = attempt[a].fresh /\ l.epoch = gate.epoch
      BY <3>1 DEF Attempt, Places
    <3> QED
      BY <3>2, <3>3, <3>4
  <2>4. CASE /\ attempt' = [attempt EXCEPT ![a] = c] /\ gate.phase = "healthy"
             /\ UNCHANGED <<gate, proven>>
    <3> HIDE DEF c
    <3> QED
      BY <2>1, <2>2, <2>3, <2>4, StepOfOne DEF HealthIsProven
  <2>5. CASE attempt' = [attempt EXCEPT ![a] = w] /\ UNCHANGED <<gate, proven>>
    <3> HIDE DEF w
    <3> QED
      BY <2>1, <2>2, <2>3, <2>5, StepOfOne DEF HealthIsProven
  <2>6. CASE Acquire(a) /\ (gate.phase = "unknown" \/ Elapsed)
    <3>1. attempt' = [attempt EXCEPT ![a] = l] /\ gate' = Probing(l.epoch, a) /\ proven' = proven
      BY <2>3, <2>6 DEF Acquire
    <3>2. gate'.epoch = gate.epoch /\ gate'.phase = "probing"
      BY <2>3, <3>1 DEF Probing
    <3>3. \A b \in Attempts : gate = Probing(attempt[b].epoch, b) => attempt[b].aged
      BY <2>6 DEF Probing, Elapsed
    <3>4. l.epoch <= gate.epoch
      BY <2>3 DEF TypeOK, Gate
    <3> HIDE DEF l
    <3> QED
      BY <2>1, <2>2, <2>3, <3>1, <3>2, <3>3, <3>4, StepOfOne
  <2>7. CASE Promote(a)
    <3>1. attempt' = [attempt EXCEPT ![a] = c] /\ gate'.epoch = gate.epoch /\ proven'
      BY <2>7 DEF Promote, Healthy
    <3> HIDE DEF c
    <3> QED
      BY <2>1, <2>2, <2>3, <3>1, StepOfOne
  <2> QED
    BY <1>2, <2>4, <2>5, <2>6, <2>7 DEF Decide, Expired
<1>3. CASE Confirm(a)
  <2>1. CASE breaker
    BY <1>3, <2>1, LeaveKeepsInvariant DEF Confirm, Refuse
  <2>2. CASE ~breaker
    <3> DEFINE n == [attempt[a] EXCEPT !.at = "open", !.fresh = TRUE]
    <3>1. n \in Attempt /\ attempt' = [attempt EXCEPT ![a] = n] /\ attempt[a].at = "chosen"
      BY <1>3, <2>2 DEF Confirm, TypeOK, Attempt, Places
    <3>2. /\ n.at = "open" /\ n.fresh /\ n.leased = attempt[a].leased
          /\ n.epoch = attempt[a].epoch /\ n.aged = attempt[a].aged
      BY DEF TypeOK, Attempt
    <3>3. NobodyPublishes
      BY <2>2 DEF PublicationStales
    <3>4. ~proven => Current(a)
      BY <2>2, <3>1, <3>3 DEF OpenersAreProbes
    <3>5. n.leased => n.epoch <= gate.epoch
      BY <3>2 DEF EpochsFollowGate
    <3>6. gate' = gate /\ proven' = proven /\ breaker' = breaker
      BY <1>3, <2>2 DEF Confirm
    <3>7. ~proven => n.leased /\ (n.aged \/ gate = Probing(n.epoch, a))
      BY <3>2, <3>4 DEF Current
    <3>8. gate.phase = "healthy" => proven
      BY <3>3 DEF HealthIsProven
    <3> HIDE DEF n
    <3> QED
      BY <3>1, <3>2, <3>3, <3>5, <3>6, <3>7, <3>8, StepOfOne
  <2> QED
    BY <2>1, <2>2
<1> QED
  BY <1>1, <1>2, <1>3 DEF Admit

\* Output opens a gate only for a lease of its epoch, which a policy result ends.
LEMMA CommitsKeepsInvariant ==
  ASSUME TypeOK, TypeOK', IInv, NEW a \in Attempts, Commits(a)
  PROVE  IInv'
<1> USE DEF IInv
<1> DEFINE n == [attempt[a] EXCEPT !.at = IF sand THEN "served" ELSE "done", !.leased = FALSE]
<1>1. n \in Attempt /\ attempt' = [attempt EXCEPT ![a] = n]
  <2>1. attempt[a] \in Attempt /\ (IF sand THEN "served" ELSE "done") \in Places
    BY DEF TypeOK, Places
  <2>2. n \in Attempt
    BY <2>1 DEF Attempt
  <2> QED
    BY <2>2 DEF Commits, Moved
<1>2. n.at \in {"served", "done"} /\ n.leased = FALSE /\ n.fresh = attempt[a].fresh
  BY DEF TypeOK, Attempt
<1>3. attempt[a].at \in {"open", "held", "hollow"} /\ breaker' = breaker
  BY DEF Commits, Upstream
<1>4. proven' = (proven \/ attempt[a].fresh)
  BY DEF Commits
<1>5. /\ gate'.epoch = gate.epoch
      /\ gate' = gate \/ (attempt[a].leased /\ attempt[a].epoch = gate.epoch)
  BY DEF Commits, Marked, Healthy
<1>6. attempt[a].fresh => NobodyPublishes
  BY DEF PublicationStales
<1>7. NobodyPublishes /\ gate' # gate => proven'
  BY <1>3, <1>4, <1>5 DEF LeasesAreFresh
<1>8. NobodyPublishes /\ gate'.phase = "healthy" => proven'
  BY <1>4, <1>7 DEF HealthIsProven
<1> HIDE DEF n
<1> QED
  BY <1>1, <1>2, <1>3, <1>4, <1>5, <1>6, <1>7, <1>8, StepOfOne
LEMMA StreamKeepsInvariant ==
  ASSUME TypeOK, TypeOK', IInv, NEW a \in Attempts,
         Fails(a) \/ Return(a) \/ Quiet(a) \/ EndsEmpty(a) \/ WindowEnds(a) \/ ClientGone(a)
  PROVE  IInv'
<1>1. CASE Fails(a) \/ WindowEnds(a) \/ ClientGone(a)
  BY <1>1, LeaveKeepsInvariant DEF Fails, WindowEnds, ClientGone, Upstream
<1>2. CASE Return(a)
  <2> DEFINE n == [New EXCEPT !.tries = attempt[a].tries + 1]
  <2>1. attempt[a].tries + 1 \in 0..MaxTries
    BY <1>2, PolicyProbeAssumption DEF Return, TypeOK, Attempt
  <2>2. /\ n \in Attempt /\ attempt' = [attempt EXCEPT ![a] = n]
        /\ n.at = "new" /\ n.leased = FALSE /\ n.fresh = FALSE
    BY <1>2, <2>1 DEF Return, Attempt, New, Places
  <2>3. attempt[a].at = "done" /\ UNCHANGED <<breaker, gate, proven>>
    BY <1>2 DEF Return
  <2>4. NobodyPublishes /\ gate.phase = "healthy" => proven
    BY DEF IInv, HealthIsProven
  <2> HIDE DEF n
  <2> QED
    BY <2>2, <2>3, <2>4, StepOfOne
<1>3. CASE Quiet(a) \/ EndsEmpty(a)
  <2> DEFINE r == ~sand /\ attempt[a].leased
             held == [attempt[a] EXCEPT !.at = "held", !.relayed = r]
             served == [attempt[a] EXCEPT !.at = "served", !.relayed = r]
             hollow == [attempt[a] EXCEPT !.at = "hollow"]
  <2>1. PICK n \in {held, served, hollow} :
          attempt' = [attempt EXCEPT ![a] = n]
    <3>1. CASE Quiet(a) /\ attempt[a].leased
      BY <3>1 DEF Quiet
    <3>2. CASE Quiet(a) /\ ~attempt[a].leased
      BY <3>2 DEF Quiet
    <3>3. CASE EndsEmpty(a)
      BY <3>3 DEF EndsEmpty
    <3> QED
      BY <1>3, <3>1, <3>2, <3>3
  <2>2. attempt[a] \in Attempt /\ r \in BOOLEAN
    BY DEF TypeOK, Attempt
  <2>3. /\ n \in Attempt /\ n.at \in {"held", "served", "hollow"}
        /\ n.leased = attempt[a].leased /\ n.epoch = attempt[a].epoch
        /\ n.aged = attempt[a].aged /\ n.fresh = attempt[a].fresh
    <3>1. CASE n = held
      BY <2>2, <3>1 DEF Attempt, Places
    <3>2. CASE n = served
      BY <2>2, <3>2 DEF Attempt, Places
    <3>3. CASE n = hollow
      BY <2>2, <3>3 DEF Attempt, Places
    <3> QED
      BY <2>1, <3>1, <3>2, <3>3
  <2>4. attempt[a].at \in {"open", "held"} /\ UNCHANGED <<breaker, gate, proven>>
    BY <1>3 DEF Quiet, EndsEmpty
  <2>5. NobodyPublishes /\ gate.phase = "healthy" => proven
    BY DEF IInv, HealthIsProven
  <2>6. attempt[a].fresh => NobodyPublishes
    BY DEF IInv, PublicationStales
  <2>7. attempt[a].leased => attempt[a].epoch <= gate.epoch
    BY DEF IInv, EpochsFollowGate
  <2>8. NobodyPublishes /\ attempt[a].leased /\ attempt[a].epoch = gate.epoch => attempt[a].fresh
    BY <2>4 DEF IInv, LeasesAreFresh
  <2>9. NobodyPublishes /\ ~proven /\ attempt[a].fresh => Current(a)
    BY <2>4 DEF IInv, OpenersAreProbes
  <2> HIDE DEF held, served, hollow
  <2> QED
    BY <2>1, <2>3, <2>4, <2>5, <2>6, <2>7, <2>8, <2>9, StepOfOne DEF Current
<1> QED
  BY <1>1, <1>2, <1>3

\* A published result outdates every lease and everything that was admitted.
LEMMA PublishKeepsInvariant ==
  ASSUME TypeOK, TypeOK', IInv, NEW a \in Attempts, Publish(a) \/ ResetGate(a)
  PROVE  IInv'
<1>1. CASE Publish(a)
  <2>1. attempt' = [x \in Attempts |->
          [attempt[x] EXCEPT !.fresh = FALSE, !.at = IF x = a THEN "published" ELSE @]]
    BY <1>1 DEF Publish
  <2>2. ASSUME NEW b \in Attempts
        PROVE  /\ ~attempt'[b].fresh
               /\ attempt'[b].leased => attempt[b].leased
               /\ attempt'[b].epoch = attempt[b].epoch
               /\ attempt'[b].at = IF b = a THEN "published" ELSE attempt[b].at
    <3>1. attempt[b] \in Attempt
      BY DEF TypeOK
    <3>2. attempt'[b] = [attempt[b] EXCEPT !.fresh = FALSE, !.at = IF b = a THEN "published" ELSE @]
      BY <2>1
    <3> QED
      BY <3>1, <3>2 DEF Attempt
  <2>3. ~NobodyPublishes'
    BY <2>2 DEF NobodyPublishes
  <2>4. gate' = gate /\ breaker'
    BY <1>1 DEF Publish
  <2>5. EpochsFollowGate'
    BY <2>2, <2>4 DEF IInv, EpochsFollowGate
  <2>6. PublicationStales'
    BY <2>2, <2>4 DEF PublicationStales
  <2> QED
    BY <2>3, <2>5, <2>6 DEF IInv, LeasesAreFresh, HealthIsProven, OpenersAreProbes
<1>2. CASE ResetGate(a)
  <2>1. ASSUME NEW b \in Attempts
        PROVE  /\ attempt'[b].fresh => attempt[b].fresh
               /\ attempt'[b].leased => attempt[b].leased
               /\ attempt'[b].epoch = attempt[b].epoch /\ attempt[b].epoch \in Nat
    <3>1. attempt[b] \in Attempt
      BY DEF TypeOK
    <3>2. attempt'[b] = IF b = a THEN [attempt[b] EXCEPT !.at = "releasing"] ELSE attempt[b]
      BY <1>2 DEF ResetGate, TypeOK
    <3> QED
      BY <3>1, <3>2 DEF Attempt
  <2>2. gate'.epoch = gate.epoch + 1 /\ gate'.phase = "unknown" /\ gate.epoch \in Nat
    BY <1>2 DEF ResetGate, Unknown, TypeOK, Gate
  <2>3. ~NobodyPublishes
    BY <1>2 DEF ResetGate, NobodyPublishes
  <2>4. breaker' /\ \A b \in Attempts : ~attempt'[b].fresh
    BY <1>2, <2>1, <2>3 DEF IInv, PublicationStales, ResetGate
  <2>5. \A b \in Attempts : attempt'[b].leased => attempt'[b].epoch < gate'.epoch
    BY <2>1, <2>2 DEF IInv, EpochsFollowGate
  <2>6. EpochsFollowGate'
    BY <2>1, <2>2, <2>5 DEF EpochsFollowGate
  <2>7. PublicationStales'
    BY <2>4 DEF PublicationStales
  <2>8. LeasesAreFresh'
    BY <2>1, <2>2, <2>5 DEF LeasesAreFresh
  <2>9. HealthIsProven' /\ OpenersAreProbes'
    BY <2>2, <2>4 DEF HealthIsProven, OpenersAreProbes
  <2> QED
    BY <2>6, <2>7, <2>8, <2>9 DEF IInv
<1> QED
  BY <1>1, <1>2
LEMMA ResultKeepsInvariant ==
  ASSUME TypeOK, TypeOK', IInv, NEW a \in Attempts,
         IsLimited(a) \/ Release(a) \/ LateNote(a) \/ Age(a)
  PROVE  IInv'
<1>1. attempt[a] \in Attempt
  BY DEF TypeOK
<1>2. NobodyPublishes /\ gate.phase = "healthy" => proven
  BY DEF IInv, HealthIsProven
<1>3. attempt[a].fresh => NobodyPublishes
  BY DEF IInv, PublicationStales
<1>4. attempt[a].leased => attempt[a].epoch <= gate.epoch
  BY DEF IInv, EpochsFollowGate
<1>5. CASE IsLimited(a)
  <2> DEFINE n == [attempt[a] EXCEPT !.at = "limited"]
  <2>1. /\ n \in Attempt /\ n.at = "limited"
        /\ n.leased = attempt[a].leased /\ n.epoch = attempt[a].epoch
        /\ n.aged = attempt[a].aged /\ n.fresh = attempt[a].fresh
    BY <1>1 DEF Attempt, Places
  <2>2. /\ attempt' = [attempt EXCEPT ![a] = n] /\ UNCHANGED <<breaker, gate, proven>>
        /\ attempt[a].at \in {"open", "held", "hollow", "served"}
    BY <1>5 DEF IsLimited, Limited, Upstream
  <2>3. NobodyPublishes /\ attempt[a].leased /\ attempt[a].epoch = gate.epoch => attempt[a].fresh
    BY <2>2 DEF IInv, LeasesAreFresh
  <2>4. NobodyPublishes /\ ~proven /\ attempt[a].fresh => Current(a)
    BY <2>2 DEF IInv, OpenersAreProbes
  <2> HIDE DEF n
  <2> QED
    BY <1>2, <1>3, <1>4, <2>1, <2>2, <2>3, <2>4, StepOfOne DEF Current
<1>6. CASE Release(a)
  BY <1>6, LeaveKeepsInvariant DEF Release
<1>7. CASE LateNote(a)
  <2> DEFINE n == [attempt[a] EXCEPT !.at = "limited", !.relayed = FALSE]
  <2>1. n \in Attempt /\ n.at = "limited" /\ n.leased = attempt[a].leased /\ n.fresh = attempt[a].fresh
    BY <1>1 DEF Attempt, Places
  <2>2. /\ attempt' = [attempt EXCEPT ![a] = n] /\ UNCHANGED <<breaker, gate, proven>>
        /\ attempt[a].at = "late"
    BY <1>7 DEF LateNote
  <2>3. ~attempt[a].leased /\ ~attempt[a].fresh
    BY <2>2 DEF IInv, PublicationStales, TypeOK
  <2> HIDE DEF n
  <2> QED
    BY <1>2, <2>1, <2>2, <2>3, StepOfOne
<1>8. CASE Age(a)
  <2> DEFINE n == [attempt[a] EXCEPT !.aged = TRUE]
  <2>1. \A b \in Attempts \ {a} : attempt'[b] = attempt[b]
    BY <1>8 DEF Age, TypeOK
  <2>2. /\ attempt'[a].at = attempt[a].at /\ attempt'[a].epoch = attempt[a].epoch
        /\ attempt'[a].fresh = attempt[a].fresh /\ attempt'[a].leased = attempt[a].leased
        /\ attempt'[a].aged
    BY <1>1, <1>8 DEF Age, TypeOK, Attempt
  <2>3. UNCHANGED <<breaker, gate, proven>>
    BY <1>8 DEF Age
  <2>4. NobodyPublishes' <=> NobodyPublishes
    BY <2>1, <2>2 DEF NobodyPublishes
  <2>5. \A b \in Attempts : Current(b) => Current(b)'
    BY <2>1, <2>2, <2>3 DEF Current
  <2>6. EpochsFollowGate' /\ LeasesAreFresh'
    BY <2>1, <2>2, <2>3, <2>4 DEF IInv, EpochsFollowGate, LeasesAreFresh
  <2>7. PublicationStales' /\ HealthIsProven'
    BY <2>1, <2>2, <2>3, <2>4 DEF IInv, PublicationStales, HealthIsProven
  <2>8. OpenersAreProbes'
    BY <2>1, <2>2, <2>3, <2>4, <2>5 DEF IInv, OpenersAreProbes
  <2> QED
    BY <2>6, <2>7, <2>8 DEF IInv
<1> QED
  BY <1>5, <1>6, <1>7, <1>8

LEMMA StepInvariant == TypeOK /\ TypeOK' /\ IInv /\ [Next]_vars => IInv'
<1> SUFFICES ASSUME TypeOK, TypeOK', IInv, [Next]_vars PROVE IInv'
  OBVIOUS
<1>1. ASSUME NEW a \in Attempts, Admit(a) PROVE IInv'
  BY <1>1, AdmitKeepsInvariant
<1>2. ASSUME NEW a \in Attempts, Commits(a) PROVE IInv'
  BY <1>2, CommitsKeepsInvariant
<1>3. ASSUME NEW a \in Attempts,
             Fails(a) \/ Return(a) \/ Quiet(a) \/ EndsEmpty(a) \/ WindowEnds(a) \/ ClientGone(a)
      PROVE  IInv'
  BY <1>3, StreamKeepsInvariant
<1>4. ASSUME NEW a \in Attempts, Publish(a) \/ ResetGate(a) PROVE IInv'
  BY <1>4, PublishKeepsInvariant
<1>5. ASSUME NEW a \in Attempts, IsLimited(a) \/ Release(a) \/ LateNote(a) \/ Age(a) PROVE IInv'
  BY <1>5, ResultKeepsInvariant
<1>6. CASE Cool
  BY <1>6 DEF Cool, IInv, EpochsFollowGate, PublicationStales, LeasesAreFresh, HealthIsProven,
              OpenersAreProbes, NobodyPublishes, Current
<1>7. CASE Forget
  <2>1. /\ \A a \in Attempts : ~attempt[a].leased /\ attempt[a].at # "chosen"
        /\ gate'.phase = "unknown" /\ UNCHANGED <<breaker, attempt, proven>>
    BY <1>7 DEF Forget, Unknown
  <2>2. NobodyPublishes /\ ~proven =>
          \A a \in Attempts :
            ~(attempt[a].at \in {"open", "held", "hollow", "limited", "served"} /\ attempt[a].fresh)
    BY <2>1 DEF IInv, OpenersAreProbes, Current
  <2>3. EpochsFollowGate' /\ LeasesAreFresh' /\ HealthIsProven'
    BY <2>1 DEF EpochsFollowGate, LeasesAreFresh, HealthIsProven
  <2>4. PublicationStales'
    BY <2>1 DEF IInv, PublicationStales, NobodyPublishes
  <2>5. OpenersAreProbes'
    BY <2>1, <2>2 DEF OpenersAreProbes, NobodyPublishes
  <2> QED
    BY <2>3, <2>4, <2>5 DEF IInv
<1>8. CASE UNCHANGED vars
  BY <1>8 DEF vars, IInv, EpochsFollowGate, PublicationStales, LeasesAreFresh, HealthIsProven,
              OpenersAreProbes, NobodyPublishes, Current
<1> QED
  BY <1>1, <1>2, <1>3, <1>4, <1>5, <1>6, <1>7, <1>8 DEF Next, Note

\* Who opens a key that is not proven, within its window, is the attempt the
\* gate names.
LEMMA InvariantSuffices == TypeOK /\ IInv => OneProbePerWindow
<1> SUFFICES ASSUME TypeOK, IInv, ~proven, NobodyPublishes PROVE Cardinality(Blind) <= 1
  BY DEF OneProbePerWindow, NobodyPublishes
<1>1. ASSUME NEW a \in Blind PROVE a = gate.by
  BY DEF Blind, Upstream, IInv, OpenersAreProbes, Current, Probing
<1>2. Blind = {} \/ Blind = {gate.by}
  BY <1>1
<1>3. Cardinality({}) = 0 /\ Cardinality({gate.by}) = 1
  BY FS_EmptySet, FS_Singleton
<1> QED
  BY <1>2, <1>3

\* "a quiet key ramps by only one probe per window": until an opening of the key
\* has shown output, at most one waits for its first answer, for every number of
\* requests, retries and policy results.
THEOREM OneProbeAtATime == Spec => []OneProbePerWindow
<1>1. Init => TypeOK /\ IInv
  BY InitTypes, TypeOKParts, InitInvariant
<1>2. TypeOK /\ IInv /\ [Next]_vars => TypeOK' /\ IInv'
  BY StepTypes, StepInvariant
<1>3. TypeOK /\ IInv => OneProbePerWindow
  BY InvariantSuffices
<1> QED
  BY <1>1, <1>2, <1>3, PTL DEF Spec
=============================================================================
