---------------------------- MODULE PolicyProbe ----------------------------
(***************************************************************************)
(* Cold openings of one account and model (cursor/mod.rs): the breaker a    *)
(* policy rate limit opens and the gate behind it, which lets one opening   *)
(* probe a key that is unknown or has just cooled down.                     *)
(***************************************************************************)
EXTENDS Naturals, FiniteSets

CONSTANTS
  Attempts,    \* requests for one key
  NoAttempt,
  MaxTries,    \* how often a request opens again
  MaxResults   \* policy results Cursor may send

ASSUME PolicyProbeAssumption ==
  /\ NoAttempt \notin Attempts
  /\ MaxTries \in Nat /\ MaxResults \in Nat

VARIABLES
  sand,        \* is the route Sand's
  breaker,     \* POLICY_RATE_LIMIT_BREAKER holds the key
  gate,        \* PolicyRateLimitProbeGateState
  attempt,     \* the openings
  results,     \* policy results so far
  proven       \* an opening since the last one has shown output (history)
vars == <<sand, breaker, gate, attempt, results, proven>>

\* An attempt works through the admission loop (new, gate, chosen), the opening
\* (open), the stream behind a peek that saw nothing decisive (held, hollow) and
\* the publication of a policy result (limited, published, releasing).  The pump
\* behind a held stream publishes the result it is handed again (late).
Places == {"new", "gate", "chosen", "open", "held", "hollow",
           "limited", "published", "releasing", "late", "served", "done"}

\* leased: it owns a PolicyRateLimitProbeLease, of that epoch; aged: the probe
\* window has passed; relayed: the stream was held; fresh: admitted since the last
\* policy result (history).
Attempt ==
  [at : Places, leased : BOOLEAN, epoch : Nat, aged : BOOLEAN,
   relayed : BOOLEAN, fresh : BOOLEAN, tries : 0..MaxTries]

New == [at |-> "new", leased |-> FALSE, epoch |-> 0, aged |-> FALSE,
        relayed |-> FALSE, fresh |-> FALSE, tries |-> 0]

\* by is the attempt whose lease the phase Probing names.
Gate == [epoch : Nat, phase : {"unknown", "probing", "healthy"}, by : Attempts \cup {NoAttempt}]

Unknown(n) == [epoch |-> n, phase |-> "unknown", by |-> NoAttempt]
Probing(n, a) == [epoch |-> n, phase |-> "probing", by |-> a]
Healthy(n) == [epoch |-> n, phase |-> "healthy", by |-> NoAttempt]

Init ==
  /\ sand \in BOOLEAN
  /\ breaker = FALSE
  /\ gate = Unknown(0)
  /\ attempt = [a \in Attempts |-> New]
  /\ results = 0
  /\ proven = FALSE

-----------------------------------------------------------------------------
(* The lease.                                                               *)

\* Mutant of Dropped: any lease of the epoch frees the gate.
DroppedAny(a) ==
  IF attempt[a].leased /\ attempt[a].epoch = gate.epoch /\ gate.phase = "probing"
  THEN Unknown(gate.epoch) ELSE gate

\* Drop for PolicyRateLimitProbeLease
Dropped(a) ==
  IF attempt[a].leased /\ gate = Probing(attempt[a].epoch, a)
  THEN Unknown(gate.epoch) ELSE gate

\* Mutant of Marked: evidence from before a policy result counts.
MarkedStale(a) == IF attempt[a].leased THEN Healthy(gate.epoch) ELSE gate

\* mark_healthy; an admission without a lease changes nothing.
Marked(a) ==
  IF attempt[a].leased /\ attempt[a].epoch = gate.epoch THEN Healthy(gate.epoch) ELSE gate

Moved(a, place) == [attempt EXCEPT ![a].at = place, ![a].leased = FALSE]

\* The lease is dropped with whatever owned it.
Leave(a, place) ==
  /\ gate' = Dropped(a)
  /\ attempt' = Moved(a, place)

-----------------------------------------------------------------------------
(* policy_rate_limit_admit_fresh_open.                                      *)

Preflight(a) ==
  /\ attempt[a].at = "new"
  /\ attempt' = [attempt EXCEPT ![a].at = IF breaker THEN "done" ELSE "gate"]
  /\ UNCHANGED <<sand, breaker, gate, results, proven>>

Acquire(a) ==
  /\ gate' = Probing(gate.epoch, a)
  /\ attempt' = [attempt EXCEPT ![a].at = "chosen", ![a].leased = TRUE,
                                ![a].epoch = gate.epoch, ![a].aged = FALSE]
  /\ UNCHANGED proven

\* A quiet Sand probe opens the key after its window.
Promote(a) ==
  /\ gate' = Healthy(gate.epoch)
  /\ attempt' = [attempt EXCEPT ![a].at = "chosen", ![a].aged = FALSE]
  /\ proven' = TRUE

Elapsed == gate.phase = "probing" /\ attempt[gate.by].aged

\* Mutant of Expired: a quiet probe is waited for.
ExpiredNever(a) ==
  /\ Elapsed
  /\ attempt' = [attempt EXCEPT ![a].at = "new"]
  /\ UNCHANGED <<gate, proven>>

\* The window of the current probe is over: Sand promotes, others rotate.
Expired(a) == Elapsed /\ (IF sand THEN Promote(a) ELSE Acquire(a))

\* The decision under the lock; a waiter wakes up and starts over.
Decide(a) ==
  /\ attempt[a].at = "gate"
  /\ \/ /\ gate.phase = "healthy"
        /\ attempt' = [attempt EXCEPT ![a].at = "chosen", ![a].aged = FALSE]
        /\ UNCHANGED <<gate, proven>>
     \/ gate.phase = "unknown" /\ Acquire(a)
     \/ Expired(a)
     \/ /\ gate.phase = "probing" /\ ~Elapsed
        /\ attempt' = [attempt EXCEPT ![a].at = "new"]
        /\ UNCHANGED <<gate, proven>>
  /\ UNCHANGED <<sand, breaker, results>>

\* Mutant of Refuse: the lease is forgotten.
RefuseLeased(a) == attempt' = [attempt EXCEPT ![a].at = "done"] /\ UNCHANGED gate

Refuse(a) == Leave(a, "done")

\* The second preflight.
Confirm(a) ==
  /\ attempt[a].at = "chosen"
  /\ IF breaker THEN Refuse(a)
     ELSE /\ attempt' = [attempt EXCEPT ![a].at = "open", ![a].fresh = TRUE]
          /\ UNCHANGED gate
  /\ UNCHANGED <<sand, breaker, results, proven>>

-----------------------------------------------------------------------------
(* The opening and its stream.                                              *)

Upstream(a) == attempt[a].at \in {"open", "held", "hollow"}

\* Text, a tool or the end of the turn.  A policy result that follows is the
\* client's, except that Sand's driver still publishes it.
Commits(a) ==
  /\ Upstream(a)
  /\ gate' = Marked(a)
  /\ attempt' = Moved(a, IF sand THEN "served" ELSE "done")
  /\ proven' = (proven \/ attempt[a].fresh)
  /\ UNCHANGED <<sand, breaker, results>>

\* Any other error ends the opening, at the peek or on the stream.
Fails(a) ==
  /\ Upstream(a)
  /\ Leave(a, "done")
  /\ UNCHANGED <<sand, breaker, results, proven>>

\* The start loop opens again, with a refreshed token or a reset conversation, or
\* the client comes back.
Return(a) ==
  /\ attempt[a].at = "done" /\ attempt[a].tries < MaxTries
  /\ attempt' = [attempt EXCEPT ![a] = [New EXCEPT !.tries = attempt[a].tries + 1]]
  /\ UNCHANGED <<sand, breaker, gate, results, proven>>

\* The peek saw nothing decisive: a lease stays with the stream, a key known to
\* be healthy needs no more evidence.  Sand's driver keeps either.
Quiet(a) ==
  /\ attempt[a].at = "open"
  /\ attempt' =
       [attempt EXCEPT ![a].at = IF attempt[a].leased THEN "held" ELSE "served",
                       ![a].relayed = ~sand /\ attempt[a].leased]
  /\ UNCHANGED <<sand, breaker, gate, results, proven>>

\* An empty turn or the end of the events: the lease stays for its window.
EndsEmpty(a) ==
  /\ ~sand /\ attempt[a].at = "held"
  /\ attempt' = [attempt EXCEPT ![a].at = "hollow"]
  /\ UNCHANGED <<sand, breaker, gate, results, proven>>

WindowEnds(a) ==
  /\ attempt[a].at = "hollow" /\ attempt[a].aged
  /\ Leave(a, "done")
  /\ UNCHANGED <<sand, breaker, results, proven>>

\* A client that goes takes its start along, and its Sand stream; the task that
\* holds a probe goes on observing.
ClientGone(a) ==
  /\ attempt[a].at \in {"new", "open"} \/ (sand /\ attempt[a].at = "held")
  /\ Leave(a, "done")
  /\ UNCHANGED <<sand, breaker, results, proven>>

-----------------------------------------------------------------------------
(* note_policy_rate_limit.                                                  *)

\* Mutant of Limited: the lease is dropped before the breaker opens.
LimitedReleased(a) ==
  /\ gate' = Dropped(a)
  /\ attempt' = Moved(a, "limited")

Limited(a) ==
  /\ attempt' = [attempt EXCEPT ![a].at = "limited"]
  /\ UNCHANGED gate

\* Cursor answers with a policy limit, at any time until the Run has ended.
IsLimited(a) ==
  /\ Upstream(a) \/ attempt[a].at = "served"
  /\ results < MaxResults
  /\ results' = results + 1
  /\ Limited(a)
  /\ UNCHANGED <<sand, breaker, proven>>

Publish(a) ==
  /\ attempt[a].at = "limited"
  /\ breaker' = TRUE
  /\ attempt' = [x \in Attempts |->
       [attempt[x] EXCEPT !.fresh = FALSE, !.at = IF x = a THEN "published" ELSE @]]
  /\ proven' = FALSE
  /\ UNCHANGED <<sand, gate, results>>

ResetGate(a) ==
  /\ attempt[a].at = "published"
  /\ gate' = Unknown(gate.epoch + 1)
  /\ attempt' = [attempt EXCEPT ![a].at = "releasing"]
  /\ UNCHANGED <<sand, breaker, results, proven>>

Release(a) ==
  /\ attempt[a].at = "releasing"
  /\ Leave(a, IF attempt[a].relayed THEN "late" ELSE "done")
  /\ UNCHANGED <<sand, breaker, results, proven>>

\* LivePumpOutcome::PolicyLimited: the pump publishes what it was handed.
LateNote(a) ==
  /\ attempt[a].at = "late"
  /\ attempt' = [attempt EXCEPT ![a].at = "limited", ![a].relayed = FALSE]
  /\ UNCHANGED <<sand, breaker, gate, results, proven>>

-----------------------------------------------------------------------------
(* Time.                                                                    *)

\* The probe window of a lease is over.
Age(a) ==
  /\ attempt[a].leased /\ ~attempt[a].aged
  /\ attempt' = [attempt EXCEPT ![a].aged = TRUE]
  /\ UNCHANGED <<sand, breaker, gate, results, proven>>

\* The cooldown, of at least five seconds, outlasts every stretch of code
\* without an await.
Cool ==
  /\ breaker
  /\ \A a \in Attempts : attempt[a].at \notin {"gate", "chosen", "published"}
  /\ breaker' = FALSE
  /\ UNCHANGED <<sand, gate, attempt, results, proven>>

\* The gate of a key nobody uses makes room for another key's.
Forget ==
  /\ \A a \in Attempts : ~attempt[a].leased /\ attempt[a].at \notin {"new", "gate", "chosen"}
  /\ gate.phase # "unknown"
  /\ gate' = Unknown(0)
  /\ UNCHANGED <<sand, breaker, attempt, results, proven>>

Admit(a) == Preflight(a) \/ Decide(a) \/ Confirm(a)

Note(a) == Publish(a) \/ ResetGate(a) \/ Release(a)

Next ==
  \/ \E a \in Attempts :
       \/ Admit(a)
       \/ Commits(a) \/ Fails(a) \/ Return(a)
       \/ Quiet(a) \/ EndsEmpty(a) \/ WindowEnds(a) \/ ClientGone(a)
       \/ IsLimited(a) \/ Note(a) \/ LateNote(a)
       \/ Age(a)
  \/ Cool \/ Forget

Spec == Init /\ [][Next]_vars

\* The admission loop is never parked for longer than its timer, a result is
\* published without an await, and windows pass; nothing is assumed of Cursor,
\* which may leave every stream silent.
FairSpec ==
  Spec /\ \A a \in Attempts : WF_vars(Admit(a)) /\ WF_vars(Note(a)) /\ WF_vars(Age(a))

-----------------------------------------------------------------------------
(* Properties.                                                              *)

\* A lease has an owner that will settle it, and a gate in Probing has the
\* lease it names.
TypeOK ==
  /\ sand \in BOOLEAN /\ breaker \in BOOLEAN /\ proven \in BOOLEAN
  /\ gate \in Gate
  /\ attempt \in [Attempts -> Attempt]
  /\ results \in 0..MaxResults
  /\ \A a \in Attempts : attempt[a].leased => attempt[a].at \notin {"new", "gate", "late", "served", "done"}
  /\ gate.phase = "probing" =>
       gate.by \in Attempts /\ attempt[gate.by].leased /\ attempt[gate.by].epoch = gate.epoch

\* Admitted since the last policy result, without an answer anyone could see,
\* and within its window.
Blind ==
  {a \in Attempts : Upstream(a) \/ attempt[a].at = "limited"}
    \cap {a \in Attempts : attempt[a].fresh /\ ~attempt[a].aged}

\* "a quiet key ramps by only one probe per window": until one opening of the
\* key has shown output, at most one waits for its first answer, whatever older
\* probes find out and however a policy result is published.
OneProbePerWindow ==
  /\ ~proven /\ \A a \in Attempts : attempt[a].at # "published"
  => Cardinality(Blind) <= 1

\* A request at the gate is admitted or refused, also when the probe before it
\* stays silent for ever.
WaitersServed ==
  \A a \in Attempts :
    attempt[a].at \in {"new", "gate"} ~> attempt[a].at \notin {"new", "gate"}
=============================================================================
