----------------------------- MODULE MCLiveStart -----------------------------
(* Bounded instances of LiveStart for TLC. *)
EXTENDS LiveStart, TLC

CONSTANTS s1, s2, s3

\* The bulk starts behave alike.
Bulk == Permutations({s1, s2})

\* Two reopens in a row by one of the Runs, and three verdicts of the circuit:
\* it trips, a probe settles it, and something trips it again.
Bounded ==
  /\ \A s, t \in Starts : s # t => start[s].opens * start[t].opens = 0
  /\ circuit.epoch <= 3
  /\ start[s1].opens + start[s2].opens + start[s3].opens = 2 => circuit.epoch <= 2
=============================================================================
