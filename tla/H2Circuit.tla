------------------------------ MODULE H2Circuit ------------------------------
(***************************************************************************)
(* ProcessH2Circuit (src/src/providers/cursor/live.rs): the process-wide    *)
(* breaker that routes first opens to HTTP/1 after an HTTP/2 open timeout   *)
(* or a stream reset, and lets one probe test HTTP/2 after a cooldown.      *)
(* The operators map the circuit before a call to the circuit after it; a   *)
(* call is one hold of the PROCESS_H2_CIRCUIT mutex.                        *)
(*                                                                         *)
(* TRANSPORT_BREAKER_COOLDOWN has either passed since open_since or not.    *)
(* consecutive_timeouts is only logged and is left out.                     *)
(***************************************************************************)
EXTENDS Naturals

NoProbe == [id |-> 0, phase |-> "none"]

Lease == [id: Nat, phase: {"none", "transport", "run"}]

Circuit == [open: BOOLEAN, cooled: BOOLEAN, epoch: Nat, ids: Nat, probe: Lease]

\* ids is next_probe_id; an epoch ends with every change of the verdict.
Closed == [open |-> FALSE, cooled |-> FALSE, epoch |-> 0, ids |-> 0, probe |-> NoProbe]

Reopened(c) ==
  [c EXCEPT !.open = TRUE, !.cooled = FALSE, !.epoch = @ + 1, !.probe = NoProbe]

Recovered(c) ==
  [c EXCEPT !.open = FALSE, !.cooled = FALSE, !.epoch = @ + 1, !.probe = NoProbe]

\* Mutant of HalfOpens: a probe under way does not hold others back.
HalfOpensAgain(c) == c.open /\ c.cooled

\* route_at hands out a probe.
HalfOpens(c) == c.open /\ c.cooled /\ c.probe = NoProbe

Probed(c) ==
  [c EXCEPT !.ids = @ + 1, !.probe = [id |-> c.ids + 1, phase |-> "transport"]]

Owns(c, id, phase) == id # 0 /\ c.probe = [id |-> id, phase |-> phase]

\* Mutant of OnH2Failure: evidence of an earlier epoch counts as well.
OnH2FailureLate(c, epoch) == Reopened(c)

\* on_h2_open_timeout and on_h2_stream_reset.
OnH2Failure(c, epoch) == IF epoch = c.epoch THEN Reopened(c) ELSE c

\* Mutant of OnOpenSuccess: whoever holds a probe id closes the circuit.
OnOpenSuccessStale(c, id) == IF id # 0 /\ c.open THEN Recovered(c) ELSE c

OnOpenSuccess(c, id) == IF Owns(c, id, "run") THEN Recovered(c) ELSE c

OnProbeTransport(c, id, ok) ==
  IF ~Owns(c, id, "transport") THEN c
  ELSE IF ok THEN [c EXCEPT !.probe.phase = "run"] ELSE Reopened(c)

OnProbeRunFailure(c, id) == IF Owns(c, id, "run") THEN Reopened(c) ELSE c

\* Mutant of Released: the guard forgets to give the lease back.
ReleasedNever(c, id) == c

\* release_h2_probe, when a ProcessH2ProbeGuard is dropped.
Released(c, id) == IF id # 0 /\ c.probe.id = id THEN [c EXCEPT !.probe = NoProbe] ELSE c
=============================================================================
