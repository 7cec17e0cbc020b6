SPECIFICATION Spec
CONSTANTS
  Execs = {e1, e2}
  ClientOnly = {}
  Requests = {r1, r2, r3}
  Nobody = Nobody
  Never = Never
  TTL = 1
  Lifetime = 2
  MaxSegments = 3
  Faults = {"drop", "cancel", "send", "stage", "end"}
INVARIANTS OneInFlight InFlightWins RefusedNotSent EachResultOnce
SYMMETRY Symmetry
CHECK_DEADLOCK FALSE
