SPECIFICATION Spec
CONSTANTS
  Execs = {e1, e2}
  ClientOnly = {}
  Requests = {r1, r2}
  Nobody = Nobody
  Never = Never
  TTL = 1
  Lifetime = 2
  MaxSegments = 3
  Faults = {"abort"}
INVARIANT AdmittedReachesDriver
CHECK_DEADLOCK FALSE
