SPECIFICATION FairSpec
CONSTANTS
  Execs = {e1, e2, e3}
  ClientOnly = {e3}
  Requests = {r1, r2}
  Nobody = Nobody
  Never = Never
  TTL = 1
  Lifetime = 2
  MaxSegments = 2
  Faults = {"abort", "drop", "end"}
INVARIANTS TypeOK InLockstep
PROPERTIES AbortedNotAccepted PermitsReturned
CHECK_DEADLOCK FALSE
