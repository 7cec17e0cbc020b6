SPECIFICATION Spec
CONSTANTS
  s1 = s1
  s2 = s2
  s3 = s3
  Starts = {s1, s2, s3}
  Interactive = {s3}
  MaybeSand = {s3}
  RunMax = 3
  Limit = 1
  InteractiveReserve = 1
  ResumeReserve = 1
  RecoveryMax = 1
  MaxOpens = 2
INVARIANTS TypeOK PermitsHold HalfOpenExclusive
PROPERTIES BreakerFollowsEvidence
CONSTRAINT Bounded
SYMMETRY Bulk
CHECK_DEADLOCK FALSE
