SPECIFICATION Spec
CONSTANTS
  Sessions = {s1, s2}
  Callers = {c1, c2}
  Blobs = {b1}
  NoEntry = NoEntry
  Nobody = Nobody
  IdleTTL = 0
  MaxConversations = 1
  SoftMaxBlobs = 1
  DiskFaults = TRUE
  MaxIds = 2
  MaxSaves = 2
  MaxTime = 1
  MaxRestarts = 1
INVARIANTS TypeOK CheckpointsBelong SavedSurvives EvictionKeepsPinned
CONSTRAINT Bounded
SYMMETRY Symmetry
CHECK_DEADLOCK FALSE
