SPECIFICATION FairSpec
CONSTANTS
  Attempts = {a1, a2}
  NoAttempt = NoAttempt
  MaxTries = 3
  MaxResults = 2
INVARIANTS TypeOK OneProbePerWindow
PROPERTIES WaitersServed
CHECK_DEADLOCK FALSE
