SPECIFICATION FairSpec
CONSTANTS
  Attempts = {a1, a2}
  Fingerprints = {f0, f1, f2}
  Unknown = f0
  NoActive = NoActive
  NoAttempt = NoAttempt
  Builds = {{"ledger"}}
  MaxResumes = 0
  MaxCrashes = 1
INVARIANTS TypeOK LedgerFollowsRegistry
PROPERTIES StartingSettles
CHECK_DEADLOCK FALSE
