SPECIFICATION Spec
CONSTANTS
  Attempts = {a1, a2, a3}
  Fingerprints = {f0, f1, f2}
  Unknown = f0
  NoActive = NoActive
  NoAttempt = NoAttempt
  Builds = {{"ledger", "faults", "early"}, {"lapse"}, {"ledger"}}
  MaxResumes = 1
  MaxCrashes = 0
INVARIANTS OneRunPerSession OutcomeRemembered
PROPERTY PublishedIsSealed
CONSTRAINT Focus
SYMMETRY Symmetry
CHECK_DEADLOCK FALSE
