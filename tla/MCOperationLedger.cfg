SPECIFICATION Spec
CONSTANTS
  Keys = {k1, k2}
  Owners = {o1, o2}
  Fingerprints = {f0, f1, f2}
  Unknown = f0
  NoActive = NoActive
  NoLease = NoLease
  NoFingerprint = NoFingerprint
  UnresolvedRetention = 1
  CompletedRetention = 1
  MaxCompleted = 1
  MaxRecords = 1
  DiskFaults = TRUE
  MaxTime = 2
  MaxProcesses = 1
INVARIANTS TypeOK LeaseBacked LeaseExclusive HistoryFaithful
PROPERTIES ImplementsLease
CONSTRAINT OneDimension
SYMMETRY Symmetry
CHECK_DEADLOCK FALSE
