SPECIFICATION Spec
CONSTANTS
  v1 = v1
  w1 = w1
  w2 = w2
  None = None
  Video = {v1}
  Worker = {w1, w2}
  MaxJobs = 3
  MaxQuotes = 1
  JobAttempts = 2
  AttemptBound = 2
SYMMETRY WorkerSymmetry
CONSTRAINTS
  Reporting
INVARIANTS
  ReadyIsStored
  PaidFilesKept
PROPERTIES
  ReadyIsFinal
  RestartRecovers
  RespectsView
