SPECIFICATION Spec
CONSTANTS
  v1 = v1
  w1 = w1
  w2 = w2
  None = None
  Video = {v1}
  Worker = {w1, w2}
  MaxJobs = 4
  MaxQuotes = 2
  JobAttempts = 1
  AttemptBound = 2
SYMMETRY WorkerSymmetry
PROPERTIES
  ReplacedOnlyUnpaid
