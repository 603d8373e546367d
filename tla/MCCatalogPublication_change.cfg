\* The catalog changes around one publication and its retries.
SPECIFICATION Spec
CONSTANTS
  None = None
  Video = {v1}
  Listed = {v1}
  Quote = {q1}
  Task = {t1}
  Worker = {w1}
  Show = {TRUE}
  JobAttempts = 2
  MaxGeneration = 1
  PublishBound = 1
  FinalizeBound = 2
SYMMETRY Symmetry
INVARIANTS
  PaidIsKept
PROPERTIES
  PublishedExact
  RestartPrepares
