\* Two videos become ready, public, hidden and deleted around each other's plans and
\* restarts; then two runs of one finalize job publish the catalog.
SPECIFICATION Spec
CONSTANTS
  None = None
  Video = {v1, v2}
  Listed = {}
  Quote = {q1}
  Task = {t1}
  Worker = {w1, w2}
  Show = {}
  JobAttempts = 1
  MaxGeneration = 2
  PublishBound = 1
  FinalizeBound = 2
SYMMETRY Symmetry
CONSTRAINT WorkWhenListed
PROPERTIES
  PublishedExact
  RefusedIsFinal
  RespectsView
