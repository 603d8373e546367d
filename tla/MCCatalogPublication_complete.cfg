\* A finalize job that is claimed again after its publication.
SPECIFICATION Spec
CONSTANTS
  None = None
  Video = {}
  Listed = {}
  Quote = {q1}
  Task = {t1}
  Worker = {w1}
  Show = {}
  JobAttempts = 1
  MaxGeneration = 0
  PublishBound = 1
  FinalizeBound = 2
SYMMETRY Symmetry
INVARIANTS
  CompleteIsKept
