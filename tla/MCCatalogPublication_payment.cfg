\* Two quotes of the same catalog.
SPECIFICATION Spec
CONSTANTS
  None = None
  Video = {}
  Listed = {}
  Quote = {q1, q2}
  Task = {t1}
  Worker = {w1}
  Show = {}
  JobAttempts = 1
  MaxGeneration = 0
  PublishBound = 1
  FinalizeBound = 2
SYMMETRY Symmetry
INVARIANTS
  OneCatalogPayment
