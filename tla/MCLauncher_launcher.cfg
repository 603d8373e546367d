SPECIFICATION Spec
CONSTANTS
  None = None
  Desktop = {d1}
  Standalone = {s1}
  Pid = {p1, p2, p3, p4}
  Names <- TwoNames
  FreePort = {o1}
  MaxBegins = 3
SYMMETRY Interchangeable
INVARIANTS
  OrphansAccounted
  OnlyStaleSignalled
PROPERTIES
  HealthIsOwn
CHECK_DEADLOCK FALSE
