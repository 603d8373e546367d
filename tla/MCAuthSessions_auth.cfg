\* Two tabs of one browser around a login, its refreshes and a logout.
SPECIFICATION Spec
CONSTANTS
  None = None
  t1 = t1
  t2 = t2
  Tab = {t1, t2}
  q1 = q1
  q2 = q2
  Request = {q1, q2}
  Work <- MCWork
  MaxSessions = 3
  MaxTransient = 1
INVARIANTS
  OneActivePerLogin
  NoSelfLogout
  WritesOnce
