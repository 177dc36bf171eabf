SPECIFICATION Spec
CONSTANTS
  Callers = {c1, c2}
  MaxEndpoints = 2
  MaxChanges = 1
  MaxInFlight = 1
  Metas = {m1, m2}
  Detached = FALSE
  None = None
SYMMETRY Interchangeable
CHECK_DEADLOCK FALSE
INVARIANTS
  EofEndsSession
