SPECIFICATION Spec
CONSTANTS
  Parents = {p1, p2}
  Callers = {k1, k2, k3}
  Limit = 2
  MaxAbandoned = 4
  QueueCap = 2
  Applications <- MCApplications
  NoOne = NoOne
SYMMETRY Interchangeable
CONSTRAINT MCCallbacks
INVARIANTS
  OnlyParentsDisagree
  ActiveOwnPermits
  PatientSessionsLast
  MarkersAwaitAnswers
