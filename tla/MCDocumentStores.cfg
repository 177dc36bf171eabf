SPECIFICATION DocumentSpec
CONSTANTS
  a = a
  b = b
  p = p
  q = q
  Clients = {a, b}
  Procs = {p, q}
  Setups <- MCSetups
  Keys = {k1, k2}
  None = none
  MaxWriteAttempts = 2
  UsizeMax = 9
  MaxCommands = 3
  MaxMishaps = 1
INVARIANTS OwnWritesVisible
PROPERTIES NeighboursSurvive CallsEnd
CHECK_DEADLOCK FALSE
