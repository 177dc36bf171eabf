SPECIFICATION Spec
CONSTANTS
  Threads = {t1, t2}
  None = None
  Cap = 4
  MaxEvents = 7
  MaxMishaps = 4
INVARIANTS
  AccidentsCostTwo
  TamperingShows
