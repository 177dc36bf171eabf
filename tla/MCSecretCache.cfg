SPECIFICATION Spec
CONSTANTS
  s1 = s1
  s2 = s2
  Procs = {p1, p2}
  Stores = {s1, s2}
  Configs <- FallbackConfigs
  Generates = TRUE
  Milli = 2
  Expiries = {0, 5}
  MaxWrites = 2
  MaxNow = 2
  MaxMishaps = 1
SYMMETRY Commands
PROPERTIES
  CacheServesCurrent
  ServedBeforeExpiry
  ServedWithinMaxAge
  NeighboursKept
  GeneratesOnlyMissing
