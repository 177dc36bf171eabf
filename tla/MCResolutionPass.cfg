SPECIFICATION Spec
CONSTANTS
  p = p
  q = q
  r = r
  s = s
  None = none
  Chain <- MCChain
  Scope <- MCScope
  Probed = {p, q, r}
  Managed = {r}
  RetrySafe = {q}
  Policy <- MCPolicy
  Stores <- MCStores
  Width = 2
  MaxAttempts = 2
  MaxFaults = 3
INVARIANTS ProbesShared RequestsBounded ChainDecides
PROPERTY PassEnds
CHECK_DEADLOCK FALSE
