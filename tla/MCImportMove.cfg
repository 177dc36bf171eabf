SPECIFICATION Spec
CONSTANTS
  N = 2
  v1 = v1
  a = a
  b = b
  c = c
  d = d
  Cells = {a, b, c, d}
  Values = {v1, v2}
  Stores <- MCStores
  Layouts <- MCLayouts
  Encoded = {1}
  None = none
  Garbled = garbled
  MaxMishaps = 2
INVARIANTS NoValueLost SuccessMeansMoved CacheFollowsDestination
PROPERTIES RepeatedMovesSettle
