SPECIFICATION MCSpec
CONSTANTS
  k1 = k1
  k2 = k2
  k3 = k3
  k4 = k4
  Keys <- MCKeys
  Hash <- MCHash
  Values = {v1, v2}
  Addresses = {a1, a2, a3}
  NULL = NULL
  Capacities = {0, 2, 3}
  TIME_MAX = 4
  PoolSize = 3
  PoolExpirationTimes = {0, 1, 4}
INVARIANT
  ChainsCountPassers
PROPERTIES
  ImplementsContract
  ImplementsPoolContract
SYMMETRY MCSymmetry
