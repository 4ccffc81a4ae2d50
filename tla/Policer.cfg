SPECIFICATION Spec
CONSTANTS
  TIME_MAX = 6
  Keys = {a1, a2, a3}
  NoKey = NoKey
  MaxFlows = 2
  Configs <- MCConfigs
  Second = 2
  WordModulus = 8
  Lengths = {1, 3}
INVARIANTS
  TableInSync
  NeverOverRate
  TokensAreExact
SYMMETRY MCSymmetry
