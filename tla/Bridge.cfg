SPECIFICATION Spec
CONSTANTS
  TIME_MAX = 2
  Keys = {a1, a2, a3}
  NoKey = NoKey
  Groups = {g}
  BridgeGroup = g
  DevicesCount = 2
  Capacity = 2
  ExpirationTime = 0
  UpdateTime = 0
  Self = 2
  Bpdus <- MCBpdus
  LINK_COST = 10
  CostModulus = 32
INVARIANTS
  TableInSync
  EntriesFollowStations
  ElectsTheBestPath
SYMMETRY MCSymmetry
