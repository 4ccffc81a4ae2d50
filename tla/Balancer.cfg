SPECIFICATION Spec
CONSTANTS
  f1 = f1
  f2 = f2
  f3 = f3
  Keys <- MCFlows
  NoKey = NoKey
  TIME_MAX = 4
  BackendCapacity = 2
  FlowCapacity = 2
  FlowExpirationTime = 1
  BackendExpirationTime = 1
  ChtHeight = 3
  Hash <- MCHash
  Sizes <- MCSizes
INVARIANTS
  TableInSync
  BucketsRankAllBackends
PROPERTIES
  OnlyResponsiveBackends
  NewFlowsFollowTheRanking
