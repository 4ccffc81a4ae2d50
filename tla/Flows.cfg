SPECIFICATION MCSpec
CONSTANTS
  TIME_MAX = 5
  Keys <- MCFlowSet
  NoKey = NoKey
  max_flows = 2
  expiration_time = 2
  Hosts = {h1, h2}
  Servers = {s1, s2}
  NoPort = NoPort
  MaxFlows = 2
  ExpirationTime = 1
  StartPort = 7
  PortModulus = 8
  h1 = h1
  h2 = h2
  s1 = s1
  s2 = s2
  HostWords <- MCHostWords
  ExternalAddr <- MCExternal
  ServerLow <- MCServerLow
  Checksums = {1, 6}
INVARIANTS
  FlowTableInSync
  CallsAreLegal
  TableInSync
PROPERTIES
  IsFlowFilter
  AnswersReachTheirSender
  OnlyAnswersGetIn
  LiveFlowsKeepTheirPort
