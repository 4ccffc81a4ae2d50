SPECIFICATION Spec
CONSTANTS
  DevicesCount = 2
  ReceiveQueuesCount = 2
  TransmitQueuesCount = 6
  TableSize = 2
  X = X
  OS_MEMORY_SIZE = 4194304
  HUGEPAGE_SIZE = 4194304
  SIZE_MAX = 16777215
  VirtualPage = 1
  PhysicalPage = 3
  UINT32_MAX = 7
  UINT16_MAX = 3
  KeyBits = 1
  Configs <- MCConfigs
  Headers <- MCHeaders
  Candidates <- MCCandidates
INVARIANT RingsAreAligned
CHECK_DEADLOCK FALSE
