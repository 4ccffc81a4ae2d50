SPECIFICATION MCSpec
CONSTANTS
  RingSize = 3
  FlushPeriod = 2
  RecyclePeriod = 1
  OutputsCount = 2
  WordModulus = 1024
  Payloads = {a}
  Wire = Wire
  NoData = NoData
  Mbufs = {m1, m2, m3, m4}
  BATCH_SIZE = 2
  devices_count = 2
INVARIANTS
  NoReceiveIntoOwed
  TransmitsWhatWasHandled
  HandlesEachPacketOnce
  RingOrder
  MbufsHaveOneOwner
PROPERTIES
  ReceiveTailOnlyAdvances
  ReceivedIsTransmitted
  ListsAreFlushed
CHECK_DEADLOCK FALSE
