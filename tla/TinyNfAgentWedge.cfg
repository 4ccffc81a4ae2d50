SPECIFICATION FairSpec
CONSTANTS
  RingSize = 8
  FlushPeriod = 3
  RecyclePeriod = 2
  OutputsCount = 1
  WordModulus = 1024
  Payloads = {a}
  Wire = Wire
  NoData = NoData
PROPERTY
  ReceiveResumes
CHECK_DEADLOCK FALSE
