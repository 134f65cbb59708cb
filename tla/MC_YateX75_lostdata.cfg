CONSTANTS
  Data = {d1}
  NoData = NoData
  Modulus = 4
  Window = 1
  N2 = 1
  Extended = FALSE
  MaxWriteQueue = 1
  CloseDelay = 1
  ExitDelay = 2
  MaxTcp = 3
SPECIFICATION Spec
PROPERTY NoLostData
CHECK_DEADLOCK FALSE
