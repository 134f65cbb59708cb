CONSTANTS
  Data = {d1}
  NoData = NoData
  Modulus = 2
  Window = 1
  N2 = 1
  Extended = FALSE
  MaxWriteQueue = 0
  CloseDelay = 1
  ExitDelay = 2
  MaxTcp = 1
SPECIFICATION FairSpec
INVARIANTS TypeOK ServedOrClosing
PROPERTIES UsesX75 TcpServed EndOfTcpExits
CHECK_DEADLOCK FALSE
