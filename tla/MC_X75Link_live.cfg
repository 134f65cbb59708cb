CONSTANTS
  Data = {1, 2, 3}
  NoData = NoData
  Modulus = 4
  Window = 2
  N2 = 2
  Extended = FALSE
  Loads <- OneWay
  MaxChan = 4
SPECIFICATION FairSpec
PROPERTIES EventuallyEstablished NoSilentStall
CHECK_DEADLOCK FALSE
