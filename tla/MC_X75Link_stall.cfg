CONSTANTS
  Data = {1, 2, 3}
  NoData = NoData
  Modulus = 4
  Window = 2
  N2 = 2
  Extended = FALSE
  Loads <- BothWays
  MaxChan = 4
SPECIFICATION FairSpec
PROPERTIES NoSilentStall
CHECK_DEADLOCK FALSE
