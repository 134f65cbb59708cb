CONSTANTS
  Data = {d1}
  NoData = NoData
  Modulus = 4
  Window = 2
  N2 = 1
  Extended = FALSE
  Dce = TRUE
  MaxQueue = 4
SPECIFICATION Spec
INVARIANT NoCrash
CHECK_DEADLOCK FALSE
