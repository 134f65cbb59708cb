CONSTANTS
  Data = {1, 2, 3}
  NoData = NoData
  Modulus = 4
  Window = 2
  N2 = 2
  Extended = FALSE
  Loads <- Safety
  MaxChan = 5
SPECIFICATION Spec
INVARIANTS NoFrameReject
PROPERTIES IsService
CHECK_DEADLOCK FALSE
