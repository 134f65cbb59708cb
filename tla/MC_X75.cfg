CONSTANTS
  Data = {d1}
  NoData = NoData
  Modulus = 4
  Window = 2
  N2 = 1
  Extended = FALSE
  Dce = TRUE
  MaxQueue = 3
SPECIFICATION FairSpec
INVARIANTS TypeOK QueueCountsCover WindowRespected AwaitingSupervised UpperLayerInformed WaitsForPeer
PROPERTIES NoSilentLoss PeerBusyHolds WaitsEnd
CHECK_DEADLOCK FALSE
