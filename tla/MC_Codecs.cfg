CONSTANTS
  Foreign = {0, 85, 255}
  Payloads <- MCPayloads
  Octets = {0, 3, 33, 126, 255}
  MaxPacket = 4
  MaxSubs = 12
  syncword_bits <- MCsync
  Training <- MCtraining
  MaxBits = 12
SPECIFICATION AllSpec
INVARIANTS
  RoundTrip DecodesWithinModulus Lossless FcsAccepted EveryBitOnce
  OnlyMissedAreOld BlocksAligned
CHECK_DEADLOCK FALSE
