CONSTANTS
  Packets <- MCPackets
  Fcs <- MCFcs
  Dsize = 4
  NumSamples = 2
  CheckEvery = 2
  MaxSent = 2
SPECIFICATION FairSpec
INVARIANTS FramesForwarded
PROPERTIES ReadLoopEnds PppdExitEndsCall PacketsLeave
CHECK_DEADLOCK FALSE
