CONSTANTS
  STR_BUF_SIZE = 13
  ReadSize = 20
  Streams <- MCStreams
  Room <- MCRoom
  TextSize = 2
  Tone = 1
  MaxSent = 4
  MaxHeard = 2
SPECIFICATION Spec
INVARIANTS TypeOK LinesWhole CallsAsSent TextKept
PROPERTIES LoopReturns ClosedEnds
CHECK_DEADLOCK FALSE
