CONSTANTS
  Configs <- MCConfigs
  FramingErrors = {0, 1}
  Width = 8
  MaxChars = 3
  MaxChanges = 2
SPECIFICATION UartSpec
INVARIANTS CharsDelivered RoomForNext FlagsOfLast
PROPERTIES BufferFlushed Resynchronises
CHECK_DEADLOCK FALSE
