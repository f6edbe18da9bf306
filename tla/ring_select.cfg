SPECIFICATION FairSpec
CONSTANTS
  Size = 8
  HdrLen = 3
  Lens = {0, 2}
  BufSizes = {}
  UsePipe = TRUE
  PipeCap = 3
  WriterApi <- LuaOnly
  ReaderApi <- LuaOnly
  Polling = FALSE
  CarefulReset = TRUE
  MaxMsgs = 3
INVARIANTS
  WakeupNotLost
PROPERTIES
  EveryMessageRead
CHECK_DEADLOCK FALSE
