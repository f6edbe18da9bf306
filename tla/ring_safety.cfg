SPECIFICATION Spec
CONSTANTS
  Size = 8
  HdrLen = 3
  Lens = {0, 1, 4}
  BufSizes = {1}
  UsePipe = TRUE
  PipeCap = 2
  WriterApi <- BothApis
  ReaderApi <- BothApis
  Polling = TRUE
  CarefulReset = TRUE
  MaxMsgs = 3
INVARIANTS
  TypeOK
  NeverUnexpected
  ShowsOldest
PROPERTIES
  FifoOfMessages
  NilMeansEmpty
CHECK_DEADLOCK FALSE
