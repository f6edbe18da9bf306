SPECIFICATION Spec
CONSTANTS
  p1 = p1
  Ports <- OnePort
  Slots = {"Process", "Sync", "Timebase"}
  StackRoom = 2
  Apis = {"lua", "c"}
  Disciplined = TRUE
INVARIANTS
  TypeOK
  GetBufferIfMarked
  BufferOfThisCycle
  StackDoesNotGrow
  BufferOfLivePort
  NeverUnexpected
  StateUsedByOne
CHECK_DEADLOCK FALSE
