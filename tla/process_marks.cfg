SPECIFICATION Spec
CONSTANTS
  p1 = p1
  Ports <- OnePort
  Slots = {"Process", "Sync", "Timebase"}
  StackRoom = 2
  Apis = {"lua", "c"}
  Disciplined = TRUE
INVARIANTS
  GetBufferInProcess
CHECK_DEADLOCK FALSE
