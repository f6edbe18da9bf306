SPECIFICATION FairSpec
CONSTANTS
  c1 = c1
  c2 = c2
  Clients <- TwoClients
  Kinds = {"Xrun"}
  EvtPipeCap = 3
  OthersFail = TRUE
  RegisterActive = FALSE
  MaxEvents = 3
INVARIANTS
  PipeCountsQueue
  OnlyScheduled
  NeverUnexpected
  NothingLeaks
PROPERTIES
  FifoDispatch
  EveryEventHandled
  ErrorReachesScript
