SPECIFICATION Spec
CONSTANTS
  c1 = c1
  c2 = c2
  Clients <- OneClient
  Kinds = {"Freewheel"}
  EvtPipeCap = 2
  OthersFail = FALSE
  RegisterActive = FALSE
  MaxEvents = 2
INVARIANTS
  ToldWhatJackSaid
CHECK_DEADLOCK FALSE
