SPECIFICATION Spec
CONSTANTS
  c1 = c1
  c2 = c2
  Clients <- OneClient
  Kinds = {"Xrun"}
  EvtPipeCap = 2
  OthersFail = TRUE
  RegisterActive = FALSE
  MaxEvents = 2
INVARIANTS
  FreedOnce
