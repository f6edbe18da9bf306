SPECIFICATION FairSpec
CONSTANTS
  c1 = c1
  c2 = c2
  r1 = r1
  r2 = r2
  Clients <- TwoClients
  Rings <- TwoRings
  Owner <- OneEach
  WithThread <- TwoClients
  Disciplined = TRUE
  MaxActive = 2
INVARIANTS
  CountIsActive
  CallbacksSeeNoInsertion
  NoUseAfterFree
PROPERTIES
  ExitCompletes
