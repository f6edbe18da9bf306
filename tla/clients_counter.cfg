SPECIFICATION Spec
CONSTANTS
  c1 = c1
  c2 = c2
  r1 = r1
  r2 = r2
  Clients <- TwoClients
  Rings <- OneRing
  Owner <- OfFirst
  WithThread <- NoClients
  Disciplined = FALSE
  MaxActive = 2
INVARIANTS
  CreateInactive
