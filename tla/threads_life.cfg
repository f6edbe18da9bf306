SPECIFICATION FairSpec
CONSTANTS
  c1 = c1
  c2 = c2
  t1 = t1
  t2 = t2
  Clients <- TwoClients
  Threads <- TwoThreads
  Owner <- OfClient
  Signallers <- Processes
  Failing <- FirstProcess
INVARIANTS
  TypeOK
  SignalWakes
  ClosedOnce
  LockAlive
  MessageWhole
PROPERTIES
  FirstErrorKept
  ErrorRegistered
  CloseCompletes
CHECK_DEADLOCK FALSE
