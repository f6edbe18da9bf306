SPECIFICATION MCSpec
CONSTANTS
  Chans = {1, 2, 16}
  Values7 = {0, 1, 64, 127}
  Values14 <- Carries
  Times <- EdgeTimes
  StatusBytes <- EveryStatus
  DataBytes = {0, 1, 127, 128}
  Values <- AroundWord
  Half = 8
  JackFields <- OneJackPosition
  Nil = Nil
  NoPosition = NoPosition
  MaxChanges = 2
INVARIANTS
  TypeOK
  RoundTrip
  Recoded
  RepositionKeeps
