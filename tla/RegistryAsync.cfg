SPECIFICATION FairSpec
CONSTANTS
  Conns = {1, 2}
  Owner <- Strangers
  Pieces = {p1, p2}
  Cap = 1
  AsyncStore = TRUE
  Incidents = {"load"}
  MaxSaves = 1
CHECK_DEADLOCK FALSE
INVARIANTS
  MemoryIsSound
  StoreIsSound
PROPERTIES
  JoinIsSettled
  ConfirmedIsStored
