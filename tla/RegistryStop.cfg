SPECIFICATION Spec
CONSTANTS
  Conns = {1, 2}
  Owner <- Strangers
  Pieces = {p1, p2}
  Cap = 2
  AsyncStore = FALSE
  Incidents = {"stop", "record"}
  MaxSaves = 1
CHECK_DEADLOCK FALSE
SYMMETRY PieceSymmetry
INVARIANTS
  ConfirmedIsKept
  UndisturbedAreServed
