SPECIFICATION Spec
CONSTANTS
  Conns = {1, 2, 3}
  Owner <- TwoTabs
  Pieces = {p1, p2}
  Cap = 2
  AsyncStore = FALSE
  Incidents = {"crash", "stop", "save", "load"}
  MaxSaves = 1
INVARIANTS
  ViewsAgree
  PresenceIsReal
  UndisturbedAreServed
