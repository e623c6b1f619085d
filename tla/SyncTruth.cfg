SPECIFICATION SyncSpec
CONSTANTS
  Rows = 1
  Cols = 2
  Cell = 6
  Tol = 1
  Overhang = 2
  Area <- SyncArea
  Scatter <- SyncScatter
  Reports <- SyncReports
  Passing <- SyncPassing
  Guests = {g1, g2}
  Users = {}
  Names = {n1, n2}
  None = None
  RoomCap = 2
  HoldTimeout = 1
  MaxNow = 0
  MaxEvents = 3
SYMMETRY SyncSymmetry
CHECK_DEADLOCK FALSE
INVARIANTS
  ShowsTheTruth
