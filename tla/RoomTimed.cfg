SPECIFICATION Spec
CONSTANTS
  Rows = 1
  Cols = 2
  Cell = 6
  Tol = 1
  Overhang = 2
  Area <- RowArea
  Scatter <- TimedScatter
  Reports <- TimedReports
  Guests = {g1, g2, g3}
  Users = {u1}
  Names = {n1, n2}
  None = None
  RoomCap = 2
  HoldTimeout = 2
  MaxNow = 2
SYMMETRY GuestSymmetry
INVARIANTS
  IInv
  ScoresSum
PROPERTIES
  RecordIsFinal
