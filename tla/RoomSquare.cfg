SPECIFICATION Spec
CONSTANTS
  Rows = 2
  Cols = 2
  Cell = 6
  Tol = 1
  Overhang = 2
  Area <- SquareArea
  Scatter <- SquareScatter
  Reports <- SquareReports
  Guests = {g1}
  Users = {}
  Names = {n1}
  None = None
  RoomCap = 1
  HoldTimeout = 1
  MaxNow = 0
PROPERTIES
  ProgressIsPermanent
