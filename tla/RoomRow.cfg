SPECIFICATION Spec
CONSTANTS
  Rows = 1
  Cols = 3
  Cell = 6
  Tol = 1
  Overhang = 2
  Area <- RowArea
  Scatter <- RowScatter
  Reports <- RowReports
  Guests = {g1, g2}
  Users = {}
  Names = {n1}
  None = None
  RoomCap = 2
  HoldTimeout = 1
  MaxNow = 0
SYMMETRY GuestSymmetry
INVARIANTS
  IInv
  RoundTrip
  JoinsAreDetermined
PROPERTIES
  HeldGroupIsExclusive
  ImplementsJigsaw
  DropLandsInside
