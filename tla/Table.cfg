CONSTANTS
  Files <- SomeFiles
  Targets = {2, 3, 4, 6, 100, 150, 1000}
  MAX_ATTEMPTS = 2
  MIN_DISTANCE = 2
  FewTabs <- SomeTabs
  MaxCut = 4
  MaxLaid = 200
  Viewports <- SomeViewports
  Step = 300
  MaxGestures = 3
SPECIFICATION Spec
INVARIANTS
  JudgedByOriginal
  PiecesFit
  ScatterIsRoomy
  SearchesSucceed
  CameraServes
