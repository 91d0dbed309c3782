SPECIFICATION Spec
CONSTANTS
  MaxNodes = 4
  MaxDepth = 3
  MaxTextBytes = 4
  MaxCommands = 2
  MaxUiGeneration = 2
  MaxGlyphs = 8
  MaxUploadUnits = 26
  MaxLayoutIterations = 8
  MaxClips = 5
  MaxPaintItems = 5
  MaxBatches = 5
  MaxInstances = 3
  MaxBatchCount = 3
  PoolCapacity = 2
  MaxMeshes = 2
  MaxVertexBytes = 5
  MaxIndexBytes = 4
  MaxMaterials = 2
  MaxGeneration = 3
  MaxFrees = 4
  InboxCapacity = 2
  MirrorCapacity = 24
  MeshSizes <- MCMeshSizes
  Scenarios <- MCScenarios
  Contents <- MCContents
  Styles <- MCStyles
  Texts <- MCTexts
  Sizes <- MCSizes
  Points <- MCPoints
  Buttons <- MCButtons
  Geometries <- MCGeometries
INVARIANTS
  TreeInv
  FocusIsLive
  LayoutForgetsPast
  HitIsPainted
  PacketIsDrawable
  MirrorFollowsUi
  EntitiesDrawnOnce
  FrameObjectsAgree
  TablesKeepApart
CHECK_DEADLOCK FALSE
