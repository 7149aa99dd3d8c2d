SPECIFICATION FrontSpec
CONSTANTS
  FrameLimits = {0, 2}
  MaxRecords = 2
  LayerTables <- MCLayers
  Layers = 2
  MaxCalls = 4
  PhysicalKeys = {"enter", "space", "arrow", "menu"}
  KeyName <- MCKeyName
  NoName = "none"
  ScanNames = {"5", "up", "left", "right"}
  BatchSize = 2
  MaxPushes = 4
  InsnPerUs = 2
  AfterLimit = 3
  Delays <- MCDelays
  MaxInsn = 6
  PixelBits = 1
  Pixels = 4
  MaxRows = 2
  WriteCap = 8
  Tile = 2
  Columns = {1, 2, 3}
  Positions <- MCPositions
  CanvasSize = 6
  RegionSizes = {3, 5, 8}
  ViewSizes = {0, 1, 4, 9}
  Cameras <- MCCameras
  MinView = 3
  HalfScreen = 2
  Nodes = {1, 2, 3}
  EntityCap = 2
  Handles = {"h1", "h2"}
  RecordOf <- MCRecordOf
  Lengths <- MCLengths
  Totals = {0, 1, 2}
  MaxCursor = 4
INVARIANTS
  FramesSound
  HostSound
  PixelsRight
  ReadsAreTheirOwn
CHECK_DEADLOCK FALSE
