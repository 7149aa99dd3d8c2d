SPECIFICATION ServicesSpec
CONSTANTS
  HeapBase = 8
  HeapSize = 32
  ReqSizes = {0, 4, 9}
  FixedSize = 16
  ObjectSize = 12
  SeedSize = 8
  ScreenWidth = 2
  ScreenHeight = 1
  Bpp = 2
  Bitmaps = {1, 2}
  Utils = {101}
  Coords <- MCCoords
  Byte = {2}
  Original <- MCOriginal
  GuestModes = {"r", "r+b", "wb", "ab"}
  Sizes = {0, 1, 2}
  Offsets <- MCOffsets
  MaxLength = 2
  MaxHandles = 2
  Absent = Absent
  MemTop = 5
  Bytes = {0, 65, 97}
  StrlenCap = 5
  StrchrCap = 4
  StrcpyCap = 3
  Counts = {0, 1, 3}
  Values = {7, 123}
  Top = 4
INVARIANTS
  HeapSound
  CursorsIsolated
  LibrarySound
PROPERTIES
  CallsKeepTheirWord
CHECK_DEADLOCK FALSE
