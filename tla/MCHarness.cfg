SPECIFICATION HarnessSpec
CONSTANTS
  TickPeriod = 5
  AltPeriod = 3
  CaptureLimit = 8
  MaxUnclaimed = 2
  DisableLists <- MCDisableLists
  Dwell = 2
  MaxState = 2
  SubStates = {0, 1, 5}
  MaxInsn = 7
  Scan = {"k5", "k7"}
  StaleNullKeep = 3
  StaleNullThreshold = 8
  HoldNulls = 10
  GapNulls = 3
  Script <- MCScript
  PostKey = "k7"
  NoKeyAfter = "none"
  IdleUntil = 6
  TickInterval = 2
  Interval = 3
  WatchDuration = 2
  OutParamLimit = 1
  Objects = {1}
  MaxSteps = 9
  MaxReads = 2
INVARIANTS
  WindowsTellTheTruth
  HarnessSound
PROPERTIES
  EventsGetThrough
CHECK_DEADLOCK FALSE
