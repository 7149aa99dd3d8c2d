CONSTANTS
  k5 = k5
  kr = kr
  n1 = n1
  Scan <- MCScan
  Tracked = k5
  MaxDelivered = 1
  StaleNullKeep = 1
  StaleNullThreshold = 2
  HoldNulls = 1
  GapNulls = 0
  StatusAddr <- MCStatusAddr
  NotifyAddr <- MCStatusAddr
  SelfAddr = {}
  Reasons <- MCReasons
  Batches = {}
  MaxRequests = 4
  MaxEvents = 9
  MaxQueue = 8
  MaxSignals = 0
  NavKeys <- MCNoKeys
  Phase1Keys <- MCPhase1Keys
  Phase2Keys <- MCNoKeys
  MaxKeys = 3
  MinGap = 0
  KeyHold = 0
  FirstKeyHold = 1
  StallBudget = 1
  RequireScan = FALSE
SPECIFICATION TraceSpec
INVARIANTS ObserversAgree StagesNest
PROPERTY InterpretedIsTracked
CHECK_DEADLOCK FALSE
