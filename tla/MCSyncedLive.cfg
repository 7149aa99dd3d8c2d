CONSTANTS
  k5 = k5
  kr = kr
  n1 = n1
  n2 = n2
  Scan <- MCScan
  StaleNullKeep = 1
  StaleNullThreshold = 2
  HoldNulls = 1
  GapNulls = 1
  StatusAddr <- MCStatusAddr
  NotifyAddr <- MCStatusAddr
  SelfAddr = {}
  Reasons <- MCReasons
  Batches = {}
  MaxRequests = 7
  MaxEvents = 6
  MaxQueue = 12
  MaxSignals = 0
  NavKeys <- MCNavKeys
  Phase1Keys <- MCPhase1Keys
  Phase2Keys <- MCNoKeys
  MaxKeys = 9
  MinGap = 1
  KeyHold = 0
  FirstKeyHold = 2
  StallBudget = 1
  RequireScan = FALSE
SPECIFICATION FairSyncSpec
PROPERTIES KeyInFlightResolves NextKeyOrStall
CHECK_DEADLOCK FALSE
