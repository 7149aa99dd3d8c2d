CONSTANTS
  k5 = k5
  kr = kr
  n1 = n1
  n2 = n2
  Scan <- MCScan
  StaleNullKeep = 1
  StaleNullThreshold = 2
  HoldNulls = 1
  GapNulls = 1
  StatusAddr <- MCTwoAddr
  NotifyAddr <- MCTwoAddr
  SelfAddr <- MCSelfAddr
  Reasons <- MCReasons
  Batches = {}
  MaxRequests = 14
  MaxEvents = 12
  MaxQueue = 12
  MaxSignals = 1
  NavKeys <- MCNavKeys
  Phase1Keys <- MCPhase1Keys
  Phase2Keys <- MCTwoKeys
  MaxKeys = 2
  MinGap = 1
  KeyHold = 0
  FirstKeyHold = 3
  StallBudget = 1
  RequireScan = TRUE
SPECIFICATION SyncSpec
INVARIANTS SyncTypeOK LedgerIsTheKeyInFlight NoStuckKey AtMostMaxKeys
PROPERTIES KeysMeetARequest PhaseBoundaryHolds StallIsFinal
CHECK_DEADLOCK FALSE
