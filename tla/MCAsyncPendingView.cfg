CONSTANTS
  k = k
  n1 = n1
  n2 = n2
  own = own
  Scan <- MCScan
  StaleNullKeep = 1
  StaleNullThreshold = 2
  HoldNulls = 1
  GapNulls = 1
  StatusAddr <- MCStatusAddr
  NotifyAddr <- MCNotifyAddr
  SelfAddr <- MCSelfAddr
  Reasons <- MCReasons
  Batches <- MCBatches
  MaxRequests = 4
  MaxEvents = 3
  MaxQueue = 5
  MaxSignals = 2
SPECIFICATION Spec
INVARIANT PendingMirrorsOutstanding
CHECK_DEADLOCK FALSE
