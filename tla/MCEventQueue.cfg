CONSTANTS
  Scan = {k1, k2}
  StaleNullKeep = 2
  StaleNullThreshold = 8
  HoldNulls = 10
  GapNulls = 3
  MaxQueue = 32
  Batches <- MCBatches
SPECIFICATION QueueSpec
INVARIANTS QueueTypeOK RealsSurvive
PROPERTIES TickBoundsBacklog GapsSurvive
CHECK_DEADLOCK FALSE
