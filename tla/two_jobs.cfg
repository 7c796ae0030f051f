SPECIFICATION Spec
CONSTANTS
  Jobs = {j1, j2, gov}
  Instances = {w1}
  EnqueueAttempts = 1
  MaxDelivery = 2
  CosmosAttempts = 1
  CosmosConfigured = TRUE
  Blocklisted = {gov}
  Faults = {"lock", "cosmos", "crash", "raise"}
  None = None
  Torn = Torn
INVARIANT RefusedLeavesNoTrace
INVARIANT FinishedScanIsKept
CHECK_DEADLOCK FALSE
