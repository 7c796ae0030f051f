SPECIFICATION Spec
CONSTANTS
  Jobs = {j1}
  Instances = {w1}
  EnqueueAttempts = 1
  MaxDelivery = 1
  CosmosAttempts = 1
  CosmosConfigured = TRUE
  Blocklisted = {}
  Faults = {"unsafe"}
  None = None
  Torn = Torn
INVARIANT BlockedIsReportedFailed
CHECK_DEADLOCK FALSE
