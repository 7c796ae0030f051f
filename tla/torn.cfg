SPECIFICATION Spec
CONSTANTS
  Jobs = {j1}
  Instances = {w1}
  EnqueueAttempts = 1
  MaxDelivery = 2
  CosmosAttempts = 1
  CosmosConfigured = TRUE
  Blocklisted = {}
  Faults = {"lock", "cosmos", "crash"}
  None = None
  Torn = Torn
INVARIANT LocalResultIsNotTorn
CHECK_DEADLOCK FALSE
