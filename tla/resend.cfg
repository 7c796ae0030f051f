SPECIFICATION Spec
CONSTANTS
  Jobs = {j1}
  Instances = {w1, w2}
  EnqueueAttempts = 2
  MaxDelivery = 2
  CosmosAttempts = 1
  CosmosConfigured = TRUE
  Blocklisted = {}
  Faults = {"send", "lock", "crash", "ack"}
  None = None
  Torn = Torn
SYMMETRY InstanceSymmetry
INVARIANT HealthyCosmosCompletedIsReported
PROPERTY ImplementsLifecycle
CHECK_DEADLOCK FALSE
