SPECIFICATION Spec
CONSTANTS
  Jobs = {j1}
  Instances = {w1, w2}
  EnqueueAttempts = 1
  MaxDelivery = 3
  CosmosAttempts = 2
  CosmosConfigured = TRUE
  Blocklisted = {}
  Faults = {"send", "lock", "crash", "recycle", "cosmos", "ack", "disk", "unsafe", "no_plugins", "raise"}
  None = None
  Torn = Torn
SYMMETRY InstanceSymmetry
INVARIANT TypeOK
INVARIANT CosmosOutcomeIsOwnDocument
INVARIANT CompletedWasHandled
INVARIANT DeadLetteredWasTried
PROPERTY ResultReadsAreStable
CHECK_DEADLOCK FALSE
