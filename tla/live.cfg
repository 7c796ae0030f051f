SPECIFICATION FairSpec
CONSTANTS
  Jobs = {j1}
  Instances = {w1}
  EnqueueAttempts = 2
  MaxDelivery = 2
  CosmosAttempts = 2
  CosmosConfigured = TRUE
  Blocklisted = {}
  Faults = {"send", "lock", "ack", "crash", "raise"}
  None = None
  Torn = Torn
PROPERTY AcceptedIsSettled
PROPERTY AcceptedIsReported
CHECK_DEADLOCK FALSE
