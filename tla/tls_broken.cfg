SPECIFICATION TlsSpec
CONSTANTS
  Versions = {"TLSv1.1", "TLSv1.2", "TLSv1.3"}
  HandshakeRetries = 1
  ProbeConcurrency = 2
CHECK_DEADLOCK FALSE
INVARIANT OnlyRefusalsProve
