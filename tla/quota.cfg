SPECIFICATION QuotaSpec
CONSTANTS
  Requests = {1, 2, 3, 4}
  Header <- MCHeader
  QuotaLimit = 1
  Window = 1
  WriteTries = 2
  MaxClock = 2
  AuthError = AuthError
INVARIANT AtMostQuotaPerWindow
CHECK_DEADLOCK FALSE
