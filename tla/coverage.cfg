SPECIFICATION ScanSpec
CONSTANTS
  Scouts = {s1, s2}
  MaxRetries = 1
INVARIANT ReliableGradeIsCovered
CHECK_DEADLOCK FALSE
