SPECIFICATION PartsSpec
CONSTANTS
  Calls = {c1, c2, c3, c4}
  Urls = {a, b}
  Scouts = {s1, s2, s3}
  MaxRetries = 2
  Libraries <- MCLibraries
  Versions <- MCVersions
  Unparsable <- MCUnparsable
  SortKey <- MCSortKey
  CveIds <- MCCveIds
  Worlds <- MCWorlds
  MaxChanges = 1
  MaxFaults = 2
  None = None
  Nil = Nil
  Torn = Torn
 
INVARIANT RowsAreAnswered
INVARIANT FailuresAreIsolated
INVARIANT CsvIsConservative
PROPERTY RowsStayReadable
PROPERTY Heals
INVARIANT CacheTypeOK
INVARIANT ScanTypeOK
INVARIANT WaitersAreServed
INVARIANT RegisteredEventIsPending
INVARIANT HealthyFetchIsShared
PROPERTY EveryCallEnds
INVARIANT PreflightIsExact
INVARIANT ReportCoversLoaded
PROPERTY AnswerIsFinal
PROPERTY CancelledStoresNothing
PROPERTY EveryScanEnds
CHECK_DEADLOCK FALSE
