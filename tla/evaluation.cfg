SPECIFICATION MCSpec
CONSTANTS
  Scouts <- MCScouts
  RawFindings <- MCRawFindings
  MaxFindings = 2
  Cut <- MCCut
  Place <- MCPlace
  Folded <- MCFolded
  AffectedTitles = {"OCSP"}
  Pages <- MCPages
  NoPage = NoPage
  NoReport = NoReport
  Pending = Pending
  Incomplete = Incomplete
  Batches <- MCBatches
  Reports <- MCReports
  MaxAttempts = 2
  None = None
  Torn = Torn
  Strata = {1, 2, 3}
  Bands = {1, 2}
  Wanted <- MCWanted
  Normalized <- MCNormalized
  PoolWorlds <- MCPoolWorlds
  MaxPasses = 2
  NoPool = NoPool
  Sample = {x, y}
  Signals = {csp, hsts}
  MaxTries = 2
  NoRow = NoRow
  Cases = {c1, c2, c3}
  Unset = Unset
  Real = Real
  Requests = {1, 2, 3, 4}
  Header <- MCHeader
  QuotaLimit = 1
  Window = 1
  WriteTries = 2
  MaxClock = 2
  AuthError = AuthError
  Addresses = {"public", "private"}
  Public = {"public"}
  HostNames <- MCHostNames
  Labels <- MCLabels
  BlockedDomains <- MCBlocked
  DnsAnswers <- MCDnsAnswers
  Fetches = {1, 2}
  MaxRedirects = 1
  PrivateAllowed = FALSE
  ManifestWorlds <- MCManifestWorlds
  Norm <- MCNorm
  Scoped = {"@own/p"}
  MaxPackages = 3
  RegistryConcurrency = 2
  Versions = {"SSLv3", "TLSv1.0", "TLSv1.2", "TLSv1.3"}
  HandshakeRetries = 2
  ProbeConcurrency = 2
  Unusable = Unusable
INVARIANT DeduplicationIsSound
INVARIANT GradesAreEarned
INVARIANT HtmlKeepsTheWorst
INVARIANT QuotaIsKept
INVARIANT OnlyPublicIsContacted
INVARIANT TimedOutProbesSayNothing
INVARIANT ConcurrencyIsBounded
INVARIANT SheetIsHonest
INVARIANT OnlyExaminedSitesCount
INVARIANT OverridesOutlastCases
PROPERTY PassIsClean
PROPERTY EveryBatchEnds
CHECK_DEADLOCK FALSE
