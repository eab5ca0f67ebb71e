SPECIFICATION PartsSpec
CONSTANTS
  Cmds = {k1, k2}  Earlier = {k0}  Old = {o1}  Cap = 1
  MaxConns = 2  MaxStamps = 2  Calls = {k1, k2}  Runners = {r1}
  Names = {r1, r2}  Sets = {"base", "xcode"}  PoolSize <- MCPoolSize  MaxVms = 2
  Limits = {"macos"}  LimitMax <- MCLimitMax  SetLimits <- MCSetLimits  Outside <- MCOutside
  Hosts = {h1, h2}  Tokens = {t1, t2}  MaxIds = 2
  CacheJobs = {j1, j2}  MaxVersion = 2
  GitHubJobs = {1}  ForgejoJobs = {0}  SCOPES <- MCScopes  LABELS <- MCLabels
  REQUIRED_LABELS <- MCRequired  MAPPINGS <- MCMappings  PAGE_SIZE = 1  MaxFails = 1  MaxMoves = 1
  VmNames = {r1, r2}  Vmids = {v1}  Taken = {r2}
  LabelNames = {"a", "b"}  ImageIds = {"x", "y"}  MaxMappings = 2
  Attempts = {r1}
  AdminNames = {u1, u2}  Forms = {f1, f2}
  HostNames = {"a", "b"}  ForgeKinds = {"github", "pasted"}  Modes = {"polling"}
  MaxKeys = 3  MaxRuns = 2
  RunAgents = {a1}  WindowTime = 2  BucketTime = 2  MaxTime = 3  MaxRunRows = 2
  MaxJobRows = 1
  PerPage = 1  MAX_PAGES = 2  LatestPages = 1  MaxRelease = 2  MaxReleases = 2  MaxUpdates = 1
  AppAccounts = {a1}  AppRequests = {q1, q2}  TokenLife = 2  TokenBuffer = 1
  MaxInstalls = 2  MaxAppTime = 3
  MAX_LINES = 2  PageLines = 1  MAX_PER_AGENT = 2  FailingAgents = {a1, a2}
  MaxLogLine = 3  MaxFailures = 3
INVARIANTS
  RoomForAll  InstalledGood SetAgreed  SummaryRight  DiagnosticsSound
PROPERTIES
  ReconnectSound EnrollSound ScanSpares OthersSpared  SetupSound UpdatesSafe
CHECK_DEADLOCK FALSE
