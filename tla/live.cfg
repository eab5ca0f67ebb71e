SPECIFICATION LiveSpec
CONSTANTS
  Cmds = {k1, k2}  Earlier = {k0}  Old = {}  Cap = 1
  PoolRunners = {r1}
  CacheJobs = {j1, j2}  MaxVersion = 1
  BUFFER_CAPACITY = 3  MAX_BATCH = 2  MaxLines = 4  MaxSessions = 2
  GitHubJobs = {1, 2}  ForgejoJobs = {}  SCOPES <- MCScopes  LABELS <- MCLabels
  REQUIRED_LABELS <- MCRequired  MAPPINGS <- MCMappings  PAGE_SIZE = 1  MaxFails = 0  MaxMoves = 0
  VmNames = {r1}  Vmids = {v1}  Taken = {}
INVARIANTS
  DrainSpares LinesAccounted 
PROPERTIES
  SessionDelivers DrainEnds InstallEnds LinesArrive QueuedJobFound LeakCounted DeadVmNoticed
CHECK_DEADLOCK FALSE
