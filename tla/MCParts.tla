------------------------------- MODULE MCParts -------------------------------
(* The safety of the parts that share no state, in one run: each behaviour  *)
(* is one part's, the variable unit names it, and the others stay in an      *)
(* initial state.                                                            *)
EXTENDS Session, Registration, Pools, Enroll, RunnerCache, ForgeScan, HostVms, Labels, RunHistory,
        Accounts, Setup, Summary, Updates, GithubApp, Diagnostics

VARIABLE unit

Units ==
  {"session", "registration", "pools", "enroll", "cache", "scan", "host", "labels", "history",
   "accounts", "setup", "summary", "updates", "app", "diagnostics"}

\* Of the parts that may start in several states, those of the other units start in one.
Pinned ==
  /\ unit # "scan" => polling
  /\ unit # "host" => kind = "tart"
  /\ unit # "labels" =>
       base = {} /\ wanted = {} /\ setId = "" /\ baseId = CHOOSE i \in ImageIds : TRUE
  /\ unit # "accounts" => admins = {}
  /\ unit # "app" => installs = 1 /\ installId[CHOOSE a \in AppAccounts : TRUE] = 1
  /\ unit # "diagnostics" => table = "logs"

PartsInit ==
  /\ unit \in Units
  /\ ScanInit /\ HostInit /\ LabelsInit /\ AccountsInit /\ AppInit /\ DiagInit /\ Pinned
  /\ SessionInit /\ RegistrationInit /\ PoolsInit /\ EnrollInit /\ CacheInit
  /\ HistoryInit /\ SetupInit /\ SummaryInit /\ UpdatesInit

\* The steps of unit u leave the variables of the others alone.
Alone(u) ==
  /\ UNCHANGED unit
  /\ IF u = "session" THEN TRUE ELSE UNCHANGED sessionVars
  /\ IF u = "registration" THEN TRUE ELSE UNCHANGED registrationVars
  /\ IF u = "pools" THEN TRUE ELSE UNCHANGED poolsVars
  /\ IF u = "enroll" THEN TRUE ELSE UNCHANGED enrollVars
  /\ IF u = "cache" THEN TRUE ELSE UNCHANGED cacheVars
  /\ IF u = "scan" THEN TRUE ELSE UNCHANGED scanVars
  /\ IF u = "host" THEN TRUE ELSE UNCHANGED hostVars
  /\ IF u = "labels" THEN TRUE ELSE UNCHANGED labelVars
  /\ IF u = "history" THEN TRUE ELSE UNCHANGED historyVars
  /\ IF u = "accounts" THEN TRUE ELSE UNCHANGED accountVars
  /\ IF u = "setup" THEN TRUE ELSE UNCHANGED setupVars
  /\ IF u = "summary" THEN TRUE ELSE UNCHANGED sumVars
  /\ IF u = "updates" THEN TRUE ELSE UNCHANGED updVars
  /\ IF u = "app" THEN TRUE ELSE UNCHANGED appVars
  /\ IF u = "diagnostics" THEN TRUE ELSE UNCHANGED diagVars

PartsNext ==
  \/ unit = "session" /\ SessionNext /\ Alone("session")
  \/ unit = "registration" /\ RegistrationNext /\ Alone("registration")
  \/ unit = "pools" /\ PoolsNext /\ Alone("pools")
  \/ unit = "enroll" /\ EnrollNext /\ Alone("enroll")
  \/ unit = "cache" /\ CacheNext /\ Alone("cache")
  \/ unit = "scan" /\ ScanNext /\ Alone("scan")
  \/ unit = "host" /\ HostNext /\ Alone("host")
  \/ unit = "labels" /\ LabelsNext /\ Alone("labels")
  \/ unit = "history" /\ HistoryNext /\ Alone("history")
  \/ unit = "accounts" /\ AccountsNext /\ Alone("accounts")
  \/ unit = "setup" /\ SetupNext /\ Alone("setup")
  \/ unit = "summary" /\ SummaryNext /\ Alone("summary")
  \/ unit = "updates" /\ UpdatesNext /\ Alone("updates")
  \/ unit = "app" /\ AppNext /\ Alone("app")
  \/ unit = "diagnostics" /\ DiagNext /\ Alone("diagnostics")

partsVars ==
  <<unit, sessionVars, registrationVars, poolsVars, enrollVars, cacheVars, scanVars, hostVars,
    labelVars, historyVars, accountVars, setupVars, sumVars, updVars, appVars, diagVars>>

PartsSpec == PartsInit /\ [][PartsNext]_partsVars

-----------------------------------------------------------------------------
(* The bounds *)

MCPoolSize == [s \in Sets |-> 1]
MCLimitMax == [l \in Limits |-> 2]
MCOutside == [l \in Limits |-> 1]
MCSetLimits == [s \in Sets |-> {"macos"}]

MCScopes == <<{0}, {0}>>
MCLabels == [j \in ScanJobs |-> IF j = 1 THEN {"self-hosted", "mac"} ELSE {"self-hosted", "lin"}]
MCRequired == {"self-hosted"}
MCMappings == <<[forge |-> "github", labels |-> {"mac"}], [forge |-> "any", labels |-> {"lin"}]>>
=============================================================================
