------------------------------ MODULE ForgeScan ------------------------------
(***************************************************************************)
(* How queued jobs are found: webhooks, and scans that list a forge's jobs *)
(* call by call while the jobs go on. A GitHub scan reads the pages of the *)
(* runs of each status and then the jobs of each run; a Forgejo scan reads *)
(* each scope. What a scan misses is asked about before it is dropped.     *)
(***************************************************************************)
EXTENDS Naturals, Sequences, FiniteSets, SequencesExt, FiniteSetsExt

CONSTANTS
  GitHubJobs,  \* numbers, the newest is the greatest; each is the job of a run of its own
  ForgejoJobs, \* numbers too
  SCOPES,      \* the Forgejo scopes, in order: the jobs of each
  LABELS,      \* [jobs -> SUBSET STRING]
  REQUIRED_LABELS,
  MAPPINGS,    \* the label mappings, in order: [forge, labels], forge "any" if it has none
  PAGE_SIZE,
  MaxFails,    \* bound: calls that fail
  MaxMoves     \* bound: changes of a run's status while its job is queued

ScanJobs == GitHubJobs \cup ForgejoJobs

\* "A Forgejo forge needs at least one entry in scopes".
ASSUME ForgeScanAssumption ==
  /\ ScanJobs \subseteq Nat /\ GitHubJobs \cap ForgejoJobs = {} /\ PAGE_SIZE \in Nat \ {0}
  /\ SCOPES \in Seq(SUBSET ForgejoJobs) /\ SCOPES # <<>>

VARIABLES
  polling, \* polling mode, or webhook mode
  jobIs,   \* [ScanJobs -> {"new", "queued", "in_progress", "completed"}]
  runIs,   \* [GitHubJobs -> STRING]: the status of the job's run
  quiet,   \* jobs of repositories not pushed to for queued_scan_lookback_hours
  rows,    \* jobs in the pending queue
  norepo,  \* those whose row does not have its repository
  scan,    \* the scan under way: see Idle
  fails, moves

scanForgeVars == <<jobIs, runIs, quiet, moves>>
scanVars == <<polling, jobIs, runIs, quiet, rows, norepo, scan, fails, moves>>

\* at: the call it awaits; st: the run status or the scope it lists; page, runs: the pages read so
\* far; todo: runs or rows to look at; found: QueueScan's seen; forges: QueueScan's forges; missed:
\* the scopes that failed.
NoScan == [at |-> "off", st |-> 1, page |-> 1, runs |-> {}, todo |-> {}, found |-> {},
           forges |-> {}, missed |-> 0]

ScanInit ==
  /\ polling \in BOOLEAN /\ jobIs = [j \in ScanJobs |-> "new"]
  /\ runIs = [j \in GitHubJobs |-> "none"] /\ quiet = {} /\ rows = {} /\ norepo = {}
  /\ scan = NoScan /\ fails = 0 /\ moves = 0

ForgeOf(j) == IF j \in GitHubJobs THEN "github" ELSE "forgejo"

-----------------------------------------------------------------------------
(* The forges *)

ActiveRun == {"queued", "in_progress", "waiting"}

\* The run's other jobs decide what it is.
Queue(j) ==
  /\ jobIs[j] = "new" /\ jobIs' = [jobIs EXCEPT ![j] = "queued"]
  /\ runIs' \in {[k \in GitHubJobs |-> IF k = j THEN s ELSE runIs[k]] : s \in ActiveRun}
  /\ UNCHANGED <<quiet, moves, polling, rows, norepo, scan, fails>>

RunMoves(j) ==
  /\ j \in GitHubJobs /\ jobIs[j] = "queued" /\ moves < MaxMoves /\ moves' = moves + 1
  /\ \E s \in ActiveRun \ {runIs[j]} : runIs' = [runIs EXCEPT ![j] = s]
  /\ UNCHANGED <<jobIs, quiet, polling, rows, norepo, scan, fails>>

StartJob(j) ==
  /\ jobIs[j] = "queued" /\ jobIs' = [jobIs EXCEPT ![j] = "in_progress"]
  /\ runIs' = [k \in GitHubJobs |-> IF k = j THEN "in_progress" ELSE runIs[k]]
  /\ UNCHANGED <<quiet, moves, polling, rows, norepo, scan, fails>>

EndJob(j) ==
  /\ jobIs[j] \in {"queued", "in_progress"} /\ jobIs' = [jobIs EXCEPT ![j] = "completed"]
  /\ runIs' = [k \in GitHubJobs |-> IF k = j THEN "completed" ELSE runIs[k]]
  /\ UNCHANGED <<quiet, moves, polling, rows, norepo, scan, fails>>

\* "`pushed_at` only tracks pushes".
GoesQuiet(j) ==
  /\ j \in GitHubJobs \ quiet /\ jobIs[j] = "queued" /\ quiet' = quiet \cup {j}
  /\ UNCHANGED <<jobIs, runIs, moves, polling, rows, norepo, scan, fails>>

-----------------------------------------------------------------------------
(* What is accepted *)

HasRequiredLabels(labels) == REQUIRED_LABELS \subseteq labels

\* match_labels: the first mapping of the job's forge, or of any, whose labels the job has.
MatchLabels(j) ==
  {i \in DOMAIN MAPPINGS : MAPPINGS[i].forge \in {"any", ForgeOf(j)}
                           /\ MAPPINGS[i].labels \subseteq LABELS[j]}

\* resolve_runner_scope: without mappings every job is accepted.
ResolveRunnerScope(j) == MAPPINGS = <<>> \/ MatchLabels(j) # {}

Accepts(j) == HasRequiredLabels(LABELS[j]) /\ ResolveRunnerScope(j)

-----------------------------------------------------------------------------
(* handle_webhook *)

\* add_job: a row that is there stays as it is.
AddJobs(js) == rows' = rows \cup js

\* workflow_job.queued, whenever it comes; GitHub sends it again if the row cannot be written.
WebhookQueued(j) ==
  /\ ~polling /\ j \in GitHubJobs \ rows /\ jobIs[j] # "new" /\ Accepts(j) /\ AddJobs({j})
  /\ UNCHANGED <<scanForgeVars, polling, norepo, scan, fails>>

\* workflow_job.completed or cancelled.
WebhookCompleted(j) ==
  /\ ~polling /\ j \in GitHubJobs \cap rows /\ jobIs[j] = "completed" /\ rows' = rows \ {j}
  /\ UNCHANGED <<scanForgeVars, polling, norepo, scan, fails>>

-----------------------------------------------------------------------------
(* scan_forges *)

ScanGoes(s) == scan' = s /\ UNCHANGED <<scanForgeVars, polling>>

CallFails == fails < MaxFails /\ fails' = fails + 1 /\ UNCHANGED <<rows, norepo>>

Done == UNCHANGED <<rows, norepo, fails>>

\* Webhook mode verifies every row first, polling mode those the scan missed last.
StartScan ==
  /\ scan.at = "off" /\ Done
  /\ ScanGoes(IF polling THEN [NoScan EXCEPT !.at = "github"]
              ELSE [NoScan EXCEPT !.at = "verify", !.todo = rows])

\* GitHub is listed, or failed; then the first scope.
ForgejoNext(s) == [s EXCEPT !.at = "forgejo", !.st = 1, !.page = 1, !.runs = {}, !.todo = {}]

GitHubListed == ForgejoNext([scan EXCEPT !.forges = @ \cup {"github"}])

\* discover_installations: if it fails, GitHub is not listed.
Discover ==
  /\ scan.at = "github"
  /\ \/ ScanGoes([scan EXCEPT !.at = "token"]) /\ Done
     \/ ScanGoes(ForgejoNext(scan)) /\ CallFails

\* get_access_token: the cached one or a new one. Without one the installation is skipped, and
\* GitHub counts as listed.
GetToken ==
  /\ scan.at = "token"
  /\ \/ ScanGoes([scan EXCEPT !.at = "repos"]) /\ Done
     \/ ScanGoes(GitHubListed) /\ CallFails

\* The installation's repositories, or as many pages of them as could be had: here, none.
ListRepos ==
  /\ scan.at = "repos"
  /\ \/ ScanGoes([scan EXCEPT !.at = "runs"]) /\ Done
     \/ ScanGoes(GitHubListed) /\ CallFails

RUN_STATUSES == <<"queued", "in_progress", "waiting">>

\* The runs with a status, the newest first, but those of repositories that are left out.
RunsWith(s) == SetToSortSeq({j \in GitHubJobs \ quiet : runIs[j] = s}, LAMBDA a, b : a > b)

NextStatus(s) ==
  IF s.st = Len(RUN_STATUSES) THEN ForgejoNext([s EXCEPT !.forges = @ \cup {"github"}])
  ELSE [s EXCEPT !.at = "runs", !.st = @ + 1, !.page = 1, !.runs = {}, !.todo = {}]

\* Mutant of LastPage: the first page is the last.
FirstPage(items) == TRUE

\* collect_pages: "Reading stops after the first short page".
LastPage(items) == Len(items) < PAGE_SIZE

\* A page of the list as it is now; if it fails, none of the status's runs is looked at.
RunsPage ==
  LET from == (scan.page - 1) * PAGE_SIZE
      items == SubSeq(RunsWith(RUN_STATUSES[scan.st]), from + 1,
                      Min({from + PAGE_SIZE, Len(RunsWith(RUN_STATUSES[scan.st]))}))
      all == scan.runs \cup ToSet(items)
  IN /\ scan.at = "runs"
     /\ \/ /\ Done
           /\ ScanGoes(CASE ~LastPage(items) -> [scan EXCEPT !.page = @ + 1, !.runs = all]
                       [] LastPage(items) /\ all # {} ->
                            [scan EXCEPT !.at = "jobs", !.runs = {}, !.todo = all, !.page = 1]
                       [] OTHER -> NextStatus(scan))
        \/ CallFails /\ ScanGoes(NextStatus(scan))

\* The jobs of a run, those that wait for a runner; if they cannot be had the run is skipped.
RunJobs(j) ==
  LET rest == [scan EXCEPT !.todo = @ \ {j}]
      next(s) == IF s.todo = {} THEN NextStatus(s) ELSE s
  IN /\ scan.at = "jobs" /\ j \in scan.todo
     /\ \/ Done /\ ScanGoes(next(IF jobIs[j] = "queued" THEN [rest EXCEPT !.found = @ \cup {j}]
                                 ELSE rest))
        \/ CallFails /\ ScanGoes(next(rest))

\* list_scope_jobs: the jobs a scope lists, waiting and running.
ScopeLists(i) == {j \in SCOPES[i] : jobIs[j] \in {"queued", "in_progress"}}

\* repo_name: the rows of jobs whose repository cannot be looked up are made without.
Nameless(js) == js # {} /\ norepo' = norepo \cup js

\* The waiting jobs of one scope after the other. Only if all scopes fail Forgejo is not listed.
ScopeJobs ==
  LET waiting == {j \in ScopeLists(scan.st) : jobIs[j] = "queued"}
      next(s) == IF s.st < Len(SCOPES) THEN [s EXCEPT !.st = @ + 1]
                 ELSE [s EXCEPT !.at = "add",
                        !.forges = IF s.missed = Len(SCOPES) THEN @ ELSE @ \cup {"forgejo"}]
  IN /\ scan.at = "forgejo"
     /\ \/ ScanGoes(next([scan EXCEPT !.found = @ \cup waiting])) /\ Done
        \/ /\ ScanGoes(next([scan EXCEPT !.found = @ \cup waiting])) /\ Nameless(waiting)
           /\ fails < MaxFails /\ fails' = fails + 1 /\ UNCHANGED rows
        \/ ScanGoes(next([scan EXCEPT !.missed = @ + 1])) /\ CallFails

\* "an unreachable forge drops nothing".
DroppedPendingJobs(js) == {j \in js \ scan.found : ForgeOf(j) \in scan.forges}

\* recover_queued_jobs: what was found and is accepted.
AddFound ==
  /\ scan.at = "add" /\ AddJobs({j \in scan.found : Accepts(j)})
  /\ ScanGoes(IF polling THEN [scan EXCEPT !.at = "verify", !.todo = DroppedPendingJobs(rows')]
              ELSE NoScan)
  /\ UNCHANGED <<norepo, fails>>

\* Mutant of NotQueued: the scan did not find it.
NotFound(j) == TRUE

\* get_job_status on GitHub.
GitHubStatus(j) == jobIs[j]

\* And on Forgejo: "Finished and cancelled jobs aren't listed".
ForgejoStatus(j) == IF \E i \in DOMAIN SCOPES : j \in ScopeLists(i) THEN jobIs[j] ELSE "none"

NotQueued(j) == (IF j \in GitHubJobs THEN GitHubStatus(j) ELSE ForgejoStatus(j)) # "queued"

\* verify_pending_job: a row without a repository goes when it is old, any other if its forge says
\* that the job is not queued.
VerifyRow(j) ==
  /\ scan.at = "verify" /\ j \in scan.todo /\ ScanGoes([scan EXCEPT !.todo = @ \ {j}])
  /\ \/ rows' = (IF NotQueued(j) THEN rows \ {j} ELSE rows) /\ UNCHANGED <<norepo, fails>>
     \/ j \in norepo /\ rows' \in {rows, rows \ {j}} /\ UNCHANGED <<norepo, fails>>
     \/ CallFails

Verified ==
  /\ scan.at = "verify" /\ scan.todo = {} /\ Done
  /\ ScanGoes(IF polling THEN NoScan ELSE [NoScan EXCEPT !.at = "github"])

-----------------------------------------------------------------------------
(* The specification *)

ScanStep ==
  \/ StartScan \/ Discover \/ GetToken \/ ListRepos \/ RunsPage \/ ScopeJobs \/ AddFound \/ Verified
  \/ \E j \in GitHubJobs : RunJobs(j)
  \/ \E j \in ScanJobs : VerifyRow(j)

ScanNext ==
  \/ ScanStep
  \/ \E j \in ScanJobs : \/ Queue(j) \/ RunMoves(j) \/ StartJob(j) \/ EndJob(j) \/ GoesQuiet(j)
                         \/ WebhookQueued(j) \/ WebhookCompleted(j)

ScanSpec == ScanInit /\ [][ScanNext]_scanVars

-----------------------------------------------------------------------------
(* What should hold *)

\* A scan takes a job out of the queue only if its forge says that it is not queued, whatever the
\* scan's lists missed: runs that moved to another status or page meanwhile, repositories that are
\* left out, calls that failed, forges that could not be listed.
ScanSpares ==
  [][\A j \in rows \ rows' : ScanStep => jobIs[j] # "queued" \/ j \in norepo]_scanVars

\* A job that stays queued is found, on whichever page of whichever list it is and also if one scan
\* misses it, unless its repository is left out of the scans.
QueuedJobFound ==
  \A j \in ScanJobs :
    (jobIs[j] = "queued" /\ Accepts(j)) ~> (j \in rows \/ jobIs[j] # "queued" \/ j \in quiet)
=============================================================================
