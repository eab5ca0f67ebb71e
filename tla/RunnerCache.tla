----------------------------- MODULE RunnerCache -----------------------------
(***************************************************************************)
(* The agent's copies of runner releases for one platform: jobs share a    *)
(* version lookup and a download, upload the copy to their VM, and are     *)
(* torn down at any point. "Anything going wrong here is logged, and the   *)
(* VM downloads the runner itself".                                        *)
(***************************************************************************)
EXTENDS Naturals, FiniteSets

CONSTANTS
  CacheJobs,   \* jobs that install a runner
  MaxVersion   \* bound: releases

ASSUME RunnerCacheAssumption == MaxVersion \in Nat \ {0} /\ "free" \notin CacheJobs

Versions == 1 .. MaxVersion
None == 0

VARIABLES
  newest,   \* the latest release there is
  known,    \* what "latest" meant when GitHub was last asked, or None
  saved,    \* and what the file on disk says
  fresh,    \* it is younger than version_ttl
  step,     \* [CacheJobs -> STRING]: where the job's install is
  want,     \* [CacheJobs -> Versions \cup {None}]: the version it installs
  slot,     \* the job that has the download slot, or "free"
  paused,   \* a download failed less than RETRY_DOWNLOAD_AFTER ago
  file,     \* [Versions -> {"none", "good", "bad"}]: the copies
  sum,      \* versions whose .sha256 file is there
  part,     \* [Versions -> {"none", "some", "full"}]: the .part files
  late,     \* versions whose rename goes on though its job was torn down
  open,     \* [CacheJobs -> {"none", "good", "bad"}]: the copy it uploads
  spoiled,  \* jobs whose copy went bad between its check and its upload
  source    \* [CacheJobs -> STRING]: where the VM's runner came from

cacheVars == <<newest, known, saved, fresh, step, want, slot, paused, file, sum, part, late, open,
               spoiled, source>>

lookup == <<newest, known, saved, fresh>>
disk == <<file, sum, part, late, spoiled>>

CacheInit ==
  /\ newest = 1 /\ known = None /\ saved = None /\ fresh = FALSE
  /\ step = [j \in CacheJobs |-> "new"] /\ want = [j \in CacheJobs |-> None]
  /\ slot = "free" /\ paused = FALSE
  /\ file = [v \in Versions |-> "none"] /\ sum = {} /\ part = [v \in Versions |-> "none"]
  /\ late = {} /\ open = [j \in CacheJobs |-> "none"] /\ spoiled = {}
  /\ source = [j \in CacheJobs |-> "none"]

InstallOver(j, from) == step' = [step EXCEPT ![j] = "over"] /\ source' = [source EXCEPT ![j] = from]

-----------------------------------------------------------------------------
(* github_version *)

FALLBACK == 1

\* One job at a time asks, unless the answer is fresh. Without one the last is kept, and kept as
\* fresh; what the file has is loaded after a restart.
LookUp(j) ==
  LET last == IF known = None THEN saved ELSE known
  IN /\ step[j] = "new"
     /\ \/ fresh /\ last # None /\ want' = [want EXCEPT ![j] = last] /\ known' = last
           /\ UNCHANGED <<saved, fresh>>
        \/ (~fresh \/ last = None)
           /\ want' = [want EXCEPT ![j] = newest]
           /\ known' = newest /\ saved' \in {saved, newest} /\ fresh' = TRUE
        \/ ~fresh /\ last # None /\ want' = [want EXCEPT ![j] = last]
           /\ known' = last /\ saved' \in {saved, last} /\ fresh' = TRUE
        \/ last = None /\ want' = [want EXCEPT ![j] = FALLBACK] /\ UNCHANGED <<known, saved, fresh>>
     /\ step' = [step EXCEPT ![j] = "queued"]
     /\ UNCHANGED <<newest, slot, paused, disk, open, source>>

Release == newest < MaxVersion /\ newest' = newest + 1
           /\ UNCHANGED <<known, saved, fresh, step, want, slot, paused, disk, open, source>>

VersionTtlOver == fresh /\ fresh' = FALSE
                  /\ UNCHANGED <<newest, known, saved, step, want, slot, paused, disk, open,
                                 source>>

-----------------------------------------------------------------------------
(* cached: one job has the platform's slot *)

\* Mutant of Intact: the copy is there.
IntactByName(v) == file[v] # "none"

\* The copy is there, and its checksum is the one it was downloaded with.
Intact(v) == file[v] = "good" /\ v \in sum

\* An intact copy is used, or the download is tried; not soon after one failed.
TakeSlot(j) ==
  LET v == want[j]
  IN /\ step[j] = "queued" /\ slot = "free"
     /\ \/ Intact(v) /\ step' = [step EXCEPT ![j] = "copy"] /\ UNCHANGED <<slot, source>>
        \/ ~Intact(v) /\ paused /\ InstallOver(j, "fell_back") /\ UNCHANGED slot
        \/ ~Intact(v) /\ ~paused /\ step' = [step EXCEPT ![j] = "sums"] /\ slot' = j
           /\ UNCHANGED source
     /\ UNCHANGED <<lookup, want, paused, disk, open>>

\* The checksum, the copy or its file cannot be had, within DOWNLOAD_TIMEOUT.
DownloadFails(j) ==
  /\ step[j] \in {"sums", "loading", "hashed", "summed", "pruning"}
  /\ part' = [part EXCEPT ![want[j]] =
                IF step[j] = "loading" THEN "some" ELSE @]
  /\ InstallOver(j, "fell_back") /\ slot' = "free" /\ paused' = TRUE
  /\ UNCHANGED <<lookup, want, file, sum, late, open, spoiled>>

GetChecksum(j) ==
  /\ step[j] = "sums" /\ step' = [step EXCEPT ![j] = "loading"]
  /\ part' = [part EXCEPT ![want[j]] = "some"]
  /\ UNCHANGED <<lookup, want, slot, paused, file, sum, late, open, spoiled, source>>

\* All of it came and the checksum of what came is right.
Load(j) ==
  /\ step[j] = "loading" /\ step' = [step EXCEPT ![j] = "hashed"]
  /\ part' = [part EXCEPT ![want[j]] = IF @ = "none" THEN @ ELSE "full"]
  /\ file' = [file EXCEPT ![want[j]] = IF part[want[j]] = "none" THEN "good" ELSE @]
  /\ UNCHANGED <<lookup, want, slot, paused, sum, late, open, spoiled, source>>

\* It does not match.
Mismatch(j) ==
  /\ step[j] = "loading" /\ part' = [part EXCEPT ![want[j]] = "none"]
  /\ InstallOver(j, "fell_back") /\ slot' = "free" /\ paused' = TRUE
  /\ UNCHANGED <<lookup, want, file, sum, late, open, spoiled>>

WriteChecksum(j) ==
  /\ step[j] = "hashed" /\ step' = [step EXCEPT ![j] = "summed"] /\ sum' = sum \cup {want[j]}
  /\ UNCHANGED <<lookup, want, slot, paused, file, part, late, open, spoiled, source>>

Renamed(v) ==
  /\ part[v] # "none" /\ part' = [part EXCEPT ![v] = "none"]
  /\ file' = [file EXCEPT ![v] = IF part[v] = "full" THEN "good" ELSE "bad"]

Rename(j) ==
  /\ step[j] = "summed" /\ Renamed(want[j]) /\ step' = [step EXCEPT ![j] = "pruning"]
  /\ UNCHANGED <<lookup, want, slot, paused, sum, late, open, spoiled, source>>

\* "which with its checksum is all that's left in its directory".
Prune(j) ==
  LET v == want[j]
  IN /\ step[j] = "pruning" /\ step' = [step EXCEPT ![j] = "copy"]
     /\ file' = [u \in Versions |-> IF u = v THEN file[v] ELSE "none"]
     /\ sum' = sum \cap {v} /\ part' = [u \in Versions |-> "none"]
     /\ slot' = "free" /\ paused' = FALSE
     /\ UNCHANGED <<lookup, want, late, open, spoiled, source>>

-----------------------------------------------------------------------------
(* install *)

\* The upload opens the copy; another job may have replaced or pruned it.
Open(j) ==
  /\ step[j] = "copy"
  /\ \/ file[want[j]] # "none" /\ step' = [step EXCEPT ![j] = "upload"]
        /\ open' = [open EXCEPT ![j] = file[want[j]]] /\ UNCHANGED source
     \/ file[want[j]] = "none" /\ InstallOver(j, "fell_back") /\ UNCHANGED open
  /\ UNCHANGED <<lookup, want, slot, paused, disk>>

\* "A VM streaming an older copy keeps its open file."
Install(j) ==
  /\ step[j] = "upload"
  /\ \E from \in {"installed", "fell_back"} : InstallOver(j, from)
  /\ UNCHANGED <<lookup, want, slot, paused, disk, open>>

-----------------------------------------------------------------------------
(* What can go wrong *)

\* Jobs that have a checked copy of v and have not opened it.
Checked(v) == {j \in CacheJobs : step[j] \in {"pruning", "copy"} /\ want[j] = v}

\* The disk, or someone, changes a copy.
Rot(v) ==
  /\ file[v] = "good" /\ file' = [file EXCEPT ![v] = "bad"]
  /\ spoiled' = spoiled \cup Checked(v)
  /\ UNCHANGED <<lookup, step, want, slot, paused, sum, part, late, open, source>>

\* Mutant of Freed: the slot stays taken.
FreedIfDone(j) == slot

\* The lock goes with the job's future.
Freed(j) == IF slot = j THEN "free" ELSE slot

\* The job's VM is torn down; a rename that was under way goes on without it.
TearDown(j) ==
  /\ step[j] \notin {"new", "over"} /\ InstallOver(j, "none")
  /\ slot' = Freed(j)
  /\ \/ late' = late
     \/ step[j] = "summed" /\ late' = late \cup {want[j]}
  /\ UNCHANGED <<lookup, want, paused, file, sum, part, open, spoiled>>

LateRename(v) ==
  /\ v \in late /\ late' = late \ {v}
  /\ \/ Renamed(v) /\ spoiled' = IF part[v] = "some" THEN spoiled \cup Checked(v) ELSE spoiled
     \/ part[v] = "none" /\ UNCHANGED <<part, file, spoiled>>
  /\ UNCHANGED <<lookup, step, want, slot, paused, sum, open, source>>

PauseOver ==
  /\ paused /\ paused' = FALSE
  /\ UNCHANGED <<lookup, step, want, slot, disk, open, source>>

\* The agent is restarted: its jobs are over, the directory stays.
RestartAgent ==
  /\ step' = [j \in CacheJobs |-> IF step[j] = "new" THEN "new" ELSE "over"]
  /\ known' = None /\ fresh' \in {fresh, FALSE}
  /\ slot' = "free" /\ paused' = FALSE /\ late' = {}
  /\ UNCHANGED <<newest, saved, want, file, sum, part, open, spoiled, source>>

-----------------------------------------------------------------------------
(* The specification *)

JobStep(j) ==
  \/ LookUp(j) \/ TakeSlot(j) \/ GetChecksum(j) \/ Load(j) \/ Mismatch(j) \/ WriteChecksum(j)
  \/ Rename(j) \/ Prune(j) \/ DownloadFails(j) \/ Open(j) \/ Install(j)

CacheNext ==
  \/ \E j \in CacheJobs : JobStep(j) \/ TearDown(j)
  \/ \E v \in Versions : Rot(v) \/ LateRename(v)
  \/ Release \/ VersionTtlOver \/ PauseOver \/ RestartAgent

CacheSpec == CacheInit /\ [][CacheNext]_cacheVars

-----------------------------------------------------------------------------
(* What should hold *)

\* "A copy is checked against its .sha256 every time it's used", and nothing but a whole download
\* with its checksum gets in: whatever else is downloaded, pruned, torn down or cut off by a crash
\* meanwhile, a VM's runner comes from a good copy, unless it goes bad after its check.
InstalledGood ==
  \A j \in CacheJobs : source[j] = "installed" => open[j] = "good" \/ j \in spoiled

\* No job waits for ever on the download that all jobs of its platform share, also when the job
\* that had it is torn down.
InstallEnds == \A j \in CacheJobs : step[j] # "new" ~> step[j] = "over"
=============================================================================
