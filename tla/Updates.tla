------------------------------ MODULE Updates ------------------------------
(***************************************************************************)
(* New agent releases. The coordinator reads every page of the project's   *)
(* releases, now and then, to tell which agents run an older one; the tart *)
(* agent's update command looks a release up, checks it and swaps its own  *)
(* binary for it. Releases go on being published, requests fail, and the   *)
(* updater can be killed between any two steps. One updater runs at a time *)
(* on a host.                                                              *)
(***************************************************************************)
EXTENDS Integers, Sequences, FiniteSetsExt

CONSTANTS
  PerPage,     \* releases of a page
  MAX_PAGES,   \* pages the coordinator reads at most
  LatestPages, \* pages the update command reads at most
  MaxRelease,  \* bound: versions
  MaxReleases, \* bound: releases
  MaxUpdates   \* bound: runs of the update command

ASSUME UpdatesAssumption ==
  /\ {PerPage, MAX_PAGES, LatestPages, MaxRelease} \subseteq Nat \ {0}
  /\ {MaxReleases, MaxUpdates} \subseteq Nat

Crates == {"tart", "proxmox"}
ReleaseVersions == 1 .. MaxRelease

VARIABLES
  releases,   \* the releases as GitHub lists them, newest first
  latestSeen, \* AgentUpdates::latest by crate, 0 for none
  poll,       \* the coordinator's check: what it has read, and the newest there were at its start
  updater,    \* the update command
  updateRuns, \* runs of it so far
  binary,     \* the installed binary: its version, and whether it is whole
  staged,     \* the file beside it that the new one is copied to
  service     \* the version the service runs

updVars == <<releases, latestSeen, poll, updater, updateRuns, binary, staged, service>>

NoPoll == [at |-> "sleep"]
NoUpdater == [at |-> "none"]
Build(v, whole) == [version |-> v, whole |-> whole]
NoFile == Build(0, FALSE)

UpdatesInit ==
  /\ releases = <<>> /\ latestSeen = [c \in Crates |-> 0] /\ poll = NoPoll
  /\ updater = NoUpdater /\ updateRuns = 0
  /\ binary = Build(1, TRUE) /\ staged = NoFile /\ service = 1

\* full: neither a draft nor a pre-release, by its flags or its version. Versions need not go up.
Publish ==
  /\ Len(releases) < MaxReleases
  /\ \E c \in Crates, v \in ReleaseVersions, full \in BOOLEAN :
       /\ \A i \in DOMAIN releases : releases[i].crate = c => releases[i].version # v
       /\ releases' = <<[crate |-> c, version |-> v, full |-> full]>> \o releases
  /\ UNCHANGED <<latestSeen, poll, updater, updateRuns, binary, staged, service>>

Page(n) == SubSeq(releases, (n - 1) * PerPage + 1, Min({n * PerPage, Len(releases)}))
HasNext(n) == n * PerPage < Len(releases)
VersionsOf(list, c) ==
  {list[i].version : i \in {k \in DOMAIN list : list[k].crate = c /\ list[k].full}}
\* newest_agent_releases: by version, wherever it is in the list.
NewestOf(list) == [c \in Crates |-> Max(VersionsOf(list, c) \cup {0})]

-----------------------------------------------------------------------------
(* The coordinator. *)

PollOnly == UNCHANGED <<releases, updater, updateRuns, binary, staged, service>>

StartPoll ==
  /\ poll.at = "sleep"
  /\ poll' = [at |-> "page", page |-> 1, got |-> <<>>, atStart |-> NewestOf(releases)]
  /\ UNCHANGED latestSeen /\ PollOnly

\* fetch_page: and the link to the next one, followed up to the cap.
FetchPage ==
  /\ poll.at = "page"
  /\ poll' = [poll EXCEPT !.got = @ \o Page(poll.page), !.page = @ + 1,
       !.at = IF HasNext(poll.page) /\ poll.page < MAX_PAGES THEN "page" ELSE "set"]
  /\ UNCHANGED latestSeen /\ PollOnly

\* Mutant of OnFailure: what was read so far.
PartialList == NewestOf(poll.got)

\* A page that fails ends the check, and what was known stays.
OnFailure == latestSeen

FailPage ==
  /\ poll.at = "page" /\ latestSeen' = OnFailure /\ poll' = NoPoll /\ PollOnly

SetNewest ==
  /\ poll.at = "set" /\ latestSeen' = NewestOf(poll.got) /\ poll' = NoPoll /\ PollOnly

-----------------------------------------------------------------------------
(* The update command. *)

UpdaterOnly == UNCHANGED <<releases, latestSeen, poll>>
UpdateFiles == <<binary, staged, service>>
\* It ends, having installed it or with an error, or it is killed.
UpdaterEnds ==
  /\ updater.at # "none" /\ updater' = NoUpdater
  /\ UpdaterOnly /\ UNCHANGED <<updateRuns, UpdateFiles>>

\* The version it compares with is the one it was built with.
RunUpdate ==
  /\ updater.at = "none" /\ updateRuns < MaxUpdates /\ updateRuns' = updateRuns + 1
  /\ binary.whole
  /\ \/ updater' = [at |-> "latest", page |-> 1, current |-> binary.version, pinned |-> FALSE]
     \/ updater' = [at |-> "tag", current |-> binary.version, pinned |-> TRUE]
  /\ UpdaterOnly /\ UNCHANGED UpdateFiles

Chosen(v) == [at |-> "download", version |-> v, pinned |-> updater.pinned, good |-> TRUE]

\* fetch_tag: a pinned version may be an older one, or a pre-release.
FetchTag ==
  /\ updater.at = "tag"
  /\ \E i \in DOMAIN releases :
       releases[i].crate = "tart" /\ updater' = Chosen(releases[i].version)
  /\ UpdaterOnly /\ UNCHANGED <<updateRuns, UpdateFiles>>

\* fetch_latest: the best of the first page that has any.
IsNewer(v) == v > updater.current
FetchLatest ==
  LET found == VersionsOf(Page(updater.page), "tart") IN
  /\ updater.at = "latest"
  /\ IF found # {} THEN updater' = IF IsNewer(Max(found)) THEN Chosen(Max(found)) ELSE NoUpdater
     ELSE updater' = IF Page(updater.page) # <<>> /\ updater.page < LatestPages
                     THEN [updater EXCEPT !.page = @ + 1] ELSE NoUpdater
  /\ UpdaterOnly /\ UNCHANGED <<updateRuns, UpdateFiles>>

\* What came down is the release's archive or not; without a published checksum nobody knows.
Download ==
  /\ updater.at = "download"
  /\ \E good, sum \in BOOLEAN :
       updater' = IF sum /\ ~good THEN NoUpdater
                  ELSE [updater EXCEPT !.at = "try", !.good = good]
  /\ UpdaterOnly /\ UNCHANGED <<updateRuns, UpdateFiles>>

\* install_from_archive: it is unpacked elsewhere, and has to run before it may replace anything.
Runs == updater.good
TryBinary ==
  /\ updater.at = "try"
  /\ updater' = IF Runs THEN [updater EXCEPT !.at = "copy"] ELSE NoUpdater
  /\ UpdaterOnly /\ UNCHANGED <<updateRuns, UpdateFiles>>

\* replace_binary: the directory is writable or sudo has to do it.
NewBuild(whole) == Build(updater.version, whole)
StartCopy ==
  /\ updater.at = "copy"
  /\ \/ staged' = NewBuild(FALSE) /\ updater' = [updater EXCEPT !.at = "copying"]
     \/ staged' = staged /\ updater' = [updater EXCEPT !.at = "sudo"]
  /\ UpdaterOnly /\ UNCHANGED <<updateRuns, binary, service>>
EndCopy ==
  /\ updater.at = "copying" /\ staged' = NewBuild(TRUE)
  /\ updater' = [updater EXCEPT !.at = "rename"]
  /\ UpdaterOnly /\ UNCHANGED <<updateRuns, binary, service>>
SwapBinary ==
  /\ updater.at = "rename" /\ binary' = staged /\ staged' = NoFile
  /\ updater' = [updater EXCEPT !.at = "restart"]
  /\ UpdaterOnly /\ UNCHANGED <<updateRuns, service>>
\* install(1), run by sudo, unlinks the old file and writes the new one.
SudoInstall ==
  /\ \/ /\ updater.at = "sudo" /\ binary' = NewBuild(FALSE)
        /\ updater' = [updater EXCEPT !.at = "sudoing"]
     \/ /\ updater.at = "sudoing" /\ binary' = NewBuild(TRUE)
        /\ updater' = [updater EXCEPT !.at = "restart"]
  /\ UpdaterOnly /\ UNCHANGED <<updateRuns, staged, service>>

\* restart_service, if it runs and the operator says yes.
RestartService ==
  /\ updater.at = "restart" /\ service' \in {service, binary.version} /\ updater' = NoUpdater
  /\ UpdaterOnly /\ UNCHANGED <<updateRuns, binary, staged>>

UpdatesNext ==
  \/ Publish \/ StartPoll \/ FetchPage \/ FailPage \/ SetNewest
  \/ RunUpdate \/ FetchTag \/ FetchLatest \/ Download \/ TryBinary
  \/ StartCopy \/ EndCopy \/ SwapBinary \/ SudoInstall \/ RestartService \/ UpdaterEnds

UpdatesSpec == UpdatesInit /\ [][UpdatesNext]_updVars

-----------------------------------------------------------------------------

\* check: the agents of a version that are told of an update.
Outdated(c, v) == latestSeen[c] > v

\* Once known, a release of an agent goes on being known: a check that came to an end knows of
\* every release there was when it began, as long as the list fits the pages that are read.
ChecksKeepUp ==
  latestSeen' # latestSeen /\ Len(releases) <= MAX_PAGES * PerPage =>
    \A c \in Crates, v \in ReleaseVersions :
      poll.at # "sleep" /\ poll.atStart[c] > v => Outdated(c, v)'

\* Whenever the updater dies, the host has a binary that runs, unless sudo's install was cut off;
\* and only a pinned version takes it to an older one.
BinarySound ==
  /\ binary'.whole \/ ~binary.whole \/ updater.at = "sudo"
  /\ binary'.version < binary.version => updater.pinned

\* Both: the fleet learns of every release, and a host's agent survives being updated.
UpdatesSafe == [][ChecksKeepUp /\ BinarySound]_updVars
=============================================================================
