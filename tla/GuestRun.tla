------------------------------ MODULE GuestRun ------------------------------
(***************************************************************************)
(* One job on its VM, over SSH. The libvirt and Proxmox agents keep one    *)
(* session and wait for the runner's command in it. The tart agent         *)
(* connects for each command, starts the runner on its own and polls for   *)
(* the file its wrapper script leaves. A command whose channel closes with *)
(* no exit status counts as one that exited with 0.                        *)
(***************************************************************************)

VARIABLES
  way,        \* "session" (libvirt, Proxmox) or "polled" (tart)
  job,        \* "jit" or "token" (GitHub), "forgejo"
  guest,      \* the guest's OS, "posix" or "windows",
  shell,      \* and what the agent takes it for, "" while it does not know
  agentAt,    \* the agent's next step
  vmUp,       \* the VM runs
  sshLink,    \* the session is up
  inGuest,    \* the runner in the guest: "no", "part", "yes"
  prepared,   \* the JIT config, the registration or the job files are in place
  program,    \* the runner process: "none", "running", "ok", "failed"
  exitStatus, \* ~/runner-exit-status: "none", "old", "ok", "failed"
  answerLost, \* the agent went on without the answer of a command
  result      \* run_job: "none", "ok", "error"

vmVars == <<guest, vmUp, sshLink, inGuest, prepared, program, exitStatus>>
guestVars == <<way, job, shell, agentAt, answerLost, result, vmVars>>

GuestSteps == {"connect", "detect", "clock", "check", "arch", "cache", "download", "setup", "start",
               "script", "config", "clean", "launch", "run", "poll", "over"}

GuestTypeOK ==
  /\ way \in {"session", "polled"} /\ job \in {"jit", "token", "forgejo"}
  /\ guest \in {"posix", "windows"} /\ shell \in {"", "posix", "windows"} /\ agentAt \in GuestSteps
  /\ vmUp \in BOOLEAN /\ sshLink \in BOOLEAN /\ inGuest \in {"no", "part", "yes"}
  /\ prepared \in BOOLEAN /\ program \in {"none", "running", "ok", "failed"}
  /\ exitStatus \in {"none", "old", "ok", "failed"} /\ answerLost \in BOOLEAN
  /\ result \in {"none", "ok", "error"}

\* The VM is up. Its image may have a runner, and a status file of an earlier one. tart knows the
\* guest's OS.
GuestInit ==
  /\ way \in {"session", "polled"} /\ job \in {"jit", "token", "forgejo"}
  /\ guest \in IF way = "polled" THEN {"posix"} ELSE {"posix", "windows"}
  /\ shell = IF way = "polled" THEN guest ELSE ""
  /\ agentAt = IF way = "polled" THEN "check" ELSE "connect"
  /\ vmUp = TRUE /\ sshLink = FALSE /\ inGuest \in {"no", "yes"} /\ prepared = FALSE
  /\ program = "none"
  /\ exitStatus \in IF way = "polled" THEN {"none", "old"} ELSE {"none"}
  /\ answerLost = FALSE /\ result = "none"

-----------------------------------------------------------------------------
(* A command: SshSession::run, connect *)

\* It exits with 0 or another code, its status is lost, or it cannot be run. A command of the other
\* shell does not work.
Answers ==
  IF ~vmUp \/ (way = "session" /\ ~sshLink) THEN {"error"}
  ELSE {"failed", "lost", "error"} \cup IF shell \in {"", guest} THEN {"ok"} ELSE {}

\* Mutant of Passed: the exit code is not looked at.
PassedAny(a) == a # "error"

\* exit_code == 0: a missing status is taken as 0.
Passed(a) == a \in {"ok", "lost"}

Told(a) == answerLost' = (answerLost \/ a = "lost")

GoOn(step) == agentAt' = step /\ UNCHANGED result
End(r) == agentAt' = "over" /\ result' = r

\* The job ends with an error unless the command passed.
Then(a, step) == IF Passed(a) THEN GoOn(step) ELSE End("error")

-----------------------------------------------------------------------------
(* The session: connect_with_retries, Guest::detect, sync_clock *)

SshConnect ==
  /\ agentAt = "connect" /\ \/ vmUp /\ sshLink' = TRUE /\ GoOn("detect")
                            \/ End("error") /\ UNCHANGED sshLink
  /\ UNCHANGED <<way, job, guest, shell, vmUp, inGuest, prepared, program, exitStatus, answerLost>>

\* detect_shell: what answers none of the probes is "Windows with cmd.exe".
Detect ==
  /\ agentAt = "detect"
  /\ \E a \in Answers :
       /\ Told(a)
       /\ IF a = "error" THEN End("error") /\ UNCHANGED shell
          ELSE GoOn("clock") /\ shell' = IF a = "ok" THEN guest ELSE "windows"
  /\ UNCHANGED <<way, job, vmVars>>

\* "Failures are only logged."
SyncClock ==
  /\ agentAt = "clock" /\ GoOn("check") /\ UNCHANGED <<way, job, shell, answerLost, vmVars>>

-----------------------------------------------------------------------------
(* prepare_github, prepare_forgejo, ensure_runner_installed, prepare_forgejo_runner *)

CheckInstalled ==
  /\ agentAt = "check" /\ way = "session"
  /\ \E a \in Answers :
       /\ Told(a)
       /\ IF a = "error" THEN End("error")
          ELSE GoOn(IF a = "ok" /\ inGuest = "yes" THEN "setup" ELSE "arch")
  /\ UNCHANGED <<way, job, shell, vmVars>>

\* What tart cannot check is not installed.
CheckTart ==
  /\ agentAt = "check" /\ way = "polled"
  /\ \E a \in Answers :
       Told(a) /\ GoOn(IF a = "ok" /\ inGuest = "yes" THEN "setup" ELSE "arch")
  /\ UNCHANGED <<way, job, shell, vmVars>>

\* uname -m. A GitHub runner in a session is x64 for all else, Windows is not asked.
GetArch ==
  /\ agentAt = "arch"
  /\ \E a \in Answers :
       /\ Told(a)
       /\ IF shell = "windows" \/ a = "ok" THEN GoOn("cache")
          ELSE IF a # "error" /\ way = "session" /\ job # "forgejo" THEN GoOn("cache")
               ELSE End("error")
  /\ UNCHANGED <<way, job, shell, vmVars>>

Installing(a) ==
  inGuest' = CASE a = "ok" -> "yes" [] a \in {"failed", "lost"} -> "part" [] OTHER -> inGuest

\* RunnerCache::install: the copy is uploaded and unpacked, or the VM downloads.
InstallCopy ==
  /\ agentAt = "cache"
  /\ \E a \in Answers :
       Told(a) /\ Installing(a) /\ GoOn(IF Passed(a) THEN "setup" ELSE "download")
  /\ UNCHANGED <<way, job, shell, guest, vmUp, sshLink, prepared, program, exitStatus>>

GuestDownload ==
  /\ \E a \in Answers : Told(a) /\ Installing(a) /\ Then(a, "setup")
  /\ UNCHANGED <<way, job, shell, guest, vmUp, sshLink, prepared, program, exitStatus>>

InstallGitHub == agentAt = "download" /\ job # "forgejo" /\ GuestDownload
InstallForgejo == agentAt = "download" /\ job = "forgejo" /\ GuestDownload

Prepare(next) ==
  /\ \E a \in Answers : Told(a) /\ prepared' = (a = "ok") /\ Then(a, next)
  /\ UNCHANGED <<way, job, shell, guest, vmUp, sshLink, inGuest, program, exitStatus>>

\* The JIT config or config.sh, or the token file and job script.
SetupGitHub == agentAt = "setup" /\ way = "session" /\ job # "forgejo" /\ Prepare("start")
SetupForgejo == agentAt = "setup" /\ way = "session" /\ job = "forgejo" /\ Prepare("start")
SetupTart == agentAt = "setup" /\ way = "polled" /\ job = "token" /\ Prepare("script")
SetupTartForgejo == agentAt = "setup" /\ way = "polled" /\ job = "forgejo" /\ Prepare("script")

\* tart writes the JIT config later.
SkipConfig ==
  /\ agentAt = "setup" /\ way = "polled" /\ job = "jit" /\ GoOn("script")
  /\ UNCHANGED <<way, job, shell, answerLost, vmVars>>

-----------------------------------------------------------------------------
(* Guest::run *)

StartRunner ==
  /\ agentAt = "start"
  /\ IF Answers = {"error"} THEN End("error") /\ UNCHANGED program
     ELSE GoOn("run") /\ program' = "running"
  /\ UNCHANGED <<way, job, shell, guest, vmUp, sshLink, inGuest, prepared, exitStatus, answerLost>>

RunnerExit ==
  /\ agentAt = "run" /\ sshLink /\ vmUp /\ program \in {"ok", "failed"}
  /\ End(IF Passed(program) THEN "ok" ELSE "error")
  /\ UNCHANGED <<way, job, shell, answerLost, vmVars>>

\* Mutant of SessionDead: no keepalives.
SessionDeadTold == ~sshLink

\* The session is closed, or its keepalives had no answer for 90 s.
SessionDead == ~sshLink \/ ~vmUp

\* channel.wait() ends with no exit status; so it does for a process ended by a signal.
ExitLost ==
  /\ agentAt = "run" /\ (SessionDead \/ program = "failed") /\ answerLost' = TRUE /\ End("ok")
  /\ UNCHANGED <<way, job, shell, vmVars>>

-----------------------------------------------------------------------------
(* start_runner_and_wait (tart) *)

Upload ==
  /\ agentAt = "script" /\ \E a \in Answers : Told(a) /\ Then(a, "config")
  /\ UNCHANGED <<way, job, shell, vmVars>>

WriteJit == agentAt = "config" /\ job = "jit" /\ Prepare("clean")

NoJit ==
  /\ agentAt = "config" /\ job # "jit" /\ GoOn("clean")
  /\ UNCHANGED <<way, job, shell, answerLost, vmVars>>

\* "Clean up any previous signal file", and go on if that does not work.
CleanUp ==
  /\ agentAt = "clean" /\ GoOn("launch")
  /\ \E a \in Answers :
       /\ answerLost' = (answerLost \/ a # "ok")
       /\ exitStatus' = IF a = "ok" THEN "none" ELSE exitStatus
  /\ UNCHANGED <<way, job, shell, guest, vmUp, sshLink, inGuest, prepared, program>>

Launch ==
  /\ agentAt = "launch"
  /\ \E a \in Answers :
       /\ Told(a) /\ Then(a, "poll")
       /\ program' \in CASE a = "ok" -> {"running"} [] a = "lost" -> {"none", "running"}
                         [] OTHER -> {program}
  /\ UNCHANGED <<way, job, shell, guest, vmUp, sshLink, inGuest, prepared, exitStatus>>

\* A poll that fails is tried again 5 s later.
Poll ==
  /\ agentAt = "poll" /\ vmUp /\ exitStatus # "none"
  /\ \E s \in IF exitStatus = "old" THEN {"ok", "failed"} ELSE {exitStatus} :
       End(IF s = "ok" THEN "ok" ELSE "error")
  /\ UNCHANGED <<way, job, shell, answerLost, vmVars>>

\* "6-hour timeout".
PollEnds ==
  /\ agentAt = "poll" /\ End("error") /\ UNCHANGED <<way, job, shell, answerLost, vmVars>>

-----------------------------------------------------------------------------
(* The VM *)

\* The wrapper script removes the old status and writes its own.
RunnerEnds ==
  /\ program = "running" /\ vmUp
  /\ program' \in {"failed"} \cup IF inGuest = "yes" /\ prepared THEN {"ok"} ELSE {}
  /\ exitStatus' = IF way = "polled" THEN program' ELSE exitStatus
  /\ UNCHANGED <<way, job, shell, agentAt, answerLost, result, guest, vmUp, sshLink, inGuest,
                 prepared>>

WrapperCleans ==
  /\ program = "running" /\ vmUp /\ exitStatus = "old" /\ exitStatus' = "none"
  /\ UNCHANGED <<way, job, shell, agentAt, answerLost, result>>
  /\ UNCHANGED <<guest, vmUp, sshLink, inGuest, prepared, program>>

LinkBreaks ==
  /\ sshLink /\ sshLink' = FALSE
  /\ UNCHANGED <<way, job, shell, agentAt, answerLost, result>>
  /\ UNCHANGED <<guest, vmUp, inGuest, prepared, program, exitStatus>>

\* Shut down, crashed, or destroyed by a DestroyRunner.
VmDies ==
  /\ vmUp /\ vmUp' = FALSE
  /\ UNCHANGED <<way, job, shell, agentAt, answerLost, result>>
  /\ UNCHANGED <<guest, sshLink, inGuest, prepared, program, exitStatus>>

SshStep ==
  \/ SshConnect \/ Detect \/ SyncClock \/ CheckInstalled \/ CheckTart \/ GetArch \/ InstallCopy
  \/ InstallGitHub \/ InstallForgejo \/ SetupGitHub \/ SetupForgejo \/ SetupTart
  \/ SetupTartForgejo \/ SkipConfig \/ StartRunner \/ RunnerExit \/ ExitLost
  \/ Upload \/ WriteJit \/ NoJit \/ CleanUp \/ Launch \/ Poll \/ PollEnds

GuestNext == SshStep \/ RunnerEnds \/ WrapperCleans \/ LinkBreaks \/ VmDies

GuestSpec == GuestInit /\ [][GuestNext]_guestVars

-----------------------------------------------------------------------------
(* What should hold *)

\* A job counts as done only after its runner was installed and set up, ran and exited with 0, by
\* either way to run it, as long as the agent learned how each of its commands ended.
DoneMeansRun == result = "ok" => answerLost \/ (program = "ok" /\ inGuest = "yes" /\ prepared)

\* "Keepalives make a dead VM (say one destroyed mid-job) fail the session" instead of leaving the
\* agent's slot with a job that never ends; tart's poll gives up by itself.
DeadVmNoticed == ~vmUp ~> agentAt = "over"
=============================================================================
