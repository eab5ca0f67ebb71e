--------------------------- MODULE GuestRunProofs ---------------------------
(***************************************************************************)
(* Proofs about GuestRun: a job that counts as done was run, whatever the  *)
(* way to run it, the guest and the answers of its commands.               *)
(*                                                                         *)
(* The agent's steps only go on after an answer that says the last one     *)
(* took effect, or after a lost one (Ready), and the runner process starts *)
(* after the last step that could still change the guest (Running).        *)
(***************************************************************************)
EXTENDS GuestRun, TLAPS

-----------------------------------------------------------------------------
(* The inductive invariant *)

\* The types of what the agent knows, and of what the guest is like.
AgentTypeOK ==
  /\ way \in {"session", "polled"} /\ job \in {"jit", "token", "forgejo"}
  /\ shell \in {"", "posix", "windows"} /\ agentAt \in GuestSteps
  /\ answerLost \in BOOLEAN /\ result \in {"none", "ok", "error"}

VmTypeOK ==
  /\ guest \in {"posix", "windows"} /\ vmUp \in BOOLEAN /\ sshLink \in BOOLEAN
  /\ inGuest \in {"no", "part", "yes"} /\ prepared \in BOOLEAN
  /\ program \in {"none", "running", "ok", "failed"}
  /\ exitStatus \in {"none", "old", "ok", "failed"}

\* The steps that come once the runner is installed, and once the job is set up.
Installed == {"setup", "start", "script", "config", "clean", "launch", "run", "poll"}
Configured == {"start", "clean", "launch", "run", "poll"}

\* Unless an answer was lost, what the agent's next step needs is in place.
Ready ==
  ~answerLost =>
    /\ agentAt \in Installed => inGuest = "yes"
    /\ agentAt \in Configured \/ (agentAt \in {"script", "config"} /\ job # "jit") => prepared
    /\ agentAt \in {"launch", "poll"} => exitStatus # "old"

\* Nothing runs before the agent's last steps, and a runner that exits with 0 was there and had
\* its job; its status file says no better.
Running ==
  /\ program # "none" => agentAt \in {"run", "poll", "over"}
  /\ program = "ok" => inGuest = "yes" /\ prepared
  /\ exitStatus = "ok" => program = "ok"
  /\ agentAt # "over" => result = "none"

IInv == AgentTypeOK /\ VmTypeOK /\ Ready /\ Running /\ DoneMeansRun

-----------------------------------------------------------------------------
(* The invariant holds *)

LEMMA InitIInv == GuestInit => IInv
<1>1. GuestInit => AgentTypeOK
  BY DEF GuestInit, AgentTypeOK, GuestSteps
<1>2. GuestInit => VmTypeOK
  BY DEF GuestInit, VmTypeOK
<1>3. GuestInit => Ready /\ Running /\ DoneMeansRun
  BY DEF GuestInit, Ready, Running, DoneMeansRun, Installed, Configured
<1> QED
  BY <1>1, <1>2, <1>3 DEF IInv

LEMMA AnswerTypes == Answers \subseteq {"ok", "failed", "lost", "error"}
  BY DEF Answers

\* The session is made, and the guest looked at.
LEMMA LookKeeps ==
  ASSUME IInv,
         \/ SshConnect \/ Detect \/ SyncClock \/ CheckInstalled \/ CheckTart
         \/ GetArch
  PROVE  IInv'
<1> USE DEF IInv, Installed, Configured
<1>1. CASE SshConnect
  <2> USE <1>1 DEF SshConnect, GoOn, End
  <2>1. AgentTypeOK'
    BY DEF AgentTypeOK, GuestSteps
  <2>2. VmTypeOK'
    BY DEF VmTypeOK
  <2>3. Ready'
    BY DEF AgentTypeOK, Ready, Running
  <2>4. Running' /\ DoneMeansRun'
    BY DEF AgentTypeOK, VmTypeOK, Ready, Running, DoneMeansRun
  <2> QED
    BY <2>1, <2>2, <2>3, <2>4
<1>2. CASE Detect
  <2> USE <1>2, AnswerTypes DEF Detect, End, GoOn, Passed, Told, vmVars
  <2>1. AgentTypeOK'
    BY DEF AgentTypeOK, GuestSteps, VmTypeOK
  <2>2. VmTypeOK'
    BY DEF VmTypeOK
  <2>3. Ready'
    BY DEF AgentTypeOK, Ready, Running
  <2>4. Running' /\ DoneMeansRun'
    BY DEF AgentTypeOK, VmTypeOK, Ready, Running, DoneMeansRun
  <2> QED
    BY <2>1, <2>2, <2>3, <2>4
<1>3. CASE SyncClock
  <2> USE <1>3 DEF SyncClock, GoOn, vmVars
  <2>1. AgentTypeOK'
    BY DEF AgentTypeOK, GuestSteps
  <2>2. VmTypeOK'
    BY DEF VmTypeOK
  <2>3. Ready'
    BY DEF AgentTypeOK, Ready, Running
  <2>4. Running' /\ DoneMeansRun'
    BY DEF AgentTypeOK, VmTypeOK, Ready, Running, DoneMeansRun
  <2> QED
    BY <2>1, <2>2, <2>3, <2>4
<1>4. CASE CheckInstalled
  <2> USE <1>4, AnswerTypes DEF CheckInstalled, End, GoOn, Passed, Told, vmVars
  <2>1. AgentTypeOK'
    BY DEF AgentTypeOK, GuestSteps
  <2>2. VmTypeOK'
    BY DEF VmTypeOK
  <2>3. Ready'
    BY DEF AgentTypeOK, Ready, Running
  <2>4. Running' /\ DoneMeansRun'
    BY DEF AgentTypeOK, VmTypeOK, Ready, Running, DoneMeansRun
  <2> QED
    BY <2>1, <2>2, <2>3, <2>4
<1>5. CASE CheckTart
  <2> USE <1>5, AnswerTypes DEF CheckTart, GoOn, Passed, Told, vmVars
  <2>1. AgentTypeOK'
    BY DEF AgentTypeOK, GuestSteps
  <2>2. VmTypeOK'
    BY DEF VmTypeOK
  <2>3. Ready'
    BY DEF AgentTypeOK, Ready, Running
  <2>4. Running' /\ DoneMeansRun'
    BY DEF AgentTypeOK, VmTypeOK, Ready, Running, DoneMeansRun
  <2> QED
    BY <2>1, <2>2, <2>3, <2>4
<1>6. CASE GetArch
  <2> USE <1>6, AnswerTypes DEF GetArch, End, GoOn, Passed, Told, vmVars
  <2>1. AgentTypeOK'
    BY DEF AgentTypeOK, GuestSteps
  <2>2. VmTypeOK'
    BY DEF VmTypeOK
  <2>3. Ready'
    BY DEF AgentTypeOK, Ready, Running
  <2>4. Running' /\ DoneMeansRun'
    BY DEF AgentTypeOK, VmTypeOK, Ready, Running, DoneMeansRun
  <2> QED
    BY <2>1, <2>2, <2>3, <2>4
<1> QED
  BY <1>1, <1>2, <1>3, <1>4, <1>5, <1>6

\* The runner is installed, and the job set up.
LEMMA PrepareKeeps ==
  ASSUME IInv,
         \/ InstallCopy \/ InstallGitHub \/ InstallForgejo \/ SetupGitHub \/ SetupForgejo
         \/ SetupTart \/ SetupTartForgejo \/ SkipConfig \/ WriteJit
  PROVE  IInv'
<1> USE DEF IInv, Installed, Configured
<1>1. CASE InstallCopy
  <2> USE <1>1, AnswerTypes DEF InstallCopy, Installing, GoOn, Passed, Told
  <2>1. AgentTypeOK'
    BY DEF AgentTypeOK, GuestSteps
  <2>2. VmTypeOK'
    BY DEF VmTypeOK
  <2>3. Ready'
    BY DEF AgentTypeOK, Ready, Running
  <2>4. Running' /\ DoneMeansRun'
    BY DEF AgentTypeOK, VmTypeOK, Ready, Running, DoneMeansRun
  <2> QED
    BY <2>1, <2>2, <2>3, <2>4
<1>2. CASE InstallGitHub
  <2> USE <1>2, AnswerTypes
      DEF InstallGitHub, GuestDownload, Installing, End, GoOn, Passed, Then, Told
  <2>1. AgentTypeOK'
    BY DEF AgentTypeOK, GuestSteps
  <2>2. VmTypeOK'
    BY DEF VmTypeOK
  <2>3. Ready'
    BY DEF AgentTypeOK, Ready, Running
  <2>4. Running' /\ DoneMeansRun'
    BY DEF AgentTypeOK, VmTypeOK, Ready, Running, DoneMeansRun
  <2> QED
    BY <2>1, <2>2, <2>3, <2>4
<1>3. CASE InstallForgejo
  <2> USE <1>3, AnswerTypes
      DEF InstallForgejo, GuestDownload, Installing, End, GoOn, Passed, Then, Told
  <2>1. AgentTypeOK'
    BY DEF AgentTypeOK, GuestSteps
  <2>2. VmTypeOK'
    BY DEF VmTypeOK
  <2>3. Ready'
    BY DEF AgentTypeOK, Ready, Running
  <2>4. Running' /\ DoneMeansRun'
    BY DEF AgentTypeOK, VmTypeOK, Ready, Running, DoneMeansRun
  <2> QED
    BY <2>1, <2>2, <2>3, <2>4
<1>4. CASE SetupGitHub
  <2> USE <1>4, AnswerTypes DEF SetupGitHub, Prepare, End, GoOn, Passed, Then, Told
  <2>1. AgentTypeOK'
    BY DEF AgentTypeOK, GuestSteps
  <2>2. VmTypeOK'
    BY DEF VmTypeOK
  <2>3. Ready'
    BY DEF AgentTypeOK, Ready, Running
  <2>4. Running' /\ DoneMeansRun'
    BY DEF AgentTypeOK, VmTypeOK, Ready, Running, DoneMeansRun
  <2> QED
    BY <2>1, <2>2, <2>3, <2>4
<1>5. CASE SetupForgejo
  <2> USE <1>5, AnswerTypes DEF SetupForgejo, Prepare, End, GoOn, Passed, Then, Told
  <2>1. AgentTypeOK'
    BY DEF AgentTypeOK, GuestSteps
  <2>2. VmTypeOK'
    BY DEF VmTypeOK
  <2>3. Ready'
    BY DEF AgentTypeOK, Ready, Running
  <2>4. Running' /\ DoneMeansRun'
    BY DEF AgentTypeOK, VmTypeOK, Ready, Running, DoneMeansRun
  <2> QED
    BY <2>1, <2>2, <2>3, <2>4
<1>6. CASE SetupTart
  <2> USE <1>6, AnswerTypes DEF SetupTart, Prepare, End, GoOn, Passed, Then, Told
  <2>1. AgentTypeOK'
    BY DEF AgentTypeOK, GuestSteps
  <2>2. VmTypeOK'
    BY DEF VmTypeOK
  <2>3. Ready'
    BY DEF AgentTypeOK, Ready, Running
  <2>4. Running' /\ DoneMeansRun'
    BY DEF AgentTypeOK, VmTypeOK, Ready, Running, DoneMeansRun
  <2> QED
    BY <2>1, <2>2, <2>3, <2>4
<1>7. CASE SetupTartForgejo
  <2> USE <1>7, AnswerTypes DEF SetupTartForgejo, Prepare, End, GoOn, Passed, Then, Told
  <2>1. AgentTypeOK'
    BY DEF AgentTypeOK, GuestSteps
  <2>2. VmTypeOK'
    BY DEF VmTypeOK
  <2>3. Ready'
    BY DEF AgentTypeOK, Ready, Running
  <2>4. Running' /\ DoneMeansRun'
    BY DEF AgentTypeOK, VmTypeOK, Ready, Running, DoneMeansRun
  <2> QED
    BY <2>1, <2>2, <2>3, <2>4
<1>8. CASE SkipConfig
  <2> USE <1>8 DEF SkipConfig, GoOn, vmVars
  <2>1. AgentTypeOK'
    BY DEF AgentTypeOK, GuestSteps
  <2>2. VmTypeOK'
    BY DEF VmTypeOK
  <2>3. Ready'
    BY DEF AgentTypeOK, Ready, Running
  <2>4. Running' /\ DoneMeansRun'
    BY DEF AgentTypeOK, VmTypeOK, Ready, Running, DoneMeansRun
  <2> QED
    BY <2>1, <2>2, <2>3, <2>4
<1>9. CASE WriteJit
  <2> USE <1>9, AnswerTypes DEF WriteJit, Prepare, End, GoOn, Passed, Then, Told
  <2>1. AgentTypeOK'
    BY DEF AgentTypeOK, GuestSteps
  <2>2. VmTypeOK'
    BY DEF VmTypeOK
  <2>3. Ready'
    BY DEF AgentTypeOK, Ready, Running
  <2>4. Running' /\ DoneMeansRun'
    BY DEF AgentTypeOK, VmTypeOK, Ready, Running, DoneMeansRun
  <2> QED
    BY <2>1, <2>2, <2>3, <2>4
<1> QED
  BY <1>1, <1>2, <1>3, <1>4, <1>5, <1>6, <1>7, <1>8, <1>9

\* The runner is started and waited for.
LEMMA RunKeeps ==
  ASSUME IInv,
         \/ StartRunner \/ RunnerExit \/ ExitLost \/ Upload \/ NoJit
         \/ CleanUp \/ Launch \/ Poll \/ PollEnds
  PROVE  IInv'
<1> USE DEF IInv, Installed, Configured
<1>1. CASE StartRunner
  <2> USE <1>1 DEF StartRunner, GoOn, End
  <2>1. AgentTypeOK'
    BY DEF AgentTypeOK, GuestSteps
  <2>2. VmTypeOK'
    BY DEF VmTypeOK
  <2>3. Ready'
    BY DEF AgentTypeOK, Ready, Running
  <2>4. Running' /\ DoneMeansRun'
    BY DEF AgentTypeOK, VmTypeOK, Ready, Running, DoneMeansRun
  <2> QED
    BY <2>1, <2>2, <2>3, <2>4
<1>2. CASE RunnerExit
  <2> USE <1>2 DEF RunnerExit, End, vmVars, Passed
  <2>1. AgentTypeOK'
    BY DEF AgentTypeOK, GuestSteps
  <2>2. VmTypeOK'
    BY DEF VmTypeOK
  <2>3. Ready'
    BY DEF AgentTypeOK, Ready, Running
  <2>4. Running' /\ DoneMeansRun'
    BY DEF AgentTypeOK, VmTypeOK, Ready, Running, DoneMeansRun
  <2> QED
    BY <2>1, <2>2, <2>3, <2>4
<1>3. CASE ExitLost
  <2> USE <1>3 DEF ExitLost, End, vmVars
  <2>1. AgentTypeOK'
    BY DEF AgentTypeOK, GuestSteps
  <2>2. VmTypeOK'
    BY DEF VmTypeOK
  <2>3. Ready'
    BY DEF AgentTypeOK, Ready, Running
  <2>4. Running' /\ DoneMeansRun'
    BY DEF AgentTypeOK, VmTypeOK, Ready, Running, DoneMeansRun
  <2> QED
    BY <2>1, <2>2, <2>3, <2>4
<1>4. CASE Upload
  <2> USE <1>4, AnswerTypes DEF Upload, End, GoOn, Passed, Then, Told, vmVars
  <2>1. AgentTypeOK'
    BY DEF AgentTypeOK, GuestSteps
  <2>2. VmTypeOK'
    BY DEF VmTypeOK
  <2>3. Ready'
    BY DEF AgentTypeOK, Ready, Running
  <2>4. Running' /\ DoneMeansRun'
    BY DEF AgentTypeOK, VmTypeOK, Ready, Running, DoneMeansRun
  <2> QED
    BY <2>1, <2>2, <2>3, <2>4
<1>5. CASE NoJit
  <2> USE <1>5 DEF NoJit, GoOn, vmVars
  <2>1. AgentTypeOK'
    BY DEF AgentTypeOK, GuestSteps
  <2>2. VmTypeOK'
    BY DEF VmTypeOK
  <2>3. Ready'
    BY DEF AgentTypeOK, Ready, Running
  <2>4. Running' /\ DoneMeansRun'
    BY DEF AgentTypeOK, VmTypeOK, Ready, Running, DoneMeansRun
  <2> QED
    BY <2>1, <2>2, <2>3, <2>4
<1>6. CASE CleanUp
  <2> USE <1>6, AnswerTypes DEF CleanUp, GoOn
  <2>1. AgentTypeOK'
    BY DEF AgentTypeOK, GuestSteps
  <2>2. VmTypeOK'
    BY DEF VmTypeOK
  <2>3. Ready'
    BY DEF AgentTypeOK, Ready, Running
  <2>4. Running' /\ DoneMeansRun'
    BY DEF AgentTypeOK, VmTypeOK, Ready, Running, DoneMeansRun
  <2> QED
    BY <2>1, <2>2, <2>3, <2>4
<1>7. CASE Launch
  <2> USE <1>7, AnswerTypes DEF Launch, End, GoOn, Passed, Then, Told
  <2>1. AgentTypeOK'
    BY DEF AgentTypeOK, GuestSteps
  <2>2. VmTypeOK'
    BY DEF VmTypeOK
  <2>3. Ready'
    BY DEF AgentTypeOK, Ready, Running
  <2>4. Running' /\ DoneMeansRun'
    BY DEF AgentTypeOK, VmTypeOK, Ready, Running, DoneMeansRun
  <2> QED
    BY <2>1, <2>2, <2>3, <2>4
<1>8. CASE Poll
  <2> USE <1>8 DEF Poll, End, vmVars
  <2>1. AgentTypeOK'
    BY DEF AgentTypeOK, GuestSteps
  <2>2. VmTypeOK'
    BY DEF VmTypeOK
  <2>3. Ready'
    BY DEF AgentTypeOK, Ready, Running
  <2>4. Running' /\ DoneMeansRun'
    BY DEF AgentTypeOK, VmTypeOK, Ready, Running, DoneMeansRun
  <2> QED
    BY <2>1, <2>2, <2>3, <2>4
<1>9. CASE PollEnds
  <2> USE <1>9 DEF PollEnds, End, vmVars
  <2>1. AgentTypeOK'
    BY DEF AgentTypeOK, GuestSteps
  <2>2. VmTypeOK'
    BY DEF VmTypeOK
  <2>3. Ready'
    BY DEF AgentTypeOK, Ready, Running
  <2>4. Running' /\ DoneMeansRun'
    BY DEF AgentTypeOK, VmTypeOK, Ready, Running, DoneMeansRun
  <2> QED
    BY <2>1, <2>2, <2>3, <2>4
<1> QED
  BY <1>1, <1>2, <1>3, <1>4, <1>5, <1>6, <1>7, <1>8, <1>9

\* The VM's own steps.
LEMMA VmKeeps ==
  ASSUME IInv,
         \/ RunnerEnds \/ WrapperCleans \/ LinkBreaks \/ VmDies
  PROVE  IInv'
<1> USE DEF IInv, Installed, Configured
<1>1. CASE RunnerEnds
  <2> USE <1>1 DEF RunnerEnds
  <2>1. AgentTypeOK'
    BY DEF AgentTypeOK, GuestSteps
  <2>2. VmTypeOK'
    BY DEF VmTypeOK
  <2>3. Ready'
    BY DEF AgentTypeOK, Ready, Running
  <2>4. Running' /\ DoneMeansRun'
    BY DEF AgentTypeOK, VmTypeOK, Ready, Running, DoneMeansRun
  <2> QED
    BY <2>1, <2>2, <2>3, <2>4
<1>2. CASE WrapperCleans
  <2> USE <1>2 DEF WrapperCleans
  <2>1. AgentTypeOK'
    BY DEF AgentTypeOK, GuestSteps
  <2>2. VmTypeOK'
    BY DEF VmTypeOK
  <2>3. Ready'
    BY DEF AgentTypeOK, Ready, Running
  <2>4. Running' /\ DoneMeansRun'
    BY DEF AgentTypeOK, VmTypeOK, Ready, Running, DoneMeansRun
  <2> QED
    BY <2>1, <2>2, <2>3, <2>4
<1>3. CASE LinkBreaks
  <2> USE <1>3 DEF LinkBreaks
  <2>1. AgentTypeOK'
    BY DEF AgentTypeOK, GuestSteps
  <2>2. VmTypeOK'
    BY DEF VmTypeOK
  <2>3. Ready'
    BY DEF AgentTypeOK, Ready, Running
  <2>4. Running' /\ DoneMeansRun'
    BY DEF AgentTypeOK, VmTypeOK, Ready, Running, DoneMeansRun
  <2> QED
    BY <2>1, <2>2, <2>3, <2>4
<1>4. CASE VmDies
  <2> USE <1>4 DEF VmDies
  <2>1. AgentTypeOK'
    BY DEF AgentTypeOK, GuestSteps
  <2>2. VmTypeOK'
    BY DEF VmTypeOK
  <2>3. Ready'
    BY DEF AgentTypeOK, Ready, Running
  <2>4. Running' /\ DoneMeansRun'
    BY DEF AgentTypeOK, VmTypeOK, Ready, Running, DoneMeansRun
  <2> QED
    BY <2>1, <2>2, <2>3, <2>4
<1> QED
  BY <1>1, <1>2, <1>3, <1>4

LEMMA NextIInv == IInv /\ [GuestNext]_guestVars => IInv'
<1>1. ASSUME IInv, UNCHANGED guestVars PROVE IInv'
  <2>1. AgentTypeOK'
    BY <1>1 DEF guestVars, vmVars, IInv, AgentTypeOK
  <2>2. VmTypeOK'
    BY <1>1 DEF guestVars, vmVars, IInv, VmTypeOK
  <2>3. Ready' /\ Running' /\ DoneMeansRun'
    BY <1>1 DEF guestVars, vmVars, IInv, Ready, Running, DoneMeansRun
  <2> QED
    BY <2>1, <2>2, <2>3 DEF IInv
<1> QED
  BY <1>1, LookKeeps, PrepareKeeps, RunKeeps, VmKeeps DEF GuestNext, SshStep

LEMMA Invariant == GuestSpec => []IInv
  BY InitIInv, NextIInv, PTL DEF GuestSpec

-----------------------------------------------------------------------------
(* The theorems *)

\* The agent's steps, the guest and the runner have their types.
THEOREM GuestTypeCorrect == GuestSpec => []GuestTypeOK
<1>1. IInv => GuestTypeOK
  BY DEF IInv, AgentTypeOK, VmTypeOK, GuestTypeOK
<1> QED
  BY Invariant, <1>1, PTL

\* run_job: a job that counts as done was installed, set up, run and exited with 0, unless the
\* agent missed how one of its commands ended.
THEOREM DoneWasRun == GuestSpec => []DoneMeansRun
<1>1. IInv => DoneMeansRun
  BY DEF IInv
<1> QED
  BY Invariant, <1>1, PTL
=============================================================================
