------------------------------- MODULE MCLive -------------------------------
(* The parts that share no state and must get something done, in one run:  *)
(* each behaviour is one part's, the variable unit names it, and the others *)
(* stay in an initial state.                                                *)
EXTENDS Session, Drain, RunnerCache, LogPipeline, ForgeScan, HostVms, GuestRun

VARIABLE unit

Units == {"session", "drain", "cache", "log", "scan", "host", "guest"}

\* Of the parts that may start in several states, those of the other units start in one.
Pinned ==
  /\ unit # "scan" => polling
  /\ unit # "host" => kind = "tart"
  /\ unit # "guest" =>
       way = "session" /\ job = "jit" /\ guest = "posix" /\ inGuest = "no" /\ exitStatus = "none"

LiveInit ==
  /\ unit \in Units
  /\ ScanInit /\ HostInit /\ GuestInit /\ Pinned
  /\ SessionInit /\ DrainInit /\ CacheInit /\ LogInit

\* The steps of unit u leave the variables of the others alone.
Alone(u) ==
  /\ UNCHANGED unit
  /\ IF u = "session" THEN TRUE ELSE UNCHANGED sessionVars
  /\ IF u = "drain" THEN TRUE ELSE UNCHANGED drainVars
  /\ IF u = "cache" THEN TRUE ELSE UNCHANGED cacheVars
  /\ IF u = "log" THEN TRUE ELSE UNCHANGED logVars
  /\ IF u = "scan" THEN TRUE ELSE UNCHANGED scanVars
  /\ IF u = "host" THEN TRUE ELSE UNCHANGED hostVars
  /\ IF u = "guest" THEN TRUE ELSE UNCHANGED guestVars

LiveNext ==
  \/ unit = "session" /\ SessionNext /\ Alone("session")
  \/ unit = "drain" /\ DrainNext /\ Alone("drain")
  \/ unit = "cache" /\ CacheNext /\ Alone("cache")
  \/ unit = "log" /\ LogNext /\ Alone("log")
  \/ unit = "scan" /\ ScanNext /\ Alone("scan")
  \/ unit = "host" /\ HostNext /\ Alone("host")
  \/ unit = "guest" /\ GuestNext /\ Alone("guest")

liveVars ==
  <<unit, sessionVars, drainVars, cacheVars, logVars, scanVars, hostVars, guestVars>>

\* The variables of the part that runs.
running ==
  CASE unit = "session" -> sessionVars
    [] unit = "drain" -> drainVars
    [] unit = "cache" -> cacheVars
    [] unit = "log" -> logVars
    [] unit = "scan" -> scanVars
    [] unit = "host" -> hostVars
    [] unit = "guest" -> guestVars

\* A behaviour is one part's, so a fairness condition can carry an action of each.
\*
\* What goes on by itself when it can. session: the tasks of both ends, and the agent reconnects;
\* drain: the ticker keeps the loop going and timers run out; log: the runtime starts the uploader
\* with every session; scan: the fleet loop scans again and again, each call has a timeout; host:
\* the external VMs are counted every EXTERNAL_POLL_INTERVAL; guest: the agent's steps time out.
Fair1 ==
  \/ unit = "session" /\ \E k \in Cmds : SenderPush(k)
  \/ unit = "drain" /\ DrainLoop
  \/ unit = "log" /\ (StartUploads \/ Flush \/ TakeBatch \/ BatchDone \/ BatchFailed \/ Disable)
  \/ unit = "scan" /\ ScanStep
  \/ unit = "host" /\ CountStep
  \/ unit = "guest" /\ SshStep

Fair2 ==
  \/ unit = "session" /\ (TaskWrites \/ TaskPush \/ TaskLoses)
  \/ unit = "drain" /\ \E r \in PoolRunners : BootGraceOver(r)
  \/ unit = "log" /\ (Store \/ StoreFails)

Fair3 ==
  \/ unit = "session" /\ (Connect \/ LoopReads \/ LoopOut \/ LoopCommand \/ LoopLoses)
  \/ unit = "drain" /\ \E r \in PoolRunners : DestroyRetryDue(r)

Fair4 == unit = "session" /\ (Serve \/ \E n \in Note : PutNote(n))

\* cache: every request and download has a timeout, and the lock goes round.
FairJob(j) == unit = "cache" /\ JobStep(j)

\* What does not fail, or is not passed over, for ever. session: select! picks at random among what
\* is ready; drain: asking the forge, deleting, sending and destroying; log: the coordinator's
\* store; host: tart list, and the agent does not always crash in between.
Strong1 ==
  \/ unit = "session" /\ TaskReads
  \/ unit = "drain" /\ \E r \in PoolRunners : DrainAsk(r)
  \/ unit = "log" /\ Store
  \/ unit = "host" /\ ListRunning

Strong2 ==
  \/ unit = "session" /\ TaskCommand
  \/ unit = "drain" /\ TryDelete
  \/ unit = "host" /\ SetExternal

Strong3 ==
  \/ unit = "session" /\ LoopEvent
  \/ unit = "drain" /\ SendDestroy

Strong4 == unit = "drain" /\ \E r \in PoolRunners : DestroyRunner(r)

LiveSpec ==
  /\ LiveInit /\ [][LiveNext]_liveVars
  /\ WF_running(UNCHANGED unit /\ Fair1) /\ WF_running(UNCHANGED unit /\ Fair2)
  /\ WF_running(UNCHANGED unit /\ Fair3) /\ WF_running(UNCHANGED unit /\ Fair4)
  /\ \A j \in CacheJobs : WF_running(UNCHANGED unit /\ FairJob(j))
  /\ SF_running(UNCHANGED unit /\ Strong1) /\ SF_running(UNCHANGED unit /\ Strong2)
  /\ SF_running(UNCHANGED unit /\ Strong3) /\ SF_running(UNCHANGED unit /\ Strong4)

-----------------------------------------------------------------------------
(* The bounds *)

MCScopes == <<{}>>
MCLabels == [j \in ScanJobs |-> IF j = 1 THEN {"self-hosted", "mac"} ELSE {"self-hosted", "lin"}]
MCRequired == {"self-hosted"}
MCMappings == <<[forge |-> "github", labels |-> {"mac"}], [forge |-> "any", labels |-> {"lin"}]>>
=============================================================================
