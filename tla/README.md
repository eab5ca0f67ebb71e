# Kuiper Forge in TLA+

Kuiper Forge runs every CI job in a VM of its own. A coordinator (`kuiper-forge`) watches GitHub
and Forgejo for queued jobs and sends `CreateRunner` commands to agents (`kuiper-tart-agent`,
`kuiper-libvirt-agent`, `kuiper-proxmox-agent`, all built on `kuiper-agent-lib`), which create a
VM, run one job in it and destroy it. What makes this hard is that a job's row in the queue, its
runner's record, the slot reserved for it and the VM itself live in different processes, and any
of them can outlive the others when a command times out, an agent drops, an event is lost or the
coordinator restarts.

This directory models that, checks it with TLC on small instances and proves parts of it with
TLAPS for instances of any size. Source references are to the repository's root.

| Module | What it is |
| --- | --- |
| `Dispatch.tla` | On-demand dispatch: fleet loop, command tasks, recovery, agents as the coordinator sees them |
| `MCDispatch.tla`, `MCAbandoned.tla` | Its instances for TLC; the second adds a history variable |
| `JobQueue.tla` | The abstract specification `Dispatch` implements |
| `DispatchProofs.tla` | TLAPS proofs about `Dispatch`, with the refinement |
| `VmTracker.tla` | The VMs of one agent: command loop, lifecycles, destroys, cleanup, shutdown |
| `SlotPool.tla` | The abstract specification `VmTracker` implements |
| `MCVmTracker.tla` | Its instances for TLC |
| `VmTrackerProofs.tla` | TLAPS proofs about `VmTracker`, with the refinement |
| `Session.tla`, `Registration.tla` | An agent's stream with its channels and locks; its registry entry over reconnects |
| `Pools.tla`, `Drain.tla` | Fixed-capacity pools; draining an agent in maintenance |
| `Enroll.tla`, `Accounts.tla`, `Setup.tla` | Tokens, certificates and revocation; admins; the files `setup` writes |
| `ForgeScan.tla`, `GithubApp.tla`, `Labels.tla` | Finding queued jobs; the GitHub client's caches; label matching |
| `HostVms.tla`, `GuestRun.tla`, `RunnerCache.tla` | The backends' VMs; a job in its VM; copies of runner releases |
| `LogPipeline.tla`, `Diagnostics.tla` | Log upload; log lines and failures as kept |
| `RunHistory.tla`, `Summary.tla`, `Updates.tla` | The rows of the metrics page; the page; agent updates |
| `MCParts.tla`, `MCLive.tla` | Instances of these parts for TLC: safety, liveness |
| `ConnectionProofs.tla` | TLAPS proofs about `Session`, `Registration`, `Enroll` |
| `PoolsProofs.tla` | TLAPS proofs about `Pools`, `Drain` |
| `HostProofs.tla` | TLAPS proofs about `RunnerCache`, `HostVms`, `LogPipeline`, `Updates` |
| `GuestRunProofs.tla` | TLAPS proofs about `GuestRun` |
| `RecordsProofs.tla` | TLAPS proofs about `RunHistory`, `Accounts`, `Setup`, `Diagnostics`, `Summary` |
| `ForgeProofs.tla` | TLAPS proofs about `ForgeScan`, `GithubApp`, `Labels` |

## Inventory

For each component: its state, its operations, how it is talked to, what is hard about it and
what makes it correct.

**Fleet manager** (`kuiper-forge/src/fleet.rs`). One task, `run_on_demand_loop`, selects over a
notify, a ticker, the runner event channel, the recovery channel, the idle check, the back-off
timers and forge scans, and does one thing at a time. It spawns a command task per `CreateRunner`,
a recovery watcher per recovered runner and clean-up tasks, which run beside it. State: idle
bookkeeping (`started`, `tearing_down`, `torn_down`, `backoff`), and what a pass has read and is
working on; everything else is in the stores below. Hard: every step of a pass awaits (forge, registry,
database) while the other tasks go on; events are `try_send`-ed to a bounded channel; what it has
in memory is lost on a restart. Correct when: a job has at most one runner; a queued job keeps its
row until its retries are used up and is served in the end; a dead runner's record goes; a runner
torn down for idling does not cost its job a retry. A second loop keeps *fixed-capacity pools* at
their size and *drains* agents in maintenance; correct when a pool never exceeds its size, an agent
is not asked for more than it has room for, and a drain ends without killing a job.

**Pending job queue** (`pending_jobs.rs`, `sql.rs`). Rows by job with `retry_count` and
`failed_agents`. `add_job`, `remove_job`, `increment_retry_count`, `record_failed_agent`. Written by
the webhook handler, the fleet loop and the command tasks. Correct when a row goes only for a job
that is done or out of retries, and retries only count failures of this row.

**Runner records** (`runner_state.rs`). Rows by runner name: agent, job, VM; `missing_since` in
memory. `add_runner`, `remove_runner`, `reconcile_agent_vms` with a 20 s grace period. Written by the
fleet loop, command tasks, status handling and the sweep. Correct when a record goes if its VM is
gone, and is there if its VM may run a job.

**Agent registry** (`agent_registry.rs`). Connected agents with latest status, slot reservations,
command channel and pending responses; who may still claim a failover. Register, unregister, select,
reserve, settle, `send_command`, `claim_failover`. Shared by the fleet and a stream task per agent,
under `RwLock`s. Correct when a slot is counted once from reservation to listed VM, an agent is not
booked over its limits, and nobody waits for a lock held by someone waiting for him.

**gRPC server** (`server.rs`). A task per agent stream: registration, statuses, acks, runner
events in, commands out; a disconnect timer with a grace period, then failover. Hard: old and new
stream of an agent overlap.

**Webhook handler** (`webhook.rs`), **background tasks** (`main.rs`: stale agents, orphan sweep,
pruning), **forges** (`forge.rs`, `github.rs`, `forgejo.rs`). Deliveries can be lost, late or repeated;
forge queries can fail.

**VM agent** (`kuiper-agent-lib/src/vm_agent/mod.rs`) and **VM tracker** (`vm_agent/tracker.rs`).
`serve` reads commands, takes a slot and spawns a lifecycle (create, start, run, destroy) per
runner; `DestroyRunner` tasks, the cleanup of old VMs and shutdown destroy VMs too. State: the
tracker's map, behind an `RwLock`, with a `watch` channel per entry for those who wait for its
removal. Hard: four parties destroy, one may still be creating, and backends fail. Correct when
the host stays within its limits, a VM has one destroyer, a destroy returns only when the VM is
gone, slots come back and shutdown ends.

**Agent runtime** (`runtime.rs`, `connector.rs`). The session driver: reconnects, two bounded
channels (commands to the agent, events to the stream). Hard: each side can wait for room in the
other's channel. Correct when neither waits for ever.

**Log upload** (`log_upload.rs`): a bounded buffer, batches in flight, sessions that end in a call.
Correct when a line is stored or its loss is counted. **Runner cache** (`runner_cache.rs`): one
download per platform shared by jobs that may be torn down; correct when nothing but a whole,
checked copy is installed and nobody waits for ever. **Guest set-up** (`ssh.rs`, `guest.rs`) and the
**backends** (tart, libvirt, Proxmox): commands that fail, time out or act late; correct when "done"
means run, and other people's VMs stay.

**Authentication** (`auth.rs`): one-use tokens, certificates, revocation, against calls that are cut
off. **Label matching** (`labels.rs`): worked out twice, by coordinator and agent; correct when both
agree. **Metrics and run history** (`metrics/`), **agent logs and failures** (`agent_logs.rs`,
`agent_failures.rs`): rows with several writers in any order. **Admin accounts** (`admin/`),
**setup** (`setup.rs`), **agent updates** (`agent_updates.rs`, tart `update.rs`): sequences of writes that
overlap or are cut short.

**Left out**: the agent programs' own start-up, configuration and install commands, rendering and
parsing, cryptography. They are sequential I/O that no other step relies on.

### Who talks to whom

```
forge --webhook--> queue <--rows-- fleet loop --CreateRunner/DestroyRunner--> stream --> serve
  ^---- scans, status, registration ---'  ^  |                                            |
                                          |  '--> command task, watcher, clean-up task    |
  runner events, recoveries (bounded) ----'                                         lifecycle, destroy,
          ^------ status, disconnect timer, orphan sweep <--- status, events ------ cleanup, shutdown
                                                                                          |
                                                                                       tracker
```

`Dispatch` is everything left of `serve`, with the agent reduced to accepting or refusing a
command and its VM's end. `VmTracker` is everything from `serve` on. They meet in two facts:
`Dispatch` lets an agent accept only below `MaxVms`, and takes a VM for dead only after a
report of its end or a status without it; `VmTracker` shows that an agent does that
(`HostWithinLimits`; an entry lasts until the VM is destroyed or destroying it failed,
`SlotsKept`).

## Dispatch

### State and actions

Stores are sets and functions: `pending`, `retry`, `failed` for the queue, `recorded`, `jobOf`,
`host` for runner records, `online`, `reserved`, `listed` for the registry. Each spawned task is a
function from runner names to where the task is: `task` (command task), `cleaner` (recovery watcher
or clean-up task). `at`, `rows`, `checks` and `cur` are the fleet loop's position, so every await inside
a pass is a point where other actors move. `events` and `recoveries` are the channels. `vm`,
`outbox` and `destroys` are the agent. A name is used again once nothing mentions it (`Fresh`), so
a few names stand for the unbounded supply.

| Actor | Actions | Code |
| --- | --- | --- |
| Fleet loop, a pass | `StartPass`, `AbandonRow`, `SkipRow`, `SelectAgent`, `ReserveSlot`, `ReserveFails`, `JobGone`, `JitFails`, `CreateRunner` | `process_pending_jobs`, `create_runner_on_demand` |
| Fleet loop, the rest | `HandleEvent`, `SettleEvent`, `HandleRecovery`, `ScanForges`, `StartIdleCheck`, `SpareIdle`, `TearDownIdle`, `BackoffOver` | `handle_runner_event`, `handle_agent_recovery`, `scan_forges`, `recover_queued_jobs`, `check_idle_runners` |
| Command task | `RecvAck`, `CommandTimeout`, `RemoveRejected`, `RemoveFailed`, `ChargeFailed`, `AbandonFailed` | the task `create_runner_on_demand` spawns |
| Watcher, clean-up task | `WatcherExit`, `CleanUp` | `spawn_runner_watcher` and what follows its loop |
| Stream, timers, sweep | `Connect`, `Disconnect`, `StatusReport`, `ClaimFailover`, `SendFailover`, `OrphanSweep` | `server.rs`, `main.rs`, `reconcile_agent_vms` |
| Agent | `AgentAccept`, `AgentRefuse`, `AgentDestroy`, `EndVm`, `DeliverEvent` | what `serve` and a lifecycle let the coordinator see |
| Forge, webhooks | `JobQueued`, `JobStarts`, `JobEnds`, `WebhookCompleted` | external, and `webhook.rs` |
| Coordinator | `CoordinatorCrash` | restart: the stores stay, memory goes |

`PROJECT.json` maps every definition to its lines.

Time is abstract: a timer may fire at any moment after it is armed. Webhook provisioning mode; every
job has a repository; the database answers.

### Properties

- `AtMostOneRunnerPerJob`: no job has two runner records, though a pass looks for one, awaits the
  registry and the forge, and only then records its own.
- `QueueKept`: `Dispatch` implements `JobQueue`. A job gets a runner only when it has none, and a
  name that is nobody else's; a step charges one try to one job; a job still queued loses its row only
  with its last try, or to a command task that had charged it. Not when a runner made for it
  completes: that may have run a sibling. A new row has all its tries.
- `SlotHeld`: a runner on its way to an agent, or running there, is counted as a reservation or as a
  listed VM, with no moment in between.
- `IdleNotCharged`: the events of a runner torn down for idling do not touch its job's row or
  retries, in whatever order and however often its end is reported.
- `QueuedJobServed`, `DeadRunnerForgotten`, `TearDownCompletes`: liveness, below.

### Runs

| Run | Instance | Shows |
| --- | --- | --- |
| `dispatch` | 1 job, 2 agents, 2 names, 1 slot each, 2 retries, event channel of 1, one fault of any kind | `TypeOK`, `AtMostOneRunnerPerJob`, refinement of `JobQueue` |
| `dispatch_sharing` | 2 jobs, 1 agent with 2 slots, 2 names, 1 retry, a timeout, a late answer or a restart | `SlotHeld` |
| `dispatch_idle` | 1 job, agent and name, idle teardown on, one drop | `IdleNotCharged`, `TearDownCompletes` |
| `dispatch_live` | 1 job, agent and name, 2 retries, one fault of any kind | `QueuedJobServed`, `DeadRunnerForgotten` |
| `watcher_cleanup` | two drops | violates `WatcherLeavesRecord` |
| `recovery_cleanup` | 2 jobs, one drop | violates `RecoveryCleansUpTheDead` |
| `abandoned_retried` | 1 job, no fault | violates `AbandonedNotRetried` |

Why these are enough: two agents, so that a job fails over to the second and `failed_agents`
matters; two names, so that a late event of an old runner meets a new one of the same job; two
retries, so that a job is both retried and given up; an event channel of one, so that events are
dropped; two jobs on one agent, so that a completed runner has a sibling and a status settles the
wrong reservation if it can. One fault of each kind (`MaxFaults`; `Faults` says which kinds) reaches every recovery path; two drops
are needed, and given, for the watcher. `MaxFaults` bounds faults, the retry limit bounds retries, and names
are reused; nothing else is bounded. `dispatch` uses symmetry in agents and names, and a view that
forgets the job and agent of a name nothing mentions; the liveness runs use neither. Deadlock is
checked.

### Fairness

The loop's `select!` picks among ready branches at random, so each branch that is ready again and
again is taken (strong fairness of `StartPass`, `HandleEvent`, `HandleRecovery`, `CreateRunner`
once its registration succeeds now and then). The steps of spawned tasks and of streams are weakly
fair: nothing but the runtime delays them. A forge answers a scan now and then; the ticker and
sweep come back until the event channel has room. VMs end, by their job or by the agent's cleanup
of old VMs. Nothing makes an agent come back: `QueuedJobServed` asks only while one that can run
the job is connected. `IdleFairSpec` has less (no VM ends by itself, no pass has to start), as little as a tear-down takes:
old runners are checked again and again, and for the rest the loop, the agent, its stream and the sweep go on.

### Where code and comments differ

1. `watcher_cleanup`: a recovery watcher whose agent disconnects goes on to remove the runner from
   its forge and the records, where the comment leaves that to the reconnect or the disconnect
   cleanup (`fleet.rs:2074`).
2. `recovery_cleanup`: a pass can run between an agent's reconnect and the handling of its
   recovery; the recovery then cleans up the runner that pass made, as one whose "VM is gone"
   (`fleet.rs:1671`).
3. `abandoned_retried`: a job "removed and not retried" at `MAX_RETRIES` (`pending_jobs.rs:23`)
   that is still queued on its forge is added again by the next scan, with no retries used.

### Proved (`DispatchProofs.tla`)

For any jobs, agents, runners, limits and faults, from `DispatchAssumption` alone (runner names
are finite; limits are positive; `None` is none of the others):

- `TypeCorrect`: `Spec => []TypeOK`
- `OneRunnerPerJob`: `Spec => []AtMostOneRunnerPerJob`
- `ImplementsJobQueue`: `Spec => QueueKept`, every step a step of `JobQueue` or a stutter
- `IdledNotCharged`: `Spec => IdleNotCharged`
- `SlotsHeld`: `Spec => []SlotHeld`, if agents do not drop (`"drop" \notin Faults`)

`AtMostOneRunnerPerJob` is not inductive: `CreateRunner` records a runner for the job chosen
several steps before. The invariant `IInv` adds `Chosen`: while the loop is between choosing a job
and recording its runner, that job has no runner and the chosen name is new. That holds because only
`CreateRunner` records anything (`OnlyCreateRunnerBinds`) and only the loop moves `cur`
(`OnlyPassesChoose`): the single fleet loop is what the property rests on, and the proof says where.
Types need `Bound`: a failed command is held against the agent of a runner whose record may be
gone, so a name keeps its job and agent as long as a task still sees to it.

The refinement maps a job's runners to `RunnersFor`, and tries that are used up before their row goes
to the tasks at `"abandon"` (`Spent`): a command task counts, then removes, and in between the row may
have gone and come back. Each actor's step is shown to be one of the queue's or none (`PassMoves`,
`TaskMoves`, `EventMoves`, `ScanMoves`, `CrashMoves`, ...). Two things besides `IInv` are needed: the rows a
pass has read are no older than what the loop lets change (`RowsKept`), and a job without a row, or a
name about to get a command, has nothing left over from before (`TriesWhole`). That a job has at most
one runner is what makes the end of a recorded runner leave its job with none.

`IdleNotCharged` rests on `AtMostOneRunnerPerJob`: events of another runner could charge the job of one
that is being torn down, and there is no other.

`SlotHeld` does not hold across a reconnect: it starts without reservations, and one that a pass has
just made is gone before its runner is sent (the agent then refuses what it has no room for, which
charges nobody). Without drops it follows from `SlotInv`: a runner in the loop's hand is reserved and
known to nobody else (`InHand`), and a listed VM is not still asked for (`ListedMade`), so a command
under way is held by its own reservation.

All of liveness is model-checked only. Liveness under fairness and ENABLED are out of the prover's
reach.

### Not modelled

Polling mode; jobs without a repository; the "waiting" job status; legacy `CommandResult` answers;
database errors; registrations and their tokens on the forge; the delay between spawning a command task and its send;
a queued webhook that comes late for a job already done. Modules of their own have connections that
overlap and `set_unavailable` (`Registration`), channels and the registry's lock (`Session`), capacity
per limit and pools (`Pools`), draining (`Drain`), and a forge scan call by call (`ForgeScan`; one
step here). Other steps merged into one: `JobGone`'s check and release; the read, change and write of
`failed_agents` in the fleet loop; several watchers of one runner.

## VmTracker

### State and actions

`state` is the tracker's map (`"none"` without an entry; `"up"` is Starting, Running, Configuring and
RunnerActive, and Creating with a VM: destroys do not tell them apart), `limits` what an entry counts
against, `outcome` what the entry's `watch` channel said last. `host` is what is really running,
`guest` what a VM really counts against, `failed` the VMs a destroy left behind. `life` is where a
runner's command and lifecycle are, `call` where each caller of `destroy(name)` is, `sweep` what the
cleanup has still to look at, `phase` the agent.

Each tracker operation holds the tracker's lock from its first read to its last write, so it is one
step. Everything the code awaits between them (the backend, the ack, a removal) is a step boundary.

| Actor | Actions | Code |
| --- | --- | --- |
| `serve` | `ServeCreate`, `SpawnCreate`, `ServeDestroy` | `reserve`, the ack, the spawn |
| `DestroyRunner` task | `Find`, then destroy | `handle_destroy` |
| destroy, four callers | `Claim`, `DestroyOwn`, `UntrackOwn`, `WaitOver` | `destroy`, `claim_for_destroy`, `untrack`, `Removal::wait` |
| Lifecycle | `BackendCreates`, `SetCreated`, `AbortVm`, `UntrackAborted`, `RunEnds`, `Report` | `lifecycle`, `set_created`, `torn_down` |
| Cleanup | `StartCleanup`, `CleanupNext` | `cleanup_stale` |
| Shutdown | `Signal`, `DestroyAll`, `Exit` | `run`, `destroy_all` |

### Properties

- `HostWithinLimits`: what runs on the host stays within every limit, whatever the images turn out to be.
- `OneDestroyer`: of the lifecycle, the DestroyRunner, the cleanup and shutdown, exactly one destroys a VM
  that is being destroyed: no two ever do, and none waits for a removal that nobody makes.
- `GoneWhenDestroyReturns`: also for the caller who waited for somebody else's destroy.
- `SlotsKept`: the tracker implements `SlotPool`: a VM is on the host only while its runner holds a
  slot, a runner gets a slot once, slots are taken only where there is room.
- `SlotFreed`, `ShutdownEnds`: liveness, below.

The first, third and fourth except VMs whose destroy failed: the code untracks those, frees their slot
and reports the error.

### Runs

| Run | Instance | Shows |
| --- | --- | --- |
| `vm_tracker` | 2 runners, 1 macOS VM in 2 VMs, images unknown at first, 1 external VM, 1 failing destroy | safety, refinement |
| `vm_live` | 2 runners, 2 VMs | `SlotFreed`, `ShutdownEnds` |
| `vm_shutdown` | 1 runner | violates `ShutdownAlwaysEnds` |

Two runners are enough for two creates to compete for the last slot, for a slot to be freed by a guest
that turns out to be Linux, and for cleanup and shutdown to have one VM waiting while another goes.
Four callers of destroy per VM are all there are; a second DestroyRunner waits for the first to return.
`MaxExternal` and `MaxFailures` are bounds. `vm_tracker` uses symmetry in names (a safety run). The
agent exits, so deadlock is not checked; `ShutdownEnds` is what rules out getting stuck.

**Fairness.** Weak, of every task's own steps: the backend answers, a wait that is over returns, the
event channel gets room for an ack, VMs get old and the cleanup's timer comes round, and `torn_down`
polls. Jobs need not end and no signal need come. `SlotFreed` thus rests on the cleanup of old VMs alone.

**Where code and docs differ.** `serve` reserves a slot, awaits `command_ack`, then spawns the
lifecycle. If the shutdown signal comes while the ack waits for room in the event channel, `run`'s
`select!` drops `serve` there. The entry stays Creating with no lifecycle to untrack it, and
`destroy_all` waits for its removal for ever, though "shutdown takes as long as the slowest one"
(`vm_agent/mod.rs:614`). `ShutdownEnds` holds for every other moment of the signal.

### Proved (`VmTrackerProofs.tla`)

For any runners, limits, images and guests, from `VmTrackerAssumption` (names are finite, limits
are naturals):

- `TypeCorrect`, `DestroyedByOne` (`OneDestroyer`), `LimitsHold` (`HostWithinLimits`),
  `GoneOnReturn` (`GoneWhenDestroyReturns`)
- `ImplementsSlotPool`: `Spec => Pool!Spec`, every step a step of the pool or a stutter

The invariant has five parts besides types. `Stages` ties a lifecycle's stage to its entry's state;
it is what lets a claim trust `"up"` to mean that the create is over. `Owners` says a claimed
entry is "destroying" and its claimant alone, `Destroyers` the converse: a "destroying" entry has a
claimant or a lifecycle that is still to find it so, and whoever waits, waits on such an entry or on one
that is gone. `Hosted` says that a VM on the host has an entry which
counts at least what the VM really counts against, until it is destroyed. `Within` is the tracker's own count. `LimitsHold` follows
from the last two; `GoneOnReturn` from `Hosted` after the step, since a destroy returns only where
the entry is gone; the refinement from all of them.

`SlotFreed` and `ShutdownEnds` are model-checked only; `OneDestroyer` is what they ask of safety.

### Not modelled

`keep_failed_vms` (debugging: the agent exits and leaves the VM); the end of the command stream; a
second CreateRunner under a name already used; status reports; `start` and `run_job` apart from
how they end; statuses' `available_slots`. A backend's create that fails leaves nothing on the host.

## The parts

Each of the other modules is one part of the system that shares no state with the rest, or whose
rest is taken as an environment that may do anything the code lets it do. Conventions are those of
`Dispatch`: an await is a step boundary, a lock held across statements makes them one step, a call
over a network fails, or is cut off with its effect or without it.

| Module | State | Actions | Code |
| --- | --- | --- | --- |
| `Session` | a stream between an agent and the coordinator: both ends' tasks, what they have in hand, four bounded channels, the registry's lock | `SenderStart`, `SenderPush`; `TaskReads`, `TaskWrites`, `TaskCommand`, `TaskPing`, `TaskPush`; `Connect`, `Break`; `LoopReads`, `LoopEvent`, `LoopOut`, `LoopCommand`; `Serve`, `PutNote` | `agent_registry.rs` (`send_command`), `server.rs` (stream task), `runtime.rs`, `vm_agent/mod.rs` (`serve`) |
| `Registration` | one agent's entry, its connections and their stream tasks, grace timers, the admin's flag | `OpenConn`, `Register`, `LeaveLoop`, `EndStream`, `RemoveStale`, `GraceOver`, `ClaimFailover`, `Mark`, `Flag`, commands | `agent_registry.rs`, `server.rs`, `runtime.rs` |
| `Pools` | the fleet loop of fixed-capacity pools, records, an agent's reservations, statuses and capacity per limit | `TopUp`, `HandleEnd`; `AgentCreates`, `Ends`; `PushStatus`, `PongCopies`, `PongSends`, `SetCapacity`, `UpdateStatus`, `SettleReservations` | `fleet.rs`, `runner_state.rs`, `agent_registry.rs`, `runtime.rs` |
| `Drain` | the runners of an agent in maintenance: at the forge, on the agent, in the loop's lists | `DrainAsk`, `TryDelete`, `SendDestroy` and the rest of `DrainLoop`; runners boot, register, take jobs, end | `fleet.rs`, `agent_registry.rs`, `github.rs`, `vm_agent/mod.rs` |
| `Enroll` | registration tokens, agent records, certificates, hosts with their files | `CallRegister`, `ConsumeToken`, `StoreAgent`, `SaveCert`, `SaveKey`; `OpenStream`, `ReadAgent`, `UpdateAndRegister`; `RevokeAgent`, `PurgeRevoked`, `DeleteToken`, expiry | `auth.rs`, `server.rs`, `connector.rs`, `certs.rs` |
| `RunnerCache` | an agent's copies of runner releases, the version last read, the lock of a platform, jobs | `JobStep` (look-up, check, download, rename, prune, upload), `TearDown`, `RestartAgent`, `Rot` | `runner_cache.rs` |
| `LogPipeline` | the agent's buffer of log lines, the batch in an upload, the coordinator's store | `OnEvent`, `TakeBatch`, `Store`, `BatchDone`, `BatchFailed`, `Disable`, `EndUploads` | `log_upload.rs`, `agent_logs.rs` |
| `ForgeScan` | jobs and runs at the forges, queue rows, a scan with its lists and pages | `ScanStep` (pages, jobs, scopes, checks of what a scan missed), webhooks; jobs move meanwhile | `fleet.rs`, `github.rs`, `forgejo.rs`, `webhook.rs` |
| `HostVms` | the VMs under each name or VMID of a host, other people's among them; what the agent believes | `AgentStep` (create, start, destroy, sweep), `CountStep` (external VMs) | each agent's `backend.rs`, `libvirt.rs`, `kuiper-proxmox-api` |
| `Labels` | a job's labels, an agent's image mappings, the coordinator's sets; `SelectImage` and `SelectedSet` are functions of these | `AddMapping` enumerates configurations | `labels.rs`, `agent_registry.rs` |
| `GuestRun` | one job in its VM: the agent's next step, the SSH session, the runner, the status file | `SshStep` (connect, detect, prepare, install, run or poll), `RunnerEnds`, `LinkBreaks`, `VmDies` | `guest.rs`, both `ssh.rs`, `github_runner.rs`, `forgejo_runner.rs` |
| `RunHistory` | the rows of a job and its runners behind the metrics page | every writer: webhooks, passes, events, removals, pruning | `metrics/`, `webhook.rs`, `fleet.rs` |
| `Summary` | the rows a load of that page has read (sets: their order is not used), and the numbers it makes of them, percentiles by nearest rank | `Clock`, `LoadRuns`, `LoadJobs`, writers meanwhile | `metrics/summary.rs` |
| `Accounts` | admins, their sessions and API tokens, forms under way | log-in, the forms of the admin pages, the command line | `admin/` |
| `Setup` | CA, server certificate, config and token files, a run of `setup` or `ca` | each file opened and written, run ends or is killed, certificates expire | `setup.rs`, `auth.rs`, `config.rs`, `tls.rs`, `main.rs` |
| `Updates` | releases, the coordinator's poll, an updater and the binary on its host | pages of the poll; download, trial, copy, swap, restart | `agent_updates.rs`, tart `update.rs` |
| `GithubApp` | the app's installations, the client's two caches, requests | look-up, list, store, mint, cache, use | `github.rs` |
| `Diagnostics` | an agent's log lines and failures as kept, a reader, prunes | `InsertBatch`, `Trim`, `ReadPage`; `Insert`, `PruneFailures` | `agent_logs.rs`, `agent_failures.rs` |

`PROJECT.json` has the files and lines of each definition.

### One run for many parts

Parts that share no state need no common state space, only a common run. `MCParts` and `MCLive` put
them side by side: the variable `unit` says whose behaviour this is, a step is a step of that
part, and the others stay in one initial state (`Pinned`, `Alone`). The states add up instead of
multiplying, and a property of one part is checked on all behaviours of that part and on nothing
else. There is one run per kind of question: what must never happen, and what must happen in the
end under fairness. This is not a composition: nothing is claimed of two of these parts together.

### Safety: run `parts`

- `RoomForAll` (`Session`): a command task holding the registry's read lock waits on the server task
  that wants to write, or the agent's command loop on its session loop, only if more commands are
  under way at once than a channel holds (32 in the code).
- `ReconnectSound` (`Registration`): an agent has the availability its admin last set, though entries
  come and go with reconnects; a failover takes no runner that was made for the new connection.
- `PoolsWithin` (`Pools`): an agent is not asked for more VMs than it has slots, or than a limit leaves
  beside VMs it does not manage; a pool has no more runners than its size.
- `EnrollSound` (`Enroll`): a token is exchanged once; a revocation is not undone by the stream that is
  being admitted.
- `InstalledGood` (`RunnerCache`): a VM's runner comes from a whole copy with its checksum, whatever is
  downloaded, pruned, torn down or cut off meanwhile, unless it goes bad after its check.
- `ScanSpares` (`ForgeScan`): a scan drops a job's row only if the forge says that it is not queued,
  whatever pages and calls missed.
- `OthersSpared` (`HostVms`): the agent stops and deletes its own VMs only, also when commands that
  timed out take effect late and names and VMIDs are used again.
- `SetAgreed` (`Labels`): the set the coordinator counts a runner against is the image the agent picks.
- `HistoryHonest` (`RunHistory`), `SummaryRight` (`Summary`): the rows keep the first known end of a
  runner and what was heard of a job, in whatever order it was written; the page accounts for every
  run it read.
- `AdminRemains` (`Accounts`): once there is an admin there always is one.
- `SetupSound` (`Setup`): a setup that finishes leaves what `serve` and the agents need, whichever runs
  were cut short before; it replaces no CA that agents trust and loses no config.
- `UpdatesSafe` (`Updates`): the poll learns of each release published before it began; the updater
  leaves a binary that runs, and goes back only to a pinned version.
- `AppSound` (`GithubApp`): a token outlives the request it is used for; a request is refused only if
  GitHub listed no installation.
- `DiagnosticsSound` (`Diagnostics`): paging back shows every line that stayed; a failure goes only for
  newer ones of its agent.

Bounds (`parts.cfg`), per part, and why they are enough. Two of everything that competes: commands
beside an earlier one whose ack is due, over channels of one; connections, disconnects and setters;
names in two pools that share a limit of two with an outside VM; hosts, tokens, ids; cache jobs and
versions; VM names with one VMID; users and forms; app requests and installations; runs of setup.
A GitHub and a Forgejo job over two scopes with pages of one, one call that fails and one move
between lists, so that a job can be missed on each kind of list and then asked about. Two labels,
images and mappings are every way in which a first match, a default and a base label can disagree.
One runner of one job has all writers of its rows. Summary, caches and releases have three time
steps or versions, as many as a window with an edge on either side takes. Every such constant is a
guard of the action it bounds. Parts may stop (bounds are reached, jobs and updates are over), so
deadlock is not checked here or in `live`; that tasks do not get stuck is what `live` checks.

### Liveness: run `live`

- `SessionDelivers` (`Session`): a command that is waiting is sent or fails and one that reached the
  agent is served, but for the three named cycles (`LockCycle`, `LinkCycle`, `AgentCycle`): there is
  no other way to be stuck. Acks and events never overtake each other, also across reconnects.
- `DrainSpares`, `DrainEnds` (`Drain`): no VM is destroyed while its runner has a job; an idle runner of
  an agent in maintenance goes, also when a `DestroyRunner` is lost.
- `InstallEnds` (`RunnerCache`): no job waits for ever for the download it shares.
- `LinesAccounted`, `LinesArrive` (`LogPipeline`): a line is stored, waiting, refused or counted as
  dropped; it does not stay in the buffer of a session that lasts.
- `QueuedJobFound` (`ForgeScan`): a job that stays queued gets a row, on whichever page it is.
- `LeakCounted` (`HostVms`, tart): a VM the agent gave up but that runs on is counted as an external one.
- `DoneMeansRun`, `DeadVmNoticed` (`GuestRun`): a job that counts as done was installed, set up, run and
  exited with 0, unless the agent missed a command's end; a dead VM ends its job.

Bounds (`live.cfg`): channels of one, two commands and one earlier; one pool runner; two cache jobs; a
buffer of three lines, batches of two, four lines over two sessions, so that the buffer overflows
while a batch is out; two GitHub jobs on pages of one; one VM.

Fairness. A behaviour is one part's, so one condition carries an action of each (`Fair1`–`Fair4`,
`FairJob`, `Strong1`–`Strong4` in `MCLive`, with the reason for each). Weakly fair: tasks that can go
on, tickers and timers, an agent's reconnect, the uploader of a session, calls and steps that have
a timeout. Strongly fair: a branch of a `select!` that is ready again and again, and the calls that
do not fail for ever (asking and deleting at the forge, sending a destroy, storing a batch,
`tart list`). No job has to end, no webhook has to come, no VM has to die, no stream has to break
or to last.

### Proved

For every value of the constants, from the `ASSUME` of each module alone (the type of its
constants; finite sets where something is counted):

| Part | Theorem | What carries it |
| --- | --- | --- |
| `Session` | `NoCycleWithinCap`: `RoomForAll` | `Once`: a command is at one place on its way from its task to `serve`, so a full channel and one more who waits are more than `Cap` commands |
| `Session` | `NotesKeepOrder`: `NotesInOrder`, the action property in `SessionDelivers` | `OnePlace`: an ack or event is at one place between `serve` and the coordinator; `AckLater`: a command not yet served has no ack; `IdleOK`: a loop that reads has nothing in hand, a stream that is over nothing to read |
| `Registration` | `ReconnectKeeps`: `ReconnectSound` | `Numbered`: an agent that is offline has no runner made after its last disconnect; `Settings`: between a setter's two steps the set, and otherwise the entry, is right |
| `Enroll` | `EnrolledOnce`: `EnrollSound` | `Spent`: a token that was exchanged has no row; `Admitted` |
| `Pools` | `PoolsStayWithin`: `PoolsWithin` | `Fresh`, `Stages`, `Shown`: a runner is reserved until a status that lists its VM is counted; `Within`: all booked runners fit, per limit too; `PoolRoom`: what the loop still wants fits in the pool |
| `Drain` | `BusySpared`: `DrainSpares` | `Doomed`: a runner that is unregistered, over, or past its boot grace without ever registering gets no job any more; `Answer`, `Sent`: only such ones are on the way to be destroyed |
| `GuestRun` | `DoneWasRun`: `DoneMeansRun` | `Ready`: what a step takes for done was done; `Running`: the status file says "ok" only of this run's program |
| `RunnerCache` | `CopiesGood`: `InstalledGood` | `CacheInv`: one job downloads (`Slotted`); what it is about to rename is whole, or a late rename has taken it (`PartWhole`); a checked copy is good unless spoiled since (`CheckedGood`) |
| `RunnerCache` | `SlotGivenBack`: `SlotInUse`, what `InstallEnds` asks of safety | the same `CacheInv` |
| `HostVms` | `OtherVmsSpared`: `OthersSpared` | `HostInv`: only libvirt's names may be other people's (`NamesKept`); a Proxmox VM that was cloned stays under its VMID until the agent deletes it (`ClonedKept`) |
| `LogPipeline` | `LinesCounted`: `LinesAccounted` | `LogInv`: lost lines are at most those dropped, counted, and counted in the batch in flight; what an answer "ok" is for is stored |
| `Updates` | `UpdatesHeld`: `UpdatesSafe` | `PollInv`: a release of the start was told or is on a page still to come, also when new ones push it back; `UpdaterInv`: a version on its way is newer or pinned, and what is renamed is whole |
| `RunHistory` | `HistoryTold`: `HistoryHonest` | `ToldInv`: only writes to a row that is there are heard; `RunInv`: the clock of each phase and all that was told by then (`ClockInv`), the row and its first outcome (`RowInv`) |
| `Accounts` | `AdminsRemain`: `AdminRemains` | the check and the deletion are one statement, so each step carries itself |
| `Setup` | `SetupHolds`: `SetupSound` | `SetupInv`: the kind of run (`SetupRun`), a CA's key and certificate together (`CaInv`), the files at each step (`KeyStepsInv`), the config (`ConfigInv`), the server certificate (`GoodInv`) |
| `Diagnostics` | `DiagnosticsKept`: `DiagnosticsSound` | `ReaderInv`: a line that stayed was shown or is before the page's mark; `FailuresInv`: a failure that went has `MAX_PER_AGENT` newer ones of its agent, whose inserts are behind them |
| `ForgeScan` | `ScansSpare`: `ScanSpares` | `ScanInv`: the scan is at a scope there is, and what it holds is listed by its forge |
| `GithubApp` | `AppStaysSound`: `AppSound` | `AppInv`: a token at hand had the buffer left when it was taken and no more has gone by (`TokensFresh`); an account not in the cache was absent from the request's own listing (`ListingKept`) |
| `Labels` | `SetsAgree`: `SetAgreed` | `FirstThere`, `FirstOnly`: what the first match is, on both sides |
| `Summary` | `SummaryHolds`: `SummaryRight` | `SummaryInv`: finitely many rows, each asked for within the window; an order of a finite set's values exists (`OrderThere`) and the rank taken of it fits (`RankFits`); sets of rows told apart by a key add up to the whole (`SharesAddUp`); `BucketsCover`: each time of the window is in exactly one bar, by division with remainder (`DivIs`) |

Where a type theorem is worth naming it is listed too (`...TypeCorrect`). `PoolsWithin`, `SetupSound`
and the first part of `UpdatesSafe` are furthest from inductive. In `Pools` the same VM is a reservation, then both, then a
line of a status that lies in the stream, then a line of the counted one, and the proof follows it
through (`WithinKeeps`, `ShownKeeps`). In `Setup` every file is torn between its opening and its
writing, so the invariant says what each of the steps may find; TLC checked it for two runs and three
keys before it was proved.

Every invariant and action property of the parts' runs is a theorem. Model-checked only is liveness,
which is beyond the prover: `SendEnds` and `CommandServed` in `SessionDelivers`, `DrainEnds`,
`InstallEnds`, `LinesArrive`, `QueuedJobFound`, `LeakCounted` and `DeadVmNoticed`. An order on a page's
values is chosen, not computed (`Sorted`), so percentiles need no recursion and no induction over data.

### What the code lets happen

Seen while modelling, and excepted by name in the properties above where they bear on them. No
doc says otherwise, so they are not listed as divergences.

- Two overlapping `set_unavailable` calls can leave the entry with the earlier one's value (`overlapped`).
- A pong's copy of the status that is sent after a newer status frees slots that are taken (`overtaken`).
- A count of a pool's runners that fails in the database is taken for 0 and overfills it (`miscounted`).
- A command whose channel closes with no exit status counts as exit 0 (`answerLost`).
- A stream admitted before its agent was revoked goes on until it ends.
- Log lines whose answer was lost are stored twice.
- A cancel webhook for a job that has no row yet is not kept.
- A session stored after its user was deleted stays until it expires.
- Webhook mode without a forge passes `setup`, and `serve --dry-run` then refuses the config.
- On Proxmox, a VM whose name cannot be read is deleted by its number, which may be another's if
  the agent's VM was removed by hand.

### Not modelled

Cryptography, TLS and signatures; what is parsed, formatted or shown; script texts; disk images and
networks; back-off times. `remove_runners_for_agent` (used only without a fleet manager); token and
session clean-up (they delete what is over); the pages, JSON API and management socket that only
read or forward. Two setups in the same second; two updaters at once; a `sudo install` that is cut
off. The agent programs' own main, config, install and setup commands: sequential I/O around the
library, with no state another step relies on.

## What is left

- `Session` composed with the `serve` of `VmTracker`, whose channels each of them has its own way.
- Polling mode and jobs without a repository in `Dispatch` (`ForgeScan` has how polling finds jobs).

## Running it

```
tlc -workers 2 -config dispatch.cfg MCDispatch     # each .cfg with the module PROJECT.json names
tlc -workers 2 -config parts.cfg MCParts           # the parts' safety
tlc -workers 2 -config live.cfg MCLive             # and liveness
tlapm DispatchProofs.tla                           # all obligations; likewise every *Proofs.tla
```

The longest runs are `dispatch`, `parts`, `live` and `vm_live`, each about two to two and a half
minutes on two cores. `DispatchProofs`, `HostProofs` and `RecordsProofs` take two to three minutes
each, each other proof module half of that or less. Run them one at a time: some leaves come close to
the provers' time limit on a busy machine.
Operators commented "Mutant of" are not part of the model: each changes one definition the way a
plausible bug would, and `PROJECT.json` says which property then fails.
