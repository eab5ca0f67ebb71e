------------------------------ MODULE Dispatch ------------------------------
(***************************************************************************)
(* On-demand dispatch in kuiper-forge: how a job queued on a forge gets    *)
(* one runner VM on one agent, and how the pending row, the runner record, *)
(* the slot reservation and the VM are brought back in step when the       *)
(* command fails, the agent drops, the VM dies or the coordinator          *)
(* restarts.                                                               *)
(*                                                                         *)
(* Actors: the fleet loop (one task, one thing at a time: `at`), a command *)
(* task per runner, a recovery watcher or cleanup task per runner, the     *)
(* agents and their streams, the disconnect timers and the orphan sweep,   *)
(* the forge and its webhooks.                                             *)
(*                                                                         *)
(* Time is abstract: a timer may fire at any moment after it is armed.     *)
(* Webhook provisioning mode, every job knows its repository, the database *)
(* answers.                                                                *)
(***************************************************************************)
EXTENDS Naturals, FiniteSets, Sequences

CONSTANTS
  Jobs,        \* JobKeys
  Agents,      \* agent ids
  Runners,     \* runner (= VM) names; a name is fresh again once nothing mentions it
  Serves,      \* [Jobs -> SUBSET Agents]: whose labels and runner kinds match the job
  MaxVms,      \* VMs an agent runs at once
  MaxRetries,  \* MAX_RETRIES
  EventCap,    \* capacity of the fleet's runner event channel
  IdleJobs,    \* jobs of forges whose idle job-bound runners are torn down
  Faults,      \* what may go wrong: commands time out, answers come later than the grace
               \* period for a missing VM, agents drop, the coordinator restarts
  MaxFaults,   \* bound: how often that happens
  None         \* no job, no agent, no runner

ASSUME DispatchAssumption ==
  /\ IsFiniteSet(Runners)
  /\ Serves \in [Jobs -> SUBSET Agents]
  /\ MaxVms \in Nat \ {0}
  /\ MaxRetries \in Nat \ {0}
  /\ EventCap \in Nat \ {0}
  /\ IdleJobs \subseteq Jobs
  /\ Faults \subseteq {"timeout", "late", "drop", "crash"}
  /\ MaxFaults \in Nat
  /\ None \notin Jobs \cup Agents \cup Runners

VARIABLES
  forgeStatus, \* [Jobs -> STRING]: the job on its forge
  pending,     \* rows of pending_jobs
  retry,       \* their retry_count
  failed,      \* their failed_agents
  recorded,    \* rows of the runners table
  jobOf,       \* their job_id
  host,        \* their agent_id
  online,      \* agents in the registry
  reserved,    \* [Agents -> SUBSET Runners]: slot reservations
  listed,      \* [Agents -> SUBSET Runners]: VMs in the agent's latest status
  task,        \* [Runners -> STRING]: the task that sent CreateRunner
  cleaner,     \* [Runners -> STRING]: recovery watcher or cleanup task
  vm,          \* [Runners -> STRING]: the VM on its agent
  outbox,      \* [Runners -> Seq]: the agent's events on their way to the coordinator
  destroys,    \* runners with a DestroyRunner on its way to the agent
  missing,     \* missing_since: recorded runners absent from their agent's status
  graces,      \* agents with a disconnect timer that may still claim the failover
  failing,     \* runners a claimed failover still has to send an event for
  events,      \* the runner event channel
  recoveries,  \* the recovery channel
  started,     \* idle.started
  tearing,     \* idle.tearing_down
  tornDown,    \* idle.torn_down
  backoff,     \* jobs in idle.backoff whose delay isn't up
  at,          \* where the fleet loop is
  rows,        \* pending rows it read and has not looked at yet
  checks,      \* runners the idle check listed and has not looked at yet
  cur,         \* the job, agent and runner it is working on
  faults       \* how often that happened

queueVars == <<pending, retry, failed>>
runnerVars == <<recorded, jobOf, host>>
slotVars == <<reserved, listed>>
agentVars == <<vm, outbox, destroys>>
deathVars == <<missing, graces, failing>>
chanVars == <<events, recoveries>>
idleVars == <<started, tearing, tornDown, backoff>>
fleetVars == <<at, rows, checks, cur>>

vars == <<forgeStatus, queueVars, runnerVars, online, slotVars, task, cleaner,
          agentVars, deathVars, chanVars, idleVars, fleetVars, faults>>

-----------------------------------------------------------------------------
(* Types *)

NoCur == [job |-> None, agent |-> None, runner |-> None]
Cur == [job : Jobs \cup {None}, agent : Agents \cup {None}, runner : Runners \cup {None}]
Row == [job : Jobs, retry : Nat, failed : SUBSET Agents]
\* Failed stands for Failed and Destroyed: both end the attempt and are handled alike.
EventTypes == {"Completed", "Failed"}
Event == [runner : Runners, type : EventTypes]
Recovery == [agent : Agents, vms : SUBSET Runners]

TypeOK ==
  /\ forgeStatus \in [Jobs -> {"none", "queued", "running", "done"}]
  /\ pending \subseteq Jobs
  /\ retry \in [Jobs -> Nat]
  /\ failed \in [Jobs -> SUBSET Agents]
  /\ recorded \subseteq Runners
  /\ jobOf \in [Runners -> Jobs \cup {None}]
  /\ host \in [Runners -> Agents \cup {None}]
  /\ online \subseteq Agents
  /\ reserved \in [Agents -> SUBSET Runners]
  /\ listed \in [Agents -> SUBSET Runners]
  /\ task \in [Runners -> {"none", "sent", "rejected", "error", "charge", "abandon"}]
  /\ cleaner \in [Runners -> {"none", "watching", "removing"}]
  /\ vm \in [Runners -> {"none", "asked", "live"}]
  /\ outbox \in [Runners -> Seq(EventTypes)]
  /\ destroys \subseteq Runners
  /\ missing \subseteq Runners
  /\ graces \subseteq Agents
  /\ failing \subseteq Runners
  /\ events \in Seq(Event)
  /\ recoveries \in Seq(Recovery)
  /\ started \subseteq Runners
  /\ tearing \subseteq Runners
  /\ tornDown \subseteq Runners
  /\ backoff \subseteq Jobs
  /\ at \in {"idle", "pass", "reserve", "create", "settle", "check"}
  /\ rows \subseteq Row
  /\ checks \subseteq Runners
  /\ cur \in Cur
  /\ faults \in 0 .. MaxFaults

Init ==
  /\ forgeStatus = [j \in Jobs |-> "none"]
  /\ pending = {}
  /\ retry = [j \in Jobs |-> 0]
  /\ failed = [j \in Jobs |-> {}]
  /\ recorded = {}
  /\ jobOf = [r \in Runners |-> None]
  /\ host = [r \in Runners |-> None]
  /\ online = {}
  /\ reserved = [a \in Agents |-> {}]
  /\ listed = [a \in Agents |-> {}]
  /\ task = [r \in Runners |-> "none"]
  /\ cleaner = [r \in Runners |-> "none"]
  /\ vm = [r \in Runners |-> "none"]
  /\ outbox = [r \in Runners |-> <<>>]
  /\ destroys = {} /\ missing = {} /\ graces = {} /\ failing = {}
  /\ events = <<>> /\ recoveries = <<>>
  /\ started = {} /\ tearing = {} /\ tornDown = {} /\ backoff = {}
  /\ at = "idle" /\ rows = {} /\ checks = {} /\ cur = NoCur
  /\ faults = 0

-----------------------------------------------------------------------------
(* What the actors read *)

\* Mutant of RunnersFor: only runners on connected agents count.
RunnersForOnline(j) == {r \in recorded : jobOf[r] = j /\ host[r] \in online}

\* runners_for_job: the records bound to a job.
RunnersFor(j) == {r \in recorded : jobOf[r] = j}

RecordedOn(a) == {r \in recorded : host[r] = a}

\* The VMs an agent tracks, and reports in its status.
Live(a) == {r \in Runners : host[r] = a /\ vm[r] = "live"}

\* available_capacity: VMs in the latest status and reservations both take slots.
Used(a) == Cardinality(listed[a]) + Cardinality(reserved[a])

\* select_agent_for_kind: a connected agent that matches and has a free slot, one
\* that has not failed the job first, then the one with the most free slots.
Candidates(j) == {a \in online \cap Serves[j] : Used(a) < MaxVms}
Best(j, avoid) ==
  LET fresh == Candidates(j) \ avoid
      pool == IF fresh # {} THEN fresh ELSE Candidates(j)
  IN  {a \in pool : \A b \in pool : Used(a) <= Used(b)}

\* A name nothing in the system mentions any more stands for a new one.
Fresh(r) ==
  /\ r \notin recorded \cup destroys \cup missing \cup failing
  /\ r \notin started \cup tearing \cup tornDown \cup checks
  /\ task[r] = "none" /\ cleaner[r] = "none" /\ vm[r] = "none" /\ outbox[r] = <<>>
  /\ \A a \in Agents : r \notin reserved[a] \cup listed[a]
  /\ \A i \in 1 .. Len(events) : events[i].runner # r
  /\ \A i \in 1 .. Len(recoveries) : r \notin recoveries[i].vms
  /\ cur.runner # r

\* get_all_pending_jobs, as the rows one pass works from.
Rows == {[job |-> j, retry |-> retry[j], failed |-> failed[j]] : j \in pending}

\* try_send of several events in some order: what finds the channel full is dropped.
Orders(S) == {f \in [1 .. Cardinality(S) -> S] : \A i, k \in DOMAIN f : f[i] = f[k] => i = k}
TrySend(batch) ==
  \E f \in Orders(batch) :
    events' = SubSeq(events \o [i \in DOMAIN f |-> [runner |-> f[i], type |-> "Failed"]], 1,
                     IF Len(events) + Len(f) < EventCap THEN Len(events) + Len(f) ELSE EventCap)

-----------------------------------------------------------------------------
(* Pieces of handlers *)

\* remove_job, which does nothing for a job without a row. The next row starts over.
DropRows(S) ==
  /\ pending' = pending \ S
  /\ retry' = [j \in Jobs |-> IF j \in S THEN 0 ELSE retry[j]]
  /\ failed' = [j \in Jobs |-> IF j \in S THEN {} ELSE failed[j]]

\* increment_retry_count of a row that stays.
Increment(j, who) ==
  /\ retry' = [retry EXCEPT ![j] = @ + 1]
  /\ failed' = [failed EXCEPT ![j] = @ \cup who]
  /\ UNCHANGED pending

\* Mutant of Blamed: the agent the loop is working on.
BlamedCur(r) == {cur.agent}

\* The agent a failed runner is held against.
Blamed(r) == {host[r]}

\* The fleet loop charges a failed attempt: increment, and abandon at the limit.
ChargeRetry(j, who) ==
  \/ j \notin pending /\ UNCHANGED queueVars
  \/ j \in pending /\ retry[j] + 1 < MaxRetries /\ Increment(j, who)
  \/ j \in pending /\ retry[j] + 1 >= MaxRetries /\ DropRows({j})

Fault(kind) == kind \in Faults /\ faults < MaxFaults /\ faults' = faults + 1

\* release_slot: nothing to do for an agent that is not connected.
Release(r) == reserved' = [reserved EXCEPT ![host[r]] = @ \ {r}]

\* remove_runner, which forgets since when the VM was missing.
RemoveRecord(r) == recorded' = recorded \ {r} /\ missing' = missing \ {r}

\* process_pending_jobs reads the rows and starts on them.
BeginPass ==
  /\ rows' = Rows'
  /\ at' = IF pending' = {} THEN "idle" ELSE "pass"
  /\ cur' = NoCur
  /\ UNCHANGED checks

\* On to the next row, or back to the select.
NextRow(rest) ==
  /\ rows' = rest
  /\ at' = IF rest = {} THEN "idle" ELSE "pass"
  /\ cur' = NoCur
  /\ UNCHANGED checks

-----------------------------------------------------------------------------
(* The fleet loop: a pass over the pending rows *)

\* The ticker, a notify, or NewJobAvailable. A notify that finds its channel full is
\* dropped; the ticker comes anyway.
StartPass ==
  /\ at = "idle" /\ pending # {}
  /\ UNCHANGED <<forgeStatus, queueVars, runnerVars, online, slotVars, task, cleaner,
                 agentVars, deathVars, chanVars, idleVars, faults>>
  /\ BeginPass

AbandonRow(row) ==
  /\ at = "pass" /\ row \in rows
  /\ row.retry >= MaxRetries
  /\ DropRows({row.job})
  /\ NextRow(rows \ {row})
  /\ UNCHANGED <<forgeStatus, runnerVars, online, slotVars, task, cleaner,
                 agentVars, deathVars, chanVars, idleVars, faults>>

\* Backing off, already served, or no agent available. (Or the model is out of names.)
SkipRow(row) ==
  /\ at = "pass" /\ row \in rows
  /\ row.retry < MaxRetries
  /\ \/ row.job \in backoff \/ RunnersFor(row.job) # {} \/ Candidates(row.job) = {}
     \/ \A r \in Runners : ~Fresh(r)
  /\ NextRow(rows \ {row})
  /\ UNCHANGED <<forgeStatus, queueVars, runnerVars, online, slotVars, task, cleaner,
                 agentVars, deathVars, chanVars, idleVars, faults>>

SelectAgent(row) ==
  /\ at = "pass" /\ row \in rows
  /\ row.retry < MaxRetries
  /\ row.job \notin backoff
  /\ RunnersFor(row.job) = {}
  /\ \E r \in Runners : Fresh(r)
  /\ \E a \in Best(row.job, row.failed) : cur' = [job |-> row.job, agent |-> a, runner |-> None]
  /\ rows' = rows \ {row} /\ at' = "reserve"
  /\ UNCHANGED <<forgeStatus, queueVars, runnerVars, online, slotVars, task, cleaner,
                 agentVars, deathVars, chanVars, idleVars, checks, faults>>

ReserveSlot(r) ==
  /\ at = "reserve"
  /\ cur.agent \in online /\ Used(cur.agent) < MaxVms
  /\ Fresh(r)
  /\ reserved' = [reserved EXCEPT ![cur.agent] = @ \cup {r}]
  /\ cur' = [cur EXCEPT !.runner = r] /\ at' = "create"
  /\ UNCHANGED <<forgeStatus, queueVars, runnerVars, online, listed, task, cleaner, agentVars,
                 deathVars, chanVars, idleVars, rows, checks, faults>>

\* The agent left or filled up since it was selected.
ReserveFails ==
  /\ at = "reserve"
  /\ cur.agent \notin online \/ Used(cur.agent) >= MaxVms
  /\ ChargeRetry(cur.job, {})
  /\ NextRow(rows)
  /\ UNCHANGED <<forgeStatus, runnerVars, online, slotVars, task, cleaner, agentVars,
                 deathVars, chanVars, idleVars, faults>>

ReleaseCur == reserved' = [reserved EXCEPT ![cur.agent] = @ \ {cur.runner}]

\* The forge no longer has the job queued.
JobGone ==
  /\ at = "create"
  /\ forgeStatus[cur.job] # "queued"
  /\ ReleaseCur
  /\ DropRows({cur.job})
  /\ NextRow(rows)
  /\ UNCHANGED <<forgeStatus, runnerVars, online, listed, task, cleaner, agentVars,
                 deathVars, chanVars, idleVars, faults>>

\* create_job_runner fails on the forge.
JitFails ==
  /\ at = "create"
  /\ ReleaseCur
  /\ ChargeRetry(cur.job, {})
  /\ NextRow(rows)
  /\ UNCHANGED <<forgeStatus, runnerVars, online, listed, task, cleaner, agentVars,
                 deathVars, chanVars, idleVars, faults>>

\* Queued, or the forge did not say: the single-use runner is registered and recorded, and a
\* task spawned to send the command, which fails at once when the agent is gone.
CreateRunner ==
  LET r == cur.runner IN
  /\ at = "create"
  /\ recorded' = recorded \cup {r}
  /\ jobOf' = [jobOf EXCEPT ![r] = cur.job]
  /\ host' = [host EXCEPT ![r] = cur.agent]
  /\ \/ /\ cur.agent \in online
        /\ task' = [task EXCEPT ![r] = "sent"]
        /\ vm' = [vm EXCEPT ![r] = "asked"]
     \/ /\ cur.agent \notin online
        /\ task' = [task EXCEPT ![r] = "error"]
        /\ UNCHANGED vm
  /\ NextRow(rows)
  /\ UNCHANGED <<forgeStatus, queueVars, online, slotVars, cleaner, outbox, destroys,
                 deathVars, chanVars, idleVars, faults>>

-----------------------------------------------------------------------------
(* The task that sends CreateRunner *)

\* The agent took it: that only ends the wait.
RecvAck(r) ==
  /\ task[r] = "sent" /\ vm[r] # "asked"
  /\ task' = [task EXCEPT ![r] = "none"]
  /\ UNCHANGED <<forgeStatus, queueVars, runnerVars, online, slotVars, cleaner, agentVars,
                 deathVars, chanVars, idleVars, fleetVars, faults>>

\* No answer in time: the slot is released, whatever the agent makes of the command.
CommandTimeout(r) ==
  /\ task[r] = "sent" /\ Fault("timeout")
  /\ task' = [task EXCEPT ![r] = "error"]
  /\ Release(r)
  /\ UNCHANGED <<forgeStatus, queueVars, runnerVars, online, listed, cleaner, agentVars,
                 deathVars, chanVars, idleVars, fleetVars>>

\* A rejected runner is taken off its forge, then off the records; the job is not charged.
RemoveRejected(r) ==
  /\ task[r] = "rejected"
  /\ RemoveRecord(r)
  /\ task' = [task EXCEPT ![r] = "none"]
  /\ UNCHANGED <<forgeStatus, queueVars, jobOf, host, online, slotVars, cleaner, agentVars,
                 graces, failing, chanVars, idleVars, fleetVars, faults>>

\* A failed command loses its record first and charges the job after.
RemoveFailed(r) ==
  /\ task[r] = "error"
  /\ RemoveRecord(r)
  /\ task' = [task EXCEPT ![r] = "charge"]
  /\ UNCHANGED <<forgeStatus, queueVars, jobOf, host, online, slotVars, cleaner, agentVars,
                 graces, failing, chanVars, idleVars, fleetVars, faults>>

\* handle_command_failure: increment first, then remove the row at the limit.
ChargeFailed(r) ==
  LET j == jobOf[r] IN
  /\ task[r] = "charge"
  /\ \/ j \in pending /\ Increment(j, {host[r]})
     \/ j \notin pending /\ UNCHANGED queueVars
  /\ task' = [task EXCEPT ![r] =
       IF j \in pending /\ retry[j] + 1 >= MaxRetries THEN "abandon" ELSE "none"]
  /\ UNCHANGED <<forgeStatus, runnerVars, online, slotVars, cleaner, agentVars,
                 deathVars, chanVars, idleVars, fleetVars, faults>>

AbandonFailed(r) ==
  /\ task[r] = "abandon"
  /\ DropRows({jobOf[r]})
  /\ task' = [task EXCEPT ![r] = "none"]
  /\ UNCHANGED <<forgeStatus, runnerVars, online, slotVars, cleaner, agentVars,
                 deathVars, chanVars, idleVars, fleetVars, faults>>

-----------------------------------------------------------------------------
(* Agents *)

\* The tracker has a slot: the command is acked and its lifecycle spawned.
AgentAccept(r) ==
  /\ vm[r] = "asked"
  /\ Cardinality(Live(host[r])) < MaxVms
  /\ vm' = [vm EXCEPT ![r] = "live"]
  /\ UNCHANGED <<forgeStatus, queueVars, runnerVars, online, slotVars, task, cleaner, outbox,
                 destroys, deathVars, chanVars, idleVars, fleetVars, faults>>

\* The tracker is full. The waiting task releases the slot; one that gave up does not hear it.
AgentRefuse(r) ==
  /\ vm[r] = "asked"
  /\ Cardinality(Live(host[r])) >= MaxVms
  /\ vm' = [vm EXCEPT ![r] = "none"]
  /\ \/ /\ task[r] = "sent"
        /\ task' = [task EXCEPT ![r] = "rejected"]
        /\ Release(r)
     \/ task[r] # "sent" /\ UNCHANGED <<task, reserved>>
  /\ UNCHANGED <<forgeStatus, queueVars, runnerVars, online, listed, cleaner, outbox,
                 destroys, deathVars, chanVars, idleVars, fleetVars, faults>>

\* The lifecycle ends, well or not, and its VM is destroyed and reported.
EndVm(r, type) ==
  /\ vm[r] = "live"
  /\ vm' = [vm EXCEPT ![r] = "none"]
  /\ outbox' = [outbox EXCEPT ![r] = Append(@, type)]
  /\ UNCHANGED <<forgeStatus, queueVars, runnerVars, online, slotVars, task, cleaner, destroys,
                 deathVars, chanVars, idleVars, fleetVars, faults>>

\* A DestroyRunner arrives, behind the CreateRunner it is about: the killed lifecycle reports
\* Failed and the destroy Destroyed; for an untracked VM only the destroy reports.
AgentDestroy(r) ==
  /\ r \in destroys /\ vm[r] # "asked"
  /\ destroys' = destroys \ {r}
  /\ vm' = [vm EXCEPT ![r] = IF @ = "live" THEN "none" ELSE @]
  /\ outbox' = [outbox EXCEPT ![r] =
       @ \o IF vm[r] = "live" THEN <<"Failed", "Failed">> ELSE <<"Failed">>]
  /\ UNCHANGED <<forgeStatus, queueVars, runnerVars, online, slotVars, task, cleaner,
                 deathVars, chanVars, idleVars, fleetVars, faults>>

\* notify_runner_event: dropped when the channel is full. The ack went ahead of it.
DeliverEvent(r) ==
  /\ outbox[r] # <<>> /\ host[r] \in online /\ task[r] # "sent"
  /\ outbox' = [outbox EXCEPT ![r] = Tail(@)]
  /\ events' = IF Len(events) < EventCap
               THEN Append(events, [runner |-> r, type |-> Head(outbox[r])])
               ELSE events
  /\ UNCHANGED <<forgeStatus, queueVars, runnerVars, online, slotVars, task, cleaner, vm,
                 destroys, deathVars, recoveries, idleVars, fleetVars, faults>>

\* An agent (re)connects: no reservations, its status lists its VMs, commands of the last
\* session are lost, and with VMs the fleet is told to recover their runners.
Connect(a) ==
  /\ a \notin online
  /\ online' = online \cup {a}
  /\ listed' = [listed EXCEPT ![a] = Live(a)]
  /\ graces' = graces \ {a}
  /\ vm' = [r \in Runners |-> IF host[r] = a /\ vm[r] = "asked" THEN "none" ELSE vm[r]]
  /\ destroys' = {r \in destroys : host[r] # a}
  /\ recoveries' = IF Live(a) = {} THEN recoveries
                   ELSE Append(recoveries, [agent |-> a, vms |-> Live(a)])
  /\ UNCHANGED <<forgeStatus, queueVars, runnerVars, reserved, task, cleaner, outbox,
                 missing, failing, events, idleVars, fleetVars, faults>>

\* Its stream ends: unregistered, waiting commands fail, the grace timer starts. Events sent
\* into the dead session are lost; a dying agent loses everything.
Disconnect(a, dies, lost) ==
  /\ a \in online /\ Fault("drop")
  /\ lost \subseteq {r \in Runners : host[r] = a /\ outbox[r] # <<>>}
  /\ online' = online \ {a}
  /\ reserved' = [reserved EXCEPT ![a] = {}]
  /\ listed' = [listed EXCEPT ![a] = {}]
  /\ graces' = graces \cup {a}
  /\ task' = [r \in Runners |-> IF host[r] = a /\ task[r] = "sent" THEN "error" ELSE task[r]]
  /\ vm' = [r \in Runners |-> IF dies /\ host[r] = a THEN "none" ELSE vm[r]]
  /\ outbox' = [r \in Runners |->
       IF r \in lost \/ (dies /\ host[r] = a) THEN <<>> ELSE outbox[r]]
  /\ UNCHANGED <<forgeStatus, queueVars, runnerVars, cleaner, destroys, missing, failing,
                 chanVars, idleVars, fleetVars>>

-----------------------------------------------------------------------------
(* Finding runners whose VM is gone *)

\* What will say how the runner is doing is still under way.
UnderWay(r) ==
  vm[r] = "asked" \/ outbox[r] # <<>> \/ \E i \in 1 .. Len(events) : events[i].runner = r

\* Mutant of Settled: any listed VM settles them all.
SettledByAny(a) == IF Live(a) # {} THEN reserved[a] ELSE {}

\* settle_reservations: the reservations that are VMs now.
Settled(a) == reserved[a] \cap Live(a)

\* reconcile_reservations: the reservations no record and no step of the fleet loop explains.
Unrecorded(a) == reserved[a] \ (recorded \cup {cur.runner})

\* A status. `elapsed`: whose grace period is over - of recorded runners missing before, and of
\* reservations without a record. A reservation turns into a VM once the VM is listed.
StatusReport(a, elapsed) ==
  LET absent == RecordedOn(a) \ Live(a)
      due == absent \cap missing \cap elapsed
  IN
  /\ a \in online
  /\ elapsed \subseteq (absent \cap missing) \cup Unrecorded(a)
  /\ listed' = [listed EXCEPT ![a] = Live(a)]
  /\ reserved' = [reserved EXCEPT ![a] = (@ \ Settled(a)) \ (Unrecorded(a) \cap elapsed)]
  /\ missing' = ((missing \ (RecordedOn(a) \cap Live(a))) \cup absent) \ due
  /\ TrySend(due)
  /\ IF \E r \in due : UnderWay(r) THEN Fault("late") ELSE UNCHANGED faults
  /\ UNCHANGED <<forgeStatus, queueVars, runnerVars, online, task, cleaner, agentVars, graces,
                 failing, recoveries, idleVars, fleetVars>>

\* The disconnect timer: its runners are failed, one event at a time, each waiting for room.
ClaimFailover(a) ==
  /\ a \in graces /\ a \notin online
  /\ graces' = graces \ {a}
  /\ failing' = failing \cup RecordedOn(a)
  /\ UNCHANGED <<forgeStatus, queueVars, runnerVars, online, slotVars, task, cleaner, agentVars,
                 missing, chanVars, idleVars, fleetVars, faults>>

SendFailover(r) ==
  /\ r \in failing /\ Len(events) < EventCap
  /\ failing' = failing \ {r}
  /\ events' = Append(events, [runner |-> r, type |-> "Failed"])
  /\ UNCHANGED <<forgeStatus, queueVars, runnerVars, online, slotVars, task, cleaner, agentVars,
                 missing, graces, recoveries, idleVars, fleetVars, faults>>

\* Mutant of Orphans: those a status has already missed.
OrphansMissed(a) == RecordedOn(a) \cap missing

\* The records of an agent that is not connected.
Orphans(a) == IF a \in online THEN {} ELSE RecordedOn(a)

\* The orphan sweep, for an agent offline past its grace period.
OrphanSweep(a) ==
  /\ Orphans(a) # {}
  /\ TrySend(Orphans(a))
  /\ UNCHANGED <<forgeStatus, queueVars, runnerVars, online, slotVars, task, cleaner, agentVars,
                 deathVars, recoveries, idleVars, fleetVars, faults>>

\* handle_agent_recovery: a record whose VM was listed gets a watcher, any other is cleaned up.
HandleRecovery ==
  LET v == Head(recoveries) IN
  /\ at = "idle" /\ recoveries # <<>>
  /\ recoveries' = Tail(recoveries)
  /\ cleaner' = [r \in Runners |->
       IF r \in RecordedOn(v.agent)
       THEN IF r \in v.vms /\ cleaner[r] # "removing" THEN "watching" ELSE "removing"
       ELSE cleaner[r]]
  /\ UNCHANGED <<forgeStatus, queueVars, runnerVars, online, slotVars, task, agentVars,
                 deathVars, events, idleVars, fleetVars, faults>>

\* The watcher stops when the agent is gone or the record is; both ways it goes on to clean up.
WatcherExit(r) ==
  /\ cleaner[r] = "watching"
  /\ host[r] \notin online \/ r \notin recorded
  /\ cleaner' = [cleaner EXCEPT ![r] = "removing"]
  /\ UNCHANGED <<forgeStatus, queueVars, runnerVars, online, slotVars, task, agentVars,
                 deathVars, chanVars, idleVars, fleetVars, faults>>

\* Off its forge, then off the records.
CleanUp(r) ==
  /\ cleaner[r] = "removing"
  /\ cleaner' = [cleaner EXCEPT ![r] = "none"]
  /\ RemoveRecord(r)
  /\ UNCHANGED <<forgeStatus, queueVars, jobOf, host, online, slotVars, task, agentVars,
                 graces, failing, chanVars, idleVars, fleetVars, faults>>

-----------------------------------------------------------------------------
(* The fleet loop: handle_runner_event *)

TakeEvent(e) ==
  /\ at = "idle" /\ events # <<>> /\ e = Head(events)
  /\ events' = Tail(events)
  /\ started' = started \ {e.runner}

\* Mutant of Idled: only the runners whose end was reported before.
IdledBefore == tornDown

\* Runners whose events are no failures.
Idled == tearing \cup tornDown

\* The runner was torn down for idling a while ago.
LateEvent(e) ==
  /\ TakeEvent(e)
  /\ e.runner \in tornDown \ tearing
  /\ UNCHANGED <<forgeStatus, queueVars, runnerVars, online, slotVars, task, cleaner, agentVars,
                 deathVars, recoveries, tearing, tornDown, backoff, fleetVars, faults>>

\* The runner is being torn down for idling, however its end is reported: no charge.
IdledEvent(e) ==
  /\ TakeEvent(e)
  /\ e.runner \in tearing
  /\ tearing' = tearing \ {e.runner} /\ tornDown' = tornDown \cup {e.runner}
  /\ \/ e.runner \in recorded /\ Release(e.runner) /\ RemoveRecord(e.runner)
     \/ e.runner \notin recorded /\ UNCHANGED <<reserved, recorded, missing>>
  /\ UNCHANGED <<forgeStatus, queueVars, jobOf, host, online, listed, task, cleaner, agentVars,
                 graces, failing, recoveries, backoff, faults>>
  /\ BeginPass

\* Somebody removed the record before.
UntrackedEvent(e) ==
  /\ TakeEvent(e)
  /\ e.runner \notin Idled \cup recorded
  /\ UNCHANGED <<forgeStatus, queueVars, runnerVars, online, slotVars, task, cleaner, agentVars,
                 deathVars, recoveries, tearing, tornDown, backoff, faults>>
  /\ BeginPass

\* Mutant of JobIsDone: the runner completed, so its job did.
JobIsDoneAnyway(j) == TRUE

\* check_job_after_runner: the runner may have run a sibling job.
JobIsDone(j) == forgeStatus[j] # "queued"

\* The runner completed: unless its job is still queued, or the forge does not say, the row goes.
CompletedEvent(e) ==
  LET j == jobOf[e.runner] IN
  /\ TakeEvent(e)
  /\ e.type = "Completed" /\ e.runner \in recorded \ Idled
  /\ Release(e.runner)
  /\ \/ JobIsDone(j) /\ DropRows({j})
     \/ UNCHANGED queueVars
  /\ at' = "settle" /\ cur' = [NoCur EXCEPT !.runner = e.runner]
  /\ UNCHANGED <<forgeStatus, runnerVars, online, listed, task, cleaner, agentVars, deathVars,
                 recoveries, tearing, tornDown, backoff, rows, checks, faults>>

\* The runner failed or was destroyed: its job is charged, with the agent that reported it.
FailedEvent(e) ==
  /\ TakeEvent(e)
  /\ e.type = "Failed" /\ e.runner \in recorded \ Idled
  /\ Release(e.runner)
  /\ ChargeRetry(jobOf[e.runner], Blamed(e.runner))
  /\ at' = "settle" /\ cur' = [NoCur EXCEPT !.runner = e.runner]
  /\ UNCHANGED <<forgeStatus, runnerVars, online, listed, task, cleaner, agentVars, deathVars,
                 recoveries, tearing, tornDown, backoff, rows, checks, faults>>

HandleEvent(e) ==
  LateEvent(e) \/ IdledEvent(e) \/ UntrackedEvent(e) \/ CompletedEvent(e) \/ FailedEvent(e)

\* Only now is the record removed and the queue looked at.
SettleEvent ==
  /\ at = "settle"
  /\ RemoveRecord(cur.runner)
  /\ UNCHANGED <<forgeStatus, queueVars, jobOf, host, online, slotVars, task, cleaner, agentVars,
                 graces, failing, chanVars, idleVars, faults>>
  /\ BeginPass

-----------------------------------------------------------------------------
(* The fleet loop: check_idle_runners *)

\* Forget runners without a record and, after a while, torn-down ones; then go through the
\* runners bound to one job that are past the idle timeout (`old`).
StartIdleCheck(old, expired) ==
  /\ at = "idle" /\ IdleJobs # {}
  /\ old \subseteq {r \in recorded : jobOf[r] \in IdleJobs}
  /\ expired \subseteq tornDown
  /\ started' = started \cap recorded
  /\ tearing' = tearing \cap recorded
  /\ tornDown' = tornDown \ expired
  /\ checks' = old /\ at' = IF old = {} THEN "idle" ELSE "check"
  /\ backoff' = IF old = {} THEN backoff \cap pending ELSE backoff
  /\ UNCHANGED <<forgeStatus, queueVars, runnerVars, online, slotVars, task, cleaner, agentVars,
                 deathVars, chanVars, rows, cur, faults>>

\* The last runner looked at: backoff of jobs that left the queue goes.
CheckNext(r) ==
  /\ checks' = checks \ {r}
  /\ at' = IF checks' = {} THEN "idle" ELSE "check"
  /\ UNCHANGED <<rows, cur>>

KeepBackoff(r, jobs) == backoff' = IF checks = {r} THEN jobs \cap pending ELSE jobs

\* Mutant of DestroyDue: one try.
DestroyOnce(r) == r \notin tearing

\* IDLE_DESTROY_RETRY: sent again only when nothing of the last try is on its way.
DestroyDue(r) == r \in tearing => r \notin destroys /\ outbox[r] = <<>>

\* Its job was seen running, or is now, or is being torn down and not yet due again, or the
\* forge did not say.
SpareIdle(r) ==
  /\ at = "check" /\ r \in checks
  /\ \/ forgeStatus[jobOf[r]] = "running" /\ started' = started \cup {r}
     \/ UNCHANGED started
  /\ KeepBackoff(r, backoff)
  /\ CheckNext(r)
  /\ UNCHANGED <<forgeStatus, queueVars, runnerVars, online, slotVars, task, cleaner, agentVars,
                 deathVars, chanVars, tearing, tornDown, faults>>

\* Still queued, or gone: the job backs off and the VM is to be destroyed.
TearDownIdle(r) ==
  /\ at = "check" /\ r \in checks \ started
  /\ forgeStatus[jobOf[r]] \in {"queued", "done"}
  /\ DestroyDue(r)
  /\ tearing' = tearing \cup {r}
  /\ KeepBackoff(r, backoff \cup {jobOf[r]})
  /\ destroys' = IF host[r] \in online THEN destroys \cup {r} ELSE destroys
  /\ CheckNext(r)
  /\ UNCHANGED <<forgeStatus, queueVars, runnerVars, online, slotVars, task, cleaner, vm, outbox,
                 deathVars, chanVars, started, tornDown, faults>>

\* next_idle_backoff has passed.
BackoffOver(j) ==
  /\ j \in backoff
  /\ backoff' = backoff \ {j}
  /\ UNCHANGED <<forgeStatus, queueVars, runnerVars, online, slotVars, task, cleaner, agentVars,
                 deathVars, chanVars, started, tearing, tornDown, fleetVars, faults>>

-----------------------------------------------------------------------------
(* The forge: external *)

\* A job is queued. Its webhook adds a row (add_job), from the HTTP handler and whatever the
\* fleet loop is doing, or is lost.
JobQueued(j) ==
  /\ forgeStatus[j] = "none"
  /\ forgeStatus' = [forgeStatus EXCEPT ![j] = "queued"]
  /\ pending' \in {pending, pending \cup {j}}
  /\ UNCHANGED <<retry, failed, runnerVars, online, slotVars, task, cleaner, agentVars,
                 deathVars, chanVars, idleVars, fleetVars, faults>>

\* Some runner takes it: its own, one made for a sibling, one made by somebody else. Only the
\* idle check tells a running job from one that is over, so for other jobs "done" is both.
JobStarts(j) ==
  /\ j \in IdleJobs /\ forgeStatus[j] = "queued"
  /\ forgeStatus' = [forgeStatus EXCEPT ![j] = "running"]
  /\ UNCHANGED <<queueVars, runnerVars, online, slotVars, task, cleaner, agentVars,
                 deathVars, chanVars, idleVars, fleetVars, faults>>

\* It finishes, or is cancelled.
JobEnds(j) ==
  /\ forgeStatus[j] \in {"queued", "running"}
  /\ forgeStatus' = [forgeStatus EXCEPT ![j] = "done"]
  /\ UNCHANGED <<queueVars, runnerVars, online, slotVars, task, cleaner, agentVars, deathVars,
                 chanVars, idleVars, fleetVars, faults>>

\* The completed webhook, sent through the fleet's channel. It does nothing but start a pass
\* when there is no row.
WebhookCompleted(j) ==
  /\ at = "idle"
  /\ forgeStatus[j] = "done" /\ j \in pending
  /\ DropRows({j})
  /\ BeginPass
  /\ UNCHANGED <<forgeStatus, runnerVars, online, slotVars, task, cleaner, agentVars, deathVars,
                 chanVars, idleVars, faults>>

\* Mutant of Missed: a runner that ended counts as one.
MissedSinceStart(j) == forgeStatus[j] = "queued" /\ \A r \in Runners : jobOf[r] # j

\* recover_queued_jobs: a queued job that nothing runs for.
Missed(j) == forgeStatus[j] = "queued" /\ RunnersFor(j) = {}

\* scan_forges, for the jobs the forges answer about (`heard`): pending jobs that are not queued
\* any more go, queued jobs without a row and without a runner come back.
ScanForges(heard) ==
  LET gone == {j \in heard \cap pending : forgeStatus[j] # "queued"}
      missed == {j \in heard \ pending : Missed(j)}
  IN
  /\ at = "idle" /\ gone \cup missed # {}
  /\ heard = gone \cup missed
  /\ pending' = (pending \ gone) \cup missed
  /\ retry' = [j \in Jobs |-> IF j \in gone THEN 0 ELSE retry[j]]
  /\ failed' = [j \in Jobs |-> IF j \in gone THEN {} ELSE failed[j]]
  /\ IF missed # {} THEN BeginPass ELSE UNCHANGED fleetVars
  /\ UNCHANGED <<forgeStatus, runnerVars, online, slotVars, task, cleaner, agentVars, deathVars,
                 chanVars, idleVars, faults>>

-----------------------------------------------------------------------------
(* The coordinator restarts: the database stays, everything in memory is gone, and whatever the
   agents had put on the wire. The fleet loop starts with a pass over the pending rows. *)
CoordinatorCrash(lost) ==
  /\ Fault("crash")
  /\ lost \subseteq {r \in Runners : outbox[r] # <<>>}
  /\ online' = {}
  /\ reserved' = [a \in Agents |-> {}] /\ listed' = [a \in Agents |-> {}]
  /\ task' = [r \in Runners |-> "none"] /\ cleaner' = [r \in Runners |-> "none"]
  /\ outbox' = [r \in Runners |-> IF r \in lost THEN <<>> ELSE outbox[r]]
  /\ missing' = {} /\ graces' = {} /\ failing' = {}
  /\ events' = <<>> /\ recoveries' = <<>>
  /\ started' = {} /\ tearing' = {} /\ tornDown' = {} /\ backoff' = {}
  /\ rows' = Rows /\ checks' = {} /\ cur' = NoCur
  /\ at' = IF pending = {} THEN "idle" ELSE "pass"
  /\ UNCHANGED <<forgeStatus, queueVars, runnerVars, vm, destroys>>

-----------------------------------------------------------------------------
(* The specification *)

PassStep ==
  \/ \E row \in rows : AbandonRow(row) \/ SkipRow(row) \/ SelectAgent(row)
  \/ \E r \in Runners : ReserveSlot(r)
  \/ ReserveFails \/ JobGone \/ JitFails \/ CreateRunner \/ SettleEvent

CheckStep == \E r \in Runners : SpareIdle(r) \/ TearDownIdle(r)

CommandStep(r) ==
  \/ RecvAck(r) \/ CommandTimeout(r)
  \/ RemoveRejected(r) \/ RemoveFailed(r) \/ ChargeFailed(r) \/ AbandonFailed(r)

AgentStep(r) ==
  \/ AgentAccept(r) \/ AgentRefuse(r) \/ AgentDestroy(r) \/ DeliverEvent(r)
  \/ \E type \in EventTypes : EndVm(r, type)

ForgeStep(j) == JobQueued(j) \/ JobStarts(j) \/ JobEnds(j)

Next ==
  \/ StartPass \/ PassStep \/ CheckStep \/ HandleRecovery
  \/ \E e \in Event : HandleEvent(e)
  \/ \E old, expired \in SUBSET Runners : StartIdleCheck(old, expired)
  \/ \E j \in Jobs : BackoffOver(j) \/ ForgeStep(j) \/ WebhookCompleted(j)
  \/ \E heard \in SUBSET Jobs : ScanForges(heard)
  \/ \E r \in Runners :
       CommandStep(r) \/ AgentStep(r) \/ SendFailover(r) \/ WatcherExit(r) \/ CleanUp(r)
  \/ \E a \in Agents :
       \/ Connect(a) \/ ClaimFailover(a) \/ OrphanSweep(a)
       \/ \E elapsed \in SUBSET Runners : StatusReport(a, elapsed)
       \/ \E dies \in BOOLEAN, lost \in SUBSET Runners : Disconnect(a, dies, lost)
  \/ \E lost \in SUBSET Runners : CoordinatorCrash(lost)

Spec == Init /\ [][Next]_vars

-----------------------------------------------------------------------------
(* Safety *)

\* At most one runner record per job, whatever commands, agents and events do: "In normal
\* operation this returns 0 or 1 rows" (runners_for_job). The fleet checks for a runner, awaits
\* the agent registry and the forge, and only then records one.
AtMostOneRunnerPerJob == \A j \in Jobs : \A r, s \in RunnersFor(j) : r = s

\* Jobs whose last try a command task has charged and whose row it is about to remove.
Spent == {jobOf[r] : r \in {s \in Runners : task[s] = "abandon"}}

\* What dispatch promises.
Queue == INSTANCE JobQueue WITH
  Ids <- Jobs, Names <- Runners, Tries <- MaxRetries, forge <- forgeStatus, entries <- pending,
  tried <- retry, runner <- [j \in Jobs |-> RunnersFor(j)], spent <- Spent

\* A job is tried on one runner at a time, each new row has all its tries, charges go up by one, and
\* a job still queued on its forge loses its row only by using up its retries, or to a command task
\* that had used them up. Not because its runner completed: that may have run a sibling job
\* (check_job_after_runner).
QueueKept == Queue!Spec

\* A recorded runner on its way to a connected agent, or running there, takes a slot in the
\* coordinator's books, as a reservation or as a listed VM ("so there's no moment where a VM
\* counts as neither", settle_reservations). Runners being cleaned up are out of this.
SlotHeld ==
  \A r \in recorded :
    /\ host[r] \in online /\ vm[r] # "none"
    /\ task[r] # "error" /\ cur.runner # r
    => r \in reserved[host[r]] \cup listed[host[r]]

\* While a runner is being torn down for idling, its job keeps its row and its retries, however
\* the end of the runner and of its predecessors is reported ("Their events aren't failures").
\* Passes (rows read before) and command tasks are out of this.
IdleNotCharged ==
  [][\A r \in tearing \cap recorded :
       LET j == jobOf[r] IN
       at # "pass" /\ task' = task /\ forgeStatus[j] = "queued" /\ j \in pending
       => j \in pending' /\ retry'[j] = retry[j]]_vars

-----------------------------------------------------------------------------
(* Liveness *)

\* The select of the fleet loop picks a ready branch at random, so a branch that is ready again
\* and again is taken; forges answer now and then; VMs end, by their job or by cleanup_stale;
\* streams deliver; the status timer and the sweep come back until there is room in the channel.
\* Nothing makes an agent come back.
StatusAfterGrace(a) ==
  /\ events = <<>>
  /\ StatusReport(a, ((RecordedOn(a) \ Live(a)) \cap missing) \cup Unrecorded(a))

Fairness ==
  /\ WF_vars(PassStep) /\ SF_vars(CreateRunner)
  /\ SF_vars(StartPass) /\ SF_vars(HandleRecovery) /\ SF_vars(\E e \in Event : HandleEvent(e))
  /\ \A j \in Jobs : SF_vars(\E heard \in SUBSET Jobs : j \in heard /\ ScanForges(heard))
  /\ \A r \in Runners :
       /\ WF_vars(CommandStep(r)) /\ WF_vars(AgentAccept(r) \/ AgentRefuse(r))
       /\ WF_vars(\E type \in EventTypes : EndVm(r, type)) /\ WF_vars(DeliverEvent(r))
       /\ SF_vars(SendFailover(r)) /\ WF_vars(WatcherExit(r)) /\ WF_vars(CleanUp(r))
  /\ \A a \in Agents :
       SF_vars(StatusAfterGrace(a)) /\ SF_vars(events = <<>> /\ OrphanSweep(a))

FairSpec == Spec /\ Fairness

\* With idle teardown, as little as an end of it takes: old runners are checked, the forge answers
\* for them now and then, and the loop, the agents, their streams and the sweep go on. No VM has to
\* end by itself: a runner that waits for a job does not.
IdleFairness ==
  /\ WF_vars(PassStep) /\ WF_vars(CheckStep) /\ SF_vars(\E e \in Event : HandleEvent(e))
  /\ \A r \in Runners :
       /\ SF_vars(\E old \in SUBSET Runners : r \in old /\ StartIdleCheck(old, {}))
       /\ SF_vars(TearDownIdle(r) \/ (SpareIdle(r) /\ r \in started'))
       /\ WF_vars(CommandStep(r)) /\ WF_vars(AgentAccept(r) \/ AgentRefuse(r))
       /\ WF_vars(AgentDestroy(r)) /\ WF_vars(DeliverEvent(r))
  /\ \A a \in Agents : SF_vars(events = <<>> /\ OrphanSweep(a))

IdleFairSpec == Spec /\ IdleFairness

\* A queued job gets a runner, as long as an agent that can run it stays connected: also when its
\* webhook was lost, when a sibling's runner took its runner's place, when an event was dropped.
QueuedJobServed ==
  \A j \in Jobs :
    forgeStatus[j] = "queued" ~>
      \/ RunnersFor(j) # {} \/ forgeStatus[j] # "queued"
      \/ online \cap Serves[j] = {}

\* The record of a runner whose VM is gone goes too, whichever of its events were lost or dropped
\* and whether or not its agent comes back: it would keep its job from getting another runner.
DeadRunnerForgotten ==
  \A r \in Runners : (r \in recorded /\ vm[r] = "none") ~> r \notin recorded

\* A runner that is torn down for idling goes away, also when a destroy or its report was lost and
\* its VM would sit there for ever, unless its job has started after all.
TearDownCompletes ==
  \A r \in Runners :
    r \in tearing \cap recorded ~> r \notin tearing \cap recorded \/ r \in started

-----------------------------------------------------------------------------
(* What comments in the code say, and the code does not do *)

\* "Agent disconnected - runner state will be handled when agent reconnects or by the disconnect
\* cleanup logic": a watcher whose agent went away leaves the record alone.
WatcherLeavesRecord ==
  [][\A r \in Runners :
       cleaner[r] = "watching" /\ cleaner'[r] = "removing" => r \notin recorded]_vars

\* "VM is gone - the runner completed or failed while coordinator was down": recovery cleans up
\* records whose VM is gone.
RecoveryCleansUpTheDead ==
  [][\A r \in Runners : cleaner[r] = "none" /\ cleaner'[r] = "removing" => vm[r] = "none"]_vars

=============================================================================
