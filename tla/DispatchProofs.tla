--------------------------- MODULE DispatchProofs ---------------------------
(***************************************************************************)
(* Proofs about Dispatch, for every value of its constants: its types, at  *)
(* most one runner record per job, that it implements JobQueue, idled      *)
(* runners that are not charged, and slots that are counted while no agent *)
(* drops.                                                                  *)
(*                                                                         *)
(* Neither types nor AtMostOneRunnerPerJob are inductive by themselves: a  *)
(* failed command is held against the agent of a runner that is no longer  *)
(* recorded (Bound), and the fleet loop records a runner for the job and   *)
(* under the name it chose some steps before (Chosen).                     *)
(***************************************************************************)
EXTENDS Dispatch, FiniteSetTheorems, SequenceTheorems, TLAPS

USE DEF queueVars, runnerVars, slotVars, agentVars, deathVars, chanVars, idleVars, fleetVars

-----------------------------------------------------------------------------
(* The inductive invariant *)

\* A runner that is recorded, or that the idle check listed when it was, or whose command somebody
\* still sees to, has its agent and its job.
Bound ==
  \A r \in Runners :
    r \in recorded \cup checks \/ task[r] # "none" => host[r] \in Agents /\ jobOf[r] \in Jobs

\* Between choosing a job and recording its runner, the fleet loop is the only one that could
\* record one, so the job stays without and the name stays new.
Chosen ==
  /\ at \in {"reserve", "create"} =>
       cur.job \in Jobs /\ cur.agent \in Agents /\ RunnersFor(cur.job) = {}
  /\ at = "create" => cur.runner \in Runners \ recorded

IInv == TypeOK /\ Bound /\ Chosen /\ AtMostOneRunnerPerJob

-----------------------------------------------------------------------------
(* The types of what the helpers make *)

QueueTyped ==
  pending \subseteq Jobs /\ retry \in [Jobs -> Nat] /\ failed \in [Jobs -> SUBSET Agents]

\* DropRows, whatever it is asked to drop, leaves a well-typed queue.
LEMMA DropTyped == ASSUME QueueTyped, NEW S, DropRows(S) PROVE QueueTyped'
BY DEF QueueTyped, DropRows

\* So does Increment.
LEMMA IncrementTyped ==
  ASSUME QueueTyped, NEW j \in Jobs, NEW who \in SUBSET Agents, Increment(j, who)
  PROVE  QueueTyped'
BY DEF QueueTyped, Increment

\* So does ChargeRetry, also for a job without a row.
LEMMA ChargeTyped ==
  ASSUME QueueTyped, NEW j, NEW who \in SUBSET Agents, ChargeRetry(j, who)
  PROVE  QueueTyped'
BY DEF QueueTyped, ChargeRetry, DropRows, Increment

\* A pass reads rows from a well-typed queue, before the step and after it.
LEMMA RowsTyped == (QueueTyped => Rows \subseteq Row) /\ (QueueTyped' => Rows' \subseteq Row)
BY DEF QueueTyped, Rows, Row

\* A released slot leaves well-typed reservations.
LEMMA ReleaseTyped ==
  ASSUME reserved \in [Agents -> SUBSET Runners], NEW r, Release(r)
  PROVE  reserved' \in [Agents -> SUBSET Runners]
BY DEF Release

\* The bound on faults.
LEMMA FaultTyped ==
  ASSUME faults \in 0 .. MaxFaults, NEW kind, Fault(kind) PROVE faults' \in 0 .. MaxFaults
BY DispatchAssumption DEF Fault

\* TrySend puts events in the channel, and nothing else.
LEMMA TrySendTyped ==
  ASSUME events \in Seq(Event), NEW S \in SUBSET Runners, TrySend(S)
  PROVE  events' \in Seq(Event)
<1> DEFINE all(f) == events \o [i \in DOMAIN f |-> [runner |-> f[i], type |-> "Failed"]]
           n(f) == IF Len(events) + Len(f) < EventCap THEN Len(events) + Len(f) ELSE EventCap
<1>1. PICK f \in Orders(S) : events' = SubSeq(all(f), 1, n(f))
  BY DEF TrySend
<1>2. Cardinality(S) \in Nat
  BY FS_Subset, FS_CardinalityType, DispatchAssumption
<1>3. f \in [1 .. Cardinality(S) -> Runners]
  BY DEF Orders
<1>4. f \in Seq(Runners)
  BY <1>2, <1>3, SeqDef
<1>5. [i \in DOMAIN f |-> [runner |-> f[i], type |-> "Failed"]] \in Seq(Event)
  <2>1. \A i \in DOMAIN f : [runner |-> f[i], type |-> "Failed"] \in Event
    BY <1>4 DEF Event, EventTypes
  <2>2. DOMAIN f = 1 .. Len(f) /\ Len(f) \in Nat
    BY <1>4
  <2> QED BY <2>1, <2>2, SeqDef
<1>6. all(f) \in Seq(Event) /\ Len(all(f)) = Len(events) + Len(f)
  <2> DEFINE g == [i \in DOMAIN f |-> [runner |-> f[i], type |-> "Failed"]]
  <2>1. Len(g) = Len(f)
    BY <1>4
  <2>2. g \in Seq(Event)
    BY <1>5
  <2> HIDE DEF g
  <2>3. events \o g \in Seq(Event) /\ Len(events \o g) = Len(events) + Len(g)
    BY <2>2, ConcatProperties
  <2> QED BY <2>1, <2>3 DEF g
<1>7. 1 \in Int /\ n(f) \in Int /\ n(f) <= Len(all(f))
  BY <1>4, <1>6, DispatchAssumption
<1>8. SubSeq(all(f), 1, n(f)) \in Seq(Event)
  <2> HIDE DEF all, n
  <2> QED BY <1>6, <1>7
<1> QED BY <1>1, <1>8

-----------------------------------------------------------------------------
(* Every step keeps the types *)


\* A step of a pass keeps the types.
LEMMA PassTyped == ASSUME IInv, PassStep PROVE TypeOK'
<1> USE DEF IInv
<1>1. ASSUME NEW row \in rows, AbandonRow(row) PROVE TypeOK'
  <2>1. QueueTyped'
    BY <1>1, DropTyped DEF QueueTyped, TypeOK, AbandonRow
  <2> QED BY <1>1, <2>1 DEF QueueTyped, TypeOK, AbandonRow, NextRow, NoCur, Row, Cur, Event,
                      EventTypes, Recovery
<1>2. ASSUME NEW row \in rows, SkipRow(row) PROVE TypeOK'
    BY <1>2 DEF TypeOK, SkipRow, NextRow, NoCur, Row, Cur, Event, EventTypes, Recovery
<1>3. ASSUME NEW row \in rows, SelectAgent(row) PROVE TypeOK'
    BY <1>3 DEF TypeOK, SelectAgent, Best, Candidates, Row, Cur, NoCur, Event, EventTypes,
           Recovery
<1>4. ASSUME NEW r \in Runners, ReserveSlot(r) PROVE TypeOK'
    BY <1>4 DEF TypeOK, Chosen, ReserveSlot, Row, Cur, NoCur, Event, EventTypes, Recovery
<1>5. CASE ReserveFails
  <2>1. QueueTyped'
    BY <1>5, ChargeTyped DEF QueueTyped, TypeOK, ReserveFails
  <2> QED BY <1>5, <2>1 DEF QueueTyped, TypeOK, ReserveFails, NextRow, NoCur, Row, Cur, Event,
                      EventTypes, Recovery
<1>6. CASE JobGone
  <2>1. QueueTyped'
    BY <1>6, DropTyped DEF QueueTyped, TypeOK, JobGone
  <2> QED BY <1>6, <2>1 DEF QueueTyped, TypeOK, JobGone, ReleaseCur, NextRow, NoCur, Row, Cur,
                      Event, EventTypes, Recovery
<1>7. CASE JitFails
  <2>1. QueueTyped'
    BY <1>7, ChargeTyped DEF QueueTyped, TypeOK, JitFails
  <2> QED BY <1>7, <2>1 DEF QueueTyped, TypeOK, JitFails, ReleaseCur, NextRow, NoCur, Row, Cur,
                      Event, EventTypes, Recovery
<1>8. CASE CreateRunner
  <2>1. task' \in [Runners -> {"none", "sent", "rejected", "error", "charge", "abandon"}]
    BY <1>8 DEF CreateRunner, TypeOK
  <2>2. vm' \in [Runners -> {"none", "asked", "live"}]
    BY <1>8 DEF CreateRunner, TypeOK
  <2>3. recorded' \subseteq Runners /\ jobOf' \in [Runners -> Jobs \cup {None}]
    BY <1>8 DEF CreateRunner, TypeOK, Chosen
  <2>4. host' \in [Runners -> Agents \cup {None}]
    BY <1>8 DEF CreateRunner, TypeOK, Chosen
  <2>5. at' \in {"idle", "pass"} /\ cur' \in Cur /\ rows' \subseteq Row /\ checks' \subseteq Runners
    BY <1>8 DEF CreateRunner, TypeOK, NextRow, Cur, NoCur
  <2> QED BY <1>8, <2>1, <2>2, <2>3, <2>4, <2>5 DEF TypeOK, CreateRunner, NoCur, Row, Cur, Event,
                                              EventTypes, Recovery
<1>9. CASE SettleEvent
  <2>1. QueueTyped /\ (QueueTyped' \/ UNCHANGED queueVars)
    BY <1>9 DEF QueueTyped, TypeOK, SettleEvent
  <2> QED BY <1>9, <2>1, RowsTyped DEF QueueTyped, TypeOK, SettleEvent, RemoveRecord, BeginPass,
                                 NoCur, Row, Cur, Event, EventTypes, Recovery
<1> QED BY <1>1, <1>2, <1>3, <1>4, <1>5, <1>6, <1>7, <1>8, <1>9 DEF PassStep

\* A step of the idle check keeps the types.
LEMMA CheckTyped == ASSUME IInv, CheckStep PROVE TypeOK'
<1> USE DEF IInv
<1>1. ASSUME NEW r \in Runners, SpareIdle(r) PROVE TypeOK'
    BY <1>1 DEF TypeOK, SpareIdle, KeepBackoff, CheckNext, Row, Cur, NoCur, Event, EventTypes,
           Recovery
<1>2. ASSUME NEW r \in Runners, TearDownIdle(r) PROVE TypeOK'
  <2>1. backoff' \subseteq Jobs
    BY <1>2 DEF TearDownIdle, TypeOK, Bound, KeepBackoff
  <2>2. at' \in {"idle", "check"} /\ checks' \subseteq Runners /\ UNCHANGED <<rows, cur>>
    BY <1>2 DEF TearDownIdle, TypeOK, CheckNext
  <2>3. tearing' \subseteq Runners /\ destroys' \subseteq Runners
    BY <1>2 DEF TearDownIdle, TypeOK
  <2> QED BY <1>2, <2>1, <2>2, <2>3 DEF TypeOK, TearDownIdle, Row, Cur, NoCur, Event, EventTypes,
                                  Recovery
<1> QED BY <1>1, <1>2 DEF CheckStep

\* Handling an event keeps the types.
LEMMA HandleEventTyped == ASSUME IInv, NEW e \in Event, HandleEvent(e) PROVE TypeOK'
<1> USE DEF IInv
<1>1. CASE LateEvent(e)
    BY <1>1 DEF TypeOK, LateEvent, TakeEvent, Row, Cur, NoCur, Event, EventTypes, Recovery
<1>2. CASE IdledEvent(e)
  <2>1. events' \in Seq(Event) /\ started' \subseteq Runners
    BY <1>2 DEF IdledEvent, TakeEvent, TypeOK
  <2>2. reserved' \in [Agents -> SUBSET Runners]
    BY <1>2, ReleaseTyped DEF IdledEvent, TypeOK
  <2>3. recorded' \subseteq Runners /\ missing' \subseteq Runners
    BY <1>2 DEF IdledEvent, RemoveRecord, TypeOK
  <2>4. tearing' \subseteq Runners /\ tornDown' \subseteq Runners
    BY <1>2 DEF IdledEvent, TypeOK, Event
  <2>5. QueueTyped'
    BY <1>2 DEF IdledEvent, TypeOK, QueueTyped
  <2>6. at' \in {"idle", "pass"} /\ rows' \subseteq Row /\ cur' \in Cur /\ UNCHANGED checks
    BY <1>2, <2>5, RowsTyped DEF IdledEvent, BeginPass, NoCur, Cur
  <2> QED BY <1>2, <2>1, <2>2, <2>3, <2>4, <2>5, <2>6 DEF QueueTyped, TypeOK, IdledEvent, NoCur,
                                                    Row, Cur, Event, EventTypes, Recovery
<1>3. CASE UntrackedEvent(e)
  <2>1. QueueTyped'
    BY <1>3 DEF QueueTyped, TypeOK, UntrackedEvent
  <2>2. events' \in Seq(Event) /\ started' \subseteq Runners
    BY <1>3 DEF UntrackedEvent, TakeEvent, TypeOK
  <2>3. at' \in {"idle", "pass"} /\ rows' \subseteq Row /\ cur' \in Cur /\ UNCHANGED checks
    BY <1>3, <2>1, RowsTyped DEF UntrackedEvent, BeginPass, NoCur, Cur
  <2>4. UNCHANGED <<forgeStatus, pending, retry, failed, recorded, jobOf, host, online, reserved,
                     listed, task, cleaner, vm, outbox, destroys, missing, graces, failing,
                     recoveries, tearing, tornDown, backoff, faults>>
    BY <1>3 DEF UntrackedEvent
  <2> QED BY <2>2, <2>3, <2>4 DEF TypeOK, Row, Cur, Event, EventTypes, Recovery
<1>4. CASE CompletedEvent(e)
  <2>1. events' \in Seq(Event) /\ started' \subseteq Runners
    BY <1>4 DEF CompletedEvent, TakeEvent, TypeOK
  <2>2. QueueTyped'
    BY <1>4, DropTyped DEF CompletedEvent, TypeOK, QueueTyped
  <2>3. reserved' \in [Agents -> SUBSET Runners]
    BY <1>4 DEF CompletedEvent, Release, TypeOK
  <2>4. at' = "settle" /\ cur' \in Cur
    BY <1>4 DEF CompletedEvent, NoCur, Cur, Event
  <2> QED BY <1>4, <2>1, <2>2, <2>3, <2>4 DEF QueueTyped, TypeOK, CompletedEvent, NoCur, Row, Cur,
                                        Event, EventTypes, Recovery
<1>5. CASE FailedEvent(e)
  <2>1. events' \in Seq(Event) /\ started' \subseteq Runners
    BY <1>5 DEF FailedEvent, TakeEvent, TypeOK
  <2>2. Blamed(e.runner) \subseteq Agents
    BY <1>5 DEF FailedEvent, Blamed, Bound, Event
  <2>3. QueueTyped'
    BY <1>5, <2>2, ChargeTyped DEF FailedEvent, TypeOK, QueueTyped
  <2>4. reserved' \in [Agents -> SUBSET Runners]
    BY <1>5 DEF FailedEvent, Release, TypeOK
  <2>5. at' = "settle" /\ cur' \in Cur
    BY <1>5 DEF FailedEvent, NoCur, Cur, Event
  <2> QED BY <1>5, <2>1, <2>2, <2>3, <2>4, <2>5 DEF QueueTyped, TypeOK, FailedEvent, NoCur, Row,
                                              Cur, Event, EventTypes, Recovery
<1> QED BY <1>1, <1>2, <1>3, <1>4, <1>5 DEF HandleEvent

\* So does the rest of the fleet loop, and the end of a backoff.
LEMMA LoopTyped ==
  ASSUME IInv,
         StartPass \/ HandleRecovery
         \/ (\E old, expired \in SUBSET Runners : StartIdleCheck(old, expired))
         \/ (\E j \in Jobs : BackoffOver(j) \/ WebhookCompleted(j))
         \/ (\E heard \in SUBSET Jobs : ScanForges(heard))
  PROVE  TypeOK'
<1> USE DEF IInv
<1>1. CASE StartPass
  <2>1. QueueTyped /\ (QueueTyped' \/ UNCHANGED queueVars)
    BY <1>1 DEF QueueTyped, TypeOK, StartPass
  <2> QED BY <1>1, <2>1, RowsTyped DEF QueueTyped, TypeOK, StartPass, BeginPass, NoCur, Row, Cur,
                                 Event, EventTypes, Recovery
<1>2. CASE HandleRecovery
    BY <1>2 DEF TypeOK, HandleRecovery, RecordedOn, Row, Cur, NoCur, Event, EventTypes, Recovery
<1>3. ASSUME NEW old \in SUBSET Runners, NEW expired \in SUBSET Runners,
             StartIdleCheck(old, expired)
      PROVE TypeOK'
    BY <1>3 DEF TypeOK, StartIdleCheck, Row, Cur, NoCur, Event, EventTypes, Recovery
<1>4. ASSUME NEW j \in Jobs, WebhookCompleted(j) PROVE TypeOK'
  <2>1. QueueTyped'
    BY <1>4, DropTyped DEF QueueTyped, TypeOK, WebhookCompleted
  <2> QED BY <1>4, <2>1, RowsTyped DEF QueueTyped, TypeOK, WebhookCompleted, BeginPass, NoCur,
                                 Row, Cur, Event, EventTypes, Recovery
<1>5. ASSUME NEW heard \in SUBSET Jobs, ScanForges(heard) PROVE TypeOK'
  <2>1. QueueTyped /\ (QueueTyped' \/ UNCHANGED queueVars)
    BY <1>5 DEF QueueTyped, TypeOK, ScanForges
  <2> QED BY <1>5, <2>1, RowsTyped DEF QueueTyped, TypeOK, ScanForges, BeginPass, NoCur, Row, Cur,
                                 Event, EventTypes, Recovery
<1>6. ASSUME NEW j \in Jobs, BackoffOver(j) PROVE TypeOK'
    BY <1>6 DEF TypeOK, BackoffOver, Row, Cur, NoCur, Event, EventTypes, Recovery
<1> QED BY <1>1, <1>2, <1>3, <1>4, <1>5, <1>6

\* So does whatever a job does on its forge.
LEMMA ForgeTyped == ASSUME IInv, NEW j \in Jobs, ForgeStep(j) PROVE TypeOK'
<1> USE DEF IInv
<1>1. CASE JobQueued(j)
    BY <1>1 DEF TypeOK, JobQueued, Row, Cur, NoCur, Event, EventTypes, Recovery
<1>2. CASE JobStarts(j)
    BY <1>2 DEF TypeOK, JobStarts, Row, Cur, NoCur, Event, EventTypes, Recovery
<1>3. CASE JobEnds(j)
    BY <1>3 DEF TypeOK, JobEnds, Row, Cur, NoCur, Event, EventTypes, Recovery
<1> QED BY <1>1, <1>2, <1>3 DEF ForgeStep

\* So does the task behind a command.
LEMMA CommandTyped == ASSUME IInv, NEW r \in Runners, CommandStep(r) PROVE TypeOK'
<1> USE DEF IInv
<1>1. CASE RecvAck(r)
    BY <1>1 DEF TypeOK, RecvAck, Row, Cur, NoCur, Event, EventTypes, Recovery
<1>2. CASE CommandTimeout(r)
  <2>1. task' \in [Runners -> {"none", "sent", "rejected", "error", "charge", "abandon"}]
    BY <1>2 DEF CommandTimeout, TypeOK
  <2>2. reserved' \in [Agents -> SUBSET Runners]
    BY <1>2, ReleaseTyped DEF CommandTimeout, TypeOK
  <2>3. faults' \in 0 .. MaxFaults
    BY <1>2, FaultTyped DEF CommandTimeout, TypeOK
  <2> QED BY <1>2, <2>1, <2>2, <2>3 DEF TypeOK, CommandTimeout, Row, Cur, NoCur, Event,
                                  EventTypes, Recovery
<1>3. CASE RemoveRejected(r)
    BY <1>3 DEF TypeOK, RemoveRejected, RemoveRecord, Row, Cur, NoCur, Event, EventTypes,
           Recovery
<1>4. CASE RemoveFailed(r)
    BY <1>4 DEF TypeOK, RemoveFailed, RemoveRecord, Row, Cur, NoCur, Event, EventTypes, Recovery
<1>5. CASE ChargeFailed(r)
  <2>1. host[r] \in Agents /\ jobOf[r] \in Jobs
    BY <1>5 DEF ChargeFailed, Bound
  <2>2. QueueTyped'
    BY <1>5, <2>1, IncrementTyped DEF ChargeFailed, TypeOK, QueueTyped
  <2>3. task' \in [Runners -> {"none", "sent", "rejected", "error", "charge", "abandon"}]
    BY <1>5 DEF ChargeFailed, TypeOK
  <2> QED BY <1>5, <2>1, <2>2, <2>3 DEF QueueTyped, TypeOK, ChargeFailed, Row, Cur, NoCur, Event,
                                  EventTypes, Recovery
<1>6. CASE AbandonFailed(r)
  <2>1. QueueTyped'
    BY <1>6, DropTyped DEF QueueTyped, TypeOK, AbandonFailed
  <2> QED BY <1>6, <2>1 DEF QueueTyped, TypeOK, AbandonFailed, Row, Cur, NoCur, Event, EventTypes,
                      Recovery
<1> QED BY <1>1, <1>2, <1>3, <1>4, <1>5, <1>6 DEF CommandStep

\* So does what an agent does with a VM.
LEMMA AgentTyped == ASSUME IInv, NEW r \in Runners, AgentStep(r) PROVE TypeOK'
<1> USE DEF IInv
<1>1. CASE AgentAccept(r)
    BY <1>1 DEF TypeOK, AgentAccept, Row, Cur, NoCur, Event, EventTypes, Recovery
<1>2. CASE AgentRefuse(r)
  <2>1. task' = [task EXCEPT ![r] = "rejected"] \/ UNCHANGED task
    BY <1>2 DEF AgentRefuse
  <2>2. task' \in [Runners -> {"none", "sent", "rejected", "error", "charge", "abandon"}]
    BY <1>2, <2>1 DEF TypeOK
  <2>3. reserved' \in [Agents -> SUBSET Runners]
    BY <1>2, ReleaseTyped DEF AgentRefuse, TypeOK
  <2>4. vm' \in [Runners -> {"none", "asked", "live"}]
    BY <1>2 DEF AgentRefuse, TypeOK
  <2> QED BY <1>2, <2>1, <2>2, <2>3, <2>4 DEF TypeOK, AgentRefuse, Row, Cur, NoCur, Event,
                                        EventTypes, Recovery
<1>3. CASE AgentDestroy(r)
  <2>1. destroys' \subseteq Runners /\ vm' \in [Runners -> {"none", "asked", "live"}]
    BY <1>3 DEF AgentDestroy, TypeOK
  <2>2. <<"Failed">> \in Seq(EventTypes) /\ <<"Failed", "Failed">> \in Seq(EventTypes)
    BY <1>3 DEF EventTypes
  <2>3. outbox[r] \in Seq(EventTypes)
    BY <1>3 DEF TypeOK
  <2>4. outbox[r] \o (IF vm[r] = "live" THEN <<"Failed", "Failed">> ELSE <<"Failed">>)
          \in Seq(EventTypes)
    BY <1>3, <2>2, <2>3
  <2>5. outbox' \in [Runners -> Seq(EventTypes)]
    BY <1>3, <2>4 DEF AgentDestroy, TypeOK
  <2> QED BY <1>3, <2>1, <2>2, <2>3, <2>4, <2>5 DEF TypeOK, AgentDestroy, Row, Cur, NoCur, Event,
                                              EventTypes, Recovery
<1>4. CASE DeliverEvent(r)
  <2>1. outbox[r] \in Seq(EventTypes) /\ outbox[r] # <<>>
    BY <1>4 DEF DeliverEvent, TypeOK
  <2>2. Tail(outbox[r]) \in Seq(EventTypes) /\ [runner |-> r, type |-> Head(outbox[r])] \in Event
    BY <1>4, <2>1 DEF Event
  <2>3. outbox' \in [Runners -> Seq(EventTypes)]
    BY <1>4, <2>2 DEF DeliverEvent, TypeOK
  <2>4. events' \in Seq(Event)
    BY <1>4, <2>2 DEF DeliverEvent, TypeOK
  <2> QED BY <1>4, <2>1, <2>2, <2>3, <2>4 DEF TypeOK, DeliverEvent, Row, Cur, NoCur, Event,
                                        EventTypes, Recovery
<1>5. ASSUME NEW type \in EventTypes, EndVm(r, type) PROVE TypeOK'
    BY <1>5 DEF TypeOK, EndVm, Row, Cur, NoCur, Event, EventTypes, Recovery
<1> QED BY <1>1, <1>2, <1>3, <1>4, <1>5 DEF AgentStep

\* So does everything that finds out about dead runners, and a restart.
LEMMA DeathTyped ==
  ASSUME IInv,
         (\E r \in Runners : SendFailover(r) \/ WatcherExit(r) \/ CleanUp(r))
         \/ (\E a \in Agents :
               \/ Connect(a) \/ ClaimFailover(a) \/ OrphanSweep(a)
               \/ \E elapsed \in SUBSET Runners : StatusReport(a, elapsed)
               \/ \E dies \in BOOLEAN, lost \in SUBSET Runners : Disconnect(a, dies, lost))
         \/ (\E lost \in SUBSET Runners : CoordinatorCrash(lost))
  PROVE  TypeOK'
<1> USE DEF IInv
<1>1. ASSUME NEW r \in Runners, SendFailover(r) PROVE TypeOK'
    BY <1>1 DEF TypeOK, SendFailover, Row, Cur, NoCur, Event, EventTypes, Recovery
<1>2. ASSUME NEW r \in Runners, WatcherExit(r) PROVE TypeOK'
    BY <1>2 DEF TypeOK, WatcherExit, Row, Cur, NoCur, Event, EventTypes, Recovery
<1>3. ASSUME NEW r \in Runners, CleanUp(r) PROVE TypeOK'
    BY <1>3 DEF TypeOK, CleanUp, RemoveRecord, Row, Cur, NoCur, Event, EventTypes, Recovery
<1>4. ASSUME NEW a \in Agents, Connect(a) PROVE TypeOK'
  <2>1. listed' \in [Agents -> SUBSET Runners]
    BY <1>4 DEF Connect, Live, TypeOK
  <2>2. vm' \in [Runners -> {"none", "asked", "live"}]
    BY <1>4 DEF Connect, TypeOK
  <2>3. online' \subseteq Agents /\ graces' \subseteq Agents /\ destroys' \subseteq Runners
    BY <1>4 DEF Connect, TypeOK
  <2>4. [agent |-> a, vms |-> Live(a)] \in Recovery
    BY <1>4 DEF Live, Recovery
  <2>5. recoveries' \in Seq(Recovery)
    BY <1>4, <2>4 DEF Connect, TypeOK
  <2> QED BY <1>4, <2>1, <2>2, <2>3, <2>4, <2>5 DEF TypeOK, Connect, Row, Cur, NoCur, Event,
                                              EventTypes, Recovery
<1>5. ASSUME NEW a \in Agents, ClaimFailover(a) PROVE TypeOK'
    BY <1>5 DEF TypeOK, ClaimFailover, RecordedOn, Row, Cur, NoCur, Event, EventTypes, Recovery
<1>6. ASSUME NEW a \in Agents, OrphanSweep(a) PROVE TypeOK'
  <2>1. events' \in Seq(Event)
    BY <1>6, TrySendTyped DEF OrphanSweep, TypeOK, Orphans, RecordedOn
  <2> QED BY <1>6, <2>1 DEF TypeOK, OrphanSweep, Orphans, RecordedOn, Row, Cur, NoCur, Event,
                      EventTypes, Recovery
<1>7. ASSUME NEW a \in Agents, NEW elapsed \in SUBSET Runners, StatusReport(a, elapsed)
      PROVE TypeOK'
  <2>1. listed' \in [Agents -> SUBSET Runners] /\ reserved' \in [Agents -> SUBSET Runners]
    BY <1>7 DEF StatusReport, Live, TypeOK
  <2>2. missing' \subseteq Runners
    BY <1>7 DEF StatusReport, RecordedOn, TypeOK
  <2>3. events' \in Seq(Event)
    BY <1>7, TrySendTyped DEF StatusReport, RecordedOn, TypeOK
  <2>4. faults' \in 0 .. MaxFaults
    BY <1>7, FaultTyped DEF StatusReport, TypeOK
  <2> QED BY <1>7, <2>1, <2>2, <2>3, <2>4 DEF TypeOK, StatusReport, Row, Cur, NoCur, Event,
                                        EventTypes, Recovery
<1>8. ASSUME NEW a \in Agents, NEW dies \in BOOLEAN, NEW lost \in SUBSET Runners,
             Disconnect(a, dies, lost)
      PROVE TypeOK'
    BY <1>8, DispatchAssumption DEF TypeOK, Disconnect, Fault, Row, Cur, NoCur, Event, EventTypes,
                              Recovery
<1>9. ASSUME NEW lost \in SUBSET Runners, CoordinatorCrash(lost) PROVE TypeOK'
  <2>1. QueueTyped /\ (QueueTyped' \/ UNCHANGED queueVars)
    BY <1>9 DEF QueueTyped, TypeOK, CoordinatorCrash
  <2> QED BY <1>9, DispatchAssumption, <2>1, RowsTyped DEF QueueTyped, TypeOK, CoordinatorCrash,
                                                     Fault, NoCur, Row, Cur, Event,
                                                     EventTypes, Recovery
<1> QED BY <1>1, <1>2, <1>3, <1>4, <1>5, <1>6, <1>7, <1>8, <1>9

\* Every step keeps the types.
LEMMA NextTyped == ASSUME IInv, Next PROVE TypeOK'
BY PassTyped, CheckTyped, HandleEventTyped, LoopTyped, ForgeTyped, CommandTyped, AgentTyped,
   DeathTyped DEF Next

-----------------------------------------------------------------------------
(* One runner per job *)

\* What every step but CreateRunner does to the records: it binds nothing.
BindsNothing ==
  /\ recorded' \subseteq recorded /\ checks' \subseteq recorded \cup checks
  /\ jobOf' = jobOf /\ host' = host
  /\ \A r \in Runners : task'[r] # "none" => task[r] # "none"

\* Only CreateRunner records runners, gives a name a job and an agent, or starts a command.
LEMMA OnlyCreateRunnerBinds == ASSUME TypeOK, Next PROVE CreateRunner \/ BindsNothing
<1> SUFFICES ASSUME ~CreateRunner PROVE BindsNothing
  OBVIOUS
<1>1. CASE PassStep
  BY <1>1 DEF PassStep, BindsNothing, AbandonRow, SkipRow, SelectAgent, ReserveSlot, ReserveFails,
              JobGone, JitFails, SettleEvent, RemoveRecord, NextRow, BeginPass
<1>2. CASE CheckStep
  BY <1>2 DEF CheckStep, BindsNothing, SpareIdle, TearDownIdle, CheckNext
<1>3. ASSUME NEW e \in Event, HandleEvent(e) PROVE BindsNothing
  BY <1>3 DEF HandleEvent, BindsNothing, LateEvent, IdledEvent, UntrackedEvent, CompletedEvent,
              FailedEvent, RemoveRecord, BeginPass
<1>4. CASE StartPass \/ HandleRecovery
  BY <1>4 DEF BindsNothing, StartPass, HandleRecovery, BeginPass
<1>5. ASSUME NEW old \in SUBSET Runners, NEW expired \in SUBSET Runners,
             StartIdleCheck(old, expired)
      PROVE  BindsNothing
  BY <1>5 DEF BindsNothing, StartIdleCheck
<1>6. ASSUME NEW j \in Jobs, BackoffOver(j) \/ ForgeStep(j) \/ WebhookCompleted(j)
      PROVE  BindsNothing
  BY <1>6 DEF BindsNothing, BackoffOver, ForgeStep, JobQueued, JobStarts, JobEnds,
              WebhookCompleted, BeginPass
<1>7. ASSUME NEW heard \in SUBSET Jobs, ScanForges(heard) PROVE BindsNothing
  BY <1>7 DEF BindsNothing, ScanForges, BeginPass
<1>8. ASSUME NEW r \in Runners, CommandStep(r) PROVE BindsNothing
  BY <1>8 DEF CommandStep, BindsNothing, TypeOK, RecvAck, CommandTimeout, RemoveRejected,
              RemoveFailed, ChargeFailed, AbandonFailed, RemoveRecord
<1>9. ASSUME NEW r \in Runners, AgentStep(r) PROVE BindsNothing
  BY <1>9 DEF AgentStep, BindsNothing, TypeOK, AgentAccept, AgentRefuse, AgentDestroy,
              DeliverEvent, EndVm
<1>10. ASSUME NEW r \in Runners, SendFailover(r) \/ WatcherExit(r) \/ CleanUp(r)
       PROVE  BindsNothing
  BY <1>10 DEF BindsNothing, SendFailover, WatcherExit, CleanUp, RemoveRecord
<1>11. ASSUME NEW a \in Agents, Connect(a) \/ ClaimFailover(a) \/ OrphanSweep(a)
       PROVE  BindsNothing
  BY <1>11 DEF BindsNothing, Connect, ClaimFailover, OrphanSweep
<1>12. ASSUME NEW a \in Agents, NEW elapsed \in SUBSET Runners, StatusReport(a, elapsed)
       PROVE  BindsNothing
  BY <1>12 DEF BindsNothing, StatusReport
<1>13. ASSUME NEW a \in Agents, NEW dies \in BOOLEAN, NEW lost \in SUBSET Runners,
              Disconnect(a, dies, lost)
       PROVE  BindsNothing
  BY <1>13 DEF BindsNothing, Disconnect
<1>14. ASSUME NEW lost \in SUBSET Runners, CoordinatorCrash(lost) PROVE BindsNothing
  BY <1>14 DEF BindsNothing, CoordinatorCrash
<1> QED
  BY <1>1, <1>2, <1>3, <1>4, <1>5, <1>6, <1>7, <1>8, <1>9, <1>10, <1>11, <1>12, <1>13, <1>14
     DEF Next

\* Only SelectAgent and ReserveSlot bring the fleet loop closer to recording a runner.
LEMMA OnlyPassesChoose ==
  ASSUME Next, at' \in {"reserve", "create"}
  PROVE  \/ at' = at /\ cur' = cur
         \/ \E row \in rows : SelectAgent(row)
         \/ \E r \in Runners : ReserveSlot(r)
<1> DEFINE Chooses == (\E row \in rows : SelectAgent(row)) \/ (\E r \in Runners : ReserveSlot(r))
           Stays == at' = at /\ cur' = cur
<1> SUFFICES ASSUME ~Chooses PROVE Stays
  OBVIOUS
<1>1. CASE PassStep
  BY <1>1 DEF PassStep, AbandonRow, SkipRow, ReserveFails, JobGone, JitFails, CreateRunner,
              SettleEvent, NextRow, BeginPass
<1>2. CASE CheckStep
  BY <1>2 DEF CheckStep, SpareIdle, TearDownIdle, CheckNext
<1>3. ASSUME NEW e \in Event, HandleEvent(e) PROVE Stays
  BY <1>3 DEF HandleEvent, LateEvent, IdledEvent, UntrackedEvent, CompletedEvent, FailedEvent,
              TakeEvent, BeginPass
<1>4. CASE StartPass \/ HandleRecovery
  BY <1>4 DEF StartPass, HandleRecovery, BeginPass
<1>5. ASSUME NEW old \in SUBSET Runners, NEW expired \in SUBSET Runners,
             StartIdleCheck(old, expired)
      PROVE  Stays
  BY <1>5 DEF StartIdleCheck
<1>6. ASSUME NEW j \in Jobs, BackoffOver(j) \/ ForgeStep(j) \/ WebhookCompleted(j) PROVE Stays
  BY <1>6 DEF BackoffOver, ForgeStep, JobQueued, JobStarts, JobEnds, WebhookCompleted, BeginPass
<1>7. ASSUME NEW heard \in SUBSET Jobs, ScanForges(heard) PROVE Stays
  BY <1>7 DEF ScanForges, BeginPass
<1>8. ASSUME NEW r \in Runners, CommandStep(r) PROVE Stays
  BY <1>8 DEF CommandStep, RecvAck, CommandTimeout, RemoveRejected, RemoveFailed, ChargeFailed,
              AbandonFailed
<1>9. ASSUME NEW r \in Runners, AgentStep(r) PROVE Stays
  BY <1>9 DEF AgentStep, AgentAccept, AgentRefuse, AgentDestroy, DeliverEvent, EndVm
<1>10. ASSUME NEW r \in Runners, SendFailover(r) \/ WatcherExit(r) \/ CleanUp(r) PROVE Stays
  BY <1>10 DEF SendFailover, WatcherExit, CleanUp
<1>11. ASSUME NEW a \in Agents, Connect(a) \/ ClaimFailover(a) \/ OrphanSweep(a) PROVE Stays
  BY <1>11 DEF Connect, ClaimFailover, OrphanSweep
<1>12. ASSUME NEW a \in Agents, NEW elapsed \in SUBSET Runners, StatusReport(a, elapsed)
       PROVE  Stays
  BY <1>12 DEF StatusReport
<1>13. ASSUME NEW a \in Agents, NEW dies \in BOOLEAN, NEW lost \in SUBSET Runners,
              Disconnect(a, dies, lost)
       PROVE  Stays
  BY <1>13 DEF Disconnect
<1>14. ASSUME NEW lost \in SUBSET Runners, CoordinatorCrash(lost) PROVE Stays
  BY <1>14 DEF CoordinatorCrash
<1> QED
  BY <1>1, <1>2, <1>3, <1>4, <1>5, <1>6, <1>7, <1>8, <1>9, <1>10, <1>11, <1>12, <1>13, <1>14
     DEF Next

\* The agents to choose from are agents.
LEMMA BestAgents == ASSUME TypeOK, NEW j, NEW avoid PROVE Best(j, avoid) \subseteq Agents
BY DEF TypeOK, Best, Candidates

\* Every step keeps Bound.
LEMMA NextBound == ASSUME IInv, Next PROVE Bound'
<1>1. CASE BindsNothing
  BY <1>1 DEF IInv, Bound, BindsNothing
<1>2. CASE CreateRunner
  <2>1. cur.runner \in Runners /\ cur.job \in Jobs /\ cur.agent \in Agents
    BY <1>2 DEF IInv, Chosen, CreateRunner
  <2>2. /\ jobOf' = [jobOf EXCEPT ![cur.runner] = cur.job]
        /\ host' = [host EXCEPT ![cur.runner] = cur.agent]
        /\ recorded' = recorded \cup {cur.runner} /\ checks' = checks
    BY <1>2 DEF CreateRunner, NextRow
  <2>3. \A r \in Runners : r # cur.runner => task'[r] = task[r]
    BY <1>2 DEF CreateRunner, IInv, TypeOK
  <2> QED BY <2>1, <2>2, <2>3 DEF IInv, TypeOK, Bound
<1> QED BY <1>1, <1>2, OnlyCreateRunnerBinds DEF IInv

\* Every step keeps Chosen.
LEMMA NextChosen == ASSUME IInv, Next PROVE Chosen'
<1> SUFFICES ASSUME at' \in {"reserve", "create"} PROVE Chosen'
  BY DEF Chosen
<1>1. CASE at' = at /\ cur' = cur
  <2>1. ~CreateRunner
    BY <1>1 DEF CreateRunner, NextRow
  <2>2. BindsNothing
    BY <2>1, OnlyCreateRunnerBinds DEF IInv
  <2> QED BY <1>1, <2>2 DEF IInv, Chosen, BindsNothing, RunnersFor
<1>2. ASSUME NEW row \in rows, SelectAgent(row) PROVE Chosen'
  <2>1. row.job \in Jobs
    BY DEF IInv, TypeOK, Row
  <2>2. PICK a \in Best(row.job, row.failed) :
          cur' = [job |-> row.job, agent |-> a, runner |-> None]
    BY <1>2 DEF SelectAgent
  <2>3. a \in Agents
    BY BestAgents DEF IInv
  <2>4. at' = "reserve" /\ RunnersFor(row.job) = {} /\ UNCHANGED <<recorded, jobOf>>
    BY <1>2 DEF SelectAgent
  <2> QED BY <2>1, <2>2, <2>3, <2>4 DEF Chosen, RunnersFor
<1>3. ASSUME NEW r \in Runners, ReserveSlot(r) PROVE Chosen'
  <2>1. r \notin recorded
    BY <1>3 DEF ReserveSlot, Fresh
  <2>2. cur' = [cur EXCEPT !.runner = r] /\ UNCHANGED <<recorded, jobOf>> /\ at = "reserve"
    BY <1>3 DEF ReserveSlot
  <2>3. cur'.job = cur.job /\ cur'.agent = cur.agent /\ cur'.runner = r
    BY <2>2 DEF IInv, TypeOK, Cur
  <2> QED BY <2>1, <2>2, <2>3 DEF IInv, Chosen, RunnersFor
<1> QED BY <1>1, <1>2, <1>3, OnlyPassesChoose

\* Every step keeps the number of records per job at one at most.
LEMMA NextAtMostOne == ASSUME IInv, Next PROVE AtMostOneRunnerPerJob'
<1>1. CASE BindsNothing
  BY <1>1 DEF IInv, AtMostOneRunnerPerJob, BindsNothing, RunnersFor
<1>2. CASE CreateRunner
  <2>1. cur.runner \in Runners \ recorded /\ RunnersFor(cur.job) = {}
    BY <1>2 DEF IInv, Chosen, CreateRunner
  <2>2. /\ recorded' = recorded \cup {cur.runner}
        /\ jobOf' = [jobOf EXCEPT ![cur.runner] = cur.job]
    BY <1>2 DEF CreateRunner
  <2>3. \A r \in recorded : r # cur.runner /\ jobOf'[r] = jobOf[r]
    BY <2>1, <2>2 DEF IInv, TypeOK
  <2>4. jobOf'[cur.runner] = cur.job
    BY <2>1, <2>2 DEF IInv, TypeOK
  <2>5. \A j \in Jobs : RunnersFor(j)' \subseteq
                          IF j = cur.job THEN {cur.runner} ELSE RunnersFor(j)
    BY <2>1, <2>2, <2>3, <2>4 DEF RunnersFor
  <2> QED BY <2>5 DEF IInv, AtMostOneRunnerPerJob
<1> QED BY <1>1, <1>2, OnlyCreateRunnerBinds DEF IInv

-----------------------------------------------------------------------------
(* Theorems *)

\* It holds at first.
LEMMA InitIInv == Init => IInv
<1> SUFFICES ASSUME Init PROVE IInv
  OBVIOUS
<1>1. TypeOK
  BY DispatchAssumption DEF Init, TypeOK, NoCur, Cur
<1>2. Bound /\ Chosen /\ AtMostOneRunnerPerJob
  BY DEF Init, Bound, Chosen, AtMostOneRunnerPerJob, RunnersFor
<1> QED BY <1>1, <1>2 DEF IInv

\* Nothing happens to it when nothing happens.
LEMMA StutterIInv == ASSUME IInv, UNCHANGED vars PROVE IInv'
<1>1. TypeOK'
  BY DEF vars, IInv, TypeOK
<1>2. Bound' /\ Chosen' /\ AtMostOneRunnerPerJob'
  BY DEF vars, IInv, Bound, Chosen, AtMostOneRunnerPerJob, RunnersFor
<1> QED BY <1>1, <1>2 DEF IInv

\* The invariant the others rest on holds throughout.
THEOREM Invariance == Spec => []IInv
<1>1. IInv /\ [Next]_vars => IInv'
  <2> SUFFICES ASSUME IInv, [Next]_vars PROVE IInv'
    OBVIOUS
  <2>1. CASE Next
    BY <2>1, NextTyped, NextBound, NextChosen, NextAtMostOne DEF IInv
  <2>2. CASE UNCHANGED vars
    BY <2>2, StutterIInv
  <2> QED BY <2>1, <2>2
<1> QED BY <1>1, InitIInv, PTL DEF Spec

\* The state of the dispatch always has its types: rows, records, reservations and channels only
\* ever hold jobs, agents and runners, whatever is lost, late or restarted.
THEOREM TypeCorrect == Spec => []TypeOK
<1>1. IInv => TypeOK
  BY DEF IInv
<1> QED BY <1>1, Invariance, PTL

\* At most one runner record per job, for any number of jobs, agents and runners, any retry limit
\* and any faults (runners_for_job: "In normal operation this returns 0 or 1 rows").
THEOREM OneRunnerPerJob == Spec => []AtMostOneRunnerPerJob
<1>1. IInv => AtMostOneRunnerPerJob
  BY DEF IInv
<1> QED BY <1>1, Invariance, PTL

-----------------------------------------------------------------------------
(* A queued job keeps its row *)

\* Passes work from rows read before. A row read keeps step with the row in the queue as long as
\* that is there: its retries only grow, and it can only come back once the pass is over.
RowsKept ==
  /\ at \notin {"pass", "reserve", "create"} => rows = {}
  /\ \A row \in rows : row.job \in pending => row.retry <= retry[row.job]
  /\ \A j \in Jobs : forgeStatus[j] = "none" => j \notin pending /\ \A row \in rows : row.job # j

\* The queue loses rows, or retries grow.
Shrinks == pending' \subseteq pending /\ \A j \in pending' : retry'[j] >= retry[j]

\* DropRows and ChargeRetry only do that.
LEMMA DropShrinks == ASSUME QueueTyped, NEW S, DropRows(S) PROVE Shrinks
BY DEF QueueTyped, DropRows, Shrinks

\* Charging an attempt only takes rows away.
LEMMA ChargeShrinks == ASSUME QueueTyped, NEW j, NEW who, ChargeRetry(j, who) PROVE Shrinks
BY DropShrinks DEF QueueTyped, ChargeRetry, Increment, Shrinks

\* Only a new job and the scan add rows.
LEMMA OnlyTheForgeAdds ==
  ASSUME IInv, Next
  PROVE  \/ \E j \in Jobs : JobQueued(j)
         \/ \E heard \in SUBSET Jobs : ScanForges(heard)
         \/ Shrinks
<1> DEFINE Adds == (\E j \in Jobs : JobQueued(j)) \/ (\E heard \in SUBSET Jobs : ScanForges(heard))
<1> SUFFICES ASSUME ~Adds PROVE Shrinks
  OBVIOUS
<1>0. QueueTyped /\ (UNCHANGED queueVars => Shrinks)
  BY DEF IInv, TypeOK, QueueTyped, Shrinks
<1>1. CASE PassStep
  BY <1>1, <1>0, DropShrinks, ChargeShrinks DEF PassStep, AbandonRow, SkipRow, SelectAgent,
     ReserveSlot, ReserveFails, JobGone, JitFails, CreateRunner, SettleEvent
<1>2. CASE CheckStep
  BY <1>2, <1>0 DEF CheckStep, SpareIdle, TearDownIdle
<1>3. ASSUME NEW e \in Event, HandleEvent(e) PROVE Shrinks
  BY <1>3, <1>0, DropShrinks, ChargeShrinks DEF HandleEvent, LateEvent, IdledEvent,
     UntrackedEvent, CompletedEvent, FailedEvent
<1>4. CASE StartPass \/ HandleRecovery
  BY <1>4, <1>0 DEF StartPass, HandleRecovery
<1>5. ASSUME NEW old \in SUBSET Runners, NEW expired \in SUBSET Runners,
             StartIdleCheck(old, expired)
      PROVE  Shrinks
  BY <1>5, <1>0 DEF StartIdleCheck
<1>6. ASSUME NEW j \in Jobs, BackoffOver(j) \/ ForgeStep(j) \/ WebhookCompleted(j)
      PROVE  Shrinks
  BY <1>6, <1>0, DropShrinks DEF BackoffOver, ForgeStep, JobQueued, JobStarts, JobEnds,
     WebhookCompleted
<1>7. ASSUME NEW heard \in SUBSET Jobs, ScanForges(heard) PROVE Shrinks
  BY <1>7 DEF ScanForges
<1>8. ASSUME NEW r \in Runners, CommandStep(r) PROVE Shrinks
  <2>1. CASE ChargeFailed(r)
    <3>1. UNCHANGED queueVars \/ (jobOf[r] \in Jobs /\ Increment(jobOf[r], {host[r]}))
      BY <2>1 DEF ChargeFailed, IInv, Bound
    <3> QED BY <1>0, <3>1 DEF QueueTyped, Increment, Shrinks
  <2>2. CASE AbandonFailed(r)
    BY <2>2, <1>0, DropShrinks DEF AbandonFailed
  <2> QED
    BY <1>8, <1>0, <2>1, <2>2
       DEF CommandStep, RecvAck, CommandTimeout, RemoveRejected, RemoveFailed
<1>9. ASSUME NEW r \in Runners, AgentStep(r) PROVE Shrinks
  BY <1>9, <1>0 DEF AgentStep, AgentAccept, AgentRefuse, AgentDestroy, DeliverEvent, EndVm
<1>10. ASSUME NEW r \in Runners, SendFailover(r) \/ WatcherExit(r) \/ CleanUp(r)
       PROVE  Shrinks
  BY <1>10, <1>0 DEF SendFailover, WatcherExit, CleanUp
<1>11. ASSUME NEW a \in Agents, Connect(a) \/ ClaimFailover(a) \/ OrphanSweep(a)
       PROVE  Shrinks
  BY <1>11, <1>0 DEF Connect, ClaimFailover, OrphanSweep
<1>12. ASSUME NEW a \in Agents, NEW elapsed \in SUBSET Runners, StatusReport(a, elapsed)
       PROVE  Shrinks
  BY <1>12, <1>0 DEF StatusReport
<1>13. ASSUME NEW a \in Agents, NEW dies \in BOOLEAN, NEW lost \in SUBSET Runners,
              Disconnect(a, dies, lost)
       PROVE  Shrinks
  BY <1>13, <1>0 DEF Disconnect
<1>14. ASSUME NEW lost \in SUBSET Runners, CoordinatorCrash(lost) PROVE Shrinks
  BY <1>14, <1>0 DEF CoordinatorCrash
<1> QED
  BY <1>1, <1>2, <1>3, <1>4, <1>5, <1>6, <1>7, <1>8, <1>9, <1>10, <1>11, <1>12, <1>13, <1>14
     DEF Next

\* What a step does to the rows read before: some are done with, or a new pass reads new ones.
RowsMove ==
  /\ rows' \subseteq rows \/ rows' = Rows'
  /\ at' \in {"pass", "reserve", "create"} \/ rows' = {} \/ (at' = at /\ rows' = rows)
  /\ at \in {"pass", "reserve", "create"} \/ rows' = Rows' \/ rows' = rows

\* That is what every step does to them.
LEMMA NextRowsMove ==
  ASSUME Next, at \notin {"pass", "reserve", "create"} => rows = {}
  PROVE  RowsMove
<1>1. CASE PassStep
  BY <1>1 DEF RowsMove, PassStep, AbandonRow, SkipRow, SelectAgent, ReserveSlot, ReserveFails,
     JobGone, JitFails, CreateRunner, SettleEvent, NextRow, BeginPass, Rows
<1>2. CASE CheckStep
  BY <1>2 DEF RowsMove, CheckStep, SpareIdle, TearDownIdle, CheckNext
<1>3. ASSUME NEW e \in Event, HandleEvent(e) PROVE RowsMove
  BY <1>3 DEF RowsMove, HandleEvent, LateEvent, IdledEvent, UntrackedEvent, CompletedEvent,
     FailedEvent, TakeEvent, BeginPass, Rows
<1>4. CASE StartPass \/ HandleRecovery
  BY <1>4 DEF RowsMove, StartPass, HandleRecovery, BeginPass, Rows
<1>5. ASSUME NEW old \in SUBSET Runners, NEW expired \in SUBSET Runners,
             StartIdleCheck(old, expired)
      PROVE  RowsMove
  BY <1>5 DEF RowsMove, StartIdleCheck
<1>6. ASSUME NEW j \in Jobs, BackoffOver(j) \/ ForgeStep(j) \/ WebhookCompleted(j)
      PROVE  RowsMove
  BY <1>6 DEF RowsMove, BackoffOver, ForgeStep, JobQueued, JobStarts, JobEnds, WebhookCompleted,
     BeginPass, Rows
<1>7. ASSUME NEW heard \in SUBSET Jobs, ScanForges(heard) PROVE RowsMove
  BY <1>7 DEF RowsMove, ScanForges, BeginPass, Rows
<1>8. ASSUME NEW r \in Runners, CommandStep(r) PROVE RowsMove
  BY <1>8 DEF RowsMove, CommandStep, RecvAck, CommandTimeout, RemoveRejected, RemoveFailed,
     ChargeFailed, AbandonFailed
<1>9. ASSUME NEW r \in Runners, AgentStep(r) PROVE RowsMove
  BY <1>9 DEF RowsMove, AgentStep, AgentAccept, AgentRefuse, AgentDestroy, DeliverEvent, EndVm
<1>10. ASSUME NEW r \in Runners, SendFailover(r) \/ WatcherExit(r) \/ CleanUp(r)
       PROVE  RowsMove
  BY <1>10 DEF RowsMove, SendFailover, WatcherExit, CleanUp
<1>11. ASSUME NEW a \in Agents, Connect(a) \/ ClaimFailover(a) \/ OrphanSweep(a)
       PROVE  RowsMove
  BY <1>11 DEF RowsMove, Connect, ClaimFailover, OrphanSweep
<1>12. ASSUME NEW a \in Agents, NEW elapsed \in SUBSET Runners, StatusReport(a, elapsed)
       PROVE  RowsMove
  BY <1>12 DEF RowsMove, StatusReport
<1>13. ASSUME NEW a \in Agents, NEW dies \in BOOLEAN, NEW lost \in SUBSET Runners,
              Disconnect(a, dies, lost)
       PROVE  RowsMove
  BY <1>13 DEF RowsMove, Disconnect
<1>14. ASSUME NEW lost \in SUBSET Runners, CoordinatorCrash(lost) PROVE RowsMove
  BY <1>14 DEF RowsMove, CoordinatorCrash, Rows
<1> QED
  BY <1>1, <1>2, <1>3, <1>4, <1>5, <1>6, <1>7, <1>8, <1>9, <1>10, <1>11, <1>12, <1>13, <1>14
     DEF Next

\* A job that was queued stays known.
LEMMA StatusesGrow ==
  ASSUME TypeOK, Next PROVE \A j \in Jobs : forgeStatus'[j] = "none" => forgeStatus[j] = "none"
<1> DEFINE Grows == \A j \in Jobs : forgeStatus'[j] = "none" => forgeStatus[j] = "none"
<1>1. CASE PassStep
  BY <1>1 DEF PassStep, AbandonRow, SkipRow, SelectAgent, ReserveSlot, ReserveFails, JobGone,
     JitFails, CreateRunner, SettleEvent
<1>2. CASE CheckStep
  BY <1>2 DEF CheckStep, SpareIdle, TearDownIdle
<1>3. ASSUME NEW e \in Event, HandleEvent(e) PROVE Grows
  BY <1>3 DEF HandleEvent, LateEvent, IdledEvent, UntrackedEvent, CompletedEvent, FailedEvent
<1>4. CASE StartPass \/ HandleRecovery
  BY <1>4 DEF StartPass, HandleRecovery
<1>5. ASSUME NEW old \in SUBSET Runners, NEW expired \in SUBSET Runners,
             StartIdleCheck(old, expired)
      PROVE  Grows
  BY <1>5 DEF StartIdleCheck
<1>6. ASSUME NEW j \in Jobs, BackoffOver(j) \/ ForgeStep(j) \/ WebhookCompleted(j)
      PROVE  Grows
  BY <1>6 DEF BackoffOver, ForgeStep, JobQueued, JobStarts, JobEnds, WebhookCompleted, TypeOK
<1>7. ASSUME NEW heard \in SUBSET Jobs, ScanForges(heard) PROVE Grows
  BY <1>7 DEF ScanForges
<1>8. ASSUME NEW r \in Runners, CommandStep(r) PROVE Grows
  BY <1>8 DEF CommandStep, RecvAck, CommandTimeout, RemoveRejected, RemoveFailed, ChargeFailed,
     AbandonFailed
<1>9. ASSUME NEW r \in Runners, AgentStep(r) PROVE Grows
  BY <1>9 DEF AgentStep, AgentAccept, AgentRefuse, AgentDestroy, DeliverEvent, EndVm
<1>10. ASSUME NEW r \in Runners, SendFailover(r) \/ WatcherExit(r) \/ CleanUp(r)
       PROVE  Grows
  BY <1>10 DEF SendFailover, WatcherExit, CleanUp
<1>11. ASSUME NEW a \in Agents, Connect(a) \/ ClaimFailover(a) \/ OrphanSweep(a)
       PROVE  Grows
  BY <1>11 DEF Connect, ClaimFailover, OrphanSweep
<1>12. ASSUME NEW a \in Agents, NEW elapsed \in SUBSET Runners, StatusReport(a, elapsed)
       PROVE  Grows
  BY <1>12 DEF StatusReport
<1>13. ASSUME NEW a \in Agents, NEW dies \in BOOLEAN, NEW lost \in SUBSET Runners,
              Disconnect(a, dies, lost)
       PROVE  Grows
  BY <1>13 DEF Disconnect
<1>14. ASSUME NEW lost \in SUBSET Runners, CoordinatorCrash(lost) PROVE Grows
  BY <1>14 DEF CoordinatorCrash
<1> QED
  BY <1>1, <1>2, <1>3, <1>4, <1>5, <1>6, <1>7, <1>8, <1>9, <1>10, <1>11, <1>12, <1>13, <1>14
     DEF Next

\* Every step keeps RowsKept.
LEMMA NextRowsKept == ASSUME IInv, RowsKept, Next PROVE RowsKept'
<1>1. RowsMove
  BY NextRowsMove DEF RowsKept
<1>2. at' \notin {"pass", "reserve", "create"} => rows' = {}
  BY <1>1 DEF RowsMove, RowsKept
<1>3. rows \subseteq Row /\ QueueTyped /\ QueueTyped'
  BY NextTyped DEF IInv, TypeOK, QueueTyped
<1>4. \A row \in rows' : row.job \in pending' => row.retry <= retry'[row.job]
  <2>1. CASE rows' = Rows'
    BY <2>1, <1>3 DEF Rows, QueueTyped
  <2>2. CASE rows' \subseteq rows /\ Shrinks
    BY <2>2, <1>3 DEF RowsKept, Shrinks, Row, QueueTyped
  <2>3. ASSUME NEW j \in Jobs, JobQueued(j)
        PROVE  \A row \in rows' : row.job \in pending' => row.retry <= retry'[row.job]
    BY <2>3 DEF JobQueued, RowsKept
  <2>4. ASSUME NEW heard \in SUBSET Jobs, ScanForges(heard)
        PROVE  rows' = Rows' \/ rows' = {}
    BY <2>4 DEF ScanForges, BeginPass, RowsKept
  <2> QED BY <1>1, <2>1, <2>2, <2>3, <2>4, OnlyTheForgeAdds DEF RowsMove
<1>5. \A j \in Jobs : forgeStatus'[j] = "none" =>
        j \notin pending' /\ \A row \in rows' : row.job # j
  <2> SUFFICES ASSUME NEW j \in Jobs, forgeStatus'[j] = "none"
               PROVE  j \notin pending' /\ \A row \in rows' : row.job # j
    OBVIOUS
  <2>1. forgeStatus[j] = "none" /\ j \notin pending /\ \A row \in rows : row.job # j
    BY StatusesGrow DEF IInv, RowsKept
  <2>2. j \notin pending'
    <3>1. ASSUME NEW i \in Jobs, JobQueued(i) PROVE j \notin pending'
      BY <3>1, <2>1 DEF JobQueued, IInv, TypeOK
    <3>2. ASSUME NEW heard \in SUBSET Jobs, ScanForges(heard) PROVE j \notin pending'
      BY <3>2, <2>1 DEF ScanForges, Missed
    <3> QED BY <2>1, <3>1, <3>2, OnlyTheForgeAdds DEF Shrinks
  <2> QED BY <1>1, <2>1, <2>2 DEF RowsMove, Rows
<1> QED BY <1>2, <1>4, <1>5 DEF RowsKept

-----------------------------------------------------------------------------
(* Dispatch implements JobQueue *)

\* A job without a row has all its tries.
NoneTried == \A j \in Jobs \ pending : retry[j] = 0

\* A name that is about to get a command has none.
TriesWhole == NoneTried /\ (at = "create" => task[cur.runner] = "none")

QueueInv == RowsKept /\ TriesWhole

\* No row goes for a job with tries left, or comes with fewer.
LEMMA DropWhole == ASSUME QueueTyped, NoneTried, NEW S, DropRows(S) PROVE NoneTried'
BY DEF QueueTyped, DropRows, NoneTried

\* Nor does one by being charged.
LEMMA ChargeWhole ==
  ASSUME QueueTyped, NoneTried, NEW j, NEW who, ChargeRetry(j, who) PROVE NoneTried'
BY DropWhole DEF QueueTyped, ChargeRetry, Increment, NoneTried

\* The command tasks that are about to remove a row stay the same.
TasksStay == \A r \in Runners : task'[r] = "abandon" <=> task[r] = "abandon"

\* Nothing happens to jobs, rows and runners.
QueueStays == UNCHANGED <<forgeStatus, pending, retry, recorded, jobOf>> /\ TasksStay

\* Only the rows change.
OnlyRows == UNCHANGED <<recorded, jobOf>> /\ TasksStay

\* What a step on Dispatch is for JobQueue.
QueueMoves == Queue!Next \/ UNCHANGED Queue!vars

\* The mapped variables, as they stay the same.
LEMMA MappedStay ==
  /\ UNCHANGED <<recorded, jobOf>> =>
       [j \in Jobs |-> RunnersFor(j)]' = [j \in Jobs |-> RunnersFor(j)]
  /\ jobOf' = jobOf /\ TasksStay => Spent' = Spent
<1>1. ASSUME UNCHANGED <<recorded, jobOf>>
      PROVE  [j \in Jobs |-> RunnersFor(j)]' = [j \in Jobs |-> RunnersFor(j)]
  BY <1>1 DEF RunnersFor
<1>2. ASSUME jobOf' = jobOf, TasksStay PROVE Spent' = Spent
  BY <1>2 DEF Spent, TasksStay
<1> QED BY <1>1, <1>2

\* Steps that leave jobs, rows and runners alone.
LEMMA StaysMoves == ASSUME QueueStays PROVE QueueMoves
BY MappedStay DEF QueueStays, QueueMoves, Queue!vars

\* A row is removed when its job is not queued or at its last try.
LEMMA DropMoves ==
  ASSUME IInv, TriesWhole, NEW j \in Jobs, DropRows({j}), OnlyRows, forgeStatus' = forgeStatus,
         j \in pending => forgeStatus[j] # "queued" \/ retry[j] + 1 >= MaxRetries
  PROVE  QueueMoves
<1>0. UNCHANGED <<forgeStatus, [i \in Jobs |-> RunnersFor(i)], Spent>>
  BY MappedStay DEF OnlyRows
<1>1. /\ pending' = pending \ {j}
      /\ retry' = [i \in Jobs |-> IF i \in {j} THEN 0 ELSE retry[i]]
  BY DEF DropRows
<1>2. CASE j \in pending
  <2>1. Queue!Drop(j)
    BY <1>0, <1>1, <1>2 DEF Queue!Drop, Queue!Without
  <2> QED BY <2>1 DEF QueueMoves, Queue!Next
<1>3. CASE j \notin pending
  <2>1. retry \in [Jobs -> Nat] /\ retry[j] = 0
    BY <1>3 DEF IInv, TypeOK, TriesWhole, NoneTried
  <2>2. pending' = pending /\ retry' = retry
    BY <1>1, <1>3, <2>1
  <2> QED BY <1>0, <2>2 DEF QueueMoves, Queue!vars
<1> QED BY <1>2, <1>3

\* The loop charges a try, or removes the row with the last.
LEMMA ChargeMoves ==
  ASSUME IInv, TriesWhole, NEW j \in Jobs, NEW who, ChargeRetry(j, who), OnlyRows,
         forgeStatus' = forgeStatus
  PROVE  QueueMoves
<1>0. UNCHANGED <<forgeStatus, [i \in Jobs |-> RunnersFor(i)], Spent>>
  BY MappedStay DEF OnlyRows
<1>1. CASE j \notin pending /\ UNCHANGED queueVars
  BY <1>0, <1>1 DEF QueueMoves, Queue!vars
<1>2. CASE j \in pending /\ retry[j] + 1 < MaxRetries /\ Increment(j, who)
  <2>1. retry' = [retry EXCEPT ![j] = @ + 1] /\ pending' = pending
    BY <1>2 DEF Increment
  <2>2. ~(retry[j] + 1 >= MaxRetries)
    BY <1>2, DispatchAssumption DEF IInv, TypeOK
  <2>3. Queue!Charge(j)
    BY <1>0, <1>2, <2>1, <2>2 DEF Queue!Charge
  <2> QED BY <2>3 DEF QueueMoves, Queue!Next
<1>3. CASE j \in pending /\ retry[j] + 1 >= MaxRetries /\ DropRows({j})
  BY <1>3, DropMoves
<1> QED BY <1>1, <1>2, <1>3 DEF ChargeRetry

\* A record that is removed was its job's only one.
LEMMA RemovalMoves ==
  ASSUME IInv, NEW r, recorded' = recorded \ {r}, jobOf' = jobOf, TasksStay,
         UNCHANGED <<forgeStatus, pending, retry>>
  PROVE  QueueMoves
<1>0. Spent' = Spent
  BY MappedStay
<1>1. CASE r \notin recorded
  <2>1. recorded' = recorded
    BY <1>1
  <2> QED BY <2>1, StaysMoves DEF QueueStays
<1>2. CASE r \in recorded
  <2> DEFINE j == jobOf[r]
             runners == [i \in Jobs |-> RunnersFor(i)]
  <2>1. r \in Runners /\ j \in Jobs
    BY <1>2 DEF IInv, TypeOK, Bound
  <2>2. RunnersFor(j) = {r}
    BY <1>2, <2>1 DEF IInv, AtMostOneRunnerPerJob, RunnersFor
  <2>3. \A i \in Jobs : RunnersFor(i)' = IF i = j THEN {} ELSE RunnersFor(i)
    BY <2>2 DEF RunnersFor
  <2>4. runners' = [runners EXCEPT ![j] = {}]
    BY <2>1, <2>3
  <2>5. runners[j] # {}
    BY <2>1, <2>2
  <2>6. Queue!Release(j)
    BY <1>0, <2>4, <2>5 DEF Queue!Release
  <2> QED BY <2>1, <2>6 DEF QueueMoves, Queue!Next
<1> QED BY <1>1, <1>2

\* The runner that is recorded is its job's first, and no other's.
LEMMA CreateMoves == ASSUME IInv, TriesWhole, CreateRunner PROVE QueueMoves
<1> DEFINE r == cur.runner
           j == cur.job
           runners == [i \in Jobs |-> RunnersFor(i)]
<1>1. /\ r \in Runners \ recorded /\ j \in Jobs /\ RunnersFor(j) = {} /\ task[r] = "none"
      /\ recorded' = recorded \cup {r} /\ jobOf' = [jobOf EXCEPT ![r] = j]
      /\ \E t \in {"sent", "error"} : task' = [task EXCEPT ![r] = t]
      /\ UNCHANGED <<forgeStatus, pending, retry>>
  BY DEF IInv, Chosen, TriesWhole, CreateRunner
<1>2. jobOf \in [Runners -> Jobs \cup {None}] /\ recorded \subseteq Runners
      /\ DOMAIN task = Runners
  BY DEF IInv, TypeOK
<1> HIDE DEF r, j
<1>3. \A i \in Jobs : RunnersFor(i)' = IF i = j THEN {r} ELSE RunnersFor(i)
  <2>1. \A s \in recorded : s # r /\ jobOf'[s] = jobOf[s]
    BY <1>1, <1>2
  <2>2. jobOf'[r] = j
    BY <1>1, <1>2
  <2> QED BY <1>1, <2>1, <2>2 DEF RunnersFor
<1>4. runners' = [runners EXCEPT ![j] = {r}] /\ runners[j] = {}
  BY <1>1, <1>3
<1>5. \A i \in Jobs : r \notin runners[i]
  BY <1>1 DEF RunnersFor
<1>6. Spent' = Spent
  <2>1. \A s \in Runners : task'[s] = "abandon" <=> task[s] = "abandon"
    BY <1>1, <1>2
  <2>2. \A s \in Runners : task[s] = "abandon" => jobOf'[s] = jobOf[s]
    BY <1>1, <1>2
  <2> QED BY <2>1, <2>2 DEF Spent
<1>7. Queue!Assign(j, r)
  BY <1>1, <1>4, <1>5, <1>6 DEF Queue!Assign
<1> QED BY <1>1, <1>7 DEF QueueMoves, Queue!Next

\* A command task charges its job, and removes its row if that was the last try.
LEMMA TaskMoves ==
  ASSUME IInv, TriesWhole, NEW r \in Runners, ChargeFailed(r) \/ AbandonFailed(r)
  PROVE  QueueMoves
<1> DEFINE j == jobOf[r]
<1>0. /\ j \in Jobs /\ DOMAIN task = Runners /\ retry \in [Jobs -> Nat]
      /\ UNCHANGED <<forgeStatus, recorded, jobOf>>
  <2>1. task[r] \in {"charge", "abandon"} /\ UNCHANGED <<forgeStatus, recorded, jobOf>>
    BY DEF ChargeFailed, AbandonFailed
  <2> QED BY <2>1 DEF IInv, TypeOK, Bound
<1>1. UNCHANGED <<forgeStatus, [i \in Jobs |-> RunnersFor(i)]>>
  BY <1>0, MappedStay
<1>2. CASE ChargeFailed(r) /\ j \notin pending
  <2>1. UNCHANGED <<pending, retry>> /\ TasksStay
    BY <1>0, <1>2 DEF ChargeFailed, TasksStay
  <2> QED BY <1>0, <2>1, StaysMoves DEF QueueStays
<1>3. CASE ChargeFailed(r) /\ j \in pending
  <2>1. pending' = pending /\ retry' = [retry EXCEPT ![j] = @ + 1] /\ task[r] = "charge"
        /\ task' = [task EXCEPT ![r] = IF retry[j] + 1 >= MaxRetries THEN "abandon" ELSE "none"]
    BY <1>3 DEF ChargeFailed, Increment
  <2>2. CASE retry[j] + 1 >= MaxRetries
    <3>1. \A s \in Runners : task'[s] = "abandon" <=> task[s] = "abandon" \/ s = r
      BY <1>0, <2>1, <2>2
    <3>2. Spent' = Spent \cup {j}
      BY <1>0, <3>1 DEF Spent
    <3> HIDE DEF j
    <3>3. Queue!Charge(j)
      BY <1>1, <1>3, <2>1, <2>2, <3>2 DEF Queue!Charge
    <3> QED BY <1>0, <3>3 DEF QueueMoves, Queue!Next
  <2>3. CASE ~(retry[j] + 1 >= MaxRetries)
    <3>1. TasksStay
      BY <1>0, <2>1, <2>3 DEF TasksStay
    <3>2. Spent' = Spent
      BY <1>0, <3>1, MappedStay
    <3> HIDE DEF j
    <3>3. Queue!Charge(j)
      BY <1>1, <1>3, <2>1, <2>3, <3>2 DEF Queue!Charge
    <3> QED BY <1>0, <3>3 DEF QueueMoves, Queue!Next
  <2> QED BY <2>2, <2>3
<1>4. CASE AbandonFailed(r)
  <2>1. task[r] = "abandon" /\ task' = [task EXCEPT ![r] = "none"]
        /\ pending' = pending \ {j}
        /\ retry' = [i \in Jobs |-> IF i \in {j} THEN 0 ELSE retry[i]]
    BY <1>4 DEF AbandonFailed, DropRows
  <2>2. j \in Spent
    BY <2>1 DEF Spent
  <2>3. \A s \in Runners : task'[s] = "abandon" <=> task[s] = "abandon" /\ s # r
    BY <1>0, <2>1
  <2>4. Spent' \in {Spent, Spent \ {j}}
    BY <1>0, <2>3 DEF Spent
  <2> HIDE DEF j
  <2>5. Queue!GiveUp(j)
    BY <1>1, <2>1, <2>2, <2>4 DEF Queue!GiveUp, Queue!Without
  <2> QED BY <1>0, <2>5 DEF QueueMoves, Queue!Next
<1> QED BY <1>2, <1>3, <1>4

\* Jobs come up and end at their forge.
LEMMA ForgeMoves ==
  ASSUME IInv, RowsKept, NEW j \in Jobs, ForgeStep(j) PROVE QueueMoves
<1>1. UNCHANGED <<[i \in Jobs |-> RunnersFor(i)], Spent>>
  <2>1. UNCHANGED <<recorded, jobOf, task>>
    BY DEF ForgeStep, JobQueued, JobStarts, JobEnds
  <2> QED BY <2>1, MappedStay DEF TasksStay
<1>2. CASE JobQueued(j)
  <2>1. j \notin pending
    BY <1>2 DEF JobQueued, RowsKept
  <2>2. Queue!Appear(j)
    BY <1>1, <1>2, <2>1 DEF JobQueued, Queue!Appear
  <2> QED BY <2>2 DEF QueueMoves, Queue!Next
<1>3. CASE JobStarts(j) \/ JobEnds(j)
  <2>1. Queue!Advance(j)
    BY <1>1, <1>3 DEF JobStarts, JobEnds, Queue!Advance
  <2> QED BY <2>1 DEF QueueMoves, Queue!Next
<1> QED BY <1>2, <1>3 DEF ForgeStep

\* A scan takes jobs out that are no longer queued, and brings back queued ones with all their tries.
LEMMA ScanMoves ==
  ASSUME IInv, TriesWhole, NEW heard \in SUBSET Jobs, ScanForges(heard) PROVE QueueMoves
<1> DEFINE gone == {j \in heard \cap pending : forgeStatus[j] # "queued"}
           missed == {j \in heard \ pending : Missed(j)}
           runners == [i \in Jobs |-> RunnersFor(i)]
<1>1. UNCHANGED <<forgeStatus, runners, Spent>>
  <2>1. UNCHANGED <<forgeStatus, recorded, jobOf, task>>
    BY DEF ScanForges
  <2> QED BY <2>1, MappedStay DEF TasksStay
<1>2. /\ pending' = (pending \ gone) \cup missed
      /\ retry' = [j \in Jobs |-> IF j \in gone THEN 0 ELSE retry[j]]
  BY DEF ScanForges
<1>3. \A j \in missed : j \in Jobs /\ retry[j] = 0 /\ forgeStatus[j] = "queued" /\ runners[j] = {}
  BY DEF TriesWhole, NoneTried, Missed
<1>4. retry' = [j \in Jobs |-> IF j \in gone \cup missed THEN 0 ELSE retry[j]]
  BY <1>2, <1>3
<1>5. /\ gone \subseteq pending /\ missed \cap pending = {}
      /\ gone \in SUBSET Jobs /\ missed \in SUBSET Jobs
      /\ \A j \in gone : forgeStatus[j] # "queued"
  OBVIOUS
<1> HIDE DEF gone, missed
<1>6. Queue!Sweep(gone, missed)
  BY <1>1, <1>2, <1>3, <1>4, <1>5 DEF Queue!Sweep
<1> QED BY <1>5, <1>6 DEF QueueMoves, Queue!Next

\* A pass removes the row of a job it read as used up, and of jobs no longer queued.
LEMMA PassMoves == ASSUME IInv, QueueInv, PassStep PROVE QueueMoves
<1> USE DEF QueueInv
<1>1. ASSUME NEW row \in rows, AbandonRow(row) PROVE QueueMoves
  <2>1. row.job \in Jobs /\ row.retry \in Nat /\ MaxRetries \in Nat
    BY DispatchAssumption DEF IInv, TypeOK, Row
  <2>2. row.job \in pending => retry[row.job] + 1 >= MaxRetries
    BY <1>1, <2>1 DEF IInv, TypeOK, RowsKept, AbandonRow
  <2>3. OnlyRows /\ forgeStatus' = forgeStatus /\ DropRows({row.job})
    BY <1>1 DEF AbandonRow, OnlyRows, TasksStay
  <2> QED BY <2>1, <2>2, <2>3, DropMoves
<1>2. CASE ReserveFails \/ JitFails
  <2>1. cur.job \in Jobs /\ OnlyRows /\ forgeStatus' = forgeStatus /\ ChargeRetry(cur.job, {})
    BY <1>2 DEF IInv, Chosen, ReserveFails, JitFails, OnlyRows, TasksStay
  <2> QED BY <2>1, ChargeMoves
<1>3. CASE JobGone
  <2>1. /\ cur.job \in Jobs /\ OnlyRows /\ forgeStatus' = forgeStatus /\ DropRows({cur.job})
        /\ forgeStatus[cur.job] # "queued"
    BY <1>3 DEF IInv, Chosen, JobGone, OnlyRows, TasksStay
  <2> QED BY <2>1, DropMoves
<1>4. CASE SettleEvent
  <2>1. /\ recorded' = recorded \ {cur.runner} /\ jobOf' = jobOf /\ TasksStay
        /\ UNCHANGED <<forgeStatus, pending, retry>>
    BY <1>4 DEF SettleEvent, RemoveRecord, TasksStay
  <2> QED BY <2>1, RemovalMoves
<1>5. CASE (\E row \in rows : SkipRow(row) \/ SelectAgent(row)) \/ \E r \in Runners : ReserveSlot(r)
  <2>1. QueueStays
    BY <1>5 DEF SkipRow, SelectAgent, ReserveSlot, QueueStays, TasksStay
  <2> QED BY <2>1, StaysMoves
<1> QED BY <1>1, <1>2, <1>3, <1>4, <1>5, CreateMoves DEF PassStep

\* An event charges its job, or tells it is no longer queued, or has its runner's record removed.
LEMMA EventMoves == ASSUME IInv, QueueInv, NEW e \in Event, HandleEvent(e) PROVE QueueMoves
<1> DEFINE r == e.runner
           j == jobOf[r]
<1>0. r \in recorded => j \in Jobs
  BY DEF Event, IInv, TypeOK, Bound
<1>1. CASE LateEvent(e) \/ UntrackedEvent(e)
  <2>1. QueueStays
    BY <1>1 DEF LateEvent, UntrackedEvent, QueueStays, TasksStay
  <2> QED BY <2>1, StaysMoves
<1>2. CASE IdledEvent(e)
  <2>1. jobOf' = jobOf /\ TasksStay /\ UNCHANGED <<forgeStatus, pending, retry>>
    BY <1>2 DEF IdledEvent, TasksStay
  <2>2. recorded' = recorded \ {r}
    BY <1>2 DEF IdledEvent, RemoveRecord
  <2> QED BY <2>1, <2>2, RemovalMoves
<1>3. CASE CompletedEvent(e)
  <2>1. OnlyRows /\ forgeStatus' = forgeStatus /\ r \in recorded
    BY <1>3 DEF CompletedEvent, OnlyRows, TasksStay
  <2>2. CASE UNCHANGED queueVars
    BY <2>1, <2>2, StaysMoves DEF QueueStays, OnlyRows
  <2>3. CASE JobIsDone(j) /\ DropRows({j})
    BY <1>0, <2>1, <2>3, DropMoves DEF JobIsDone, QueueInv
  <2> QED BY <1>3, <2>2, <2>3 DEF CompletedEvent
<1>4. CASE FailedEvent(e)
  <2>1. OnlyRows /\ forgeStatus' = forgeStatus /\ r \in recorded /\ ChargeRetry(j, Blamed(r))
    BY <1>4 DEF FailedEvent, OnlyRows, TasksStay
  <2> QED BY <1>0, <2>1, ChargeMoves DEF QueueInv
<1> QED BY <1>1, <1>2, <1>3, <1>4 DEF HandleEvent

\* A restart has no command task about to remove a row.
LEMMA CrashMoves == ASSUME IInv, NEW lost, CoordinatorCrash(lost) PROVE QueueMoves
<1>1. UNCHANGED <<forgeStatus, pending, retry, recorded, jobOf>>
  BY DEF CoordinatorCrash
<1>2. UNCHANGED [i \in Jobs |-> RunnersFor(i)]
  BY <1>1, MappedStay
<1>3. Spent' = {}
  BY DEF CoordinatorCrash, Spent
<1>4. Queue!Forget
  BY <1>1, <1>2, <1>3 DEF Queue!Forget
<1> QED BY <1>4 DEF QueueMoves, Queue!Next

\* Every step of Dispatch is one of JobQueue, or none.
LEMMA NextMoves == ASSUME IInv, QueueInv, Next PROVE QueueMoves
<1>1. CASE StartPass \/ HandleRecovery \/ CheckStep
  <2>1. QueueStays
    BY <1>1 DEF StartPass, HandleRecovery, CheckStep, SpareIdle, TearDownIdle, QueueStays,
                TasksStay
  <2> QED BY <2>1, StaysMoves
<1>2. ASSUME NEW old \in SUBSET Runners, NEW expired \in SUBSET Runners,
             StartIdleCheck(old, expired)
      PROVE  QueueMoves
  <2>1. QueueStays
    BY <1>2 DEF StartIdleCheck, QueueStays, TasksStay
  <2> QED BY <2>1, StaysMoves
<1>3. ASSUME NEW j \in Jobs, BackoffOver(j) PROVE QueueMoves
  <2>1. QueueStays
    BY <1>3 DEF BackoffOver, QueueStays, TasksStay
  <2> QED BY <2>1, StaysMoves
<1>4. ASSUME NEW j \in Jobs, WebhookCompleted(j) PROVE QueueMoves
  <2>1. OnlyRows /\ forgeStatus' = forgeStatus /\ DropRows({j}) /\ forgeStatus[j] # "queued"
    BY <1>4 DEF WebhookCompleted, OnlyRows, TasksStay
  <2> QED BY <2>1, DropMoves DEF QueueInv
<1>5. ASSUME NEW r \in Runners, CommandStep(r) PROVE QueueMoves
  <2>1. CASE RecvAck(r) \/ CommandTimeout(r)
    <3>1. UNCHANGED <<forgeStatus, pending, retry, recorded, jobOf>>
      BY <2>1 DEF RecvAck, CommandTimeout
    <3>2. task[r] = "sent" /\ \E t \in {"none", "error"} : task' = [task EXCEPT ![r] = t]
      BY <2>1 DEF RecvAck, CommandTimeout
    <3>3. TasksStay
      BY <3>2 DEF TasksStay, IInv, TypeOK
    <3> QED BY <3>1, <3>3, StaysMoves DEF QueueStays
  <2>2. CASE RemoveRejected(r) \/ RemoveFailed(r)
    <3>1. /\ recorded' = recorded \ {r} /\ jobOf' = jobOf
          /\ UNCHANGED <<forgeStatus, pending, retry>>
      BY <2>2 DEF RemoveRejected, RemoveFailed, RemoveRecord
    <3>2. /\ task[r] \in {"rejected", "error"}
          /\ \E t \in {"none", "charge"} : task' = [task EXCEPT ![r] = t]
      BY <2>2 DEF RemoveRejected, RemoveFailed
    <3>3. TasksStay
      BY <3>2 DEF TasksStay, IInv, TypeOK
    <3> QED BY <3>1, <3>3, RemovalMoves
  <2> QED BY <1>5, <2>1, <2>2, TaskMoves DEF CommandStep, QueueInv
<1>6. ASSUME NEW r \in Runners, AgentStep(r) PROVE QueueMoves
  <2>1. UNCHANGED <<forgeStatus, pending, retry, recorded, jobOf>>
    BY <1>6 DEF AgentStep, AgentAccept, AgentRefuse, AgentDestroy, DeliverEvent, EndVm
  <2>2. task' = task \/ (task[r] = "sent" /\ task' = [task EXCEPT ![r] = "rejected"])
    BY <1>6 DEF AgentStep, AgentAccept, AgentRefuse, AgentDestroy, DeliverEvent, EndVm
  <2>3. TasksStay
    BY <2>2 DEF TasksStay, IInv, TypeOK
  <2> QED BY <2>1, <2>3, StaysMoves DEF QueueStays
<1>7. ASSUME NEW r \in Runners, SendFailover(r) \/ WatcherExit(r) PROVE QueueMoves
  <2>1. QueueStays
    BY <1>7 DEF SendFailover, WatcherExit, QueueStays, TasksStay
  <2> QED BY <2>1, StaysMoves
<1>8. ASSUME NEW r \in Runners, CleanUp(r) PROVE QueueMoves
  <2>1. /\ recorded' = recorded \ {r} /\ jobOf' = jobOf /\ TasksStay
        /\ UNCHANGED <<forgeStatus, pending, retry>>
    BY <1>8 DEF CleanUp, RemoveRecord, TasksStay
  <2> QED BY <2>1, RemovalMoves
<1>9. ASSUME NEW a \in Agents, Connect(a) \/ ClaimFailover(a) \/ OrphanSweep(a)
                               \/ \E elapsed \in SUBSET Runners : StatusReport(a, elapsed)
      PROVE  QueueMoves
  <2>1. QueueStays
    BY <1>9 DEF Connect, ClaimFailover, OrphanSweep, StatusReport, QueueStays, TasksStay
  <2> QED BY <2>1, StaysMoves
<1>10. ASSUME NEW a \in Agents, NEW dies \in BOOLEAN, NEW lost \in SUBSET Runners,
              Disconnect(a, dies, lost)
       PROVE  QueueMoves
  <2>1. UNCHANGED <<forgeStatus, pending, retry, recorded, jobOf>>
    BY <1>10 DEF Disconnect
  <2>2. task' = [r \in Runners |->
          IF host[r] = a /\ task[r] = "sent" THEN "error" ELSE task[r]]
    BY <1>10 DEF Disconnect
  <2>3. TasksStay
    BY <2>2 DEF TasksStay
  <2> QED BY <2>1, <2>3, StaysMoves DEF QueueStays
<1> QED
  BY <1>1, <1>2, <1>3, <1>4, <1>5, <1>6, <1>7, <1>8, <1>9, <1>10, PassMoves, EventMoves,
     ForgeMoves, ScanMoves, CrashMoves DEF Next, QueueInv

\* Every step keeps the tries of jobs without a row whole.
LEMMA NextWhole == ASSUME IInv, QueueInv, Next PROVE TriesWhole'
<1> USE DEF QueueInv
<1>0. QueueTyped
  BY DEF IInv, TypeOK, QueueTyped
<1>1. NoneTried'
  <2>0. NoneTried /\ (UNCHANGED <<pending, retry>> => NoneTried')
    BY DEF TriesWhole, NoneTried
  <2>1. CASE PassStep
    BY <1>0, <2>0, <2>1, DropWhole, ChargeWhole DEF PassStep, AbandonRow, SkipRow, SelectAgent,
       ReserveSlot, ReserveFails, JobGone, JitFails, CreateRunner, SettleEvent
  <2>2. ASSUME NEW e \in Event, HandleEvent(e) PROVE NoneTried'
    BY <1>0, <2>0, <2>2, DropWhole, ChargeWhole DEF HandleEvent, LateEvent, IdledEvent,
       UntrackedEvent, CompletedEvent, FailedEvent
  <2>3. ASSUME NEW j \in Jobs, ForgeStep(j) PROVE NoneTried'
    <3>1. retry' = retry /\ pending \subseteq pending'
      BY <2>3 DEF ForgeStep, JobQueued, JobStarts, JobEnds
    <3> QED BY <2>0, <3>1 DEF NoneTried
  <2>4. ASSUME NEW j \in Jobs, WebhookCompleted(j) PROVE NoneTried'
    BY <1>0, <2>0, <2>4, DropWhole DEF WebhookCompleted
  <2>5. ASSUME NEW heard \in SUBSET Jobs, ScanForges(heard) PROVE NoneTried'
    BY <2>0, <2>5 DEF NoneTried, ScanForges
  <2>6. ASSUME NEW r \in Runners, CommandStep(r) PROVE NoneTried'
    <3>1. CASE ChargeFailed(r)
      BY <1>0, <2>0, <3>1 DEF ChargeFailed, Increment, QueueTyped, NoneTried
    <3>2. CASE AbandonFailed(r)
      BY <1>0, <2>0, <3>2, DropWhole DEF AbandonFailed
    <3> QED BY <2>0, <2>6, <3>1, <3>2 DEF CommandStep, RecvAck, CommandTimeout, RemoveRejected,
               RemoveFailed
  <2>7. CASE UNCHANGED <<pending, retry>>
    BY <2>0, <2>7
  <2> QED
    BY <2>1, <2>2, <2>3, <2>4, <2>5, <2>6, <2>7
       DEF Next, CheckStep, SpareIdle, TearDownIdle, StartPass, HandleRecovery, StartIdleCheck,
           BackoffOver, AgentStep, AgentAccept, AgentRefuse, AgentDestroy, DeliverEvent, EndVm,
           SendFailover, WatcherExit, CleanUp, Connect, ClaimFailover, OrphanSweep, StatusReport,
           Disconnect, CoordinatorCrash
<1>2. ASSUME at' = "create" PROVE task'[cur'.runner] = "none"
  <2>1. CASE at' = at /\ cur' = cur
    <3>1. ~CreateRunner
      BY <1>2, <2>1 DEF CreateRunner, NextRow
    <3>2. cur.runner \in Runners
      BY <1>2, <2>1 DEF IInv, Chosen
    <3>3. task'[cur.runner] # "none" => task[cur.runner] # "none"
      BY <3>1, <3>2, OnlyCreateRunnerBinds DEF IInv, BindsNothing
    <3> QED BY <1>2, <2>1, <3>3 DEF TriesWhole
  <2>2. ASSUME NEW row \in rows, SelectAgent(row) PROVE at' = "reserve"
    BY <2>2 DEF SelectAgent
  <2>3. ASSUME NEW r \in Runners, ReserveSlot(r) PROVE task'[cur'.runner] = "none"
    BY <2>3 DEF ReserveSlot, Fresh, IInv, TypeOK, Cur
  <2> QED BY <1>2, <2>1, <2>2, <2>3, OnlyPassesChoose
<1> QED BY <1>1, <1>2 DEF TriesWhole

\* Dispatch implements JobQueue: whatever any number of passes, command tasks, events, scans and
\* restarts do to queue and runners, for every retry limit, a job is tried on one runner at a time
\* and, while it is queued on its forge, loses its row only with its last try.
THEOREM ImplementsJobQueue == Spec => QueueKept
<1>1. Init => Queue!Init
  BY DEF Init, Queue!Init, RunnersFor, Spent
<1>2. Init => QueueInv
  BY DEF Init, QueueInv, RowsKept, TriesWhole, NoneTried
<1>3. IInv /\ QueueInv /\ [Next]_vars => QueueInv'
  <2>1. IInv /\ QueueInv /\ Next => QueueInv'
    BY NextRowsKept, NextWhole DEF QueueInv
  <2>2. QueueInv /\ UNCHANGED vars => QueueInv'
    BY DEF vars, QueueInv, RowsKept, TriesWhole, NoneTried
  <2> QED BY <2>1, <2>2
<1>4. IInv /\ QueueInv /\ [Next]_vars => [Queue!Next]_(Queue!vars)
  <2>1. UNCHANGED vars => QueueStays
    BY DEF vars, QueueStays, TasksStay
  <2> QED BY <2>1, NextMoves, StaysMoves DEF QueueMoves
<1> QED BY <1>1, <1>2, <1>3, <1>4, Invariance, PTL DEF Spec, QueueKept, Queue!Spec

-----------------------------------------------------------------------------
(* A runner torn down for idling is not charged *)

\* What IdleNotCharged says of one step.
SparesIdled ==
  \A r \in tearing \cap recorded :
    LET j == jobOf[r] IN
    at # "pass" /\ task' = task /\ forgeStatus[j] = "queued" /\ j \in pending
    => j \in pending' /\ retry'[j] = retry[j]

\* The job of a runner that is being torn down has no other runner.
LEMMA SoleRunner ==
  ASSUME IInv, NEW r \in recorded, NEW s \in recorded, jobOf[r] = jobOf[s] PROVE r = s
BY DEF IInv, TypeOK, Bound, AtMostOneRunnerPerJob, RunnersFor

\* Dropping or charging another job leaves a row as it is.
LEMMA OthersStay ==
  ASSUME QueueTyped, NEW i \in pending, NEW j, i # j, NEW who,
         DropRows({j}) \/ ChargeRetry(j, who)
  PROVE  i \in pending' /\ retry'[i] = retry[i]
BY DEF QueueTyped, DropRows, ChargeRetry, Increment

\* No step charges the job of a runner that is being torn down.
LEMMA NextSparesIdled == ASSUME IInv, Next PROVE SparesIdled
<1>0. QueueTyped /\ (UNCHANGED queueVars => SparesIdled)
  BY DEF IInv, TypeOK, QueueTyped, SparesIdled
<1>1. CASE PassStep
  <2>1. CASE ReserveFails \/ JobGone \/ JitFails
    <3>1. RunnersFor(cur.job) = {}
      BY <2>1 DEF IInv, Chosen, ReserveFails, JobGone, JitFails
    <3>2. DropRows({cur.job}) \/ ChargeRetry(cur.job, {})
      BY <2>1 DEF ReserveFails, JobGone, JitFails
    <3>3. \A r \in recorded : jobOf[r] # cur.job
      BY <3>1 DEF RunnersFor
    <3> QED BY <1>0, <3>2, <3>3, OthersStay DEF SparesIdled
  <2>2. ASSUME NEW row \in rows, AbandonRow(row) PROVE SparesIdled
    BY <2>2 DEF AbandonRow, SparesIdled
  <2> QED
    BY <1>0, <1>1, <2>1, <2>2
       DEF PassStep, SkipRow, SelectAgent, ReserveSlot, CreateRunner, SettleEvent
<1>2. CASE CheckStep
  BY <1>2, <1>0 DEF CheckStep, SpareIdle, TearDownIdle
<1>3. ASSUME NEW e \in Event, HandleEvent(e) PROVE SparesIdled
  <2>1. CASE CompletedEvent(e) \/ FailedEvent(e)
    <3>1. e.runner \in recorded /\ e.runner \notin tearing
      BY <2>1 DEF CompletedEvent, FailedEvent, Idled
    <3>2. UNCHANGED queueVars \/ DropRows({jobOf[e.runner]})
          \/ ChargeRetry(jobOf[e.runner], Blamed(e.runner))
      BY <2>1 DEF CompletedEvent, FailedEvent
    <3>3. \A r \in tearing \cap recorded : jobOf[r] # jobOf[e.runner]
      BY <3>1, SoleRunner
    <3> QED BY <1>0, <3>2, <3>3, OthersStay DEF SparesIdled
  <2> QED BY <1>0, <1>3, <2>1 DEF HandleEvent, LateEvent, IdledEvent, UntrackedEvent
<1>4. CASE StartPass \/ HandleRecovery
  BY <1>4, <1>0 DEF StartPass, HandleRecovery
<1>5. ASSUME NEW old \in SUBSET Runners, NEW expired \in SUBSET Runners,
             StartIdleCheck(old, expired)
      PROVE  SparesIdled
  BY <1>5, <1>0 DEF StartIdleCheck
<1>6. ASSUME NEW j \in Jobs, BackoffOver(j) \/ ForgeStep(j) \/ WebhookCompleted(j)
      PROVE  SparesIdled
  <2>1. CASE WebhookCompleted(j)
    BY <2>1, <1>0, OthersStay DEF WebhookCompleted, SparesIdled
  <2>2. CASE JobQueued(j)
    BY <2>2 DEF JobQueued, SparesIdled
  <2> QED BY <1>0, <1>6, <2>1, <2>2 DEF BackoffOver, ForgeStep, JobStarts, JobEnds
<1>7. ASSUME NEW heard \in SUBSET Jobs, ScanForges(heard) PROVE SparesIdled
  BY <1>7, <1>0 DEF ScanForges, SparesIdled, QueueTyped
<1>8. ASSUME NEW r \in Runners, CommandStep(r) PROVE SparesIdled
  <2>1. CASE ChargeFailed(r) \/ AbandonFailed(r)
    <3>1. task[r] \in {"charge", "abandon"} /\ task'[r] # task[r]
      BY <2>1 DEF ChargeFailed, AbandonFailed, IInv, TypeOK
    <3> QED BY <3>1 DEF SparesIdled
  <2> QED
    BY <1>0, <1>8, <2>1 DEF CommandStep, RecvAck, CommandTimeout, RemoveRejected, RemoveFailed
<1>9. ASSUME NEW r \in Runners, AgentStep(r) PROVE SparesIdled
  BY <1>9, <1>0 DEF AgentStep, AgentAccept, AgentRefuse, AgentDestroy, DeliverEvent, EndVm
<1>10. ASSUME NEW r \in Runners, SendFailover(r) \/ WatcherExit(r) \/ CleanUp(r)
       PROVE  SparesIdled
  BY <1>10, <1>0 DEF SendFailover, WatcherExit, CleanUp
<1>11. ASSUME NEW a \in Agents, Connect(a) \/ ClaimFailover(a) \/ OrphanSweep(a)
       PROVE  SparesIdled
  BY <1>11, <1>0 DEF Connect, ClaimFailover, OrphanSweep
<1>12. ASSUME NEW a \in Agents, NEW elapsed \in SUBSET Runners, StatusReport(a, elapsed)
       PROVE  SparesIdled
  BY <1>12, <1>0 DEF StatusReport
<1>13. ASSUME NEW a \in Agents, NEW dies \in BOOLEAN, NEW lost \in SUBSET Runners,
              Disconnect(a, dies, lost)
       PROVE  SparesIdled
  BY <1>13, <1>0 DEF Disconnect
<1>14. ASSUME NEW lost \in SUBSET Runners, CoordinatorCrash(lost) PROVE SparesIdled
  BY <1>14, <1>0 DEF CoordinatorCrash
<1> QED
  BY <1>1, <1>2, <1>3, <1>4, <1>5, <1>6, <1>7, <1>8, <1>9, <1>10, <1>11, <1>12, <1>13, <1>14
     DEF Next

\* The events of a runner torn down for idling do not touch its job's row or retries, in whatever
\* order they come and whatever is lost, for any jobs, agents, runners and faults ("Their events
\* aren't failures"): they could only through another runner of the job, and there is none.
THEOREM IdledNotCharged == Spec => IdleNotCharged
<1>1. IInv /\ [Next]_vars => [SparesIdled]_vars
  BY NextSparesIdled
<1>2. IdleNotCharged <=> [][SparesIdled]_vars
  BY DEF IdleNotCharged, SparesIdled
<1> QED BY <1>1, <1>2, Invariance, PTL DEF Spec

-----------------------------------------------------------------------------
(* A slot is counted from its reservation until its VM is gone *)

\* The loop has a runner in hand from its reservation until its record is made or gone; one that
\* has yet to be recorded is reserved, and nobody else knows of it.
InHand ==
  /\ at \notin {"create", "settle"} => cur.runner = None
  /\ at = "create" =>
       /\ cur.agent \in online /\ cur.runner \in reserved[cur.agent]
       /\ vm[cur.runner] = "none" /\ task[cur.runner] = "none"
       /\ \A a \in Agents : cur.runner \notin listed[a]

\* A listed VM was made: a command under way is held by its reservation.
ListedMade == \A a \in Agents : \A r \in listed[a] : vm[r] # "asked"

SlotInv == InHand /\ ListedMade /\ SlotHeld

\* A step that touches no slot, and takes no runner out of the exceptions of SlotHeld.
LeavesSlots ==
  /\ recorded' \subseteq recorded /\ UNCHANGED <<host, online, reserved, listed>>
  /\ \A r \in Runners : /\ vm'[r] # "none" => vm[r] # "none"
                        /\ vm'[r] = "asked" => vm[r] = "asked"
                        /\ task[r] = "error" => task'[r] = "error" \/ r \notin recorded'
                        /\ task[r] = "none" => task'[r] = "none"
  /\ \/ at' = at /\ cur' = cur
     \/ at' \notin {"create", "settle"} /\ cur'.runner = None /\ cur.runner \notin recorded'

\* Such a step keeps the slots.
LEMMA LeavesInv == ASSUME IInv, SlotInv, LeavesSlots PROVE SlotInv'
<1>1. \A r \in recorded' : r \in recorded /\ r \in Runners
  BY DEF IInv, TypeOK, LeavesSlots
<1>2. SlotHeld'
  BY <1>1 DEF LeavesSlots, SlotInv, SlotHeld
<1>3. InHand'
  BY DEF LeavesSlots, SlotInv, InHand, IInv, Chosen
<1>4. ListedMade'
  BY DEF LeavesSlots, SlotInv, ListedMade, IInv, TypeOK
<1> QED BY <1>2, <1>3, <1>4 DEF SlotInv

\* A step of a pass.
LEMMA PassSlots == ASSUME IInv, SlotInv, PassStep PROVE SlotInv'
<1> USE DEF IInv, SlotInv
<1>1. CASE (\E row \in rows : AbandonRow(row) \/ SkipRow(row)) \/ ReserveFails
  <2>1. cur.runner = None /\ None \notin recorded /\ cur' = NoCur /\ at' \in {"idle", "pass"}
    BY <1>1, DispatchAssumption
       DEF AbandonRow, SkipRow, ReserveFails, NextRow, InHand, TypeOK
  <2>2. LeavesSlots
    BY <1>1, <2>1 DEF AbandonRow, SkipRow, ReserveFails, LeavesSlots, NoCur
  <2> QED BY <2>2, LeavesInv
<1>2. ASSUME NEW row \in rows, SelectAgent(row) PROVE SlotInv'
  <2>1. cur.runner = None /\ None \notin recorded
    BY <1>2, DispatchAssumption DEF SelectAgent, InHand, TypeOK
  <2>2. LeavesSlots
    BY <1>2, <2>1 DEF SelectAgent, LeavesSlots
  <2> QED BY <2>2, LeavesInv
<1>3. ASSUME NEW r \in Runners, ReserveSlot(r) PROVE SlotInv'
  <2>1. /\ r \notin recorded /\ vm[r] = "none" /\ task[r] = "none" /\ cur.agent \in online
        /\ cur.runner = None /\ None \notin recorded /\ cur.agent \in Agents
    BY <1>3, DispatchAssumption DEF ReserveSlot, Fresh, InHand, TypeOK
  <2>2. cur'.runner = r /\ cur'.agent = cur.agent /\ at' = "create"
    BY <1>3 DEF ReserveSlot, TypeOK, Cur
  <2>3. \A a \in Agents : reserved[a] \subseteq reserved'[a]
    BY <1>3 DEF ReserveSlot, TypeOK
  <2>4. r \in reserved'[cur.agent]
    BY <1>3, <2>1 DEF ReserveSlot, TypeOK
  <2>5. InHand' /\ ListedMade'
    BY <1>3, <2>1, <2>2, <2>4 DEF ReserveSlot, Fresh, InHand, ListedMade
  <2>6. SlotHeld'
    <3>1. UNCHANGED <<recorded, host, online, listed, vm, task>>
      BY <1>3 DEF ReserveSlot
    <3>2. \A s \in recorded : cur.runner # s
      BY <2>1
    <3> QED BY <2>3, <3>1, <3>2 DEF SlotHeld, TypeOK
  <2> QED BY <2>5, <2>6
<1>4. CASE JobGone \/ JitFails
  <2>1. /\ cur.runner \notin recorded /\ cur' = NoCur /\ at' \in {"idle", "pass"}
        /\ ReleaseCur /\ UNCHANGED <<recorded, host, online, listed, vm, task>>
    BY <1>4 DEF JobGone, JitFails, NextRow, Chosen
  <2>2. \A a \in Agents : reserved'[a] \in {reserved[a], reserved[a] \ {cur.runner}}
    BY <2>1 DEF ReleaseCur, TypeOK
  <2>3. SlotHeld'
    BY <2>1, <2>2 DEF SlotHeld, TypeOK
  <2> QED BY <2>1, <2>3 DEF InHand, ListedMade, NoCur
<1>5. CASE CreateRunner
  <2>1. /\ cur.runner \in Runners \ recorded /\ cur.agent \in Agents /\ cur.agent \in online
        /\ cur.runner \in reserved[cur.agent]
    BY <1>5 DEF CreateRunner, Chosen, InHand
  <2>2. /\ recorded' = recorded \cup {cur.runner} /\ host' = [host EXCEPT ![cur.runner] = cur.agent]
        /\ task' = [task EXCEPT ![cur.runner] = "sent"] /\ vm' = [vm EXCEPT ![cur.runner] = "asked"]
        /\ cur' = NoCur /\ at' \in {"idle", "pass"} /\ UNCHANGED <<online, reserved, listed>>
    BY <1>5, <2>1 DEF CreateRunner, NextRow
  <2>3. \A r \in recorded : r # cur.runner /\ host'[r] = host[r] /\ task'[r] = task[r]
                            /\ vm'[r] = vm[r]
    BY <2>1, <2>2 DEF TypeOK
  <2>4. host'[cur.runner] = cur.agent
    BY <2>1, <2>2 DEF TypeOK
  <2>5. SlotHeld'
    BY <2>1, <2>2, <2>3, <2>4 DEF SlotHeld
  <2>6. ListedMade'
    BY <1>5, <2>1, <2>2 DEF ListedMade, InHand, CreateRunner, TypeOK
  <2> QED BY <2>2, <2>5, <2>6 DEF InHand, NoCur
<1>6. CASE SettleEvent
  <2>1. LeavesSlots
    BY <1>6 DEF SettleEvent, RemoveRecord, BeginPass, LeavesSlots, NoCur
  <2> QED BY <2>1, LeavesInv
<1> QED BY <1>1, <1>2, <1>3, <1>4, <1>5, <1>6 DEF PassStep

\* Releasing a slot of r takes nothing from other runners.
LEMMA ReleaseSpares ==
  ASSUME TypeOK, NEW r, Release(r)
  PROVE  \A a \in Agents, s \in Runners : s # r /\ s \in reserved[a] => s \in reserved'[a]
BY DEF TypeOK, Release

\* A runner event: the slot is released when the record is about to go.
LEMMA EventSlots == ASSUME IInv, SlotInv, NEW e \in Event, HandleEvent(e) PROVE SlotInv'
<1> USE DEF IInv, SlotInv
<1>0. at = "idle" /\ cur.runner = None /\ None \notin recorded /\ e.runner \in Runners
  BY DispatchAssumption DEF HandleEvent, LateEvent, IdledEvent, UntrackedEvent, CompletedEvent,
     FailedEvent, TakeEvent, InHand, TypeOK, Event
<1>1. CASE LateEvent(e) \/ UntrackedEvent(e)
  <2>1. LeavesSlots
    BY <1>0, <1>1 DEF LateEvent, UntrackedEvent, BeginPass, LeavesSlots, NoCur
  <2> QED BY <2>1, LeavesInv
<1>2. CASE IdledEvent(e)
  <2>1. /\ at' \in {"idle", "pass"} /\ cur' = NoCur /\ UNCHANGED <<host, online, listed, vm, task>>
        /\ \/ recorded' = recorded \ {e.runner} /\ Release(e.runner)
           \/ recorded' = recorded /\ UNCHANGED reserved
    BY <1>2 DEF IdledEvent, BeginPass, RemoveRecord
  <2>2. \A r \in recorded' : r \in recorded /\
          \A a \in Agents : r \in reserved[a] => r \in reserved'[a]
    BY <2>1, ReleaseSpares DEF TypeOK
  <2>3. SlotHeld'
    BY <1>0, <2>1, <2>2 DEF SlotHeld, TypeOK
  <2> QED BY <2>1, <2>3 DEF InHand, ListedMade, NoCur
<1>3. CASE CompletedEvent(e) \/ FailedEvent(e)
  <2>1. /\ at' = "settle" /\ cur'.runner = e.runner /\ Release(e.runner)
        /\ UNCHANGED <<recorded, host, online, listed, vm, task>>
    BY <1>3 DEF CompletedEvent, FailedEvent, NoCur
  <2>2. SlotHeld'
    BY <1>0, <2>1, ReleaseSpares DEF SlotHeld, TypeOK
  <2> QED BY <2>1, <2>2 DEF InHand, ListedMade
<1> QED BY <1>1, <1>2, <1>3 DEF HandleEvent

\* Agents and the tasks behind commands: a slot is released when its runner is refused, or when
\* nobody waits for the answer any more.
LEMMA CommandSlots ==
  ASSUME IInv, SlotInv, NEW r \in Runners, CommandStep(r) \/ AgentStep(r) PROVE SlotInv'
<1> USE DEF IInv, SlotInv
<1>0. at = "create" => cur.runner \in Runners /\ cur.agent \in Agents
  BY DEF Chosen
<1>1. CASE CommandTimeout(r)
  <2>1. /\ task[r] = "sent" /\ task'[r] = "error" /\ \A s \in Runners : s # r => task'[s] = task[s]
        /\ UNCHANGED <<recorded, host, online, listed, vm, at, cur>> /\ Release(r)
    BY <1>1 DEF CommandTimeout, TypeOK
  <2>2. SlotHeld'
    BY <2>1, ReleaseSpares DEF SlotHeld, TypeOK
  <2>3. InHand' /\ ListedMade'
    BY <1>0, <2>1, ReleaseSpares DEF InHand, ListedMade, TypeOK
  <2> QED BY <2>2, <2>3
<1>2. CASE AgentRefuse(r)
  <2>1. /\ vm[r] = "asked" /\ vm'[r] = "none"
        /\ UNCHANGED <<recorded, host, online, listed, at, cur>>
        /\ \A s \in Runners : s # r => vm'[s] = vm[s] /\ task'[s] = task[s]
        /\ Release(r) \/ UNCHANGED reserved
    BY <1>2 DEF AgentRefuse, TypeOK
  <2>2. SlotHeld'
    BY <2>1, ReleaseSpares DEF SlotHeld, TypeOK
  <2>3. InHand' /\ ListedMade'
    BY <1>0, <2>1, ReleaseSpares DEF InHand, ListedMade, TypeOK
  <2> QED BY <2>2, <2>3
<1>3. CASE ~CommandTimeout(r) /\ ~AgentRefuse(r)
  <2>1. CASE CommandStep(r)
    <3>1. LeavesSlots
      BY <1>3, <2>1 DEF CommandStep, RecvAck, RemoveRejected, RemoveFailed, ChargeFailed,
         AbandonFailed, RemoveRecord, LeavesSlots, TypeOK
    <3> QED BY <3>1, LeavesInv
  <2>2. CASE AgentStep(r)
    <3>1. LeavesSlots
      BY <1>3, <2>2 DEF AgentStep, AgentAccept, AgentDestroy, DeliverEvent, EndVm, LeavesSlots,
         TypeOK
    <3> QED BY <3>1, LeavesInv
  <2> QED BY <2>1, <2>2
<1> QED BY <1>1, <1>2, <1>3

\* A status turns reservations into listed VMs, and drops only what has neither record nor step.
LEMMA StatusSlots ==
  ASSUME IInv, SlotInv, NEW a \in Agents, NEW elapsed \in SUBSET Runners, StatusReport(a, elapsed)
  PROVE  SlotInv'
<1> USE DEF IInv, SlotInv
<1>1. /\ UNCHANGED <<recorded, host, online, vm, task, at, cur>>
      /\ listed' = [listed EXCEPT ![a] = Live(a)]
      /\ reserved' = [reserved EXCEPT ![a] = (@ \ Settled(a)) \ (Unrecorded(a) \cap elapsed)]
  BY DEF StatusReport
<1>2. \A b \in Agents : b # a => reserved'[b] = reserved[b] /\ listed'[b] = listed[b]
  BY <1>1 DEF TypeOK
<1>3. \A r \in Runners :
        r \in recorded \cup {cur.runner} /\ r \in reserved[a] =>
          r \in reserved'[a] \/ r \in Live(a)
  BY <1>1 DEF TypeOK, Settled, Unrecorded
<1>4. \A r \in Runners : host[r] = a /\ vm[r] # "none" =>
        (vm[r] = "live" /\ r \in listed'[a]) \/ (vm[r] = "asked" /\ r \notin Live(a))
  <2>1. listed'[a] = Live(a)
    BY <1>1 DEF TypeOK
  <2> QED BY <2>1 DEF TypeOK, Live
<1>5. SlotHeld'
  <2> SUFFICES ASSUME NEW r \in recorded, host[r] \in online, vm[r] # "none", task[r] # "error",
                      cur.runner # r
               PROVE  r \in reserved'[host[r]] \cup listed'[host[r]]
    BY <1>1 DEF SlotHeld
  <2>1. host[r] \in Agents /\ r \in Runners /\ r \in reserved[host[r]] \cup listed[host[r]]
    BY DEF SlotHeld, TypeOK
  <2>2. CASE host[r] # a
    BY <1>2, <2>1, <2>2
  <2>3. CASE host[r] = a /\ vm[r] = "live"
    BY <1>4, <2>1, <2>3
  <2>4. CASE host[r] = a /\ vm[r] = "asked" /\ r \in reserved[a]
    BY <1>3, <1>4, <2>1, <2>4
  <2>5. CASE host[r] = a /\ vm[r] = "asked" /\ r \in listed[a]
    BY <2>1, <2>5 DEF ListedMade
  <2> QED BY <2>1, <2>2, <2>3, <2>4, <2>5 DEF TypeOK
<1>6. InHand'
  BY <1>1, <1>2, <1>3 DEF InHand, Chosen, Live, TypeOK
<1>7. ListedMade'
  BY <1>1, <1>2 DEF ListedMade, Live, TypeOK
<1> QED BY <1>5, <1>6, <1>7

\* An agent connects: it lists its VMs, and what it was asked for before is lost.
LEMMA ConnectSlots == ASSUME IInv, SlotInv, NEW a \in Agents, Connect(a) PROVE SlotInv'
<1> USE DEF IInv, SlotInv
<1>1. /\ a \notin online /\ online' = online \cup {a} /\ listed' = [listed EXCEPT ![a] = Live(a)]
      /\ vm' = [r \in Runners |-> IF host[r] = a /\ vm[r] = "asked" THEN "none" ELSE vm[r]]
      /\ UNCHANGED <<recorded, host, reserved, task, at, cur>>
  BY DEF Connect
<1>2. /\ \A b \in Agents : b # a => listed'[b] = listed[b]
      /\ listed'[a] = Live(a)
      /\ \A r \in Runners : vm'[r] # "none" => vm'[r] = vm[r] /\ (host[r] = a => vm[r] # "asked")
  BY <1>1 DEF TypeOK
<1>3. SlotHeld'
  <2> SUFFICES ASSUME NEW r \in recorded, host[r] \in online', vm'[r] # "none",
                      task[r] # "error", cur.runner # r
               PROVE  r \in reserved[host[r]] \cup listed'[host[r]]
    BY <1>1 DEF SlotHeld
  <2>1. CASE host[r] = a
    BY <1>2, <2>1 DEF Live, TypeOK
  <2>2. CASE host[r] # a
    BY <1>1, <1>2, <2>2 DEF SlotHeld, TypeOK
  <2> QED BY <2>1, <2>2
<1>4. InHand'
  BY <1>1, <1>2 DEF InHand, Chosen, Live
<1>5. ListedMade'
  BY <1>1, <1>2 DEF ListedMade, Live, TypeOK
<1> QED BY <1>3, <1>4, <1>5

\* As long as no agent drops, every step keeps SlotInv.
LEMMA NextSlotInv == ASSUME IInv, SlotInv, "drop" \notin Faults, Next PROVE SlotInv'
<1> USE DEF IInv, SlotInv
<1>0. at \notin {"create", "settle"} => cur.runner \notin recorded
  BY DispatchAssumption DEF InHand, TypeOK
<1>1. CASE PassStep
  BY <1>1, PassSlots
<1>2. CASE CheckStep
  <2>1. LeavesSlots
    BY <1>0, <1>2 DEF CheckStep, SpareIdle, TearDownIdle, CheckNext, LeavesSlots, InHand
  <2> QED BY <2>1, LeavesInv
<1>3. ASSUME NEW e \in Event, HandleEvent(e) PROVE SlotInv'
  BY <1>3, EventSlots
<1>4. CASE StartPass \/ HandleRecovery
  <2>1. LeavesSlots
    BY <1>0, <1>4 DEF StartPass, HandleRecovery, BeginPass, LeavesSlots, NoCur
  <2> QED BY <2>1, LeavesInv
<1>5. ASSUME NEW old \in SUBSET Runners, NEW expired \in SUBSET Runners,
             StartIdleCheck(old, expired)
      PROVE  SlotInv'
  <2>1. LeavesSlots
    BY <1>0, <1>5 DEF StartIdleCheck, LeavesSlots, InHand
  <2> QED BY <2>1, LeavesInv
<1>6. ASSUME NEW j \in Jobs, BackoffOver(j) \/ ForgeStep(j) \/ WebhookCompleted(j)
      PROVE  SlotInv'
  <2>1. LeavesSlots
    BY <1>0, <1>6 DEF BackoffOver, ForgeStep, JobQueued, JobStarts, JobEnds, WebhookCompleted,
       BeginPass, LeavesSlots, NoCur
  <2> QED BY <2>1, LeavesInv
<1>7. ASSUME NEW heard \in SUBSET Jobs, ScanForges(heard) PROVE SlotInv'
  <2>1. LeavesSlots
    BY <1>0, <1>7 DEF ScanForges, BeginPass, LeavesSlots, NoCur
  <2> QED BY <2>1, LeavesInv
<1>8. ASSUME NEW r \in Runners, CommandStep(r) \/ AgentStep(r) PROVE SlotInv'
  BY <1>8, CommandSlots
<1>9. ASSUME NEW r \in Runners, SendFailover(r) \/ WatcherExit(r) \/ CleanUp(r) PROVE SlotInv'
  <2>1. LeavesSlots
    BY <1>9 DEF SendFailover, WatcherExit, CleanUp, RemoveRecord, LeavesSlots
  <2> QED BY <2>1, LeavesInv
<1>10. ASSUME NEW a \in Agents, ClaimFailover(a) \/ OrphanSweep(a) PROVE SlotInv'
  <2>1. LeavesSlots
    BY <1>10 DEF ClaimFailover, OrphanSweep, LeavesSlots
  <2> QED BY <2>1, LeavesInv
<1>11. ASSUME NEW a \in Agents, Connect(a) PROVE SlotInv'
  BY <1>11, ConnectSlots
<1>12. ASSUME NEW a \in Agents, NEW elapsed \in SUBSET Runners, StatusReport(a, elapsed)
       PROVE  SlotInv'
  BY <1>12, StatusSlots
<1>13. ASSUME NEW a \in Agents, NEW dies \in BOOLEAN, NEW lost \in SUBSET Runners,
              Disconnect(a, dies, lost)
       PROVE  SlotInv'
  BY <1>13 DEF Disconnect, Fault
<1>14. ASSUME NEW lost \in SUBSET Runners, CoordinatorCrash(lost) PROVE SlotInv'
  <2>1. online' = {} /\ cur' = NoCur /\ at' \in {"idle", "pass"}
        /\ listed' = [a \in Agents |-> {}]
    BY <1>14 DEF CoordinatorCrash
  <2> QED BY <2>1 DEF InHand, ListedMade, SlotHeld, NoCur
<1> QED
  BY <1>1, <1>2, <1>3, <1>4, <1>5, <1>6, <1>7, <1>8, <1>9, <1>10, <1>11, <1>12, <1>13, <1>14
     DEF Next

\* As long as no agent drops its stream, a runner on its way to an agent, or running there, is
\* counted as a reservation or as a listed VM, for any number of jobs, agents and slots, through
\* timeouts, late answers and restarts ("so there's no moment where a VM counts as neither"). A
\* reconnect starts without reservations and may lose one that a pass has just made.
THEOREM SlotsHeld == ASSUME "drop" \notin Faults PROVE Spec => []SlotHeld
<1>1. Init => SlotInv
  BY DEF Init, SlotInv, InHand, ListedMade, SlotHeld, NoCur
<1>2. IInv /\ SlotInv /\ [Next]_vars => SlotInv'
  <2> SUFFICES ASSUME IInv, SlotInv, UNCHANGED vars PROVE SlotInv'
    BY NextSlotInv
  <2> QED BY DEF vars, SlotInv, InHand, ListedMade, SlotHeld
<1>3. SlotInv => SlotHeld
  BY DEF SlotInv
<1> QED BY <1>1, <1>2, <1>3, Invariance, PTL DEF Spec

=============================================================================
