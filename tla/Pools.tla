------------------------------- MODULE Pools -------------------------------
(***************************************************************************)
(* Fixed-capacity pools on one agent that sets its own pool sizes: the     *)
(* fleet loop tops up each pool, within the agent's capacity in the        *)
(* registry, which its reservations, its statuses and its limits make up.  *)
(* Draining is in Drain, disconnects and lost events are in Dispatch.      *)
(***************************************************************************)
EXTENDS Integers, FiniteSets, FiniteSetsExt

CONSTANTS
  Names,     \* names of pool runners, free again once nothing has them
  Sets,      \* the agent's label sets
  PoolSize,  \* [Sets -> Nat]
  MaxVms,    \* the agent's max_vms
  Limits,    \* host limits on top of it, such as "macos"
  LimitMax,  \* [Limits -> Nat]
  SetLimits, \* [Sets -> SUBSET Limits]: the limits its VMs count against
  Outside    \* [Limits -> Nat]: VMs on the host that the agent does not manage

ASSUME PoolsAssumption ==
  /\ Names # {} /\ IsFiniteSet(Names) /\ Sets # {} /\ MaxVms \in Nat
  /\ PoolSize \in [Sets -> Nat] /\ LimitMax \in [Limits -> Nat]
  /\ Outside \in [Limits -> Nat]
  /\ SetLimits \in [Sets -> SUBSET Limits]

VARIABLES
  fleet,     \* the fleet loop: [at, pool, left, hand]
  goals,     \* pools still to top up
  setOf,     \* [Names -> Sets]: the label set a runner was made from
  recorded,  \* runners with a record
  reserved,  \* reservations
  vm,        \* [Names -> {"none", "sent", "here", "ended"}]
  status,    \* the status the stream task has in hand,
  phase,     \* and what it has done with it: "none", "sent", "capacity", "counts"
  byLimit,   \* set_capacity: the status whose VMs count per limit
  active,    \* update_status: the VMs
  copied,    \* the status a pong is about to send, or NoStatus
  overtaken, \* a pong's copy was sent after a newer status, some time
  miscounted \* a count failed, some time

poolsVars == <<fleet, goals, setOf, recorded, reserved, vm, status, phase,
               byLimit, active, copied, overtaken, miscounted>>

NoStatus == [vms |-> {}, is |-> FALSE]

PoolsInit ==
  /\ fleet = [at |-> "idle", pool |-> CHOOSE s \in Sets : TRUE, left |-> 0,
              hand |-> CHOOSE r \in Names : TRUE]
  /\ goals = {} /\ setOf = [r \in Names |-> fleet.pool] /\ recorded = {} /\ reserved = {}
  /\ vm = [r \in Names |-> "none"]
  /\ status = NoStatus /\ phase = "none" /\ byLimit = NoStatus /\ active = {}
  /\ copied = NoStatus /\ overtaken = FALSE /\ miscounted = FALSE

-----------------------------------------------------------------------------
(* Capacity *)

Minus(m, n) == IF n > m THEN 0 ELSE m - n
On(l, rs) == {r \in rs : l \in SetLimits[setOf[r]]}

\* Mutant of LimitReserved: commands under way count against max_vms alone.
LimitReservedNone(l) == 0

LimitReserved(l) == Cardinality(On(l, reserved))

\* available_capacity for the set a pool names by id.
AvailableCapacity(s) ==
  Min({Minus(MaxVms, Cardinality(active) + Cardinality(reserved))}
      \cup {Minus(LimitMax[l], Outside[l] + Cardinality(On(l, byLimit.vms)) + LimitReserved(l)) :
             l \in SetLimits[s]})

\* count_runners_for_pool, by the pool's key in the records.
CountForPool(s) == Cardinality({r \in recorded : setOf[r] = s})

\* Names are UUIDs: here, ones nothing has any more.
FreeNames ==
  {r \in Names : /\ vm[r] = "none" /\ r \notin recorded \cup reserved
                 /\ r \notin active \cup byLimit.vms \cup status.vms \cup copied.vms}

-----------------------------------------------------------------------------
(* The fleet loop: reconcile *)

\* get_pool_definitions; of an unavailable agent, none.
StartTopUp ==
  /\ fleet.at = "idle"
  /\ fleet' = [fleet EXCEPT !.at = "pools"] /\ goals' = {s \in Sets : PoolSize[s] > 0}
  /\ UNCHANGED <<setOf, recorded, reserved, vm, status, phase, byLimit, active,
                 copied, overtaken, miscounted>>

\* Counts the pool's runners, and takes as many more as it wants and the agent has room for. A
\* count that fails in the database is taken for 0.
StartPool(s) ==
  /\ fleet.at = "pools" /\ s \in goals /\ goals' = goals \ {s}
  /\ \E count \in {CountForPool(s), 0} :
       /\ fleet' = [fleet EXCEPT !.at = "create", !.pool = s,
                      !.left = Min({Minus(PoolSize[s], count), AvailableCapacity(s)})]
       /\ miscounted' = (miscounted \/ count # CountForPool(s))
  /\ UNCHANGED <<setOf, recorded, reserved, vm, status, phase, byLimit, active, copied, overtaken>>

PoolsOver ==
  /\ fleet.at = "pools" /\ goals = {} /\ fleet' = [fleet EXCEPT !.at = "idle"]
  /\ UNCHANGED <<goals, setOf, recorded, reserved, vm, status, phase, byLimit,
                 active, copied, overtaken, miscounted>>

\* reserve_slot checks the capacity again; without room the next runner is tried.
Reserve(r) ==
  /\ fleet.at = "create" /\ fleet.left > 0 /\ r \in FreeNames
  /\ \/ AvailableCapacity(fleet.pool) > 0
        /\ setOf' = [setOf EXCEPT ![r] = fleet.pool] /\ reserved' = reserved \cup {r}
        /\ fleet' = [fleet EXCEPT !.at = "token", !.hand = r]
     \/ AvailableCapacity(fleet.pool) = 0
        /\ fleet' = [fleet EXCEPT !.left = @ - 1] /\ UNCHANGED <<setOf, reserved>>
  /\ UNCHANGED <<goals, recorded, vm, status, phase, byLimit, active, copied,
                 overtaken, miscounted>>

PoolDone ==
  /\ fleet.at = "create" /\ (fleet.left = 0 \/ FreeNames = {})
  /\ fleet' = [fleet EXCEPT !.at = "pools", !.left = 0]
  /\ UNCHANGED <<goals, setOf, recorded, reserved, vm, status, phase, byLimit,
                 active, copied, overtaken, miscounted>>

\* The registration token, then the record and the command; without a token the pool is left.
TokenAndSend ==
  /\ fleet.at = "token"
  /\ \/ recorded' = recorded \cup {fleet.hand} /\ vm' = [vm EXCEPT ![fleet.hand] = "sent"]
        /\ fleet' = [fleet EXCEPT !.at = "create", !.left = @ - 1] /\ UNCHANGED reserved
     \/ reserved' = reserved \ {fleet.hand} /\ UNCHANGED <<recorded, vm>>
        /\ fleet' = [fleet EXCEPT !.at = "create", !.left = 0]
  /\ UNCHANGED <<goals, setOf, status, phase, byLimit, active, copied, overtaken, miscounted>>

\* handle_runner_event: "we're the first to handle cleanup".
HandleEnd(r) ==
  /\ fleet.at = "idle" /\ vm[r] = "ended"
  /\ vm' = [vm EXCEPT ![r] = "none"] /\ recorded' = recorded \ {r} /\ reserved' = reserved \ {r}
  /\ UNCHANGED <<fleet, goals, setOf, status, phase, byLimit, active, copied,
                 overtaken, miscounted>>

-----------------------------------------------------------------------------
(* The agent *)

\* The runners the agent has a VM for, or is about to.
Here == {r \in Names : vm[r] = "here"}

\* The agent's own check (VmTracker).
AgentHasRoom(r) ==
  /\ Cardinality(Here) < MaxVms
  /\ \A l \in SetLimits[setOf[r]] : Outside[l] + Cardinality(On(l, Here)) < LimitMax[l]

\* A refused command is cleaned up by its task: the slot, the forge, the record.
AgentCreates(r) ==
  /\ vm[r] = "sent"
  /\ \/ AgentHasRoom(r) /\ vm' = [vm EXCEPT ![r] = "here"] /\ UNCHANGED <<recorded, reserved>>
     \/ ~AgentHasRoom(r) /\ vm' = [vm EXCEPT ![r] = "none"]
        /\ recorded' = recorded \ {r} /\ reserved' = reserved \ {r}
  /\ UNCHANGED <<fleet, goals, setOf, status, phase, byLimit, active, copied,
                 overtaken, miscounted>>

\* The VM goes, its event is on the way.
Ends(r) ==
  /\ vm[r] = "here" /\ vm' = [vm EXCEPT ![r] = "ended"]
  /\ UNCHANGED <<fleet, goals, setOf, recorded, reserved, status, phase, byLimit,
                 active, copied, overtaken, miscounted>>

-----------------------------------------------------------------------------
(* Statuses *)

Current == [vms |-> Here, is |-> TRUE]

\* push_status sends the latest status.
PushStatus ==
  /\ phase = "none" /\ status' = Current /\ phase' = "sent"
  /\ UNCHANGED <<fleet, goals, setOf, recorded, reserved, vm, byLimit, active, copied, overtaken,
                 miscounted>>

\* The session loop copies the status for a pong, and sends it when there is room.
PongCopies ==
  /\ copied = NoStatus /\ copied' = Current
  /\ UNCHANGED <<fleet, goals, setOf, recorded, reserved, vm, status, phase,
                 byLimit, active, overtaken, miscounted>>

PongSends ==
  /\ copied # NoStatus /\ copied' = NoStatus
  /\ phase = "none" /\ status' = copied /\ phase' = "sent"
  /\ overtaken' = (overtaken \/ copied # Current)
  /\ UNCHANGED <<fleet, goals, setOf, recorded, reserved, vm, byLimit, active, miscounted>>

SetCapacity ==
  /\ phase = "sent" /\ phase' = "capacity" /\ byLimit' = status
  /\ UNCHANGED <<fleet, goals, setOf, recorded, reserved, vm, status, active,
                 copied, overtaken, miscounted>>

UpdateStatus ==
  /\ phase = "capacity" /\ phase' = "counts" /\ active' = status.vms
  /\ UNCHANGED <<fleet, goals, setOf, recorded, reserved, vm, status, byLimit,
                 copied, overtaken, miscounted>>

\* settle_reservations, and reconcile_reservations for what has long had no record.
Settled ==
  {r \in reserved \ status.vms : r \in recorded \/ (fleet.at = "token" /\ r = fleet.hand)}

SettleReservations ==
  /\ phase = "counts" /\ phase' = "none" /\ status' = NoStatus /\ reserved' = Settled
  /\ UNCHANGED <<fleet, goals, setOf, recorded, vm, byLimit, active, copied, overtaken, miscounted>>

-----------------------------------------------------------------------------
(* The specification *)

TopUp ==
  \/ StartTopUp \/ PoolsOver \/ PoolDone \/ TokenAndSend
  \/ \E r \in Names : Reserve(r)
  \/ \E s \in Sets : StartPool(s)

PoolsNext ==
  \/ TopUp
  \/ \E r \in Names : HandleEnd(r) \/ AgentCreates(r) \/ Ends(r)
  \/ PushStatus \/ PongCopies \/ PongSends \/ SetCapacity \/ UpdateStatus \/ SettleReservations

PoolsSpec == PoolsInit /\ [][PoolsNext]_poolsVars

-----------------------------------------------------------------------------
(* What should hold *)

\* The runners that take up a slot: the VMs, and the commands under way.
Asked == Here \cup {r \in Names : vm[r] = "sent"}

\* A slot counts until its VM shows up, "so there's no moment where a VM counts as neither": the
\* agent is never asked for more than max_vms, nor for more of a limit than the VMs it does not
\* manage leave. A pong's copy of the status that is sent after a newer status breaks the books.
SlotsWithin ==
  ~overtaken =>
    /\ Cardinality(Asked) <= MaxVms
    /\ \A l \in Limits :
         On(l, Asked) # {} => Outside[l] + Cardinality(On(l, Asked)) <= LimitMax[l]

\* A pool never has more runners than its size, however statuses, ends and refusals interleave with
\* the loop that tops it up ("the database (source of truth)"), unless a count failed.
PoolWithinSize ==
  ~miscounted =>
    \A s \in Sets : Cardinality({r \in recorded : setOf[r] = s}) <= PoolSize[s]

\* Both, of pools that share an agent: none beyond its size, and together within the agent's slots.
PoolsWithin == SlotsWithin /\ PoolWithinSize

=============================================================================
