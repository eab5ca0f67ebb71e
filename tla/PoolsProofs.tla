----------------------------- MODULE PoolsProofs ----------------------------
(***************************************************************************)
(* Proofs about fixed-capacity pools and draining, for any agent and any   *)
(* runners.                                                                *)
(*                                                                         *)
(* Its pools stay within the agent's slots and their sizes, whatever the   *)
(* names, label sets, sizes and limits are: a runner the agent was asked   *)
(* for is reserved until a status with its VM has been counted (Fresh,     *)
(* Shown), and no slot is reserved unless there is room for it beside all  *)
(* of those (Within). Draining destroys no runner that runs a job: that a  *)
(* runner to be destroyed takes no job while the command is on its way     *)
(* follows from what the forge said of it, which its registration, a job   *)
(* or its end may have overtaken (Answer, Sent).                           *)
(***************************************************************************)
EXTENDS Pools, Drain, FiniteSetTheorems, WellFoundedInduction, TLAPS

-----------------------------------------------------------------------------
(* Pools *)

-----------------------------------------------------------------------------
(* The inductive invariant *)

LoopStates ==
  [at : {"idle", "pools", "create", "token"}, pool : Sets, left : Nat, hand : Names]
Statuses == [vms : SUBSET Names, is : BOOLEAN]

LoopTypeOK == fleet \in LoopStates /\ goals \in SUBSET Sets
RunnersTypeOK ==
  /\ setOf \in [Names -> Sets] /\ recorded \in SUBSET Names /\ reserved \in SUBSET Names
  /\ vm \in [Names -> {"none", "sent", "here", "ended"}]
StatusTypeOK ==
  /\ status \in Statuses /\ byLimit \in Statuses /\ copied \in Statuses
  /\ phase \in {"none", "sent", "capacity", "counts"} /\ active \in SUBSET Names
  /\ overtaken \in BOOLEAN

PoolsTypeOK == LoopTypeOK /\ RunnersTypeOK /\ StatusTypeOK

\* The runners in some status that is counted, or will be.
Seen == active \cup byLimit.vms \cup status.vms \cup copied.vms

\* A runner that is not at the agent yet is reserved, and in no status.
Fresh ==
  /\ fleet.at = "token" =>
       /\ fleet.hand \in reserved \ (recorded \cup Seen) /\ vm[fleet.hand] = "none"
       /\ setOf[fleet.hand] = fleet.pool /\ fleet.left > 0
  /\ \A r \in Names : vm[r] = "sent" => r \in (reserved \cap recorded) \ Seen

\* What the stream task has done with the status in hand.
Stages ==
  /\ phase = "none" <=> ~status.is
  /\ copied # NoStatus => copied.is
  /\ phase = "none" => status.vms = {}
  /\ phase \in {"capacity", "counts"} => byLimit = status
  /\ phase = "counts" => active = status.vms

\* A VM has a record, and is reserved unless the statuses count it.
Shown ==
  \A r \in Names : vm[r] = "here" =>
    /\ r \in recorded
    /\ ~overtaken /\ r \notin reserved =>
         r \in active \cap byLimit.vms /\ (status.is => r \in status.vms)

Booked == Asked \cup reserved

\* What is reserved or asked for is within the agent's slots.
Within ==
  ~overtaken =>
    /\ Cardinality(Booked) <= MaxVms
    /\ \A l \in Limits :
         On(l, Booked) # {} => Outside[l] + Cardinality(On(l, Booked)) <= LimitMax[l]

\* The pool that is topped up has room for the runners that are still to come.
PoolRoom ==
  ~miscounted /\ fleet.at \in {"create", "token"} =>
    CountForPool(fleet.pool) + fleet.left <= PoolSize[fleet.pool]

PoolsInv == PoolsTypeOK /\ Fresh /\ Stages /\ Shown /\ Within /\ PoolRoom /\ PoolWithinSize

-----------------------------------------------------------------------------
(* Capacity *)

\* A set of naturals has a smallest element, which is its Min.
LEMMA MinIsLeast ==
  ASSUME NEW S \in SUBSET Nat, S # {}
  PROVE  Min(S) \in S /\ \A y \in S : Min(S) <= y
<1>1. PICK x \in S : \A y \in S : <<y, x>> \notin OpToRel(<, Nat)
  BY WFMin, NatLessThanWellFounded, Zenon
<1>2. \A y \in S : y < x => <<y, x>> \in OpToRel(<, Nat)
  BY Zenon DEF OpToRel
<1>3. \A y \in S : ~(y < x)
  BY <1>1, <1>2, Zenon
<1>4. \A y \in S : x <= y
  BY <1>3
<1> QED
  BY <1>4 DEF Min

\* A set of runners can be counted.
LEMMA OnFinite ==
  ASSUME NEW R \in SUBSET Names, NEW l
  PROVE  IsFiniteSet(R) /\ IsFiniteSet(On(l, R)) /\ Cardinality(R) \in Nat
         /\ Cardinality(On(l, R)) \in Nat
<1>1. On(l, R) \subseteq R
  BY DEF On
<1> QED
  BY <1>1, PoolsAssumption, FS_Subset, FS_CardinalityType

\* The agent's capacity, and what it is for reserve_slot: room in max_vms and in every limit.
LEMMA CapacityIsNat ==
  ASSUME PoolsTypeOK, NEW s \in Sets
  PROVE  /\ AvailableCapacity(s) \in Nat
         /\ AvailableCapacity(s) > 0 =>
              /\ Cardinality(active) + Cardinality(reserved) < MaxVms
              /\ \A l \in SetLimits[s] :
                   Outside[l] + Cardinality(On(l, byLimit.vms)) + Cardinality(On(l, reserved))
                     < LimitMax[l]
<1> DEFINE Left(l) ==
             Minus(LimitMax[l], Outside[l] + Cardinality(On(l, byLimit.vms)) + LimitReserved(l))
           All == {Minus(MaxVms, Cardinality(active) + Cardinality(reserved))}
                    \cup {Left(l) : l \in SetLimits[s]}
<1>1. /\ Cardinality(active) \in Nat /\ Cardinality(reserved) \in Nat
      /\ \A l \in SetLimits[s] : /\ Cardinality(On(l, byLimit.vms)) \in Nat
                                 /\ Cardinality(On(l, reserved)) \in Nat
                                 /\ LimitMax[l] \in Nat /\ Outside[l] \in Nat
  BY OnFinite, PoolsAssumption DEF PoolsTypeOK, RunnersTypeOK, StatusTypeOK, Statuses
<1>2. All \in SUBSET Nat /\ All # {}
  BY <1>1, PoolsAssumption DEF Minus, LimitReserved
<1>3. AvailableCapacity(s) = Min(All)
  BY DEF AvailableCapacity
<1>4. Min(All) \in Nat /\ \A y \in All : Min(All) <= y
  BY <1>2, MinIsLeast
<1>5. Min(All) > 0 => Minus(MaxVms, Cardinality(active) + Cardinality(reserved)) > 0
  BY <1>2, <1>4
<1>6. Min(All) > 0 => \A l \in SetLimits[s] : Left(l) > 0
  BY <1>2, <1>4
<1> QED
  BY <1>1, <1>3, <1>4, <1>5, <1>6, PoolsAssumption DEF Minus, LimitReserved

-----------------------------------------------------------------------------
(* The types *)

LEMMA PoolsInitInv == PoolsInit => PoolsInv
<1> SUFFICES ASSUME PoolsInit PROVE PoolsInv
  OBVIOUS
<1>1. PoolsTypeOK
  BY PoolsAssumption
  DEF PoolsInit, PoolsTypeOK, LoopTypeOK, RunnersTypeOK, StatusTypeOK, NoStatus, Statuses,
      LoopStates
<1>2. Fresh /\ Stages /\ Shown /\ PoolRoom
  BY DEF PoolsInit, Fresh, Stages, Shown, PoolRoom, NoStatus
<1>3. Booked = {} /\ \A l : On(l, Booked) = {}
  BY DEF PoolsInit, Booked, Asked, Here, On
<1>4. Within
  BY <1>3, PoolsAssumption, FS_EmptySet DEF Within
<1>5. PoolWithinSize
  <2>1. \A s \in Sets : {r \in recorded : setOf[r] = s} = {}
    BY DEF PoolsInit
  <2> QED
    BY <2>1, PoolsAssumption, FS_EmptySet DEF PoolWithinSize
<1> QED
  BY <1>1, <1>2, <1>4, <1>5 DEF PoolsInv

\* What StartPool takes is within what the pool lacks and the agent has.
LEMMA StartPoolTakes ==
  ASSUME PoolsTypeOK, NEW s \in Sets, StartPool(s)
  PROVE  /\ fleet'.at = "create" /\ fleet'.pool = s /\ fleet'.left \in Nat
         /\ fleet'.hand = fleet.hand /\ CountForPool(s) \in Nat
         /\ \/ miscounted' /\ fleet'.left <= PoolSize[s]
            \/ fleet'.left <= Minus(PoolSize[s], CountForPool(s))
<1>1. PICK count \in {CountForPool(s), 0} :
        /\ fleet' = [fleet EXCEPT !.at = "create", !.pool = s,
                       !.left = Min({Minus(PoolSize[s], count), AvailableCapacity(s)})]
        /\ miscounted' = (miscounted \/ count # CountForPool(s))
  BY DEF StartPool
<1>2. CountForPool(s) \in Nat
  <2>1. {r \in recorded : setOf[r] = s} \in SUBSET Names
    BY DEF PoolsTypeOK, RunnersTypeOK
  <2> QED
    BY <2>1, OnFinite DEF CountForPool
<1>3. Minus(PoolSize[s], count) \in Nat /\ Minus(PoolSize[s], count) <= PoolSize[s]
  BY <1>2, PoolsAssumption DEF Minus
<1> DEFINE M == {Minus(PoolSize[s], count), AvailableCapacity(s)}
<1>4. M \in SUBSET Nat /\ M # {}
  BY <1>3, CapacityIsNat
<1>5. Min(M) \in Nat /\ Min(M) <= Minus(PoolSize[s], count)
  BY <1>4, MinIsLeast
<1>6. fleet'.at = "create" /\ fleet'.pool = s /\ fleet'.left = Min(M) /\ fleet'.hand = fleet.hand
  BY <1>1 DEF PoolsTypeOK, LoopTypeOK, LoopStates
<1>7. miscounted' \/ count = CountForPool(s)
  BY <1>1
<1> QED
  BY <1>2, <1>3, <1>5, <1>6, <1>7, PoolsAssumption

\* The fleet manager keeps the types ...
LEMMA LoopTypeKeeps ==
  ASSUME PoolsTypeOK, Fresh, TopUp
  PROVE  LoopTypeOK'
<1>1. CASE StartTopUp
  BY <1>1 DEF StartTopUp, PoolsTypeOK, LoopTypeOK, LoopStates
<1>2. CASE PoolsOver
  BY <1>2 DEF PoolsOver, PoolsTypeOK, LoopTypeOK, LoopStates
<1>3. CASE PoolDone
  BY <1>3 DEF PoolDone, PoolsTypeOK, LoopTypeOK, LoopStates
<1>4. ASSUME NEW s \in Sets, StartPool(s) PROVE LoopTypeOK'
  <2>1. fleet' = [fleet EXCEPT !.at = "create", !.pool = s, !.left = fleet'.left]
    <3>1. PICK n : fleet' = [fleet EXCEPT !.at = "create", !.pool = s, !.left = n]
      BY <1>4 DEF StartPool
    <3> QED
      BY <3>1 DEF PoolsTypeOK, LoopTypeOK, LoopStates
  <2>2. fleet'.left \in Nat
    BY <1>4, StartPoolTakes
  <2> QED
    BY <1>4, <2>1, <2>2 DEF StartPool, PoolsTypeOK, LoopTypeOK, LoopStates
<1>5. CASE TokenAndSend
  <2>1. fleet.left - 1 \in Nat
    BY <1>5 DEF TokenAndSend, Fresh, PoolsTypeOK, LoopTypeOK, LoopStates
  <2>2. \/ fleet' = [fleet EXCEPT !.at = "create", !.left = fleet.left - 1]
        \/ fleet' = [fleet EXCEPT !.at = "create", !.left = 0]
    BY <1>5 DEF TokenAndSend
  <2>3. goals' = goals
    BY <1>5 DEF TokenAndSend
  <2>4. fleet' \in LoopStates
    <3> DEFINE sent == [fleet EXCEPT !.at = "create", !.left = fleet.left - 1]
               failed == [fleet EXCEPT !.at = "create", !.left = 0]
    <3>1. sent \in LoopStates
      BY <2>1 DEF PoolsTypeOK, LoopTypeOK, LoopStates
    <3>2. failed \in LoopStates
      BY DEF PoolsTypeOK, LoopTypeOK, LoopStates
    <3> QED
      BY <2>2, <3>1, <3>2
  <2> QED
    BY <2>3, <2>4 DEF PoolsTypeOK, LoopTypeOK
<1>6. ASSUME NEW r \in Names, Reserve(r) PROVE LoopTypeOK'
  <2>1. fleet.left - 1 \in Nat
    BY <1>6 DEF Reserve, PoolsTypeOK, LoopTypeOK, LoopStates
  <2>2. \/ fleet' = [fleet EXCEPT !.at = "token", !.hand = r]
        \/ fleet' = [fleet EXCEPT !.left = fleet.left - 1]
    BY <1>6 DEF Reserve
  <2> QED
    BY <1>6, <2>1, <2>2 DEF Reserve, PoolsTypeOK, LoopTypeOK, LoopStates
<1> QED
  BY <1>1, <1>2, <1>3, <1>4, <1>5, <1>6 DEF TopUp

\* The steps of the runners at the agent and of their events, and those of the statuses.
RunnerSteps == \E r \in Names : HandleEnd(r) \/ AgentCreates(r) \/ Ends(r)
StatusSteps ==
  PushStatus \/ PongCopies \/ PongSends \/ SetCapacity \/ UpdateStatus \/ SettleReservations

\* ... and so does every step.
LEMMA TypeKeeps ==
  ASSUME PoolsTypeOK, Fresh, PoolsNext
  PROVE  PoolsTypeOK'
<1>1. CASE TopUp
  <2>1. RunnersTypeOK'
    <3>1. CASE StartTopUp \/ PoolsOver \/ PoolDone \/ \E s \in Sets : StartPool(s)
      BY <3>1 DEF StartTopUp, PoolsOver, PoolDone, StartPool, PoolsTypeOK, RunnersTypeOK
    <3>2. CASE TokenAndSend
      BY <3>2 DEF TokenAndSend, PoolsTypeOK, LoopTypeOK, LoopStates, RunnersTypeOK
    <3>3. CASE \E r \in Names : Reserve(r)
      BY <3>3 DEF Reserve, PoolsTypeOK, LoopTypeOK, LoopStates, RunnersTypeOK
    <3> QED
      BY <1>1, <3>1, <3>2, <3>3 DEF TopUp
  <2>2. StatusTypeOK'
    BY <1>1 DEF TopUp, StartTopUp, PoolsOver, PoolDone, StartPool, TokenAndSend, Reserve,
                PoolsTypeOK, StatusTypeOK
  <2> QED
    BY <1>1, <2>1, <2>2, LoopTypeKeeps DEF PoolsTypeOK
<1>2. CASE RunnerSteps
  <2>1. LoopTypeOK' /\ StatusTypeOK'
    BY <1>2
    DEF RunnerSteps, HandleEnd, AgentCreates, Ends, PoolsTypeOK, LoopTypeOK, StatusTypeOK
  <2>2. RunnersTypeOK'
    BY <1>2 DEF RunnerSteps, HandleEnd, AgentCreates, Ends, PoolsTypeOK, RunnersTypeOK
  <2> QED
    BY <2>1, <2>2 DEF PoolsTypeOK
<1>3. CASE StatusSteps
  <2>1. LoopTypeOK'
    BY <1>3 DEF StatusSteps, PushStatus, PongCopies, PongSends, SetCapacity, UpdateStatus,
                SettleReservations, PoolsTypeOK, LoopTypeOK
  <2>2. RunnersTypeOK'
    BY <1>3 DEF StatusSteps, PushStatus, PongCopies, PongSends, SetCapacity, UpdateStatus,
                SettleReservations, Settled, PoolsTypeOK, RunnersTypeOK
  <2>3. Current \in Statuses /\ NoStatus \in Statuses
    BY DEF Current, Here, NoStatus, Statuses
  <2>4. StatusTypeOK'
    <3>1. CASE PushStatus \/ PongCopies \/ PongSends
      BY <2>3, <3>1 DEF PushStatus, PongCopies, PongSends, PoolsTypeOK, StatusTypeOK
    <3>2. CASE SetCapacity \/ UpdateStatus \/ SettleReservations
      BY <2>3, <3>2
      DEF SetCapacity, UpdateStatus, SettleReservations, PoolsTypeOK, StatusTypeOK, Statuses
    <3> QED
      BY <1>3, <3>1, <3>2 DEF StatusSteps
  <2> QED
    BY <2>1, <2>2, <2>4 DEF PoolsTypeOK
<1> QED
  BY <1>1, <1>2, <1>3 DEF PoolsNext, RunnerSteps, StatusSteps

-----------------------------------------------------------------------------
(* The statuses *)

LEMMA StagesKeeps ==
  ASSUME PoolsTypeOK, Stages, PoolsNext
  PROVE  Stages'
<1>1. CASE TopUp \/ RunnerSteps
  <2>1. UNCHANGED <<phase, status, byLimit, active, copied>>
    BY <1>1 DEF TopUp, StartTopUp, PoolsOver, PoolDone, StartPool, TokenAndSend, Reserve,
                RunnerSteps, HandleEnd, AgentCreates, Ends
  <2> QED
    BY <2>1 DEF Stages
<1>2. CASE PushStatus
  BY <1>2 DEF PushStatus, Current, Stages
<1>3. CASE PongSends
  BY <1>3 DEF PongSends, NoStatus, Stages
<1>4. CASE SetCapacity
  BY <1>4 DEF SetCapacity, Stages
<1>5. CASE UpdateStatus
  BY <1>5 DEF UpdateStatus, Stages
<1>6. CASE SettleReservations
  BY <1>6 DEF SettleReservations, NoStatus, Stages
<1>7. CASE PongCopies
  BY <1>7 DEF PongCopies, Current, Stages
<1> QED
  BY <1>1, <1>2, <1>3, <1>4, <1>5, <1>6, <1>7 DEF PoolsNext, RunnerSteps

\* The pool loop's own steps but the reservation and the command.
LEMMA LoopMoves ==
  ASSUME PoolsTypeOK,
         StartTopUp \/ (\E s \in Sets : StartPool(s)) \/ PoolsOver \/ PoolDone
  PROVE  /\ fleet'.at # "token"
         /\ UNCHANGED <<setOf, recorded, reserved, vm, status, phase, byLimit, active, copied,
                        overtaken>>
<1>1. CASE StartTopUp
  BY <1>1 DEF StartTopUp, PoolsTypeOK, LoopTypeOK, LoopStates
<1>2. ASSUME NEW s \in Sets, StartPool(s)
      PROVE  /\ fleet'.at # "token"
             /\ UNCHANGED <<setOf, recorded, reserved, vm, status, phase, byLimit, active, copied,
                            overtaken>>
  BY <1>2, StartPoolTakes DEF StartPool
<1>3. CASE PoolsOver
  BY <1>3 DEF PoolsOver, PoolsTypeOK, LoopTypeOK, LoopStates
<1>4. CASE PoolDone
  BY <1>4 DEF PoolDone, PoolsTypeOK, LoopTypeOK, LoopStates
<1> QED
  BY <1>1, <1>2, <1>3, <1>4

\* What Reserve and TokenAndSend do to the loop and the runners.
LEMMA ReserveTakes ==
  ASSUME PoolsTypeOK, NEW r \in Names, Reserve(r)
  PROVE  /\ UNCHANGED <<recorded, vm, status, phase, byLimit, active, copied, overtaken,
                        miscounted>>
         /\ fleet.at = "create" /\ fleet'.pool = fleet.pool /\ fleet.left > 0
         /\ r \in FreeNames
         /\ \/ /\ AvailableCapacity(fleet.pool) > 0
               /\ setOf' = [setOf EXCEPT ![r] = fleet.pool] /\ reserved' = reserved \cup {r}
               /\ fleet'.at = "token" /\ fleet'.hand = r /\ fleet'.left = fleet.left
            \/ /\ UNCHANGED <<setOf, reserved>>
               /\ fleet'.at = "create" /\ fleet'.left = fleet.left - 1
  BY DEF Reserve, PoolsTypeOK, LoopTypeOK, LoopStates

\* A token the forge answers with takes no more than the pool asked for.
LEMMA TokenTakes ==
  ASSUME PoolsTypeOK, TokenAndSend
  PROVE  /\ UNCHANGED <<setOf, status, phase, byLimit, active, copied, overtaken, miscounted>>
         /\ fleet.at = "token" /\ fleet'.at = "create" /\ fleet'.pool = fleet.pool
         /\ \/ /\ recorded' = recorded \cup {fleet.hand} /\ reserved' = reserved
               /\ vm' = [vm EXCEPT ![fleet.hand] = "sent"] /\ fleet'.left = fleet.left - 1
            \/ /\ reserved' = reserved \ {fleet.hand} /\ UNCHANGED <<recorded, vm>>
               /\ fleet'.left = 0
  BY DEF TokenAndSend, PoolsTypeOK, LoopTypeOK, LoopStates

\* A name is not used twice.
LEMMA FreshKeeps ==
  ASSUME PoolsTypeOK, Fresh, Stages, PoolsNext
  PROVE  Fresh'
<1>1. CASE StartTopUp \/ (\E s \in Sets : StartPool(s)) \/ PoolsOver \/ PoolDone
  BY <1>1, LoopMoves DEF Fresh, Seen
<1>2. ASSUME NEW r \in Names, Reserve(r) PROVE Fresh'
  BY <1>2, ReserveTakes DEF Fresh, Seen, FreeNames, PoolsTypeOK, RunnersTypeOK
<1>3. CASE TokenAndSend
  BY <1>3, TokenTakes DEF Fresh, Seen, PoolsTypeOK, RunnersTypeOK, LoopTypeOK, LoopStates
<1>4. ASSUME NEW r \in Names, HandleEnd(r) PROVE Fresh'
  BY <1>4 DEF HandleEnd, Fresh, Seen, PoolsTypeOK, RunnersTypeOK
<1>5. ASSUME NEW r \in Names, AgentCreates(r) PROVE Fresh'
  BY <1>5 DEF AgentCreates, Fresh, Seen, PoolsTypeOK, RunnersTypeOK
<1>6. ASSUME NEW r \in Names, Ends(r) PROVE Fresh'
  BY <1>6 DEF Ends, Fresh, Seen, PoolsTypeOK, RunnersTypeOK
<1>7. CASE PushStatus \/ PongCopies \/ PongSends
  <2>1. Seen' \subseteq Seen \cup Here
    BY <1>7 DEF PushStatus, PongCopies, PongSends, Seen, Current, NoStatus
  <2>2. UNCHANGED <<fleet, setOf, recorded, reserved, vm>>
    BY <1>7 DEF PushStatus, PongCopies, PongSends
  <2> QED
    BY <2>1, <2>2 DEF Fresh, Here
<1>8. CASE SetCapacity \/ UpdateStatus
  <2>1. Seen' \subseteq Seen /\ UNCHANGED <<fleet, setOf, recorded, reserved, vm>>
    BY <1>8 DEF SetCapacity, UpdateStatus, Seen
  <2> QED
    BY <2>1 DEF Fresh
<1>9. CASE SettleReservations
  <2>1. Seen' \subseteq Seen /\ UNCHANGED <<fleet, setOf, recorded, vm>> /\ reserved' = Settled
    BY <1>9 DEF SettleReservations, Seen, NoStatus
  <2> QED
    BY <2>1 DEF Fresh, Settled, Seen
<1> QED
  BY <1>1, <1>2, <1>3, <1>4, <1>5, <1>6, <1>7, <1>8, <1>9 DEF PoolsNext, TopUp

\* A runner is reserved until a status shows it.
LEMMA ShownKeeps ==
  ASSUME PoolsTypeOK, Fresh, Stages, Shown, PoolsNext
  PROVE  Shown'
<1>1. CASE StartTopUp \/ (\E s \in Sets : StartPool(s)) \/ PoolsOver \/ PoolDone
  BY <1>1, LoopMoves DEF Shown
<1>2. ASSUME NEW r \in Names, Reserve(r) PROVE Shown'
  BY <1>2, ReserveTakes DEF Shown
<1>3. CASE TokenAndSend
  BY <1>3, TokenTakes DEF Fresh, Shown, PoolsTypeOK, RunnersTypeOK, LoopTypeOK, LoopStates
<1>4. ASSUME NEW r \in Names, HandleEnd(r) PROVE Shown'
  BY <1>4 DEF HandleEnd, Shown, PoolsTypeOK, RunnersTypeOK
<1>5. ASSUME NEW r \in Names, AgentCreates(r) PROVE Shown'
  BY <1>5 DEF AgentCreates, Fresh, Shown, PoolsTypeOK, RunnersTypeOK
<1>6. ASSUME NEW r \in Names, Ends(r) PROVE Shown'
  BY <1>6 DEF Ends, Shown, PoolsTypeOK, RunnersTypeOK
<1>7. CASE PushStatus
  BY <1>7 DEF PushStatus, Current, Here, Shown
<1>8. CASE PongCopies
  BY <1>8 DEF PongCopies, Shown
<1>9. CASE PongSends
  <2>1. ~overtaken' => ~overtaken /\ status'.vms = Here
    <3>1. overtaken' = (overtaken \/ copied # Current) /\ status' = copied
      BY <1>9 DEF PongSends
    <3>2. ~overtaken' => ~overtaken /\ copied = Current
      BY <3>1, Zenon
    <3>3. Current.vms = Here
      BY DEF Current
    <3> QED
      BY <3>1, <3>2, <3>3
  <2>2. UNCHANGED <<recorded, reserved, vm, byLimit, active>>
    BY <1>9 DEF PongSends
  <2> QED
    BY <2>1, <2>2 DEF Shown, Here
<1>10. CASE SetCapacity
  BY <1>10 DEF SetCapacity, Stages, Shown
<1>11. CASE UpdateStatus
  BY <1>11 DEF UpdateStatus, Stages, Shown
<1>12. CASE SettleReservations
  BY <1>12 DEF SettleReservations, Settled, NoStatus, Stages, Shown
<1> QED
  BY <1>1, <1>2, <1>3, <1>4, <1>5, <1>6, <1>7, <1>8, <1>9, <1>10, <1>11, <1>12
  DEF PoolsNext, TopUp

-----------------------------------------------------------------------------
(* The agent's slots *)

\* The runners in some slot that a step may only give up.
LEMMA WithinLess ==
  ASSUME PoolsTypeOK, Within, Booked' \subseteq Booked, setOf' = setOf, overtaken => overtaken'
  PROVE  Within'
<1> SUFFICES ASSUME ~overtaken'
             PROVE  /\ Cardinality(Booked') <= MaxVms
                    /\ \A l \in Limits : On(l, Booked)' # {} =>
                         Outside[l] + Cardinality(On(l, Booked)') <= LimitMax[l]
  BY DEF Within
<1>1. Booked \in SUBSET Names
  BY DEF Booked, Asked, Here, PoolsTypeOK, RunnersTypeOK
<1>2. Cardinality(Booked') <= Cardinality(Booked) /\ Cardinality(Booked') \in Nat
      /\ Cardinality(Booked) \in Nat
  BY <1>1, OnFinite, FS_Subset, FS_CardinalityType
<1>3. ASSUME NEW l \in Limits, On(l, Booked)' # {}
      PROVE  Outside[l] + Cardinality(On(l, Booked)') <= LimitMax[l]
  <2>1. On(l, Booked)' \subseteq On(l, Booked)
    BY DEF On
  <2>2. IsFiniteSet(On(l, Booked)) /\ Cardinality(On(l, Booked)) \in Nat
    BY <1>1, OnFinite
  <2>3. Cardinality(On(l, Booked)') <= Cardinality(On(l, Booked))
        /\ Cardinality(On(l, Booked)') \in Nat
    BY <2>1, <2>2, FS_Subset, FS_CardinalityType
  <2>4. Outside[l] + Cardinality(On(l, Booked)) <= LimitMax[l]
    BY <1>3, <2>1 DEF Within
  <2> QED
    BY <2>2, <2>3, <2>4, PoolsAssumption
<1> QED
  BY <1>2, <1>3, PoolsAssumption DEF Within

\* A set within two others is no larger than both together.
LEMMA TwoCover ==
  ASSUME NEW A \in SUBSET Names, NEW B \in SUBSET Names, NEW C, C \subseteq A \cup B
  PROVE  Cardinality(C) <= Cardinality(A) + Cardinality(B) /\ Cardinality(C) \in Nat
<1>1. IsFiniteSet(A) /\ IsFiniteSet(B) /\ IsFiniteSet(A \cup B) /\ IsFiniteSet(A \cap B)
  BY PoolsAssumption, FS_Subset, FS_Union, FS_Intersection
<1>2. Cardinality(A \cup B) = Cardinality(A) + Cardinality(B) - Cardinality(A \cap B)
  BY <1>1, FS_Union
<1>3. Cardinality(C) <= Cardinality(A \cup B) /\ Cardinality(C) \in Nat
  BY <1>1, FS_Subset, FS_CardinalityType
<1> QED
  BY <1>1, <1>2, <1>3, FS_CardinalityType

\* reserve_slot only takes a slot that is free beside all that are taken.
LEMMA ReserveWithin ==
  ASSUME PoolsTypeOK, Fresh, Shown, Within, NEW r \in Names, Reserve(r),
         AvailableCapacity(fleet.pool) > 0, reserved' = reserved \cup {r},
         setOf' = [setOf EXCEPT ![r] = fleet.pool]
  PROVE  Within'
<1> SUFFICES ASSUME ~overtaken
             PROVE  /\ Cardinality(Booked') <= MaxVms
                    /\ \A l \in Limits : On(l, Booked)' # {} =>
                         Outside[l] + Cardinality(On(l, Booked)') <= LimitMax[l]
  BY ReserveTakes DEF Within
<1>1. /\ Booked \in SUBSET Names /\ active \in SUBSET Names /\ byLimit.vms \in SUBSET Names
      /\ reserved \in SUBSET Names /\ fleet.pool \in Sets
  BY DEF Booked, Asked, Here, PoolsTypeOK, RunnersTypeOK, StatusTypeOK, Statuses, LoopTypeOK,
         LoopStates
<1>2. r \notin Booked /\ Booked' = Booked \cup {r}
  BY ReserveTakes DEF FreeNames, Booked, Asked, Here
<1>3. Booked \subseteq active \cup reserved /\ Booked \subseteq byLimit.vms \cup reserved
  BY DEF Booked, Asked, Here, Fresh, Shown
<1>4. /\ Cardinality(active) + Cardinality(reserved) < MaxVms
      /\ \A l \in SetLimits[fleet.pool] :
           Outside[l] + Cardinality(On(l, byLimit.vms)) + Cardinality(On(l, reserved))
             < LimitMax[l]
  BY <1>1, CapacityIsNat
<1>5. Cardinality(Booked') <= MaxVms
  <2>1. Cardinality(Booked) <= Cardinality(active) + Cardinality(reserved)
    BY <1>1, <1>3, TwoCover
  <2>2. Cardinality(Booked') = Cardinality(Booked) + 1
    BY <1>1, <1>2, OnFinite, FS_AddElement
  <2> QED
    BY <1>1, <1>4, <2>1, <2>2, OnFinite, PoolsAssumption
<1>6. ASSUME NEW l \in Limits, On(l, Booked)' # {}
      PROVE  Outside[l] + Cardinality(On(l, Booked)') <= LimitMax[l]
  <2>1. CASE l \in SetLimits[fleet.pool]
    <3>1. On(l, Booked)' = On(l, Booked) \cup {r} /\ r \notin On(l, Booked)
      BY <1>1, <1>2, <2>1 DEF On, PoolsTypeOK, RunnersTypeOK
    <3>2. On(l, Booked) \subseteq On(l, byLimit.vms) \cup On(l, reserved)
      BY <1>3 DEF On
    <3>3. On(l, byLimit.vms) \in SUBSET Names /\ On(l, reserved) \in SUBSET Names
      BY <1>1 DEF On
    <3>4. Cardinality(On(l, Booked))
            <= Cardinality(On(l, byLimit.vms)) + Cardinality(On(l, reserved))
      BY <3>2, <3>3, TwoCover
    <3>5. Cardinality(On(l, Booked)') = Cardinality(On(l, Booked)) + 1
      BY <1>1, <3>1, OnFinite, FS_AddElement
    <3>6. /\ Cardinality(On(l, Booked)) \in Nat /\ Cardinality(On(l, byLimit.vms)) \in Nat
          /\ Cardinality(On(l, reserved)) \in Nat /\ Outside[l] \in Nat /\ LimitMax[l] \in Nat
      BY <1>1, OnFinite, PoolsAssumption
    <3>7. Outside[l] + Cardinality(On(l, byLimit.vms)) + Cardinality(On(l, reserved))
            < LimitMax[l]
      BY <1>4, <2>1
    <3> QED
      BY <3>4, <3>5, <3>6, <3>7
  <2>2. CASE l \notin SetLimits[fleet.pool]
    <3>1. On(l, Booked)' = On(l, Booked)
      BY <1>1, <1>2, <2>2 DEF On, PoolsTypeOK, RunnersTypeOK
    <3> QED
      BY <1>6, <3>1 DEF Within
  <2> QED
    BY <2>1, <2>2
<1> QED
  BY <1>5, <1>6

\* There is room for whatever is reserved.
LEMMA WithinKeeps ==
  ASSUME PoolsTypeOK, Fresh, Stages, Shown, Within, PoolsNext
  PROVE  Within'
<1>1. CASE StartTopUp \/ (\E s \in Sets : StartPool(s)) \/ PoolsOver \/ PoolDone
  BY <1>1, LoopMoves, WithinLess DEF Booked, Asked, Here
<1>2. ASSUME NEW r \in Names, Reserve(r) PROVE Within'
  <2>1. CASE UNCHANGED <<setOf, reserved>>
    BY <1>2, <2>1, ReserveTakes, WithinLess DEF Booked, Asked, Here
  <2>2. CASE ~ UNCHANGED <<setOf, reserved>>
    BY <1>2, <2>2, ReserveTakes, ReserveWithin
  <2> QED
    BY <2>1, <2>2
<1>3. CASE TokenAndSend
  <2>1. Booked' \subseteq Booked
    BY <1>3, TokenTakes
    DEF Booked, Asked, Here, Fresh, PoolsTypeOK, RunnersTypeOK, LoopTypeOK, LoopStates
  <2> QED
    BY <1>3, <2>1, TokenTakes, WithinLess
<1>4. CASE RunnerSteps
  <2>1. Booked' \subseteq Booked
    BY <1>4 DEF RunnerSteps, HandleEnd, AgentCreates, Ends, Booked, Asked, Here, PoolsTypeOK,
                RunnersTypeOK
  <2> QED
    BY <1>4, <2>1, WithinLess DEF RunnerSteps, HandleEnd, AgentCreates, Ends
<1>5. CASE StatusSteps
  <2>1. Booked' \subseteq Booked
    BY <1>5 DEF StatusSteps, PushStatus, PongCopies, PongSends, SetCapacity, UpdateStatus,
                SettleReservations, Settled, Booked, Asked, Here
  <2>2. setOf' = setOf /\ (overtaken => overtaken')
    <3>1. CASE PongSends
      BY <3>1, Zenon DEF PongSends
    <3>2. CASE ~PongSends
      BY <1>5, <3>2
      DEF StatusSteps, PushStatus, PongCopies, SetCapacity, UpdateStatus, SettleReservations
    <3> QED
      BY <3>1, <3>2
  <2> QED
    BY <2>1, <2>2, WithinLess
<1> QED
  BY <1>1, <1>2, <1>3, <1>4, <1>5 DEF PoolsNext, TopUp, RunnerSteps, StatusSteps

-----------------------------------------------------------------------------
(* The pools' sizes *)

Of(s) == {r \in recorded : setOf[r] = s}

\* A pool is counted in numbers.
LEMMA CountType ==
  ASSUME PoolsTypeOK, NEW s
  PROVE  IsFiniteSet(Of(s)) /\ CountForPool(s) \in Nat /\ CountForPool(s) = Cardinality(Of(s))
<1>1. Of(s) \in SUBSET Names
  BY DEF Of, PoolsTypeOK, RunnersTypeOK
<1> QED
  BY <1>1, OnFinite DEF CountForPool, Of

\* A step that gives no pool more runners, nor more to come.
LEMMA SizesLess ==
  ASSUME PoolsTypeOK, PoolsTypeOK', PoolWithinSize, PoolRoom, miscounted => miscounted',
         \A s \in Sets : Of(s)' \subseteq Of(s),
         fleet'.at \in {"create", "token"} =>
           /\ fleet.at \in {"create", "token"} /\ fleet'.pool = fleet.pool
           /\ fleet'.left <= fleet.left
  PROVE  PoolWithinSize' /\ PoolRoom'
<1>1. \A s \in Sets : CountForPool(s)' <= CountForPool(s) /\ CountForPool(s)' \in Nat
                      /\ CountForPool(s) \in Nat
  <2> SUFFICES ASSUME NEW s \in Sets
               PROVE  CountForPool(s)' <= CountForPool(s) /\ CountForPool(s)' \in Nat
                      /\ CountForPool(s) \in Nat
    OBVIOUS
  <2>1. IsFiniteSet(Of(s)) /\ CountForPool(s) \in Nat /\ CountForPool(s) = Cardinality(Of(s))
    BY CountType
  <2>2. Cardinality(Of(s)') <= Cardinality(Of(s)) /\ Cardinality(Of(s)') \in Nat
    BY <2>1, FS_Subset, FS_CardinalityType
  <2>3. CountForPool(s)' = Cardinality(Of(s)')
    BY DEF CountForPool, Of
  <2> QED
    BY <2>1, <2>2, <2>3
<1>2. PoolWithinSize'
  <2> SUFFICES ASSUME ~miscounted', NEW s \in Sets
               PROVE  Cardinality({r \in recorded' : setOf'[r] = s}) <= PoolSize[s]
    BY DEF PoolWithinSize
  <2>1. CountForPool(s) <= PoolSize[s]
    BY DEF PoolWithinSize, CountForPool
  <2>2. CountForPool(s)' = Cardinality({r \in recorded' : setOf'[r] = s})
    BY DEF CountForPool
  <2>3. CountForPool(s)' <= CountForPool(s) /\ CountForPool(s)' \in Nat /\ CountForPool(s) \in Nat
    BY <1>1
  <2> QED
    BY <2>1, <2>2, <2>3, PoolsAssumption
<1>3. PoolRoom'
  <2> SUFFICES ASSUME ~miscounted', fleet'.at \in {"create", "token"}
               PROVE  CountForPool(fleet.pool)' + fleet'.left <= PoolSize[fleet'.pool]
    BY DEF PoolRoom
  <2>1. fleet.pool \in Sets /\ fleet.left \in Nat /\ fleet'.left \in Nat
    BY DEF PoolsTypeOK, LoopTypeOK, LoopStates
  <2>2. CountForPool(fleet.pool) + fleet.left <= PoolSize[fleet.pool]
    BY DEF PoolRoom
  <2>3. CountForPool(fleet.pool)' = Cardinality({r \in recorded' : setOf'[r] = fleet.pool})
    BY DEF CountForPool
  <2>4. Cardinality({r \in recorded' : setOf'[r] = fleet.pool}) <= CountForPool(fleet.pool)
        /\ Cardinality({r \in recorded' : setOf'[r] = fleet.pool}) \in Nat
        /\ CountForPool(fleet.pool) \in Nat
    BY <1>1, <2>1 DEF CountForPool
  <2> QED
    BY <2>1, <2>2, <2>3, <2>4, PoolsAssumption
<1> QED
  BY <1>2, <1>3

\* No pool outgrows its size.
LEMMA SizesKeep ==
  ASSUME PoolsTypeOK, PoolsTypeOK', Fresh, PoolWithinSize, PoolRoom, PoolsNext
  PROVE  PoolWithinSize' /\ PoolRoom'
<1>1. CASE StartTopUp \/ PoolsOver \/ PoolDone
  <2>1. UNCHANGED <<recorded, setOf, miscounted>> /\ fleet'.at \notin {"create", "token"}
    BY <1>1
    DEF StartTopUp, PoolsOver, PoolDone, PoolsTypeOK, LoopTypeOK, LoopStates
  <2> QED
    BY <2>1, SizesLess DEF Of
<1>2. ASSUME NEW s \in Sets, StartPool(s) PROVE PoolWithinSize' /\ PoolRoom'
  <2>1. UNCHANGED <<recorded, setOf>> /\ (miscounted => miscounted')
    BY <1>2, Zenon DEF StartPool
  <2>2. PoolWithinSize'
    BY <2>1 DEF PoolWithinSize
  <2>3. ASSUME ~miscounted' PROVE CountForPool(s) + fleet'.left <= PoolSize[s]
    <3>1. CountForPool(s) <= PoolSize[s] /\ CountForPool(s) \in Nat
      BY <2>1, <2>3, CountType DEF PoolWithinSize, CountForPool
    <3>2. fleet'.left <= Minus(PoolSize[s], CountForPool(s)) /\ fleet'.left \in Nat
      BY <1>2, <2>3, StartPoolTakes
    <3> QED
      BY <3>1, <3>2, PoolsAssumption DEF Minus
  <2>4. fleet'.pool = s
    BY <1>2, StartPoolTakes
  <2>5. CountForPool(fleet.pool)' = CountForPool(s)
    BY <2>1, <2>4 DEF CountForPool
  <2>6. PoolRoom'
    BY <2>3, <2>4, <2>5 DEF PoolRoom
  <2> QED
    BY <2>2, <2>6
<1>3. ASSUME NEW r \in Names, Reserve(r) PROVE PoolWithinSize' /\ PoolRoom'
  <2>1. \A s \in Sets : Of(s)' \subseteq Of(s)
    BY <1>3, ReserveTakes DEF Of, FreeNames, PoolsTypeOK, RunnersTypeOK
  <2>2. fleet'.left <= fleet.left
    BY <1>3, ReserveTakes DEF PoolsTypeOK, LoopTypeOK, LoopStates
  <2> QED
    BY <1>3, <2>1, <2>2, ReserveTakes, SizesLess
<1>4. CASE TokenAndSend
  <2>1. CASE fleet'.left = 0 /\ UNCHANGED recorded
    BY <1>4, <2>1, TokenTakes, SizesLess DEF Of, PoolsTypeOK, LoopTypeOK, LoopStates
  <2>2. CASE fleet'.left = fleet.left - 1 /\ recorded' = recorded \cup {fleet.hand}
    <3> DEFINE p == fleet.pool
    <3>1. /\ fleet.hand \notin recorded /\ setOf[fleet.hand] = p /\ p \in Sets
          /\ fleet.left \in Nat /\ fleet.left > 0
      BY <1>4, TokenTakes DEF Fresh, PoolsTypeOK, LoopTypeOK, LoopStates
    <3>2. setOf' = setOf /\ miscounted' = miscounted /\ fleet'.pool = p /\ fleet.at = "token"
      BY <1>4, TokenTakes
    <3>3. \A s \in Sets \ {p} : Of(s)' = Of(s)
      BY <2>2, <3>1, <3>2 DEF Of
    <3>4. Of(p)' = Of(p) \cup {fleet.hand} /\ fleet.hand \notin Of(p)
      BY <2>2, <3>1, <3>2 DEF Of
    <3>5. Cardinality({r \in recorded' : setOf'[r] = p}) = CountForPool(p) + 1
          /\ CountForPool(p) \in Nat
      <4>1. {r \in recorded' : setOf'[r] = p} = Of(p) \cup {fleet.hand}
        BY <2>2, <3>1, <3>2 DEF Of
      <4>2. IsFiniteSet(Of(p)) /\ CountForPool(p) \in Nat /\ CountForPool(p) = Cardinality(Of(p))
        BY CountType
      <4>3. Cardinality(Of(p) \cup {fleet.hand}) = Cardinality(Of(p)) + 1
        BY <3>4, <4>2, FS_AddElement
      <4> QED
        BY <4>1, <4>2, <4>3
    <3>6. ASSUME ~miscounted PROVE CountForPool(p) + fleet.left <= PoolSize[p]
      BY <3>2, <3>6 DEF PoolRoom
    <3>7. PoolWithinSize'
      <4> SUFFICES ASSUME ~miscounted, NEW s \in Sets
                   PROVE  Cardinality({r \in recorded' : setOf'[r] = s}) <= PoolSize[s]
        BY <3>2 DEF PoolWithinSize
      <4>1. CASE s = p
        BY <3>1, <3>5, <3>6, <4>1, PoolsAssumption
      <4>2. CASE s # p
        <5>1. {r \in recorded' : setOf'[r] = s} = {r \in recorded : setOf[r] = s}
          BY <3>3, <4>2 DEF Of
        <5> QED
          BY <5>1 DEF PoolWithinSize
      <4> QED
        BY <4>1, <4>2
    <3>8. PoolRoom'
      <4>1. CountForPool(fleet.pool)' = CountForPool(p) + 1
        BY <3>2, <3>5 DEF CountForPool
      <4>2. ~miscounted => CountForPool(p) + 1 + (fleet.left - 1) <= PoolSize[p]
        BY <3>1, <3>5, <3>6, PoolsAssumption
      <4> QED
        BY <2>2, <3>2, <4>1, <4>2 DEF PoolRoom
    <3> QED
      BY <3>7, <3>8
  <2> QED
    BY <1>4, <2>1, <2>2, TokenTakes
<1>5. CASE RunnerSteps
  <2>1. /\ \A s \in Sets : Of(s)' \subseteq Of(s)
        /\ fleet' = fleet /\ miscounted' = miscounted
    BY <1>5 DEF RunnerSteps, HandleEnd, AgentCreates, Ends, Of
  <2>2. fleet.left <= fleet.left
    BY DEF PoolsTypeOK, LoopTypeOK, LoopStates
  <2> QED
    BY <2>1, <2>2, SizesLess
<1>6. CASE StatusSteps
  <2>1. UNCHANGED <<recorded, setOf, fleet, miscounted>>
    BY <1>6 DEF StatusSteps, PushStatus, PongCopies, PongSends, SetCapacity, UpdateStatus,
                SettleReservations
  <2>2. fleet.left <= fleet.left
    BY DEF PoolsTypeOK, LoopTypeOK, LoopStates
  <2> QED
    BY <2>1, <2>2, SizesLess DEF Of
<1> QED
  BY <1>1, <1>2, <1>3, <1>4, <1>5, <1>6 DEF PoolsNext, TopUp, RunnerSteps, StatusSteps

-----------------------------------------------------------------------------
(* The theorems *)

LEMMA PoolsNextInv == PoolsInv /\ [PoolsNext]_poolsVars => PoolsInv'
<1>1. ASSUME PoolsInv, UNCHANGED poolsVars PROVE PoolsInv'
  <2> USE <1>1 DEF poolsVars, PoolsInv
  <2>1. PoolsTypeOK'
    BY DEF PoolsTypeOK, LoopTypeOK, RunnersTypeOK, StatusTypeOK
  <2>2. Fresh' /\ Stages' /\ Shown'
    BY DEF Fresh, Seen, Stages, Shown
  <2>3. Within'
    BY DEF Within, Booked, Asked, Here, On
  <2>4. PoolRoom' /\ PoolWithinSize'
    BY DEF PoolRoom, CountForPool, PoolWithinSize
  <2> QED
    BY <2>1, <2>2, <2>3, <2>4
<1>2. ASSUME PoolsInv, PoolsNext PROVE PoolsInv'
  BY <1>2, TypeKeeps, FreshKeeps, StagesKeeps, ShownKeeps, WithinKeeps, SizesKeep DEF PoolsInv
<1> QED
  BY <1>1, <1>2

LEMMA PoolsInvariant == PoolsSpec => []PoolsInv
  BY PoolsInitInv, PoolsNextInv, PTL DEF PoolsSpec

\* The loop, the runners and the statuses have their types.
THEOREM PoolsTypeCorrect == PoolsSpec => []PoolsTypeOK
<1>1. PoolsInv => PoolsTypeOK
  BY DEF PoolsInv
<1> QED
  BY PoolsInvariant, <1>1, PTL

\* reconcile, reserve_slot and settle_reservations: whatever the sizes, limits and label sets are,
\* an agent is never asked for more VMs than its slots, nor a pool given more than its size.
THEOREM PoolsStayWithin == PoolsSpec => []PoolsWithin
<1>1. PoolsInv => SlotsWithin
  <2> SUFFICES ASSUME PoolsInv, ~overtaken
               PROVE  /\ Cardinality(Asked) <= MaxVms
                      /\ \A l \in Limits : On(l, Asked) # {} =>
                           Outside[l] + Cardinality(On(l, Asked)) <= LimitMax[l]
    BY DEF SlotsWithin
  <2>1. Booked \in SUBSET Names /\ Asked \subseteq Booked
    BY DEF Booked, Asked, Here, PoolsInv, PoolsTypeOK, RunnersTypeOK
  <2>2. Cardinality(Asked) <= MaxVms
    <3>1. Cardinality(Asked) <= Cardinality(Booked) /\ Cardinality(Asked) \in Nat
      BY <2>1, OnFinite, FS_Subset, FS_CardinalityType
    <3> QED
      BY <2>1, <3>1, OnFinite, PoolsAssumption DEF PoolsInv, Within
  <2>3. ASSUME NEW l \in Limits, On(l, Asked) # {}
        PROVE  Outside[l] + Cardinality(On(l, Asked)) <= LimitMax[l]
    <3>1. On(l, Asked) \subseteq On(l, Booked)
      BY <2>1 DEF On
    <3>2. Outside[l] + Cardinality(On(l, Booked)) <= LimitMax[l]
      BY <2>3, <3>1 DEF PoolsInv, Within
    <3>3. /\ Cardinality(On(l, Asked)) <= Cardinality(On(l, Booked))
          /\ Cardinality(On(l, Asked)) \in Nat /\ Cardinality(On(l, Booked)) \in Nat
      BY <2>1, <3>1, OnFinite, FS_Subset, FS_CardinalityType
    <3> QED
      BY <3>2, <3>3, PoolsAssumption
  <2> QED
    BY <2>2, <2>3
<1>2. PoolsInv => PoolsWithin
  BY <1>1 DEF PoolsInv, PoolsWithin
<1> QED
  BY PoolsInvariant, <1>2, PTL

-----------------------------------------------------------------------------
(* Draining *)

-----------------------------------------------------------------------------
(* The inductive invariant *)

\* It can run no job any more: it is off the forge, or past the time it has to register in.
Doomed(r) ==
  runner[r] \in {"unregistered", "ended", "over"} \/ (runner[r] = "boot" /\ r \in old)

\* A pass looks at runners that were made, and at one of them at a time; who is aged stays so.
Pass ==
  /\ \A r \in todo : runner[r] # "new"
  /\ drain \in {"found", "asked"} => asked \in todo
  /\ aged \subseteq old

\* What an answer of the forge is still good for.
Answer ==
  /\ drain = "found" => runner[asked] # "boot"
  /\ drain = "asked" /\ removal = "Removed" => Doomed(asked)
  /\ drain = "asked" /\ removal = "NotRegistered" /\ asked \in aged => Doomed(asked)

Sent == \A r \in destroys : Doomed(r)

DrainInv == DrainTypeOK /\ Pass /\ Answer /\ Sent

-----------------------------------------------------------------------------
(* The invariant holds *)

LEMMA DrainInitInv == DrainInit => DrainInv
  BY DrainAssumption DEF DrainInit, DrainInv, DrainTypeOK, Pass, Answer, Sent

\* A step of the fleet loop keeps it.
LEMMA DrainLoopKeeps == DrainInv /\ DrainLoop => DrainInv'
<1> SUFFICES ASSUME DrainInv, DrainLoop PROVE DrainInv'
  OBVIOUS
<1> USE DEF DrainInv, DrainTypeOK, Pass, Answer, Sent, Doomed
<1>1. CASE StartDrain
  <2>1. draining' \in [PoolRunners -> {"no", "recent", "due"}]
    BY <1>1 DEF StartDrain, DrainedListed
  <2> QED
    BY <1>1, <2>1 DEF StartDrain, Recorded
<1>2. CASE TryDelete
  BY <1>2 DEF TryDelete
<1>3. CASE SendDestroy
  BY <1>3 DEF SendDestroy, DrainStep
<1>4. CASE LeaveRunner
  BY <1>4 DEF LeaveRunner
<1>5. CASE DrainOver
  BY <1>5 DEF DrainOver
<1>6. ASSUME NEW r \in PoolRunners, DrainAsk(r) PROVE DrainInv'
  <2>1. removal' = FoundAtForge(r)
    BY <1>6 DEF DrainAsk
  <2>2. /\ removal' \in {"Idle", "Removed", "Busy", "NotRegistered"} /\ removal' # "Removed"
        /\ removal' = "Idle" => runner[r] = "idle"
        /\ removal' = "NotRegistered" => runner[r] \notin {"idle", "busy"}
    BY <2>1 DEF FoundAtForge
  <2> QED
    BY <1>6, <2>2 DEF DrainAsk
<1> QED
  BY <1>1, <1>2, <1>3, <1>4, <1>5, <1>6 DEF DrainLoop

\* A runner's step moves it towards its end, and never from past the boot grace to the forge.
LEMMA DrainRunnerKeeps ==
  ASSUME DrainInv, NEW r \in PoolRunners,
         \/ Make(r) \/ RegisterAtForge(r) \/ GetJob(r) \/ PoolJobOver(r) \/ DestroyRunner(r)
         \/ LoseDestroy(r) \/ RunnerGone(r) \/ BootGraceOver(r) \/ DestroyRetryDue(r)
  PROVE  DrainInv'
<1> USE DEF DrainInv, DrainTypeOK, Pass, Answer, Sent, Doomed
<1>1. CASE Make(r)
  BY <1>1 DEF Make
<1>2. CASE RegisterAtForge(r)
  BY <1>2 DEF RegisterAtForge
<1>3. CASE GetJob(r)
  BY <1>3 DEF GetJob
<1>4. CASE PoolJobOver(r)
  BY <1>4 DEF PoolJobOver
<1>5. CASE DestroyRunner(r)
  BY <1>5 DEF DestroyRunner
<1>6. CASE LoseDestroy(r)
  BY <1>6 DEF LoseDestroy
<1>7. CASE RunnerGone(r)
  BY <1>7 DEF RunnerGone
<1>8. CASE BootGraceOver(r)
  BY <1>8 DEF BootGraceOver, Recorded
<1>9. CASE DestroyRetryDue(r)
  BY <1>9 DEF DestroyRetryDue
<1> QED
  BY <1>1, <1>2, <1>3, <1>4, <1>5, <1>6, <1>7, <1>8, <1>9

\* The invariant is inductive.
LEMMA DrainNextInv == DrainInv /\ [DrainNext]_drainVars => DrainInv'
<1> SUFFICES ASSUME DrainInv, [DrainNext]_drainVars PROVE DrainInv'
  OBVIOUS
<1>1. CASE SetMaintenance
  BY <1>1 DEF SetMaintenance, DrainInv, DrainTypeOK, Pass, Answer, Sent, Doomed
<1>2. CASE UNCHANGED drainVars
  BY <1>2 DEF drainVars, DrainInv, DrainTypeOK, Pass, Answer, Sent, Doomed
<1> QED
  BY <1>1, <1>2, DrainLoopKeeps, DrainRunnerKeeps DEF DrainNext

LEMMA DrainInvariant == DrainSpec => []DrainInv
  BY DrainInitInv, DrainNextInv, PTL DEF DrainSpec

-----------------------------------------------------------------------------
(* The theorems *)

\* The loop's books and the runners' states have their types.
THEOREM DrainTypeCorrect == DrainSpec => []DrainTypeOK
<1>1. DrainInv => DrainTypeOK
  BY DEF DrainInv
<1> QED
  BY DrainInvariant, <1>1, PTL

\* Draining sends no destroy to a runner that runs a job then or takes one before it arrives,
\* whatever happened between the forge's answer and the send.
THEOREM BusySpared == DrainSpec => []DrainSpares
<1>1. DrainInv => DrainSpares
  BY DEF DrainInv, Sent, Doomed, DrainSpares
<1> QED
  BY DrainInvariant, <1>1, PTL
=============================================================================
