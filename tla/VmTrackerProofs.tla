-------------------------- MODULE VmTrackerProofs --------------------------
(***************************************************************************)
(* Proofs about VmTracker, for any runners, limits and guests: types, one  *)
(* destroyer per VM, VMs that are gone when a destroy returns, limits that *)
(* hold, and the tracker as an implementation of SlotPool.                 *)
(*                                                                         *)
(* OneDestroyer is not inductive: that nobody claims a VM while its        *)
(* lifecycle still creates it follows from where a lifecycle can be while  *)
(* an entry is in some state (Stages), and that nobody else claims it from *)
(* a claim's entry being "destroying" (Owners). That a VM to be destroyed  *)
(* never loses its last destroyer needs that no call of destroy is begun   *)
(* anew by a caller that is still at one (Destroyers).                     *)
(***************************************************************************)
EXTENDS VmTracker, FiniteSetTheorems, TLAPS

-----------------------------------------------------------------------------
(* The inductive invariant *)

\* What a lifecycle's stage says about its entry.
Stages ==
  \A n \in Names :
    /\ life[n] \in {"reserved", "creating", "created"} => state[n] \in {"creating", "destroying"}
    /\ life[n] \in {"aborting", "aborted"} => state[n] = "destroying"
    /\ life[n] \in {"running", "destroying"} => state[n] # "creating"
    /\ life[n] = "destroying" /\ ~Active("lifecycle", n) => state[n] = "none"
    /\ life[n] = "created" => guest[n] \subseteq limits[n]

\* Who has claimed a VM is alone with it, and its lifecycle is past the create.
Owners ==
  \A c \in Callers, n \in Names :
    call[c][n] \in {"own", "owned"} =>
      /\ state[n] = "destroying"
      /\ life[n] \in {"running", "destroying"}
      /\ \A d \in Callers : call[d][n] \in {"own", "owned"} => d = c

\* Whatever is to be destroyed is somebody's to destroy, and a lifecycle and shutdown each call
\* destroy once.
Unborn == {"reserved", "creating", "created", "aborting", "aborted"}
Destroyers ==
  \A n \in Names :
    /\ state[n] = "destroying" =>
         life[n] \in Unborn \/ \E c \in Callers : call[c][n] \in {"own", "owned"}
    /\ \A c \in Callers : call[c][n] = "wait" => state[n] \in {"destroying", "none"}
    /\ life[n] # "destroying" => ~Active("lifecycle", n)
    /\ phase \in {"serving", "signalled"} => ~Active("shutdown", n)
    /\ life[n] = "new" => n \notin sweep /\ \A c \in Callers : ~Active(c, n)

\* A VM on the host has an entry that counts it, from its creation to its destruction.
Hosted ==
  \A n \in host \ failed :
    /\ state[n] # "none" /\ life[n] \notin {"reserved", "creating", "aborted"}
    /\ guest[n] \subseteq limits[n]
    /\ \A c \in Callers : call[c][n] # "owned"

Within == \A l \in Limits : Usage(l) <= Max[l]

IInv == TypeOK /\ Stages /\ Owners /\ Destroyers /\ Hosted /\ Within

-----------------------------------------------------------------------------
(* What a claim does *)

\* A claim goes to own only for a created VM nobody has claimed, and leaves a tracked VM's entry
\* "destroying".
LEMMA ClaimMoves ==
  ASSUME TypeOK, NEW n \in Names, NEW c \in Callers, Claim(c, n)
  PROVE  /\ \A d \in Callers, m \in Names : <<d, m>> # <<c, n>> => call'[d][m] = call[d][m]
         /\ call[c][n] = "claim" /\ call'[c][n] \in {"own", "wait", "idle"}
         /\ call'[c][n] = "own" => state[n] = "up"
         /\ call'[c][n] = "idle" => state[n] = "none"
         /\ call'[c][n] = "wait" => state[n] \in {"creating", "destroying"}
         /\ \A m \in Names :
              state'[m] = IF m = n /\ state[m] # "none" THEN "destroying" ELSE state[m]
         /\ UNCHANGED <<phase, limits, outcome, host, guest, failed, life, sweep>>
<1>1. PICK to \in {"own", "wait", "idle"} : call' = [call EXCEPT ![c][n] = to]
  BY DEF Claim, Move, Told
<1>2. call'[c][n] = to
  BY <1>1 DEF TypeOK
<1>3. to = "own" => state[n] = "up"
  BY <1>2 DEF Claim, Move, Told, Owns, TypeOK
<1>4. to = "idle" => state[n] = "none"
  BY <1>2 DEF Claim, Move, Told, Owns, Waits, TypeOK
<1>8. to = "wait" => state[n] \in {"creating", "destroying"}
  BY <1>2 DEF Claim, Move, Told, Waits, TypeOK
<1>5. state' = IF state[n] # "none" THEN [state EXCEPT ![n] = "destroying"] ELSE state
  BY DEF Claim, Tracked
<1>6. \A m \in Names : state'[m] = IF m = n /\ state[m] # "none" THEN "destroying" ELSE state[m]
  BY <1>5 DEF TypeOK
<1>7. \A d \in Callers, m \in Names : <<d, m>> # <<c, n>> => call'[d][m] = call[d][m]
  BY <1>1 DEF TypeOK
<1> QED BY <1>2, <1>3, <1>4, <1>6, <1>7, <1>8 DEF Claim

-----------------------------------------------------------------------------
(* Every step keeps the types *)

LEMMA TypeStep == ASSUME IInv, [Next]_vars PROVE TypeOK'
<1> USE DEF IInv
<1>1. ASSUME NEW n \in Names, NEW e \in [Limits -> 0 .. MaxExternal], ServeCreate(n, e)
      PROVE  TypeOK'
  <2>1. /\ life' \in {[life EXCEPT ![n] = "reserved"], [life EXCEPT ![n] = "rejected"]}
        /\ life'[n] = "reserved" => state' = [state EXCEPT ![n] = "creating"]
        /\ life'[n] = "rejected" => state' = state
        /\ limits' \in {limits, [limits EXCEPT ![n] = Asked[n]]}
        /\ life[n] = "new"
        /\ UNCHANGED <<phase, outcome, host, guest, failed, call, sweep>>
    BY <1>1 DEF TypeOK, ServeCreate
  <2>2. limits' \in [Names -> SUBSET Limits]
    BY <2>1, VmTrackerAssumption DEF TypeOK
  <2>3. CASE life' = [life EXCEPT ![n] = "reserved"]
    BY <2>1, <2>2, <2>3 DEF TypeOK
  <2>4. CASE life' = [life EXCEPT ![n] = "rejected"]
    BY <2>1, <2>2, <2>4 DEF TypeOK
  <2> QED BY <2>1, <2>3, <2>4
<1>2. ASSUME NEW n \in Names, SpawnCreate(n) \/ ServeDestroy(n) \/ Find(n) PROVE TypeOK'
  BY <1>2 DEF TypeOK, SpawnCreate, ServeDestroy, Find, Move, Told, Callers
<1>3. ASSUME NEW n \in Names, BackendCreates(n) \/ SetCreated(n) PROVE TypeOK'
  BY <1>3, VmTrackerAssumption DEF TypeOK, BackendCreates, CreateFails, Untrack, SetCreated, Wanted
<1>4. ASSUME NEW n \in Names, AbortVm(n) \/ UntrackAborted(n) PROVE TypeOK'
  BY <1>4 DEF TypeOK, AbortVm, DestroysVm, UntrackAborted, Untrack, Outcome
<1>5. ASSUME NEW n \in Names, RunEnds(n) \/ Report(n) PROVE TypeOK'
  BY <1>5 DEF TypeOK, Stages, RunEnds, Report, Move, Callers
<1>6. ASSUME NEW n \in Names, NEW c \in Callers, Claim(c, n) PROVE TypeOK'
  <2>1. call' \in [Callers -> [Names -> {"idle", "find", "claim", "own", "owned", "wait", "err"}]]
    BY <1>6 DEF TypeOK, Claim, Move, Told
  <2>2. state' = IF n \in Tracked THEN [state EXCEPT ![n] = "destroying"] ELSE state
    BY <1>6 DEF Claim
  <2>3. UNCHANGED <<phase, limits, outcome, host, guest, failed, life, sweep>>
    BY <1>6 DEF Claim
  <2>4. \A m \in Names : (state[m] = "none") = (state'[m] = "none")
    BY <2>2 DEF TypeOK, Tracked
  <2> QED BY <2>1, <2>2, <2>3, <2>4 DEF TypeOK
<1>7. ASSUME NEW n \in Names, NEW c \in Callers, DestroyOwn(c, n) PROVE TypeOK'
  BY <1>7 DEF TypeOK, DestroyOwn, DestroysVm, Move
<1>8. ASSUME NEW n \in Names, NEW c \in Callers, UntrackOwn(c, n) PROVE TypeOK'
  BY <1>8 DEF TypeOK, Owners, UntrackOwn, Untrack, Outcome, Move, Told
<1>9. ASSUME NEW n \in Names, NEW c \in Callers, WaitOver(c, n) PROVE TypeOK'
  BY <1>9 DEF TypeOK, WaitOver, Move, Told
<1>10. ASSUME NEW n \in Names, CleanupNext(n) PROVE TypeOK'
  BY <1>10 DEF TypeOK, CleanupNext, Move, Callers
<1>11. ASSUME NEW old \in SUBSET Names, StartCleanup(old) PROVE TypeOK'
  BY <1>11 DEF TypeOK, StartCleanup
<1>12. CASE Signal \/ DestroyAll \/ Exit
  BY <1>12 DEF TypeOK, Signal, DestroyAll, Exit
<1>13. CASE UNCHANGED vars
  BY <1>13 DEF TypeOK, vars
<1> QED BY <1>1, <1>2, <1>3, <1>4, <1>5, <1>6, <1>7, <1>8, <1>9, <1>10, <1>11, <1>12, <1>13
      DEF Next, LifeStep, DestroyStep
-----------------------------------------------------------------------------
(* Every step keeps entries and lifecycles in step *)

LEMMA StagesStep == ASSUME IInv, [Next]_vars PROVE Stages'
<1> USE DEF IInv, Stages, TypeOK
<1>1. ASSUME NEW n \in Names, NEW e \in [Limits -> 0 .. MaxExternal], ServeCreate(n, e)
      PROVE  Stages'
  BY <1>1 DEF ServeCreate, Active, Owners
<1>2. ASSUME NEW n \in Names, SpawnCreate(n) \/ ServeDestroy(n) \/ Find(n) PROVE Stages'
  BY <1>2 DEF SpawnCreate, ServeDestroy, Find, Move, Told, Callers, Active, Owners
<1>3. ASSUME NEW n \in Names, BackendCreates(n) \/ SetCreated(n) PROVE Stages'
  BY <1>3 DEF BackendCreates, CreateFails, Untrack, SetCreated, Wanted, Active, Owners
<1>4. ASSUME NEW n \in Names, AbortVm(n) \/ UntrackAborted(n) PROVE Stages'
  BY <1>4 DEF AbortVm, DestroysVm, UntrackAborted, Untrack, Active, Owners
<1>5. ASSUME NEW n \in Names, RunEnds(n) \/ Report(n) PROVE Stages'
  BY <1>5 DEF RunEnds, Report, Move, Callers, Active, Owners
<1>6. ASSUME NEW n \in Names, NEW c \in Callers, Claim(c, n) PROVE Stages'
  <2> SUFFICES ASSUME NEW m \in Names PROVE Stages!(m)'
    OBVIOUS
  <2>0. TypeOK
    BY DEF TypeOK
  <2>1. /\ UNCHANGED <<life, guest, limits>>
        /\ state'[m] \in {state[m], IF state[m] = "none" THEN "none" ELSE "destroying"}
    <3> HIDE DEF TypeOK, Stages, IInv
    <3> QED BY <1>6, <2>0, ClaimMoves
  <2>2. life[m] = "destroying" /\ ~Active("lifecycle", m)' => state'[m] = "none"
    <3>1. CASE c = "lifecycle" /\ m = n
      BY <1>6, <2>0, <3>1, ClaimMoves DEF Active
    <3>2. CASE ~(c = "lifecycle" /\ m = n)
      <4>1. <<"lifecycle", m>> # <<c, n>> /\ "lifecycle" \in Callers
        BY <3>2 DEF Callers
      <4>2. call'["lifecycle"][m] = call["lifecycle"][m]
        BY <1>6, <2>0, <4>1, ClaimMoves
      <4> QED BY <2>1, <4>2 DEF Active
    <3> QED BY <3>1, <3>2
  <2> QED BY <2>1, <2>2
<1>7. ASSUME NEW n \in Names, NEW c \in Callers, DestroyOwn(c, n) PROVE Stages'
  BY <1>7 DEF DestroyOwn, DestroysVm, Move, Active, Owners
<1>8. ASSUME NEW n \in Names, NEW c \in Callers, UntrackOwn(c, n) PROVE Stages'
  BY <1>8 DEF UntrackOwn, Untrack, Outcome, Move, Told, Active, Owners
<1>9. ASSUME NEW n \in Names, NEW c \in Callers, WaitOver(c, n) PROVE Stages'
  BY <1>9 DEF WaitOver, Move, Told, Tracked, Active, Owners
<1>10. ASSUME NEW n \in Names, CleanupNext(n) PROVE Stages'
  BY <1>10 DEF CleanupNext, Move, Callers, Active, Owners
<1>11. ASSUME NEW old \in SUBSET Names, StartCleanup(old) PROVE Stages'
  BY <1>11 DEF StartCleanup, Active, Owners
<1>12. CASE Signal \/ DestroyAll \/ Exit
  <2>1. call'["lifecycle"] = call["lifecycle"]
    BY <1>12 DEF Signal, DestroyAll, Exit, Callers
  <2> QED BY <1>12, <2>1 DEF Active, Signal, DestroyAll, Exit
<1>13. CASE UNCHANGED vars
  BY <1>13 DEF Active, Owners, vars
<1> QED BY <1>1, <1>2, <1>3, <1>4, <1>5, <1>6, <1>7, <1>8, <1>9, <1>10, <1>11, <1>12, <1>13
      DEF Next, LifeStep, DestroyStep

-----------------------------------------------------------------------------
(* Every step keeps destroyers alone *)

LEMMA OwnersStep == ASSUME IInv, [Next]_vars PROVE Owners'
<1> USE DEF IInv, Owners, TypeOK
<1>1. ASSUME NEW n \in Names, NEW e \in [Limits -> 0 .. MaxExternal], ServeCreate(n, e)
      PROVE  Owners'
  BY <1>1 DEF ServeCreate, Stages
<1>2. ASSUME NEW n \in Names, SpawnCreate(n) \/ ServeDestroy(n) \/ Find(n) PROVE Owners'
  BY <1>2 DEF SpawnCreate, ServeDestroy, Find, Move, Told, Callers, Stages
<1>3. ASSUME NEW n \in Names, BackendCreates(n) \/ SetCreated(n) PROVE Owners'
  BY <1>3 DEF BackendCreates, CreateFails, Untrack, SetCreated, Wanted, Stages
<1>4. ASSUME NEW n \in Names, AbortVm(n) \/ UntrackAborted(n) PROVE Owners'
  BY <1>4 DEF AbortVm, DestroysVm, UntrackAborted, Untrack, Stages
<1>5. ASSUME NEW n \in Names, RunEnds(n) \/ Report(n) PROVE Owners'
  BY <1>5 DEF RunEnds, Report, Move, Callers, Stages
<1>6. ASSUME NEW n \in Names, NEW c \in Callers, Claim(c, n) PROVE Owners'
  BY <1>6, ClaimMoves DEF Stages
<1>7. ASSUME NEW n \in Names, NEW c \in Callers, DestroyOwn(c, n) PROVE Owners'
  BY <1>7 DEF DestroyOwn, DestroysVm, Move, Stages
<1>8. ASSUME NEW n \in Names, NEW c \in Callers, UntrackOwn(c, n) PROVE Owners'
  BY <1>8 DEF UntrackOwn, Untrack, Outcome, Move, Told, Stages
<1>9. ASSUME NEW n \in Names, NEW c \in Callers, WaitOver(c, n) PROVE Owners'
  BY <1>9 DEF WaitOver, Move, Told, Tracked, Stages
<1>10. ASSUME NEW n \in Names, CleanupNext(n) PROVE Owners'
  BY <1>10 DEF CleanupNext, Move, Callers, Stages
<1>11. ASSUME NEW old \in SUBSET Names, StartCleanup(old) PROVE Owners'
  BY <1>11 DEF StartCleanup, Stages
<1>12. CASE Signal \/ DestroyAll \/ Exit
  <2>1. \A c \in Callers : call'[c] = call[c]
                            \/ \A n \in Names : call'[c][n] \in {"claim", "idle"}
    BY <1>12 DEF Signal, DestroyAll, Exit
  <2>2. UNCHANGED <<state, life>>
    BY <1>12 DEF Signal, DestroyAll, Exit
  <2>3. \A c \in Callers, n \in Names :
          call'[c][n] \in {"own", "owned"} => call[c][n] \in {"own", "owned"}
    BY <2>1
  <2> QED BY <2>2, <2>3
<1>13. CASE UNCHANGED vars
  BY <1>13 DEF Stages, vars
<1> QED BY <1>1, <1>2, <1>3, <1>4, <1>5, <1>6, <1>7, <1>8, <1>9, <1>10, <1>11, <1>12, <1>13
      DEF Next, LifeStep, DestroyStep

-----------------------------------------------------------------------------
(* Every step keeps a destroyer for what is to be destroyed *)

\* A call that moves takes no destroyer away but by untracking, and a caller owns nothing anew.
LEMMA DestroyersStep == ASSUME IInv, [Next]_vars PROVE Destroyers'
<1> USE DEF IInv, Destroyers, TypeOK, Unborn
<1>1. ASSUME NEW n \in Names, NEW e \in [Limits -> 0 .. MaxExternal], ServeCreate(n, e)
      PROVE  Destroyers'
  BY <1>1 DEF ServeCreate, Stages, Owners, Active
<1>2. ASSUME NEW n \in Names, SpawnCreate(n) PROVE Destroyers'
  BY <1>2 DEF SpawnCreate, Active
<1>3. ASSUME NEW n \in Names, ServeDestroy(n) PROVE Destroyers'
  BY <1>3 DEF ServeDestroy, Move, Callers, Active
<1>4. ASSUME NEW n \in Names, Find(n) PROVE Destroyers'
  BY <1>4 DEF Find, Move, Told, Callers, Active
<1>5. ASSUME NEW n \in Names, BackendCreates(n) PROVE Destroyers'
  BY <1>5 DEF BackendCreates, CreateFails, Untrack, Active
<1>6. ASSUME NEW n \in Names, SetCreated(n) PROVE Destroyers'
  BY <1>6 DEF SetCreated, Wanted, Stages, Active
<1>7. ASSUME NEW n \in Names, AbortVm(n) \/ UntrackAborted(n) PROVE Destroyers'
  BY <1>7 DEF AbortVm, DestroysVm, UntrackAborted, Untrack, Active
<1>8. ASSUME NEW n \in Names, RunEnds(n) PROVE Destroyers'
  BY <1>8 DEF RunEnds, Move, Callers, Active
<1>9. ASSUME NEW n \in Names, Report(n) PROVE Destroyers'
  BY <1>9 DEF Report, Active
<1>10. ASSUME NEW n \in Names, NEW c \in Callers, Claim(c, n) PROVE Destroyers'
  <2> SUFFICES ASSUME NEW m \in Names PROVE Destroyers!(m)'
    OBVIOUS
  <2>0. TypeOK
    BY DEF TypeOK
  <2>1. /\ UNCHANGED <<phase, life, sweep>>
        /\ \A d \in Callers : <<d, m>> # <<c, n>> => call'[d][m] = call[d][m]
        /\ call[c][n] = "claim" /\ call'[c][n] \in {"own", "wait", "idle"}
        /\ call'[c][n] = "own" => state[n] = "up"
        /\ call'[c][n] = "idle" => state[n] = "none"
        /\ call'[c][n] = "wait" => state[n] \in {"creating", "destroying"}
        /\ state'[m] = IF m = n /\ state[m] # "none" THEN "destroying" ELSE state[m]
    <3> HIDE DEF TypeOK, Destroyers, IInv
    <3> QED BY <1>10, <2>0, ClaimMoves
  <2>2. CASE m # n
    <3>1. \A d \in Callers : call'[d][m] = call[d][m]
      BY <2>1, <2>2
    <3> QED BY <2>1, <2>2, <3>1 DEF Active, Callers
  <2>3. CASE m = n
    <3>1. \A d \in Callers : d # c => call'[d][n] = call[d][n]
      BY <2>1, <2>3
    <3>2. state'[n] = "destroying" => life[n] \in Unborn
            \/ \E d \in Callers : call'[d][n] \in {"own", "owned"}
      <4>1. CASE call'[c][n] = "own"
        BY <4>1
      <4>2. CASE call'[c][n] = "wait" /\ state[n] = "creating"
        BY <4>2 DEF Stages
      <4>3. CASE call'[c][n] = "wait" /\ state[n] = "destroying"
        <5>1. \A d \in Callers : call[d][n] \in {"own", "owned"} => d # c
          BY <2>1
        <5> QED BY <3>1, <4>3, <5>1
      <4>4. CASE call'[c][n] = "idle"
        BY <2>1, <2>3, <4>4
      <4> QED BY <2>1, <4>1, <4>2, <4>3, <4>4
    <3>3. \A d \in Callers : call'[d][n] = "wait" => state'[n] \in {"destroying", "none"}
      BY <2>1, <2>3, <3>1
    <3>4. \A d \in Callers : Active(d, n)' => Active(d, n)
      BY <2>1, <3>1 DEF Active
    <3>5. "lifecycle" \in Callers /\ "shutdown" \in Callers
      BY DEF Callers
    <3>6. /\ life'[n] # "destroying" => ~Active("lifecycle", n)'
          /\ phase' \in {"serving", "signalled"} => ~Active("shutdown", n)'
      BY <2>1, <3>4, <3>5
    <3>7. life'[n] = "new" => n \notin sweep' /\ \A d \in Callers : ~Active(d, n)'
      BY <2>1, <3>4
    <3>8. Destroyers!(n)'
      <4> HIDE DEF TypeOK, IInv, Unborn
      <4> QED BY <2>1, <3>2, <3>3, <3>6, <3>7
    <3> QED BY <2>3, <3>8
  <2> QED BY <2>2, <2>3
<1>11. ASSUME NEW n \in Names, NEW c \in Callers, DestroyOwn(c, n) PROVE Destroyers'
  BY <1>11 DEF DestroyOwn, DestroysVm, Move, Active
<1>12. ASSUME NEW n \in Names, NEW c \in Callers, UntrackOwn(c, n) PROVE Destroyers'
  BY <1>12 DEF UntrackOwn, Untrack, Outcome, Move, Told, Active
<1>13. ASSUME NEW n \in Names, NEW c \in Callers, WaitOver(c, n) PROVE Destroyers'
  BY <1>13 DEF WaitOver, Move, Told, Tracked, Active
<1>14. ASSUME NEW n \in Names, CleanupNext(n) PROVE Destroyers'
  <2>1. /\ n \in sweep /\ sweep' = sweep \ {n} /\ ~Active("cleanup", n)
        /\ call' = [call EXCEPT !["cleanup"][n] = "claim"] /\ UNCHANGED <<phase, state, life>>
    BY <1>14 DEF CleanupNext, Move
  <2>2. "cleanup" \in Callers /\ "lifecycle" \in Callers /\ "shutdown" \in Callers
    BY DEF Callers
  <2>3. \A c \in Callers, m \in Names :
          call'[c][m] = IF c = "cleanup" /\ m = n THEN "claim" ELSE call[c][m]
    BY <2>1, <2>2
  <2>4. call["cleanup"][n] \notin {"own", "owned"} /\ life[n] # "new"
    BY <2>1, <2>2 DEF Active
  <2> QED BY <2>1, <2>2, <2>3, <2>4 DEF Active
<1>15. ASSUME NEW old \in SUBSET Names, StartCleanup(old) PROVE Destroyers'
  <2>1. \A n \in old : life[n] # "new"
    BY <1>15 DEF StartCleanup, Tracked
  <2> QED BY <1>15, <2>1 DEF StartCleanup, Active
<1>16. CASE DestroyAll
  <2>1. /\ UNCHANGED <<state, life>> /\ phase' = "destroying" /\ phase = "signalled"
        /\ \A c \in Callers : c # "shutdown" => call'[c] = call[c]
        /\ \A n \in Names : call'["shutdown"][n] \in {"claim", "idle"}
    BY <1>16 DEF DestroyAll, Callers
  <2> SUFFICES ASSUME NEW n \in Names PROVE Destroyers!(n)'
    OBVIOUS
  <2>2. call["shutdown"][n] \notin {"own", "owned"}
    BY <2>1 DEF Active
  <2>3. \A c \in Callers : call[c][n] \in {"own", "owned"} => call'[c][n] = call[c][n]
    BY <2>1, <2>2
  <2>4. \A c \in Callers : call'[c][n] = "wait" => call[c][n] = "wait"
    BY <2>1
  <2>5. \A c \in Callers : c # "shutdown" => (Active(c, n)' <=> Active(c, n))
    BY <2>1 DEF Active
  <2>6. life[n] = "new" => ~Active("shutdown", n)'
    BY <1>16 DEF DestroyAll, Tracked, Active, Callers
  <2>7. sweep' = sweep
    BY <1>16 DEF DestroyAll
  <2>8. \A c \in Callers : call'[c][n] = "wait" => state'[n] \in {"destroying", "none"}
    BY <2>1, <2>4
  <2>9. life'[n] # "destroying" => ~Active("lifecycle", n)'
    BY <2>1, <2>5 DEF Callers
  <2> QED BY <2>1, <2>3, <2>5, <2>6, <2>7, <2>8, <2>9
<1>17. CASE Signal \/ Exit \/ UNCHANGED vars
  BY <1>17 DEF Signal, Exit, vars, Active
<1> QED BY <1>1, <1>2, <1>3, <1>4, <1>5, <1>6, <1>7, <1>8, <1>9, <1>10, <1>11, <1>12, <1>13, <1>14,
           <1>15, <1>16, <1>17 DEF Next, LifeStep, DestroyStep

-----------------------------------------------------------------------------
(* Every step keeps VMs tracked *)

LEMMA HostedStep == ASSUME IInv, [Next]_vars PROVE Hosted'
<1> USE DEF IInv, Hosted, TypeOK
<1>1. ASSUME NEW n \in Names, NEW e \in [Limits -> 0 .. MaxExternal], ServeCreate(n, e)
      PROVE  Hosted'
  BY <1>1 DEF ServeCreate, Stages, Owners, Tracked
<1>2. ASSUME NEW n \in Names, SpawnCreate(n) \/ ServeDestroy(n) \/ Find(n) PROVE Hosted'
  BY <1>2 DEF SpawnCreate, ServeDestroy, Find, Move, Told, Callers, Stages, Owners, Tracked
<1>3. ASSUME NEW n \in Names, BackendCreates(n) \/ SetCreated(n) PROVE Hosted'
  BY <1>3 DEF BackendCreates, CreateFails, Untrack, SetCreated, Wanted, Stages, Owners, Tracked
<1>4. ASSUME NEW n \in Names, AbortVm(n) \/ UntrackAborted(n) PROVE Hosted'
  BY <1>4 DEF AbortVm, DestroysVm, UntrackAborted, Untrack, Stages, Owners, Tracked
<1>5. ASSUME NEW n \in Names, RunEnds(n) \/ Report(n) PROVE Hosted'
  BY <1>5 DEF RunEnds, Report, Move, Callers, Stages, Owners, Tracked
<1>6. ASSUME NEW n \in Names, NEW c \in Callers, Claim(c, n) PROVE Hosted'
  BY <1>6 DEF Claim, Owns, Waits, Move, Told, Tracked, Stages, Owners
<1>7. ASSUME NEW n \in Names, NEW c \in Callers, DestroyOwn(c, n) PROVE Hosted'
  BY <1>7 DEF DestroyOwn, DestroysVm, Move, Stages, Owners, Tracked
<1>8. ASSUME NEW n \in Names, NEW c \in Callers, UntrackOwn(c, n) PROVE Hosted'
  BY <1>8 DEF UntrackOwn, Untrack, Outcome, Move, Told, Stages, Owners, Tracked
<1>9. ASSUME NEW n \in Names, NEW c \in Callers, WaitOver(c, n) PROVE Hosted'
  BY <1>9 DEF WaitOver, Move, Told, Tracked, Stages, Owners
<1>10. ASSUME NEW n \in Names, CleanupNext(n) PROVE Hosted'
  BY <1>10 DEF CleanupNext, Move, Callers, Stages, Owners, Tracked
<1>11. ASSUME NEW old \in SUBSET Names, StartCleanup(old) PROVE Hosted'
  BY <1>11 DEF StartCleanup, Stages, Owners, Tracked
<1>12. CASE Signal \/ DestroyAll \/ Exit
  BY <1>12 DEF Stages, Owners, Tracked, Signal, DestroyAll, Exit
<1>13. CASE UNCHANGED vars
  BY <1>13 DEF Stages, Owners, Tracked, vars
<1> QED BY <1>1, <1>2, <1>3, <1>4, <1>5, <1>6, <1>7, <1>8, <1>9, <1>10, <1>11, <1>12, <1>13
      DEF Next, LifeStep, DestroyStep

-----------------------------------------------------------------------------
(* Every step keeps the limits *)

\* Fewer entries that count against less use no more of a limit.
LEMMA UsageShrinks ==
  ASSUME Tracked' \subseteq Tracked,
         \A n \in Tracked' : limits'[n] \subseteq limits[n],
         NEW l \in Limits, Usage(l) <= Max[l]
  PROVE  Usage(l)' <= Max[l]
<1> DEFINE U == {n \in Tracked : l \in limits[n]}
<1>1. IsFiniteSet(U) /\ U' \subseteq U
  BY FS_Subset, VmTrackerAssumption DEF Tracked
<1>2. Cardinality(U') <= Cardinality(U) /\ Cardinality(U) \in Nat /\ Cardinality(U') \in Nat
  <2> HIDE DEF U
  <2> QED BY <1>1, FS_Subset, FS_CardinalityType
<1> QED BY <1>2, VmTrackerAssumption DEF Usage

\* A slot is taken only where every limit of the image has room.
LEMMA CreateWithin ==
  ASSUME TypeOK, Within, NEW n \in Names, NEW e \in [Limits -> 0 .. MaxExternal], ServeCreate(n, e),
         state' # state
  PROVE  /\ \A l \in Asked[n] : Usage(l) < Max[l]
         /\ Within'
<1>1. Free(n, e) /\ state' = [state EXCEPT ![n] = "creating"]
     /\ limits' = [limits EXCEPT ![n] = Asked[n]]
  BY DEF ServeCreate
<1>2. Tracked' = Tracked \cup {n} /\ n \notin Tracked
  BY <1>1 DEF Tracked, ServeCreate, TypeOK
<1>3. ASSUME NEW l \in Limits
      PROVE /\ l \in Asked[n] => Usage(l) < Max[l]
            /\ Usage(l)' <= Max[l]
  <2> DEFINE U == {m \in Tracked : l \in limits[m]}
  <2>1. IsFiniteSet(U) /\ n \notin U
    BY <1>2, FS_Subset, VmTrackerAssumption DEF Tracked
  <2>2. U' = IF l \in Asked[n] THEN U \cup {n} ELSE U
    BY <1>1, <1>2 DEF TypeOK, Tracked
  <2>3. /\ Cardinality(U) \in Nat
        /\ Cardinality(U \cup {n}) = Cardinality(U) + 1
    <3> HIDE DEF U
    <3> QED BY <2>1, FS_CardinalityType, FS_AddElement
  <2>4. l \in Asked[n] => Cardinality(U) < Max[l]
    <3> SUFFICES ASSUME l \in Asked[n] PROVE Cardinality(U) < Max[l]
      OBVIOUS
    <3>1. Usage(l) + e[l] < Max[l] /\ e[l] \in Nat /\ Max[l] \in Nat
      BY <1>1, VmTrackerAssumption DEF Free
    <3> QED BY <2>3, <3>1 DEF Usage
  <2>5. Cardinality(U) <= Max[l] /\ Max[l] \in Nat
    BY VmTrackerAssumption DEF Within, Usage
  <2>6. Usage(l) = Cardinality(U) /\ Usage(l)' = Cardinality(U')
    BY DEF Usage
  <2> HIDE DEF U
  <2> QED BY <2>2, <2>3, <2>4, <2>5, <2>6
<1> QED BY <1>3, VmTrackerAssumption DEF Within

LEMMA WithinStep == ASSUME IInv, [Next]_vars PROVE Within'
<1> USE DEF IInv
<1>1. ASSUME NEW n \in Names, NEW e \in [Limits -> 0 .. MaxExternal], ServeCreate(n, e),
             state' # state
      PROVE  Within'
  BY <1>1, CreateWithin
<1>2. ASSUME Tracked' \subseteq Tracked, \A n \in Tracked' : limits'[n] \subseteq limits[n]
      PROVE  Within'
  BY <1>2, UsageShrinks DEF Within
<1>3. ASSUME NEW n \in Names, BackendCreates(n) \/ SetCreated(n) PROVE Within'
  BY <1>2, <1>3 DEF TypeOK, Stages, Tracked, BackendCreates, CreateFails, Untrack, SetCreated,
    Wanted
<1>4. ASSUME NEW n \in Names, NEW c \in Callers, UntrackAborted(n) \/ UntrackOwn(c, n) PROVE Within'
  BY <1>2, <1>4 DEF TypeOK, Tracked, UntrackAborted, UntrackOwn, Untrack
<1>5. ASSUME NEW n \in Names, NEW c \in Callers, Claim(c, n) PROVE Within'
  BY <1>2, <1>5 DEF TypeOK, Tracked, Claim
<1>6. CASE UNCHANGED <<state, limits>>
  BY <1>2, <1>6 DEF Tracked
<1>7. ASSUME NEW n \in Names, NEW e \in [Limits -> 0 .. MaxExternal], ServeCreate(n, e),
     state' = state
      PROVE  UNCHANGED <<state, limits>>
  BY <1>7 DEF ServeCreate, TypeOK
<1>8. ASSUME NEW n \in Names, SpawnCreate(n) \/ ServeDestroy(n) \/ Find(n) \/ AbortVm(n)
     \/ RunEnds(n)
                               \/ Report(n) \/ CleanupNext(n)
      PROVE  UNCHANGED <<state, limits>>
  BY <1>8 DEF SpawnCreate, ServeDestroy, Find, AbortVm, RunEnds, Report, CleanupNext
<1>9. ASSUME NEW n \in Names, NEW c \in Callers, DestroyOwn(c, n) \/ WaitOver(c, n)
      PROVE  UNCHANGED <<state, limits>>
  BY <1>9 DEF DestroyOwn, WaitOver
<1>10. (\E old \in SUBSET Names : StartCleanup(old)) \/ Signal \/ DestroyAll \/ Exit
     \/ UNCHANGED vars
       => UNCHANGED <<state, limits>>
  BY DEF StartCleanup, Signal, DestroyAll, Exit, vars
<1>11. "lifecycle" \in Callers
  BY DEF Callers
<1> QED BY <1>1, <1>3, <1>4, <1>5, <1>6, <1>7, <1>8, <1>9, <1>10, <1>11 DEF Next, LifeStep,
     DestroyStep

-----------------------------------------------------------------------------
(* The theorems *)

LEMMA Initially == Init => IInv
<1> SUFFICES ASSUME Init PROVE IInv
  OBVIOUS
<1>1. TypeOK
  BY DEF Init, TypeOK
<1>2. Stages /\ Owners /\ Destroyers /\ Hosted
  BY DEF Init, Stages, Owners, Destroyers, Active, Callers, Hosted
<1>3. Tracked = {}
  BY DEF Init, Tracked
<1>4. Within
  BY <1>3, FS_EmptySet, VmTrackerAssumption DEF Within, Usage
<1> QED BY <1>1, <1>2, <1>4 DEF IInv

\* The inductive invariant holds.
THEOREM Invariance == Spec => []IInv
<1>1. IInv /\ [Next]_vars => IInv'
  BY TypeStep, StagesStep, OwnersStep, DestroyersStep, HostedStep, WithinStep DEF IInv
<1> QED BY <1>1, Initially, PTL DEF Spec

\* Every variable keeps its type, and no entry outlives its create or its lifecycle.
THEOREM TypeCorrect == Spec => []TypeOK
<1>1. IInv => TypeOK
  BY DEF IInv
<1> QED BY <1>1, Invariance, PTL

\* claim_for_destroy, set_created and the lifecycle never make two destroyers of one VM, and never
\* leave a VM that somebody waits for without one.
THEOREM DestroyedByOne == Spec => []OneDestroyer
<1>1. IInv => OneDestroyer
  BY DEF IInv, Owners, Destroyers, Unborn, OneDestroyer
<1> QED BY <1>1, Invariance, PTL

\* reserve keeps the VMs on the host within its limits, whatever their guests turn out to be.
THEOREM LimitsHold == Spec => []HostWithinLimits
<1>1. ASSUME IInv, NEW l \in Limits
      PROVE  Cardinality({n \in host \ failed : l \in guest[n]}) <= Max[l]
  <2> DEFINE V == {n \in host \ failed : l \in guest[n]}
             U == {n \in Tracked : l \in limits[n]}
  <2>1. V \subseteq U /\ IsFiniteSet(U)
    BY <1>1, FS_Subset, VmTrackerAssumption DEF IInv, Hosted, TypeOK, Tracked
  <2>2. Cardinality(U) <= Max[l] /\ Max[l] \in Nat
    BY <1>1, VmTrackerAssumption DEF IInv, Within, Usage
  <2> HIDE DEF V, U
  <2>3. Cardinality(V) <= Cardinality(U) /\ Cardinality(V) \in Nat /\ Cardinality(U) \in Nat
    BY <2>1, FS_Subset, FS_CardinalityType
  <2>4. Cardinality(V) <= Max[l]
    BY <2>2, <2>3
  <2> QED BY <2>4 DEF V
<1>2. IInv => HostWithinLimits
  BY <1>1 DEF HostWithinLimits
<1> QED BY <1>2, Invariance, PTL

\* A destroy, whoever called it and whoever carried it out, returns only when the VM is gone (or
\* when destroying it failed).
THEOREM GoneOnReturn == Spec => GoneWhenDestroyReturns
<1> DEFINE Gone == \A c \in Callers, n \in Names :
                     Active(c, n) /\ ~Active(c, n)' => n \notin (host \ failed)'
<1>1. ASSUME IInv, IInv', [Next]_vars, NEW c \in Callers, NEW n \in Names,
             Active(c, n), ~Active(c, n)'
      PROVE  n \notin (host \ failed)'
  <2> USE DEF IInv
  <2>1. ASSUME NEW m \in Names, NEW d \in Callers, Claim(d, m) PROVE state'[n] = "none"
    <3>1. call'[c][n] # call[c][n]
      BY <1>1 DEF Active
    <3>2. c = d /\ n = m
      BY <1>1, <2>1, <3>1, ClaimMoves
    <3>3. call'[d][m] \in {"own", "wait", "idle"} /\ (call'[d][m] = "idle" => state[m] = "none")
      BY <1>1, <2>1, ClaimMoves
    <3>4. state[n] = "none"
      BY <1>1, <3>2, <3>3 DEF Active
    <3> QED BY <1>1, <2>1, <3>2, <3>4, ClaimMoves
  <2>2. ASSUME NEW m \in Names, NEW d \in Callers, UntrackOwn(d, m) \/ WaitOver(d, m)
        PROVE  state'[n] = "none"
    BY <1>1, <2>2 DEF TypeOK, UntrackOwn, Untrack, WaitOver, Move, Told, Active, Tracked
  <2>3. ASSUME NEW m \in Names, Find(m) PROVE state'[n] = "none"
    BY <1>1, <2>3 DEF TypeOK, Find, Move, Told, Active, Tracked, Callers
  <2>4. ASSUME DestroyAll PROVE state'[n] = "none"
    <3>1. call'[c][n] = IF c # "shutdown" THEN call[c][n] ELSE IF n \in Tracked THEN "claim" ELSE
         "idle"
      BY <2>4, <1>1 DEF TypeOK, DestroyAll
    <3>2. n \notin Tracked
      BY <1>1, <3>1 DEF Active
    <3> QED BY <2>4, <3>2 DEF DestroyAll, Tracked
  <2>5. ASSUME NEW m \in Names, NEW d \in Callers, DestroyOwn(d, m) PROVE FALSE
    BY <1>1, <2>5 DEF TypeOK, DestroyOwn, Move, Active
  <2>6. ASSUME NEW m \in Names, ServeDestroy(m) \/ RunEnds(m) \/ CleanupNext(m) PROVE FALSE
    BY <1>1, <2>6 DEF TypeOK, ServeDestroy, RunEnds, CleanupNext, Move, Active, Callers
  <2>7. CASE UNCHANGED call
    BY <1>1, <2>7 DEF Active
  <2>8. ASSUME NEW m \in Names,
               \/ \E e \in [Limits -> 0 .. MaxExternal] : ServeCreate(m, e)
               \/ SpawnCreate(m) \/ BackendCreates(m) \/ SetCreated(m) \/ AbortVm(m)
               \/ UntrackAborted(m) \/ Report(m)
        PROVE  UNCHANGED call
    BY <2>8 DEF ServeCreate, SpawnCreate, BackendCreates, SetCreated, AbortVm, UntrackAborted,
      Report
  <2>9. (\E old \in SUBSET Names : StartCleanup(old)) \/ Signal \/ Exit \/ UNCHANGED vars =>
       UNCHANGED call
    BY DEF StartCleanup, Signal, Exit, vars
  <2>10. state'[n] = "none" => n \notin (host \ failed)'
    BY <1>1 DEF Hosted
  <2> QED BY <1>1, <2>1, <2>2, <2>3, <2>4, <2>5, <2>6, <2>7, <2>8, <2>9, <2>10
        DEF Next, LifeStep, DestroyStep
<1>2. IInv /\ IInv' /\ [Next]_vars => [Gone]_vars
  BY <1>1
<1> QED BY <1>2, Invariance, PTL DEF Spec, GoneWhenDestroyReturns

-----------------------------------------------------------------------------
(* VmTracker implements SlotPool *)

\* Creating and destroying VMs, claims and the rest leave the pool alone, or are its steps.
LEMMA PoolStep == ASSUME IInv, IInv', [Next]_vars PROVE [Pool!Next]_(Pool!vars)
<1> DEFINE past == {n \in Names : life[n] \notin {"new", "rejected"} /\ state[n] = "none"}
           vms == host \ failed
<1> USE DEF IInv
<1>1. ASSUME NEW n \in Names, NEW e \in [Limits -> 0 .. MaxExternal], ServeCreate(n, e)
      PROVE  Pool!Next \/ UNCHANGED Pool!vars
  <2>1. CASE state' # state
    <3>1. \A l \in Asked[n] : Usage(l) < Max[l]
      BY <1>1, <2>1, CreateWithin, VmTrackerAssumption
    <3>2. Tracked' = Tracked \cup {n} /\ n \notin Tracked \cup past /\ past' = past /\ vms' = vms
          /\ limits' = [limits EXCEPT ![n] = Asked[n]]
      BY <1>1, <2>1 DEF TypeOK, ServeCreate, Tracked
    <3>3. Pool!Take(n, Asked[n])
      <4>1. Asked[n] \subseteq Limits
        BY VmTrackerAssumption
      <4>2. \A l \in Asked[n] : Pool!Used(l) < Max[l]
        BY <3>1, Zenon DEF Pool!Used, Usage, Pool!Cardinality, Cardinality
      <4> HIDE DEF TypeOK
      <4> QED BY <3>2, <4>1, <4>2 DEF Pool!Take
    <3> QED BY <3>3, VmTrackerAssumption DEF Pool!Next
  <2>2. CASE state' = state
    <3>1. limits' = limits /\ vms' = vms /\ past' = past /\ Tracked' = Tracked
      BY <1>1, <2>2 DEF TypeOK, ServeCreate, Tracked
    <3> QED BY <3>1 DEF Pool!vars
  <2> QED BY <2>1, <2>2
<1>2. ASSUME NEW n \in Names, BackendCreates(n) PROVE Pool!Next \/ UNCHANGED Pool!vars
  <2>1. CASE state' = state
    <3>1. n \in Tracked /\ limits' = limits /\ past' = past /\ Tracked' = Tracked
      BY <1>2, <2>1 DEF TypeOK, BackendCreates, CreateFails, Untrack, Tracked
    <3>2. vms' = vms \cup {n} \/ vms' = vms
      BY <1>2 DEF BackendCreates
    <3> QED BY <3>1, <3>2 DEF Pool!vars, Pool!Next, Pool!Create
  <2>2. CASE state' # state
    <3>1. /\ n \in Tracked \ vms /\ Tracked' = Tracked \ {n}
          /\ past' = past \cup {n} /\ limits' = limits /\ vms' = vms
      BY <1>2, <2>2 DEF TypeOK, Hosted, BackendCreates, CreateFails, Untrack, Tracked
    <3> QED BY <3>1 DEF Pool!Next, Pool!Free
  <2> QED BY <2>1, <2>2
<1>3. ASSUME NEW n \in Names, SetCreated(n) PROVE Pool!Next \/ UNCHANGED Pool!vars
  <2>1. past' = past /\ vms' = vms /\ Tracked' = Tracked
    BY <1>3 DEF TypeOK, SetCreated, Wanted, Tracked
  <2>2. \/ limits' = limits
        \/ /\ n \in Tracked /\ guest[n] \subseteq limits[n]
           /\ limits' = [limits EXCEPT ![n] = guest[n]]
    BY <1>3 DEF Stages, SetCreated, Wanted, Tracked
  <2>3. guest[n] \in SUBSET Limits
    BY DEF TypeOK
  <2> QED BY <2>1, <2>2, <2>3 DEF Pool!vars, Pool!Next, Pool!Narrow
<1>4. ASSUME NEW n \in Names, DestroysVm(n), UNCHANGED <<state, limits>>, past' = past
      PROVE  Pool!Next \/ UNCHANGED Pool!vars
  <2>1. vms' = vms \ {n} /\ Tracked' = Tracked /\ limits' = limits
    BY <1>4 DEF DestroysVm, Tracked
  <2> QED BY <1>4, <2>1 DEF Pool!Next, Pool!Destroy
<1>5. ASSUME NEW n \in Names, NEW c \in Callers, AbortVm(n) \/ DestroyOwn(c, n)
      PROVE  DestroysVm(n) /\ UNCHANGED <<state, limits>> /\ past' = past
  BY <1>5 DEF TypeOK, AbortVm, DestroyOwn
<1>6. ASSUME NEW n \in Names, NEW c \in Callers, UntrackAborted(n) \/ UntrackOwn(c, n)
      PROVE  Pool!Next
  <2>1. /\ n \in Tracked \ vms /\ Tracked' = Tracked \ {n} /\ limits' = limits /\ vms' = vms
    BY <1>6 DEF TypeOK, Stages, Owners, Hosted, UntrackAborted, UntrackOwn, Untrack, Tracked
  <2>2. past' = past \cup {n}
    BY <1>6 DEF TypeOK, Owners, UntrackAborted, UntrackOwn, Untrack
  <2> QED BY <2>1, <2>2 DEF Pool!Next, Pool!Free
<1>7. ASSUME Tracked' = Tracked, past' = past, UNCHANGED <<limits, host, failed>>
      PROVE  UNCHANGED Pool!vars
  BY <1>7 DEF Pool!vars
<1>8. ASSUME NEW n \in Names, NEW c \in Callers, Claim(c, n) PROVE UNCHANGED Pool!vars
  <2>1. UNCHANGED <<limits, host, failed, life>>
    BY <1>8 DEF Claim
  <2>2. \A m \in Names : (state'[m] = "none") <=> (state[m] = "none")
    BY <1>8, ClaimMoves
  <2>3. Tracked' = Tracked /\ past' = past
    BY <2>1, <2>2 DEF Tracked
  <2> QED BY <1>7, <2>1, <2>3
<1>9. ASSUME NEW n \in Names, Find(n) PROVE UNCHANGED Pool!vars
  <2>1. past' = past /\ limits' = limits /\ Tracked' = Tracked /\ vms' = vms
    BY <1>9 DEF Find, Hosted, Tracked
  <2> QED BY <2>1 DEF Pool!vars
<1>10. ASSUME NEW n \in Names, NEW c \in Callers,
              SpawnCreate(n) \/ ServeDestroy(n) \/ RunEnds(n) \/ Report(n) \/ CleanupNext(n)
              \/ WaitOver(c, n)
       PROVE  UNCHANGED Pool!vars
  <2>1. UNCHANGED <<state, limits, host, failed>>
    BY <1>10 DEF SpawnCreate, ServeDestroy, RunEnds, Report, CleanupNext, WaitOver
  <2>2. past' = past
    BY <1>10, <2>1 DEF TypeOK, SpawnCreate, ServeDestroy, RunEnds, Report, CleanupNext, WaitOver
  <2> QED BY <1>7, <2>1, <2>2 DEF Tracked
<1>11. (\E old \in SUBSET Names : StartCleanup(old)) \/ Signal \/ DestroyAll \/ Exit
     \/ UNCHANGED vars
       => UNCHANGED Pool!vars
  <2>1. (\E old \in SUBSET Names : StartCleanup(old)) \/ Signal \/ DestroyAll \/ Exit
       \/ UNCHANGED vars
        => UNCHANGED <<state, life, limits, host, failed>>
    BY DEF StartCleanup, Signal, DestroyAll, Exit, vars
  <2> QED BY <1>7, <2>1 DEF Tracked
<1>12. "lifecycle" \in Callers
  BY DEF Callers
<1> HIDE DEF past, vms, IInv
<1> QED BY <1>1, <1>2, <1>3, <1>4, <1>5, <1>6, <1>8, <1>9, <1>10, <1>11, <1>12
      DEF Next, LifeStep, DestroyStep

\* The tracker with its four destroyers implements the pool of slots.
THEOREM ImplementsSlotPool == Spec => SlotsKept
<1>1. Init => Pool!Init
  BY DEF Init, Pool!Init, Tracked
<1> QED BY <1>1, PoolStep, Invariance, PTL DEF Spec, SlotsKept, Pool!Spec
=============================================================================
