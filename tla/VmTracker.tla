----------------------------- MODULE VmTracker -----------------------------
(***************************************************************************)
(* The VMs of one agent: the command loop (serve) takes a slot for each    *)
(* CreateRunner and spawns its lifecycle; the lifecycle, DestroyRunner     *)
(* tasks, the cleanup of old VMs and shutdown all call destroy, and the    *)
(* tracker says who of them destroys and who waits.                        *)
(*                                                                         *)
(* Each tracker operation holds the tracker's lock, so it is one step; the *)
(* backend's calls and the waits between the operations are not.           *)
(***************************************************************************)
EXTENDS Naturals, FiniteSets

CONSTANTS
  Names,       \* runner names; unique, so each is created at most once
  Limits,      \* names of the host-wide limits
  Max,         \* [Limits -> Nat]
  Asked,       \* [Names -> SUBSET Limits]: what its image counts against when it is asked for
  Guests,      \* SUBSET Limits of each guest OS
  MaxExternal, \* bound: VMs on the host the agent doesn't manage
  MaxFailures  \* bound: VMs whose destroy fails

\* An image whose OS isn't known yet counts as macOS, against every limit (tart's image_os).
ASSUME VmTrackerAssumption ==
  /\ IsFiniteSet(Names)
  /\ Max \in [Limits -> Nat]
  /\ Asked \in [Names -> SUBSET Limits]
  /\ Guests \subseteq SUBSET Limits
  /\ MaxExternal \in Nat
  /\ MaxFailures \in Nat

VARIABLES
  phase,   \* the agent: serving, signalled (to shut down), destroying (all VMs), exited
  state,   \* [Names -> STRING]: its entry in the tracker; "up" once the VM is created
  limits,  \* [Names -> SUBSET Limits]: limits of the entry
  outcome, \* [Names -> STRING]: how its destroy went, told when it is untracked
  host,    \* names whose VM is on the host
  guest,   \* [Names -> SUBSET Limits]: what the VM really counts against, by its OS
  failed,  \* names whose VM a destroy failed to remove
  life,    \* [Names -> STRING]: the runner's command and lifecycle
  call,    \* [Callers -> [Names -> STRING]]: calls of destroy(name)
  sweep    \* names the cleanup of old VMs has still to look at

vars == <<phase, state, limits, outcome, host, guest, failed, life, call, sweep>>

\* Who calls destroy.
Callers == {"lifecycle", "command", "cleanup", "shutdown"}

\* The variables' types. An entry is made for a command and outlives neither its create nor its
\* lifecycle, whoever removes it.
TypeOK ==
  /\ phase \in {"serving", "signalled", "destroying", "exited"}
  /\ state \in [Names -> {"none", "creating", "up", "destroying"}]
  /\ limits \in [Names -> SUBSET Limits]
  /\ outcome \in [Names -> {"none", "ok", "err"}]
  /\ host \subseteq Names /\ guest \in [Names -> SUBSET Limits]
  /\ failed \subseteq Names
  /\ life \in [Names -> {"new", "reserved", "creating", "created", "aborting", "aborted",
                         "running", "destroying", "done", "rejected"}]
  /\ call \in [Callers -> [Names -> {"idle", "find", "claim", "own", "owned", "wait", "err"}]]
  /\ sweep \subseteq Names
  /\ \A n \in Names :
       /\ life[n] \in {"new", "done", "rejected"} => state[n] = "none"
       /\ life[n] \in {"reserved", "creating", "created", "aborting", "aborted"} =>
         state[n] # "none"

Init ==
  /\ phase = "serving"
  /\ state = [n \in Names |-> "none"]
  /\ limits = [n \in Names |-> {}]
  /\ outcome = [n \in Names |-> "none"]
  /\ host = {} /\ guest = [n \in Names |-> {}] /\ failed = {}
  /\ life = [n \in Names |-> "new"]
  /\ call = [c \in Callers |-> [n \in Names |-> "idle"]]
  /\ sweep = {}

-----------------------------------------------------------------------------
(* The tracker *)

Tracked == {n \in Names : state[n] # "none"}

\* usage: the entries that count against a limit.
Usage(l) == Cardinality({n \in Tracked : l \in limits[n]})

\* Mutant of Free: off by one.
FreeOrFull(n, external) ==
  Asked[n] # {} /\ \A l \in Asked[n] : Usage(l) + external[l] <= Max[l]

\* free: every limit of the image has room, after the VMs the agent doesn't manage.
Free(n, external) ==
  Asked[n] # {} /\ \A l \in Asked[n] : Usage(l) + external[l] < Max[l]

\* A call of destroy that is still under way.
Active(c, n) == call[c][n] \in {"find", "claim", "own", "owned", "wait"}

Move(c, n, to) == call' = [call EXCEPT ![c][n] = to]

\* A call that went well leaves nothing behind, one that failed its error.
Told(result) == IF result = "ok" THEN "idle" ELSE "err"

\* untrack, telling whoever waits how the destroy went.
Untrack(n, result) ==
  /\ state' = [state EXCEPT ![n] = "none"]
  /\ outcome' = [outcome EXCEPT ![n] = result]

-----------------------------------------------------------------------------
(* serve: the command loop *)

\* The loop is back at its receive: no ack waits for room in the event channel.
Receiving == phase = "serving" /\ \A m \in Names : life[m] # "reserved"

\* CreateRunner: a slot is taken, checked and taken under one lock, or the command rejected.
ServeCreate(n, external) ==
  /\ Receiving /\ life[n] = "new"
  /\ \/ /\ Free(n, external)
        /\ state' = [state EXCEPT ![n] = "creating"]
        /\ limits' = [limits EXCEPT ![n] = Asked[n]]
        /\ life' = [life EXCEPT ![n] = "reserved"]
     \/ /\ ~Free(n, external)
        /\ life' = [life EXCEPT ![n] = "rejected"]
        /\ UNCHANGED <<state, limits>>
  /\ UNCHANGED <<phase, outcome, host, guest, failed, call, sweep>>

\* The ack is sent and the lifecycle spawned.
SpawnCreate(n) ==
  /\ phase = "serving" /\ life[n] = "reserved"
  /\ life' = [life EXCEPT ![n] = "creating"]
  /\ UNCHANGED <<phase, state, limits, outcome, host, guest, failed, call, sweep>>

\* DestroyRunner: a task is spawned.
ServeDestroy(n) ==
  /\ Receiving /\ life[n] # "new" /\ ~Active("command", n)
  /\ Move("command", n, "find")
  /\ UNCHANGED <<phase, state, limits, outcome, host, guest, failed, life, sweep>>

\* It looks the runner up. What it does not find it leaves to the backend, which may know a VM by
\* that name.
Find(n) ==
  /\ phase # "exited" /\ call["command"][n] = "find"
  /\ \/ n \in Tracked /\ Move("command", n, "claim") /\ UNCHANGED host
     \/ n \notin Tracked /\ Move("command", n, Told("ok")) /\ host' \in {host, host \ {n}}
  /\ UNCHANGED <<phase, state, limits, outcome, guest, failed, life, sweep>>

-----------------------------------------------------------------------------
(* destroy(name), the same for every caller *)

\* Mutant of Owns: whoever comes first or second.
OwnsToo(n) == state[n] \in {"up", "destroying"} /\ n \in host

\* claim_for_destroy hands the VM to the first to ask for a VM that is created.
Owns(n) == state[n] = "up"

\* Mutant of Waits: a VM being created is nobody's business.
WaitsIfDestroying(n) == state[n] = "destroying"

\* A VM still being created, or already being destroyed, is destroyed by whoever has it.
Waits(n) == state[n] \in {"creating", "destroying"}

Claim(c, n) ==
  /\ phase # "exited" /\ call[c][n] = "claim"
  /\ \/ Owns(n) /\ Move(c, n, "own")
     \/ ~Owns(n) /\ Waits(n) /\ Move(c, n, "wait")
     \/ ~Owns(n) /\ ~Waits(n) /\ Move(c, n, Told("ok"))
  /\ state' = IF n \in Tracked THEN [state EXCEPT ![n] = "destroying"] ELSE state
  /\ UNCHANGED <<phase, limits, outcome, host, guest, failed, life, sweep>>

\* The backend destroys the VM, or fails to.
DestroysVm(n) ==
  \/ host' = host \ {n} /\ UNCHANGED failed
  \/ Cardinality(failed) < MaxFailures /\ failed' = failed \cup {n} /\ UNCHANGED host

DestroyOwn(c, n) ==
  /\ phase # "exited" /\ call[c][n] = "own"
  /\ DestroysVm(n)
  /\ Move(c, n, "owned")
  /\ UNCHANGED <<phase, state, limits, outcome, guest, life, sweep>>

Outcome(n) == IF n \in failed THEN "err" ELSE "ok"

UntrackOwn(c, n) ==
  /\ phase # "exited" /\ call[c][n] = "owned"
  /\ Untrack(n, Outcome(n))
  /\ Move(c, n, Told(Outcome(n)))
  /\ UNCHANGED <<phase, limits, host, guest, failed, life, sweep>>

\* Removal::wait: the entry is gone, and says how it went.
WaitOver(c, n) ==
  /\ phase # "exited" /\ call[c][n] = "wait" /\ n \notin Tracked
  /\ Move(c, n, Told(outcome[n]))
  /\ UNCHANGED <<phase, state, limits, outcome, host, guest, failed, life, sweep>>

-----------------------------------------------------------------------------
(* The lifecycle of a runner *)

\* Mutant of CreateFails: the slot is kept.
CreateFailsKeeping(n) == life' = [life EXCEPT ![n] = "done"] /\ UNCHANGED <<state, outcome>>

\* Nothing was created: a destroy waiting on it is done.
CreateFails(n) == life' = [life EXCEPT ![n] = "done"] /\ Untrack(n, "ok")

BackendCreates(n) ==
  /\ phase # "exited" /\ life[n] = "creating"
  /\ \/ /\ host' = host \cup {n}
        /\ \E limitsOf \in Guests :
             limitsOf \subseteq limits[n] /\ guest' = [guest EXCEPT ![n] = limitsOf]
        /\ life' = [life EXCEPT ![n] = "created"]
        /\ UNCHANGED <<state, outcome>>
     \/ CreateFails(n) /\ UNCHANGED <<host, guest>>
  /\ UNCHANGED <<phase, limits, failed, call, sweep>>

\* Mutant of Wanted: whatever became of it meanwhile.
WantedStill(n) == n \in Tracked

\* The runner was not destroyed while its VM was being created.
Wanted(n) == state[n] \in {"creating", "up"}

\* set_created. A VM nobody wants any more is still the lifecycle's to destroy.
SetCreated(n) ==
  /\ phase # "exited" /\ life[n] = "created"
  /\ \/ /\ Wanted(n)
        /\ state' = [state EXCEPT ![n] = "up"]
        /\ limits' = [limits EXCEPT ![n] = guest[n]]
        /\ life' = [life EXCEPT ![n] = "running"]
     \/ /\ ~Wanted(n)
        /\ life' = [life EXCEPT ![n] = "aborting"]
        /\ UNCHANGED <<state, limits>>
  /\ UNCHANGED <<phase, outcome, host, guest, failed, call, sweep>>

AbortVm(n) ==
  /\ phase # "exited" /\ life[n] = "aborting"
  /\ DestroysVm(n)
  /\ life' = [life EXCEPT ![n] = "aborted"]
  /\ UNCHANGED <<phase, state, limits, outcome, guest, call, sweep>>

UntrackAborted(n) ==
  /\ phase # "exited" /\ life[n] = "aborted"
  /\ Untrack(n, Outcome(n))
  /\ life' = [life EXCEPT ![n] = "done"]
  /\ UNCHANGED <<phase, limits, host, guest, failed, call, sweep>>

\* The job ends or fails, or the VM never comes up.
RunEnds(n) ==
  /\ phase # "exited" /\ life[n] = "running"
  /\ life' = [life EXCEPT ![n] = "destroying"]
  /\ Move("lifecycle", n, "claim")
  /\ UNCHANGED <<phase, state, limits, outcome, host, guest, failed, sweep>>

\* torn_down: somebody else destroys the VM under the run.
TornDown(n) == n \in Names /\ state[n] # "up" /\ RunEnds(n)

\* The outcome is reported.
Report(n) ==
  /\ phase # "exited" /\ life[n] = "destroying" /\ ~Active("lifecycle", n)
  /\ life' = [life EXCEPT ![n] = "done"]
  /\ UNCHANGED <<phase, state, limits, outcome, host, guest, failed, call, sweep>>

-----------------------------------------------------------------------------
(* The cleanup of old VMs, and shutdown *)

CleanupIdle == sweep = {} /\ \A n \in Names : ~Active("cleanup", n)

\* cleanup_stale lists the VMs past the maximum age, and destroys them one after the other.
StartCleanup(old) ==
  /\ phase # "exited" /\ CleanupIdle
  /\ old # {} /\ old \subseteq Tracked
  /\ sweep' = old
  /\ UNCHANGED <<phase, state, limits, outcome, host, guest, failed, life, call>>

CleanupNext(n) ==
  /\ phase # "exited" /\ n \in sweep /\ \A m \in Names : ~Active("cleanup", m)
  /\ sweep' = sweep \ {n}
  /\ Move("cleanup", n, "claim")
  /\ UNCHANGED <<phase, state, limits, outcome, host, guest, failed, life>>

\* The signal ends the command loop, wherever it awaits.
Signal ==
  /\ phase = "serving"
  /\ phase' = "signalled"
  /\ UNCHANGED <<state, limits, outcome, host, guest, failed, life, call, sweep>>

\* destroy_all destroys every tracked VM, in parallel.
DestroyAll ==
  /\ phase = "signalled"
  /\ phase' = "destroying"
  /\ call' = [call EXCEPT !["shutdown"] =
       [n \in Names |-> IF n \in Tracked THEN "claim" ELSE "idle"]]
  /\ UNCHANGED <<state, limits, outcome, host, guest, failed, life, sweep>>

Exit ==
  /\ phase = "destroying" /\ \A n \in Names : ~Active("shutdown", n)
  /\ phase' = "exited"
  /\ UNCHANGED <<state, limits, outcome, host, guest, failed, life, call, sweep>>

-----------------------------------------------------------------------------
(* The specification *)

DestroyStep(c, n) == Claim(c, n) \/ DestroyOwn(c, n) \/ UntrackOwn(c, n) \/ WaitOver(c, n)

LifeStep(n) ==
  \/ SpawnCreate(n) \/ BackendCreates(n) \/ SetCreated(n)
  \/ AbortVm(n) \/ UntrackAborted(n) \/ Report(n)

Next ==
  \/ \E n \in Names :
       \/ \E external \in [Limits -> 0 .. MaxExternal] : ServeCreate(n, external)
       \/ ServeDestroy(n) \/ Find(n) \/ LifeStep(n) \/ RunEnds(n) \/ CleanupNext(n)
       \/ \E c \in Callers : DestroyStep(c, n)
  \/ \E old \in SUBSET Names : StartCleanup(old)
  \/ Signal \/ DestroyAll \/ Exit

Spec == Init /\ [][Next]_vars

\* Backends answer, VMs get old, tasks go on, and the event channel gets room for an ack while the
\* agent is connected. No job has to end by itself.
Fairness ==
  /\ \A n \in Names :
       /\ WF_vars(LifeStep(n)) /\ WF_vars(TornDown(n))
       /\ WF_vars(Find(n)) /\ WF_vars(CleanupNext(n))
       /\ WF_vars(\E old \in SUBSET Names : n \in old /\ StartCleanup(old))
       /\ \A c \in Callers : WF_vars(DestroyStep(c, n))
  /\ WF_vars(DestroyAll) /\ WF_vars(Exit)

FairSpec == Spec /\ Fairness

-----------------------------------------------------------------------------
(* What should hold *)

\* The VMs really on the host stay within its limits, whatever images turn out to be, creates and
\* destroys race and slots are given back. VMs a destroy left behind are out of this.
HostWithinLimits ==
  \A l \in Limits : Cardinality({n \in host \ failed : l \in guest[n]}) <= Max[l]

\* A VM that is to be destroyed has one destroyer (its lifecycle, a DestroyRunner, the cleanup or
\* shutdown): never two, and never none while somebody waits for it to be gone.
OneDestroyer ==
  \A n \in Names :
    LET owners == {c \in Callers : call[c][n] \in {"own", "owned"}}
        unborn == life[n] \in {"reserved", "creating", "created", "aborting", "aborted"}
    IN  /\ \A c, d \in owners : c = d
        /\ unborn => owners = {}
        /\ state[n] = "destroying" => unborn \/ owners # {}
        /\ \A c \in Callers : call[c][n] = "wait" => state[n] \in {"destroying", "none"}

\* "so a VM is really gone when this returns (shutdown relies on it)" (destroy), also for the caller
\* that waited for somebody else's destroy, unless the backend failed to destroy it.
GoneWhenDestroyReturns ==
  [][\A c \in Callers, n \in Names :
       Active(c, n) /\ ~Active(c, n)' => n \notin (host \ failed)']_vars

\* What the tracker promises.
Pool == INSTANCE SlotPool WITH
  held <- Tracked, counted <- limits,
  past <- {n \in Names : life[n] \notin {"new", "rejected"} /\ state[n] = "none"},
  vms <- host \ failed

SlotsKept == Pool!Spec

\* A slot taken for a runner is given back, whatever its job does.
SlotFreed ==
  \A n \in Names : n \in Tracked ~> n \notin Tracked \/ phase # "serving"

\* Shutdown ends, as long as the signal does not come while a CreateRunner's ack is waiting.
ShutdownEnds ==
  phase = "signalled" /\ (\A n \in Names : life[n] # "reserved") ~> phase = "exited"

\* "shutdown takes as long as the slowest one" (destroy_all): it ends, whenever the signal comes.
ShutdownAlwaysEnds == phase = "signalled" ~> phase = "exited"
=============================================================================
