------------------------------- MODULE Drain -------------------------------
(***************************************************************************)
(* Draining an agent in maintenance (fixed-capacity pools): the fleet loop *)
(* asks the forge to unregister each idle runner, and destroys the VM of a *)
(* runner that is not registered. Runners boot, register, take jobs and    *)
(* end meanwhile, and a DestroyRunner may be lost.                         *)
(***************************************************************************)
EXTENDS Naturals, FiniteSets

CONSTANT PoolRunners  \* runners of the agent's pools, each made once

ASSUME DrainAssumption == PoolRunners # {}

VARIABLES
  drain,      \* the fleet loop: "idle", "list", "found", "asked"
  todo,       \* runners it has still to look at,
  aged,       \* those past the boot grace when it began,
  asked,      \* the runner it asks the forge for,
  removal,    \* and the answer: "Idle", "Removed", "Busy", "NotRegistered"
  runner,     \* [PoolRunners -> STRING]: "new", "boot", "idle", "busy", "unregistered", "ended",
              \* and "over" when its record is gone
  old,        \* runners past the boot grace
  draining,   \* [PoolRunners -> {"no", "recent", "due"}]: destroys sent
  destroys,   \* DestroyRunner commands under way
  maintenance \* the agent is marked unavailable

drainVars == <<drain, todo, aged, asked, removal, runner, old, draining, destroys, maintenance>>

DrainTypeOK ==
  /\ drain \in {"idle", "list", "found", "asked"}
  /\ removal \in {"Idle", "Removed", "Busy", "NotRegistered"}
  /\ todo \in SUBSET PoolRunners /\ aged \in SUBSET PoolRunners /\ asked \in PoolRunners
  /\ runner \in [PoolRunners ->
                   {"new", "boot", "idle", "busy", "unregistered", "ended", "over"}]
  /\ old \in SUBSET PoolRunners /\ draining \in [PoolRunners -> {"no", "recent", "due"}]
  /\ destroys \in SUBSET PoolRunners /\ maintenance \in BOOLEAN

DrainInit ==
  /\ drain = "idle" /\ todo = {} /\ aged = {} /\ removal = "Busy"
  /\ asked = CHOOSE r \in PoolRunners : TRUE
  /\ runner = [r \in PoolRunners |-> "new"] /\ old = {}
  /\ draining = [r \in PoolRunners |-> "no"] /\ destroys = {} /\ maintenance = FALSE

Recorded == {r \in PoolRunners : runner[r] \notin {"new", "over"}}

-----------------------------------------------------------------------------
(* drain_unavailable_agents *)

\* With no agent unavailable the list is cleared, otherwise those without a record leave it.
DrainedListed == [r \in PoolRunners |-> IF maintenance /\ r \in Recorded THEN draining[r] ELSE "no"]

StartDrain ==
  /\ drain = "idle"
  /\ IF maintenance THEN drain' = "list" /\ todo' = Recorded /\ aged' = old
                    ELSE UNCHANGED <<drain, todo, aged>>
  /\ draining' = DrainedListed
  /\ UNCHANGED <<asked, removal, runner, old, destroys, maintenance>>

\* Mutant of RecentlySent: a destroy is sent once.
SentBefore(r) == draining[r] # "no"

RecentlySent(r) == draining[r] = "recent"

\* find_runner: registered, and idle or busy.
FoundAtForge(r) ==
  CASE runner[r] = "idle" -> "Idle" [] runner[r] = "busy" -> "Busy" [] OTHER -> "NotRegistered"

\* remove_idle_runner: an idle one is to be unregistered.
DrainAsk(r) ==
  /\ drain = "list" /\ r \in todo /\ ~RecentlySent(r)
  /\ asked' = r /\ removal' = FoundAtForge(r)
  /\ drain' = IF removal' = "Idle" THEN "found" ELSE "asked"
  /\ UNCHANGED <<todo, aged, runner, old, draining, destroys, maintenance>>

\* try_delete_runner: "a job can land between the list and the delete, GitHub refuses the delete
\* then". A runner that is gone by now is deleted too.
TryDelete ==
  /\ drain = "found" /\ drain' = "asked"
  /\ removal' = IF runner[asked] = "busy" THEN "Busy" ELSE "Removed"
  /\ runner' = [runner EXCEPT ![asked] = IF @ = "idle" THEN "unregistered" ELSE @]
  /\ UNCHANGED <<todo, aged, asked, old, draining, destroys, maintenance>>

\* Mutant of DrainStep: the age at the time of the answer.
DrainStepLate == removal = "Removed" \/ (removal = "NotRegistered" /\ asked \in old)

\* drain_step: destroy the VM.
DrainStep == removal = "Removed" \/ (removal = "NotRegistered" /\ asked \in aged)

SendDestroy ==
  /\ drain = "asked" /\ DrainStep
  /\ drain' = "list" /\ todo' = todo \ {asked}
  /\ destroys' = destroys \cup {asked} /\ draining' = [draining EXCEPT ![asked] = "recent"]
  /\ UNCHANGED <<aged, asked, removal, runner, old, maintenance>>

\* It is kept, or the forge or the send failed.
LeaveRunner ==
  /\ drain \in {"found", "asked"} /\ drain' = "list" /\ todo' = todo \ {asked}
  /\ UNCHANGED <<aged, asked, removal, runner, old, draining, destroys, maintenance>>

DrainOver ==
  /\ drain = "list" /\ \A r \in todo : RecentlySent(r)
  /\ drain' = "idle" /\ todo' = {} /\ aged' = {}
  /\ UNCHANGED <<asked, removal, runner, old, draining, destroys, maintenance>>

-----------------------------------------------------------------------------
(* Runners *)

\* A runner is made while its agent is available, but a pass under way does not notice the change.
Make(r) ==
  /\ runner[r] = "new" /\ runner' = [runner EXCEPT ![r] = "boot"]
  /\ UNCHANGED <<drain, todo, aged, asked, removal, old, draining, destroys, maintenance>>

\* A runner "that's still booting registers well within" the boot grace.
RegisterAtForge(r) ==
  /\ runner[r] = "boot" /\ r \notin old /\ runner' = [runner EXCEPT ![r] = "idle"]
  /\ UNCHANGED <<drain, todo, aged, asked, removal, old, draining, destroys, maintenance>>

GetJob(r) ==
  /\ runner[r] = "idle" /\ runner' = [runner EXCEPT ![r] = "busy"]
  /\ UNCHANGED <<drain, todo, aged, asked, removal, old, draining, destroys, maintenance>>

\* The job is over, or the boot failed. An ephemeral runner is no longer registered then.
PoolJobOver(r) ==
  /\ runner[r] \in {"boot", "busy"} /\ runner' = [runner EXCEPT ![r] = "ended"]
  /\ UNCHANGED <<drain, todo, aged, asked, removal, old, draining, destroys, maintenance>>

DestroyRunner(r) ==
  /\ r \in destroys /\ destroys' = destroys \ {r}
  /\ runner' = [runner EXCEPT ![r] = IF @ = "over" THEN @ ELSE "ended"]
  /\ UNCHANGED <<drain, todo, aged, asked, removal, old, draining, maintenance>>

\* With the agent's stream.
LoseDestroy(r) ==
  /\ r \in destroys /\ destroys' = destroys \ {r}
  /\ UNCHANGED <<drain, todo, aged, asked, removal, runner, old, draining, maintenance>>

\* handle_runner_event.
RunnerGone(r) ==
  /\ drain = "idle" /\ runner[r] = "ended"
  /\ runner' = [runner EXCEPT ![r] = "over"] /\ draining' = [draining EXCEPT ![r] = "no"]
  /\ UNCHANGED <<drain, todo, aged, asked, removal, old, destroys, maintenance>>

BootGraceOver(r) ==
  /\ r \in Recorded \ old /\ old' = old \cup {r}
  /\ UNCHANGED <<drain, todo, aged, asked, removal, runner, draining, destroys, maintenance>>

DestroyRetryDue(r) ==
  /\ draining[r] = "recent" /\ draining' = [draining EXCEPT ![r] = "due"]
  /\ UNCHANGED <<drain, todo, aged, asked, removal, runner, old, destroys, maintenance>>

SetMaintenance ==
  /\ maintenance' = ~maintenance
  /\ UNCHANGED <<drain, todo, aged, asked, removal, runner, old, draining, destroys>>

-----------------------------------------------------------------------------
(* The specification *)

DrainLoop ==
  \/ StartDrain \/ TryDelete \/ SendDestroy \/ LeaveRunner \/ DrainOver
  \/ \E r \in PoolRunners : DrainAsk(r)

DrainNext ==
  \/ DrainLoop \/ SetMaintenance
  \/ \E r \in PoolRunners :
       \/ Make(r) \/ RegisterAtForge(r) \/ GetJob(r) \/ PoolJobOver(r) \/ DestroyRunner(r)
       \/ LoseDestroy(r) \/ RunnerGone(r) \/ BootGraceOver(r) \/ DestroyRetryDue(r)

DrainSpec == DrainInit /\ [][DrainNext]_drainVars

-----------------------------------------------------------------------------
(* What should hold *)

\* "only then is its VM destroyed" (drain_unavailable_agents): no runner is destroyed while it runs
\* a job, though it may register, or take a job, between the forge's answer and the destroy.
DrainSpares ==
  \A r \in destroys : runner[r] # "busy"

\* "so the host really drains": an idle runner of an agent in maintenance goes, also when a
\* DestroyRunner is lost, unless it gets a job or the maintenance ends.
DrainEnds ==
  \A r \in PoolRunners :
    runner[r] \in {"idle", "unregistered"} ~>
      runner[r] \notin {"idle", "unregistered"} \/ ~maintenance
=============================================================================
