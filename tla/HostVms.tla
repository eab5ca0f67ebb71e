------------------------------ MODULE HostVms ------------------------------
(***************************************************************************)
(* The VMs of one agent on its host, for each backend: tart clones named   *)
(* after their runner, libvirt's transient domains on an overlay disk, and *)
(* Proxmox clones under a VMID. Other people's VMs are on the host too.    *)
(* Commands and API calls fail, and those that time out may still take     *)
(* effect later. The agent crashes and starts anew.                        *)
(***************************************************************************)
EXTENDS FiniteSets

CONSTANTS
  VmNames, \* runner names
  Vmids,   \* Proxmox VMIDs, and the names of other people's tart VMs
  Taken    \* runner names that other people's libvirt domains have

ASSUME HostAssumption == Taken \subseteq VmNames

Free == "free"
Other == "other"
Places == VmNames \cup Vmids

ASSUME PlaceAssumption == VmNames \cap Vmids = {} /\ {Free, Other} \cap VmNames = {}

VARIABLES
  kind,     \* "tart", "libvirt" or "proxmox"
  hostVm,   \* [Places -> VmNames \cup {Free, Other}]: the VM under each name or VMID
  powered,  \* places of the VMs that run
  stage,    \* [VmNames -> STRING]: "new", "create", "created", "up", "destroy", "stopped", "over"
  handle,   \* [VmNames -> Places]: the VM as the agent calls it
  overdue,  \* names whose clone or start timed out and may still take effect
  files,    \* names with files in the disk directory (libvirt)
  sweeping, \* the agent has yet to sweep leftovers (libvirt)
  ours,     \* TartBackend.ours
  external, \* TartBackend.external: the VMs it counts
  count,    \* count_external: "idle", "ours", "list"
  listed,   \* the names of ours it has read,
  seen      \* and the running VMs

vmAgentVars == <<stage, handle, overdue, files, sweeping, ours>>
countVars == <<external, count, listed, seen>>
hostVars == <<kind, hostVm, powered, vmAgentVars, countVars>>

HostTypeOK ==
  /\ kind \in {"tart", "libvirt", "proxmox"}
  /\ hostVm \in [Places -> VmNames \cup {Free, Other}] /\ powered \in SUBSET Places
  /\ stage \in [VmNames -> {"new", "create", "created", "up", "destroy", "stopped", "over"}]
  /\ handle \in [VmNames -> Places] /\ sweeping \in BOOLEAN
  /\ overdue \in SUBSET VmNames /\ files \in SUBSET VmNames
  /\ ours \in SUBSET VmNames /\ external \in SUBSET Places
  /\ count \in {"idle", "ours", "list"} /\ listed \in SUBSET VmNames /\ seen \in SUBSET Places

HostInit ==
  /\ kind \in {"tart", "libvirt", "proxmox"}
  /\ hostVm = [p \in Places |-> IF kind = "libvirt" /\ p \in Taken THEN Other ELSE Free]
  /\ powered = {} /\ stage = [r \in VmNames |-> "new"] /\ handle = [r \in VmNames |-> r]
  /\ overdue = {} /\ files = {} /\ sweeping = FALSE
  /\ ours = {} /\ external = {} /\ count = "idle" /\ listed = {} /\ seen = {}

StageGoes(r, s) == stage' = [stage EXCEPT ![r] = s]
Placed(p, owner) == hostVm' = [hostVm EXCEPT ![p] = owner]

-----------------------------------------------------------------------------
(* VmBackend::create *)

\* check_name and the overlay (libvirt), the next VMID (Proxmox), the name in ours (tart).
BeginCreate(r) ==
  /\ stage[r] = "new" /\ ~sweeping
  /\ \/ /\ kind = "tart" /\ ours' = ours \cup {r} /\ UNCHANGED <<handle, files>>
     \/ /\ kind = "libvirt" /\ r \notin files /\ files' = files \cup {r}
        /\ UNCHANGED <<handle, ours>>
     \/ /\ kind = "proxmox" /\ UNCHANGED <<files, ours>>
        /\ \E p \in Vmids : hostVm[p] = Free /\ handle' = [handle EXCEPT ![r] = p]
  /\ StageGoes(r, "create") /\ UNCHANGED <<kind, hostVm, powered, overdue, sweeping, countVars>>

\* tart and Proxmox make the VM, and refuse a name or VMID that is taken by now.
Clone(r) ==
  /\ stage[r] = "create" /\ StageGoes(r, "created")
  /\ IF kind = "libvirt" THEN UNCHANGED hostVm
     ELSE hostVm[handle[r]] = Free /\ Placed(handle[r], r)
  /\ UNCHANGED <<kind, powered, handle, overdue, files, sweeping, ours, countVars>>

\* Mutant of Forget: a VM that could not be deleted is kept.
ForgetDeleted(r) == IF hostVm[r] = r THEN ours ELSE ours \ {r}

\* The VM is no longer one of ours, deleted or not.
Forget(r) == ours \ {r}

\* The clone failed, or timed out while it goes on. The runner is over.
VmCreateFails(r) ==
  /\ stage[r] = "create" /\ StageGoes(r, "over") /\ ours' = Forget(r)
  /\ overdue' \in {overdue, IF kind = "libvirt" THEN overdue ELSE overdue \cup {r}}
  /\ UNCHANGED <<kind, hostVm, powered, handle, files, sweeping, countVars>>

-----------------------------------------------------------------------------
(* VmBackend::start, run_job *)

\* A domain is made as it starts, unless the name is taken.
StartVm(r) ==
  /\ stage[r] = "created" /\ StageGoes(r, "up")
  /\ IF kind = "libvirt" THEN hostVm[r] = Free /\ Placed(r, r)
     ELSE hostVm[handle[r]] = r /\ UNCHANGED hostVm
  /\ powered' = powered \cup {handle[r]}
  /\ UNCHANGED <<kind, handle, overdue, files, sweeping, ours, countVars>>

\* virsh create failed, or timed out and goes on, or the domain came up without its marker and was
\* stopped. Other backends fail to start.
StartFails(r) ==
  /\ stage[r] = "created" /\ StageGoes(r, "destroy")
  /\ overdue' \in {overdue, IF kind = "libvirt" THEN overdue \cup {r} ELSE overdue}
  /\ UNCHANGED <<kind, hostVm, powered, handle, files, sweeping, ours, countVars>>

\* What timed out takes effect: a clone, or a domain if its disk is still there.
LateEffect(r) ==
  /\ r \in overdue /\ overdue' = overdue \ {r}
  /\ IF hostVm[handle[r]] = Free /\ (kind = "libvirt" => r \in files)
     THEN /\ Placed(handle[r], r)
          /\ powered' = IF kind = "libvirt" THEN powered \cup {r} ELSE powered
     ELSE UNCHANGED <<hostVm, powered>>
  /\ UNCHANGED <<kind, stage, handle, files, sweeping, ours, countVars>>

\* The job is over, it failed, no IP address or SSH came up in time, or a DestroyRunner is for it.
VmJobOver(r) ==
  /\ stage[r] = "up" /\ StageGoes(r, "destroy")
  /\ UNCHANGED <<kind, hostVm, powered, handle, overdue, files, sweeping, ours, countVars>>

\* A guest shuts itself down. Then a transient domain is gone.
GuestOff(r) ==
  /\ handle[r] \in powered /\ hostVm[handle[r]] = r /\ powered' = powered \ {handle[r]}
  /\ IF kind = "libvirt" THEN Placed(r, Free) ELSE UNCHANGED hostVm
  /\ UNCHANGED <<kind, vmAgentVars, countVars>>

-----------------------------------------------------------------------------
(* VmBackend::destroy, destroy_untracked. A step that fails or times out goes to the next one,
   or ends the destroy. *)

\* Mutant of IsOurs: any domain by the name is the agent's.
IsOursNamed(r) == hostVm[r] # Free

\* owns_domain: the domain carries the agent's marker.
IsOurs(r) == hostVm[r] = r

\* A DestroyRunner for a VM that is not tracked, of an earlier run or gone: Proxmox has no names.
DestroyUntracked(r) ==
  /\ stage[r] \in {"new", "over"} /\ ~sweeping
  /\ kind = "tart" \/ (kind = "libvirt" /\ IsOurs(r))
  /\ StageGoes(r, "destroy")
  /\ UNCHANGED <<kind, hostVm, powered, handle, overdue, files, sweeping>>
  /\ UNCHANGED <<ours, countVars>>

\* stop_and_delete (Proxmox): a VM under another name is left alone. When its status cannot be
\* read, because it is gone or "the API is having a moment", it carries on.
NamedOtherwise(r) == hostVm[handle[r]] \notin {r, Free}

StopVm(r) ==
  /\ stage[r] = "destroy"
  /\ \/ /\ kind = "tart" /\ powered' \in {powered, powered \ {r}} /\ StageGoes(r, "stopped")
        /\ UNCHANGED hostVm
     \/ /\ kind = "libvirt" /\ IsOurs(r) /\ Placed(r, Free) /\ powered' = powered \ {r}
        /\ StageGoes(r, "stopped")
     \/ kind = "libvirt" /\ hostVm[r] = Free /\ StageGoes(r, "stopped")
        /\ UNCHANGED <<hostVm, powered>>
     \/ kind = "libvirt" /\ StageGoes(r, "over") /\ UNCHANGED <<hostVm, powered>>
     \/ /\ kind = "proxmox" /\ NamedOtherwise(r) /\ StageGoes(r, "over")
        /\ UNCHANGED <<hostVm, powered>>
     \/ /\ kind = "proxmox" /\ ~NamedOtherwise(r) /\ StageGoes(r, "stopped")
        /\ powered' \in {powered, powered \ {handle[r]}} /\ UNCHANGED hostVm
  /\ UNCHANGED <<kind, handle, overdue, files, sweeping, ours, countVars>>

\* tart and Proxmox delete a VM that does not run. libvirt's files go "once the domain is gone".
DeleteVm(r) ==
  /\ stage[r] = "stopped" /\ StageGoes(r, "over")
  /\ \/ UNCHANGED <<hostVm, files>>
     \/ /\ kind # "libvirt" /\ handle[r] \notin powered /\ Placed(handle[r], Free)
        /\ UNCHANGED files
     \/ kind = "libvirt" /\ files' = files \ {r} /\ UNCHANGED hostVm
  /\ ours' = Forget(r)
  /\ UNCHANGED <<kind, powered, handle, overdue, sweeping, countVars>>

\* The agent is killed, and its commands with it; what libvirt and Proxmox were asked goes on.
Crash ==
  /\ stage' = [r \in VmNames |-> IF stage[r] = "new" THEN "new" ELSE "over"]
  /\ overdue' = IF kind = "tart" THEN {} ELSE overdue
  /\ sweeping' = (kind = "libvirt") /\ ours' = {}
  /\ external' = {} /\ count' = "idle" /\ listed' = {} /\ seen' = {}
  /\ UNCHANGED <<kind, hostVm, powered, handle, files>>

\* sweep_leftovers: the agent's domains, then the files. It does not serve before it is done.
SweepDomain(r) ==
  /\ sweeping /\ IsOurs(r) /\ Placed(r, Free) /\ powered' = powered \ {r}
  /\ files' = files \ {r}
  /\ UNCHANGED <<kind, stage, handle, overdue, sweeping, ours, countVars>>

SweepFiles ==
  /\ sweeping /\ \A r \in VmNames : ~IsOurs(r)
  /\ files' = {} /\ sweeping' = FALSE
  /\ UNCHANGED <<kind, hostVm, powered, stage, handle, overdue, ours, countVars>>

-----------------------------------------------------------------------------
(* refresh_external (tart) *)

ReadOurs ==
  /\ kind = "tart" /\ count = "idle" /\ count' = "ours" /\ listed' = ours
  /\ UNCHANGED <<kind, hostVm, powered, vmAgentVars, external, seen>>

ListRunning ==
  /\ count = "ours" /\ count' = "list" /\ seen' = powered
  /\ UNCHANGED <<kind, hostVm, powered, vmAgentVars, external, listed>>

\* "ours can start or finish while tart list runs": the names of both sides of it.
SetExternal ==
  /\ count = "list" /\ count' = "idle" /\ external' = seen \ (listed \cup ours)
  /\ listed' = {} /\ seen' = {}
  /\ UNCHANGED <<kind, hostVm, powered, vmAgentVars>>

\* tart list failed: the last count is kept.
CountFails ==
  /\ count = "ours" /\ count' = "idle" /\ listed' = {}
  /\ UNCHANGED <<kind, hostVm, powered, vmAgentVars, external, seen>>

-----------------------------------------------------------------------------
(* Other people *)

OtherMakes(p) ==
  /\ kind # "libvirt" /\ hostVm[p] = Free /\ Placed(p, Other) /\ powered' = powered \cup {p}
  /\ UNCHANGED <<kind, vmAgentVars, countVars>>

OtherStops(p) ==
  /\ hostVm[p] = Other /\ p \in powered /\ powered' = powered \ {p}
  /\ UNCHANGED <<kind, hostVm, vmAgentVars, countVars>>

\* A domain of theirs stays defined.
OtherStarts(p) ==
  /\ hostVm[p] = Other /\ p \notin powered /\ powered' = powered \cup {p}
  /\ UNCHANGED <<kind, hostVm, vmAgentVars, countVars>>

OtherRemoves(p) ==
  /\ kind # "libvirt" /\ hostVm[p] = Other /\ p \notin powered /\ Placed(p, Free)
  /\ UNCHANGED <<kind, powered, vmAgentVars, countVars>>

-----------------------------------------------------------------------------
(* The specification *)

CountStep == ReadOurs \/ ListRunning \/ SetExternal \/ CountFails

AgentStep ==
  \/ Crash \/ SweepFiles
  \/ \E r \in VmNames :
       \/ BeginCreate(r) \/ Clone(r) \/ VmCreateFails(r) \/ StartVm(r) \/ StartFails(r)
       \/ LateEffect(r) \/ VmJobOver(r) \/ DestroyUntracked(r) \/ StopVm(r) \/ DeleteVm(r)
       \/ SweepDomain(r)

HostNext ==
  \/ AgentStep \/ CountStep
  \/ \E r \in VmNames : GuestOff(r)
  \/ \E p \in Vmids : OtherMakes(p) \/ OtherRemoves(p)
  \/ \E p \in Places : OtherStops(p) \/ OtherStarts(p)

HostSpec == HostInit /\ [][HostNext]_hostVars

-----------------------------------------------------------------------------
(* What should hold *)

\* The agent stops and deletes its own VMs only: a runner named like somebody's domain, a stray or
\* late DestroyRunner and a VMID given to a new clone "can't touch them" (libvirt.rs:3-5,
\* stop_and_delete), as long as nobody removes the agent's VMs by hand.
OthersSpared ==
  [][\A p \in Places :
       /\ hostVm[p] = Other /\ hostVm'[p] # Other => OtherRemoves(p)
       /\ hostVm[p] = Other /\ p \in powered \ powered' => OtherStops(p)]_hostVars

\* A VM that runs on though the agent gave it up, its destroy failed or the agent crashed, is
\* counted against the host's limits in the end, unless it stops.
LeakCounted ==
  \A r \in VmNames :
    kind = "tart" /\ r \in powered /\ stage[r] = "over" ~>
      r \in external \/ r \notin powered \/ stage[r] # "over"
=============================================================================
