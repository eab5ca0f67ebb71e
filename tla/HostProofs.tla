----------------------------- MODULE HostProofs -----------------------------
(***************************************************************************)
(* Proofs about the agent's host, for any jobs, VMs, lines and releases:   *)
(* the runner it caches, the VMs it tells its own by, the log lines it     *)
(* uploads and the releases it is updated to.                              *)
(***************************************************************************)
EXTENDS RunnerCache, HostVms, LogPipeline, Updates, SequenceTheorems, FiniteSetTheorems,
        NaturalsInduction, WellFoundedInduction, TLAPS

-----------------------------------------------------------------------------
(* RunnerCache *)

Grades == {"none", "good", "bad"}
Loading == {"sums", "loading", "hashed", "summed", "pruning"}
CacheSteps == {"new", "queued", "copy", "upload", "over"} \cup Loading

CacheTypeOK ==
  /\ newest \in Versions /\ known \in Versions \cup {None} /\ saved \in Versions \cup {None}
  /\ step \in [CacheJobs -> CacheSteps] /\ want \in [CacheJobs -> Versions \cup {None}]
  /\ file \in [Versions -> Grades] /\ part \in [Versions -> {"none", "some", "full"}]
  /\ open \in [CacheJobs -> Grades]
  /\ source \in [CacheJobs -> {"none", "installed", "fell_back"}]
  /\ fresh \in BOOLEAN /\ paused \in BOOLEAN /\ slot \in CacheJobs \cup {"free"}
  /\ sum \subseteq Versions /\ late \subseteq Versions /\ spoiled \subseteq CacheJobs

\* A job has looked its version up, and only the job with the slot downloads.
Slotted ==
  \A j \in CacheJobs : /\ step[j] \notin {"new", "over"} => want[j] \in Versions
                       /\ step[j] \in Loading => slot = j

\* SlotInUse: the platform's slot is taken only while the job that has it downloads (RunnerCache).
SlotInUse == slot # "free" => step[slot] \in Loading

\* What is about to be renamed is whole, or a late rename of the same .part has taken it.
PartWhole ==
  \A j \in CacheJobs : step[j] \in {"hashed", "summed"} => part[want[j]] # "some"

\* A job's checked copy is not bad, and what it opened was not, unless it went bad in between.
CheckedGood ==
  \A j \in CacheJobs :
    /\ step[j] \in {"pruning", "copy"} => file[want[j]] # "bad" \/ j \in spoiled
    /\ step[j] = "upload" => open[j] = "good" \/ j \in spoiled

CacheInv == CacheTypeOK /\ Slotted /\ SlotInUse /\ PartWhole /\ CheckedGood /\ InstalledGood

\* Nothing is cached.
LEMMA CacheInitInv == CacheInit => CacheInv
<1> SUFFICES ASSUME CacheInit PROVE CacheInv
  OBVIOUS
<1>1. 1 \in Versions
  BY RunnerCacheAssumption DEF Versions
<1>2. CacheTypeOK
  BY <1>1 DEF CacheInit, CacheTypeOK, None, CacheSteps, Loading, Grades
<1>q. QED
  BY <1>2 DEF CacheInit, CacheInv, Slotted, SlotInUse, PartWhole, CheckedGood, InstalledGood,
                   Loading

\* A step of one job, or its end.
LEMMA JobStepKeeps ==
  ASSUME CacheInv, NEW j \in CacheJobs, JobStep(j) \/ TearDown(j)
  PROVE  CacheInv'
<1> USE DEF CacheInv, CacheTypeOK, Slotted, SlotInUse, PartWhole, CheckedGood, InstalledGood,
            CacheSteps, Loading, Grades, InstallOver, lookup, disk
<1>1. CASE LookUp(j)
  <2>1. FALLBACK \in Versions
    BY RunnerCacheAssumption DEF Versions, FALLBACK
  <2>2. /\ known' \in Versions \cup {None} /\ saved' \in Versions \cup {None}
        /\ fresh' \in BOOLEAN
        /\ \E v \in Versions : want' = [want EXCEPT ![j] = v]
    BY <1>1, <2>1 DEF LookUp
  <2>q. QED
    BY <1>1, <2>2 DEF LookUp
<1>2. CASE TakeSlot(j)
  BY <1>2, RunnerCacheAssumption DEF TakeSlot, Intact
<1>3. CASE DownloadFails(j)
  BY <1>3 DEF DownloadFails
<1>4. CASE GetChecksum(j)
  BY <1>4 DEF GetChecksum
<1>5. CASE Load(j)
  BY <1>5 DEF Load
<1>6. CASE Mismatch(j)
  BY <1>6 DEF Mismatch
<1>7. CASE WriteChecksum(j)
  BY <1>7 DEF WriteChecksum
<1>8. CASE Rename(j)
  BY <1>8 DEF Rename, Renamed
<1>9. CASE Prune(j)
  <2>1. SlotInUse'
    BY <1>9 DEF Prune
  <2>2. CacheTypeOK'
    BY <1>9 DEF Prune
  <2>3. Slotted' /\ PartWhole' /\ CheckedGood' /\ InstalledGood'
    BY <1>9 DEF Prune
  <2>q. QED
    BY <2>1, <2>2, <2>3
<1>10. CASE Open(j)
  BY <1>10 DEF Open
<1>11. CASE Install(j)
  BY <1>11 DEF Install
<1>12. CASE TearDown(j)
  BY <1>12 DEF TearDown, Freed
<1>q. QED
  BY <1>1, <1>2, <1>3, <1>4, <1>5, <1>6, <1>7, <1>8, <1>9, <1>10, <1>11, <1>12 DEF JobStep

\* The invariant is inductive.
LEMMA CacheNextKeeps == CacheInv /\ [CacheNext]_cacheVars => CacheInv'
<1> SUFFICES ASSUME CacheInv, [CacheNext]_cacheVars PROVE CacheInv'
  OBVIOUS
<1> USE DEF CacheInv, CacheTypeOK, Slotted, SlotInUse, PartWhole, CheckedGood, InstalledGood,
            CacheSteps, Loading, Grades, lookup, disk
<1>1. ASSUME NEW j \in CacheJobs, JobStep(j) \/ TearDown(j) PROVE CacheInv'
  BY <1>1, JobStepKeeps
<1>2. ASSUME NEW v \in Versions, Rot(v) PROVE CacheInv'
  BY <1>2 DEF Rot, Checked
<1>3. ASSUME NEW v \in Versions, LateRename(v) PROVE CacheInv'
  BY <1>3 DEF LateRename, Renamed, Checked
<1>4. CASE Release
  BY <1>4, RunnerCacheAssumption DEF Release, Versions
<1>5. CASE VersionTtlOver \/ PauseOver
  BY <1>5 DEF VersionTtlOver, PauseOver
<1>6. CASE RestartAgent
  BY <1>6 DEF RestartAgent
<1>7. CASE UNCHANGED cacheVars
  BY <1>7 DEF cacheVars, Checked
<1>q. QED
  BY <1>1, <1>2, <1>3, <1>4, <1>5, <1>6, <1>7 DEF CacheNext

\* InstalledGood: what is installed in a guest is a whole runner archive, whichever jobs share the
\* cache, unless it was spoiled on the disk after its check (runner_cache.rs).
THEOREM CopiesGood == CacheSpec => []InstalledGood
<1>1. CacheInv => InstalledGood
  BY DEF CacheInv
<1>q. QED
  BY CacheInitInv, CacheNextKeeps, <1>1, PTL DEF CacheSpec

\* Whoever has the download slot is downloading, so a job that was torn down or fell back never keeps
\* it from the others: the safety half of InstallEnds (runner_cache.rs, cached).
THEOREM SlotGivenBack == CacheSpec => []SlotInUse
<1>1. CacheInv => SlotInUse
  BY DEF CacheInv
<1>q. QED
  BY CacheInitInv, CacheNextKeeps, <1>1, PTL DEF CacheSpec

-----------------------------------------------------------------------------
(* HostVms *)

\* tart and libvirt call a VM by its runner's name, and only libvirt's may be somebody else's.
NamesKept ==
  /\ kind # "proxmox" => \A r \in VmNames : handle[r] = r
  /\ kind # "libvirt" => \A r \in VmNames : hostVm[r] # Other
  /\ sweeping => kind = "libvirt"

\* A Proxmox VM that was cloned stays under its VMID until the agent deletes it.
ClonedKept ==
  kind = "proxmox" =>
    \A r \in VmNames :
      stage[r] \in {"created", "up", "destroy", "stopped"} => hostVm[handle[r]] = r

HostInv == HostTypeOK /\ NamesKept /\ ClonedKept

\* What a step of the agent does to other people's VMs: nothing.
Spared ==
  \A p \in Places :
    hostVm[p] = Other => hostVm'[p] = Other /\ (p \in powered => p \in powered')

\* No VM of ours is there.
LEMMA HostInitInv == HostInit => HostInv
  BY PlaceAssumption
  DEF HostInit, HostInv, HostTypeOK, NamesKept, ClonedKept, Places, Free, Other

\* A place is free, somebody else's or that of a VM of ours.
LEMMA Owners == Free # Other /\ Free \notin VmNames /\ Other \notin VmNames
  BY PlaceAssumption DEF Free, Other

\* A step on one of our VMs spares the others.
LEMMA VmStepSpares ==
  ASSUME HostInv, NEW r \in VmNames,
         \/ BeginCreate(r) \/ Clone(r) \/ VmCreateFails(r) \/ StartVm(r) \/ StartFails(r)
         \/ LateEffect(r) \/ VmJobOver(r) \/ DestroyUntracked(r) \/ StopVm(r) \/ DeleteVm(r)
         \/ SweepDomain(r) \/ GuestOff(r)
  PROVE  HostInv' /\ Spared
<1> USE Owners
    DEF HostInv, HostTypeOK, NamesKept, ClonedKept, Spared, Places, StageGoes, Placed, countVars,
        vmAgentVars
<1>1. CASE BeginCreate(r)
  BY <1>1 DEF BeginCreate
<1>2. CASE Clone(r)
  BY <1>2 DEF Clone
<1>3. CASE VmCreateFails(r)
  BY <1>3 DEF VmCreateFails, Forget
<1>4. CASE StartVm(r)
  BY <1>4 DEF StartVm
<1>5. CASE StartFails(r)
  BY <1>5 DEF StartFails
<1>6. CASE LateEffect(r)
  BY <1>6 DEF LateEffect
<1>7. CASE VmJobOver(r)
  BY <1>7 DEF VmJobOver
<1>8. CASE DestroyUntracked(r)
  BY <1>8 DEF DestroyUntracked
<1>9. CASE StopVm(r)
  BY <1>9 DEF StopVm, IsOurs, NamedOtherwise
<1>10. CASE DeleteVm(r)
  BY <1>10 DEF DeleteVm, Forget
<1>11. CASE SweepDomain(r)
  BY <1>11 DEF SweepDomain, IsOurs
<1>12. CASE GuestOff(r)
  BY <1>12 DEF GuestOff
<1>q. QED
  BY <1>1, <1>2, <1>3, <1>4, <1>5, <1>6, <1>7, <1>8, <1>9, <1>10, <1>11, <1>12

\* Every step keeps the invariant, and only their owner stops or removes the VMs of others.
LEMMA HostStepSpares ==
  ASSUME HostInv, [HostNext]_hostVars
  PROVE  /\ HostInv'
         /\ \A p \in Places :
              /\ hostVm[p] = Other /\ hostVm'[p] # Other => OtherRemoves(p)
              /\ hostVm[p] = Other /\ p \in powered \ powered' => OtherStops(p)
<1> DEFINE Goal ==
      /\ HostInv'
      /\ \A p \in Places :
           /\ hostVm[p] = Other /\ hostVm'[p] # Other => OtherRemoves(p)
           /\ hostVm[p] = Other /\ p \in powered \ powered' => OtherStops(p)
<1>0. ASSUME HostInv' /\ Spared PROVE Goal
  BY <1>0 DEF Spared
<1>1. ASSUME NEW r \in VmNames,
             \/ BeginCreate(r) \/ Clone(r) \/ VmCreateFails(r) \/ StartVm(r) \/ StartFails(r)
             \/ LateEffect(r) \/ VmJobOver(r) \/ DestroyUntracked(r) \/ StopVm(r) \/ DeleteVm(r)
             \/ SweepDomain(r) \/ GuestOff(r)
      PROVE  Goal
  BY <1>1, VmStepSpares, <1>0
<1> USE Owners
    DEF HostInv, HostTypeOK, NamesKept, ClonedKept, Spared, Places, StageGoes, Placed, countVars,
        vmAgentVars
<1>2. CASE Crash \/ SweepFiles \/ CountStep
  <2>1. CASE Crash
    BY <2>1, <1>0 DEF Crash
  <2>2. CASE SweepFiles
    BY <2>2, <1>0 DEF SweepFiles
  <2>3. CASE CountStep
    BY <2>3, <1>0 DEF CountStep, ReadOurs, ListRunning, SetExternal, CountFails
  <2>q. QED
    BY <1>2, <2>1, <2>2, <2>3
<1>3. ASSUME NEW p \in Vmids, OtherMakes(p) PROVE Goal
  <2>1. HostInv' /\ Spared
    BY <1>3, PlaceAssumption DEF OtherMakes
  <2>q. QED
    BY <2>1, <1>0
<1>4. ASSUME NEW p \in Vmids, OtherRemoves(p) PROVE Goal
  <2>1. HostInv'
    BY <1>4, PlaceAssumption DEF OtherRemoves
  <2>2. powered' = powered /\ \A s \in Places : s # p => hostVm'[s] = hostVm[s]
    BY <1>4 DEF OtherRemoves
  <2>q. QED
    BY <1>4, <2>1, <2>2
<1>5. ASSUME NEW p \in Places, OtherStops(p) PROVE Goal
  <2>1. HostInv'
    BY <1>5 DEF OtherStops
  <2>2. hostVm' = hostVm /\ powered \ powered' \subseteq {p}
    BY <1>5 DEF OtherStops
  <2>q. QED
    BY <1>5, <2>1, <2>2
<1>6. ASSUME NEW p \in Places, OtherStarts(p) PROVE Goal
  <2>1. HostInv' /\ Spared
    BY <1>6 DEF OtherStarts
  <2>q. QED
    BY <2>1, <1>0
<1>7. CASE UNCHANGED hostVars
  <2>1. HostInv' /\ Spared
    BY <1>7 DEF hostVars
  <2>q. QED
    BY <2>1, <1>0
<1>q. QED
  BY <1>1, <1>2, <1>3, <1>4, <1>5, <1>6, <1>7 DEF HostNext, AgentStep

\* What the agent keeps of its VMs, and the host's own VMs, have their types.
THEOREM HostTypeCorrect == HostSpec => []HostTypeOK
<1>1. HostInv /\ [HostNext]_hostVars => HostInv'
  BY HostStepSpares
<1>2. HostInv => HostTypeOK
  BY DEF HostInv
<1>q. QED
  BY HostInitInv, <1>1, <1>2, PTL DEF HostSpec

\* OthersSpared: the agent stops and removes no VM but its own, whatever effects come late and
\* whatever the sweeps at start find.
THEOREM OtherVmsSpared == HostSpec => OthersSpared
<1>1. HostInv /\ [HostNext]_hostVars => HostInv'
  BY HostStepSpares
<1>2. HostInv /\ [HostNext]_hostVars =>
        [\A p \in Places :
           /\ hostVm[p] = Other /\ hostVm'[p] # Other => OtherRemoves(p)
           /\ hostVm[p] = Other /\ p \in powered \ powered' => OtherStops(p)]_hostVars
  BY HostStepSpares
<1>q. QED
  BY HostInitInv, <1>1, <1>2, PTL DEF HostSpec, OthersSpared

-----------------------------------------------------------------------------
(* LogPipeline *)

Lost == (0 .. nextSeq - 1) \ (stored \cup thrown \cup Held)

\* What was dropped before the batch in flight is counted there, until the coordinator has it.
InFlight == IF uploader = "answered" /\ reply = "ok" THEN 0 ELSE batch.dropped

Batches == [lines : Seq(Nat), dropped : Nat]

LogTypeOK ==
  /\ records \in Seq(Nat) /\ batch \in Batches
  /\ dropped \in Nat /\ counted \in Nat /\ nextSeq \in Nat
  /\ Len(records) <= BUFFER_CAPACITY
  /\ uploader \in {"none", "waits", "takes", "sending", "answered", "off"}

LogInv ==
  /\ LogTypeOK
  /\ uploader \in {"none", "waits", "takes", "off"} => batch = Empty
  /\ uploader = "answered" /\ reply = "ok" => ToSet(batch.lines) \subseteq stored
  /\ Cardinality(Lost) <= dropped + counted + InFlight

\* The bounds are numbers.
LEMMA BoundsThere == BUFFER_CAPACITY \in Nat \ {0} /\ MAX_BATCH \in Nat \ {0}
  BY LogAssumption

\* A set that only grows by a few.
LEMMA GrowsBy ==
  ASSUME NEW S, NEW T, NEW X, IsFiniteSet(S), IsFiniteSet(X), T \subseteq S \cup X
  PROVE  /\ IsFiniteSet(T) /\ Cardinality(T) \in Nat /\ Cardinality(S) \in Nat
         /\ Cardinality(X) \in Nat
         /\ Cardinality(T) <= Cardinality(S) + Cardinality(X)
<1>1. IsFiniteSet(S \cup X) 
      /\ Cardinality(S \cup X) = Cardinality(S) + Cardinality(X) - Cardinality(S \cap X)
  BY FS_Union
<1>2. IsFiniteSet(T) /\ Cardinality(T) <= Cardinality(S \cup X)
  BY <1>1, FS_Subset
<1>3. IsFiniteSet(S \cap X)
  BY FS_Intersection
<1>4. {Cardinality(S), Cardinality(X), Cardinality(T), Cardinality(S \cap X)} \subseteq Nat
  BY <1>2, <1>3, FS_CardinalityType
<1>q. QED
  BY <1>1, <1>2, <1>4

\* The first lines of a sequence are no more than they are.
LEMMA PrefixCount ==
  ASSUME NEW s \in Seq(Nat), NEW k \in 0 .. Len(s)
  PROVE  LET X == {s[i] : i \in 1 .. k}
         IN  IsFiniteSet(X) /\ Cardinality(X) <= k
<1> DEFINE X == {s[i] : i \in 1 .. k}
           f == [i \in 1 .. k |-> s[i]]
<1>1. f \in Surjection(1 .. k, X)
  BY DEF Surjection
<1>2. IsFiniteSet(1 .. k) /\ Cardinality(1 .. k) = k
  BY FS_Interval
<1> HIDE DEF f
<1>q. QED
  BY <1>1, <1>2, FS_Surjection

\* Numbers below a bound can be counted.
LEMMA NumbersFinite ==
  ASSUME NEW n \in Nat, NEW X
  PROVE  IsFiniteSet((0 .. n - 1) \ X) /\ Cardinality((0 .. n - 1) \ X) \in Nat
<1>1. IsFiniteSet(0 .. n - 1)
  BY FS_Interval
<1>2. IsFiniteSet((0 .. n - 1) \ X)
  BY <1>1, FS_Subset
<1>q. QED
  BY <1>2, FS_CardinalityType

\* Lost lines can be counted.
LEMMA LostFinite == LogTypeOK => IsFiniteSet(Lost) /\ Cardinality(Lost) \in Nat
  BY NumbersFinite DEF LogTypeOK, Lost

\* No line is lost.
LEMMA LostLess ==
  ASSUME LogTypeOK, Lost' \subseteq Lost
  PROVE  Cardinality(Lost') <= Cardinality(Lost) + 0
<1>1. Cardinality(Lost') <= Cardinality(Lost) /\ IsFiniteSet(Lost')
  BY LostFinite, FS_Subset
<1>2. Cardinality(Lost') \in Nat
  BY <1>1, FS_CardinalityType
<1>q. QED
  BY <1>1, <1>2, LostFinite

\* The fields of the batch.
LEMMA BatchThere ==
  LogTypeOK => batch.lines \in Seq(Nat) /\ batch.dropped \in Nat /\ InFlight \in Nat
  BY DEF LogTypeOK, Batches, InFlight

\* What is lost is counted, if as much more is counted as more is lost.
LEMMA CountKept ==
  ASSUME LogInv, LogTypeOK', NEW n \in Nat,
         Cardinality(Lost') <= Cardinality(Lost) + n,
         dropped' + counted' + InFlight' >= dropped + counted + InFlight + n
  PROVE  Cardinality(Lost') <= dropped' + counted' + InFlight'
<1>1. LogTypeOK /\ Cardinality(Lost) <= dropped + counted + InFlight
  BY DEF LogInv
<1>2. Cardinality(Lost) \in Nat /\ Cardinality(Lost') \in Nat
  BY <1>1, NumbersFinite DEF LogTypeOK, Lost
<1>3. InFlight \in Nat /\ InFlight' \in Nat
  BY <1>1 DEF LogTypeOK, Batches, InFlight
<1>4. {dropped, counted, dropped', counted'} \subseteq Nat
  BY <1>1 DEF LogTypeOK
<1>q. QED
  BY <1>1, <1>2, <1>3, <1>4

\* Nothing is logged.
LEMMA LogInitInv == LogInit => LogInv
<1> SUFFICES ASSUME LogInit PROVE LogInv
  OBVIOUS
<1>1. Lost = {}
  BY DEF Lost, LogInit
<1>2. Cardinality(Lost) = 0
  BY <1>1, FS_EmptySet
<1>3. Empty \in Batches /\ Empty.dropped = 0
  BY DEF Empty, Batches
<1>q. QED
  BY <1>2, <1>3, BoundsThere DEF LogInit, LogInv, LogTypeOK, InFlight

\* A line goes into the buffer, or pushes the oldest one out and is counted.
LEMMA OnEventKeeps ==
  ASSUME LogInv, OnEvent
  PROVE  LogInv'
<1> USE DEF LogInv, LogTypeOK, InFlight
<1>1. nextSeq' = nextSeq + 1 /\ UNCHANGED <<uploader, batch, reply, stored, counted>>
  BY DEF OnEvent, storeVars
<1>2. \A l \in 0 .. nextSeq' - 1 : l \in 0 .. nextSeq - 1 \/ l = nextSeq
  BY <1>1
<1>3. CASE UNCHANGED <<records, dropped>> /\ thrown' = thrown \cup {nextSeq}
  <2>1. Lost' \subseteq Lost
    BY <1>1, <1>2, <1>3 DEF Lost, Held
  <2>2. LogTypeOK'
    BY <1>1, <1>3
  <2>3. dropped' + counted' + InFlight' >= dropped + counted + InFlight + 0
    BY <1>1, <1>3, BatchThere
  <2>q. QED
    BY <1>1, <1>3, <2>1, <2>2, <2>3, LostLess, CountKept
<1>4. CASE Push /\ UNCHANGED thrown
  <2>1. CASE Len(records) >= BUFFER_CAPACITY
    <3>1. records' = Append(Tail(records), nextSeq) /\ dropped' = dropped + 1 /\ Len(records) > 0
      BY <1>4, <2>1, BoundsThere DEF Push
    <3>2. /\ records' \in Seq(Nat) /\ Len(records') = Len(records)
          /\ records'[Len(records)] = nextSeq /\ Len(records) \in DOMAIN records'
          /\ \A i \in 2 .. Len(records) : i - 1 \in DOMAIN records' /\ records'[i - 1] = records[i]
      BY <3>1
    <3>3. \A x \in ToSet(records) : x = records[1] \/ x \in ToSet(records')
      BY <3>2 DEF ToSet
    <3>4. nextSeq \in ToSet(records')
      BY <3>2 DEF ToSet
    <3>5. Lost' \subseteq Lost \cup {records[1]}
      BY <1>1, <1>2, <1>4, <3>3, <3>4 DEF Lost, Held
    <3>6. Cardinality(Lost') <= Cardinality(Lost) + 1 /\ Cardinality(Lost') \in Nat
      BY <3>5, LostFinite, GrowsBy, FS_Singleton
    <3>7. LogTypeOK'
      BY <1>1, <3>1, <3>2
    <3>8. dropped' + counted' + InFlight' >= dropped + counted + InFlight + 1
      BY <1>1, <3>1, BatchThere
    <3>q. QED
      BY <1>1, <3>6, <3>7, <3>8, CountKept
  <2>2. CASE ~(Len(records) >= BUFFER_CAPACITY)
    <3>1. records' = Append(records, nextSeq) /\ dropped' = dropped
      BY <1>4, <2>2 DEF Push
    <3>2. /\ records' \in Seq(Nat) /\ Len(records') = Len(records) + 1
          /\ records'[Len(records) + 1] = nextSeq
          /\ \A i \in 1 .. Len(records) : records'[i] = records[i]
          /\ DOMAIN records' = 1 .. Len(records) + 1 /\ DOMAIN records = 1 .. Len(records)
      BY <3>1
    <3>3. ToSet(records) \subseteq ToSet(records') /\ nextSeq \in ToSet(records')
      <4>1. \A i \in DOMAIN records : i \in DOMAIN records' /\ records'[i] = records[i]
        BY <3>2
      <4>2. Len(records) + 1 \in DOMAIN records'
        BY <3>2
      <4>q. QED
        BY <3>2, <4>1, <4>2 DEF ToSet
    <3>4. Lost' \subseteq Lost
      BY <1>1, <1>2, <1>4, <3>3 DEF Lost, Held
    <3>5. Len(records') <= BUFFER_CAPACITY
      BY <2>2, <3>2, BoundsThere
    <3>6. LogTypeOK'
      BY <1>1, <3>1, <3>2, <3>5
    <3>7. dropped' + counted' + InFlight' >= dropped + counted + InFlight + 0
      BY <1>1, <3>1, BatchThere
    <3>q. QED
      BY <1>1, <3>4, <3>6, <3>7, LostLess, CountKept
  <2>q. QED
    BY <2>1, <2>2
<1>q. QED
  BY <1>3, <1>4 DEF OnEvent, buffer

\* The elements of a sequence cut in two.
LEMMA SplitSet ==
  ASSUME NEW s \in Seq(Nat), NEW k \in 0 .. Len(s)
  PROVE  /\ SubSeq(s, 1, k) \in Seq(Nat) /\ Len(SubSeq(s, 1, k)) = k
         /\ SubSeq(s, k + 1, Len(s)) \in Seq(Nat) /\ Len(SubSeq(s, k + 1, Len(s))) = Len(s) - k
         /\ ToSet(s) = ToSet(SubSeq(s, 1, k)) \cup ToSet(SubSeq(s, k + 1, Len(s)))
         /\ ToSet(s) \subseteq {s[i] : i \in 1 .. k} \cup ToSet(SubSeq(s, k + 1, Len(s)))
<1> DEFINE head == SubSeq(s, 1, k)
           tail == SubSeq(s, k + 1, Len(s))
<1>1. Len(s) \in Nat /\ DOMAIN s = 1 .. Len(s) /\ \A i \in 1 .. Len(s) : s[i] \in Nat
  OBVIOUS
<1>2. head \in Seq(Nat) /\ Len(head) = k /\ \A i \in 1 .. k : head[i] = s[i]
  BY <1>1, SubSeqProperties
<1>3. /\ tail \in Seq(Nat) /\ Len(tail) = Len(s) - k
      /\ \A i \in 1 .. Len(s) - k : tail[i] = s[k + i]
  <2>1. k + 1 \in Int /\ Len(s) \in Int /\ \A i \in k + 1 .. Len(s) : s[i] \in Nat
    BY <1>1
  <2>2. /\ tail \in Seq(Nat)
        /\ Len(tail) = IF k + 1 <= Len(s) THEN Len(s) - (k + 1) + 1 ELSE 0
        /\ \A i \in 1 .. Len(s) - (k + 1) + 1 : tail[i] = s[k + 1 + i - 1]
    BY <2>1, SubSeqProperties
  <2>3. Len(s) - (k + 1) + 1 = Len(s) - k /\ \A i \in 1 .. Len(s) - k : k + 1 + i - 1 = k + i
    BY <1>1
  <2> HIDE DEF tail
  <2>5. k \in Nat /\ k <= Len(s) /\ Len(s) \in Nat
    BY <1>1
  <2>6. Len(tail) = IF k + 1 <= Len(s) THEN Len(s) - (k + 1) + 1 ELSE 0
    BY <2>2
  <2>4. Len(tail) = Len(s) - k
    BY <2>5, <2>6
  <2>q. QED
    BY <2>2, <2>3, <2>4
<1> HIDE DEF head, tail
<1>4. DOMAIN head = 1 .. k /\ DOMAIN tail = 1 .. Len(s) - k
  BY <1>2, <1>3
<1>5. ASSUME NEW i \in 1 .. Len(s), i \notin 1 .. k
      PROVE  i - k \in 1 .. Len(s) - k /\ tail[i - k] = s[i]
  <2>1. i - k \in 1 .. Len(s) - k /\ k + (i - k) = i
    BY <1>1, <1>5
  <2>q. QED
    BY <1>3, <2>1
<1>6. ToSet(tail) \subseteq ToSet(s) /\ ToSet(head) \subseteq ToSet(s)
  <2>1. \A i \in 1 .. Len(s) - k : k + i \in DOMAIN s
    BY <1>1
  <2>2. \A i \in 1 .. k : i \in DOMAIN s
    BY <1>1
  <2>3. \A i \in DOMAIN tail : k + i \in DOMAIN s /\ tail[i] = s[k + i]
    BY <1>3, <1>4, <2>1
  <2>4. \A i \in DOMAIN head : i \in DOMAIN s /\ head[i] = s[i]
    BY <1>2, <1>4, <2>2
  <2>q. QED
    BY <2>3, <2>4 DEF ToSet
<1>7. ToSet(head) = {s[i] : i \in 1 .. k}
  BY <1>2, <1>4 DEF ToSet
<1>8. ToSet(s) \subseteq ToSet(head) \cup ToSet(tail)
  BY <1>1, <1>2, <1>4, <1>5 DEF ToSet
<1>q. QED
  BY <1>2, <1>3, <1>6, <1>7, <1>8 DEF head, tail

\* What two sequences hold together.
LEMMA ConcatSet ==
  ASSUME NEW s \in Seq(Nat), NEW t \in Seq(Nat)
  PROVE  /\ s \o t \in Seq(Nat) /\ Len(s \o t) = Len(s) + Len(t)
         /\ ToSet(s \o t) = ToSet(s) \cup ToSet(t)
<1>1. s \o t \in Seq(Nat) /\ Len(s \o t) = Len(s) + Len(t)
  OBVIOUS
<1>2. DOMAIN (s \o t) = 1 .. Len(s) + Len(t) /\ DOMAIN s = 1 .. Len(s) /\ DOMAIN t = 1 .. Len(t)
      /\ Len(s) \in Nat /\ Len(t) \in Nat
  BY <1>1
<1>3. \A i \in 1 .. Len(s) : i \in DOMAIN (s \o t) /\ (s \o t)[i] = s[i]
  BY <1>2
<1>4. \A i \in 1 .. Len(t) : Len(s) + i \in DOMAIN (s \o t) /\ (s \o t)[Len(s) + i] = t[i]
  BY <1>2
<1>5. \A i \in DOMAIN (s \o t) : i \in 1 .. Len(s) \/ (i - Len(s) \in 1 .. Len(t)
                                                     /\ i = Len(s) + (i - Len(s)))
  BY <1>2
<1>6. ToSet(s) \subseteq ToSet(s \o t) /\ ToSet(t) \subseteq ToSet(s \o t)
  BY <1>2, <1>3, <1>4 DEF ToSet
<1>7. ASSUME NEW i \in DOMAIN (s \o t) PROVE (s \o t)[i] \in ToSet(s) \cup ToSet(t)
  BY <1>2, <1>3, <1>4, <1>5 DEF ToSet
<1>8. ToSet(s \o t) \subseteq ToSet(s) \cup ToSet(t)
  <2>1. \A x \in ToSet(s \o t) : \E i \in DOMAIN (s \o t) : x = (s \o t)[i]
    BY Zenon DEF ToSet
  <2>q. QED
    BY <1>7, <2>1
<1>q. QED
  BY <1>1, <1>6, <1>8

\* The lesser of two numbers.
LEMMA LeastThere ==
  ASSUME NEW n \in Nat, NEW m \in Nat
  PROVE  Least(n, m) \in 0 .. n /\ Least(n, m) <= m /\ n - Least(n, m) \in 0 .. n
  BY DEF Least

\* A batch goes back in front of the buffer, and what does not fit is counted.
LEMMA RequeueKeeps ==
  ASSUME LogInv, Requeue, UNCHANGED <<nextSeq, reply, storeVars, thrown>>,
         uploader' \in {"none", "waits"}
  PROVE  LogInv'
<1> USE DEF LogInv, LogTypeOK, InFlight
<1> DEFINE n == Len(batch.lines)
           room == BUFFER_CAPACITY - Len(records)
           fit == Least(n, room)
           back == SubSeq(batch.lines, n - fit + 1, n)
           X == {batch.lines[i] : i \in 1 .. n - fit}
<1>1. /\ records' = back \o records /\ batch' = Empty
      /\ dropped' = dropped + batch.dropped + (n - fit)
      /\ UNCHANGED <<nextSeq, reply, stored, counted, thrown>>
  BY DEF Requeue, Uncounted, storeVars
<1>2. batch.lines \in Seq(Nat) /\ n \in Nat /\ batch.dropped \in Nat /\ InFlight \in Nat
      /\ InFlight <= batch.dropped
  BY BatchThere
<1>12. records \in Seq(Nat) /\ Len(records) \in Nat /\ Len(records) <= BUFFER_CAPACITY
       /\ dropped \in Nat /\ counted \in Nat
  OBVIOUS
<1> HIDE DEF LogInv, LogTypeOK, InFlight
<1>13. room \in Nat
  BY <1>12, BoundsThere
<1>3. fit \in 0 .. n /\ fit <= room /\ n - fit \in 0 .. n
  BY <1>2, <1>13, LeastThere
<1> HIDE DEF fit
<1>4. /\ back \in Seq(Nat) /\ Len(back) = n - (n - fit)
      /\ ToSet(batch.lines) \subseteq X \cup ToSet(back)
  BY <1>2, <1>3, SplitSet
<1> HIDE DEF back, X
<1>5. /\ records' \in Seq(Nat) /\ Len(records') = Len(back) + Len(records)
      /\ ToSet(records') = ToSet(back) \cup ToSet(records)
  BY <1>1, <1>4, <1>12, ConcatSet
<1>6. IsFiniteSet(X) /\ Cardinality(X) <= n - fit
  BY <1>2, <1>3, PrefixCount DEF X
<1>7. Lost' \subseteq Lost \cup X
  BY <1>1, <1>4, <1>5 DEF Lost, Held
<1>8. Cardinality(Lost') <= Cardinality(Lost) + (n - fit)
  <2>1. /\ Cardinality(Lost') <= Cardinality(Lost) + Cardinality(X)
        /\ Cardinality(Lost') \in Nat /\ Cardinality(Lost) \in Nat /\ Cardinality(X) \in Nat
    BY <1>6, <1>7, LostFinite, GrowsBy DEF LogInv
  <2>q. QED
    BY <1>2, <1>3, <1>6, <2>1
<1>9. Empty \in Batches /\ Empty.dropped = 0
  BY DEF Empty, Batches
<1>10. LogTypeOK'
  <2>1. Len(records') <= BUFFER_CAPACITY
    <3>1. Len(records') = fit + Len(records)
      BY <1>2, <1>3, <1>4, <1>5
    <3>q. QED
      BY <1>2, <1>3, <1>12, <3>1, BoundsThere
  <2>2. dropped' \in Nat
    BY <1>1, <1>2, <1>3, <1>12
  <2>q. QED
    BY <1>1, <1>5, <1>9, <2>1, <2>2 DEF LogInv, LogTypeOK
<1>11. dropped' + counted' + InFlight' >= dropped + counted + InFlight + (n - fit)
  <2>1. InFlight' = 0
    BY <1>1, <1>9 DEF InFlight
  <2>2. n - fit \in Nat
    BY <1>2, <1>3
  <2>3. dropped' = dropped + batch.dropped + (n - fit) /\ counted' = counted
    BY <1>1
  <2> HIDE DEF n
  <2>q. QED
    BY <1>2, <1>12, <2>1, <2>2, <2>3
<1>14. n - fit \in Nat
  BY <1>2, <1>3
<1>15. Cardinality(Lost') <= dropped' + counted' + InFlight'
  BY <1>8, <1>10, <1>11, <1>14, CountKept
<1>q. QED
  BY <1>1, <1>10, <1>15 DEF LogInv

\* A batch leaves the buffer.
LEMMA TakeBatchKeeps ==
  ASSUME LogInv, TakeBatch
  PROVE  LogInv'
<1> USE DEF LogInv, LogTypeOK, InFlight
<1> DEFINE n == Least(Len(records), MAX_BATCH)
<1>1. CASE records = <<>> /\ dropped = 0 /\ uploader' = "waits" /\ UNCHANGED <<batch, buffer, more>>
  <2>1. UNCHANGED <<records, dropped, batch, nextSeq, reply, stored, counted, thrown>>
        /\ uploader = "takes"
    BY <1>1 DEF TakeBatch, buffer, storeVars
  <2>2. Lost' = Lost
    BY <2>1 DEF Lost, Held
  <2>q. QED
    BY <1>1, <2>1, <2>2
<1>2. CASE /\ batch' = [lines |-> SubSeq(records, 1, n), dropped |-> dropped]
           /\ records' = SubSeq(records, n + 1, Len(records)) /\ dropped' = 0
           /\ uploader' = "sending"
  <2>1. /\ uploader = "takes" /\ uploader' = "sending" /\ batch = Empty
        /\ records' = SubSeq(records, n + 1, Len(records)) /\ dropped' = 0
        /\ UNCHANGED <<nextSeq, reply, stored, counted, thrown>>
    BY <1>2 DEF TakeBatch, storeVars, Empty
  <2>2. n \in 0 .. Len(records)
    <3>1. Len(records) \in Nat /\ MAX_BATCH \in Nat
      BY BoundsThere
    <3>q. QED
      BY <3>1, LeastThere
  <2> HIDE DEF n
  <2>3. /\ SubSeq(records, 1, n) \in Seq(Nat)
        /\ records' \in Seq(Nat) /\ Len(records') = Len(records) - n
        /\ ToSet(records) = ToSet(SubSeq(records, 1, n)) \cup ToSet(records')
    BY <2>1, <2>2, SplitSet
  <2>4. batch' \in Batches /\ batch'.lines = SubSeq(records, 1, n) /\ batch'.dropped = dropped
    BY <1>2, <2>3 DEF Batches
  <2>5. Lost' \subseteq Lost
    <3>1. ToSet(<<>>) = {}
      BY DEF ToSet
    <3>q. QED
      BY <2>1, <2>3, <2>4, <3>1 DEF Lost, Held, Empty
  <2>6. LogTypeOK'
    BY <2>1, <2>2, <2>3, <2>4, BoundsThere
  <2>7. dropped' + counted' + InFlight' >= dropped + counted + InFlight + 0
    BY <2>1, <2>4 DEF Empty
  <2>q. QED
    BY <2>1, <2>5, <2>6, <2>7, LostLess, CountKept
<1>q. QED
  BY <1>1, <1>2 DEF TakeBatch

\* The other steps lose no line, and count as many as they did.
LEMMA OthersKeep ==
  ASSUME LogInv, LogTypeOK', Lost' \subseteq Lost,
         dropped' + counted' + InFlight' >= dropped + counted + InFlight,
         uploader' \in {"none", "waits", "takes", "off"} => batch' = Empty,
         uploader' = "answered" /\ reply' = "ok" => ToSet(batch'.lines) \subseteq stored'
  PROVE  LogInv'
<1>1. dropped' + counted' + InFlight' >= dropped + counted + InFlight + 0
  BY BatchThere DEF LogInv, LogTypeOK
<1>2. Cardinality(Lost') <= Cardinality(Lost) + 0
  BY LostLess DEF LogInv
<1>3. Cardinality(Lost') <= dropped' + counted' + InFlight'
  BY <1>1, <1>2, CountKept
<1>q. QED
  BY <1>3 DEF LogInv

\* The empty batch.
LEMMA EmptyThere ==
  Empty \in Batches /\ Empty.dropped = 0 /\ ToSet(Empty.lines) = {} /\ Empty.lines = <<>>
  BY DEF Empty, Batches, ToSet

\* The invariant is inductive.
LEMMA LogNextKeeps ==
  ASSUME LogInv, [LogNext]_logVars
  PROVE  LogInv'
<1> USE DEF LogInv, LogTypeOK, InFlight, storeVars, buffer
<1>1. CASE OnEvent
  BY <1>1, OnEventKeeps
<1>2. CASE StartUploads \/ Flush
  <2>1. Lost' = Lost
    BY <1>2 DEF StartUploads, Flush, Lost, Held
  <2>q. QED
    BY <1>2, <2>1, BatchThere, OthersKeep DEF StartUploads, Flush
<1>3. CASE TakeBatch
  BY <1>3, TakeBatchKeeps
<1>4. CASE Store
  <2>1. Lost' \subseteq Lost
    BY <1>4 DEF Store, Lost, Held
  <2>q. QED
    BY <1>4, <2>1, BatchThere, OthersKeep DEF Store
<1>5. CASE StoreFails
  <2>1. Lost' = Lost
    BY <1>5 DEF StoreFails, Lost, Held
  <2>q. QED
    BY <1>5, <2>1, BatchThere, OthersKeep DEF StoreFails
<1>6. CASE BatchDone
  <2>1. Lost' \subseteq Lost
    BY <1>6, EmptyThere DEF BatchDone, Lost, Held
  <2>q. QED
    BY <1>6, <2>1, BatchThere, EmptyThere, OthersKeep DEF BatchDone
<1>7. CASE BatchFailed
  BY <1>7, RequeueKeeps DEF BatchFailed
<1>8. CASE Disable
  <2>1. Lost' \subseteq Lost
    BY <1>8 DEF Disable, Lost, Held
  <2>2. /\ records' = <<>> /\ dropped' = 0 /\ batch' = Empty /\ uploader' = "off"
        /\ counted' = counted + batch.dropped + dropped
        /\ UNCHANGED nextSeq
    BY <1>8 DEF Disable
  <2>3. LogTypeOK'
    BY <2>2, BatchThere, EmptyThere, BoundsThere
  <2>4. dropped' + counted' + InFlight' >= dropped + counted + InFlight
    BY <2>2, BatchThere, EmptyThere
  <2>q. QED
    BY <2>1, <2>2, <2>3, <2>4, OthersKeep
<1>9. CASE EndUploads
  BY <1>9, RequeueKeeps DEF EndUploads
<1>10. CASE UNCHANGED logVars
  <2>1. Lost' = Lost
    BY <1>10 DEF logVars, Lost, Held
  <2>q. QED
    BY <1>10, <2>1 DEF logVars
<1>q. QED
  BY <1>1, <1>2, <1>3, <1>4, <1>5, <1>6, <1>7, <1>8, <1>9, <1>10 DEF LogNext

\* LinesAccounted: no more log lines get lost than the coordinator is or will be told were dropped,
\* whatever uploads fail and whatever answers get lost (log_upload.rs).
THEOREM LinesCounted == LogSpec => []LinesAccounted
<1>1. LogInv /\ [LogNext]_logVars => LogInv'
  BY LogNextKeeps
<1>2. LogInv => LinesAccounted
  <2> SUFFICES ASSUME LogInv PROVE LinesAccounted
    OBVIOUS
  <2>1. InFlight <= batch.dropped /\ InFlight \in Nat /\ batch.dropped \in Nat
    BY BatchThere DEF InFlight, LogInv
  <2>2. Cardinality(Lost) \in Nat
    BY LostFinite DEF LogInv
  <2>q. QED
    BY <2>1, <2>2 DEF LogInv, LogTypeOK, LinesAccounted, Lost
<1>q. QED
  BY LogInitInv, <1>1, <1>2, PTL DEF LogSpec

-----------------------------------------------------------------------------
(* Updates *)

\* A non-empty bounded set of numbers has a greatest one.
LEMMA MaxThere ==
  ASSUME NEW N \in Nat, NEW S \in SUBSET (0 .. N), S # {}
  PROVE  Max(S) \in S /\ \A n \in S : n <= Max(S)
<1> DEFINE T == {N - n : n \in S}
<1>0. \A n \in S : n \in Nat /\ n <= N /\ N - n \in Nat
  OBVIOUS
<1>1. T \subseteq Nat /\ T # {}
  BY <1>0
<1>2. PICK m \in T : \A n \in T : ~(<<n, m>> \in OpToRel(<, Nat))
  BY <1>1, NatLessThanWellFounded, WFMin
<1>3. \A n \in T : ~(n < m)
  BY <1>1, <1>2 DEF OpToRel
<1>4. PICK x \in S : m = N - x
  OBVIOUS
<1>5. \A n \in S : x >= n
  <2> TAKE n \in S
  <2>1. ~(N - n < m)
    BY <1>3
  <2>q. QED
    BY <1>0, <1>4, <2>1
<1>q. QED
  BY <1>5 DEF Max

\* The bounds are numbers.
LEMMA UpdateBounds ==
  /\ PerPage \in Nat \ {0} /\ MAX_PAGES \in Nat \ {0} /\ LatestPages \in Nat \ {0}
  /\ MaxRelease \in Nat \ {0}
  BY UpdatesAssumption

Releases == [crate : Crates, version : ReleaseVersions, full : BOOLEAN]

\* v is a version of c the list tells of.
Tells(list, c, v) ==
  \E i \in DOMAIN list : list[i].crate = c /\ list[i].version = v /\ list[i].full

\* The versions of an agent are what the list tells of.
LEMMA VersionsTold ==
  ASSUME NEW list \in Seq(Releases), NEW c \in Crates
  PROVE  /\ VersionsOf(list, c) \subseteq ReleaseVersions
         /\ \A v : v \in VersionsOf(list, c) <=> Tells(list, c, v)
<1>0. \A i \in DOMAIN list : list[i] \in Releases
  OBVIOUS
<1>1. \A i \in DOMAIN list : list[i].version \in ReleaseVersions
  BY <1>0 DEF Releases
<1>2. \A v : v \in VersionsOf(list, c) <=>
        \E i \in DOMAIN list : list[i].crate = c /\ list[i].full /\ v = list[i].version
  BY DEF VersionsOf
<1>q. QED
  BY <1>1, <1>2 DEF Tells

\* The newest of a list is in it, and none of it is newer.
LEMMA NewestTold ==
  ASSUME NEW list \in Seq(Releases), NEW c \in Crates
  PROVE  /\ NewestOf(list)[c] \in 0 .. MaxRelease
         /\ NewestOf(list)[c] = 0 \/ Tells(list, c, NewestOf(list)[c])
         /\ \A v \in ReleaseVersions : Tells(list, c, v) => v <= NewestOf(list)[c]
<1> DEFINE S == VersionsOf(list, c) \cup {0}
<1>1. S \in SUBSET (0 .. MaxRelease) /\ S # {} /\ MaxRelease \in Nat
  BY VersionsTold, UpdateBounds DEF ReleaseVersions
<1>2. Max(S) \in S /\ \A n \in S : n <= Max(S)
  BY <1>1, MaxThere
<1>3. NewestOf(list)[c] = Max(S)
  BY DEF NewestOf
<1> HIDE DEF S
<1>4. \A v : v \in S <=> Tells(list, c, v) \/ v = 0
  BY VersionsTold DEF S
<1>q. QED
  BY <1>1, <1>2, <1>3, <1>4

\* The pages before n hold this many releases.
Before(n) == (n - 1) * PerPage

\* A page begins where the one before it ends.
LEMMA PageAfterPage ==
  ASSUME NEW n \in Nat \ {0}
  PROVE  /\ Before(n) \in Nat /\ n * PerPage \in Nat /\ n * PerPage = Before(n) + PerPage
         /\ Before(n + 1) = n * PerPage
<1>1. PerPage \in Nat
  BY UpdateBounds
<1>2. PICK m \in Nat : n = m + 1
  <2>1. n - 1 \in Nat /\ n = (n - 1) + 1
    OBVIOUS
  <2>q. QED
    BY <2>1
<1>3. (m + 1) * PerPage = m * PerPage + PerPage /\ m * PerPage \in Nat
  BY <1>1
<1>4. n - 1 = m /\ (n + 1) - 1 = n
  BY <1>2
<1>q. QED
  BY <1>1, <1>2, <1>3, <1>4 DEF Before

\* A page holds the releases at its places in the list.
LEMMA PageHolds ==
  ASSUME NEW n \in Nat \ {0}, releases \in Seq(Releases)
  PROVE  /\ Page(n) \in Seq(Releases)
         /\ \A i \in DOMAIN releases : i > Before(n) /\ i <= n * PerPage =>
              /\ i - Before(n) \in DOMAIN Page(n)
              /\ Page(n)[i - Before(n)] = releases[i]
<1> DEFINE lo == Before(n) + 1
           hi == Min({n * PerPage, Len(releases)})
<1>1. Before(n) \in Nat /\ n * PerPage \in Nat /\ Len(releases) \in Nat
  BY PageAfterPage
<1>2. hi \in Nat /\ hi <= n * PerPage /\ hi <= Len(releases)
      /\ (hi = n * PerPage \/ hi = Len(releases))
  <2> DEFINE a == n * PerPage
             b == Len(releases)
  <2> HIDE DEF a, b
  <2>1. a \in Nat /\ b \in Nat
    BY <1>1 DEF a, b
  <2>2. Min({a, b}) \in {a, b} /\ Min({a, b}) <= a /\ Min({a, b}) <= b
    <3>1. \E x \in {a, b} : \A y \in {a, b} : x <= y
      BY <2>1
    <3>q. QED
      BY <2>1, <3>1 DEF Min
  <2>q. QED
    BY <2>1, <2>2 DEF a, b
<1>3. Page(n) = SubSeq(releases, lo, hi)
  BY DEF Page, Before
<1> HIDE DEF hi
<1>4. \A i \in lo .. hi : releases[i] \in Releases
  BY <1>1, <1>2
<1>5. /\ Page(n) \in Seq(Releases)
      /\ Len(Page(n)) = IF lo <= hi THEN hi - lo + 1 ELSE 0
      /\ \A i \in 1 .. hi - lo + 1 : Page(n)[i] = releases[lo + i - 1]
  BY <1>1, <1>2, <1>3, <1>4, SubSeqProperties
<1>6. ASSUME NEW i \in DOMAIN releases, i > Before(n), i <= n * PerPage
      PROVE  /\ i - Before(n) \in DOMAIN Page(n)
             /\ Page(n)[i - Before(n)] = releases[i]
  <2>1. i \in Nat /\ i <= Len(releases)
    OBVIOUS
  <2>2. i <= hi
    BY <1>2, <1>6, <2>1
  <2> DEFINE k == i - Before(n)
  <2>3. k \in 1 .. hi - lo + 1 /\ lo + k - 1 = i /\ lo <= hi
    BY <1>1, <1>2, <1>6, <2>1, <2>2
  <2> HIDE DEF k, lo
  <2>4. k \in DOMAIN Page(n) /\ Page(n)[k] = releases[i]
    BY <1>5, <2>3
  <2>q. QED
    BY <2>4 DEF k
<1>q. QED
  BY <1>5, <1>6

\* What either of two lists tells of, both together do.
LEMMA BothTell ==
  ASSUME NEW s \in Seq(Releases), NEW t \in Seq(Releases), NEW c, NEW v,
         Tells(s, c, v) \/ Tells(t, c, v)
  PROVE  Tells(s \o t, c, v)
<1>1. /\ Len(s) \in Nat /\ Len(t) \in Nat /\ DOMAIN s = 1 .. Len(s) /\ DOMAIN t = 1 .. Len(t)
      /\ DOMAIN (s \o t) = 1 .. Len(s) + Len(t)
      /\ \A i \in 1 .. Len(s) + Len(t) :
           (s \o t)[i] = IF i <= Len(s) THEN s[i] ELSE t[i - Len(s)]
  BY ConcatProperties
<1>2. CASE Tells(s, c, v)
  <2>1. PICK i \in DOMAIN s : s[i].crate = c /\ s[i].version = v /\ s[i].full
    BY <1>2 DEF Tells
  <2>2. i \in DOMAIN (s \o t) /\ (s \o t)[i] = s[i]
    BY <1>1
  <2>q. QED
    BY <2>1, <2>2 DEF Tells
<1>3. CASE Tells(t, c, v)
  <2>1. PICK i \in DOMAIN t : t[i].crate = c /\ t[i].version = v /\ t[i].full
    BY <1>3 DEF Tells
  <2>2. i + Len(s) \in DOMAIN (s \o t) /\ (s \o t)[i + Len(s)] = t[i]
    BY <1>1
  <2>q. QED
    BY <2>1, <2>2 DEF Tells
<1>q. QED
  BY <1>2, <1>3

-----------------------------------------------------------------------------
(* The coordinator's check. *)

\* It is still to come: on a page from n on.
Ahead(n, c, v) ==
  \E i \in DOMAIN releases :
    /\ i > Before(n)
    /\ releases[i].crate = c /\ releases[i].version = v /\ releases[i].full

PollRecords ==
  [at : {"page", "set"}, page : Nat \ {0}, got : Seq(Releases),
   atStart : [Crates -> 0 .. MaxRelease]]

ListTyped == releases \in Seq(Releases)

PollInv ==
  /\ ListTyped
  /\ poll = NoPoll \/ poll \in PollRecords
  /\ poll.at = "page" => poll.page <= MAX_PAGES
  /\ poll.at = "page" => \A c \in Crates :
       \/ poll.atStart[c] = 0 \/ Tells(poll.got, c, poll.atStart[c])
       \/ Ahead(poll.page, c, poll.atStart[c])
  /\ poll.at = "set" => Len(releases) > MAX_PAGES * PerPage \/ \A c \in Crates :
       poll.atStart[c] = 0 \/ Tells(poll.got, c, poll.atStart[c])

\* No check has begun.
LEMMA PollStarts == UpdatesInit => PollInv
  BY DEF UpdatesInit, PollInv, ListTyped, NoPoll

\* A release is put in front of the list, so whatever is ahead stays ahead.
LEMMA PublishKeeps ==
  ASSUME PollInv, Publish
  PROVE  PollInv'
<1>1. PICK r \in Releases : releases' = <<r>> \o releases
  BY DEF Publish, Releases
<1>2. releases \in Seq(Releases) /\ UNCHANGED poll
  BY DEF PollInv, ListTyped, Publish
<1>3. /\ releases' \in Seq(Releases) /\ Len(releases') = Len(releases) + 1
      /\ \A i \in DOMAIN releases : i + 1 \in DOMAIN releases' /\ releases'[i + 1] = releases[i]
  BY <1>1, <1>2
<1>4. \A n \in Nat \ {0} : \A c, v : Ahead(n, c, v) => Ahead(n, c, v)'
  <2> SUFFICES ASSUME NEW n \in Nat \ {0}, NEW c, NEW v, Ahead(n, c, v)
               PROVE  Ahead(n, c, v)'
    OBVIOUS
  <2>1. PICK i \in DOMAIN releases : /\ i > Before(n)
                                     /\ releases[i].crate = c /\ releases[i].version = v
                                     /\ releases[i].full
    BY DEF Ahead
  <2>2. i + 1 > Before(n) /\ Before(n)' = Before(n)
    BY <1>2, <2>1, PageAfterPage DEF Before
  <2>q. QED
    BY <1>3, <2>1, <2>2 DEF Ahead
<1>5. MAX_PAGES * PerPage \in Nat
  BY UpdateBounds
<1>6. Len(releases) > MAX_PAGES * PerPage => Len(releases') > MAX_PAGES * PerPage
  BY <1>2, <1>3, <1>5
<1>7. poll.at = "page" => poll.page \in Nat \ {0}
  BY DEF PollInv, PollRecords, NoPoll
<1>q. QED
  BY <1>2, <1>3, <1>4, <1>6, <1>7 DEF PollInv, ListTyped, Tells, PollRecords, NoPoll

\* All of the list is ahead of the first page.
LEMMA StartPollKeeps ==
  ASSUME PollInv, StartPoll
  PROVE  PollInv'
<1>1. /\ poll' = [at |-> "page", page |-> 1, got |-> <<>>, atStart |-> NewestOf(releases)]
      /\ releases' = releases /\ releases \in Seq(Releases)
  BY DEF StartPoll, PollOnly, PollInv, ListTyped
<1>2. \A c \in Crates : /\ NewestOf(releases)[c] \in 0 .. MaxRelease
                        /\ NewestOf(releases)[c] = 0 \/ Tells(releases, c, NewestOf(releases)[c])
  BY <1>1, NewestTold
<1>3. NewestOf(releases) \in [Crates -> 0 .. MaxRelease]
  BY <1>2 DEF NewestOf
<1>4. poll' \in PollRecords
  BY <1>1, <1>3 DEF PollRecords
<1>5. Before(1) = 0
  BY UpdateBounds DEF Before
<1>6. \A c \in Crates : \/ NewestOf(releases)[c] = 0 \/ Ahead(1, c, NewestOf(releases)[c])
  <2> SUFFICES ASSUME NEW c \in Crates, NEW v, Tells(releases, c, v) PROVE Ahead(1, c, v)
    BY <1>2
  <2>q. QED
    BY <1>1, <1>5 DEF Tells, Ahead
<1>7. \A c \in Crates : poll'.atStart[c] = 0 \/ Ahead(poll.page, c, poll.atStart[c])'
  BY <1>1, <1>6 DEF Ahead, Before
<1>8. poll'.at = "page" /\ poll'.page <= MAX_PAGES
  BY <1>1, UpdateBounds
<1>q. QED
  BY <1>1, <1>4, <1>7, <1>8 DEF PollInv, ListTyped

\* What is ahead of a page is on it or ahead of the next one.
LEMMA FetchPageKeeps ==
  ASSUME PollInv, FetchPage
  PROVE  PollInv'
<1> DEFINE n == poll.page
           another == HasNext(n) /\ n < MAX_PAGES
<1>1. /\ poll.at = "page" /\ poll \in PollRecords /\ releases \in Seq(Releases)
      /\ n <= MAX_PAGES /\ UNCHANGED releases
  BY DEF PollInv, ListTyped, FetchPage, PollOnly, NoPoll
<1>2. n \in Nat \ {0} /\ poll.got \in Seq(Releases) /\ MAX_PAGES \in Nat
  BY <1>1, UpdateBounds DEF PollRecords
<1>3. Page(n) \in Seq(Releases)
  BY <1>1, <1>2, PageHolds
<1> DEFINE both == poll.got \o Page(n)
           next == IF another THEN "page" ELSE "set"
<1>4. /\ poll'.got = both /\ poll'.page = n + 1 /\ poll'.at = next
      /\ poll'.atStart = poll.atStart /\ poll' \in PollRecords
  <2>1. both \in Seq(Releases) /\ next \in {"page", "set"} /\ n + 1 \in Nat \ {0}
    BY <1>2, <1>3
  <2>2. poll' = [poll EXCEPT !.got = both, !.page = n + 1, !.at = next]
    BY <1>1 DEF FetchPage
  <2> HIDE DEF both, next, n
  <2>q. QED
    BY <1>1, <2>1, <2>2 DEF PollRecords
<1> HIDE DEF next
<1>5. \A c, v : Tells(poll.got, c, v) \/ Tells(Page(n), c, v) => Tells(poll'.got, c, v)
  BY <1>2, <1>3, <1>4, BothTell
<1>6. \A c, v : Ahead(n, c, v) => Tells(Page(n), c, v) \/ (HasNext(n) /\ Ahead(n + 1, c, v))
  <2> SUFFICES ASSUME NEW c, NEW v, Ahead(n, c, v)
               PROVE  Tells(Page(n), c, v) \/ (HasNext(n) /\ Ahead(n + 1, c, v))
    OBVIOUS
  <2>1. PICK i \in DOMAIN releases : /\ i > Before(n)
                                     /\ releases[i].crate = c /\ releases[i].version = v
                                     /\ releases[i].full
    BY DEF Ahead
  <2>2. n * PerPage \in Nat /\ Before(n + 1) = n * PerPage /\ i \in Nat /\ i <= Len(releases)
    <3>1. DOMAIN releases = 1 .. Len(releases) /\ Len(releases) \in Nat
      BY <1>1
    <3>2. i \in Nat /\ i <= Len(releases)
      BY <3>1
    <3>q. QED
      BY <1>2, <3>2, PageAfterPage
  <2>3. CASE i <= n * PerPage
    BY <1>1, <1>2, <2>1, <2>3, PageHolds DEF Tells
  <2>4. CASE i > n * PerPage
    <3>1. HasNext(n)
      BY <1>1, <2>2, <2>4 DEF HasNext
    <3>q. QED
      BY <2>1, <2>2, <2>4, <3>1 DEF Ahead
  <2>q. QED
    BY <2>2, <2>3, <2>4
<1>7. HasNext(n) /\ ~another => Len(releases) > MAX_PAGES * PerPage
  <2>1. HasNext(n) /\ ~another => n = MAX_PAGES
    BY <1>1, <1>2
  <2>2. n * PerPage \in Nat /\ Len(releases) \in Nat
    <3>1. Len(releases) \in Nat
      BY <1>1
    <3>2. n * PerPage \in Nat
      BY <1>2, PageAfterPage
    <3>q. QED
      BY <3>1, <3>2
  <2>q. QED
    BY <2>1, <2>2 DEF HasNext
<1>8. \A c \in Crates : \/ poll.atStart[c] = 0 \/ Tells(poll.got, c, poll.atStart[c])
                        \/ Ahead(n, c, poll.atStart[c])
  BY <1>1 DEF PollInv
<1>9. \A c \in Crates : \/ poll.atStart[c] = 0 \/ Tells(poll'.got, c, poll.atStart[c])
                        \/ HasNext(n) /\ Ahead(n + 1, c, poll.atStart[c])
  BY <1>5, <1>6, <1>8
<1> HIDE DEF n
<1>10. CASE another
  <2>1. \A c \in Crates : Ahead(n + 1, c, poll.atStart[c]) =>
          Ahead(poll.page, c, poll.atStart[c])'
    BY <1>1, <1>4 DEF Ahead, Before
  <2>2. n + 1 <= MAX_PAGES
    BY <1>2, <1>10
  <2>3. poll'.at = "page"
    BY <1>4, <1>10 DEF next
  <2>4. \A c \in Crates : \/ poll'.atStart[c] = 0 \/ Tells(poll'.got, c, poll'.atStart[c])
                          \/ Ahead(poll.page, c, poll.atStart[c])'
    BY <1>4, <1>9, <2>1
  <2>q. QED
    BY <1>1, <1>4, <2>2, <2>3, <2>4 DEF PollInv, ListTyped, Tells
<1>11. CASE ~another
  <2>1. Len(releases) > MAX_PAGES * PerPage \/ ~HasNext(n)
    BY <1>7, <1>11
  <2>2. poll'.at = "set"
    BY <1>4, <1>11 DEF next
  <2>q. QED
    BY <1>1, <1>4, <1>9, <2>1, <2>2 DEF PollInv, ListTyped, Tells
<1>q. QED
  BY <1>10, <1>11

\* The invariant of the check is inductive.
LEMMA PollNext ==
  ASSUME PollInv, [UpdatesNext]_updVars
  PROVE  PollInv'
<1>1. CASE Publish
  BY <1>1, PublishKeeps
<1>2. CASE StartPoll
  BY <1>2, StartPollKeeps
<1>3. CASE FetchPage
  BY <1>3, FetchPageKeeps
<1>4. CASE FailPage \/ SetNewest
  BY <1>4 DEF FailPage, SetNewest, PollOnly, PollInv, ListTyped, NoPoll
<1>5. CASE UNCHANGED <<releases, poll>>
  BY <1>5 DEF PollInv, ListTyped, Tells, Ahead, Before
<1>q. QED
  BY <1>1, <1>2, <1>3, <1>4, <1>5
     DEF UpdatesNext, updVars, RunUpdate, FetchTag, FetchLatest, Download, TryBinary, StartCopy,
         EndCopy, SwapBinary, SudoInstall, RestartService, UpdaterEnds, UpdaterOnly

\* Only a check that came to an end tells the fleet anything.
LEMMA ChecksTell ==
  ASSUME PollInv, [UpdatesNext]_updVars
  PROVE  ChecksKeepUp
<1> SUFFICES ASSUME latestSeen' # latestSeen, Len(releases) <= MAX_PAGES * PerPage,
                    NEW c \in Crates, NEW v \in ReleaseVersions,
                    poll.at # "sleep", poll.atStart[c] > v
             PROVE  Outdated(c, v)'
  BY DEF ChecksKeepUp
<1>1. SetNewest
  BY DEF UpdatesNext, updVars, RunUpdate, FetchTag, FetchLatest, Download, TryBinary, StartCopy,
         EndCopy, SwapBinary, SudoInstall, RestartService, UpdaterEnds, UpdaterOnly, Publish,
         StartPoll, FetchPage, FailPage, OnFailure
<1>2. poll.at = "set" /\ latestSeen' = NewestOf(poll.got) /\ poll \in PollRecords
  BY <1>1 DEF SetNewest, PollInv, NoPoll
<1> DEFINE s == poll.atStart[c]
<1>3. /\ poll.got \in Seq(Releases) /\ s \in 0 .. MaxRelease /\ releases \in Seq(Releases)
      /\ v \in Nat /\ v >= 1 /\ MAX_PAGES * PerPage \in Nat /\ MaxRelease \in Nat
  BY <1>2, UpdateBounds DEF PollRecords, PollInv, ListTyped, ReleaseVersions
<1>4. s = 0 \/ Tells(poll.got, c, s)
  <2>1. Len(releases) > MAX_PAGES * PerPage \/ s = 0 \/ Tells(poll.got, c, s)
    BY <1>2 DEF PollInv
  <2>2. Len(releases) \in Nat
    BY <1>3
  <2>q. QED
    BY <1>3, <2>1, <2>2
<1> HIDE DEF s
<1>5. s > v
  BY DEF s
<1>6. Tells(poll.got, c, s) /\ s \in ReleaseVersions
  BY <1>3, <1>4, <1>5 DEF ReleaseVersions
<1>7. s <= NewestOf(poll.got)[c] /\ NewestOf(poll.got)[c] \in 0 .. MaxRelease
  BY <1>3, <1>6, NewestTold
<1>8. NewestOf(poll.got)[c] > v
  BY <1>3, <1>5, <1>7
<1>q. QED
  BY <1>2, <1>8 DEF Outdated

-----------------------------------------------------------------------------
(* The update command. *)

\* Before the new binary is in place, and from then on.
Carrying == {"download", "try", "copy", "copying", "rename", "sudo"}
InPlace == {"sudoing", "restart"}

UpdaterInv ==
  /\ ListTyped
  /\ binary \in [version : Nat, whole : BOOLEAN]
  /\ updater.at \in {"none", "latest", "tag"} \cup Carrying \cup InPlace
  /\ updater.at = "latest" =>
       updater \in [at : {"latest"}, page : Nat \ {0}, current : {binary.version}, pinned : {FALSE}]
  /\ updater.at = "tag" => updater.pinned = TRUE
  /\ updater.at \in Carrying \cup InPlace =>
       updater \in [at : Carrying \cup InPlace, version : Nat, pinned : BOOLEAN, good : BOOLEAN]
  /\ updater.at \in Carrying => updater.pinned \/ updater.version > binary.version
  /\ updater.at = "sudoing" => binary.version = updater.version
  /\ updater.at = "rename" => staged = Build(updater.version, TRUE)

\* No update has begun.
LEMMA UpdaterStarts == UpdatesInit => UpdaterInv
  BY DEF UpdatesInit, UpdaterInv, ListTyped, Build, NoUpdater, Carrying, InPlace

\* The latest release is installed only over an older one.
LEMMA FetchLatestKeeps ==
  ASSUME UpdaterInv, FetchLatest
  PROVE  UpdaterInv'
<1> DEFINE found == VersionsOf(Page(updater.page), "tart")
<1>1. /\ updater.at = "latest" /\ updater.page \in Nat \ {0} /\ updater.current = binary.version
      /\ updater \in [at : {"latest"}, page : Nat \ {0}, current : {binary.version},
                      pinned : {FALSE}]
      /\ releases \in Seq(Releases) /\ binary \in [version : Nat, whole : BOOLEAN]
      /\ UNCHANGED <<releases, binary, staged>>
  BY DEF UpdaterInv, ListTyped, FetchLatest, UpdaterOnly, UpdateFiles
<1>2. found \in SUBSET (0 .. MaxRelease) /\ MaxRelease \in Nat
  BY <1>1, PageHolds, VersionsTold, UpdateBounds DEF ReleaseVersions, Crates
<1>3. found # {} => Max(found) \in found
  BY <1>2, MaxThere
<1>4. found # {} => Max(found) \in Nat
  BY <1>2, <1>3
<1>5. \/ found # {} /\ Max(found) > binary.version /\ updater' = Chosen(Max(found))
      \/ updater' = [updater EXCEPT !.page = @ + 1]
      \/ updater' = NoUpdater
  BY <1>1 DEF FetchLatest, IsNewer
<1> HIDE DEF found
<1>6. CASE found # {} /\ Max(found) > binary.version /\ updater' = Chosen(Max(found))
  <2>1. updater' = [at |-> "download", version |-> Max(found), pinned |-> FALSE, good |-> TRUE]
    BY <1>1, <1>6 DEF Chosen
  <2>q. QED
    BY <1>1, <1>4, <1>6, <2>1 DEF UpdaterInv, ListTyped, Carrying, InPlace
<1>7. CASE updater' = [updater EXCEPT !.page = @ + 1]
  <2>1. updater.page + 1 \in Nat \ {0}
    BY <1>1
  <2>2. /\ updater' \in [at : {"latest"}, page : Nat \ {0}, current : {binary.version},
                         pinned : {FALSE}]
        /\ updater'.at = "latest"
    BY <1>1, <1>7, <2>1
  <2>q. QED
    BY <1>1, <2>2 DEF UpdaterInv, ListTyped, Carrying, InPlace
<1>8. CASE updater' = NoUpdater
  BY <1>1, <1>8 DEF UpdaterInv, ListTyped, NoUpdater, Carrying, InPlace
<1>q. QED
  BY <1>5, <1>6, <1>7, <1>8

\* The invariant of the update is inductive.
LEMMA UpdaterNext ==
  ASSUME UpdaterInv, [UpdatesNext]_updVars
  PROVE  UpdaterInv'
<1>1. CASE Publish
  <2>1. releases' \in Seq(Releases)
    BY <1>1 DEF Publish, UpdaterInv, ListTyped, Releases
  <2>q. QED
    BY <1>1, <2>1 DEF Publish, UpdaterInv, ListTyped, Carrying, InPlace
<1>2. CASE StartPoll \/ FetchPage \/ FailPage \/ SetNewest
  BY <1>2 DEF StartPoll, FetchPage, FailPage, SetNewest, PollOnly, UpdaterInv, ListTyped
<1>3. CASE RunUpdate
  <2>1. /\ UNCHANGED <<releases, binary, staged>>
        /\ \/ updater' = [at |-> "latest", page |-> 1, current |-> binary.version, pinned |-> FALSE]
           \/ updater' = [at |-> "tag", current |-> binary.version, pinned |-> TRUE]
    BY <1>3 DEF RunUpdate, UpdaterOnly, UpdateFiles
  <2>2. CASE updater' = [at |-> "latest", page |-> 1, current |-> binary.version, pinned |-> FALSE]
    <3>1. /\ updater'.at = "latest"
          /\ updater' \in [at : {"latest"}, page : Nat \ {0}, current : {binary.version},
                           pinned : {FALSE}]
      BY <2>2
    <3>q. QED
      BY <2>1, <3>1 DEF UpdaterInv, ListTyped, Carrying, InPlace
  <2>3. CASE updater' = [at |-> "tag", current |-> binary.version, pinned |-> TRUE]
    BY <2>1, <2>3 DEF UpdaterInv, ListTyped, Carrying, InPlace
  <2>q. QED
    BY <2>1, <2>2, <2>3
<1>4. CASE FetchTag
  <2>1. PICK i \in DOMAIN releases : updater' = Chosen(releases[i].version)
    BY <1>4 DEF FetchTag
  <2>2. /\ updater.at = "tag" /\ updater.pinned = TRUE /\ releases[i].version \in Nat
        /\ UNCHANGED <<releases, binary, staged>>
    <3>1. releases[i] \in Releases
      BY DEF UpdaterInv, ListTyped
    <3>q. QED
      BY <1>4, <3>1 DEF FetchTag, UpdaterInv, Releases, ReleaseVersions, UpdaterOnly, UpdateFiles
  <2>3. updater' = [at |-> "download", version |-> releases[i].version, pinned |-> TRUE,
                    good |-> TRUE]
    BY <2>1, <2>2 DEF Chosen
  <2>q. QED
    BY <2>2, <2>3 DEF UpdaterInv, ListTyped, Carrying, InPlace
<1>5. CASE FetchLatest
  BY <1>5, FetchLatestKeeps
<1>6. CASE Download \/ TryBinary
  <2>1. /\ updater.at \in {"download", "try"} /\ UNCHANGED <<releases, binary, staged>>
        /\ \/ updater' = NoUpdater \/ updater' = [updater EXCEPT !.at = "copy"]
           \/ \E good \in BOOLEAN : updater' = [updater EXCEPT !.at = "try", !.good = good]
    BY <1>6 DEF Download, TryBinary, UpdaterOnly, UpdateFiles
  <2>2. CASE updater' = NoUpdater
    BY <2>1, <2>2 DEF UpdaterInv, ListTyped, NoUpdater, Carrying, InPlace
  <2>3. CASE updater' = [updater EXCEPT !.at = "copy"]
    BY <2>1, <2>3 DEF UpdaterInv, ListTyped, Carrying, InPlace
  <2>4. ASSUME NEW good \in BOOLEAN, updater' = [updater EXCEPT !.at = "try", !.good = good]
        PROVE  UpdaterInv'
    BY <2>1, <2>4 DEF UpdaterInv, ListTyped, Carrying, InPlace
  <2>q. QED
    BY <2>1, <2>2, <2>3, <2>4
<1>7. CASE StartCopy
  <2>1. /\ updater.at = "copy" /\ UNCHANGED <<releases, binary>>
        /\ updater' \in {[updater EXCEPT !.at = "copying"], [updater EXCEPT !.at = "sudo"]}
    BY <1>7 DEF StartCopy, UpdaterOnly
  <2>q. QED
    BY <2>1 DEF UpdaterInv, ListTyped, Carrying, InPlace
<1>8. CASE EndCopy
  BY <1>8 DEF EndCopy, NewBuild, UpdaterOnly, UpdaterInv, ListTyped, Carrying, InPlace
<1>9. CASE SwapBinary
  <2>1. /\ updater.at = "rename" /\ UNCHANGED releases
        /\ updater' = [updater EXCEPT !.at = "restart"]
        /\ binary' = [version |-> updater.version, whole |-> TRUE]
    BY <1>9 DEF SwapBinary, Build, UpdaterOnly, UpdaterInv
  <2>q. QED
    BY <2>1 DEF UpdaterInv, ListTyped, Carrying, InPlace
<1>10. CASE SudoInstall
  <2>1. PICK whole \in BOOLEAN :
          /\ UNCHANGED releases /\ binary' = [version |-> updater.version, whole |-> whole]
          /\ \/ updater.at = "sudo" /\ updater' = [updater EXCEPT !.at = "sudoing"]
             \/ updater.at = "sudoing" /\ updater' = [updater EXCEPT !.at = "restart"]
    BY <1>10 DEF SudoInstall, NewBuild, Build, UpdaterOnly
  <2>q. QED
    BY <2>1 DEF UpdaterInv, ListTyped, Carrying, InPlace
<1>11. CASE RestartService \/ UpdaterEnds
  <2>1. updater' = NoUpdater /\ UNCHANGED <<releases, binary, staged>>
    BY <1>11 DEF RestartService, UpdaterEnds, UpdateFiles, UpdaterOnly
  <2>q. QED
    BY <2>1 DEF UpdaterInv, ListTyped, NoUpdater, Carrying, InPlace
<1>12. CASE UNCHANGED updVars
  BY <1>12 DEF updVars, UpdaterInv, ListTyped
<1>q. QED
  BY <1>1, <1>2, <1>3, <1>4, <1>5, <1>6, <1>7, <1>8, <1>9, <1>10, <1>11, <1>12
     DEF UpdatesNext

\* The binary is replaced by a whole one, and by an older one only when that was asked for.
LEMMA BinarySafe ==
  ASSUME UpdaterInv, [UpdatesNext]_updVars
  PROVE  BinarySound
<1>1. CASE SwapBinary
  BY <1>1 DEF SwapBinary, Build, UpdaterInv, Carrying, InPlace, BinarySound
<1>2. CASE SudoInstall
  BY <1>2 DEF SudoInstall, NewBuild, Build, UpdaterInv, Carrying, InPlace, BinarySound
<1>3. CASE UNCHANGED binary
  BY <1>3 DEF UpdaterInv, BinarySound
<1>q. QED
  BY <1>1, <1>2, <1>3
     DEF UpdatesNext, updVars, RunUpdate, FetchTag, FetchLatest, Download, TryBinary, StartCopy,
         EndCopy, RestartService, UpdaterEnds, UpdaterOnly, UpdateFiles, Publish, StartPoll,
         FetchPage, FailPage, SetNewest, PollOnly

\* UpdatesSafe: a check that ends knows of every release there was when it began, however many are
\* published while it reads; and an update never leaves the host without a binary that runs, but
\* for sudo's install, nor takes it back to an older one unasked.
THEOREM UpdatesHeld == UpdatesSpec => UpdatesSafe
<1>1. UpdatesInit => PollInv /\ UpdaterInv
  BY PollStarts, UpdaterStarts
<1>2. PollInv /\ UpdaterInv /\ [UpdatesNext]_updVars => (PollInv /\ UpdaterInv)'
  BY PollNext, UpdaterNext
<1>3. PollInv /\ UpdaterInv /\ [UpdatesNext]_updVars => [ChecksKeepUp /\ BinarySound]_updVars
  BY ChecksTell, BinarySafe
<1>q. QED
  BY <1>1, <1>2, <1>3, PTL DEF UpdatesSpec, UpdatesSafe
=============================================================================
