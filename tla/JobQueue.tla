------------------------------ MODULE JobQueue ------------------------------
(***************************************************************************)
(* What dispatch promises about the jobs of the forges, however commands,  *)
(* agents, events and restarts get in its way: a job is tried on one       *)
(* runner at a time, a try is charged to it once at a step, and as long as *)
(* it is queued its entry goes only when its tries are used up.            *)
(***************************************************************************)
EXTENDS Naturals

CONSTANTS
  Ids,     \* jobs
  Names,   \* runner names
  Tries    \* how often a job is tried

VARIABLES
  forge,   \* [Ids -> STRING]: the job on its forge
  entries, \* jobs with an entry in the queue
  tried,   \* [Ids -> Nat]: tries charged to the entry
  runner,  \* [Ids -> SUBSET Names]: the runner there is for the job
  spent    \* jobs whose tries are used up and whose entry somebody is about to remove

vars == <<forge, entries, tried, runner, spent>>

Init ==
  /\ forge = [j \in Ids |-> "none"]
  /\ entries = {} /\ tried = [j \in Ids |-> 0]
  /\ runner = [j \in Ids |-> {}] /\ spent = {}

\* A job comes up on its forge, and is heard of or not.
Appear(j) ==
  /\ forge[j] = "none" /\ j \notin entries
  /\ forge' = [forge EXCEPT ![j] = "queued"]
  /\ entries' \in {entries, entries \cup {j}}
  /\ UNCHANGED <<tried, runner, spent>>

\* It gets a runner there, or ends.
Advance(j) ==
  /\ \/ forge[j] = "queued" /\ forge' = [forge EXCEPT ![j] = "running"]
     \/ forge[j] \in {"queued", "running"} /\ forge' = [forge EXCEPT ![j] = "done"]
  /\ UNCHANGED <<entries, tried, runner, spent>>

\* An entry goes with its tries.
Without(S) ==
  /\ entries' = entries \ S
  /\ tried' = [j \in Ids |-> IF j \in S THEN 0 ELSE tried[j]]

\* The forges are asked: jobs that are no longer queued go, and queued ones without a runner come.
Sweep(gone, found) ==
  /\ gone \subseteq entries /\ \A j \in gone : forge[j] # "queued"
  /\ found \cap entries = {} /\ \A j \in found : forge[j] = "queued" /\ runner[j] = {}
  /\ entries' = (entries \ gone) \cup found
  /\ tried' = [j \in Ids |-> IF j \in gone \cup found THEN 0 ELSE tried[j]]
  /\ UNCHANGED <<forge, runner, spent>>

\* A job is no longer queued, or its last try is charged.
Drop(j) ==
  /\ j \in entries
  /\ forge[j] # "queued" \/ tried[j] + 1 >= Tries
  /\ Without({j})
  /\ UNCHANGED <<forge, runner, spent>>

\* A try is charged; who charges the last may take the entry away later.
Charge(j) ==
  /\ j \in entries
  /\ tried' = [tried EXCEPT ![j] = @ + 1]
  /\ IF tried[j] + 1 >= Tries THEN spent' = spent \cup {j} ELSE spent' = spent
  /\ UNCHANGED <<forge, entries, runner>>

\* It takes away the entry there is by then.
GiveUp(j) ==
  /\ j \in spent /\ spent' \in {spent, spent \ {j}}
  /\ Without({j})
  /\ UNCHANGED <<forge, runner>>

\* Or is stopped before.
Forget == spent' \subseteq spent /\ UNCHANGED <<forge, entries, tried, runner>>

\* A job without a runner gets one that is nobody else's.
Assign(j, r) ==
  /\ runner[j] = {} /\ \A k \in Ids : r \notin runner[k]
  /\ runner' = [runner EXCEPT ![j] = {r}]
  /\ UNCHANGED <<forge, entries, tried, spent>>

\* And loses it.
Release(j) ==
  /\ runner[j] # {} /\ runner' = [runner EXCEPT ![j] = {}]
  /\ UNCHANGED <<forge, entries, tried, spent>>

Next ==
  \/ Forget
  \/ \E gone, found \in SUBSET Ids : Sweep(gone, found)
  \/ \E j \in Ids : \/ Appear(j) \/ Advance(j) \/ Drop(j) \/ Charge(j) \/ GiveUp(j) \/ Release(j)
                    \/ \E r \in Names : Assign(j, r)

Spec == Init /\ [][Next]_vars
=============================================================================
