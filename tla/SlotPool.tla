------------------------------ MODULE SlotPool ------------------------------
(***************************************************************************)
(* What an agent's VM tracker promises, whoever creates and destroys VMs:  *)
(* a VM is on the host only while its runner holds a slot, a runner gets a *)
(* slot once, and slots are handed out only while every limit they count   *)
(* against has room.                                                       *)
(***************************************************************************)
EXTENDS Naturals, FiniteSets

CONSTANTS
  Names,   \* runner names
  Limits,  \* names of the host-wide limits
  Max      \* [Limits -> Nat]

VARIABLES
  held,    \* names that hold a slot
  counted, \* [Names -> SUBSET Limits]: the limits a holder counts against
  past,    \* names that had a slot and gave it back
  vms      \* names whose VM is on the host

vars == <<held, counted, past, vms>>

Init == held = {} /\ counted = [n \in Names |-> {}] /\ past = {} /\ vms = {}

Used(l) == Cardinality({n \in held : l \in counted[n]})

Take(n, limits) ==
  /\ n \notin held \cup past
  /\ limits \subseteq Limits /\ \A l \in limits : Used(l) < Max[l]
  /\ held' = held \cup {n}
  /\ counted' = [counted EXCEPT ![n] = limits]
  /\ UNCHANGED <<past, vms>>

\* A holder turns out to count against fewer limits.
Narrow(n, limits) ==
  /\ n \in held /\ limits \subseteq counted[n]
  /\ counted' = [counted EXCEPT ![n] = limits]
  /\ UNCHANGED <<held, past, vms>>

Create(n) == n \in held /\ vms' = vms \cup {n} /\ UNCHANGED <<held, counted, past>>

Destroy(n) == vms' = vms \ {n} /\ UNCHANGED <<held, counted, past>>

Free(n) ==
  /\ n \in held \ vms
  /\ held' = held \ {n} /\ past' = past \cup {n}
  /\ UNCHANGED <<counted, vms>>

Next ==
  \E n \in Names :
    \/ Create(n) \/ Destroy(n) \/ Free(n)
    \/ \E limits \in SUBSET Limits : Take(n, limits) \/ Narrow(n, limits)

Spec == Init /\ [][Next]_vars
=============================================================================
