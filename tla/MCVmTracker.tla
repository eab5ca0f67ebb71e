---------------------------- MODULE MCVmTracker ----------------------------
(* VmTracker on a host with a macOS limit inside a total one. *)
EXTENDS VmTracker, TLC

CONSTANTS n1, n2

MCMax == [l \in Limits |-> IF l = "macos" THEN 1 ELSE 2]
\* No image's OS is known before its VM is created: it counts as macOS till then.
MCAsked == [n \in Names |-> Limits]
MCGuests == {{"total"}, Limits}

Symmetry == Permutations(Names)
=============================================================================
