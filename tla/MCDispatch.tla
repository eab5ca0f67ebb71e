----------------------------- MODULE MCDispatch -----------------------------
(* Dispatch on small instances: every agent can serve every job. *)
EXTENDS Dispatch, TLC

MCServes == [j \in Jobs |-> Agents]
Symmetry == Permutations(Runners) \cup Permutations(Agents)

\* What is left of a name that nothing mentions any more is never read.
MCView ==
  LET known == [r \in Runners |-> IF Fresh(r) THEN <<None, None>> ELSE <<jobOf[r], host[r]>>]
  IN  <<forgeStatus, queueVars, recorded, known, online, slotVars, task, cleaner, agentVars,
        deathVars, chanVars, idleVars, fleetVars, faults>>
=============================================================================
