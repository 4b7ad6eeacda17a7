-------------------------- MODULE MC_MissionPlanGate --------------------------
(* Instances of MissionPlanGate for TLC. *)
EXTENDS MissionPlanGate, TLC

CONSTANTS p1, p2, c1, c2, agent, person

\* Plans, callers and identities are told apart by equality only.
Symmetry == Permutations(Plans) \cup Permutations(Callers) \cup Permutations(People)
=============================================================================
