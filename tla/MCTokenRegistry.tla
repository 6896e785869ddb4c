-------------------------- MODULE MCTokenRegistry --------------------------
(* Model values for the checks of TokenRegistry.                           *)
EXTENDS TokenRegistry, TLC

CONSTANTS c1, c2, a1, a2, s1, k1

\* Sound: no property tells a command, or an agent, from another.
Symmetry == Permutations(Commands) \cup Permutations(AgentBindings)
=============================================================================
