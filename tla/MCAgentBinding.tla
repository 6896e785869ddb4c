--------------------------- MODULE MCAgentBinding ---------------------------
(* Model values for the checks of AgentBinding.                            *)
EXTENDS AgentBinding, TLC

CONSTANTS c1, c2, t1, t2, a1, q1

\* The record files: a hash per agent and secret.
MCKeys == Agents \X (1..MaxSecret)

\* Sound: no property tells a client, or a tenant, from another.
Symmetry == Permutations(Clients) \cup Permutations(Tenants)
=============================================================================
