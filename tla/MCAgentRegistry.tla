-------------------------- MODULE MCAgentRegistry --------------------------
(* AgentRegistry for TLC.                                                  *)
EXTENDS AgentRegistry, TLC

\* Administrators are interchangeable, and so are agents.
Symmetry == Permutations(Admins) \cup Permutations(Agents)

=============================================================================
