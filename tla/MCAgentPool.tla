----------------------------- MODULE MCAgentPool -----------------------------
(* AgentPool for TLC: agents and tasks are interchangeable.                *)
EXTENDS AgentPool, TLC

Symmetry == Permutations(Agents) \cup Permutations(Tasks)
=============================================================================
