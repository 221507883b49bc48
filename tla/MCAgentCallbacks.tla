-------------------------- MODULE MCAgentCallbacks --------------------------
(* Symmetry of the small instances of AgentCallbacks.                      *)
EXTENDS AgentCallbacks, TLC

Symm == Permutations(Threads)
=============================================================================
