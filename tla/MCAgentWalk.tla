----------------------------- MODULE MCAgentWalk -----------------------------
(* Instances of AgentWalk for TLC. *)
EXTENDS AgentWalk, TLC

\* PIDs and users are only compared for equality.
Symmetric == Permutations(Pids) \cup Permutations(Users)
==============================================================================
