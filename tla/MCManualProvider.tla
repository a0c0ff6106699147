-------------------------- MODULE MCManualProvider --------------------------
(* Instances of ManualProvider for TLC. *)
EXTENDS ManualProvider, TLC

\* Calls, IDs, session IDs and turns are only compared for equality.
Symmetric == Permutations(Calls) \cup Permutations(Ids)
             \cup Permutations(SessionIds) \cup Permutations(Turns)
=============================================================================
