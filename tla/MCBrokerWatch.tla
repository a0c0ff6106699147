---------------------------- MODULE MCBrokerWatch ----------------------------
(* Instances of BrokerWatch for TLC. *)
EXTENDS BrokerWatch, TLC

\* Requests, session IDs, approvers and watchers are only compared for equality.
Symmetric == Permutations(Reqs) \cup Permutations(Watchers)
==============================================================================
