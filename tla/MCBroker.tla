------------------------------- MODULE MCBroker -------------------------------
(* Instances of Broker for TLC. *)
EXTENDS Broker, TLC

\* What a provider that is no ManualProvider may answer: each kind of approval, a
\* refusal, and answers that Decision.Validate rejects.
AnyAnswer ==
    [outcome : {"approved"}, scope : {"command", "message", "session"}, approver : Approvers]
    \cup [outcome : {"approved"}, scope : {"session"}, approver : {NoApprover}]
    \cup [outcome : {"denied"}, scope : {"command", "session"}, approver : {NoApprover}]

NoAnswer == {}

\* Processes, session IDs, requests and approvers are only compared for equality.
Symmetric ==
    Permutations(Procs) \cup Permutations(SessionIds)
    \cup Permutations(Reqs) \cup Permutations(Approvers)
===============================================================================
