--------------------------- MODULE BrokerRevocation ---------------------------
(***************************************************************************)
(* Broker with one more history variable: which approvals an approver has  *)
(* withdrawn by revoking the lease that stands for them.                   *)
(***************************************************************************)
EXTENDS Broker

VARIABLE withdrawn

\* The approvals a lease may stand for.
Behind(l) ==
    {a \in approvals : /\ Key(a) = Key(l)
                       /\ a.scope = l.scope
                       /\ a.approver = l.approver
                       /\ a.scope = "message" => a.turn = l.turn}

InitRevocation == Init /\ withdrawn = {}

NextRevocation ==
    \/ (Environment \/ Lifecycle \/ Request \/ Review) /\ UNCHANGED withdrawn
    \/ \E l \in leases : Revoke(l) /\ withdrawn' = withdrawn \cup Behind(l)

SpecRevocation == InitRevocation /\ [][NextRevocation]_<<vars, withdrawn>>

\* "Message approval ends when ... it is revoked", "Session approval ends on ...
\* revocation": once the lease of an approval is revoked, no lease stands for
\* that approval again; only a new approval makes a new one.
RevocationFinal == \A l \in leases : Behind(l) \ withdrawn # {}
===============================================================================
