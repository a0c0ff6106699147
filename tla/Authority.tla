------------------------------ MODULE Authority ------------------------------
(***************************************************************************)
(* What the broker promises, without goroutines, queues, caches or clocks  *)
(* (THREAT_MODEL.md, "Security invariants"; README.md, "Approval scopes"): *)
(*                                                                         *)
(*   - authority comes only from an approver's decision, given for the     *)
(*     turn or session that is current at that moment;                     *)
(*   - it never outlives that turn or session, and may lapse earlier       *)
(*     (TTL, revocation, restart);                                         *)
(*   - a request obtains the right to run only in its own active turn and  *)
(*     only from an authority in force that covers it.                     *)
(*                                                                         *)
(* Module Broker implements it.                                            *)
(***************************************************************************)
CONSTANTS Reqs, NoRequest

VARIABLES
    contexts,   \* state and turn of each process and session ID, as reported
    request,    \* the turn each request was admitted in
    authority,  \* the grants in force
    running     \* requests that have obtained the right to run

vars == <<contexts, request, authority, running>>

ContextOf(x) == <<x.process, x.session>>

InTurn(x, cs) == cs[ContextOf(x)].state = "active" /\ cs[ContextOf(x)].turn = x.turn

\* Where a grant is good: a session grant as long as its session is known, any
\* other in its turn.
InForce(g, cs) ==
    IF g.scope = "session" THEN cs[ContextOf(g)].state # "absent" ELSE InTurn(g, cs)

GrantCovers(g, q) ==
    /\ ContextOf(g) = ContextOf(q)
    /\ g.scope = "message" => g.turn = q.turn
    /\ g.scope = "command" => g.id = q.id

-----------------------------------------------------------------------------
Init ==
    /\ authority = {}
    /\ running = {}
    /\ request = [r \in Reqs |-> NoRequest]

\* Contexts come and go as the integration reports them.  A request is admitted
\* once, in the active turn.
Admissions ==
    \A r \in Reqs : \/ request'[r] = request[r]
                    \/ request[r] = NoRequest /\ InTurn(request'[r], contexts')

\* At most the grants G remain, and only those still in force.
Keep(G) == authority' \subseteq G /\ \A g \in authority' : InForce(g, contexts')

Lapse == Keep(authority) /\ running' \subseteq running /\ Admissions

Approve ==
    /\ \E g \in authority' : Keep(authority \cup {g})
    /\ running' \subseteq running
    /\ Admissions

Run(r) ==
    /\ r \notin running
    /\ running' = running \cup {r}
    /\ Admissions
    /\ InTurn(request'[r], contexts')
    /\ \E g \in authority : GrantCovers(g, request'[r])
    /\ Keep(authority)

Next == Lapse \/ Approve \/ \E r \in Reqs : Run(r)

Spec == Init /\ [][Next]_vars
=============================================================================
