--------------------------- MODULE ManualProvider ---------------------------
(***************************************************************************)
(* approval.ManualProvider (internal/approval/provider.go): the queue in   *)
(* which requests wait for a local human.                                  *)
(*                                                                         *)
(* Every call of Decide runs in a goroutine of its own; p.mu makes each of *)
(* the sections it guards one atomic step, and the select between them is  *)
(* where calls, reviewers and contexts interleave.  The module is used in  *)
(* two ways: on its own, with an environment that makes calls and ends     *)
(* contexts at will, and as the queue of module Broker, which INSTANCEs it *)
(* and whose request handlers are the calls.                               *)
(***************************************************************************)
EXTENDS Naturals, FiniteSets

CONSTANTS
    Calls,        \* goroutines that run Decide
    Ids,          \* request IDs
    Procs,        \* agent processes (proc.Identity)
    SessionIds,   \* integration session IDs
    Turns,        \* turn numbers the environment uses
    Approvers,    \* approver UIDs
    NoApprover,   \* Decision without Provider and Principal
    NoRequest     \* a call that was never made

VARIABLES
    call,      \* call[c]: "idle", "entered", "waiting" (in the select), "returned"
    request,   \* request[c]: the Request passed to Decide
    ctx,       \* ctx[c]: "none", "live", "canceled" or "deadline" (ctx.Err())
    pending,   \* p.pending: the calls whose item is in the map
    decision   \* decision[c]: item.decision, and the value Decide returns

vars == <<call, request, ctx, pending, decision>>

Scopes == {"command", "message", "session"}
Outcomes == {"approved", "denied", "expired", "cancelled"}

Undecided == [outcome |-> "", scope |-> "", approver |-> NoApprover]

\* Fault: the text of ctx.Err() becomes the outcome.
EndedByText(state) == [Undecided EXCEPT !.outcome = state]

\* Decision{Outcome: outcome} of a context that ended: Expired if its deadline
\* passed, Cancelled otherwise.
Ended(state) ==
    [Undecided EXCEPT !.outcome = IF state = "deadline" THEN "expired" ELSE "cancelled"]

Open(c) == decision[c].outcome = ""

-----------------------------------------------------------------------------
(* The sections p.mu guards, as functions of the state they read.  ctxs is *)
(* the state of the contexts at that moment: a caller that cancels some of *)
(* them in the same step passes the new one.                               *)

\* Fault: a decision is overwritten.
FinishOverwriting(decisions, C, d) ==
    [c \in Calls |-> IF c \in C THEN d ELSE decisions[c]]

\* finishLocked on every item of C: it never overwrites a decision.
Finish(decisions, C, d) ==
    [c \in Calls |-> IF c \in C /\ decisions[c].outcome = "" THEN d ELSE decisions[c]]

\* pruneLocked: an open item whose context has ended takes the outcome of that.
Pruned(ctxs) ==
    [c \in Calls |-> IF c \in pending /\ Open(c) /\ ctxs[c] # "live"
                     THEN Ended(ctxs[c]) ELSE decision[c]]

\* The item Review finds for an ID: in the map, still open after pruning.
Reviewable(c, ctxs) == c \in pending /\ Pruned(ctxs)[c].outcome = ""

\* A denial always has command scope.
ReviewDecision(outcome, scope, approver) ==
    [outcome |-> outcome, scope |-> IF outcome = "denied" THEN "command" ELSE scope,
     approver |-> approver]

SameSession(q1, q2) == q1.process = q2.process /\ q1.session = q2.session

\* Fault: a message approval resolves the requests of other turns too.
ResolvedAcrossTurns(target, d) ==
    IF d.outcome = "approved" /\ d.scope # "command"
    THEN {c \in pending : SameSession(request[c], request[target])}
    ELSE {target}

\* Which items a review of target resolves: an approval for the message or the
\* session resolves every item of that turn or session.
Resolved(target, d) ==
    IF d.outcome = "approved" /\ d.scope # "command"
    THEN {c \in pending : /\ SameSession(request[c], request[target])
                          /\ d.scope = "session" \/ request[c].turn = request[target].turn}
    ELSE {target}

\* Fault: the group is resolved without pruning it first.
ReviewedUnpruned(target, d, ctxs) == Finish(decision, Resolved(target, d), d)

\* Review of target, after pruning.
Reviewed(target, d, ctxs) == Finish(Pruned(ctxs), Resolved(target, d), d)

-----------------------------------------------------------------------------
TypeOK ==
    /\ call \in [Calls -> {"idle", "entered", "waiting", "returned"}]
    /\ request \in [Calls -> [id : Ids, process : Procs, session : SessionIds, turn : Turns]
                             \cup {NoRequest}]
    /\ ctx \in [Calls -> {"none", "live", "canceled", "deadline"}]
    /\ pending \subseteq Calls
    /\ decision \in [Calls -> [outcome : Outcomes \cup {""}, scope : Scopes \cup {""},
                               approver : Approvers \cup {NoApprover}]]

Init ==
    /\ call = [c \in Calls |-> "idle"]
    /\ request = [c \in Calls |-> NoRequest]
    /\ ctx = [c \in Calls |-> "none"]
    /\ pending = {}
    /\ decision = [c \in Calls |-> Undecided]

\* The environment calls Decide; the context may end at any time from here on.
Call(c, q) ==
    /\ call[c] = "idle"
    /\ call' = [call EXCEPT ![c] = "entered"]
    /\ request' = [request EXCEPT ![c] = q]
    /\ ctx' = [ctx EXCEPT ![c] = "live"]
    /\ UNCHANGED <<pending, decision>>

ContextEnds(c) ==
    /\ ctx[c] = "live"
    /\ \E reason \in {"canceled", "deadline"} : ctx' = [ctx EXCEPT ![c] = reason]
    /\ UNCHANGED <<call, request, pending, decision>>

\* Fault: an ID whose item is decided but not collected counts as free.
DuplicateOpenId(c) == \E d \in pending : request[d].id = request[c].id /\ Open(d)

DuplicateId(c) == \E d \in pending : request[d].id = request[c].id

\* Decide, first section: a new ID enters the map.
Register(c) ==
    /\ call[c] = "entered"
    /\ ~DuplicateId(c)
    /\ pending' = pending \cup {c}
    /\ call' = [call EXCEPT ![c] = "waiting"]
    /\ UNCHANGED <<request, ctx, decision>>

\* Decide, first section: an ID that is already queued is cancelled at once.
RefuseDuplicate(c) ==
    /\ call[c] = "entered"
    /\ DuplicateId(c)
    /\ decision' = [decision EXCEPT ![c] = Ended("canceled")]
    /\ call' = [call EXCEPT ![c] = "returned"]
    /\ UNCHANGED <<request, ctx, pending>>

\* Fault: the select's ctx.Done() case does not look whether the item was decided.
FinishDecidedOnContext(c) ==
    /\ call[c] = "waiting"
    /\ ctx[c] # "live"
    /\ decision' = [decision EXCEPT ![c] = Ended(ctx[c])]
    /\ UNCHANGED <<call, request, ctx, pending>>

\* Fault: only the deadline wakes the call.
FinishOnDeadline(c) ==
    /\ call[c] = "waiting"
    /\ Open(c)
    /\ ctx[c] = "deadline"
    /\ decision' = [decision EXCEPT ![c] = Ended(ctx[c])]
    /\ UNCHANGED <<call, request, ctx, pending>>

\* Decide, select: ctx.Done() is ready and the item is still open.
FinishOnContext(c) ==
    /\ call[c] = "waiting"
    /\ Open(c)
    /\ ctx[c] # "live"
    /\ decision' = [decision EXCEPT ![c] = Ended(ctx[c])]
    /\ UNCHANGED <<call, request, ctx, pending>>

\* Decide, last section: whichever case the select took, the item is decided;
\* it leaves the map and its decision is returned.
Collect(c) ==
    /\ call[c] = "waiting"
    /\ ~Open(c)
    /\ pending' = pending \ {c}
    /\ call' = [call EXCEPT ![c] = "returned"]
    /\ UNCHANGED <<request, ctx, decision>>

\* Pending: its pruning is all that changes state.
ListPending ==
    /\ decision' = Pruned(ctx)
    /\ UNCHANGED <<call, request, ctx, pending>>

\* Review that finds the item.
Review(target, outcome, scope, approver) ==
    /\ Reviewable(target, ctx)
    /\ decision' = Reviewed(target, ReviewDecision(outcome, scope, approver), ctx)
    /\ UNCHANGED <<call, request, ctx, pending>>

\* Review that answers not_found has pruned all the same.
ReviewNotFound(id) ==
    /\ ~ \E c \in pending : request[c].id = id /\ Reviewable(c, ctx)
    /\ decision' = Pruned(ctx)
    /\ UNCHANGED <<call, request, ctx, pending>>

Next ==
    \/ \E c \in Calls, q \in [id : Ids, process : Procs, session : SessionIds, turn : Turns] :
          Call(c, q)
    \/ \E c \in Calls : ContextEnds(c)
    \/ \E c \in Calls : Register(c)
    \/ \E c \in Calls : RefuseDuplicate(c)
    \/ \E c \in Calls : FinishOnContext(c)
    \/ \E c \in Calls : Collect(c)
    \/ ListPending
    \/ \E c \in Calls, outcome \in {"approved", "denied"}, scope \in Scopes, a \in Approvers :
          Review(c, outcome, scope, a)
    \/ \E id \in Ids : ReviewNotFound(id)

\* The Go scheduler runs every goroutine that can proceed.
Fairness ==
    \A c \in Calls :
        /\ WF_vars(Register(c))
        /\ WF_vars(RefuseDuplicate(c))
        /\ WF_vars(FinishOnContext(c))
        /\ WF_vars(Collect(c))

Spec == Init /\ [][Next]_vars
FairSpec == Spec /\ Fairness

-----------------------------------------------------------------------------
(* Properties                                                              *)

\* The map holds exactly the items of the calls that wait, one per ID: no
\* return path of Decide leaks an item and a duplicate ID never replaces one.
QueueMatchesCalls ==
    /\ pending = {c \in Calls : call[c] = "waiting"}
    /\ \A c, d \in pending : request[c].id = request[d].id => c = d

\* A decision is final: neither a second review, nor a context that ends after
\* the review, nor pruning replaces what the caller will be told.
DecisionFinal ==
    [][\A c \in Calls : ~Open(c) => decision'[c] = decision[c]]_vars

\* A reviewer decides only requests whose context is live: a request that was
\* cancelled or that expired can no longer be approved, although its item stays
\* in the map until its goroutine runs again.
OnlyLiveReviewed ==
    [][\A c \in Calls :
          Open(c) /\ decision'[c].outcome \in {"approved", "denied"} => ctx[c] = "live"]_vars

\* A scoped approval resolves the queued requests of its turn or session, all of
\* them and no other; a command approval or a denial resolves one.
ApprovalReachesItsScope ==
    [][\A c \in Calls :
          LET d == decision'[c]
              others == {e \in Calls \ {c} : e \in pending /\ Open(e) /\ ctx[e] = "live"}
              resolved == {e \in others : ~Open(e)'}
          IN  Open(c) /\ d.outcome \in {"approved", "denied"} =>
                resolved = IF d.outcome = "denied" \/ d.scope = "command" THEN {}
                           ELSE {e \in others :
                                   /\ request[e].process = request[c].process
                                   /\ request[e].session = request[c].session
                                   /\ d.scope = "message" => request[e].turn = request[c].turn}
      ]_vars

\* A call whose context ends returns, whatever reviewers do meanwhile.
EndedCallReturns ==
    \A c \in Calls : (ctx[c] \in {"canceled", "deadline"}) ~> (call[c] = "returned")

=============================================================================
