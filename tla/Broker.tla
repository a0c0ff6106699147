------------------------------- MODULE Broker -------------------------------
(***************************************************************************)
(* broker.Broker (internal/broker/broker.go): the sessions and turns the   *)
(* agent reports, the requests that wait for a decision, the leases that   *)
(* scoped approvals leave behind, and the way from a request to the        *)
(* execution of its command.                                               *)
(*                                                                         *)
(* b.mu makes each handler one atomic step.  A request is a goroutine that *)
(* holds b.mu twice and releases it in between; pc says where it is:       *)
(*                                                                         *)
(*   "idle"       not sent                                                 *)
(*   "entered"    in flight; provider.Decide is called                     *)
(*   "waiting"    queued in the manual provider, in its select             *)
(*   "returned"   provider.Decide has returned, b.mu not yet taken again   *)
(*   "authorized" b.mu released for the last time, command not started     *)
(*   "executing"  b.execute runs                                           *)
(*   "done", "refused"  answered with a result, with an error              *)
(*   "lost"       the daemon stopped before it answered                    *)
(*                                                                         *)
(* Every handler but Revoke prunes first (pruneLocked).  HandleLifecycle,  *)
(* Request and Decide read the clock BEFORE they take b.mu, so the time t  *)
(* they use may be in the past; MaxLockWait bounds how far.                *)
(*                                                                         *)
(* A lease is a record without its random ID: ensureLeaseLocked never      *)
(* stores two leases with equal contents, so the contents identify it.     *)
(***************************************************************************)
EXTENDS Naturals, FiniteSets

CONSTANTS
    Procs,          \* agent processes (proc.Identity: a reused PID is another one)
    SessionIds,     \* session IDs the integration reports
    Reqs,           \* requests; also their IDs, which are random and never repeat
    Approvers,      \* approver UIDs or principals
    NoApprover,     \* a decision that names no provider and principal
    NoRequest,      \* the context of a request not yet sent
    Manual,         \* TRUE: the provider is ManualProvider; FALSE: a Provider
                    \* that is no Reviewer and may ignore its context
    ProviderAnswers,\* what such a provider may return
    ReqTTL, MessageTTL, SessionTTL,   \* the three TTLs of config.Config
    MaxLockWait,    \* bound: how long a handler waits for b.mu
    MaxClock,       \* bound: length of the modelled time
    MaxTurn,        \* bound: turns of a session
    MaxEpoch        \* bound: how often a session is started anew

ASSUME TTLAssumption ==      \* config.Config.Validate
    /\ ReqTTL \in Nat \ {0}
    /\ MessageTTL \in Nat \ {0}
    /\ SessionTTL \in Nat \ {0}

ASSUME BoundsAssumption ==
    MaxLockWait \in Nat /\ MaxClock \in Nat /\ MaxTurn \in Nat /\ MaxEpoch \in Nat

ASSUME ProviderAssumption ==
    /\ Manual \in BOOLEAN
    /\ ProviderAnswers \subseteq
         [outcome : {"approved", "denied", "expired", "cancelled", "error", "unknown"},
          scope : {"command", "message", "session", ""},
          approver : Approvers \cup {NoApprover}]
    /\ NoApprover \notin Approvers

VARIABLES
    clock,      \* b.now()
    alive,      \* the processes for which b.alive holds
    sessions,   \* b.sessions: state and turn of each process and session ID
    inflight,   \* b.inflight
    leases,     \* b.leases
    pc,         \* where the goroutine of each request is
    request,    \* request[r]: the approval.Request, or the context it was admitted in
    ctx,        \* decisionContext: "none", "live", "canceled", "deadline"
    closed,     \* requests whose connection has ended (ctx of Request)
    pending,    \* ManualProvider.pending
    decision,   \* the item's decision while queued; later the decision, or the
                \* lease's scope and approver, the goroutine goes on with
    epoch,      \* history: how often each session has been started
    approvals   \* history: the approvals that approvers (or a provider) gave

P == INSTANCE ManualProvider WITH
        Calls <- Reqs, Ids <- Reqs, Turns <- Nat, call <- pc

clients == <<clock, alive, closed>>
handlers == <<sessions, leases, ctx>>
queue == <<inflight, pending, decision, pc, request>>
history == <<epoch, approvals>>
vars == <<clock, alive, sessions, inflight, leases, pc, request, ctx, closed,
          pending, decision, epoch, approvals>>

Keys == Procs \X SessionIds
Absent == [state |-> "absent", turn |-> 0]

Key(x) == <<x.process, x.session>>      \* sessionKey of a request or a lease

Scopes == {"command", "message", "session"}
PCs == {"idle", "entered", "waiting", "returned", "authorized", "executing",
        "done", "refused", "lost"}

Requests == [id : Reqs, process : Procs, session : SessionIds, turn : Nat,
             expires : Nat, epoch : Nat]
Leases == [scope : {"message", "session"}, process : Procs, session : SessionIds,
           turn : Nat, expires : Nat, approver : Approvers]
Approvals == [id : Reqs, process : Procs, session : SessionIds, turn : Nat,
              epoch : Nat, scope : Scopes, approver : Approvers]
Decisions == [outcome : {"", "approved", "denied", "expired", "cancelled", "error", "unknown"},
              scope : Scopes \cup {""}, approver : Approvers \cup {NoApprover}]

TypeOK ==
    /\ clock \in Nat
    /\ alive \subseteq Procs
    /\ sessions \in [Keys -> [state : {"absent", "idle", "active"}, turn : Nat]]
    /\ inflight \subseteq Reqs
    /\ leases \subseteq Leases
    /\ pc \in [Reqs -> PCs]
    /\ request \in [Reqs -> Requests \cup {NoRequest}]
    /\ ctx \in [Reqs -> {"none", "live", "canceled", "deadline"}]
    /\ closed \subseteq Reqs
    /\ pending \subseteq Reqs
    /\ decision \in [Reqs -> Decisions]
    /\ epoch \in [Keys -> Nat]
    /\ approvals \subseteq Approvals

Init ==
    /\ clock = 0
    /\ alive = Procs
    /\ sessions = [k \in Keys |-> Absent]
    /\ inflight = {}
    /\ leases = {}
    /\ pc = [r \in Reqs |-> "idle"]
    /\ request = [r \in Reqs |-> NoRequest]
    /\ ctx = [r \in Reqs |-> "none"]
    /\ closed = {}
    /\ pending = {}
    /\ decision = [r \in Reqs |-> P!Undecided]
    /\ epoch = [k \in Keys |-> 0]
    /\ approvals = {}

-----------------------------------------------------------------------------
(* The helpers that run under b.mu, as functions of the state they read.   *)

\* The times a handler may have read before it got b.mu.
ReadTimes == {t \in 0..clock : clock <= t + MaxLockWait}

\* Fault: a lease is still good at the instant it expires.
UnexpiredInclusive(l, t) == l.expires >= t

Unexpired(l, t) == l.expires > t

\* pruneLocked: what it leaves of the sessions and leases, ...
LivingSessions == [k \in Keys |-> IF k[1] \in alive THEN sessions[k] ELSE Absent]
LivingLeases(t) == {l \in leases : Unexpired(l, t) /\ l.process \in alive}

\* ... and the requests it cancels: those past their TTL and those of a session
\* it removes.
Overdue(t) ==
    {r \in inflight :
        \/ request[r].expires <= t
        \/ request[r].process \notin alive /\ sessions[Key(request[r])] # Absent}

\* cancelPendingLocked.
Waiting(k) == {r \in inflight : Key(request[r]) = k}

\* revokeMessageLeasesLocked, and the lease loop of removeSessionLocked.
MessageLeases(k) == {l \in leases : l.scope = "message" /\ Key(l) = k}
SessionLeases(k) == {l \in leases : Key(l) = k}

\* A section that leaves sessions S and leases L and cancels the contexts of C.
Commit(S, L, C) ==
    /\ sessions' = S
    /\ leases' = L
    /\ ctx' = [r \in Reqs |-> IF r \in C /\ ctx[r] = "live" THEN "canceled" ELSE ctx[r]]

\* activeSessionLocked finds one session only if exactly one is active.
ActiveKeys(p) == {k \in Keys : k[1] = p /\ LivingSessions[k].state = "active"}

\* Fault: a lease of any session of the process matches.
MatchingProcess(k, t) ==
    {l \in LivingLeases(t) :
        /\ Unexpired(l, t)
        /\ l.process = k[1]
        /\ l.scope = "session" \/ (l.scope = "message" /\ l.turn = LivingSessions[k].turn)}

\* matchingLeaseLocked; the map is searched in no particular order.
Matching(k, t) ==
    {l \in LivingLeases(t) :
        /\ Unexpired(l, t)
        /\ Key(l) = k
        /\ l.scope = "session" \/ (l.scope = "message" /\ l.turn = LivingSessions[k].turn)}

\* Fault: any active turn of the session will do.
ContextActiveInAnyTurn(q) == sessions[Key(q)].state = "active"

\* requestContextActiveLocked.
ContextActive(q) ==
    sessions[Key(q)].state = "active" /\ sessions[Key(q)].turn = q.turn

\* ensureLeaseLocked: a lease for a message or session approval, unless an
\* unexpired one already covers it.
NewLease(q, d, t) ==
    [scope |-> d.scope, process |-> q.process, session |-> q.session,
     turn |-> IF d.scope = "message" THEN q.turn ELSE 0,
     expires |-> t + (IF d.scope = "message" THEN MessageTTL ELSE SessionTTL),
     approver |-> d.approver]

\* Fault: a session lease is not recognised as covering a session approval.
CoveredByMessageOnly(q, d, t, l) ==
    /\ Unexpired(l, t)
    /\ Key(l) = Key(q)
    /\ d.scope = "message"
    /\ l.scope = "session" \/ l.turn = q.turn

CoveredBy(q, d, t, l) ==
    /\ Unexpired(l, t)
    /\ Key(l) = Key(q)
    /\ \/ l.scope = "session"
       \/ d.scope = "message" /\ l.scope = "message" /\ l.turn = q.turn

\* Fault: a command approval leaves a lease too.
EnsuredAnyScope(L, q, d, t) ==
    IF \E l \in L : CoveredBy(q, d, t, l) THEN L ELSE L \cup {NewLease(q, d, t)}

Ensured(L, q, d, t) ==
    IF d.scope = "command" \/ \E l \in L : CoveredBy(q, d, t, l)
    THEN L ELSE L \cup {NewLease(q, d, t)}

\* Decision.Validate.
Valid(d) ==
    /\ d.outcome \in {"approved", "denied", "expired", "cancelled"}
    /\ d.outcome = "denied" => d.scope = "command"
    /\ d.outcome = "approved" => d.scope \in Scopes /\ d.approver # NoApprover

\* History: the approval a decision d for request q records.
Approval(q, d) ==
    [id |-> q.id, process |-> q.process, session |-> q.session, turn |-> q.turn,
     epoch |-> q.epoch, scope |-> d.scope, approver |-> d.approver]

-----------------------------------------------------------------------------
(* The environment: time, processes and connections.                       *)

Tick ==
    /\ clock < MaxClock
    /\ clock' = clock + 1
    /\ UNCHANGED <<alive, closed, handlers, queue, history>>

ProcessExits(p) ==
    /\ p \in alive
    /\ alive' = alive \ {p}
    /\ UNCHANGED <<clock, closed, handlers, queue, history>>

\* proc.Alive fails for a process whose executable has been replaced, too, and holds
\* again once that has executed the new one (AgentWalk).
ProcessReturns(p) ==
    /\ p \notin alive
    /\ alive' = alive \cup {p}
    /\ UNCHANGED <<clock, closed, handlers, queue, history>>

\* The client of a request goes away: handleRequest reads EOF and cancels ctx,
\* and with it decisionContext.  (Earlier than "entered" is the same as at once.)
Disconnect(r) ==
    /\ pc[r] \in {"entered", "waiting", "returned", "authorized"}
    /\ r \notin closed
    /\ closed' = closed \cup {r}
    /\ Commit(sessions, leases, {r})
    /\ UNCHANGED <<clock, alive, queue, history>>

\* context.WithDeadline's timer; it may be late.
DeadlineFires(r) ==
    /\ ctx[r] = "live"
    /\ request[r].expires <= clock
    /\ ctx' = [ctx EXCEPT ![r] = "deadline"]
    /\ UNCHANGED <<clients, sessions, leases, queue, history>>

\* The daemon stops or crashes and is started again: all it had was in memory.
Restart ==
    /\ sessions' = [k \in Keys |-> Absent]
    /\ leases' = {}
    /\ inflight' = {}
    /\ pending' = {}
    /\ ctx' = [r \in Reqs |-> "none"]
    /\ pc' = [r \in Reqs |-> IF pc[r] \in {"idle", "done", "refused"} THEN pc[r] ELSE "lost"]
    /\ UNCHANGED <<clients, request, decision, history>>

-----------------------------------------------------------------------------
(* HandleLifecycle.  Hooks of a process that has just exited may still be  *)
(* on their way, so k[1] need not be alive.                                *)

SessionStarted(k, t) ==
    /\ LivingSessions[k] = Absent
    /\ epoch[k] < MaxEpoch
    /\ Commit([LivingSessions EXCEPT ![k].state = "idle"], LivingLeases(t), Overdue(t))
    /\ epoch' = [epoch EXCEPT ![k] = @ + 1]
    /\ UNCHANGED <<clients, queue, approvals>>

TurnStarted(k, t) ==
    /\ LivingSessions[k].state = "idle"
    /\ LivingSessions[k].turn < MaxTurn
    /\ Commit([LivingSessions EXCEPT ![k].state = "active", ![k].turn = @ + 1],
              LivingLeases(t) \ MessageLeases(k),
              Overdue(t) \cup Waiting(k))
    /\ UNCHANGED <<clients, queue, history>>

\* Fault: a turn that stops keeps its message leases.
TurnStoppedKeepingLeases(k, t) ==
    /\ LivingSessions[k] # Absent
    /\ Commit([LivingSessions EXCEPT ![k].state = "idle"], LivingLeases(t),
              Overdue(t) \cup Waiting(k))
    /\ UNCHANGED <<clients, queue, history>>

\* A second turn start before the first turn ended leaves the session idle, with
\* its turn number; a turn end does the same.
TurnStopped(k, t) ==
    /\ LivingSessions[k] # Absent
    /\ Commit([LivingSessions EXCEPT ![k].state = "idle"],
              LivingLeases(t) \ MessageLeases(k),
              Overdue(t) \cup Waiting(k))
    /\ UNCHANGED <<clients, queue, history>>

AmbiguousTurnStart(k, t) == LivingSessions[k].state = "active" /\ TurnStopped(k, t)
TurnEnded(k, t) == TurnStopped(k, t)

\* Fault: a session that ends forgets the requests that wait.
SessionEndedKeepingRequests(k, t) ==
    /\ Commit([LivingSessions EXCEPT ![k] = Absent],
              LivingLeases(t) \ SessionLeases(k), Overdue(t))
    /\ UNCHANGED <<clients, queue, history>>

SessionEnded(k, t) ==
    /\ Commit([LivingSessions EXCEPT ![k] = Absent],
              LivingLeases(t) \ SessionLeases(k),
              Overdue(t) \cup Waiting(k))
    /\ UNCHANGED <<clients, queue, history>>

\* What a handler does that has nothing to do but prune: a session start of a
\* known session, a turn event before its session, Leases, a Decide with an
\* invalid decision or without a Reviewer.
PruneOnly(t) ==
    /\ Commit(LivingSessions, LivingLeases(t), Overdue(t))
    /\ UNCHANGED <<clients, queue, history>>

-----------------------------------------------------------------------------
(* Request, first section.                                                 *)

\* Where request r of session k is admitted.  A request that runs on a lease
\* makes no approval.Request: its record only says in which context it was let in.
Context(r, k, t) ==
    [id |-> r, process |-> k[1], session |-> k[2], turn |-> LivingSessions[k].turn,
     expires |-> t + ReqTTL, epoch |-> epoch[k]]

RequestWithoutTurn(r, p, t) ==
    /\ pc[r] = "idle"
    /\ ~ \E k \in Keys : ActiveKeys(p) = {k}
    /\ Commit(LivingSessions, LivingLeases(t), Overdue(t))
    /\ pc' = [pc EXCEPT ![r] = "refused"]
    /\ UNCHANGED <<clients, inflight, pending, decision, request, history>>

RequestOnLease(r, p, t) ==
    /\ pc[r] = "idle"
    /\ \E k \in Keys :
         /\ ActiveKeys(p) = {k}
         /\ \E l \in Matching(k, t) :
              decision' = [decision EXCEPT ![r] = [outcome |-> "approved", scope |-> l.scope,
                                                   approver |-> l.approver]]
         /\ request' = [request EXCEPT ![r] = Context(r, k, t)]
    /\ Commit(LivingSessions, LivingLeases(t), Overdue(t))
    /\ pc' = [pc EXCEPT ![r] = "authorized"]
    /\ UNCHANGED <<clients, inflight, pending, history>>

RequestCreated(r, p, t) ==
    /\ pc[r] = "idle"
    /\ t + ReqTTL <= MaxClock            \* its deadline lies in the modelled time
    /\ \E k \in Keys :
         /\ ActiveKeys(p) = {k}
         /\ Matching(k, t) = {}
         /\ request' = [request EXCEPT ![r] = Context(r, k, t)]
    /\ sessions' = LivingSessions
    /\ leases' = LivingLeases(t)
    /\ ctx' = [q \in Reqs |-> IF q = r THEN "live"
                              ELSE IF q \in Overdue(t) /\ ctx[q] = "live" THEN "canceled"
                              ELSE ctx[q]]
    /\ inflight' = inflight \cup {r}
    /\ pc' = [pc EXCEPT ![r] = "entered"]
    /\ UNCHANGED <<clients, pending, decision, history>>

-----------------------------------------------------------------------------
(* provider.Decide, outside b.mu.                                          *)

Outside == UNCHANGED <<clients, sessions, leases, inflight, history>>

ProviderRegister(r) == Manual /\ P!Register(r) /\ Outside
ProviderFinishOnContext(r) == Manual /\ P!FinishOnContext(r) /\ Outside
ProviderCollect(r) == Manual /\ P!Collect(r) /\ Outside

\* Any other Provider: it answers when it likes.
ProviderAnswersRequest(r) ==
    /\ ~Manual
    /\ pc[r] = "entered"
    /\ \E d \in ProviderAnswers :
         /\ decision' = [decision EXCEPT ![r] = d]
         /\ approvals' = IF d.outcome = "approved" /\ Valid(d)
                         THEN approvals \cup {Approval(request[r], d)} ELSE approvals
    /\ pc' = [pc EXCEPT ![r] = "returned"]
    /\ UNCHANGED <<clients, handlers, inflight, pending, request, epoch>>

-----------------------------------------------------------------------------
(* Request, second section: the decision is back.  It reads the clock      *)
(* under b.mu and does not prune.                                          *)

\* Fault: the turn is not looked at again.
GrantedInAnyTurn(r) == Valid(decision[r]) /\ decision[r].outcome = "approved"

\* The decision is an approval and the request still belongs to the active turn.
Granted(r) ==
    /\ Valid(decision[r])
    /\ decision[r].outcome = "approved"
    /\ ContextActive(request[r])

ResumeApproved(r) ==
    /\ pc[r] = "returned"
    /\ Granted(r)
    /\ leases' = Ensured(leases, request[r], decision[r], clock)
    /\ inflight' = inflight \ {r}
    /\ ctx' = [ctx EXCEPT ![r] = "none"]
    /\ pc' = [pc EXCEPT ![r] = "authorized"]
    /\ UNCHANGED <<clients, sessions, pending, decision, request, history>>

\* Fault: a refused request stays in flight.
ResumeRefusedLeaking(r) ==
    /\ pc[r] = "returned"
    /\ ~Granted(r)
    /\ ctx' = [ctx EXCEPT ![r] = "none"]
    /\ pc' = [pc EXCEPT ![r] = "refused"]
    /\ UNCHANGED <<clients, sessions, leases, inflight, pending, decision, request, history>>

\* Fault: an approval that came too late for its request still leaves a lease.
ResumeRefusedWithLease(r) ==
    /\ pc[r] = "returned"
    /\ ~Granted(r)
    /\ leases' = IF decision[r].outcome = "approved" /\ Valid(decision[r])
                 THEN Ensured(leases, request[r], decision[r], clock) ELSE leases
    /\ inflight' = inflight \ {r}
    /\ ctx' = [ctx EXCEPT ![r] = "none"]
    /\ pc' = [pc EXCEPT ![r] = "refused"]
    /\ UNCHANGED <<clients, sessions, pending, decision, request, history>>

ResumeRefused(r) ==
    /\ pc[r] = "returned"
    /\ ~Granted(r)
    /\ inflight' = inflight \ {r}
    /\ ctx' = [ctx EXCEPT ![r] = "none"]
    /\ pc' = [pc EXCEPT ![r] = "refused"]
    /\ UNCHANGED <<clients, sessions, leases, pending, decision, request, history>>

\* After b.mu is released: the last look at the connection and the process.
Reachable(r) == r \notin closed /\ request[r].process \in alive

StartExecution(r) ==
    /\ pc[r] = "authorized"
    /\ pc' = [pc EXCEPT ![r] = IF Reachable(r) THEN "executing" ELSE "refused"]
    /\ UNCHANGED <<clients, handlers, inflight, pending, decision, request, history>>

FinishExecution(r) ==
    /\ pc[r] = "executing"
    /\ pc' = [pc EXCEPT ![r] = "done"]
    /\ UNCHANGED <<clients, handlers, inflight, pending, decision, request, history>>

-----------------------------------------------------------------------------
(* The admin plane.                                                        *)

\* Pending reads the clock under b.mu; the provider prunes too.
ListPending ==
    /\ Manual
    /\ Commit(LivingSessions, LivingLeases(clock), Overdue(clock))
    /\ decision' = P!Pruned(ctx')
    /\ UNCHANGED <<clients, inflight, pending, pc, request, history>>

Approve(r, scope, a, t) ==
    LET d == P!ReviewDecision("approved", scope, a)
    IN  /\ Manual
        /\ sessions' = LivingSessions
        /\ ctx' = [q \in Reqs |-> IF q \in Overdue(t) /\ ctx[q] = "live"
                                  THEN "canceled" ELSE ctx[q]]
        /\ P!Reviewable(r, ctx')
        /\ leases' = Ensured(LivingLeases(t), request[r], d, t)
        /\ decision' = P!Reviewed(r, d, ctx')
        /\ approvals' = approvals \cup {Approval(request[r], d)}
        /\ UNCHANGED <<clients, inflight, pending, pc, request, epoch>>

Deny(r, scope, a, t) ==
    /\ Manual
    /\ Commit(LivingSessions, LivingLeases(t), Overdue(t))
    /\ P!Reviewable(r, ctx')
    /\ decision' = P!Reviewed(r, P!ReviewDecision("denied", scope, a), ctx')
    /\ UNCHANGED <<clients, inflight, pending, pc, request, history>>

\* not_found: both the broker and the provider have pruned.
DecideNotFound(r, t) ==
    /\ Manual
    /\ Commit(LivingSessions, LivingLeases(t), Overdue(t))
    /\ ~P!Reviewable(r, ctx')
    /\ decision' = P!Pruned(ctx')
    /\ UNCHANGED <<clients, inflight, pending, pc, request, history>>

\* Revoke does not prune.
Revoke(l) ==
    /\ l \in leases
    /\ leases' = leases \ {l}
    /\ UNCHANGED <<clients, sessions, ctx, queue, history>>

-----------------------------------------------------------------------------
Environment ==
    \/ Tick
    \/ \E p \in Procs : ProcessExits(p) \/ ProcessReturns(p)
    \/ \E r \in Reqs : Disconnect(r) \/ DeadlineFires(r)
    \/ Restart

Lifecycle ==
    \/ \E k \in Keys, t \in ReadTimes :
          \/ SessionStarted(k, t)
          \/ TurnStarted(k, t)
          \/ AmbiguousTurnStart(k, t)
          \/ TurnEnded(k, t)
          \/ SessionEnded(k, t)
    \/ \E t \in ReadTimes : PruneOnly(t)

Thread(r) ==
    \/ ProviderRegister(r)
    \/ ProviderFinishOnContext(r)
    \/ ProviderCollect(r)
    \/ ProviderAnswersRequest(r)
    \/ ResumeApproved(r)
    \/ ResumeRefused(r)
    \/ StartExecution(r)
    \/ FinishExecution(r)

Request ==
    \E r \in Reqs :
        \/ \E p \in Procs, t \in ReadTimes :
              \/ RequestWithoutTurn(r, p, t)
              \/ RequestOnLease(r, p, t)
              \/ RequestCreated(r, p, t)
        \/ Thread(r)

Review ==
    \/ ListPending
    \/ \E r \in Reqs, scope \in Scopes, a \in Approvers, t \in ReadTimes :
          \/ Approve(r, scope, a, t)
          \/ Deny(r, scope, a, t)
    \/ \E r \in Reqs, t \in ReadTimes : DecideNotFound(r, t)

Next == Environment \/ Lifecycle \/ Request \/ Review \/ \E l \in leases : Revoke(l)

\* Goroutines that can run do run, time passes, timers fire, and a command that
\* was started ends (b.execute enforces its timeout).
Fairness ==
    /\ WF_vars(Tick)
    /\ \A r \in Reqs : WF_vars(Thread(r)) /\ WF_vars(DeadlineFires(r))

Spec == Init /\ [][Next]_vars
FairSpec == Spec /\ Fairness

-----------------------------------------------------------------------------
(* Properties                                                              *)

\* A request that has been approved and would be let through if it resumed now.
Holding(r) == pc[r] \in {"waiting", "returned"} /\ Granted(r)

\* inflight and the provider's map hold exactly the requests whose goroutines
\* are between their registration and their removal: no path leaks an entry, and
\* none loses one that cancelPendingLocked would have to find.
RequestsAccounted ==
    /\ inflight = {r \in Reqs : pc[r] \in {"entered", "waiting", "returned"}}
    /\ pending = {r \in Reqs : pc[r] = "waiting"}

\* A request whose decision context is live belongs to the turn that is active
\* now, and cancelPendingLocked can reach it.  Decide relies on it: unlike
\* Request it makes a lease without looking at the session.
LiveRequestsCurrent ==
    \A r \in Reqs : ctx[r] = "live" => r \in inflight /\ ContextActive(request[r])

\* "Message approval ends when the turn ends, a new prompt starts, the process
\* exits ... Session approval ends on session/process exit": whatever order
\* lifecycle events, decisions and goroutines come in, a stored message lease is
\* of the active turn of its session and a session lease of a known session.
LeasesCurrent ==
    \A l \in leases :
        /\ sessions[Key(l)] # Absent
        /\ l.scope = "message" =>
             sessions[Key(l)].state = "active" /\ sessions[Key(l)].turn = l.turn

\* An approval reaches the request it names, or the requests of its turn or session.
Covers(a, q) ==
    /\ a.process = q.process
    /\ a.session = q.session
    /\ a.scope = "command" => a.id = q.id
    /\ a.scope = "message" => a.turn = q.turn

\* "Root execution occurs only after a valid decision for a current request or
\* lease": behind every command that runs is an approval that covers its request
\* and has the scope and the approver the audit log attributes it to.
Authorised ==
    \A r \in Reqs : pc[r] \in {"authorized", "executing", "done"} =>
        \E a \in approvals : /\ Covers(a, request[r])
                             /\ a.scope = decision[r].scope
                             /\ a.approver = decision[r].approver

\* A goroutine gets its authority only while the turn it was admitted in is the
\* active one, however long its decision took: "no longer belongs to the active
\* agent turn" otherwise.
AuthorisedInTurn ==
    [][\A r \in Reqs : pc[r] # "authorized" /\ pc'[r] = "authorized" =>
          /\ sessions'[Key(request'[r])].state = "active"
          /\ sessions'[Key(request'[r])].turn = request'[r].turn]_vars

\* No command is let in on a lease after its TTL, but for the time its handler
\* waited for b.mu with the clock value it had already read.
LeaseUsedWithinTTL ==
    [][\A r \in Reqs : pc[r] = "idle" /\ pc'[r] = "authorized" =>
          \E l \in leases : /\ Key(l) = Key(request'[r])
                            /\ l.scope = decision'[r].scope
                            /\ l.approver = decision'[r].approver
                            /\ l.expires + MaxLockWait > clock]_vars

\* However many requests of a group approval resume, and however their resumption
\* interleaves with Decide, one lease stands for it: revoking the lease an
\* approver sees leaves no second one behind.
OneLeasePerScope ==
    \A l, m \in leases :
        /\ Unexpired(l, clock) /\ Unexpired(m, clock)
        /\ Key(l) = Key(m) /\ l.scope = m.scope
        => l = m

\* A lease appears only with a decision: one that is given in this very step, or
\* one that a request which has not resumed still holds and that is good in the
\* active turn.  Hence once no such request is left a revoked lease stays revoked.
LeasesOnlyFromDecisions ==
    [][\A l \in leases' \ leases :
          \/ \E a \in approvals' \ approvals :
                Key(a) = Key(l) /\ a.scope = l.scope /\ a.approver = l.approver
          \/ \E r \in Reqs : /\ Holding(r)
                             /\ Key(request[r]) = Key(l)
                             /\ decision[r].scope = l.scope
                             /\ decision[r].approver = l.approver]_vars

\* "Approval scope cannot survive its documented ... session": behind every
\* command that runs is an approval given in the same life of its session.  A
\* session that ends and starts again under the same ID is a new session.
ApprovalEndsWithSession ==
    \A r \in Reqs : pc[r] \in {"authorized", "executing", "done"} =>
        \E a \in approvals : Covers(a, request[r]) /\ a.epoch = request[r].epoch

\* Every request is answered: its TTL bounds how long it waits for a human.
EveryRequestReturns ==
    \A r \in Reqs : (pc[r] = "entered") ~> (pc[r] \in {"done", "refused", "lost"})

\* An approval is honoured, even one given just before the request's TTL ends or
\* its context is pruned: the command runs unless its turn, process or connection
\* ends first.
ApprovedRequestRuns ==
    \A r \in Reqs :
        (pc[r] \in {"waiting", "returned"} /\ decision[r].outcome = "approved")
        ~> \/ pc[r] \in {"done", "lost"}
           \/ request[r] # NoRequest /\ ~(Reachable(r) /\ ContextActive(request[r]))

-----------------------------------------------------------------------------
(* The broker implements Authority.  In force are the leases, and the      *)
(* approvals of requests that have not resumed but still would be let      *)
(* through: as long as one of those is left, revoking the lease of a group *)
(* approval does not end it.                                               *)

Grant(q, scope, approver) ==
    [scope |-> scope, process |-> q.process, session |-> q.session,
     turn |-> IF scope = "session" THEN 0 ELSE q.turn,
     id |-> IF scope = "command" THEN q.id ELSE NoRequest,
     approver |-> approver]

InForceNow ==
    {Grant(l, l.scope, l.approver) : l \in leases}
    \cup {Grant(request[r], decision[r].scope, decision[r].approver) :
              r \in {q \in Reqs : Holding(q)}}

A == INSTANCE Authority WITH
        contexts <- sessions,
        authority <- InForceNow,
        running <- {r \in Reqs : pc[r] \in {"authorized", "executing", "done"}}

\* No approval outlives its turn or session, none is used outside its scope, and
\* no authority appears that nobody gave; as long as no session ID is started
\* twice (see ApprovalEndsWithSession).
ImplementsAuthority == A!Spec

=============================================================================
