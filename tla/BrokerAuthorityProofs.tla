------------------------ MODULE BrokerAuthorityProofs ------------------------
(***************************************************************************)
(* Theorems about what gives a command its authority in Broker: where      *)
(* leases come from, how many stand for one approval, how long they are    *)
(* used, and that Broker implements Authority.  They rest on IInv of       *)
(* BrokerProofs.                                                           *)
(*                                                                         *)
(* Only two actions add a lease: Decide of an approval (Approve) and       *)
(* a request that resumes with one (ResumeApproved); every other step      *)
(* leaves a subset of the leases (LeaseSteps).                             *)
(*                                                                         *)
(* Last come the theorems about what a reviewer decides: what              *)
(* ManualProvider promises of a queue on its own holds in the broker.      *)
(***************************************************************************)
EXTENDS BrokerProofs

Approves(r, d) ==
    \E scope \in Scopes, a \in Approvers, t \in ReadTimes :
        d = P!ReviewDecision("approved", scope, a) /\ Approve(r, scope, a, t)

\* What a reviewer decides is a decision.
LEMMA ReviewDecisionType ==
    ASSUME NEW outcome \in {"approved", "denied"}, NEW scope \in Scopes, NEW a \in Approvers
    PROVE  P!ReviewDecision(outcome, scope, a) \in Decisions
  BY DEF P!ReviewDecision, Decisions, Scopes

\* Every step keeps the clock going forward and adds no lease, but for the two
\* that call ensureLeaseLocked.
LEMMA LeaseSteps ==
    ASSUME IInv, [Next]_vars
    PROVE  /\ clock' \in Nat /\ clock' >= clock
           /\ \/ leases' \subseteq leases
              \/ \E r \in Reqs, d \in Decisions : Approves(r, d)
              \/ \E r \in Reqs : ResumeApproved(r)
<1>1. clock \in Nat
  BY DEF IInv, TypeOK
<1>2. clock' = clock \/ clock' = clock + 1
  <2> USE DEF clients
  <2>1. CASE Environment
    BY <2>1 DEF Environment, Tick, ProcessExits, ProcessReturns, Disconnect, DeadlineFires, Restart
  <2>2. CASE Lifecycle
    BY <2>2 DEF Lifecycle, SessionStarted, TurnStarted, AmbiguousTurnStart, TurnEnded, TurnStopped,
       SessionEnded, PruneOnly
  <2>3. ASSUME NEW r \in Reqs, NEW p \in Procs, NEW t \in ReadTimes,
               RequestWithoutTurn(r, p, t) \/ RequestOnLease(r, p, t) \/ RequestCreated(r, p, t)
        PROVE  clock' = clock
    BY <2>3 DEF RequestWithoutTurn, RequestOnLease, RequestCreated
  <2>4. ASSUME NEW r \in Reqs, Thread(r)
        PROVE  clock' = clock
    BY <2>4 DEF Thread, ProviderRegister, ProviderFinishOnContext, ProviderCollect,
       ProviderAnswersRequest, ResumeApproved, ResumeRefused, StartExecution, FinishExecution, Outside
  <2>5. CASE Request
    BY <2>3, <2>4, <2>5 DEF Request
  <2>6. CASE Review
    BY <2>6 DEF Review, ListPending, Approve, Deny, DecideNotFound, Outside
  <2>7. CASE \E l \in leases : Revoke(l)
    BY <2>7 DEF Revoke
  <2>8. CASE UNCHANGED vars
    BY <2>8 DEF vars
  <2> QED
    BY <2>1, <2>2, <2>5, <2>6, <2>7, <2>8 DEF Next
<1>3. ASSUME ~ \E r \in Reqs, d \in Decisions : Approves(r, d), ~ \E r \in Reqs : ResumeApproved(r)
      PROVE  leases' \subseteq leases
  <2>1. \A t : LivingLeases(t) \subseteq leases
    BY DEF LivingLeases
  <2>2. CASE Environment \/ UNCHANGED vars \/ \E l \in leases : Revoke(l)
    <3>1. CASE Environment
      BY <3>1 DEF Environment, Tick, ProcessExits, ProcessReturns, Disconnect, DeadlineFires, Restart,
         Commit, handlers
    <3>2. CASE UNCHANGED vars \/ \E l \in leases : Revoke(l)
      BY <3>2 DEF Revoke, Commit, vars
    <3> QED
      BY <2>2, <3>1, <3>2
  <2>3. CASE Lifecycle
    BY <2>3 DEF Lifecycle, SessionStarted, TurnStarted, AmbiguousTurnStart, TurnEnded,
       TurnStopped, SessionEnded, PruneOnly, Commit, LivingLeases
  <2>4. CASE Request
    <3>1. PICK r \in Reqs :
             \/ \E p \in Procs, t \in ReadTimes :
                   \/ RequestWithoutTurn(r, p, t)
                   \/ RequestOnLease(r, p, t)
                   \/ RequestCreated(r, p, t)
             \/ Thread(r)
      BY <2>4 DEF Request
    <3>2. CASE \E p \in Procs, t \in ReadTimes :
                   \/ RequestWithoutTurn(r, p, t)
                   \/ RequestOnLease(r, p, t)
                   \/ RequestCreated(r, p, t)
      BY <2>1, <3>2 DEF RequestWithoutTurn, RequestOnLease, RequestCreated, Commit
    <3>3. CASE Thread(r)
      BY <1>3, <3>3 DEF Thread, ProviderRegister, ProviderFinishOnContext, ProviderCollect,
         ProviderAnswersRequest, ResumeRefused, StartExecution, FinishExecution, Outside, handlers
    <3> QED
      BY <3>1, <3>2, <3>3
  <2>5. CASE Review
    <3>1. \A r \in Reqs, scope \in Scopes, a \in Approvers, t \in ReadTimes :
             ~Approve(r, scope, a, t)
      BY <1>3, ReviewDecisionType DEF Approves
    <3> QED
      BY <2>1, <2>5, <3>1 DEF Review, ListPending, Deny, DecideNotFound, Commit
  <2> QED
    BY <2>2, <2>3, <2>4, <2>5 DEF Next
<1> QED
  BY <1>1, <1>2, <1>3

\* What makes a section that ends in ensureLeaseLocked safe: its request belongs
\* to the active turn of the session map that it leaves, all other leases are
\* current in it, and the time it uses is not ahead of the clock.
LEMMA EnsuringStep ==
    ASSUME IInv, NEW r \in Reqs, NEW d, Approves(r, d) \/ (ResumeApproved(r) /\ d = decision[r])
    PROVE  \E L \in SUBSET leases, S \in SessionMaps, t \in Nat :
              /\ \A l \in L : CurrentIn(S, l)
              /\ request[r] \in Requests /\ ActiveIn(S, request[r]) /\ sessions' = S
              /\ Valid(d) /\ d.outcome = "approved" /\ d.approver \in Approvers
              /\ t <= clock /\ clock \in Nat /\ clock' = clock
              /\ leases' = Ensured(L, request[r], d, t)
<1>0. clock \in Nat /\ leases \subseteq Leases /\ \A t \in ReadTimes : t \in Nat /\ t <= clock
  BY DEF IInv, TypeOK, ReadTimes
<1>1. ASSUME NEW scope \in Scopes, NEW a \in Approvers, NEW t \in ReadTimes,
             d = P!ReviewDecision("approved", scope, a), Approve(r, scope, a, t)
      PROVE  /\ \A l \in LivingLeases(t) : CurrentIn(LivingSessions, l)
             /\ LivingSessions \in SessionMaps /\ LivingLeases(t) \in SUBSET leases
             /\ request[r] \in Requests /\ ActiveIn(LivingSessions, request[r])
             /\ Valid(d) /\ d.outcome = "approved" /\ d.approver \in Approvers
             /\ clock' = clock /\ sessions' = LivingSessions
             /\ leases' = Ensured(LivingLeases(t), request[r], d, t)
  <2>1. ctx'[r] = "live"
    BY <1>1 DEF Approve, P!Reviewable, P!Pruned, P!Ended, P!Undecided, P!Open
  <2>2. ctx[r] = "live" /\ r \notin Overdue(t)
    BY <1>1, <2>1 DEF Approve
  <2>3. Valid(d) /\ d.outcome = "approved" /\ d.approver \in Approvers
    BY <1>1, ProviderAssumption DEF P!ReviewDecision, Valid
  <2> QED
    BY <1>0, <1>1, <2>2, <2>3, PruneStep DEF Approve, clients
<1>2. CASE ResumeApproved(r) /\ d = decision[r]
  <2>1. sessions \in SessionMaps /\ \A l \in leases : CurrentIn(sessions, l)
    BY DEF IInv, TypeOK, LeasesCurrent, CurrentIn, SessionMaps
  <2>2. request[r] \in Requests /\ ActiveIn(sessions, request[r])
    BY <1>2 DEF IInv, Placed, ResumeApproved, Granted, ContextActive, ActiveIn
  <2>3. Valid(d) /\ d.outcome = "approved" /\ d.approver \in Approvers
    BY <1>2 DEF IInv, TypeOK, Decisions, ResumeApproved, Granted, Valid
  <2>4. /\ clock' = clock /\ clock <= clock /\ sessions' = sessions
        /\ leases' = Ensured(leases, request[r], d, clock)
    BY <1>0, <1>2 DEF ResumeApproved, clients
  <2> QED
    BY <1>0, <2>1, <2>2, <2>3, <2>4
<1> QED
  BY <1>0, <1>1, <1>2 DEF Approves

-----------------------------------------------------------------------------
(* One lease per scope.                                                    *)

OneLeaseAt(L, u) ==
    \A l, m \in L :
        /\ Unexpired(l, u) /\ Unexpired(m, u)
        /\ Key(l) = Key(m) /\ l.scope = m.scope
        => l = m

\* ensureLeaseLocked adds no second lease, although the time it uses may be in
\* the past: what is unexpired now was unexpired then.
LEMMA EnsuredOne ==
    ASSUME NEW S \in SessionMaps, NEW L, L \subseteq Leases, \A l \in L : CurrentIn(S, l),
           NEW q \in Requests, ActiveIn(S, q),
           NEW d, Valid(d), d.outcome = "approved",
           NEW t \in Nat, NEW u \in Nat, t <= u, OneLeaseAt(L, u)
    PROVE  OneLeaseAt(Ensured(L, q, d, t), u)
<1>1. CASE Ensured(L, q, d, t) = L
  BY <1>1
<1>2. CASE Ensured(L, q, d, t) # L
  <2> DEFINE n == NewLease(q, d, t)
  <2>1. /\ Ensured(L, q, d, t) = L \cup {n}
        /\ d.scope \in {"message", "session"}
        /\ \A l \in L : ~CoveredBy(q, d, t, l)
    BY <1>2 DEF Ensured, Valid, Scopes
  <2>2. Key(n) = Key(q) /\ n.scope = d.scope
    BY DEF NewLease, Key
  <2> HIDE DEF n
  <2>3. ASSUME NEW l \in L, Unexpired(l, u), Key(l) = Key(n), l.scope = n.scope
        PROVE  FALSE
    <3>1. Unexpired(l, t)
      <4>1. l.expires \in Nat
        BY DEF Leases
      <4> QED
        BY <2>3, <4>1 DEF Unexpired
    <3>2. l.scope = "message" => l.turn = q.turn
      BY <2>2, <2>3 DEF CurrentIn, ActiveIn
    <3> QED
      BY <2>1, <2>2, <2>3, <3>1, <3>2 DEF CoveredBy
  <2> QED
    BY <2>1, <2>3 DEF OneLeaseAt
<1> QED
  BY <1>1, <1>2

\* However many requests of a group approval resume, one lease stands for it.
THEOREM OneLeaseAlwaysPerScope == Spec => []OneLeasePerScope
<1>1. Init => OneLeasePerScope
  BY DEF Init, OneLeasePerScope
<1>2. IInv /\ OneLeasePerScope /\ [Next]_vars => OneLeasePerScope'
  <2> SUFFICES ASSUME IInv, OneLeaseAt(leases, clock), [Next]_vars
               PROVE  OneLeaseAt(leases', clock')
    BY DEF OneLeasePerScope, OneLeaseAt, Unexpired, Key
  <2>1. clock \in Nat /\ leases \subseteq Leases
    BY DEF IInv, TypeOK
  <2>2. CASE leases' \subseteq leases
    <3>1. \A l \in leases : Unexpired(l, clock') => Unexpired(l, clock)
      BY <2>1, LeaseSteps DEF Unexpired, Leases
    <3> QED
      BY <2>2, <3>1 DEF OneLeaseAt
  <2>3. ASSUME NEW r \in Reqs, NEW d, Approves(r, d) \/ (ResumeApproved(r) /\ d = decision[r])
        PROVE  OneLeaseAt(leases', clock')
    <3>1. PICK L \in SUBSET leases, S \in SessionMaps, t \in Nat :
              /\ \A l \in L : CurrentIn(S, l)
              /\ request[r] \in Requests /\ ActiveIn(S, request[r])
              /\ Valid(d) /\ d.outcome = "approved" /\ d.approver \in Approvers
              /\ t <= clock /\ clock \in Nat /\ clock' = clock
              /\ leases' = Ensured(L, request[r], d, t)
      BY <2>3, EnsuringStep
    <3>2. OneLeaseAt(L, clock)
      BY DEF OneLeaseAt
    <3> QED
      BY <2>1, <3>1, <3>2, EnsuredOne
  <2> QED
    BY <2>2, <2>3, LeaseSteps
<1> QED
  BY <1>1, <1>2, Invariance, PTL DEF Spec

-----------------------------------------------------------------------------
(* How long a lease is used.                                               *)

\* No command is let in on a lease after its TTL, but for the time its handler
\* waited for b.mu.
THEOREM LeaseAlwaysUsedWithinTTL == Spec => LeaseUsedWithinTTL
<1> DEFINE Within ==
      \A r \in Reqs : pc[r] = "idle" /\ pc'[r] = "authorized" =>
          \E l \in leases : /\ Key(l) = Key(request'[r])
                            /\ l.scope = decision'[r].scope
                            /\ l.approver = decision'[r].approver
                            /\ l.expires + MaxLockWait > clock
<1>1. IInv /\ [Next]_vars => [Within]_vars
  <2> SUFFICES ASSUME IInv, Next, NEW r \in Reqs, pc[r] = "idle", pc'[r] = "authorized"
               PROVE  \E l \in leases : /\ Key(l) = Key(request'[r])
                                        /\ l.scope = decision'[r].scope
                                        /\ l.approver = decision'[r].approver
                                        /\ l.expires + MaxLockWait > clock
    OBVIOUS
  <2>1. TypeOK
    BY DEF IInv
  <2>2. ~ResumeApproved(r)
    BY DEF ResumeApproved
  <2>3. PICK p \in Procs, t \in ReadTimes : RequestOnLease(r, p, t)
    BY <2>1, <2>2, AuthorityGained
  <2>4. PICK k \in Keys :
           /\ \E l \in Matching(k, t) :
                 decision' = [decision EXCEPT ![r] = [outcome |-> "approved", scope |-> l.scope,
                                                      approver |-> l.approver]]
           /\ request' = [request EXCEPT ![r] = Context(r, k, t)]
    BY <2>3 DEF RequestOnLease
  <2>5. PICK l \in Matching(k, t) :
           decision' = [decision EXCEPT ![r] = [outcome |-> "approved", scope |-> l.scope,
                                                approver |-> l.approver]]
    BY <2>4
  <2>6. l \in leases /\ Key(l) = k /\ l.expires > t
    BY DEF Matching, LivingLeases, Unexpired
  <2>7. request'[r] = Context(r, k, t) /\ Key(Context(r, k, t)) = k
    BY <2>1, <2>4 DEF TypeOK, Context, Key, Keys
  <2>8. decision'[r].scope = l.scope /\ decision'[r].approver = l.approver
    BY <2>1, <2>5 DEF TypeOK
  <2>9. l.expires + MaxLockWait > clock
    <3>1. clock \in Nat /\ t \in Nat /\ clock <= t + MaxLockWait /\ MaxLockWait \in Nat
      BY <2>1, BoundsAssumption DEF TypeOK, ReadTimes
    <3>2. l.expires \in Nat
      BY <2>1, <2>6 DEF TypeOK, Leases
    <3> QED
      BY <2>6, <3>1, <3>2
  <2> QED
    BY <2>6, <2>7, <2>8, <2>9
<1> QED
  BY <1>1, Invariance, PTL DEF Spec, LeaseUsedWithinTTL

-----------------------------------------------------------------------------
(* Where a lease comes from.                                               *)

\* A request in flight carries its own ID, and the request an approval names is
\* decided: the approval of an open item is a new one.
ApprovalsMade ==
    /\ \A r \in inflight : request[r].id = r
    /\ \A a \in approvals : decision[a.id].outcome # ""

\* No step takes a decision back.
LEMMA DecisionsStay ==
    ASSUME IInv, [Next]_vars, NEW r \in Reqs
    PROVE  decision'[r] = decision[r] \/ decision'[r].outcome # ""
<1> USE DEF clients, handlers, queue, history
<1>1. TypeOK
  BY DEF IInv
<1>2. ASSUME NEW ctxs
      PROVE  P!Pruned(ctxs)[r] = decision[r] \/ P!Pruned(ctxs)[r].outcome # ""
  BY PrunedStep
<1>3. ASSUME NEW q \in Reqs, NEW outcome \in {"approved", "denied"}, NEW scope, NEW a, NEW ctxs,
             decision' = P!Reviewed(q, P!ReviewDecision(outcome, scope, a), ctxs)
      PROVE  decision'[r] = decision[r] \/ decision'[r].outcome # ""
  <2>1. P!ReviewDecision(outcome, scope, a).outcome # ""
    BY DEF P!ReviewDecision
  <2> QED
    BY <1>2, <1>3, <2>1 DEF P!Reviewed, P!Finish
<1>4. CASE Environment \/ Lifecycle \/ UNCHANGED vars \/ \E l \in leases : Revoke(l)
  BY <1>4 DEF Environment, Tick, ProcessExits, ProcessReturns, Disconnect, DeadlineFires, Restart, Lifecycle,
     SessionStarted, TurnStarted, AmbiguousTurnStart, TurnEnded, TurnStopped, SessionEnded,
     PruneOnly, Revoke, vars
<1>5. CASE Review
  <2>1. CASE ListPending \/ \E q \in Reqs, t \in ReadTimes : DecideNotFound(q, t)
    BY <1>2, <2>1 DEF ListPending, DecideNotFound
  <2>2. ASSUME NEW q \in Reqs, NEW scope \in Scopes, NEW a \in Approvers, NEW t \in ReadTimes,
               Approve(q, scope, a, t) \/ Deny(q, scope, a, t)
        PROVE  decision'[r] = decision[r] \/ decision'[r].outcome # ""
    BY <1>3, <2>2 DEF Approve, Deny
  <2> QED
    BY <1>5, <2>1, <2>2 DEF Review
<1>6. ASSUME NEW q \in Reqs, NEW p, NEW t,
             RequestWithoutTurn(q, p, t) \/ RequestOnLease(q, p, t) \/ RequestCreated(q, p, t)
      PROVE  decision'[r] = decision[r] \/ decision'[r].outcome # ""
  <2>1. CASE RequestOnLease(q, p, t)
    <3>1. PICK l \in leases :
             decision' = [decision EXCEPT ![q] = [outcome |-> "approved", scope |-> l.scope,
                                                  approver |-> l.approver]]
      BY <2>1 DEF RequestOnLease, Matching, LivingLeases
    <3> QED
      BY <1>1, <3>1 DEF TypeOK
  <2> QED
    BY <1>6, <2>1 DEF RequestWithoutTurn, RequestCreated
<1>7. ASSUME NEW q \in Reqs, Thread(q)
      PROVE  decision'[r] = decision[r] \/ decision'[r].outcome # ""
  <2>1. CASE ProviderFinishOnContext(q)
    BY <1>1, <2>1 DEF ProviderFinishOnContext, P!FinishOnContext, P!Ended, P!Undecided, TypeOK
  <2>2. CASE ProviderAnswersRequest(q)
    BY <1>1, <2>2, ProviderAssumption DEF ProviderAnswersRequest, TypeOK
  <2> QED
    BY <1>7, <2>1, <2>2 DEF Thread, ProviderRegister, ProviderCollect, P!Register, P!Collect,
       ResumeApproved, ResumeRefused, StartExecution, FinishExecution
<1> QED
  BY <1>4, <1>5, <1>6, <1>7 DEF Next, Request

\* Approvals are made one at a time, each for a request in flight that the same
\* step decides.
LEMMA ApprovalsGrow ==
    ASSUME IInv, [Next]_vars
    PROVE  \/ approvals' = approvals
           \/ \E r \in inflight, d \in Decisions :
                 /\ approvals' = approvals \cup {Approval(request[r], d)}
                 /\ decision'[r].outcome # ""
<1> USE DEF clients, handlers, queue, history
<1>1. TypeOK /\ RequestsAccounted
  BY DEF IInv
<1>2. CASE Environment \/ Lifecycle \/ UNCHANGED vars \/ \E l \in leases : Revoke(l)
  BY <1>2 DEF Environment, Tick, ProcessExits, ProcessReturns, Disconnect, DeadlineFires, Restart, Lifecycle,
     SessionStarted, TurnStarted, AmbiguousTurnStart, TurnEnded, TurnStopped, SessionEnded,
     PruneOnly, Revoke, vars
<1>3. ASSUME NEW r \in Reqs, NEW scope \in Scopes, NEW a \in Approvers, NEW t \in ReadTimes,
             Approve(r, scope, a, t)
      PROVE  \E q \in inflight, d \in Decisions :
                /\ approvals' = approvals \cup {Approval(request[q], d)}
                /\ decision'[q].outcome # ""
  <2> DEFINE d == P!ReviewDecision("approved", scope, a)
  <2>1. /\ r \in pending /\ P!Pruned(ctx')[r].outcome = ""
        /\ approvals' = approvals \cup {Approval(request[r], d)}
        /\ decision' = P!Reviewed(r, d, ctx')
    BY <1>3 DEF Approve, P!Reviewable
  <2>2. d.outcome = "approved" /\ d \in Decisions /\ r \in inflight
    BY <1>1, <2>1, ReviewDecisionType DEF RequestsAccounted, P!ReviewDecision
  <2>3. r \in P!Resolved(r, d)
    BY <2>1 DEF P!Resolved, P!SameSession
  <2>4. decision'[r] = d
    BY <2>1, <2>3 DEF P!Reviewed, P!Finish
  <2> QED
    BY <2>1, <2>2, <2>4
<1>4. CASE Review
  BY <1>3, <1>4 DEF Review, ListPending, Deny, DecideNotFound
<1>5. ASSUME NEW q \in Reqs, NEW p, NEW t,
             RequestWithoutTurn(q, p, t) \/ RequestOnLease(q, p, t) \/ RequestCreated(q, p, t)
      PROVE  approvals' = approvals
  BY <1>5 DEF RequestWithoutTurn, RequestOnLease, RequestCreated
<1>6. ASSUME NEW r \in Reqs, ProviderAnswersRequest(r)
      PROVE  \/ approvals' = approvals
             \/ \E q \in inflight, d \in Decisions :
                   /\ approvals' = approvals \cup {Approval(request[q], d)}
                   /\ decision'[q].outcome # ""
  <2>1. PICK d \in ProviderAnswers :
           /\ decision' = [decision EXCEPT ![r] = d]
           /\ approvals' = IF d.outcome = "approved" /\ Valid(d)
                           THEN approvals \cup {Approval(request[r], d)} ELSE approvals
    BY <1>6 DEF ProviderAnswersRequest
  <2>2. d.outcome # "" /\ d \in Decisions /\ decision'[r] = d /\ r \in inflight
    BY <1>1, <1>6, <2>1, ProviderAssumption
       DEF ProviderAnswersRequest, TypeOK, RequestsAccounted, Decisions, Scopes
  <2> QED
    BY <2>1, <2>2
<1>7. ASSUME NEW q \in Reqs, Thread(q), ~ProviderAnswersRequest(q)
      PROVE  approvals' = approvals
  BY <1>7 DEF Thread, ProviderRegister, ProviderFinishOnContext, ProviderCollect,
     ResumeApproved, ResumeRefused, StartExecution, FinishExecution, Outside
<1> QED
  BY <1>2, <1>4, <1>5, <1>6, <1>7 DEF Next, Request

\* A request gets its record once, as it is admitted in the active turn, and
\* enters flight only then.
LEMMA AdmittedOnce ==
    ASSUME IInv, [Next]_vars, NEW r \in Reqs
    PROVE  \/ /\ request'[r] = request[r]
              /\ r \in inflight' => r \in inflight
              /\ pc'[r] = "idle" => pc[r] = "idle"
           \/ /\ pc[r] = "idle" /\ pc'[r] # "idle"
              /\ request'[r].id = r /\ ActiveIn(sessions', request'[r])
<1> USE DEF clients, handlers, queue, history
<1> DEFINE Kept == /\ request'[r] = request[r]
                   /\ r \in inflight' => r \in inflight
                   /\ pc'[r] = "idle" => pc[r] = "idle"
<1>1. TypeOK
  BY DEF IInv
<1>2. CASE Environment \/ Lifecycle \/ Review \/ UNCHANGED vars \/ \E l \in leases : Revoke(l)
  <2>1. CASE Environment
    <3>1. CASE Restart
      BY <3>1 DEF Restart
    <3>2. CASE Environment /\ ~Restart
      <4>1. request' = request /\ pc' = pc /\ inflight' \subseteq inflight
        BY <3>2 DEF Environment, Tick, ProcessExits, ProcessReturns, Disconnect, DeadlineFires, Commit
      <4> QED
        BY <4>1
    <3> QED
      BY <2>1, <3>1, <3>2
  <2>2. CASE Lifecycle
    <3>1. UNCHANGED <<request, inflight, pc>>
      BY <2>2 DEF Lifecycle, SessionStarted, TurnStarted, AmbiguousTurnStart, TurnEnded, TurnStopped,
         SessionEnded, PruneOnly
    <3> QED
      BY <3>1
  <2>3. CASE Review
    BY <2>3 DEF Review, ListPending, Approve, Deny, DecideNotFound
  <2>4. CASE UNCHANGED vars \/ \E l \in leases : Revoke(l)
    BY <2>4 DEF Revoke, vars
  <2> QED
    BY <1>2, <2>1, <2>2, <2>3, <2>4
<1>3. ASSUME NEW q \in Reqs, NEW p, NEW t, RequestWithoutTurn(q, p, t)
      PROVE  Kept
  BY <1>1, <1>3 DEF RequestWithoutTurn, TypeOK
<1>4. ASSUME NEW q \in Reqs, NEW p \in Procs, NEW t \in ReadTimes,
             RequestOnLease(q, p, t) \/ RequestCreated(q, p, t)
      PROVE  IF q = r THEN /\ pc[r] = "idle" /\ pc'[r] # "idle"
                           /\ request'[r].id = r /\ ActiveIn(sessions', request'[r])
             ELSE Kept
  <2>1. PICK k \in Keys : ActiveKeys(p) = {k} /\ request' = [request EXCEPT ![q] = Context(q, k, t)]
    BY <1>4 DEF RequestOnLease, RequestCreated
  <2>2. LivingSessions[k].state = "active" /\ sessions' = LivingSessions
    BY <1>4, <2>1 DEF ActiveKeys, RequestOnLease, RequestCreated, Commit
  <2>3. Context(q, k, t).id = q /\ ActiveIn(sessions', Context(q, k, t))
    BY <2>2 DEF Context, ActiveIn, Key, Keys
  <2>4. pc[q] = "idle" /\ pc'[q] # "idle" /\ request'[q] = Context(q, k, t)
    BY <1>1, <1>4, <2>1 DEF RequestOnLease, RequestCreated, TypeOK
  <2>5. q # r => Kept
    BY <1>1, <1>4, <2>1 DEF RequestOnLease, RequestCreated, TypeOK
  <2> QED
    BY <2>3, <2>4, <2>5
<1>5. ASSUME NEW q \in Reqs, Thread(q)
      PROVE  Kept
  BY <1>1, <1>5 DEF Thread, ProviderRegister, ProviderFinishOnContext, ProviderCollect,
     ProviderAnswersRequest, P!Register, P!FinishOnContext, P!Collect, Outside,
     ResumeApproved, ResumeRefused, StartExecution, FinishExecution, TypeOK
<1> QED
  BY <1>2, <1>3, <1>4, <1>5 DEF Next, Request

\* ApprovalsMade is inductive.
LEMMA ApprovalsAlwaysMade == Spec => []ApprovalsMade
<1>1. Init => ApprovalsMade
  BY DEF Init, ApprovalsMade
<1>2. IInv /\ IInv' /\ ApprovalsMade /\ [Next]_vars => ApprovalsMade'
  <2> SUFFICES ASSUME IInv, IInv', ApprovalsMade, [Next]_vars
               PROVE  ApprovalsMade'
    OBVIOUS
  <2>1. \A r \in inflight' : request'[r].id = r
    <3>1. inflight' \subseteq Reqs
      BY DEF IInv, TypeOK
    <3> QED
      BY <3>1, AdmittedOnce DEF ApprovalsMade
  <2>2. ASSUME NEW a \in approvals'
        PROVE  decision'[a.id].outcome # ""
    <3>1. CASE a \in approvals
      <4>1. a.id \in Reqs
        BY <3>1 DEF IInv, TypeOK, Approvals
      <4> QED
        BY <3>1, <4>1, DecisionsStay DEF ApprovalsMade
    <3>2. CASE a \notin approvals
      <4>1. PICK r \in inflight, d \in Decisions :
               /\ approvals' = approvals \cup {Approval(request[r], d)}
               /\ decision'[r].outcome # ""
        BY <3>2, ApprovalsGrow
      <4>2. a.id = r
        <5>1. a = Approval(request[r], d)
          BY <3>2, <4>1
        <5> QED
          BY <5>1 DEF Approval, ApprovalsMade
      <4> QED
        BY <4>1, <4>2
    <3> QED
      BY <3>1, <3>2
  <2> QED
    BY <2>1, <2>2 DEF ApprovalsMade
<1> QED
  BY <1>1, <1>2, Invariance, PTL DEF Spec

\* A lease appears only with a decision given in the step, or with one that a
\* request which resumes still holds.
THEOREM LeasesOnlyEverFromDecisions == Spec => LeasesOnlyFromDecisions
<1> DEFINE FromDecision(l) ==
      \/ \E a \in approvals' \ approvals :
            Key(a) = Key(l) /\ a.scope = l.scope /\ a.approver = l.approver
      \/ \E r \in Reqs : /\ Holding(r)
                         /\ Key(request[r]) = Key(l)
                         /\ decision[r].scope = l.scope
                         /\ decision[r].approver = l.approver
<1>1. IInv /\ ApprovalsMade /\ [Next]_vars => [\A l \in leases' \ leases : FromDecision(l)]_vars
  <2> SUFFICES ASSUME IInv, ApprovalsMade, [Next]_vars, NEW l \in leases' \ leases
               PROVE  FromDecision(l)
    OBVIOUS
  \* Whichever action added l, it is the lease of its request and decision.
  <2>1. ASSUME NEW r \in Reqs, NEW d, Approves(r, d) \/ (ResumeApproved(r) /\ d = decision[r])
        PROVE  Key(l) = Key(request[r]) /\ l.scope = d.scope /\ l.approver = d.approver
    <3>1. PICK L \in SUBSET leases, t \in Nat : leases' = Ensured(L, request[r], d, t)
      BY <2>1, EnsuringStep
    <3>2. l = NewLease(request[r], d, t)
      BY <3>1 DEF Ensured
    <3> QED
      BY <3>2 DEF NewLease, Key
  <2>2. ASSUME NEW r \in Reqs, NEW d, Approves(r, d)
        PROVE  FromDecision(l)
    <3>1. /\ approvals' = approvals \cup {Approval(request[r], d)}
          /\ r \in pending /\ decision[r].outcome = ""
      BY <2>2, PrunedStep DEF Approves, Approve, P!Reviewable
    <3>2. request[r].id = r
      BY <3>1 DEF IInv, RequestsAccounted, ApprovalsMade
    <3>3. Approval(request[r], d) \notin approvals
      BY <3>1, <3>2 DEF ApprovalsMade, Approval
    <3>4. LET a == Approval(request[r], d)
          IN  Key(a) = Key(request[r]) /\ a.scope = d.scope /\ a.approver = d.approver
      BY DEF Approval, Key
    <3> QED
      BY <2>1, <2>2, <3>1, <3>3, <3>4
  <2>3. ASSUME NEW r \in Reqs, ResumeApproved(r)
        PROVE  FromDecision(l)
    BY <2>1, <2>3 DEF ResumeApproved, Holding
  <2> QED
    BY <2>2, <2>3, LeaseSteps
<1> QED
  BY <1>1, Invariance, ApprovalsAlwaysMade, PTL DEF Spec, LeasesOnlyFromDecisions

-----------------------------------------------------------------------------
(***************************************************************************)
(* Broker implements Authority, as long as no session ID is started twice. *)
(*                                                                         *)
(* A step of Broker is a step Run of Authority when a goroutine obtains    *)
(* its authority, a step Approve when somebody approves, and a Lapse       *)
(* otherwise.  What has to be shown of a lapse is that nothing comes into  *)
(* force: no lease appears (LeaseSteps), and no request whose approval was *)
(* out of force is back in its turn, because turns only go forward         *)
(* (SessionMoves, ContextsAge).  That is where a second life of a session, *)
(* which counts its turns from 1 again, would break the argument.          *)
(***************************************************************************)

RunningPCs == {"authorized", "executing", "done"}

\* Sessions that are known have been started, once; a request in flight is of
\* a session that has been started and of a turn that has been reached.
RInv ==
    /\ \A k \in Keys : /\ epoch[k] <= 1
                       /\ sessions[k] # Absent => epoch[k] = 1 /\ sessions[k].state # "absent"
    /\ \A r \in inflight :
          /\ epoch[Key(request[r])] = 1
          /\ sessions[Key(request[r])] # Absent =>
                request[r].turn <= sessions[Key(request[r])].turn
    /\ \A r \in Reqs : pc[r] = "idle" => request[r] = NoRequest

\* What a step may do to one session.
SessionKept(k) == sessions'[k] = sessions[k] /\ epoch'[k] = epoch[k]
SessionGone(k) == sessions'[k] = Absent /\ epoch'[k] = epoch[k]

TurnOver(k) ==
    /\ sessions[k] # Absent /\ sessions'[k].state = "idle"
    /\ sessions'[k].turn = sessions[k].turn /\ epoch'[k] = epoch[k]

TurnBegun(k) ==
    /\ sessions[k] # Absent /\ sessions'[k].state = "active"
    /\ sessions'[k].turn = sessions[k].turn + 1 /\ epoch'[k] = epoch[k]

SessionBegun(k) ==
    /\ epoch[k] < MaxEpoch /\ epoch'[k] = epoch[k] + 1 /\ sessions'[k].state = "idle"

LEMMA SessionMoves ==
    ASSUME IInv, [Next]_vars, NEW k \in Keys
    PROVE  SessionKept(k) \/ SessionGone(k) \/ TurnOver(k) \/ TurnBegun(k) \/ SessionBegun(k)
<1> USE DEF clients, handlers, queue, history
<1>1. sessions \in SessionMaps /\ epoch \in [Keys -> Nat]
  BY DEF IInv, TypeOK, SessionMaps
<1>2. LivingSessions \in SessionMaps
      /\ (LivingSessions[k] = sessions[k] \/ LivingSessions[k] = Absent)
  BY <1>1 DEF LivingSessions, SessionMaps, Absent
<1>3. ASSUME sessions' = LivingSessions \/ sessions' = sessions, epoch' = epoch
      PROVE  SessionKept(k) \/ SessionGone(k)
  BY <1>2, <1>3 DEF SessionKept, SessionGone
<1>4. CASE Environment \/ UNCHANGED vars \/ \E l \in leases : Revoke(l)
  <2>1. CASE Restart
    BY <2>1 DEF Restart, SessionGone
  <2> QED
    BY <1>3, <1>4, <2>1 DEF Environment, Tick, ProcessExits, ProcessReturns, Disconnect, DeadlineFires, Commit,
       Revoke, vars
<1>5. CASE Review
  BY <1>3, <1>5 DEF Review, ListPending, Approve, Deny, DecideNotFound, Commit
<1>6. CASE Request
  <2>1. PICK r \in Reqs :
           \/ \E p \in Procs, t \in ReadTimes :
                 \/ RequestWithoutTurn(r, p, t)
                 \/ RequestOnLease(r, p, t)
                 \/ RequestCreated(r, p, t)
           \/ Thread(r)
    BY <1>6 DEF Request
  <2>2. CASE Thread(r)
    BY <1>3, <2>2 DEF Thread, ProviderRegister, ProviderFinishOnContext, ProviderCollect,
       ProviderAnswersRequest, Outside, ResumeApproved, ResumeRefused, StartExecution,
       FinishExecution
  <2> QED
    BY <1>3, <2>1, <2>2 DEF RequestWithoutTurn, RequestOnLease, RequestCreated, Commit
\* A lifecycle event of another session prunes this one.
<1>7. ASSUME NEW j \in Keys, NEW S, j # k, sessions' = [LivingSessions EXCEPT ![j] = S],
             epoch'[k] = epoch[k]
      PROVE  SessionKept(k) \/ SessionGone(k)
  BY <1>2, <1>7 DEF SessionKept, SessionGone, SessionMaps
<1>8. ASSUME NEW j \in Keys, NEW t, SessionStarted(j, t)
      PROVE  SessionKept(k) \/ SessionGone(k) \/ SessionBegun(k)
  <2>1. sessions' = [LivingSessions EXCEPT ![j].state = "idle"]
        /\ epoch' = [epoch EXCEPT ![j] = @ + 1] /\ epoch[j] < MaxEpoch
    BY <1>8 DEF SessionStarted, Commit
  <2>2. CASE j = k
    BY <1>1, <1>2, <2>1, <2>2 DEF SessionBegun, SessionMaps
  <2>3. CASE j # k
    BY <1>1, <1>2, <2>1, <2>3 DEF SessionKept, SessionGone, SessionMaps
  <2> QED
    BY <2>2, <2>3
<1>9. ASSUME NEW j \in Keys, NEW t, TurnStarted(j, t)
      PROVE  SessionKept(k) \/ SessionGone(k) \/ TurnBegun(k)
  <2>1. /\ sessions' = [LivingSessions EXCEPT ![j].state = "active", ![j].turn = @ + 1]
        /\ epoch' = epoch /\ LivingSessions[j].state = "idle"
    BY <1>9 DEF TurnStarted, Commit
  <2>2. CASE j = k
    <3>1. LivingSessions[k] = sessions[k] /\ sessions[k] # Absent
      BY <1>2, <2>1, <2>2 DEF Absent
    <3>2. sessions'[k].state = "active" /\ sessions'[k].turn = sessions[k].turn + 1
      BY <1>2, <2>1, <2>2, <3>1 DEF SessionMaps
    <3> QED
      BY <2>1, <3>1, <3>2 DEF TurnBegun
  <2>3. CASE j # k
    BY <1>2, <2>1, <2>3 DEF SessionKept, SessionGone, SessionMaps
  <2> QED
    BY <2>2, <2>3
<1>10. ASSUME NEW j \in Keys, NEW t, TurnStopped(j, t)
       PROVE  SessionKept(k) \/ SessionGone(k) \/ TurnOver(k)
  <2>1. /\ sessions' = [LivingSessions EXCEPT ![j].state = "idle"]
        /\ epoch' = epoch /\ LivingSessions[j] # Absent
    BY <1>10 DEF TurnStopped, Commit
  <2>2. CASE j = k
    <3>1. LivingSessions[k] = sessions[k] /\ sessions[k] # Absent
      BY <1>2, <2>1, <2>2
    <3>2. sessions'[k].turn = sessions[k].turn /\ sessions'[k].state = "idle"
      BY <1>2, <2>1, <2>2, <3>1 DEF SessionMaps
    <3> QED
      BY <2>1, <3>1, <3>2 DEF TurnOver
  <2>3. CASE j # k
    BY <1>2, <2>1, <2>3 DEF SessionKept, SessionGone, SessionMaps
  <2> QED
    BY <2>2, <2>3
<1>11. ASSUME NEW j \in Keys, NEW t, SessionEnded(j, t)
       PROVE  SessionKept(k) \/ SessionGone(k)
  <2>1. sessions' = [LivingSessions EXCEPT ![j] = Absent] /\ epoch' = epoch
    BY <1>11 DEF SessionEnded, Commit
  <2> QED
    BY <1>2, <2>1 DEF SessionKept, SessionGone, SessionMaps
<1>12. CASE Lifecycle
  BY <1>3, <1>8, <1>9, <1>10, <1>11, <1>12 DEF Lifecycle, AmbiguousTurnStart, TurnEnded,
     PruneOnly, Commit
<1> QED
  BY <1>4, <1>5, <1>6, <1>12 DEF Next

\* RInv is inductive if sessions are started once.
LEMMA RInvariance == ASSUME MaxEpoch = 1 PROVE Spec => []RInv
<1>1. Init => RInv
  BY DEF Init, RInv
<1>2. IInv /\ IInv' /\ RInv /\ [Next]_vars => RInv'
  <2> SUFFICES ASSUME IInv, IInv', RInv, [Next]_vars
               PROVE  RInv'
    OBVIOUS
  <2>1. epoch \in [Keys -> Nat] /\ sessions \in SessionMaps
    BY DEF IInv, TypeOK, SessionMaps
  <2>2. ASSUME NEW k \in Keys
        PROVE  /\ epoch'[k] <= 1
               /\ sessions'[k] # Absent => epoch'[k] = 1 /\ sessions'[k].state # "absent"
    BY <2>1, SessionMoves
       DEF RInv, SessionKept, SessionGone, TurnOver, TurnBegun, SessionBegun, Absent
  <2>3. ASSUME NEW r \in inflight'
        PROVE  /\ epoch'[Key(request'[r])] = 1
               /\ sessions'[Key(request'[r])] # Absent =>
                     request'[r].turn <= sessions'[Key(request'[r])].turn
    <3> DEFINE k == Key(request'[r])
    <3>1. r \in Reqs /\ request'[r] \in Requests
      BY DEF IInv, TypeOK, Placed, RequestsAccounted
    <3>2. k \in Keys /\ request'[r].turn \in Nat
      BY <3>1, KeyType DEF Requests
    <3> HIDE DEF k
    <3>3. sessions[k].turn \in Nat /\ epoch[k] \in Nat
      BY <2>1, <3>2 DEF SessionMaps
    <3>4. CASE r \in inflight /\ request'[r] = request[r]
      <4>1. epoch[k] = 1 /\ (sessions[k] # Absent => request'[r].turn <= sessions[k].turn)
        BY <3>4 DEF RInv, k
      <4> QED
        BY <3>2, <3>3, <4>1, SessionMoves
           DEF k, SessionKept, SessionGone, TurnOver, TurnBegun, SessionBegun
    <3>5. CASE ActiveIn(sessions', request'[r])
      <4>1. sessions'[k].state = "active" /\ request'[r].turn = sessions'[k].turn
        BY <3>5 DEF ActiveIn, k
      <4>2. sessions'[k] # Absent
        BY <4>1 DEF Absent
      <4> QED
        BY <2>2, <3>2, <4>1, <4>2 DEF k
    <3> QED
      BY <3>1, <3>4, <3>5, AdmittedOnce
  <2>4. ASSUME NEW r \in Reqs, pc'[r] = "idle"
        PROVE  request'[r] = NoRequest
    BY <2>4, AdmittedOnce DEF RInv
  <2> QED
    BY <2>2, <2>3, <2>4 DEF RInv
<1> QED
  BY <1>1, <1>2, Invariance, PTL DEF Spec

\* A request in flight whose turn is the active one after a step belonged to the
\* active turn before it.
LEMMA ContextsAge ==
    ASSUME MaxEpoch = 1, IInv, RInv, [Next]_vars, NEW r \in inflight,
           sessions'[Key(request[r])].state = "active",
           sessions'[Key(request[r])].turn = request[r].turn
    PROVE  ContextActive(request[r])
<1> DEFINE k == Key(request[r])
<1>1. request[r] \in Requests
  BY DEF IInv, TypeOK, Placed, RequestsAccounted
<1>2. k \in Keys /\ request[r].turn \in Nat
  BY <1>1, KeyType DEF Requests
<1>3. sessions[k].turn \in Nat /\ epoch[k] \in Nat
  BY <1>2 DEF IInv, TypeOK
<1>4. epoch[k] = 1 /\ (sessions[k] # Absent => request[r].turn <= sessions[k].turn)
  BY DEF RInv
<1>5. sessions'[k].state = "active" /\ sessions'[k].turn = request[r].turn
  OBVIOUS
<1>6. SessionKept(k)
  <2> HIDE DEF k
  <2> QED
    BY <1>2, <1>3, <1>4, <1>5, SessionMoves
       DEF SessionGone, TurnOver, TurnBegun, SessionBegun, Absent
<1> QED
  BY <1>5, <1>6 DEF SessionKept, ContextActive

\* A request holds an approval after a step only if it held it before, or got it
\* in the step.
LEMMA HoldingKept ==
    ASSUME MaxEpoch = 1, IInv, RInv, FreshUndecided, [Next]_vars, NEW q \in Reqs, Holding(q)'
    PROVE  \/ /\ Holding(q)
              /\ decision'[q] = decision[q] /\ request'[q] = request[q]
           \/ \E r \in Reqs, d \in Decisions :
                 /\ Approves(r, d) /\ q \in P!Resolved(r, d)
                 /\ decision'[q] = d /\ request'[q] = request[q]
           \/ ProviderAnswersRequest(q)
<1> DEFINE Same == /\ pc[q] \in {"waiting", "returned"}
                   /\ decision'[q] = decision[q] /\ request'[q] = request[q]
           Given == \E r \in Reqs, d \in Decisions :
                       /\ Approves(r, d) /\ q \in P!Resolved(r, d)
                       /\ decision'[q] = d /\ request'[q] = request[q]
<1> USE DEF clients, handlers, queue, history
<1>1. TypeOK /\ RequestsAccounted
  BY DEF IInv
<1>2. pc'[q] \in {"waiting", "returned"} /\ decision'[q].outcome = "approved"
  BY DEF Holding, Granted
<1>3. ASSUME Environment \/ Lifecycle \/ UNCHANGED vars \/ \E l \in leases : Revoke(l)
      PROVE  Same
  <2>1. ~Restart
    BY <1>2 DEF Restart
  <2>2. pc' = pc /\ decision' = decision /\ request' = request
    <3>1. Lifecycle => pc' = pc /\ decision' = decision /\ request' = request
      BY DEF Lifecycle, SessionStarted, TurnStarted, AmbiguousTurnStart, TurnEnded,
         TurnStopped, SessionEnded, PruneOnly
    <3> QED
      BY <1>3, <2>1, <3>1 DEF Environment, Tick, ProcessExits, ProcessReturns, Disconnect, DeadlineFires,
         Revoke, vars
  <2> QED
    BY <1>2, <2>2
<1>4. ASSUME Review
      PROVE  Same \/ Given
  <2>1. UNCHANGED <<pc, request>>
    BY <1>4 DEF Review, ListPending, Approve, Deny, DecideNotFound
  <2>2. ASSUME NEW ctxs, decision'[q] = P!Pruned(ctxs)[q]
        PROVE  Same
    BY <1>2, <2>1, <2>2, PrunedStep
  <2>3. ASSUME NEW r \in Reqs, NEW scope \in Scopes, NEW a \in Approvers, NEW t \in ReadTimes,
               Approve(r, scope, a, t)
        PROVE  Same \/ Given
    <3> DEFINE d == P!ReviewDecision("approved", scope, a)
    <3>1. Approves(r, d) /\ d \in Decisions
      BY <2>3, ReviewDecisionType DEF Approves
    <3>2. decision'[q] = P!Pruned(ctx')[q] \/ (q \in P!Resolved(r, d) /\ decision'[q] = d)
      BY <2>3 DEF Approve, P!Reviewed, P!Finish
    <3> HIDE DEF d
    <3> QED
      BY <2>1, <2>2, <3>1, <3>2
  <2>4. ASSUME NEW r \in Reqs, NEW scope \in Scopes, NEW a \in Approvers, NEW t \in ReadTimes,
               Deny(r, scope, a, t)
        PROVE  Same
    <3> DEFINE d == P!ReviewDecision("denied", scope, a)
    <3>1. decision'[q] = P!Pruned(ctx')[q] \/ decision'[q] = d
      BY <2>4 DEF Deny, P!Reviewed, P!Finish
    <3>2. d.outcome = "denied"
      BY DEF P!ReviewDecision
    <3> HIDE DEF d
    <3> QED
      BY <1>2, <2>2, <3>1, <3>2
  <2>5. ASSUME decision' = P!Pruned(ctx')
        PROVE  Same
    BY <2>2, <2>5
  <2> HIDE DEF Same, Given
  <2> QED
    BY <1>4, <2>3, <2>4, <2>5 DEF Review, ListPending, DecideNotFound
<1>5. ASSUME NEW r \in Reqs, NEW p, NEW t,
             RequestWithoutTurn(r, p, t) \/ RequestOnLease(r, p, t) \/ RequestCreated(r, p, t)
      PROVE  Same
  <2>1. pc'[r] \notin {"waiting", "returned"} /\ (q # r => pc'[q] = pc[q])
    BY <1>1, <1>5 DEF RequestWithoutTurn, RequestOnLease, RequestCreated, TypeOK
  <2>2. q # r
    BY <1>2, <2>1
  <2> QED
    BY <1>1, <1>2, <1>5, <2>1, <2>2 DEF RequestWithoutTurn, RequestOnLease, RequestCreated, TypeOK
<1>6. ASSUME NEW r \in Reqs, r # q, Thread(r)
      PROVE  Same
  BY <1>1, <1>2, <1>6 DEF Thread, ProviderRegister, ProviderFinishOnContext, ProviderCollect,
     ProviderAnswersRequest, P!Register, P!FinishOnContext, P!Collect, Outside,
     ResumeApproved, ResumeRefused, StartExecution, FinishExecution, TypeOK
<1>7. ASSUME Thread(q)
      PROVE  Same \/ ProviderAnswersRequest(q)
  <2>1. CASE ProviderRegister(q)
    BY <1>2, <2>1 DEF ProviderRegister, P!Register, FreshUndecided
  <2>2. CASE ProviderFinishOnContext(q)
    BY <1>1, <1>2, <2>2 DEF ProviderFinishOnContext, P!FinishOnContext, P!Ended, P!Undecided, TypeOK
  <2>3. CASE ProviderCollect(q)
    <3>1. pc[q] = "waiting" /\ decision' = decision /\ request' = request
      BY <2>3 DEF ProviderCollect, P!Collect
    <3> QED
      BY <3>1
  <2>4. CASE ResumeApproved(q) \/ ResumeRefused(q) \/ StartExecution(q) \/ FinishExecution(q)
    BY <1>1, <1>2, <2>4 DEF ResumeApproved, ResumeRefused, StartExecution, FinishExecution, TypeOK
  <2> QED
    BY <1>7, <2>1, <2>2, <2>3, <2>4 DEF Thread
<1>8. Same \/ Given \/ ProviderAnswersRequest(q)
  <2> HIDE DEF Same, Given
  <2> QED
    BY <1>3, <1>4, <1>5, <1>6, <1>7 DEF Next, Request
<1>9. ASSUME Same
      PROVE  Holding(q)
  <2>1. q \in inflight
    BY <1>1, <1>9 DEF RequestsAccounted
  <2>2. Valid(decision[q]) /\ decision[q].outcome = "approved"
    BY <1>9 DEF Holding, Granted, Valid, Scopes
  <2>3. sessions'[Key(request[q])].state = "active"
        /\ sessions'[Key(request[q])].turn = request[q].turn
    BY <1>9 DEF Holding, Granted, ContextActive, Key
  <2> QED
    BY <1>9, <2>1, <2>2, <2>3, ContextsAge DEF Holding, Granted
<1> QED
  BY <1>8, <1>9

\* A request that is running after a step and was not before has just been
\* authorised.
LEMMA RunningGained ==
    ASSUME IInv, [Next]_vars, NEW r \in Reqs, pc'[r] \in RunningPCs, pc[r] \notin RunningPCs
    PROVE  \/ ResumeApproved(r)
           \/ \E p \in Procs, t \in ReadTimes : RequestOnLease(r, p, t)
<1>1. TypeOK
  BY DEF IInv
<1> USE DEF clients, handlers, queue, history, RunningPCs
<1>2. Next
  BY DEF vars
<1>3. pc'[r] = "authorized"
  <2>1. ASSUME Environment \/ Lifecycle \/ Review \/ \E l \in leases : Revoke(l)
        PROVE  pc'[r] = pc[r] \/ pc'[r] = "lost"
    BY <2>1, OthersLeavePlaces
  <2>2. ASSUME NEW q \in Reqs, Thread(q)
        PROVE  pc'[r] = "authorized" \/ pc'[r] \notin RunningPCs \/ pc[r] \in RunningPCs
    BY <1>1, <2>2 DEF Thread, ProviderRegister, ProviderFinishOnContext, ProviderCollect,
       ProviderAnswersRequest, ResumeApproved, ResumeRefused, StartExecution, FinishExecution,
       P!Register, P!FinishOnContext, P!Collect, TypeOK
  <2>3. ASSUME NEW q \in Reqs, NEW p, NEW t,
               RequestWithoutTurn(q, p, t) \/ RequestOnLease(q, p, t) \/ RequestCreated(q, p, t)
        PROVE  pc'[r] = pc[r] \/ pc'[r] \in {"refused", "authorized", "entered"}
    BY <1>1, <2>3 DEF RequestWithoutTurn, RequestOnLease, RequestCreated, TypeOK
  <2> QED
    BY <1>2, <2>1, <2>2, <2>3 DEF Next, Request
<1> QED
  BY <1>1, <1>2, <1>3, AuthorityGained

GrantOf(r) == Grant(request[r], decision[r].scope, decision[r].approver)

RunningNow == {r \in Reqs : pc[r] \in RunningPCs}

\* What is in force is good in its session and turn.
AllInForce == \A g \in InForceNow : A!InForce(g, sessions)

LEMMA InForceHolds == IInv /\ RInv => AllInForce
<1> SUFFICES ASSUME IInv, RInv, NEW g \in InForceNow
             PROVE  A!InForce(g, sessions)
  BY DEF AllInForce
<1>1. ASSUME NEW l \in leases, g = Grant(l, l.scope, l.approver)
      PROVE  A!InForce(g, sessions)
  <2>1. l \in Leases /\ Key(l) \in Keys
    BY KeyType DEF IInv, TypeOK
  <2>2. /\ sessions[Key(l)] # Absent
        /\ l.scope = "message" =>
             sessions[Key(l)].state = "active" /\ sessions[Key(l)].turn = l.turn
    BY DEF IInv, LeasesCurrent
  <2>3. sessions[Key(l)].state # "absent"
    BY <2>1, <2>2 DEF RInv
  <2>4. /\ A!ContextOf(g) = Key(l) /\ g.scope = l.scope
        /\ g.scope = "message" => g.turn = l.turn
    BY <1>1 DEF Grant, Key, A!ContextOf
  <2>5. l.scope \in {"message", "session"}
    BY <2>1 DEF Leases
  <2> QED
    BY <2>2, <2>3, <2>4, <2>5 DEF A!InForce, A!InTurn
<1>2. ASSUME NEW r \in Reqs, Holding(r), g = GrantOf(r)
      PROVE  A!InForce(g, sessions)
  <2>1. /\ sessions[Key(request[r])].state = "active"
        /\ sessions[Key(request[r])].turn = request[r].turn
    BY <1>2 DEF Holding, Granted, ContextActive
  <2>2. A!ContextOf(g) = Key(request[r]) /\ (g.scope # "session" => g.turn = request[r].turn)
    BY <1>2 DEF GrantOf, Grant, Key, A!ContextOf
  <2> QED
    BY <2>1, <2>2 DEF A!InForce, A!InTurn
<1> QED
  BY <1>1, <1>2 DEF InForceNow, GrantOf

\* Requests are admitted once, in the active turn.
LEMMA AdmissionsRefine ==
    ASSUME IInv, RInv, [Next]_vars
    PROVE  A!Admissions
<1> SUFFICES ASSUME NEW r \in Reqs, request'[r] # request[r]
             PROVE  request[r] = NoRequest /\ A!InTurn(request'[r], sessions')
  BY DEF A!Admissions
<1>1. pc[r] = "idle" /\ ActiveIn(sessions', request'[r])
  BY AdmittedOnce
<1> QED
  BY <1>1 DEF RInv, ActiveIn, A!InTurn, A!ContextOf, Key

\* A step in which nothing comes into force keeps what remains in force.
LEMMA Keeps ==
    ASSUME AllInForce', NEW G, InForceNow' \subseteq G
    PROVE  A!Keep(G)
  BY DEF A!Keep, AllInForce

\* Without a new approval nothing comes into force.
LEMMA NothingGained ==
    ASSUME MaxEpoch = 1, IInv, RInv, FreshUndecided, [Next]_vars,
           ~ \E r \in Reqs, d \in Decisions : Approves(r, d),
           \A r \in Reqs : ProviderAnswersRequest(r) => ~Holding(r)'
    PROVE  InForceNow' \subseteq InForceNow
<1>1. ASSUME NEW r \in Reqs, Holding(r)'
      PROVE  Holding(r) /\ GrantOf(r)' = GrantOf(r)
  <2>1. Holding(r) /\ decision'[r] = decision[r] /\ request'[r] = request[r]
    BY <1>1, HoldingKept
  <2> QED
    BY <2>1 DEF GrantOf, Grant
<1>2. ASSUME NEW l \in leases'
      PROVE  Grant(l, l.scope, l.approver) \in InForceNow
  <2>1. CASE l \in leases
    BY <2>1 DEF InForceNow
  \* The lease of a request that resumes is the approval it held.
  <2>2. ASSUME NEW r \in Reqs, ResumeApproved(r), l \notin leases
        PROVE  Grant(l, l.scope, l.approver) = GrantOf(r) /\ Holding(r)
    <3>1. Holding(r) /\ leases' = Ensured(leases, request[r], decision[r], clock)
      BY <2>2 DEF ResumeApproved, Holding
    <3>2. l = NewLease(request[r], decision[r], clock) /\ decision[r].scope # "command"
      BY <2>2, <3>1 DEF Ensured
    <3>3. decision[r].scope \in {"message", "session"}
      BY <3>1, <3>2 DEF Holding, Granted, Valid, Scopes
    <3> QED
      BY <3>1, <3>2, <3>3 DEF NewLease, Grant, GrantOf
  <2> QED
    BY <2>1, <2>2, LeaseSteps DEF InForceNow, GrantOf
<1>3. InForceNow' = {Grant(l, l.scope, l.approver) : l \in leases'}
                    \cup {GrantOf(r)' : r \in {q \in Reqs : Holding(q)'}}
  BY DEF InForceNow, GrantOf, Grant
<1> QED
  BY <1>1, <1>2, <1>3 DEF InForceNow, GrantOf

\* A goroutine that obtains its authority does so in its turn, from a lease or an
\* approval in force.
LEMMA RunRefines ==
    ASSUME MaxEpoch = 1, IInv, RInv, FreshUndecided, [Next]_vars, AllInForce', NEW r \in Reqs,
           ResumeApproved(r) \/ \E p \in Procs, t \in ReadTimes : RequestOnLease(r, p, t)
    PROVE  A!Next
<1> USE DEF RunningPCs
<1>1. TypeOK
  BY DEF IInv
<1>2. InForceNow' \subseteq InForceNow
  <2>1. \A q \in Reqs, d \in Decisions : ~Approves(q, d)
    BY <1>1 DEF Approves, Approve, ResumeApproved, RequestOnLease, TypeOK
  <2>2. \A q \in Reqs : ~ProviderAnswersRequest(q)
    BY <1>1 DEF ProviderAnswersRequest, ResumeApproved, RequestOnLease, TypeOK
  <2> QED
    BY <2>1, <2>2, NothingGained
<1>3. r \notin RunningNow /\ RunningNow' = RunningNow \cup {r}
  BY <1>1 DEF RunningNow, ResumeApproved, RequestOnLease, TypeOK
<1>4. A!InTurn(request'[r], sessions') /\ \E g \in InForceNow : A!GrantCovers(g, request'[r])
  <2>1. CASE ResumeApproved(r)
    <3>1. Holding(r) /\ request' = request /\ sessions' = sessions
      BY <2>1 DEF ResumeApproved, Holding
    <3>2. GrantOf(r) \in InForceNow
      BY <3>1 DEF InForceNow, GrantOf
    <3>3. A!GrantCovers(GrantOf(r), request[r])
      BY DEF A!GrantCovers, A!ContextOf, GrantOf, Grant
    <3>4. A!InTurn(request[r], sessions)
      BY <3>1 DEF Holding, Granted, ContextActive, A!InTurn, A!ContextOf, Key
    <3> QED
      BY <3>1, <3>2, <3>3, <3>4
  <2>2. ASSUME NEW p \in Procs, NEW t \in ReadTimes, RequestOnLease(r, p, t)
        PROVE  A!InTurn(request'[r], sessions')
               /\ \E g \in InForceNow : A!GrantCovers(g, request'[r])
    <3>1. PICK k \in Keys : /\ ActiveKeys(p) = {k}
                            /\ Matching(k, t) # {}
                            /\ request' = [request EXCEPT ![r] = Context(r, k, t)]
      BY <2>2 DEF RequestOnLease
    <3>2. PICK l \in Matching(k, t) : TRUE
      BY <3>1
    <3>3. /\ request'[r] = Context(r, k, t) /\ Key(Context(r, k, t)) = k
          /\ Context(r, k, t).turn = LivingSessions[k].turn
      BY <1>1, <3>1 DEF TypeOK, Context, Key, Keys
    <3>4. LivingSessions[k].state = "active" /\ sessions' = LivingSessions
      BY <2>2, <3>1 DEF ActiveKeys, RequestOnLease, Commit
    <3>5. /\ l \in leases /\ Key(l) = k
          /\ l.scope = "session" \/ (l.scope = "message" /\ l.turn = LivingSessions[k].turn)
      BY DEF Matching, LivingLeases
    <3>6. Grant(l, l.scope, l.approver) \in InForceNow
      BY <3>5 DEF InForceNow
    <3>7. A!GrantCovers(Grant(l, l.scope, l.approver), request'[r])
      BY <3>3, <3>5 DEF A!GrantCovers, A!ContextOf, Grant, Key
    <3>8. A!InTurn(request'[r], sessions')
      BY <3>3, <3>4 DEF A!InTurn, A!ContextOf, Key
    <3> QED
      BY <3>6, <3>7, <3>8
  <2> QED
    BY <2>1, <2>2
<1>5. A!Admissions
  BY AdmissionsRefine
<1>6. A!Keep(InForceNow)
  BY <1>2, Keeps
<1> QED
  BY <1>3, <1>4, <1>5, <1>6 DEF A!Next, A!Run, RunningNow

\* Whoever approves, one grant comes into force: for the reviewed request, for
\* those decided with it, and for the lease that stands for them.
LEMMA ApproveRefines ==
    ASSUME MaxEpoch = 1, IInv, IInv', RInv, FreshUndecided, [Next]_vars, AllInForce',
           NEW r \in Reqs, NEW d, Approves(r, d)
    PROVE  A!Next
<1> DEFINE g == Grant(request[r], d.scope, d.approver)
<1>1. PICK L \in SUBSET leases, S \in SessionMaps, t \in Nat :
         /\ \A l \in L : CurrentIn(S, l)
         /\ request[r] \in Requests /\ ActiveIn(S, request[r]) /\ sessions' = S
         /\ Valid(d) /\ d.outcome = "approved" /\ d.approver \in Approvers
         /\ t <= clock /\ clock \in Nat /\ clock' = clock
         /\ leases' = Ensured(L, request[r], d, t)
  BY EnsuringStep
<1>2. /\ UNCHANGED <<pc, request>>
      /\ r \in pending /\ P!Pruned(ctx')[r].outcome = ""
      /\ decision' = P!Reviewed(r, d, ctx')
  BY DEF Approves, Approve, P!Reviewable
<1>3. ASSUME NEW l \in leases', l \notin leases
      PROVE  Grant(l, l.scope, l.approver) = g
  <2>1. l = NewLease(request[r], d, t) /\ d.scope # "command"
    BY <1>1, <1>3 DEF Ensured
  <2>2. d.scope \in {"message", "session"}
    BY <1>1, <2>1 DEF Valid, Scopes
  <2> QED
    BY <2>1, <2>2 DEF NewLease, Grant
\* Every request the approval decides is given the same grant.
<1>4. ASSUME NEW q \in P!Resolved(r, d)
      PROVE  Grant(request[q], d.scope, d.approver) = g
  <2>1. CASE d.scope = "command"
    BY <1>4, <2>1 DEF P!Resolved
  <2>2. CASE d.scope # "command"
    <3>1. d.scope \in {"message", "session"}
      BY <1>1, <2>2 DEF Valid, Scopes
    <3>2. /\ request[q].process = request[r].process
          /\ request[q].session = request[r].session
          /\ d.scope = "session" \/ request[q].turn = request[r].turn
      BY <1>1, <2>2, <1>4 DEF P!Resolved, P!SameSession
    <3> QED
      BY <3>1, <3>2 DEF Grant
  <2> QED
    BY <2>1, <2>2
<1>5. ASSUME NEW q \in Reqs, Holding(q)'
      PROVE  (Holding(q) /\ GrantOf(q)' = GrantOf(q)) \/ GrantOf(q)' = g
  <2>1. CASE Holding(q) /\ decision'[q] = decision[q] /\ request'[q] = request[q]
    BY <2>1 DEF GrantOf, Grant
  <2>2. CASE ~(Holding(q) /\ decision'[q] = decision[q] /\ request'[q] = request[q])
    <3>1. ~ProviderAnswersRequest(q)
      BY DEF Approves, Approve, ProviderAnswersRequest
    <3>2. PICK s \in Reqs, e \in Decisions :
             /\ Approves(s, e) /\ q \in P!Resolved(s, e)
             /\ decision'[q] = e /\ request'[q] = request[q]
      BY <1>5, <2>2, <3>1, HoldingKept
    <3>3. decision'[q] = P!Pruned(ctx')[q] \/ (q \in P!Resolved(r, d) /\ decision'[q] = d)
      BY <1>2 DEF P!Reviewed, P!Finish
    <3>4. CASE q \in P!Resolved(r, d) /\ decision'[q] = d
      BY <1>4, <3>2, <3>4 DEF GrantOf, Grant
    <3>5. CASE decision'[q] = P!Pruned(ctx')[q]
      <4>1. decision'[q].outcome = "approved" /\ decision'[q] = decision[q]
        BY <1>5, <3>5, PrunedStep DEF Holding, Granted
      <4>2. q \in inflight
        <5>1. pc[q] \in {"waiting", "returned"}
          BY <1>2, <1>5 DEF Holding
        <5> QED
          BY <5>1 DEF IInv, RequestsAccounted
      <4>3. ContextActive(request[q])
        BY <1>5, <3>2, <4>2, ContextsAge DEF Holding, Granted, ContextActive, Key
      <4>4. Holding(q)
        BY <1>2, <1>5, <4>1, <4>3 DEF Holding, Granted, Valid, Scopes
      <4> QED
        BY <2>2, <3>2, <4>1, <4>4
    <3> QED
      BY <3>3, <3>4, <3>5
  <2> QED
    BY <2>1, <2>2
<1>6. InForceNow' = {Grant(l, l.scope, l.approver) : l \in leases'}
                    \cup {GrantOf(q)' : q \in {s \in Reqs : Holding(s)'}}
  BY DEF InForceNow, GrantOf, Grant
<1>7. InForceNow' \subseteq InForceNow \cup {g}
  BY <1>1, <1>3, <1>5, <1>6 DEF InForceNow, GrantOf
<1>8. g \in InForceNow'
  <2>1. r \in P!Resolved(r, d)
    BY <1>2 DEF P!Resolved, P!SameSession
  <2>2. decision'[r] = d
    BY <1>2, <2>1 DEF P!Reviewed, P!Finish
  <2>3. pc'[r] = "waiting"
    BY <1>2 DEF IInv, RequestsAccounted
  <2>4. Holding(r)'
    BY <1>1, <1>2, <2>2, <2>3 DEF Holding, Granted, Valid, Scopes, ContextActive, ActiveIn, Key
  <2>5. GrantOf(r)' = g
    BY <1>2, <2>2 DEF GrantOf, Grant
  <2> QED
    BY <1>6, <2>4, <2>5
<1> HIDE DEF g
<1>9. A!Keep(InForceNow \cup {g})
  BY <1>7, Keeps
<1>10. RunningNow' = RunningNow
  BY <1>2 DEF RunningNow
<1> QED
  BY <1>8, <1>9, <1>10, AdmissionsRefine DEF A!Next, A!Approve, RunningNow, RunningPCs

\* A provider that is no Reviewer approves the request it was asked about.
LEMMA ProviderRefines ==
    ASSUME MaxEpoch = 1, IInv, RInv, FreshUndecided, [Next]_vars, AllInForce',
           NEW r \in Reqs, ProviderAnswersRequest(r), Holding(r)'
    PROVE  A!Next
<1> DEFINE g == GrantOf(r)'
<1>1. TypeOK
  BY DEF IInv
<1>2. /\ leases' = leases /\ request' = request
      /\ \A q \in Reqs \ {r} : pc'[q] = pc[q] /\ decision'[q] = decision[q]
      /\ pc[r] = "entered" /\ pc'[r] = "returned"
  BY <1>1 DEF ProviderAnswersRequest, handlers, TypeOK
<1>3. ASSUME NEW q \in Reqs \ {r}, Holding(q)'
      PROVE  Holding(q) /\ GrantOf(q)' = GrantOf(q)
  <2>1. pc[q] \in {"waiting", "returned"} /\ decision'[q] = decision[q]
    BY <1>2, <1>3 DEF Holding
  <2>2. sessions' = sessions
    BY DEF ProviderAnswersRequest, handlers
  <2> QED
    BY <1>2, <1>3, <2>1, <2>2
       DEF Holding, Granted, Valid, Scopes, ContextActive, Key, GrantOf, Grant
<1>4. InForceNow' = {Grant(l, l.scope, l.approver) : l \in leases'}
                    \cup {GrantOf(q)' : q \in {s \in Reqs : Holding(s)'}}
  BY DEF InForceNow, GrantOf, Grant
<1>5. InForceNow' \subseteq InForceNow \cup {g} /\ g \in InForceNow'
  BY <1>2, <1>3, <1>4 DEF InForceNow, GrantOf
<1>6. RunningNow' = RunningNow
  BY <1>2 DEF RunningNow, RunningPCs
<1> HIDE DEF g
<1>7. A!Keep(InForceNow \cup {g})
  BY <1>5, Keeps
<1> QED
  BY <1>5, <1>6, <1>7, AdmissionsRefine DEF A!Next, A!Approve, RunningNow, RunningPCs

\* The broker implements Authority: no approval outlives its turn or session,
\* none is used outside its scope, and no authority appears that nobody gave.
THEOREM BrokerImplementsAuthority ==
    ASSUME MaxEpoch = 1
    PROVE  Spec => ImplementsAuthority
<1>1. Init => A!Init
  BY DEF Init, A!Init, InForceNow, Holding
<1>2. /\ IInv /\ IInv' /\ RInv /\ AuthorisedInv /\ AllInForce' /\ [Next]_vars
      => [A!Next]_(A!vars)
  <2> SUFFICES ASSUME IInv, IInv', RInv, FreshUndecided, AllInForce', [Next]_vars
               PROVE  A!Next
    BY DEF AuthorisedInv
  <2>1. CASE \E r \in Reqs, d \in Decisions : Approves(r, d)
    BY <2>1, ApproveRefines
  <2>2. CASE \E r \in Reqs : ProviderAnswersRequest(r) /\ Holding(r)'
    BY <2>2, ProviderRefines
  <2>3. CASE \E r \in Reqs : pc'[r] \in RunningPCs /\ pc[r] \notin RunningPCs
    BY <2>3, RunningGained, RunRefines
  <2>4. ASSUME ~ \E r \in Reqs, d \in Decisions : Approves(r, d),
               ~ \E r \in Reqs : ProviderAnswersRequest(r) /\ Holding(r)',
               ~ \E r \in Reqs : pc'[r] \in RunningPCs /\ pc[r] \notin RunningPCs
        PROVE  A!Next
    <3>1. A!Keep(InForceNow)
      BY <2>4, NothingGained, Keeps
    <3>2. RunningNow' \subseteq RunningNow
      BY <2>4 DEF RunningNow
    <3> QED
      BY <3>1, <3>2, AdmissionsRefine DEF A!Next, A!Lapse, RunningNow, RunningPCs
  <2> QED
    BY <2>1, <2>2, <2>3, <2>4
<1>3. Spec => []RInv
  BY RInvariance
<1> QED
  BY <1>1, <1>2, <1>3, Invariance, AuthorisedInvariance, InForceHolds, PTL
     DEF Spec, ImplementsAuthority, A!Spec

-----------------------------------------------------------------------------
(* What a reviewer decides through the broker.  ManualProvider's promises  *)
(* are made for contexts that end one at a time; the broker ends several   *)
(* at once, prunes in the section that decides, and lets requests go on    *)
(* that were never queued.                                                 *)

\* A decision made about a request that has been queued is final, and one that
\* denies never lets it run.
LEMMA DecidedStays ==
    ASSUME IInv, [Next]_vars, NEW r \in Reqs, decision[r].outcome # "",
           pc[r] \notin {"idle", "entered"}
    PROVE  /\ decision'[r] = decision[r]
           /\ pc'[r] \notin {"idle", "entered"}
           /\ decision[r].outcome = "denied" /\ pc[r] \notin RunningPCs => pc'[r] \notin RunningPCs
<1> USE DEF clients, handlers, queue, history
<1> DEFINE Stays == decision'[r] = decision[r] /\ pc'[r] \notin {"idle", "entered"}
<1>1. TypeOK
  BY DEF IInv
<1>2. ASSUME Environment \/ Lifecycle \/ UNCHANGED vars \/ \E l \in leases : Revoke(l)
      PROVE  Stays
  <2>1. Lifecycle => pc' = pc /\ decision' = decision
    BY DEF Lifecycle, SessionStarted, TurnStarted, AmbiguousTurnStart, TurnEnded,
       TurnStopped, SessionEnded, PruneOnly
  <2> QED
    BY <1>2, <2>1 DEF Environment, Tick, ProcessExits, ProcessReturns, Disconnect, DeadlineFires, Restart,
       Revoke, vars
<1>3. ASSUME Review
      PROVE  Stays
  <2>1. pc' = pc
    BY <1>3 DEF Review, ListPending, Approve, Deny, DecideNotFound
  <2>2. ASSUME NEW ctxs
        PROVE  P!Pruned(ctxs)[r] = decision[r]
    BY DEF P!Pruned, P!Open
  <2>3. ASSUME NEW q \in Reqs, NEW outcome \in {"approved", "denied"}, NEW scope, NEW a, NEW ctxs,
               decision' = P!Reviewed(q, P!ReviewDecision(outcome, scope, a), ctxs)
        PROVE  decision'[r] = decision[r]
    BY <2>2, <2>3 DEF P!Reviewed, P!Finish
  <2>4. CASE ListPending \/ \E q \in Reqs, t \in ReadTimes : DecideNotFound(q, t)
    BY <2>1, <2>2, <2>4 DEF ListPending, DecideNotFound
  <2>5. ASSUME NEW q \in Reqs, NEW scope \in Scopes, NEW a \in Approvers, NEW t \in ReadTimes,
               Approve(q, scope, a, t) \/ Deny(q, scope, a, t)
        PROVE  Stays
    <3>1. decision'[r] = decision[r]
      BY <2>3, <2>5 DEF Approve, Deny
    <3> QED
      BY <2>1, <3>1
  <2> QED
    BY <1>3, <2>4, <2>5 DEF Review
<1>4. ASSUME NEW q \in Reqs, NEW p, NEW t,
             RequestWithoutTurn(q, p, t) \/ RequestOnLease(q, p, t) \/ RequestCreated(q, p, t)
      PROVE  Stays
  <2>1. q # r
    BY <1>4 DEF RequestWithoutTurn, RequestOnLease, RequestCreated
  <2> QED
    BY <1>1, <1>4, <2>1 DEF RequestWithoutTurn, RequestOnLease, RequestCreated, TypeOK
<1>5. ASSUME NEW q \in Reqs, Thread(q)
      PROVE  Stays
  <2>1. CASE ProviderFinishOnContext(q)
    <3>1. q # r
      BY <2>1 DEF ProviderFinishOnContext, P!FinishOnContext, P!Open
    <3> QED
      BY <1>1, <2>1, <3>1 DEF ProviderFinishOnContext, P!FinishOnContext, TypeOK
  <2>2. CASE ProviderAnswersRequest(q)
    <3>1. q # r
      BY <2>2 DEF ProviderAnswersRequest
    <3> QED
      BY <1>1, <2>2, <3>1 DEF ProviderAnswersRequest, TypeOK
  <2>3. CASE ~ProviderFinishOnContext(q) /\ ~ProviderAnswersRequest(q)
    BY <1>1, <1>5, <2>3 DEF Thread, ProviderRegister, ProviderCollect, P!Register, P!Collect,
       ResumeApproved, ResumeRefused, StartExecution, FinishExecution, TypeOK
  <2> QED
    BY <2>1, <2>2, <2>3
<1>6. Stays
  <2> HIDE DEF Stays
  <2> QED
    BY <1>2, <1>3, <1>4, <1>5 DEF Next, Request
<1>7. ASSUME decision[r].outcome = "denied", pc[r] \notin RunningPCs
      PROVE  pc'[r] \notin RunningPCs
  <2>1. ~ResumeApproved(r)
    BY <1>7 DEF ResumeApproved, Granted
  <2>2. \A p, t : ~RequestOnLease(r, p, t)
    BY DEF RequestOnLease
  <2> QED
    BY <1>7, <2>1, <2>2, RunningGained
<1> QED
  BY <1>6, <1>7

\* A decision, once made, is never replaced: neither by another review, nor by a
\* context that ends late, nor by a request that resumes or a restart.
KeepsDecisions == \A r \in Reqs : ~P!Open(r) => decision'[r] = decision[r]

DecisionsFinal == [][KeepsDecisions]_vars

\* No step of the broker ever replaces a decision.
THEOREM DecisionsAlwaysFinal == Spec => DecisionsFinal
<1>1. IInv /\ AuthorisedInv /\ [Next]_vars => KeepsDecisions
  <2> SUFFICES ASSUME IInv, AuthorisedInv, [Next]_vars, NEW r \in Reqs, ~P!Open(r)
               PROVE  decision'[r] = decision[r]
    BY DEF KeepsDecisions
  <2>1. decision[r].outcome # "" /\ pc[r] \notin {"idle", "entered"}
    BY DEF AuthorisedInv, FreshUndecided, P!Open
  <2> QED
    BY <2>1, DecidedStays
<1> QED
  BY <1>1, Invariance, AuthorisedInvariance, PTL DEF Spec, DecisionsFinal

\* Step decides t with d, and with t what d's scope reaches.
Reviews(t, d) ==
    /\ decision' = P!Reviewed(t, d, ctx')
    /\ d.outcome \in {"approved", "denied"}
    /\ d.outcome = "denied" => d.scope = "command"
    /\ UNCHANGED <<pending, request, inflight>>

\* A queued request is decided by a review only; all else that ends in the queue
\* expires or is cancelled.
LEMMA DecidedByReview ==
    ASSUME IInv, [Next]_vars, NEW r \in pending, P!Open(r),
           decision'[r].outcome \in {"approved", "denied"}
    PROVE  \E t \in pending, d \in Decisions : Reviews(t, d)
<1> USE DEF clients, handlers, queue, history
<1>1. TypeOK /\ r \in Reqs /\ pc[r] = "waiting" /\ decision[r].outcome = ""
  BY DEF IInv, TypeOK, RequestsAccounted, P!Open
<1>2. ASSUME NEW ctxs
      PROVE  decision' # P!Pruned(ctxs)
  BY <1>1, PrunedStep
<1>3. decision' # decision
  BY <1>1
<1>4. ~UNCHANGED vars /\ ~Environment /\ ~Lifecycle /\ ~ \E l \in leases : Revoke(l)
  <2>1. ~Environment
    BY <1>3 DEF Environment, Tick, ProcessExits, ProcessReturns, Disconnect, DeadlineFires, Restart
  <2>2. ~Lifecycle
    BY <1>3 DEF Lifecycle, SessionStarted, TurnStarted, AmbiguousTurnStart, TurnEnded,
       TurnStopped, SessionEnded, PruneOnly
  <2> QED
    BY <1>3, <2>1, <2>2 DEF vars, Revoke
<1>5. ~Request
  <2>1. ASSUME NEW q \in Reqs, NEW p, NEW t,
               RequestWithoutTurn(q, p, t) \/ RequestOnLease(q, p, t) \/ RequestCreated(q, p, t)
        PROVE  FALSE
    <3>1. pc[q] = "idle" /\ q # r
      BY <1>1, <2>1 DEF RequestWithoutTurn, RequestOnLease, RequestCreated
    <3>2. decision'[r] = decision[r]
      BY <1>1, <2>1, <3>1 DEF RequestWithoutTurn, RequestOnLease, RequestCreated, TypeOK
    <3> QED
      BY <1>1, <3>2
  <2>2. ASSUME NEW q \in Reqs, ProviderFinishOnContext(q)
        PROVE  FALSE
    <3>1. decision'[r] = decision[r] \/ decision'[r] = P!Ended(ctx[q])
      BY <1>1, <2>2 DEF ProviderFinishOnContext, P!FinishOnContext, TypeOK
    <3>2. P!Ended(ctx[q]).outcome \in {"expired", "cancelled"}
      BY DEF P!Ended, P!Undecided
    <3> QED
      BY <1>1, <3>1, <3>2
  <2>3. ASSUME NEW q \in Reqs, ProviderAnswersRequest(q)
        PROVE  FALSE
    <3>1. decision'[r] = decision[r]
      BY <1>1, <2>3 DEF ProviderAnswersRequest, TypeOK
    <3> QED
      BY <1>1, <3>1
  <2>4. ASSUME NEW q \in Reqs, Thread(q)
        PROVE  FALSE
    BY <1>3, <2>2, <2>3, <2>4 DEF Thread, ProviderRegister, ProviderCollect, P!Register, P!Collect,
       ResumeApproved, ResumeRefused, StartExecution, FinishExecution
  <2> QED
    BY <2>1, <2>4 DEF Request
<1>6. Review
  BY <1>4, <1>5 DEF Next
<1>7. PICK t \in Reqs, scope \in Scopes, a \in Approvers, time \in ReadTimes :
         Approve(t, scope, a, time) \/ Deny(t, scope, a, time)
  BY <1>2, <1>6 DEF Review, ListPending, DecideNotFound
<1>8. PICK outcome \in {"approved", "denied"} :
         /\ decision' = P!Reviewed(t, P!ReviewDecision(outcome, scope, a), ctx')
         /\ t \in pending
         /\ UNCHANGED <<pending, request, inflight>>
  BY <1>7 DEF Approve, Deny, P!Reviewable
<1> DEFINE d == P!ReviewDecision(outcome, scope, a)
<1>9. /\ d \in Decisions /\ d.outcome \in {"approved", "denied"}
      /\ d.outcome = "denied" => d.scope = "command"
  BY ReviewDecisionType DEF P!ReviewDecision
<1> HIDE DEF d
<1>10. Reviews(t, d)
  BY <1>8, <1>9 DEF Reviews, d
<1> QED
  BY <1>8, <1>9, <1>10

\* What a review does to an open item of the queue.
LEMMA ReviewsEffect ==
    ASSUME NEW t \in pending, NEW d \in Decisions, Reviews(t, d),
           NEW r \in pending, pending \subseteq Reqs, P!Open(r)
    PROVE  /\ decision'[r].outcome \in {"approved", "denied"} =>
                r \in P!Resolved(t, d) /\ ctx'[r] = "live" /\ decision'[r] = d
           /\ r \in P!Resolved(t, d) /\ ctx'[r] = "live" => decision'[r] = d
<1>1. P!Pruned(ctx')[r] = IF ctx'[r] # "live" THEN P!Ended(ctx'[r]) ELSE decision[r]
  BY DEF P!Pruned
<1>2. P!Ended(ctx'[r]).outcome \in {"expired", "cancelled"} /\ decision[r].outcome = ""
  BY DEF P!Ended, P!Undecided, P!Open
<1>3. decision'[r] = IF r \in P!Resolved(t, d) /\ P!Pruned(ctx')[r].outcome = ""
                     THEN d ELSE P!Pruned(ctx')[r]
  BY DEF Reviews, P!Reviewed, P!Finish
<1> QED
  BY <1>1, <1>2, <1>3 DEF Reviews

\* A review decides only requests whose context still lives after the pruning the
\* same section does, and they are of the turn that is active then: an approval
\* of a whole turn or session takes no request along that a later turn, a closed
\* connection or a dead process has overtaken.
KeepsToTurn ==
    \A r \in pending :
        P!Open(r) /\ decision'[r].outcome \in {"approved", "denied"} =>
          /\ ctx'[r] = "live" /\ r \in inflight'
          /\ sessions'[Key(request'[r])].state = "active"
          /\ sessions'[Key(request'[r])].turn = request'[r].turn

ReviewsKeepToTurn == [][KeepsToTurn]_vars

\* No review ever decides a request of a turn that is not active.
THEOREM ReviewsAlwaysKeepToTurn == Spec => ReviewsKeepToTurn
<1>1. IInv /\ IInv' /\ [Next]_vars => KeepsToTurn
  <2> SUFFICES ASSUME IInv, IInv', [Next]_vars, NEW r \in pending, P!Open(r),
                      decision'[r].outcome \in {"approved", "denied"}
               PROVE  /\ ctx'[r] = "live" /\ r \in inflight'
                      /\ sessions'[Key(request'[r])].state = "active"
                      /\ sessions'[Key(request'[r])].turn = request'[r].turn
    BY DEF KeepsToTurn
  <2>1. pending \subseteq Reqs
    BY DEF IInv, TypeOK
  <2>2. PICK t \in pending, d \in Decisions : Reviews(t, d)
    BY DecidedByReview
  <2>3. ctx'[r] = "live"
    BY <2>1, <2>2, ReviewsEffect
  <2> QED
    BY <2>1, <2>3 DEF IInv, LiveRequestsCurrent, ContextActive
<1> QED
  BY <1>1, Invariance, PTL DEF Spec, ReviewsKeepToTurn

\* An approval of a turn or a session leaves none of its requests behind: every
\* open item of that turn or session whose context lives gets the same decision
\* in the same step, so that nobody is asked again about what was just approved.
TakesAlong ==
    \A r, q \in pending :
        /\ P!Open(r) /\ decision'[r].outcome = "approved"
        /\ P!Open(q) /\ ctx'[q] = "live" /\ P!SameSession(request[q], request[r])
        /\ \/ decision'[r].scope = "session"
           \/ decision'[r].scope = "message" /\ request[q].turn = request[r].turn
        => decision'[q] = decision'[r]

NoneLeftBehind == [][TakesAlong]_vars

\* No approval of a turn or session ever leaves one of its requests open.
THEOREM NoneEverLeftBehind == Spec => NoneLeftBehind
<1>1. IInv /\ [Next]_vars => TakesAlong
  <2> SUFFICES ASSUME IInv, [Next]_vars, NEW r \in pending, NEW q \in pending,
                      P!Open(r), decision'[r].outcome = "approved",
                      P!Open(q), ctx'[q] = "live", P!SameSession(request[q], request[r]),
                      \/ decision'[r].scope = "session"
                      \/ decision'[r].scope = "message" /\ request[q].turn = request[r].turn
               PROVE  decision'[q] = decision'[r]
    BY DEF TakesAlong
  <2>1. pending \subseteq Reqs
    BY DEF IInv, TypeOK
  <2>2. PICK t \in pending, d \in Decisions : Reviews(t, d)
    BY DecidedByReview
  <2>3. r \in P!Resolved(t, d) /\ decision'[r] = d
    BY <2>1, <2>2, ReviewsEffect
  <2>4. P!Resolved(t, d) = {c \in pending :
                              /\ P!SameSession(request[c], request[t])
                              /\ d.scope = "session" \/ request[c].turn = request[t].turn}
    BY <2>3 DEF P!Resolved
  <2>5. q \in P!Resolved(t, d)
    BY <2>3, <2>4 DEF P!SameSession
  <2> QED
    BY <2>1, <2>2, <2>3, <2>5, ReviewsEffect
<1> QED
  BY <1>1, Invariance, PTL DEF Spec, NoneLeftBehind

=============================================================================
